------------------------------ MODULE MCSuspend ------------------------------
(***************************************************************************)
(* Small instances of GatewaySuspend.                                      *)
(***************************************************************************)
EXTENDS GatewaySuspend, TLC

RpcAndTimer == {"request", "whenOpen"}

\* Every way in that a suspension treats in a way of its own.
AllWays == {"request", "whenOpen", "independent", "restart", "continuation"}

Interchangeable == Permutations(Chain) \cup Permutations(Root)
=============================================================================
