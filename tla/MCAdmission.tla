----------------------------- MODULE MCAdmission -----------------------------
(***************************************************************************)
(* Small instances of SuspendLeases.                                       *)
(***************************************************************************)
EXTENDS SuspendLeases, TLC

\* The ways in that park, with the request that does not.
ParkingKinds == {"request", "whenOpen", "independent"}
\* The ways in that depend on a root that already exists, or on the restart.
InheritingKinds == {"continuation", "readmission", "startup", "restart"}

AllKinds == ParkingKinds \cup InheritingKinds

Interchangeable == Permutations(Chain) \cup Permutations(Root)
=============================================================================
