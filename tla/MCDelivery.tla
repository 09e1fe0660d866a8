----------------------------- MODULE MCDelivery -----------------------------
(***************************************************************************)
(* Instances of DeliveryClaims: which adapters and policies a run covers.  *)
(***************************************************************************)
EXTENDS DeliveryClaims

\* An adapter that reconciles and asks for it, one that reconciles, one that
\* only marks its dispatch, and one that ignores the callback.
Exact == [exact |-> TRUE, policy |-> "required", reconciles |-> TRUE, dispatches |-> TRUE,
          reusable |-> TRUE, callerRetries |-> FALSE, permanent |-> TRUE]
Reconciling == [exact |-> FALSE, policy |-> "required", reconciles |-> TRUE, dispatches |-> TRUE,
                reusable |-> FALSE, callerRetries |-> TRUE, permanent |-> FALSE]
Marking == [exact |-> FALSE, policy |-> "best_effort", reconciles |-> FALSE, dispatches |-> TRUE,
            reusable |-> TRUE, callerRetries |-> FALSE, permanent |-> FALSE]
Direct == [exact |-> FALSE, policy |-> "default", reconciles |-> FALSE, dispatches |-> FALSE,
           reusable |-> FALSE, callerRetries |-> FALSE, permanent |-> TRUE]

AllModes == {Exact, Reconciling, Marking, Direct}
=============================================================================
