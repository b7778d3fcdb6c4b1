-------------------------- MODULE MCActionExecution --------------------------
(***************************************************************************)
(* Instances of ActionExecution for TLC.                                   *)
(***************************************************************************)
EXTENDS ActionExecution, TLC

CallSymmetry == Permutations(Calls)
OneOfEach == {"RETRY_SHOPIFY_SYNC", "TRIGGER_DATA_REFRESH", "RECONNECT_STORE"}

\* Every statement of the try block of execute may throw.
TryFaults == TryBlock \X {"POSITIVE"}

\* Four requests, two at a time, without faults; three at once, and three one
\* after the other, with a try block that may throw anywhere.
ThreeSettings == {[width |-> 2, calls |-> 4, faults |-> {}],
                  [width |-> 3, calls |-> 3, faults |-> TryFaults],
                  [width |-> 1, calls |-> 3, faults |-> TryFaults]}
==============================================================================
