----------------------- MODULE MCCommerceOrchestration -----------------------
(***************************************************************************)
(* Instances of CommerceOrchestration for TLC.                             *)
(***************************************************************************)
EXTENDS CommerceOrchestration, TLC

CONSTANTS scheduled, signal

TwoKeys == {scheduled, signal}
TwoCooldowns == scheduled :> 1 @@ signal :> 0
TriggerSymmetry == Permutations(Triggers)
AnyFault == Steps \ {"idle", "done"}

\* Two triggers processed at a time, with everything that can go wrong; one
\* at a time, with two keys; two at a time with errors in the try block only.
ThreeModes ==
  {[width |-> 2, keys |-> {scheduled}, crashes |-> TRUE, faults |-> AnyFault],
   [width |-> 1, keys |-> TwoKeys, crashes |-> TRUE, faults |-> AnyFault],
   [width |-> 2, keys |-> {scheduled}, crashes |-> FALSE, faults |-> Trying]}
==============================================================================
