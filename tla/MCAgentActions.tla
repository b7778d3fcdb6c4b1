--------------------------- MODULE MCAgentActions ---------------------------
(***************************************************************************)
(* Instances of AgentActions for TLC.                                      *)
(***************************************************************************)
EXTENDS AgentActions, TLC

Symmetry == Permutations(Calls) \cup Permutations(Proposals)
YesOrNo == {"APPROVED", "REJECTED"}
AnyFault == Steps \ {"idle", "done"}

\* Everything at once; everything, one review after the other; reviews at
\* once without crashes and with errors inside the try block only.
ThreeSettings == {[width |-> 3, crashes |-> TRUE, faults |-> AnyFault],
                  [width |-> 1, crashes |-> TRUE, faults |-> AnyFault],
                  [width |-> 3, crashes |-> FALSE, faults |-> Trying]}
==============================================================================
