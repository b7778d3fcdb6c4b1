----------------------------- MODULE MCWorkflows -----------------------------
(* Small instances of Workflows for TLC. *)
EXTENDS Workflows, TLC

CONSTANTS p1, p2

\* Three actions that overlap as they like; two of them, with two people to
\* assign to and a handler that may die; three actions one after the other.
ThreeSettings ==
  {[overlap |-> TRUE, crashes |-> 0, calls |-> 3, people |-> {p1}],
   [overlap |-> TRUE, crashes |-> 1, calls |-> 2, people |-> {p1, p2}],
   [overlap |-> FALSE, crashes |-> 0, calls |-> 3, people |-> {p1}]}

CallSymmetry == Permutations(Calls)
==============================================================================
