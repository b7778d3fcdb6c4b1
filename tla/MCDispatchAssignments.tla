------------------------ MODULE MCDispatchAssignments ------------------------
(* Small instances of DispatchAssignments for TLC. *)
EXTENDS DispatchAssignments, TLC

\* One handler at a time, and two.
OneOrTwo == {1, 2}

CallSymmetry == Permutations(Calls)
==============================================================================
