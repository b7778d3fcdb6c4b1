----------------------------- MODULE MCApprovals -----------------------------
(* Small instances of Approvals for TLC. *)
EXTENDS Approvals, TLC

CONSTANTS u1, u2

\* The first step has two approvers: one by id, the other by role.
MCApprovers == [s \in Steps |-> IF s = 1 THEN {u1, u2} ELSE {u2}]

\* Decisions that overlap as they like and one that dies on the way; and
\* decisions that are made one after the other, one of which may die.
BothSettings == {[overlap |-> o, crashes |-> 1] : o \in BOOLEAN}

OverlapOnly == {[overlap |-> TRUE, crashes |-> 0]}

CallSymmetry == Permutations(Calls)

==============================================================================
