---------------------------- MODULE ExclusiveUse -----------------------------
(***************************************************************************)
(* What a component that hands out resources promises: a holder may take   *)
(* a set of resources, or give all of them back, but never takes one that  *)
(* another holder has.                                                     *)
(***************************************************************************)
CONSTANTS Holders, Resources

VARIABLE use      \* use[h]: the resources holder h has

Init == use = [h \in Holders |-> {}]

Take(h, S) ==
  /\ \A g \in Holders \ {h} : use[g] \cap S = {}
  /\ use' = [use EXCEPT ![h] = S]

Next == \E h \in Holders, S \in SUBSET Resources : Take(h, S)

Spec == Init /\ [][Next]_use
==============================================================================
