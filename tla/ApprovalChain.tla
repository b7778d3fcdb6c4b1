---------------------------- MODULE ApprovalChain ----------------------------
(***************************************************************************)
(* What the approvals component promises, without requests in flight: a    *)
(* chain of N steps is approved strictly from the first to the last, each  *)
(* step is resolved once, and the first refusal or cancellation, or the    *)
(* approval of the last step, resolves the whole request for good.         *)
(***************************************************************************)
EXTENDS Naturals

CONSTANT N            \* the number of steps of the request

VARIABLES
  outcome,            \* "none", "open", "approved", "rejected", "cancelled"
  frontier            \* how many steps have been approved

vars == <<outcome, frontier>>

Outcomes == {"none", "open", "approved", "rejected", "cancelled"}

TypeOK == outcome \in Outcomes /\ frontier \in 0..N

Init == outcome = "none" /\ frontier = 0

Open ==
  /\ outcome = "none"
  /\ outcome' = "open"
  /\ UNCHANGED frontier

\* The step at the frontier is approved: the chain moves on, or is approved.
Approve ==
  /\ outcome = "open"
  /\ frontier' = frontier + 1
  /\ outcome' = IF frontier' = N THEN "approved" ELSE "open"

\* The step at the frontier refuses: the frontier stays where it was.
Refuse ==
  /\ outcome = "open"
  /\ outcome' \in {"rejected", "cancelled"}
  /\ UNCHANGED frontier

Next == Open \/ Approve \/ Refuse

Spec == Init /\ [][Next]_vars
==============================================================================
