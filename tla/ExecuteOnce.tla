----------------------------- MODULE ExecuteOnce -----------------------------
(***************************************************************************)
(* What the idempotency key of the action engine promises: an action is    *)
(* claimed once, takes effect at most once, while it is claimed, and once  *)
(* it is settled it is over.  A claim need not be settled: its claimant    *)
(* may be gone.                                                            *)
(***************************************************************************)
CONSTANT Actions
VARIABLES stage, effects

Init ==
  /\ stage = [a \in Actions |-> "open"]
  /\ effects = [a \in Actions |-> 0]

Claim(a) ==
  /\ stage[a] = "open"
  /\ stage' = [stage EXCEPT ![a] = "claimed"]
  /\ UNCHANGED effects

Effect(a) ==
  /\ stage[a] = "claimed" /\ effects[a] = 0
  /\ effects' = [effects EXCEPT ![a] = 1]
  /\ UNCHANGED stage

Settle(a) ==
  /\ stage[a] = "claimed"
  /\ stage' = [stage EXCEPT ![a] = "settled"]
  /\ UNCHANGED effects

Next == \E a \in Actions : Claim(a) \/ Effect(a) \/ Settle(a)

Spec == Init /\ [][Next]_<<stage, effects>>
==============================================================================
