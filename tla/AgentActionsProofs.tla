------------------------- MODULE AgentActionsProofs -------------------------
(***************************************************************************)
(* Proofs about AgentActions, for every set of proposals and of requests,  *)
(* every width, and every set of statements that may throw:                *)
(* its variables have their types, and it implements ExecuteOnce.          *)
(*                                                                         *)
(* The refinement rests on Ownership: a request that has inserted the log  *)
(* of a proposal is the only one past that insert, for that proposal, so   *)
(* what it knows of the log and of the handler from its own steps stays    *)
(* true while the others go on.                                            *)
(***************************************************************************)
EXTENDS AgentActions, FiniteSetTheorems, TLAPS

(* The choices made in Resting are in their sets. *)
LEMMA RestingTyped ==
  \A pc \in Steps : Resting(pc) \in Call /\ Resting(pc).pc = pc
<1>1. (CHOOSE p \in Proposals : TRUE) \in Proposals
  BY AgentActionsAssumption
<1>2. (CHOOSE d \in Decisions : TRUE) \in Decisions
  BY AgentActionsAssumption
<1> QED
  BY <1>1, <1>2 DEF Resting, Call, ProposalStatus, Results

(* Every step of the specification keeps the types. *)
LEMMA TypeStep == TypeOK /\ [Next]_vars => TypeOK'
<1> SUFFICES ASSUME TypeOK, [Next]_vars PROVE TypeOK'
  OBVIOUS
<1> USE DEF TypeOK
<1>1. CASE CommitRun
  BY <1>1 DEF CommitRun, Evaluated, RunStatus, ProposalStatus
<1>2. CASE FinishRun
  BY <1>2 DEF FinishRun
<1>3. CASE FailRun
  BY <1>3 DEF FailRun, RunStatus
<1>4. ASSUME NEW c \in Calls, NEW p \in Proposals, NEW decision \in Decisions,
             Review(c, p, decision)
      PROVE  TypeOK'
  <2>1. Resting("updating") \in Call
    BY RestingTyped DEF Steps
  <2>2. [Resting("updating") EXCEPT !.p = p, !.decision = decision] \in Call
    BY <2>1 DEF Call
  <2> QED
    BY <1>4, <2>2 DEF Review
<1>5. ASSUME NEW c \in Calls, Advance(c)
      PROVE  TypeOK'
  <2> DEFINE at == call[c].p
  <2>0. at \in Proposals /\ call[c] \in Call /\ Resting("done") \in Call
    BY RestingTyped DEF Call, Steps
  <2>a. ASSUME NEW pc \in Steps, Goto(c, pc) PROVE call' \in [Calls -> Call]
    BY <2>a, <2>0 DEF Goto, Call
  <2>b. ASSUME Finish(c) PROVE call' \in [Calls -> Call]
    BY <2>b, <2>0 DEF Finish
  <2>c. ASSUME NEW status \in LogStatus, SetLog(c, status)
        PROVE  log' \in [Proposals -> LogStatus \cup {"NONE"}]
    BY <2>c, <2>0 DEF SetLog
  <2>d. ASSUME NEW status \in ProposalStatus,
               proposals' = [proposals EXCEPT ![at].status = status]
        PROVE  proposals' \in [Proposals -> [exists : BOOLEAN,
                 status : ProposalStatus, requiresApproval : BOOLEAN]]
    BY <2>d, <2>0
  <2>1. CASE UpdateProposal(c)
    <3>1. call[c].decision \in ProposalStatus
      BY <2>0, AgentActionsAssumption DEF Call
    <3> QED
      BY <2>1, <3>1, <2>a, <2>b, <2>d DEF UpdateProposal, Steps
  <2>2. CASE LoadProposal(c)
    <3>1. proposals[at].status \in ProposalStatus
      BY <2>0
    <3>2. [call[c] EXCEPT !.pc = "lookup", !.seen = proposals[at].status]
            \in Call
      BY <2>0, <3>1 DEF Call, Steps
    <3>3. call' = [call EXCEPT ![c] =
            [call[c] EXCEPT !.pc = "lookup", !.seen = proposals[at].status]]
      BY <2>2, <2>0 DEF LoadProposal
    <3> QED
      BY <2>2, <3>2, <3>3 DEF LoadProposal
  <2>3. CASE FindLog(c)
    BY <2>3, <2>a, <2>b DEF FindLog, Steps
  <2>4. CASE CreateLog(c)
    BY <2>4, <2>a, <2>b, <2>c DEF CreateLog, Steps, LogStatus
  <2>5. ASSUME NEW allowed \in BOOLEAN, NEW requires \in BOOLEAN,
               EvaluatePolicy(c, allowed, requires)
        PROVE  TypeOK'
    <3>1. \E pc \in Steps : Goto(c, pc)
      BY <2>5 DEF EvaluatePolicy, Steps
    <3> QED
      BY <2>5, <3>1, <2>a DEF EvaluatePolicy
  <2>6. CASE BlockLog(c)
    BY <2>6, <2>b, <2>c DEF BlockLog, LogStatus
  <2>7. CASE RequestApproval(c)
    BY <2>7, <2>0, <2>a DEF RequestApproval, Steps
  <2>8. CASE ParkLog(c)
    BY <2>8, <2>a, <2>c DEF ParkLog, LogStatus, Steps
  <2>9. CASE WaitRun(c)
    BY <2>9, <2>b DEF WaitRun, RunStatus
  <2>10. CASE StartLog(c)
    BY <2>10, <2>a, <2>c DEF StartLog, LogStatus, Steps
  <2>11. ASSUME NEW result \in Results, NEW throws \in BOOLEAN,
                Dispatch(c, result, throws)
         PROVE  TypeOK'
    <3> DEFINE pc == IF throws THEN "failing" ELSE "logging"
    <3>1. [call[c] EXCEPT !.pc = pc, !.result = result] \in Call
      BY <2>0 DEF Call, Steps
    <3>2. call' = [call EXCEPT ![c] =
            [call[c] EXCEPT !.pc = pc, !.result = result]]
      BY <2>11, <2>0 DEF Dispatch
    <3>3. dispatched' \in [Proposals -> Nat]
      BY <2>11, <2>0 DEF Dispatch
    <3> QED
      BY <2>11, <3>1, <3>2, <3>3 DEF Dispatch
  <2>12. CASE LogResult(c)
    <3>1. call[c].result \in LogStatus
      BY <2>0 DEF Call, Results, LogStatus
    <3> QED
      BY <2>12, <3>1, <2>a, <2>c DEF LogResult, Steps
  <2>13. CASE MarkExecuted(c)
    BY <2>13, <2>a, <2>d DEF MarkExecuted, Steps, ProposalStatus
  <2>14. CASE ActRun(c)
    BY <2>14, <2>a, <2>b DEF ActRun, Steps, RunStatus
  <2>15. ASSUME NEW verdict \in {"VERIFIED_SUCCESS", "VERIFIED_PARTIAL",
                                 "VERIFIED_FAILED"},
                VerifyRun(c, verdict)
         PROVE  TypeOK'
    BY <2>15, <2>b DEF VerifyRun, RunStatus
  <2>16. CASE FailLog(c)
    BY <2>16, <2>b, <2>c DEF FailLog, LogStatus
  <2>17. CASE Fault(c)
    BY <2>17, <2>a, <2>b DEF Fault, Steps
  <2> QED
    BY <1>5, <2>1, <2>2, <2>3, <2>4, <2>5, <2>6, <2>7, <2>8, <2>9, <2>10,
       <2>11, <2>12, <2>13, <2>14, <2>15, <2>16, <2>17 DEF Advance
<1>6. CASE Crash
  <2>1. Resting("done") \in Call
    BY RestingTyped DEF Steps
  <2> QED
    BY <1>6, <2>1 DEF Crash
<1>7. CASE UNCHANGED vars
  BY <1>7 DEF vars
<1> QED
  BY <1>1, <1>2, <1>3, <1>4, <1>5, <1>6, <1>7 DEF Next

(* Every variable keeps its type, whatever throws and whenever the process  *)
(* stops.                                                                   *)
THEOREM TypeCorrect == Spec => []TypeOK
<1>1. Init => TypeOK
  BY RestingTyped DEF Init, TypeOK, RunStatus, ProposalStatus, Steps
<1> QED
  BY <1>1, TypeStep, PTL DEF Spec

------------------------------------------------------------------------------
\* The request has inserted the log, and has not called the handler yet.
Fresh == {"evaluating", "blocking", "requesting", "parking", "starting",
          "dispatching"}
Holding == Fresh \cup {"waiting", "logging", "executed", "acting",
                       "verifying", "failing"}

\* What a request knows of the log it has inserted.
Known(c) ==
  /\ call[c].pc \in Fresh \ {"dispatching"} => log[call[c].p] = "PENDING"
  /\ call[c].pc \in {"dispatching", "logging"} => log[call[c].p] = "EXECUTING"
  /\ call[c].pc = "waiting" => log[call[c].p] = "PENDING_APPROVAL"
  /\ call[c].pc \in {"executed", "acting", "verifying"}
       => log[call[c].p] \in Results
  /\ call[c].pc = "failing" => log[call[c].p] \in Results \cup {"EXECUTING"}
  /\ call[c].pc \in Fresh => dispatched[call[c].p] = 0

\* No two requests hold the log of one proposal.
Alone(c, d) ==
  /\ call[c].pc \in Holding /\ call[d].pc \in Holding
  /\ call[c].p = call[d].p
  => c = d

\* The inductive strengthening of the refinement.
Ownership ==
  /\ \A c, d \in Calls : Alone(c, d)
  /\ \A c \in Calls : Known(c)
  /\ \A p \in Proposals : log[p] = "NONE" => dispatched[p] = 0

(* Every step of the specification keeps Ownership. *)
LEMMA OwnershipStep ==
  TypeOK /\ Ownership /\ [Next]_vars => Ownership'
<1> SUFFICES ASSUME TypeOK, Ownership, [Next]_vars PROVE Ownership'
  OBVIOUS
<1>0. /\ log \in [Proposals -> LogStatus \cup {"NONE"}]
      /\ dispatched \in [Proposals -> Nat]
      /\ call \in [Calls -> Call]
  BY DEF TypeOK
<1> USE <1>0 DEF Ownership, Known, Alone, Fresh, Holding, Results, Call, At
<1>1. CASE CommitRun
  BY <1>1 DEF CommitRun
<1>2. CASE FinishRun
  BY <1>2 DEF FinishRun
<1>3. CASE FailRun
  BY <1>3 DEF FailRun
<1>4. ASSUME NEW c \in Calls, NEW p \in Proposals, NEW decision \in Decisions,
             Review(c, p, decision)
      PROVE  Ownership'
  <2>1. call'[c].pc = "updating" /\ \A d \in Calls \ {c} : call'[d] = call[d]
    BY <1>4 DEF Review, Resting
  <2> QED
    BY <1>4, <2>1 DEF Review
<1>5. ASSUME NEW c \in Calls, Advance(c)
      PROVE  Ownership'
  <2>a. ASSUME Finish(c)
        PROVE  call'[c].pc = "done" /\ \A d \in Calls \ {c} : call'[d] = call[d]
    BY <2>a DEF Finish, Resting
  <2>b. ASSUME Finish(c), UNCHANGED dispatched,
               log' = log \/ \E status \in LogStatus :
                                call[c].pc \in Holding /\ SetLog(c, status)
        PROVE  Ownership'
    <3>1. PICK p \in Proposals : p = call[c].p
      OBVIOUS
    <3>2. \A d, e \in Calls : Alone(d, e)'
      BY <2>a, <2>b
    <3>3. \A q \in Proposals \ {p} : log'[q] = log[q]
      BY <2>b, <3>1 DEF SetLog
    <3>4. \A d \in Calls \ {c} :
            call'[d].pc \in Holding => log'[call'[d].p] = log[call[d].p]
      <4> SUFFICES ASSUME NEW d \in Calls \ {c}, call'[d].pc \in Holding
                   PROVE  log'[call'[d].p] = log[call[d].p]
        OBVIOUS
      <4>1. call'[d] = call[d] /\ call[d].p \in Proposals
        BY <2>a, <2>b
      <4>2. CASE log' = log
        BY <4>1, <4>2
      <4>3. CASE call[c].pc \in Holding
        BY <4>1, <4>3, <3>1, <3>3
      <4> QED
        BY <4>2, <4>3, <2>b
    <3>5. \A d \in Calls : Known(d)'
      <4> SUFFICES ASSUME NEW d \in Calls PROVE Known(d)'
        OBVIOUS
      <4>1. CASE d = c
        BY <4>1, <2>a, <2>b
      <4>2. CASE d # c
        BY <4>2, <2>a, <2>b, <3>4
      <4> QED
        BY <4>1, <4>2
    <3>6. \A q \in Proposals : log'[q] = "NONE" => log[q] = "NONE"
      BY <2>b, <3>1, <3>3 DEF SetLog, LogStatus
    <3> QED
      BY <2>b, <3>2, <3>5, <3>6
  <2>1. CASE UpdateProposal(c)
    <3>1. CASE Goto(c, "loading")
      BY <2>1, <3>1 DEF UpdateProposal, Goto
    <3> QED
      BY <2>1, <2>b, <3>1 DEF UpdateProposal
  <2>2. CASE LoadProposal(c)
    BY <2>2 DEF LoadProposal
  <2>3. CASE FindLog(c)
    BY <2>3, <2>a DEF FindLog, Goto
  <2>4. CASE CreateLog(c)
    <3>1. CASE log[call[c].p] = "NONE"
      <4>1. PICK p \in Proposals : p = call[c].p
        OBVIOUS
      <4>2. \A d \in Calls : call[d].pc \in Holding => call[d].p # p
        BY <3>1, <4>1
      <4>3. /\ log' = [log EXCEPT ![p] = "PENDING"]
            /\ call' = [call EXCEPT ![c].pc = "evaluating"]
            /\ dispatched' = dispatched /\ dispatched[p] = 0
        BY <2>4, <3>1, <4>1 DEF CreateLog, SetLog, Goto
      <4>4. \A d, e \in Calls : Alone(d, e)'
        BY <4>1, <4>2, <4>3
      <4>5. \A d \in Calls : Known(d)'
        BY <4>1, <4>2, <4>3
      <4> QED
        BY <4>3, <4>4, <4>5
    <3>2. CASE log[call[c].p] # "NONE"
      BY <2>4, <3>2, <2>b DEF CreateLog
    <3> QED
      BY <3>1, <3>2
  <2>5. ASSUME NEW allowed \in BOOLEAN, NEW requires \in BOOLEAN,
               EvaluatePolicy(c, allowed, requires)
        PROVE  Ownership'
    <3>1. \E pc \in {"blocking", "requesting", "starting"} : Goto(c, pc)
      BY <2>5 DEF EvaluatePolicy
    <3> QED
      BY <2>5, <3>1 DEF EvaluatePolicy, Goto
  <2>6. CASE BlockLog(c)
    BY <2>6, <2>a DEF BlockLog, SetLog
  <2>7. CASE RequestApproval(c)
    BY <2>7 DEF RequestApproval, Goto
  <2>8. CASE ParkLog(c)
    BY <2>8 DEF ParkLog, SetLog, Goto
  <2>9. CASE WaitRun(c)
    BY <2>9, <2>a DEF WaitRun
  <2>10. CASE StartLog(c)
    BY <2>10 DEF StartLog, SetLog, Goto
  <2>11. ASSUME NEW result \in Results, NEW throws \in BOOLEAN,
                Dispatch(c, result, throws)
         PROVE  Ownership'
    <3>1. /\ call'[c].pc \in {"failing", "logging"}
          /\ call'[c].p = call[c].p
          /\ \A d \in Calls \ {c} : call'[d] = call[d]
      BY <2>11 DEF Dispatch
    <3> QED
      BY <2>11, <3>1 DEF Dispatch
  <2>12. CASE LogResult(c)
    BY <2>12 DEF LogResult, SetLog, Goto
  <2>13. CASE MarkExecuted(c)
    BY <2>13 DEF MarkExecuted, Goto
  <2>14. CASE ActRun(c)
    <3>1. CASE Goto(c, "verifying")
      BY <2>14, <3>1 DEF ActRun, Goto
    <3> QED
      BY <2>14, <2>b, <3>1 DEF ActRun
  <2>15. ASSUME NEW verdict \in {"VERIFIED_SUCCESS", "VERIFIED_PARTIAL",
                                 "VERIFIED_FAILED"},
                VerifyRun(c, verdict)
         PROVE  Ownership'
    BY <2>15, <2>a DEF VerifyRun
  <2>16. CASE FailLog(c)
    BY <2>16, <2>b DEF FailLog, LogStatus
  <2>17. CASE Fault(c)
    BY <2>17, <2>a DEF Fault, Trying, Goto
  <2> QED
    BY <1>5, <2>1, <2>2, <2>3, <2>4, <2>5, <2>6, <2>7, <2>8, <2>9, <2>10,
       <2>11, <2>12, <2>13, <2>14, <2>15, <2>16, <2>17 DEF Advance
<1>6. CASE Crash
  <2>1. \A c \in Calls : call'[c] = call[c] \/ call'[c].pc = "done"
    BY <1>6 DEF Crash, Resting
  <2> QED
    BY <1>6, <2>1 DEF Crash
<1>7. CASE UNCHANGED vars
  BY <1>7 DEF vars
<1> QED
  BY <1>1, <1>2, <1>3, <1>4, <1>5, <1>6, <1>7 DEF Next

(* A step of the engine is a step of ExecuteOnce for the proposal of the    *)
(* request that takes it, or none.                                          *)
LEMMA RefinementStep ==
  TypeOK /\ Ownership /\ [Next]_vars
    => [Once!Next]_<<[p \in Proposals |-> Stage(p)], dispatched>>
<1> SUFFICES ASSUME TypeOK, Ownership, [Next]_vars
             PROVE  [Once!Next]_<<[p \in Proposals |-> Stage(p)], dispatched>>
  OBVIOUS
<1> DEFINE stage == [p \in Proposals |-> Stage(p)]
<1>a. ASSUME UNCHANGED <<log, dispatched>>
      PROVE  UNCHANGED <<stage, dispatched>>
  BY <1>a DEF Stage
<1>1. CASE CommitRun \/ FinishRun \/ FailRun \/ Crash \/ UNCHANGED vars
  BY <1>1, <1>a DEF CommitRun, FinishRun, FailRun, Crash, vars
<1>2. ASSUME NEW c \in Calls, NEW p \in Proposals, NEW decision \in Decisions,
             Review(c, p, decision)
      PROVE  UNCHANGED <<stage, dispatched>>
  BY <1>2, <1>a DEF Review
<1>3. ASSUME NEW c \in Calls, Advance(c)
      PROVE  [Once!Next]_<<stage, dispatched>>
  <2>1. PICK at \in Proposals : at = call[c].p
    BY DEF TypeOK, Call
  <2>0. at = call[c].p /\ log \in [Proposals -> LogStatus \cup {"NONE"}]
    BY <2>1 DEF TypeOK
  <2>a. ASSUME NEW status \in LogStatus, SetLog(c, status)
        PROVE  /\ log' = [log EXCEPT ![at] = status]
               /\ stage' = [stage EXCEPT ![at] = Stage(at)']
    BY <2>a, <2>0 DEF SetLog, Stage
  <2>b. ASSUME NEW status \in {"BLOCKED", "PENDING_APPROVAL", "SUCCEEDED",
                               "FAILED"},
               log[at] \in {"PENDING", "EXECUTING"},
               SetLog(c, status), UNCHANGED dispatched
        PROVE  Once!Settle(at)
    <3>1. stage[at] = "claimed"
      BY <2>b, <2>0 DEF Stage
    <3>2. stage' = [stage EXCEPT ![at] = "settled"]
      BY <2>a, <2>b, <2>0 DEF Stage, LogStatus
    <3> QED
      BY <2>b, <3>1, <3>2 DEF Once!Settle
  <2>2. CASE CreateLog(c)
    <3>1. CASE log[at] = "NONE"
      <4>1. stage[at] = "open"
        BY <3>1, <2>0 DEF Stage
      <4>2. stage' = [stage EXCEPT ![at] = "claimed"]
        BY <2>2, <3>1, <2>a, <2>0 DEF CreateLog, Stage, LogStatus
      <4>3. Once!Claim(at)
        BY <2>2, <4>1, <4>2 DEF CreateLog, Once!Claim
      <4> QED
        BY <4>3, <2>0 DEF Once!Next
    <3>2. CASE log[at] # "NONE"
      BY <2>0, <2>2, <3>2, <1>a DEF CreateLog
    <3> QED
      BY <3>1, <3>2
  <2>3. CASE BlockLog(c)
    <3>1. log[at] = "PENDING"
      BY <2>0, <2>3 DEF BlockLog, At, Ownership, Known, Fresh
    <3>2. Once!Settle(at)
      BY <2>3, <3>1, <2>b DEF BlockLog
    <3> QED
      BY <3>2, <2>0 DEF Once!Next
  <2>4. CASE ParkLog(c)
    <3>1. log[at] = "PENDING"
      BY <2>0, <2>4 DEF ParkLog, At, Ownership, Known, Fresh
    <3>2. Once!Settle(at)
      BY <2>4, <3>1, <2>b DEF ParkLog
    <3> QED
      BY <3>2, <2>0 DEF Once!Next
  <2>5. CASE StartLog(c)
    <3>1. log[at] = "PENDING"
      BY <2>0, <2>5 DEF StartLog, At, Ownership, Known, Fresh
    <3>2. stage' = stage
      BY <2>5, <3>1, <2>a, <2>0 DEF StartLog, Stage, LogStatus
    <3> QED
      BY <2>5, <3>2 DEF StartLog
  <2>6. ASSUME NEW result \in Results, NEW throws \in BOOLEAN,
               Dispatch(c, result, throws)
        PROVE  [Once!Next]_<<stage, dispatched>>
    <3>1. log[at] = "EXECUTING" /\ dispatched[at] = 0
      BY <2>0, <2>6 DEF Dispatch, At, Ownership, Known, Fresh
    <3>2. dispatched' = [dispatched EXCEPT ![at] = 1]
      <4>1. dispatched' = [dispatched EXCEPT ![at] = dispatched[at] + 1]
        BY <2>6, <2>0 DEF Dispatch
      <4> QED
        BY <4>1, <3>1
    <3>3. stage[at] = "claimed" /\ stage' = stage
      BY <2>6, <3>1, <2>0 DEF Dispatch, Stage
    <3>4. Once!Effect(at)
      BY <3>1, <3>2, <3>3 DEF Once!Effect
    <3> QED
      BY <3>4, <2>0 DEF Once!Next
  <2>7. CASE LogResult(c)
    <3>1. log[at] = "EXECUTING" /\ call[c].result \in {"SUCCEEDED", "FAILED"}
      BY <2>0, <2>7 DEF LogResult, At, Ownership, Known, TypeOK, Call, Results
    <3>2. Once!Settle(at)
      BY <2>7, <3>1, <2>b DEF LogResult
    <3> QED
      BY <3>2, <2>0 DEF Once!Next
  <2>8. CASE FailLog(c)
    <3>1. log[at] \in {"SUCCEEDED", "FAILED", "EXECUTING"}
      BY <2>0, <2>8 DEF FailLog, At, Ownership, Known, Results
    <3>2. CASE log[at] = "EXECUTING"
      <4>1. Once!Settle(at)
        BY <2>8, <3>2, <2>b DEF FailLog
      <4> QED
        BY <4>1, <2>0 DEF Once!Next
    <3>3. CASE log[at] # "EXECUTING"
      <4>1. stage' = stage
        BY <2>8, <3>1, <3>3, <2>a, <2>0 DEF FailLog, Stage, LogStatus
      <4> QED
        BY <2>8, <4>1 DEF FailLog
    <3> QED
      BY <3>2, <3>3
  <2>9. CASE UNCHANGED <<log, dispatched>>
    BY <2>9, <1>a
  <2> QED
    BY <1>3, <2>2, <2>3, <2>4, <2>5, <2>6, <2>7, <2>8, <2>9
    DEF Advance, UpdateProposal, LoadProposal, FindLog, EvaluatePolicy,
        RequestApproval, WaitRun, MarkExecuted, ActRun, VerifyRun, Fault
<1> QED
  BY <1>1, <1>2, <1>3 DEF Next

(* Whatever reviews race, whatever throws and whenever the process stops,   *)
(* executeProposal calls the handler of a proposal at most once, and only   *)
(* while the request that inserted its execution log holds it.              *)
THEOREM ExecutesOnce == Spec => ImplementsExecuteOnce
<1>1. Init => TypeOK
  BY RestingTyped DEF Init, TypeOK, RunStatus, ProposalStatus, Steps
<1>2. Init => Ownership
  BY DEF Init, Ownership, Known, Alone, Fresh, Holding, Resting
<1>3. Init => Once!Init
  BY DEF Init, Once!Init, Stage
<1> QED
  BY <1>1, <1>2, <1>3, TypeStep, OwnershipStep, RefinementStep, PTL
  DEF Spec, ImplementsExecuteOnce, Once!Spec

------------------------------------------------------------------------------
(* A step of the engine leaves what was blocked, parked or failed as it is: *)
(* who writes a log holds it, and knows that it is not one of those, or     *)
(* writes once more that it has failed.                                     *)
LEMMA RefusalStep ==
  ASSUME TypeOK, Ownership, [Next]_vars, NEW p \in Proposals,
         log[p] \in {"BLOCKED", "PENDING_APPROVAL", "FAILED"}
  PROVE  log'[p] = log[p]
<1>1. CASE CommitRun \/ FinishRun \/ FailRun \/ Crash \/ UNCHANGED vars
  BY <1>1 DEF CommitRun, FinishRun, FailRun, Crash, vars
<1>2. ASSUME NEW c \in Calls, NEW q \in Proposals, NEW decision \in Decisions,
             Review(c, q, decision)
      PROVE  log'[p] = log[p]
  BY <1>2 DEF Review
<1>3. ASSUME NEW c \in Calls, Advance(c)
      PROVE  log'[p] = log[p]
  <2>0. call[c].p \in Proposals
    BY DEF TypeOK, Call
  <2>00. log \in [Proposals -> LogStatus \cup {"NONE"}]
    BY DEF TypeOK
  <2>a. ASSUME NEW status \in LogStatus, SetLog(c, status),
               call[c].p # p \/ log[p] = status
        PROVE  log'[p] = log[p]
    BY <2>a, <2>0, <2>00 DEF SetLog
  <2>1. CASE CreateLog(c)
    BY <2>1, <2>a DEF CreateLog, LogStatus
  <2>2. CASE BlockLog(c)
    <3>1. log[call[c].p] = "PENDING"
      BY <2>2 DEF BlockLog, At, Ownership, Known, Fresh
    <3> QED
      BY <2>2, <3>1, <2>a DEF BlockLog, LogStatus
  <2>3. CASE ParkLog(c)
    <3>1. log[call[c].p] = "PENDING"
      BY <2>3 DEF ParkLog, At, Ownership, Known, Fresh
    <3> QED
      BY <2>3, <3>1, <2>a DEF ParkLog, LogStatus
  <2>4. CASE StartLog(c)
    <3>1. log[call[c].p] = "PENDING"
      BY <2>4 DEF StartLog, At, Ownership, Known, Fresh
    <3> QED
      BY <2>4, <3>1, <2>a DEF StartLog, LogStatus
  <2>5. CASE LogResult(c)
    <3>1. log[call[c].p] = "EXECUTING" /\ call[c].result \in LogStatus
      BY <2>5 DEF LogResult, At, Ownership, Known, TypeOK, Call, Results,
                  LogStatus
    <3> QED
      BY <2>5, <3>1, <2>a DEF LogResult
  <2>6. CASE FailLog(c)
    <3>1. log[call[c].p] \in {"SUCCEEDED", "FAILED", "EXECUTING"}
      BY <2>6 DEF FailLog, At, Ownership, Known, Results
    <3> QED
      BY <2>6, <3>1, <2>a DEF FailLog, LogStatus
  <2>7. CASE UNCHANGED log
    BY <2>7
  <2> QED
    BY <1>3, <2>1, <2>2, <2>3, <2>4, <2>5, <2>6, <2>7
    DEF Advance, UpdateProposal, LoadProposal, FindLog, EvaluatePolicy,
        RequestApproval, WaitRun, Dispatch, MarkExecuted, ActRun, VerifyRun,
        Fault
<1> QED
  BY <1>1, <1>2, <1>3 DEF Next

(* What was blocked, parked or failed stays so: no later approval of the    *)
(* proposal turns its log into a success or has it tried again.             *)
THEOREM RefusalsStand == Spec => RefusalIsFinal
<1>1. Init => TypeOK
  BY RestingTyped DEF Init, TypeOK, RunStatus, ProposalStatus, Steps
<1>2. Init => Ownership
  BY DEF Init, Ownership, Known, Alone, Fresh, Holding, Resting
<1>3. TypeOK /\ Ownership /\ [Next]_vars
        => [\A p \in Proposals :
              log[p] \in {"BLOCKED", "PENDING_APPROVAL", "FAILED"}
                => log'[p] = log[p]]_vars
  BY RefusalStep
<1> QED
  BY <1>1, <1>2, <1>3, TypeStep, OwnershipStep, PTL DEF Spec, RefusalIsFinal

------------------------------------------------------------------------------
\* Where only the statements of the try block throw and the process never
\* stops, a request still holds every claimed log.
ClaimHeld ==
  ~setting.crashes /\ setting.faults \subseteq Trying =>
    \A p \in Proposals :
      log[p] \in {"PENDING", "EXECUTING"} =>
        \E c \in Calls : call[c].p = p /\ call[c].pc \in Holding

(* Every step of the specification keeps ClaimHeld: a request lets a log go *)
(* only when it has settled it.                                             *)
LEMMA ClaimStep ==
  TypeOK /\ Ownership /\ ClaimHeld /\ [Next]_vars => ClaimHeld'
<1> SUFFICES ASSUME TypeOK, Ownership, ClaimHeld, [Next]_vars,
                    ~setting.crashes, setting.faults \subseteq Trying,
                    setting' = setting,
                    NEW p \in Proposals, log'[p] \in {"PENDING", "EXECUTING"}
             PROVE  \E c \in Calls : call'[c].p = p /\ call'[c].pc \in Holding
  <2>1. [Next]_vars => setting' = setting
    BY DEF Next, vars, CommitRun, FinishRun, FailRun, Review, Advance,
           UpdateProposal, LoadProposal, FindLog, CreateLog, EvaluatePolicy,
           BlockLog, RequestApproval, ParkLog, WaitRun, StartLog, Dispatch,
           LogResult, MarkExecuted, ActRun, VerifyRun, FailLog, Fault, Crash
  <2> QED
    BY <2>1 DEF ClaimHeld
<1>0. /\ log \in [Proposals -> LogStatus \cup {"NONE"}]
      /\ call \in [Calls -> Call]
  BY DEF TypeOK
<1>a. ASSUME log'[p] = log[p]
      PROVE  \E c \in Calls : call[c].p = p /\ call[c].pc \in Holding
  BY <1>a DEF ClaimHeld
<1>1. CASE CommitRun \/ FinishRun \/ FailRun \/ UNCHANGED vars
  BY <1>1, <1>a DEF CommitRun, FinishRun, FailRun, vars
<1>2. ASSUME NEW c \in Calls, NEW q \in Proposals, NEW decision \in Decisions,
             Review(c, q, decision)
      PROVE  \E d \in Calls : call'[d].p = p /\ call'[d].pc \in Holding
  <2>1. PICK d \in Calls : call[d].p = p /\ call[d].pc \in Holding
    BY <1>2, <1>a DEF Review
  <2>2. d # c
    BY <1>2, <2>1 DEF Review, At, Holding, Fresh
  <2> QED
    BY <1>0, <1>2, <2>1, <2>2 DEF Review
<1>3. ASSUME NEW c \in Calls, Advance(c)
      PROVE  \E d \in Calls : call'[d].p = p /\ call'[d].pc \in Holding
  <2>0. call[c].p \in Proposals
    BY <1>0 DEF Call
  <2>b. ASSUME call'[c].p = call[c].p, call'[c].pc \in Holding,
               \A d \in Calls \ {c} : call'[d] = call[d],
               call[c].p = p \/ log'[p] = log[p]
        PROVE  \E d \in Calls : call'[d].p = p /\ call'[d].pc \in Holding
    BY <2>b, <1>a
  <2>c. ASSUME \A d \in Calls \ {c} : call'[d] = call[d],
               log'[p] = log[p],
               call[c].pc \notin Holding \/ log[call[c].p]
                                              \notin {"PENDING", "EXECUTING"}
        PROVE  \E d \in Calls : call'[d].p = p /\ call'[d].pc \in Holding
    <3>1. PICK d \in Calls : call[d].p = p /\ call[d].pc \in Holding
      BY <2>c, <1>a
    <3>2. d # c
      BY <2>c, <3>1
    <3> QED
      BY <2>c, <3>1, <3>2
  <2>d. ASSUME NEW status \in LogStatus, SetLog(c, status),
               status \notin {"PENDING", "EXECUTING"}
        PROVE  call[c].p # p /\ log'[p] = log[p]
    BY <1>0, <2>0, <2>d DEF SetLog
  <2>e. ASSUME Finish(c) PROVE \A d \in Calls \ {c} : call'[d] = call[d]
    BY <1>0, <2>e DEF Finish
  <2>f. ASSUME NEW pc \in Steps, Goto(c, pc)
        PROVE  /\ \A d \in Calls \ {c} : call'[d] = call[d]
               /\ call'[c].p = call[c].p /\ call'[c].pc = pc
    BY <1>0, <2>f DEF Goto, Call
  <2>g. ASSUME NEW status \in LogStatus, SetLog(c, status)
        PROVE  call[c].p = p \/ log'[p] = log[p]
    BY <1>0, <2>0, <2>g DEF SetLog
  <2>1. CASE UpdateProposal(c)
    BY <2>1, <2>c, <2>e, <2>f DEF UpdateProposal, At, Holding, Fresh, Steps
  <2>2. CASE LoadProposal(c)
    <3>1. \A d \in Calls \ {c} : call'[d] = call[d]
      BY <1>0, <2>2 DEF LoadProposal
    <3> QED
      BY <2>2, <3>1, <2>c DEF LoadProposal, At, Holding, Fresh
  <2>3. CASE FindLog(c)
    BY <2>3, <2>c, <2>e, <2>f DEF FindLog, At, Holding, Fresh, Steps
  <2>4. CASE CreateLog(c)
    <3>1. CASE log[call[c].p] = "NONE"
      BY <2>4, <3>1, <2>b, <2>f, <2>g
      DEF CreateLog, Holding, Fresh, Steps, LogStatus
    <3>2. CASE log[call[c].p] # "NONE"
      BY <2>4, <3>2, <2>c, <2>e DEF CreateLog, At, Holding, Fresh
    <3> QED
      BY <3>1, <3>2
  <2>5. ASSUME NEW allowed \in BOOLEAN, NEW requires \in BOOLEAN,
               EvaluatePolicy(c, allowed, requires)
        PROVE  \E d \in Calls : call'[d].p = p /\ call'[d].pc \in Holding
    <3>1. \E pc \in {"blocking", "requesting", "starting"} : Goto(c, pc)
      BY <2>5 DEF EvaluatePolicy
    <3> QED
      BY <2>5, <3>1, <2>b, <2>f DEF EvaluatePolicy, Holding, Fresh, Steps
  <2>6. CASE BlockLog(c)
    BY <2>6, <2>d, <2>e, <1>a DEF BlockLog, LogStatus
  <2>7. CASE RequestApproval(c)
    BY <2>7, <2>b, <2>f DEF RequestApproval, Holding, Fresh, Steps
  <2>8. CASE ParkLog(c)
    BY <2>8, <2>b, <2>f, <2>g DEF ParkLog, Holding, Fresh, Steps, LogStatus
  <2>9. CASE WaitRun(c)
    <3>1. log[call[c].p] = "PENDING_APPROVAL"
      BY <2>9 DEF WaitRun, At, Ownership, Known
    <3> QED
      BY <2>9, <3>1, <2>c, <2>e DEF WaitRun
  <2>10. CASE StartLog(c)
    BY <2>10, <2>b, <2>f, <2>g DEF StartLog, Holding, Fresh, Steps, LogStatus
  <2>11. ASSUME NEW result \in Results, NEW throws \in BOOLEAN,
                Dispatch(c, result, throws)
         PROVE  \E d \in Calls : call'[d].p = p /\ call'[d].pc \in Holding
    <3>1. /\ \A d \in Calls \ {c} : call'[d] = call[d]
          /\ call'[c].p = call[c].p /\ call'[c].pc \in {"failing", "logging"}
      BY <1>0, <2>11 DEF Dispatch, Call
    <3> QED
      BY <2>11, <3>1, <2>b DEF Dispatch, Holding
  <2>12. CASE LogResult(c)
    <3>1. call[c].result \in LogStatus
      BY <1>0 DEF Call, Results, LogStatus
    <3> QED
      BY <2>12, <3>1, <2>b, <2>f, <2>g DEF LogResult, Holding, Steps
  <2>13. CASE MarkExecuted(c)
    BY <2>13, <2>b, <2>f DEF MarkExecuted, Holding, Steps
  <2>14. CASE ActRun(c)
    <3>1. log[call[c].p] \in Results
      BY <2>14 DEF ActRun, At, Ownership, Known
    <3> QED
      BY <2>14, <3>1, <2>c, <2>e, <2>f DEF ActRun, Results, Steps
  <2>15. ASSUME NEW verdict \in {"VERIFIED_SUCCESS", "VERIFIED_PARTIAL",
                                 "VERIFIED_FAILED"},
                VerifyRun(c, verdict)
         PROVE  \E d \in Calls : call'[d].p = p /\ call'[d].pc \in Holding
    <3>1. log[call[c].p] \in Results
      BY <2>15 DEF VerifyRun, At, Ownership, Known
    <3> QED
      BY <2>15, <3>1, <2>c, <2>e DEF VerifyRun, Results
  <2>16. CASE FailLog(c)
    <3>1. call[c].p # p /\ log'[p] = log[p]
      BY <2>16, <2>d DEF FailLog, LogStatus
    <3>2. PICK d \in Calls : call[d].p = p /\ call[d].pc \in Holding
      BY <3>1, <1>a
    <3> QED
      BY <2>16, <2>e, <3>1, <3>2 DEF FailLog
  <2>17. CASE Fault(c)
    <3>1. call[c].pc \in Trying
      BY <2>17 DEF Fault
    <3> QED
      BY <2>17, <3>1, <2>b, <2>f DEF Fault, Holding, Steps
  <2> QED
    BY <1>3, <2>1, <2>2, <2>3, <2>4, <2>5, <2>6, <2>7, <2>8, <2>9, <2>10,
       <2>11, <2>12, <2>13, <2>14, <2>15, <2>16, <2>17 DEF Advance
<1>4. CASE Crash
  BY <1>4 DEF Crash
<1> QED
  BY <1>1, <1>2, <1>3, <1>4 DEF Next

\* Where reviews are served one at a time: there is one request, its proposal
\* is approved while it is on its way, and it asks nobody.
OneByOne ==
  /\ maker = "reasoning" =>
       \A p \in Proposals : ~proposals[p].exists
  /\ maker = "reasoning" => InFlight = {}
  /\ setting.width = 1 =>
       /\ \A c, d \in InFlight : c = d
       /\ \A c \in Calls :
            /\ call[c].pc = "loading" =>
                 proposals[call[c].p].status = "APPROVED"
            /\ call[c].pc \in {"lookup", "creating", "evaluating"} =>
                 call[c].seen = "APPROVED"
            /\ call[c].pc \notin {"requesting", "parking", "waiting"}
       /\ \A p \in Proposals : requests[p] = 0
       /\ run # "WAITING_APPROVAL"

(* Every step of the specification keeps OneByOne.                          *)
LEMMA OneByOneStep ==
  TypeOK /\ OneByOne /\ [Next]_vars => OneByOne'
<1> SUFFICES ASSUME TypeOK, OneByOne, [Next]_vars PROVE OneByOne'
  OBVIOUS
<1>0. /\ call \in [Calls -> Call]
      /\ proposals \in [Proposals -> [exists : BOOLEAN,
           status : ProposalStatus, requiresApproval : BOOLEAN]]
      /\ requests \in [Proposals -> Nat]
      /\ setting \in Settings
  BY DEF TypeOK
<1>1. CASE CommitRun
  BY <1>1, <1>0 DEF CommitRun, OneByOne, InFlight
<1>2. CASE FinishRun \/ FailRun
  BY <1>2, <1>0 DEF FinishRun, FailRun, OneByOne, InFlight
<1>3. ASSUME NEW c \in Calls, NEW p \in Proposals, NEW decision \in Decisions,
             Review(c, p, decision)
      PROVE  OneByOne'
  <2>1. maker # "reasoning"
    BY <1>3 DEF Review, OneByOne
  <2>2. setting.width = 1 => InFlight = {}
    <3>1. IsFiniteSet(InFlight)
      BY AgentActionsAssumption, FS_Subset DEF InFlight
    <3>2. Cardinality(InFlight) \in Nat
      BY <3>1, FS_CardinalityType
    <3>3. setting.width = 1 => Cardinality(InFlight) = 0
      BY <1>3, <3>2 DEF Review
    <3> QED
      BY <3>1, <3>3, FS_EmptySet
  <2>3. /\ call'[c].pc = "updating"
        /\ \A d \in Calls \ {c} : call'[d] = call[d]
        /\ UNCHANGED <<maker, proposals, requests, run, setting>>
    BY <1>0, <1>3 DEF Review, Resting
  <2>4. setting.width = 1 => \A d \in InFlight' : d = c
    BY <2>2, <2>3 DEF InFlight
  <2> QED
    BY <2>1, <2>3, <2>4 DEF OneByOne
<1>4. ASSUME NEW c \in Calls, Advance(c)
      PROVE  OneByOne'
  <2>0. c \in InFlight /\ call[c].p \in Proposals
    BY <1>0, <1>4, AgentActionsAssumption
    DEF Advance, UpdateProposal, LoadProposal, FindLog, CreateLog,
        EvaluatePolicy, BlockLog, RequestApproval, ParkLog, WaitRun, StartLog,
        Dispatch, LogResult, MarkExecuted, ActRun, VerifyRun, FailLog, Fault,
        InFlight, At, Call
  <2>1. maker # "reasoning" /\ maker' = maker /\ setting' = setting
    BY <1>4, <2>0
    DEF Advance, UpdateProposal, LoadProposal, FindLog, CreateLog,
        EvaluatePolicy, BlockLog, RequestApproval, ParkLog, WaitRun, StartLog,
        Dispatch, LogResult, MarkExecuted, ActRun, VerifyRun, FailLog, Fault,
        OneByOne
  <2> SUFFICES ASSUME setting.width = 1
               PROVE  /\ \A d, e \in InFlight' : d = e
                      /\ \A d \in Calls :
                           /\ call'[d].pc = "loading" =>
                                proposals'[call'[d].p].status = "APPROVED"
                           /\ call'[d].pc \in {"lookup", "creating",
                                               "evaluating"} =>
                                call'[d].seen = "APPROVED"
                           /\ call'[d].pc \notin {"requesting", "parking",
                                                  "waiting"}
                      /\ \A p \in Proposals : requests'[p] = 0
                      /\ run' # "WAITING_APPROVAL"
    BY <2>1 DEF OneByOne
  <2>2. \A d \in Calls \ {c} : call[d].pc \in {"idle", "done"}
    BY <2>0 DEF OneByOne, InFlight
  <2>a. ASSUME NEW pc \in Steps, Goto(c, pc)
        PROVE  /\ \A d \in Calls \ {c} : call'[d] = call[d]
               /\ call'[c].p = call[c].p /\ call'[c].pc = pc
               /\ call'[c].seen = call[c].seen
    BY <1>0, <2>a DEF Goto, Call
  <2>b. ASSUME Finish(c)
        PROVE  /\ \A d \in Calls \ {c} : call'[d] = call[d]
               /\ call'[c].pc = "done"
    BY <1>0, <2>b DEF Finish, Resting
  <2>c. ASSUME \A d \in Calls \ {c} : call'[d] = call[d],
               call'[c].pc = "loading" =>
                 proposals'[call'[c].p].status = "APPROVED",
               call'[c].pc \in {"lookup", "creating", "evaluating"} =>
                 call'[c].seen = "APPROVED",
               call'[c].pc \notin {"requesting", "parking", "waiting"},
               requests' = requests,
               run' # "WAITING_APPROVAL"
        PROVE  /\ \A d, e \in InFlight' : d = e
               /\ \A d \in Calls :
                    /\ call'[d].pc = "loading" =>
                         proposals'[call'[d].p].status = "APPROVED"
                    /\ call'[d].pc \in {"lookup", "creating", "evaluating"} =>
                         call'[d].seen = "APPROVED"
                    /\ call'[d].pc \notin {"requesting", "parking", "waiting"}
               /\ \A p \in Proposals : requests'[p] = 0
               /\ run' # "WAITING_APPROVAL"
    <3>1. \A d \in InFlight' : d = c
      BY <2>2, <2>c DEF InFlight
    <3>2. \A d \in Calls \ {c} : call'[d].pc \in {"idle", "done"}
      BY <2>2, <2>c
    <3>3. \A p \in Proposals : requests'[p] = 0
      BY <2>c DEF OneByOne
    <3> QED
      BY <2>c, <3>1, <3>2, <3>3
  <2>d. run # "WAITING_APPROVAL"
    BY DEF OneByOne
  <2>e. call[c].pc \notin {"requesting", "parking", "waiting"}
    BY DEF OneByOne
  <2>3. CASE UpdateProposal(c)
    <3>1. CASE call[c].decision = "APPROVED"
      <4>1. proposals'[call[c].p].status = "APPROVED"
        BY <1>0, <2>0, <2>3, <3>1 DEF UpdateProposal
      <4> QED
        BY <2>3, <3>1, <4>1, <2>a, <2>c, <2>d DEF UpdateProposal, Steps
    <3>2. CASE call[c].decision # "APPROVED"
      BY <2>3, <3>2, <2>b, <2>c, <2>d DEF UpdateProposal
    <3> QED
      BY <3>1, <3>2
  <2>4. CASE LoadProposal(c)
    <3>1. proposals[call[c].p].status = "APPROVED"
      BY <2>4 DEF LoadProposal, At, OneByOne
    <3>2. /\ \A d \in Calls \ {c} : call'[d] = call[d]
          /\ call'[c].pc = "lookup" /\ call'[c].seen = "APPROVED"
      BY <1>0, <2>4, <3>1 DEF LoadProposal, Call
    <3> QED
      BY <2>4, <3>2, <2>c, <2>d DEF LoadProposal
  <2>5. CASE FindLog(c)
    <3>1. call[c].seen = "APPROVED"
      BY <2>5 DEF FindLog, At, OneByOne
    <3>2. CASE Finish(c)
      BY <2>5, <3>2, <2>b, <2>c, <2>d DEF FindLog
    <3>3. CASE Goto(c, "creating")
      BY <2>5, <3>1, <3>3, <2>a, <2>c, <2>d DEF FindLog, Steps
    <3> QED
      BY <2>5, <3>2, <3>3 DEF FindLog
  <2>6. CASE CreateLog(c)
    <3>1. call[c].seen = "APPROVED"
      BY <2>6 DEF CreateLog, At, OneByOne
    <3>2. CASE Finish(c)
      BY <2>6, <3>2, <2>b, <2>c, <2>d DEF CreateLog
    <3>3. CASE Goto(c, "evaluating")
      BY <2>6, <3>1, <3>3, <2>a, <2>c, <2>d DEF CreateLog, Steps
    <3> QED
      BY <2>6, <3>2, <3>3 DEF CreateLog
  <2>7. ASSUME NEW allowed \in BOOLEAN, NEW requires \in BOOLEAN,
               EvaluatePolicy(c, allowed, requires)
        PROVE  /\ \E pc \in {"blocking", "starting"} : Goto(c, pc)
               /\ UNCHANGED <<proposals, requests, run>>
    <3>1. call[c].seen = "APPROVED"
      BY <2>7 DEF EvaluatePolicy, At, OneByOne
    <3> QED
      BY <2>7, <3>1 DEF EvaluatePolicy
  <2>8. ASSUME NEW pc \in {"blocking", "starting", "dispatching", "executed",
                           "acting", "verifying", "failing"},
               Goto(c, pc), UNCHANGED requests, run' # "WAITING_APPROVAL"
        PROVE  /\ \A d \in Calls \ {c} : call'[d] = call[d]
               /\ call'[c].pc = pc
    BY <2>8, <2>a DEF Steps
  <2>9. CASE \E allowed, requires \in BOOLEAN :
                EvaluatePolicy(c, allowed, requires)
    <3>1. PICK pc \in {"blocking", "starting"} : Goto(c, pc)
      BY <2>9, <2>7
    <3>2. UNCHANGED <<proposals, requests, run>>
      BY <2>9, <2>7
    <3> QED
      BY <3>1, <3>2, <2>8, <2>c, <2>d
  <2>10. CASE BlockLog(c) \/ FailLog(c)
    BY <2>10, <2>b, <2>c, <2>d DEF BlockLog, FailLog
  <2>11. CASE RequestApproval(c) \/ ParkLog(c) \/ WaitRun(c)
    BY <2>11, <2>e DEF RequestApproval, ParkLog, WaitRun, At
  <2>12. CASE StartLog(c)
    BY <2>12, <2>8, <2>c, <2>d DEF StartLog
  <2>13. ASSUME NEW result \in Results, NEW throws \in BOOLEAN,
                Dispatch(c, result, throws)
         PROVE  /\ \A d \in Calls \ {c} : call'[d] = call[d]
                /\ call'[c].pc \in {"failing", "logging"}
                /\ UNCHANGED <<proposals, requests, run>>
    BY <1>0, <2>13 DEF Dispatch, Call
  <2>14. CASE \E result \in Results, throws \in BOOLEAN :
                 Dispatch(c, result, throws)
    <3>1. /\ \A d \in Calls \ {c} : call'[d] = call[d]
          /\ call'[c].pc \in {"failing", "logging"}
          /\ UNCHANGED <<proposals, requests, run>>
      BY <2>13, <2>14
    <3> QED
      BY <3>1, <2>c, <2>d
  <2>15. CASE LogResult(c)
    BY <2>15, <2>8, <2>c, <2>d DEF LogResult
  <2>16. CASE MarkExecuted(c)
    BY <2>16, <2>8, <2>c, <2>d DEF MarkExecuted
  <2>17. CASE ActRun(c)
    <3>1. CASE Finish(c)
      BY <2>17, <3>1, <2>b, <2>c DEF ActRun
    <3>2. CASE Goto(c, "verifying")
      BY <2>17, <3>2, <2>8, <2>c DEF ActRun
    <3> QED
      BY <2>17, <3>1, <3>2 DEF ActRun
  <2>18. CASE \E verdict \in {"VERIFIED_SUCCESS", "VERIFIED_PARTIAL",
                              "VERIFIED_FAILED"} : VerifyRun(c, verdict)
    BY <2>18, <2>b, <2>c DEF VerifyRun
  <2>19. CASE Fault(c)
    <3>1. CASE Finish(c)
      BY <2>19, <3>1, <2>b, <2>c, <2>d DEF Fault
    <3>2. CASE Goto(c, "failing")
      BY <2>19, <3>2, <2>8, <2>c, <2>d DEF Fault
    <3> QED
      BY <2>19, <3>1, <3>2 DEF Fault
  <2> QED
    BY <1>4, <2>3, <2>4, <2>5, <2>6, <2>9, <2>10, <2>11, <2>12, <2>14, <2>15,
       <2>16, <2>17, <2>18, <2>19 DEF Advance
<1>5. CASE Crash
  <2>1. /\ \A c \in Calls : call'[c].pc \in {"idle", "done"}
        /\ maker' = "done"
        /\ UNCHANGED <<run, proposals, requests, setting>>
    BY <1>0, <1>5 DEF Crash, InFlight, Resting
  <2>2. InFlight' = {}
    BY <2>1 DEF InFlight
  <2> QED
    BY <2>1, <2>2 DEF OneByOne
<1>6. CASE UNCHANGED vars
  BY <1>6 DEF vars, OneByOne, InFlight
<1> QED
  BY <1>1, <1>2, <1>3, <1>4, <1>5, <1>6 DEF Next

(* Where the process goes on and only the try block of executeProposal      *)
(* throws, no claimed action is left behind; and where reviews are served   *)
(* one at a time, no approval is ever asked for by the engine.              *)
THEOREM NothingLeftBehind == Spec => []NothingIsLeft
<1>1. Init => TypeOK
  BY RestingTyped DEF Init, TypeOK, RunStatus, ProposalStatus, Steps
<1>2. Init => Ownership
  BY DEF Init, Ownership, Known, Alone, Fresh, Holding, Resting
<1>3. Init => ClaimHeld
  BY DEF Init, ClaimHeld
<1>4. Init => OneByOne
  BY DEF Init, OneByOne, InFlight, Resting
<1>5. TypeOK /\ ClaimHeld /\ OneByOne => NothingIsLeft
  <2> SUFFICES ASSUME TypeOK, ClaimHeld, OneByOne PROVE NothingIsLeft
    OBVIOUS
  <2>1. ServedAloneNothingWaits
    BY DEF ServedAloneNothingWaits, OneByOne
  <2>2. ClaimIsSettled
    <3> SUFFICES ASSUME ~setting.crashes, setting.faults \subseteq Trying,
                        NEW p \in Proposals, Quiet(p)
                 PROVE  Stage(p) # "claimed"
      BY DEF ClaimIsSettled
    <3>1. log[p] \notin {"PENDING", "EXECUTING"}
      BY DEF ClaimHeld, Quiet, InFlight, Holding, Fresh
    <3> QED
      BY <3>1 DEF Stage
  <2> QED
    BY <2>1, <2>2 DEF NothingIsLeft
<1> QED
  BY <1>1, <1>2, <1>3, <1>4, <1>5, TypeStep, OwnershipStep, ClaimStep,
     OneByOneStep, PTL DEF Spec
==============================================================================
