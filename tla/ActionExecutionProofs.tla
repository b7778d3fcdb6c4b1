------------------------ MODULE ActionExecutionProofs ------------------------
(***************************************************************************)
(* Proofs about ActionExecution, for every set of requests and of types,   *)
(* every width and every set of statements that may throw: its variables   *)
(* have their types, no risky handler runs before an approval, racing      *)
(* approvals run a handler at most as often as there are requests served   *)
(* at a time, and what was begun is brought to an end that is learned from *)
(* and followed up, as long as only the try block throws.                  *)
(*                                                                         *)
(* The bound is a matter of counting.  While the approval of an execution  *)
(* is PENDING its handler has not run, and whoever may yet run it is being *)
(* served; once it is not, nobody new is let in.  So the runs there were   *)
(* and the requests that may yet make one never exceed what was being      *)
(* served at that moment.                                                  *)
(***************************************************************************)
EXTENDS ActionExecution, FiniteSetTheorems, TLAPS

\* As TypeOK, without the bound on the number of runs, which takes counting.
Typed ==
  /\ rows \in [Calls -> Row]
  /\ trail \in [Calls -> SUBSET Status]
  /\ outcome \in [Calls -> Outcomes]
  /\ followups \in [Calls -> SUBSET Agents]
  /\ results \in [Calls -> Seq({"ok", "error"})]
  /\ call \in [Calls -> Call]
  /\ setting \in Settings

(* A request at rest has its type. *)
LEMMA RestingTyped ==
  ASSUME NEW c \in Calls, NEW pc \in Steps
  PROVE  Resting(c, pc) \in Call
BY DEF Resting, Call, Outcomes

(* The statement of a request moves it on, and changes no other request. *)
LEMMA MovesTyped ==
  ASSUME Typed, NEW c \in Calls, NEW pc \in Steps, Goto(c, pc) \/ Finish(c)
  PROVE  call' \in [Calls -> Call]
<1>1. Resting(c, "done") \in Call /\ call[c] \in Call
  BY RestingTyped DEF Steps, Typed
<1>2. CASE Goto(c, pc)
  BY <1>1, <1>2 DEF Goto, Call, Typed
<1>3. CASE Finish(c)
  BY <1>1, <1>3 DEF Finish, Typed
<1> QED
  BY <1>2, <1>3

(* An error leads to the catch block or ends the request. *)
LEMMA ThrowTyped ==
  ASSUME Typed, NEW c \in Calls, Throw(c)
  PROVE  call' \in [Calls -> Call]
BY MovesTyped DEF Throw, Steps

(* A request that enters has its type. *)
LEMMA EnterTyped ==
  ASSUME Typed, NEW c \in Calls, NEW pc \in Steps, NEW e \in Calls,
         NEW verdict \in Outcomes \ {"NONE"}, Enter(c, pc, e, verdict)
  PROVE  call' \in [Calls -> Call]
BY DEF Enter, Typed, Call

(* A status that is set leaves every row with its type. *)
LEMMA RowsTyped ==
  ASSUME Typed, NEW c \in Calls, NEW status \in Status,
         NEW approval \in Approval, SetStatus(c, status, approval)
  PROVE  rows' \in [Calls -> Row]
<1>1. call[c].e \in Calls
  BY DEF Typed, Call
<1> QED
  BY <1>1 DEF SetStatus, Typed, Row

(* What the audit adds is a status. *)
LEMMA TrailTyped ==
  ASSUME Typed, NEW c \in Calls, NEW status \in Status, Audit(c, status)
  PROVE  trail' \in [Calls -> SUBSET Status]
BY DEF Audit, Typed, Call

(* Every step of the specification keeps the types. *)
LEMMA TypedStep == Typed /\ [Next]_vars => Typed'
<1> SUFFICES ASSUME Typed, [Next]_vars PROVE Typed'
  OBVIOUS
<1>1. ASSUME NEW c \in Calls, Arrive(c) PROVE Typed'
  <2>1. ASSUME NEW type \in Types, Create(c, type) PROVE Typed'
    <3>1. type \in ExecutionType
      BY ExecutionAssumption
    <3>2. rows' \in [Calls -> Row]
      BY <2>1, <3>1
      DEF Create, determineApprovalStatus, Typed, Row, Status, Approval
    <3>3. call' \in [Calls -> Call]
      BY <2>1, EnterTyped DEF Create, Steps, Outcomes
    <3> QED
      BY <2>1, <3>2, <3>3 DEF Create, Typed
  <2>2. ASSUME NEW e \in Calls, StartApprove(c, e) PROVE Typed'
    <3>1. call' \in [Calls -> Call]
      BY <2>2, EnterTyped DEF StartApprove, Steps, Outcomes
    <3> QED
      BY <2>2, <3>1 DEF StartApprove, Typed
  <2>3. ASSUME NEW e \in Calls, StartReject(c, e) PROVE Typed'
    <3>1. call' \in [Calls -> Call]
      BY <2>3, EnterTyped DEF StartReject, Steps, Outcomes
    <3> QED
      BY <2>3, <3>1 DEF StartReject, Typed
  <2>4. ASSUME NEW e \in Calls, StartRecord(c, e) PROVE Typed'
    <3>1. call' \in [Calls -> Call]
      BY <2>4, EnterTyped DEF StartRecord, Steps, Outcomes
    <3> QED
      BY <2>4, <3>1 DEF StartRecord, Typed
  <2> QED
    BY <1>1, <2>1, <2>2, <2>3, <2>4 DEF Arrive
<1>2. ASSUME NEW c \in Calls, Advance(c) PROVE Typed'
  <2>0. call[c] \in Call /\ call[c].e \in Calls /\ SameApproval(c) \in Approval
    BY DEF Typed, Call, SameApproval, Row
  <2>1. CASE AuditCreation(c)
    <3>1. trail' \in [Calls -> SUBSET Status]
      BY <2>1, TrailTyped DEF AuditCreation, Status
    <3>2. call' \in [Calls -> Call]
      BY <2>1, MovesTyped DEF AuditCreation, Steps
    <3> QED
      BY <2>1, <3>1, <3>2 DEF AuditCreation, Typed
  <2>2. CASE Approve(c)
    <3>1. rows' \in [Calls -> Row]
      BY <2>2, RowsTyped DEF Approve, Status, Approval
    <3>2. call' \in [Calls -> Call]
      BY <2>2, MovesTyped DEF Approve, Steps
    <3> QED
      BY <2>2, <3>1, <3>2 DEF Approve, Typed
  <2>3. CASE AuditApproval(c)
    <3>1. trail' \in [Calls -> SUBSET Status]
      BY <2>3, TrailTyped DEF AuditApproval, Status
    <3>2. call' \in [Calls -> Call]
      BY <2>3, MovesTyped DEF AuditApproval, Steps
    <3> QED
      BY <2>3, <3>1, <3>2 DEF AuditApproval, Typed
  <2>4. CASE Reject(c)
    <3>1. rows' \in [Calls -> Row]
      BY <2>4, RowsTyped DEF Reject, Status, Approval
    <3>2. call' \in [Calls -> Call]
      BY <2>4, MovesTyped DEF Reject, Steps
    <3> QED
      BY <2>4, <3>1, <3>2 DEF Reject, Typed
  <2>5. CASE AuditRejection(c)
    <3>1. trail' \in [Calls -> SUBSET Status]
      BY <2>5, TrailTyped DEF AuditRejection, Status
    <3>2. call' \in [Calls -> Call]
      BY <2>5, MovesTyped DEF AuditRejection, Steps
    <3> QED
      BY <2>5, <3>1, <3>2 DEF AuditRejection, Typed
  <2>6. CASE Begin(c)
    <3>1. call' \in [Calls -> Call]
      BY <2>6, MovesTyped DEF Begin, Steps
    <3> QED
      BY <2>6, <3>1 DEF Begin, Typed
  <2>7. CASE MarkExecuting(c)
    <3>1. rows' \in [Calls -> Row]
      BY <2>7, <2>0, RowsTyped DEF MarkExecuting, Status
    <3>2. call' \in [Calls -> Call]
      BY <2>7, MovesTyped DEF MarkExecuting, Steps
    <3> QED
      BY <2>7, <3>1, <3>2 DEF MarkExecuting, Typed
  <2>8. CASE AuditStart(c)
    <3>1. trail' \in [Calls -> SUBSET Status]
      BY <2>8, TrailTyped DEF AuditStart, Status
    <3>2. call' \in [Calls -> Call]
      BY <2>8, MovesTyped DEF AuditStart, Steps
    <3> QED
      BY <2>8, <3>1, <3>2 DEF AuditStart, Typed
  <2>9. ASSUME NEW result \in {"ok", "error"}, RunHandler(c, result)
        PROVE  Typed'
    <3>1. Append(results[call[c].e], result) \in Seq({"ok", "error"})
      BY <2>0 DEF Typed
    <3>2. results' \in [Calls -> Seq({"ok", "error"})]
      BY <2>9, <2>0, <3>1 DEF RunHandler, Typed
    <3>3. call' \in [Calls -> Call]
      BY <2>9, MovesTyped DEF RunHandler, Steps
    <3> QED
      BY <2>9, <3>2, <3>3 DEF RunHandler, Typed
  <2>10. CASE MarkCompleted(c)
    <3>1. rows' \in [Calls -> Row]
      BY <2>10, <2>0, RowsTyped DEF MarkCompleted, Status
    <3>2. call' \in [Calls -> Call]
      BY <2>10, MovesTyped DEF MarkCompleted, Steps
    <3> QED
      BY <2>10, <3>1, <3>2 DEF MarkCompleted, Typed
  <2>11. CASE AuditCompletion(c)
    <3>1. trail' \in [Calls -> SUBSET Status]
      BY <2>11, TrailTyped DEF AuditCompletion, Status
    <3>2. call' \in [Calls -> Call]
      BY <2>11, MovesTyped DEF AuditCompletion, Steps
    <3> QED
      BY <2>11, <3>1, <3>2 DEF AuditCompletion, Typed
  <2>12. CASE MarkFailed(c)
    <3>1. rows' \in [Calls -> Row]
      BY <2>12, <2>0, RowsTyped DEF MarkFailed, Status
    <3>2. call' \in [Calls -> Call]
      BY <2>12, <2>0 DEF MarkFailed, Typed, Call, Steps, Outcomes
    <3> QED
      BY <2>12, <3>1, <3>2 DEF MarkFailed, Typed
  <2>13. CASE AuditFailure(c)
    <3>1. trail' \in [Calls -> SUBSET Status]
      BY <2>13, TrailTyped DEF AuditFailure, Status
    <3>2. call' \in [Calls -> Call]
      BY <2>13, MovesTyped DEF AuditFailure, Steps
    <3> QED
      BY <2>13, <3>1, <3>2 DEF AuditFailure, Typed
  <2>14. CASE CheckFinalized(c)
    <3>1. call' \in [Calls -> Call]
      BY <2>14, MovesTyped, ThrowTyped DEF CheckFinalized, Steps
    <3> QED
      BY <2>14, <3>1 DEF CheckFinalized, Typed
  <2>15. CASE RecordOutcome(c)
    <3>1. outcome' \in [Calls -> Outcomes]
      BY <2>15, <2>0 DEF RecordOutcome, Typed, Call, Outcomes
    <3>2. call' \in [Calls -> Call]
      BY <2>15, MovesTyped DEF RecordOutcome, Steps
    <3> QED
      BY <2>15, <3>1, <3>2 DEF RecordOutcome, Typed
  <2>16. CASE Followup(c)
    <3>1. Triggered(call[c].e, call[c].verdict) \subseteq Agents
      BY DEF Triggered, Agents
    <3>2. followups' \in [Calls -> SUBSET Agents]
      BY <2>16, <2>0, <3>1 DEF Followup, Typed
    <3>3. call' \in [Calls -> Call]
      BY <2>16, MovesTyped DEF Followup, Steps
    <3> QED
      BY <2>16, <3>2, <3>3 DEF Followup, Typed
  <2>17. CASE Fault(c)
    <3>1. call' \in [Calls -> Call]
      BY <2>17, ThrowTyped DEF Fault
    <3> QED
      BY <2>17, <3>1 DEF Fault, Typed
  <2> QED
    BY <1>2, <2>1, <2>2, <2>3, <2>4, <2>5, <2>6, <2>7, <2>8, <2>9, <2>10,
       <2>11, <2>12, <2>13, <2>14, <2>15, <2>16, <2>17 DEF Advance
<1>3. CASE UNCHANGED vars
  BY <1>3 DEF vars, Typed
<1> QED
  BY <1>1, <1>2, <1>3 DEF Next

------------------------------------------------------------------------------
\* The approval was recorded, or the type needs none.
Authorised(e) == rows[e].type \in LowRisk \/ "APPROVED" \in trail[e]

\* A request on its way to the handler, from the decision to the call.
Executing == {"execute", "starting", "marked", "running"}
Cleared == Executing \cup {"approved"}

\* What holds of an execution: it is the work of one request, its handler
\* has not run while the approval is PENDING, nor without authorisation.
RowsKnown ==
  \A e \in Calls :
    /\ call[e].pc = "idle" => ~rows[e].exists
    /\ ~rows[e].exists => results[e] = <<>>
    /\ rows[e].exists /\ rows[e].approval = "PENDING"
         => results[e] = <<>> /\ rows[e].type \notin LowRisk
    /\ results[e] # <<>> => Authorised(e)

\* What holds of a request, whatever the others do meanwhile.
CallsKnow ==
  \A c \in Calls :
    /\ call[c].pc \notin {"idle", "done"} => rows[call[c].e].exists
    /\ call[c].pc = "created" => call[c].e = c
    /\ call[c].pc \in Cleared => rows[call[c].e].approval # "PENDING"
    /\ call[c].pc \in Executing => Authorised(call[c].e)

Knowledge == RowsKnown /\ CallsKnow

\* What a step never does to an execution that is there.
Kept(e) ==
  /\ rows'[e].exists
  /\ rows'[e].type = rows[e].type
  /\ rows'[e].approval = "PENDING" => rows[e].approval = "PENDING"
  /\ trail[e] \subseteq trail'[e]

(* A request that arrives changes no execution but the one it makes, which  *)
(* was not there, and no other request.                                     *)
LEMMA ArriveFrame ==
  ASSUME Typed, Knowledge, NEW c \in Calls, Arrive(c)
  PROVE  /\ call[c].pc = "idle"
         /\ call'[c].pc \in {"created", "approving", "rejecting", "recording"}
         /\ call'[c].e \in Calls
         /\ rows'[call'[c].e].exists
         /\ call'[c].pc = "created" => call'[c].e = c
         /\ \A d \in Calls \ {c} : call'[d] = call[d]
         /\ \A e \in Calls \ {c} : rows'[e] = rows[e]
         /\ ~rows[c].exists
         /\ rows'[c].type \in LowRisk => rows'[c].approval # "PENDING"
              \/ rows' = rows
         /\ trail' = trail /\ results' = results /\ setting' = setting
<1>1. ASSUME NEW type \in Types, Create(c, type)
      PROVE  /\ call' = [call EXCEPT ![c] =
                  [pc |-> "created", e |-> c, verdict |-> "POSITIVE"]]
             /\ call[c].pc = "idle"
             /\ rows'[c].exists
             /\ \A e \in Calls \ {c} : rows'[e] = rows[e]
             /\ rows'[c].type \in LowRisk => rows'[c].approval # "PENDING"
             /\ trail' = trail /\ results' = results /\ setting' = setting
  BY <1>1 DEF Create, Enter, determineApprovalStatus, Typed
<1>2. ASSUME NEW e \in Calls,
             StartApprove(c, e) \/ StartReject(c, e) \/ StartRecord(c, e)
      PROVE  /\ \E pc \in {"approving", "rejecting", "recording"},
                  verdict \in Outcomes :
                  call' = [call EXCEPT ![c] =
                    [pc |-> pc, e |-> e, verdict |-> verdict]]
             /\ call[c].pc = "idle"
             /\ rows[e].exists
             /\ rows' = rows /\ trail' = trail /\ results' = results
             /\ setting' = setting
  BY <1>2 DEF StartApprove, StartReject, StartRecord, Enter, Outcomes
<1>3. call[c].pc = "idle" => ~rows[c].exists
  BY DEF Knowledge, RowsKnown
<1>4. CASE \E type \in Types : Create(c, type)
  BY <1>1, <1>3, <1>4 DEF Typed
<1>5. CASE \E e \in Calls :
             StartApprove(c, e) \/ StartReject(c, e) \/ StartRecord(c, e)
  BY <1>2, <1>3, <1>5 DEF Typed
<1> QED
  BY <1>4, <1>5 DEF Arrive

\* A request that may yet run the handler of its execution.
Underway == Cleared \cup {"created", "approving"}

\* What the step of a request that is being served does to the rows.
RowsFollow(c) ==
  /\ \A e \in Calls : rows[e].exists => Kept(e)
  /\ \A e \in Calls : ~rows[e].exists => ~rows'[e].exists
  /\ \A e \in Calls :
       \/ results'[e] = results[e]
       \/ /\ e = call[c].e /\ call[c].pc = "running"
          /\ Len(results'[e]) = Len(results[e]) + 1
          /\ call'[c].pc \notin Underway

\* And to the request itself.
CallFollows(c) ==
  /\ call[c].pc \notin {"idle", "done"} /\ call[c].e \in Calls
  /\ call'[c].pc \notin {"idle", "created"}
  /\ call'[c].pc = "done" \/ call'[c].e = call[c].e
  /\ \A d \in Calls \ {c} : call'[d] = call[d]
  /\ call'[c].pc \in Underway => call[c].pc \in Underway
  /\ call'[c].pc \in Cleared =>
       call[c].pc \in Cleared \/ rows'[call[c].e].approval # "PENDING"
  /\ call'[c].pc \in Executing =>
       call[c].pc \in Executing \/ Authorised(call[c].e)'

(* A request that moves on to pc moves on to pc. *)
LEMMA GotoMoves ==
  ASSUME Typed, NEW c \in Calls, NEW pc \in Steps, Goto(c, pc)
  PROVE  /\ call'[c].pc = pc /\ call'[c].e = call[c].e
         /\ \A d \in Calls \ {c} : call'[d] = call[d]
BY DEF Goto, Typed, Call

(* A request that ends is done. *)
LEMMA FinishMoves ==
  ASSUME Typed, NEW c \in Calls, Finish(c)
  PROVE  call'[c].pc = "done" /\ \A d \in Calls \ {c} : call'[d] = call[d]
BY DEF Finish, Resting, Typed

(* An error ends the request or leads to the catch block. *)
LEMMA ThrowMoves ==
  ASSUME Typed, NEW c \in Calls, Throw(c)
  PROVE  /\ \/ call'[c].pc = "done"
            \/ /\ call'[c].pc = "failing"
               /\ call'[c].e = call[c].e
         /\ \A d \in Calls \ {c} : call'[d] = call[d]
BY GotoMoves, FinishMoves DEF Throw, Steps

(* Setting a status keeps the executions, and takes none back to PENDING.   *)
LEMMA StatusKeeps ==
  ASSUME Typed, NEW c \in Calls, NEW status \in Status,
         NEW approval \in Approval, SetStatus(c, status, approval),
         approval # "PENDING" \/ approval = SameApproval(c)
  PROVE  \A e \in Calls : /\ rows'[e].exists = rows[e].exists
                          /\ rows'[e].type = rows[e].type
                          /\ rows'[e].approval = "PENDING"
                               => rows[e].approval = "PENDING"
BY DEF SetStatus, SameApproval, Typed, Row, Call

(* The audit takes nothing off the trail. *)
LEMMA AuditKeeps ==
  ASSUME Typed, NEW c \in Calls, NEW status \in Status, Audit(c, status)
  PROVE  \A e \in Calls : trail[e] \subseteq trail'[e]
BY DEF Audit, Typed

(* A step of a request that is being served changes no other request, keeps *)
(* the executions, and leads to the handler only by way of the decision.    *)
LEMMA AdvanceFrame ==
  ASSUME Typed, Knowledge, NEW c \in Calls, Advance(c)
  PROVE  RowsFollow(c) /\ CallFollows(c) /\ setting' = setting
<1>0. /\ call[c].e \in Calls /\ SameApproval(c) \in Approval
      /\ call[c].pc \in Steps
  BY DEF Typed, Call, SameApproval, Row
<1> USE DEF Underway, Cleared, Executing
<1>1. CASE AuditCreation(c)
  <2>1. call[c].e = c /\ rows[c].exists
    BY <1>1 DEF AuditCreation, Knowledge, CallsKnow
  <2>2. determineApprovalStatus(rows[c].type) = "NOT_REQUIRED" =>
          rows[c].type \in LowRisk /\ rows[c].approval # "PENDING"
    BY <2>1 DEF determineApprovalStatus, Knowledge, RowsKnown
  <2>3. \A e \in Calls : trail[e] \subseteq trail'[e]
    BY <1>1, AuditKeeps DEF AuditCreation, Status
  <2>4. /\ \A d \in Calls \ {c} : call'[d] = call[d]
        /\ \/ call'[c].pc = "done"
           \/ /\ call'[c].pc = "execute" /\ call'[c].e = c
              /\ determineApprovalStatus(rows[c].type) = "NOT_REQUIRED"
    BY <1>1, <2>1, GotoMoves, FinishMoves DEF AuditCreation, Steps
  <2> QED
    BY <1>1, <1>0, <2>1, <2>2, <2>3, <2>4
    DEF AuditCreation, RowsFollow, CallFollows, Kept, Authorised
<1>2. CASE Approve(c)
  <2>1. call'[c].pc = "approved" /\ call'[c].e = call[c].e
        /\ \A d \in Calls \ {c} : call'[d] = call[d]
    BY <1>2, GotoMoves DEF Approve, Steps
  <2>2. \A e \in Calls : /\ rows'[e].exists = rows[e].exists
                         /\ rows'[e].type = rows[e].type
                         /\ rows'[e].approval = "PENDING"
                              => rows[e].approval = "PENDING"
    BY <1>2, StatusKeeps DEF Approve, Status, Approval
  <2>3. rows'[call[c].e].approval = "APPROVED"
    BY <1>2, <1>0 DEF Approve, SetStatus, Typed, Row
  <2> QED
    BY <1>2, <1>0, <2>1, <2>2, <2>3
    DEF Approve, RowsFollow, CallFollows, Kept
<1>3. CASE AuditApproval(c)
  <2>1. call'[c].pc = "execute" /\ call'[c].e = call[c].e
        /\ \A d \in Calls \ {c} : call'[d] = call[d]
    BY <1>3, GotoMoves DEF AuditApproval, Steps
  <2>2. \A e \in Calls : trail[e] \subseteq trail'[e]
    BY <1>3, AuditKeeps DEF AuditApproval, Status
  <2>3. "APPROVED" \in trail'[call[c].e]
    BY <1>3, <1>0 DEF AuditApproval, Audit, Typed
  <2> QED
    BY <1>3, <1>0, <2>1, <2>2, <2>3
    DEF AuditApproval, RowsFollow, CallFollows, Kept, Authorised
<1>4. CASE Reject(c) \/ MarkExecuting(c) \/ MarkCompleted(c)
  <2>1. /\ \/ call[c].pc = "rejecting" /\ call'[c].pc = "rejected"
           \/ call[c].pc = "starting" /\ call'[c].pc = "marked"
           \/ call[c].pc = "succeeded" /\ call'[c].pc = "completed"
        /\ call'[c].e = call[c].e
        /\ \A d \in Calls \ {c} : call'[d] = call[d]
    BY <1>4, GotoMoves DEF Reject, MarkExecuting, MarkCompleted, Steps
  <2>2. \A e \in Calls : /\ rows'[e].exists = rows[e].exists
                         /\ rows'[e].type = rows[e].type
                         /\ rows'[e].approval = "PENDING"
                              => rows[e].approval = "PENDING"
    BY <1>4, <1>0, StatusKeeps
    DEF Reject, MarkExecuting, MarkCompleted, Status, Approval
  <2> QED
    BY <1>4, <1>0, <2>1, <2>2
    DEF Reject, MarkExecuting, MarkCompleted, RowsFollow, CallFollows, Kept
<1>5. CASE AuditStart(c) \/ AuditCompletion(c) \/ AuditFailure(c)
  <2>1. /\ \/ call[c].pc = "marked" /\ call'[c].pc = "running"
           \/ /\ call[c].pc \in {"completed", "failed"}
              /\ call'[c].pc = "learning"
        /\ call'[c].e = call[c].e
        /\ \A d \in Calls \ {c} : call'[d] = call[d]
    BY <1>5, GotoMoves DEF AuditStart, AuditCompletion, AuditFailure, Steps
  <2>2. \A e \in Calls : trail[e] \subseteq trail'[e]
    BY <1>5, AuditKeeps DEF AuditStart, AuditCompletion, AuditFailure, Status
  <2> QED
    BY <1>5, <1>0, <2>1, <2>2
    DEF AuditStart, AuditCompletion, AuditFailure, RowsFollow, CallFollows,
        Kept
<1>6. CASE AuditRejection(c)
  <2>1. call'[c].pc = "done" /\ \A d \in Calls \ {c} : call'[d] = call[d]
    BY <1>6, FinishMoves DEF AuditRejection
  <2>2. \A e \in Calls : trail[e] \subseteq trail'[e]
    BY <1>6, AuditKeeps DEF AuditRejection, Status
  <2> QED
    BY <1>6, <1>0, <2>1, <2>2
    DEF AuditRejection, RowsFollow, CallFollows, Kept
<1>7. CASE Begin(c)
  <2>1. /\ \/ call'[c].pc = "done"
           \/ /\ call'[c].pc = "starting"
              /\ call'[c].e = call[c].e
        /\ \A d \in Calls \ {c} : call'[d] = call[d]
    BY <1>7, GotoMoves, FinishMoves DEF Begin, Steps
  <2> QED
    BY <1>7, <1>0, <2>1 DEF Begin, RowsFollow, CallFollows, Kept
<1>8. ASSUME NEW result \in {"ok", "error"}, RunHandler(c, result)
      PROVE  RowsFollow(c) /\ CallFollows(c) /\ setting' = setting
  <2>1. /\ call'[c].pc \in {"succeeded", "failing"}
        /\ call'[c].e = call[c].e
        /\ \A d \in Calls \ {c} : call'[d] = call[d]
    BY <1>8, GotoMoves DEF RunHandler, Steps
  <2>2. Len(Append(results[call[c].e], result))
          = Len(results[call[c].e]) + 1
    BY <1>0 DEF Typed
  <2>3. \A e \in Calls :
          results'[e] = IF e = call[c].e THEN Append(results[e], result)
                        ELSE results[e]
    BY <1>8, <1>0 DEF RunHandler, Typed
  <2> QED
    BY <1>8, <1>0, <2>1, <2>2, <2>3
    DEF RunHandler, RowsFollow, CallFollows, Kept
<1>9. CASE MarkFailed(c)
  <2>1. /\ call'[c].pc = "failed" /\ call'[c].e = call[c].e
        /\ \A d \in Calls \ {c} : call'[d] = call[d]
    BY <1>9 DEF MarkFailed, Typed, Call
  <2>2. \A e \in Calls : /\ rows'[e].exists = rows[e].exists
                         /\ rows'[e].type = rows[e].type
                         /\ rows'[e].approval = "PENDING"
                              => rows[e].approval = "PENDING"
    BY <1>9, <1>0, StatusKeeps DEF MarkFailed, Status
  <2> QED
    BY <1>9, <1>0, <2>1, <2>2
    DEF MarkFailed, RowsFollow, CallFollows, Kept
<1>10. CASE CheckFinalized(c) \/ RecordOutcome(c) \/ Followup(c)
  <2>1. /\ \/ call'[c].pc = "done"
           \/ /\ call'[c].pc \in {"recording", "following", "failing"}
              /\ call'[c].e = call[c].e
        /\ \A d \in Calls \ {c} : call'[d] = call[d]
    BY <1>10, GotoMoves, FinishMoves, ThrowMoves
    DEF CheckFinalized, RecordOutcome, Followup, Steps
  <2>2. call[c].pc \in {"learning", "recording", "following"}
    BY <1>10 DEF CheckFinalized, RecordOutcome, Followup
  <2>3. UNCHANGED <<rows, trail, results, setting>>
    BY <1>10 DEF CheckFinalized, RecordOutcome, Followup
  <2> QED
    BY <1>0, <2>1, <2>2, <2>3 DEF RowsFollow, CallFollows, Kept
<1>11. CASE Fault(c)
  <2>1. call[c].pc \notin {"idle", "done"}
    BY <1>11, ExecutionAssumption DEF Fault, FaultPoints, Typed
  <2>2. /\ \/ call'[c].pc = "done"
           \/ /\ call'[c].pc = "failing"
              /\ call'[c].e = call[c].e
        /\ \A d \in Calls \ {c} : call'[d] = call[d]
    BY <1>11, ThrowMoves DEF Fault
  <2> QED
    BY <1>11, <1>0, <2>1, <2>2 DEF Fault, RowsFollow, CallFollows, Kept
<1> QED
  BY <1>1, <1>2, <1>3, <1>4, <1>5, <1>6, <1>7, <1>8, <1>9, <1>10, <1>11
  DEF Advance

(* An execution that is authorised stays so. *)
LEMMA AuthorisedStays ==
  ASSUME NEW e \in Calls, Kept(e), Authorised(e)
  PROVE  Authorised(e)'
BY DEF Kept, Authorised

(* What is known of the executions and by the requests stays true, though   *)
(* the requests race.                                                       *)
LEMMA KnowledgeStep == Typed /\ Knowledge /\ [Next]_vars => Knowledge'
<1> SUFFICES ASSUME Typed, Knowledge, [Next]_vars PROVE Knowledge'
  OBVIOUS
<1> USE DEF Knowledge
<1>1. ASSUME NEW c \in Calls, Arrive(c) PROVE Knowledge'
  <2>0. /\ call[c].pc = "idle" /\ ~rows[c].exists
        /\ call'[c].pc \in {"created", "approving", "rejecting", "recording"}
        /\ rows'[call'[c].e].exists
        /\ call'[c].pc = "created" => call'[c].e = c
        /\ \A d \in Calls \ {c} : call'[d] = call[d]
        /\ \A e \in Calls \ {c} : rows'[e] = rows[e]
        /\ rows'[c].type \in LowRisk => rows'[c].approval # "PENDING"
             \/ rows' = rows
        /\ trail' = trail /\ results' = results
    BY <1>1, ArriveFrame
  <2>1. ASSUME NEW e \in Calls \ {c}
        PROVE  /\ call'[e].pc = "idle" => ~rows'[e].exists
               /\ ~rows'[e].exists => results'[e] = <<>>
               /\ rows'[e].exists /\ rows'[e].approval = "PENDING"
                    => results'[e] = <<>> /\ rows'[e].type \notin LowRisk
               /\ results'[e] # <<>> => Authorised(e)'
    BY <2>0 DEF RowsKnown, Authorised
  <2>2. /\ call'[c].pc # "idle" /\ results'[c] = <<>>
        /\ rows'[c].exists /\ rows'[c].approval = "PENDING"
             => rows'[c].type \notin LowRisk
    BY <2>0 DEF RowsKnown
  <2>3. RowsKnown'
    BY <2>1, <2>2 DEF RowsKnown
  <2>4. ASSUME NEW d \in Calls \ {c}
        PROVE  /\ call'[d].pc \notin {"idle", "done"}
                    => rows'[call'[d].e].exists
               /\ call'[d].pc = "created" => call'[d].e = d
               /\ call'[d].pc \in Cleared
                    => rows'[call'[d].e].approval # "PENDING"
               /\ call'[d].pc \in Executing => Authorised(call[d].e)'
    <3>1. call'[d] = call[d] /\ call[d].e \in Calls
      BY <2>0 DEF Typed, Call
    <3>2. call[d].pc \notin {"idle", "done"} =>
            rows'[call[d].e] = rows[call[d].e]
      BY <2>0, <3>1 DEF CallsKnow
    <3> QED
      BY <2>0, <3>1, <3>2
      DEF CallsKnow, Cleared, Executing, Authorised
  <2>5. CallsKnow'
    BY <2>0, <2>4 DEF CallsKnow, Cleared, Executing
  <2> QED
    BY <2>3, <2>5
<1>2. ASSUME NEW c \in Calls, Advance(c) PROVE Knowledge'
  <2>0. RowsFollow(c) /\ CallFollows(c)
    BY <1>2, AdvanceFrame
  <2>1. ASSUME NEW e \in Calls
        PROVE  /\ call'[e].pc = "idle" => ~rows'[e].exists
               /\ ~rows'[e].exists => results'[e] = <<>>
               /\ rows'[e].exists /\ rows'[e].approval = "PENDING"
                    => results'[e] = <<>> /\ rows'[e].type \notin LowRisk
               /\ results'[e] # <<>> => Authorised(e)'
    <3>1. rows[e].exists => Kept(e)
      BY <2>0 DEF RowsFollow
    <3>2. rows'[e].exists <=> rows[e].exists
      BY <2>0, <3>1 DEF RowsFollow, Kept, Typed, Row
    <3>3. \/ results'[e] = results[e]
          \/ e = call[c].e /\ call[c].pc = "running"
      BY <2>0 DEF RowsFollow
    <3>4. call[c].pc = "running" =>
            /\ rows[call[c].e].exists
            /\ rows[call[c].e].approval # "PENDING"
            /\ Authorised(call[c].e)
      BY DEF CallsKnow, Cleared, Executing
    <3>5. call'[e].pc = "idle" => call[e].pc = "idle"
      BY <2>0 DEF CallFollows
    <3>6. rows[e].exists /\ Authorised(e) => Authorised(e)'
      BY <3>1, AuthorisedStays
    <3> QED
      BY <3>1, <3>2, <3>3, <3>4, <3>5, <3>6 DEF RowsKnown, Kept
  <2>2. RowsKnown'
    BY <2>1 DEF RowsKnown
  <2>3. ASSUME NEW d \in Calls \ {c}
        PROVE  /\ call'[d].pc \notin {"idle", "done"}
                    => rows'[call'[d].e].exists
               /\ call'[d].pc = "created" => call'[d].e = d
               /\ call'[d].pc \in Cleared
                    => rows'[call'[d].e].approval # "PENDING"
               /\ call'[d].pc \in Executing => Authorised(call[d].e)'
    <3>1. call'[d] = call[d] /\ call[d].e \in Calls
      BY <2>0 DEF CallFollows, Typed, Call
    <3>2. PICK e \in Calls : e = call[d].e
      BY <3>1
    <3>3. call[d].pc \notin {"idle", "done"} => rows[e].exists /\ Kept(e)
      BY <2>0, <3>2 DEF RowsFollow, CallsKnow
    <3>4. Kept(e) /\ Authorised(e) => Authorised(e)'
      BY AuthorisedStays
    <3> QED
      BY <3>1, <3>2, <3>3, <3>4
      DEF CallsKnow, Cleared, Executing, Kept, Authorised
  <2>4. /\ call'[c].pc \notin {"idle", "done"} => rows'[call'[c].e].exists
        /\ call'[c].pc # "created"
        /\ call'[c].pc \in Cleared
             => rows'[call'[c].e].approval # "PENDING"
        /\ call'[c].pc \in Executing => Authorised(call[c].e)'
    <3>1. PICK e \in Calls : e = call[c].e
      BY <2>0 DEF CallFollows
    <3>2. rows[e].exists /\ Kept(e)
      BY <2>0, <3>1 DEF RowsFollow, CallFollows, CallsKnow
    <3>3. Authorised(e) => Authorised(e)'
      BY <3>2, AuthorisedStays
    <3>4. call'[c].pc # "done" => call'[c].e = e
      BY <2>0, <3>1 DEF CallFollows
    <3> QED
      BY <2>0, <3>1, <3>2, <3>3, <3>4
      DEF CallFollows, CallsKnow, Kept, Cleared, Executing, Authorised
  <2>5. CallsKnow'
    BY <2>3, <2>4 DEF CallsKnow
  <2> QED
    BY <2>2, <2>5
<1>3. CASE UNCHANGED vars
  BY <1>3 DEF vars, RowsKnown, CallsKnow, Authorised
<1> QED
  BY <1>1, <1>2, <1>3 DEF Next

------------------------------------------------------------------------------
\* The requests that may yet run the handler of e, and those there have been.
Coming(e) == {c \in Calls : call[c].e = e /\ call[c].pc \in Underway}
Begun == {c \in Calls : call[c].pc # "idle"}

\* The runs there were and the runs that may yet come, counted together.
Runs(e) == Len(results[e]) + Cardinality(Coming(e))

Counted ==
  /\ Cardinality(InFlight) <= Width
  /\ \A e \in Calls : Runs(e) <= Width /\ Runs(e) <= Cardinality(Begun)

(* Sets of requests are finite, and a part has no more than the whole. *)
LEMMA SubsetsCounted ==
  ASSUME NEW S \in SUBSET Calls, NEW T \in SUBSET S
  PROVE  /\ IsFiniteSet(S) /\ Cardinality(S) \in Nat
         /\ Cardinality(T) \in Nat /\ Cardinality(T) <= Cardinality(S)
<1>1. IsFiniteSet(S)
  BY ExecutionAssumption, FS_Subset
<1>2. IsFiniteSet(T) /\ Cardinality(T) <= Cardinality(S)
  BY <1>1, FS_Subset
<1> QED
  BY <1>1, <1>2, FS_CardinalityType

(* A request is let in while there is room, and on the way to a handler     *)
(* only while the handler has not run.                                      *)
LEMMA ArriveCounts ==
  ASSUME Typed, Knowledge, NEW c \in Calls, Arrive(c)
  PROVE  /\ Cardinality(InFlight) < Width
         /\ call'[c].pc \in Underway => results[call'[c].e] = <<>>
<1>1. ASSUME NEW type \in Types, Create(c, type)
      PROVE  /\ Cardinality(InFlight) < Width
             /\ call'[c].e = c /\ results[c] = <<>>
  BY <1>1 DEF Create, Enter, Typed, Knowledge, RowsKnown
<1>2. ASSUME NEW e \in Calls, StartApprove(c, e)
      PROVE  /\ Cardinality(InFlight) < Width
             /\ call'[c].e = e /\ results[e] = <<>>
  BY <1>2 DEF StartApprove, Enter, Typed, Knowledge, RowsKnown
<1>3. ASSUME NEW e \in Calls, StartReject(c, e) \/ StartRecord(c, e)
      PROVE  /\ Cardinality(InFlight) < Width
             /\ call'[c].pc \in {"rejecting", "recording"}
  BY <1>3 DEF StartReject, StartRecord, Enter, Typed
<1> QED
  BY <1>1, <1>2, <1>3 DEF Arrive, Underway, Cleared, Executing

(* Every step of the specification keeps the count. *)
LEMMA CountedStep == Typed /\ Knowledge /\ Counted /\ [Next]_vars => Counted'
<1> SUFFICES ASSUME Typed, Knowledge, Counted, [Next]_vars PROVE Counted'
  OBVIOUS
<1>0. /\ InFlight \in SUBSET Calls /\ InFlight' \in SUBSET Calls
      /\ Begun \in SUBSET Calls /\ Begun' \in SUBSET Calls
      /\ InFlight' \subseteq Begun'
      /\ \A e \in Calls : /\ Coming(e) \in SUBSET Calls
                          /\ Coming(e)' \in SUBSET Calls
                          /\ Coming(e)' \subseteq InFlight'
  BY DEF InFlight, Begun, Coming, Underway, Cleared, Executing
<1>1. ASSUME NEW c \in Calls, Arrive(c) PROVE Counted'
  <2>1. /\ call[c].pc = "idle" /\ setting' = setting /\ results' = results
        /\ \A d \in Calls \ {c} : call'[d] = call[d]
        /\ call'[c].pc \notin {"idle", "done"}
    BY <1>1, ArriveFrame
  <2>2. /\ Cardinality(InFlight) < Width
        /\ call'[c].pc \in Underway => results[call'[c].e] = <<>>
    BY <1>1, ArriveCounts
  <2>3. InFlight' = InFlight \cup {c} /\ Begun \subseteq Begun'
    BY <2>1 DEF InFlight, Begun
  <2>4. Width' = Width /\ Width \in Nat
    BY <2>1, ExecutionAssumption DEF Width, Typed
  <2>5. Cardinality(InFlight') <= Width
    <3>1. IsFiniteSet(InFlight) /\ Cardinality(InFlight) \in Nat
      BY <1>0, SubsetsCounted
    <3>2. Cardinality(InFlight') = Cardinality(InFlight) + 1
      <4>1. c \notin InFlight
        BY <2>1 DEF InFlight
      <4>2. Cardinality(InFlight \cup {c}) = Cardinality(InFlight) + 1
        BY <3>1, <4>1, FS_AddElement
      <4> QED
        BY <2>3, <4>2
    <3>3. Cardinality(InFlight') \in Nat
      BY <1>0, SubsetsCounted
    <3> QED
      BY <2>2, <2>4, <3>1, <3>2, <3>3
  <2>6. ASSUME NEW e \in Calls
        PROVE  Runs(e)' <= Width /\ Runs(e)' <= Cardinality(Begun')
    <3>0. /\ Cardinality(Begun) \in Nat /\ Cardinality(Begun') \in Nat
          /\ Cardinality(Begun) <= Cardinality(Begun')
          /\ Cardinality(Coming(e)) \in Nat /\ Cardinality(Coming(e)') \in Nat
          /\ Cardinality(Coming(e)') <= Cardinality(InFlight')
          /\ Cardinality(InFlight') <= Cardinality(Begun')
          /\ Cardinality(InFlight') \in Nat
      BY <1>0, <2>3, SubsetsCounted
    <3>1. CASE results[e] = <<>>
      BY <2>1, <2>4, <2>5, <3>0, <3>1 DEF Runs
    <3>2. CASE results[e] # <<>>
      <4>1. Coming(e)' \subseteq Coming(e)
        BY <2>1, <2>2, <3>2 DEF Coming
      <4>2. Cardinality(Coming(e)') <= Cardinality(Coming(e))
        BY <1>0, <4>1, SubsetsCounted
      <4>3. Len(results[e]) \in Nat
        BY DEF Typed
      <4> QED
        BY <2>1, <2>4, <3>0, <4>2, <4>3 DEF Runs, Counted
    <3> QED
      BY <3>1, <3>2
  <2> QED
    BY <2>4, <2>5, <2>6 DEF Counted
<1>2. ASSUME NEW c \in Calls, Advance(c) PROVE Counted'
  <2>1. RowsFollow(c) /\ CallFollows(c) /\ setting' = setting
    BY <1>2, AdvanceFrame
  <2>2. InFlight' \subseteq InFlight /\ Begun \subseteq Begun'
    BY <2>1 DEF InFlight, Begun, CallFollows
  <2>3. Width' = Width /\ Width \in Nat
    BY <2>1, ExecutionAssumption DEF Width, Typed
  <2>4. Cardinality(InFlight') <= Width
    <3>1. /\ Cardinality(InFlight') <= Cardinality(InFlight)
          /\ Cardinality(InFlight) \in Nat /\ Cardinality(InFlight') \in Nat
      BY <1>0, <2>2, SubsetsCounted
    <3> QED
      BY <2>3, <3>1 DEF Counted
  <2>5. ASSUME NEW e \in Calls
        PROVE  Runs(e)' <= Width /\ Runs(e)' <= Cardinality(Begun')
    <3>0. /\ Cardinality(Begun) \in Nat /\ Cardinality(Begun') \in Nat
          /\ Cardinality(Begun) <= Cardinality(Begun')
          /\ IsFiniteSet(Coming(e))
          /\ Cardinality(Coming(e)) \in Nat /\ Cardinality(Coming(e)') \in Nat
      BY <1>0, <2>2, SubsetsCounted
    <3>1. Len(results[e]) \in Nat
      BY DEF Typed
    <3>2. Coming(e)' \subseteq Coming(e)
      BY <2>1 DEF Coming, CallFollows, Underway, Cleared, Executing
    <3>3. CASE results'[e] = results[e]
      <4>1. Cardinality(Coming(e)') <= Cardinality(Coming(e))
        BY <1>0, <3>2, SubsetsCounted
      <4> QED
        BY <2>3, <3>0, <3>1, <3>3, <4>1 DEF Runs, Counted
    <3>4. CASE /\ e = call[c].e /\ call[c].pc = "running"
               /\ Len(results'[e]) = Len(results[e]) + 1
               /\ call'[c].pc \notin Underway
      <4>1. c \in Coming(e) /\ Coming(e)' \subseteq Coming(e) \ {c}
        BY <3>2, <3>4 DEF Coming, Underway, Cleared, Executing
      <4>2. Cardinality(Coming(e) \ {c}) = Cardinality(Coming(e)) - 1
        BY <3>0, <4>1, FS_RemoveElement
      <4>3. Cardinality(Coming(e)') <= Cardinality(Coming(e) \ {c})
        BY <1>0, <4>1, SubsetsCounted
      <4> QED
        BY <2>3, <3>0, <3>1, <3>4, <4>2, <4>3 DEF Runs, Counted
    <3> QED
      BY <2>1, <3>3, <3>4 DEF RowsFollow
  <2> QED
    BY <2>3, <2>4, <2>5 DEF Counted
<1>3. CASE UNCHANGED vars
  BY <1>3 DEF vars, Counted, Runs, Coming, Begun, InFlight, Width
<1> QED
  BY <1>1, <1>2, <1>3 DEF Next

------------------------------------------------------------------------------
(* The inductive invariant holds at first ... *)
LEMMA InitInv == Init => Typed /\ Knowledge /\ Counted
<1> SUFFICES ASSUME Init PROVE Typed /\ Knowledge /\ Counted
  OBVIOUS
<1>1. Typed
  <2>1. \A c \in Calls : Resting(c, "idle") \in Call
    BY RestingTyped DEF Steps
  <2>2. <<>> \in Seq({"ok", "error"})
    OBVIOUS
  <2> QED
    BY <2>1, <2>2
    DEF Init, Typed, Row, ExecutionType, Status, Approval, Outcomes
<1>2. \A c \in Calls : call[c].pc = "idle"
  BY DEF Init, Resting
<1>3. Knowledge
  BY <1>2 DEF Init, Knowledge, RowsKnown, CallsKnow, Cleared, Executing
<1>4. Counted
  <2>1. InFlight = {} /\ Begun = {} /\ \A e \in Calls : Coming(e) = {}
    BY <1>2 DEF InFlight, Begun, Coming, Underway, Cleared, Executing
  <2>2. Width \in Nat
    BY <1>1, ExecutionAssumption DEF Width, Typed
  <2>3. \A e \in Calls : Len(results[e]) = 0
    BY DEF Init
  <2>4. Cardinality({}) = 0
    BY FS_EmptySet
  <2>5. /\ Cardinality(InFlight) = 0 /\ Cardinality(Begun) = 0
        /\ \A e \in Calls : Cardinality(Coming(e)) = 0
    BY <2>1, <2>4
  <2> QED
    BY <2>2, <2>3, <2>5 DEF Counted, Runs
<1> QED
  BY <1>1, <1>3, <1>4

(* ... and always. *)
LEMMA AlwaysInv == Spec => [](Typed /\ Knowledge /\ Counted)
<1>1. Typed /\ Knowledge /\ Counted /\ [Next]_vars
        => (Typed /\ Knowledge /\ Counted)'
  BY TypedStep, KnowledgeStep, CountedStep
<1> QED
  BY <1>1, InitInv, PTL DEF Spec

(* No handler of an execution has run more often than there are requests.  *)
LEMMA RunsCounted ==
  ASSUME Typed, Counted, NEW e \in Calls
  PROVE  Len(results[e]) <= Width /\ Len(results[e]) <= Cardinality(Calls)
<1>1. /\ Cardinality(Coming(e)) \in Nat /\ Cardinality(Begun) \in Nat
      /\ Cardinality(Begun) <= Cardinality(Calls)
      /\ Cardinality(Calls) \in Nat
  BY SubsetsCounted DEF Coming, Begun
<1>2. Len(results[e]) \in Nat /\ Width \in Nat
  BY ExecutionAssumption DEF Typed, Width
<1> QED
  BY <1>1, <1>2 DEF Counted, Runs

(* The variables of the engine have their types, whatever races and         *)
(* whatever throws.                                                         *)
THEOREM TypeCorrect == Spec => []TypeOK
<1>1. Typed /\ Knowledge /\ Counted => TypeOK
  BY RunsCounted DEF Typed, TypeOK
<1> QED
  BY <1>1, AlwaysInv, PTL

(* No blind execution: whichever requests race and whatever throws, the     *)
(* handler of a type that is not low-risk has run only if the audit trail   *)
(* names an approval (createActionExecution, approveAction, execute).       *)
THEOREM NeverBlind == Spec => []NoBlindExecution
<1>1. Typed /\ Knowledge /\ Counted => NoBlindExecution
  BY DEF Knowledge, RowsKnown, Authorised, NoBlindExecution
<1> QED
  BY <1>1, AlwaysInv, PTL

(* Racing approvals run the handler of an execution no more often than      *)
(* there are requests served at a time (approveAction, execute).            *)
THEOREM RunsBounded == Spec => []RunsAreBounded
<1>1. Typed /\ Knowledge /\ Counted => RunsAreBounded
  BY RunsCounted DEF RunsAreBounded
<1> QED
  BY <1>1, AlwaysInv, PTL

------------------------------------------------------------------------------
(***************************************************************************)
(* EndIsSettled.  What an execution still lacks, somebody is about to do:  *)
(* for every status that is not the last word there is a request that will *)
(* write another one, and for every end that was not learned from or       *)
(* followed up a request that will see to it.  Requests overwrite one      *)
(* another's status, but whoever writes one takes what it calls for upon   *)
(* itself, and an error in the try block leads to the catch block, which   *)
(* writes the last word anew.                                              *)
(***************************************************************************)

\* Some request works on e and has come to one of these points.
Working(e, pcs) == \E d \in Calls : call[d].e = e /\ call[d].pc \in pcs

\* Some request is about to record v for e, or to fail.
AboutToFail(e) ==
  \E d \in Calls :
    /\ call[d].e = e
    /\ \/ call[d].pc = "failing"
       \/ /\ call[d].pc \in {"failed", "learning", "recording", "following"}
          /\ call[d].verdict = "NEGATIVE"

\* What is still to be done about e is being done.
Attended(e) ==
  /\ rows[e].status = "PENDING" =>
       /\ rows[e].type \in LowRisk
       /\ Working(e, {"created", "execute", "starting"})
  /\ rows[e].status = "APPROVED" =>
       Working(e, {"approved", "execute", "starting"})
  /\ rows[e].status = "EXECUTING" =>
       Working(e, {"marked", "running", "succeeded", "failing"})
  /\ rows[e].status \in {"COMPLETED", "FAILED"} =>
       \/ outcome[e] # "NONE"
       \/ Working(e, {"completed", "failing", "failed", "learning",
                      "recording"})
  /\ rows[e].type \in Retries /\ rows[e].status = "FAILED" =>
       "integration_guard_agent" \in followups[e] \/ AboutToFail(e)

\* The verdict of a request goes with the point it has come to.
VerdictsFit ==
  \A c \in Calls :
    /\ call[c].pc = "failed" => call[c].verdict = "NEGATIVE"
    /\ call[c].pc \in {"learning", "following"} =>
         call[c].verdict # "OPERATOR"
    /\ call[c].pc \notin {"failed", "learning", "recording", "following"} =>
         call[c].verdict = "POSITIVE"

SettledInv ==
  ErrorsCaught =>
    VerdictsFit /\ \A e \in Calls : rows[e].exists => Attended(e)

(* Where an error leaves the request, if only those happen that are caught. *)
LEMMA FaultCaught ==
  ASSUME Typed, VerdictsFit, ErrorsCaught, NEW c \in Calls, Fault(c)
  PROVE  /\ call' = [call EXCEPT ![c].pc = "failing"]
         /\ call[c].verdict = "POSITIVE"
         /\ call[c].pc \in TryBlock
BY DEF Fault, Throw, ErrorsCaught, Goto

(* The verdict of a request that has moved on fits. *)
LEMMA VerdictsStep ==
  ASSUME Typed, VerdictsFit, ErrorsCaught, NEW c \in Calls,
         Arrive(c) \/ Advance(c)
  PROVE  VerdictsFit'
<1>0. /\ call \in [Calls -> Call] /\ call[c].verdict \in Outcomes
      /\ call[c].pc \in Steps
  BY DEF Typed, Call
<1>1. SUFFICES ASSUME NEW d \in Calls
      PROVE  /\ call'[d].pc = "failed" => call'[d].verdict = "NEGATIVE"
             /\ call'[d].pc \in {"learning", "following"} =>
                  call'[d].verdict # "OPERATOR"
             /\ call'[d].pc \notin
                    {"failed", "learning", "recording", "following"} =>
                  call'[d].verdict = "POSITIVE"
  BY DEF VerdictsFit
<1> USE <1>0 DEF VerdictsFit, Call, Goto, Finish, Resting
<1>2. CASE Arrive(c)
  <2>1. PICK pc \in {"created", "approving", "rejecting", "recording"},
             verdict \in {"POSITIVE", "OPERATOR"}, e \in Calls :
          /\ call' = [call EXCEPT ![c] =
               [pc |-> pc, e |-> e, verdict |-> verdict]]
          /\ pc # "recording" => verdict = "POSITIVE"
    <3>1. CASE \E type \in Types : Create(c, type)
      BY <3>1 DEF Create, Enter
    <3>2. CASE \E e \in Calls : StartApprove(c, e) \/ StartReject(c, e)
                                \/ StartRecord(c, e)
      BY <3>2 DEF StartApprove, StartReject, StartRecord, Enter
    <3> QED
      BY <1>2, <3>1, <3>2 DEF Arrive
  <2> QED
    BY <2>1
<1>3. CASE AuditCreation(c) \/ Approve(c) \/ AuditApproval(c) \/ Reject(c)
             \/ AuditRejection(c) \/ Begin(c) \/ MarkExecuting(c)
  BY <1>3
  DEF AuditCreation, Approve, AuditApproval, Reject, AuditRejection, Begin,
      MarkExecuting
<1>4. CASE AuditStart(c) \/ MarkCompleted(c) \/ AuditCompletion(c)
             \/ AuditFailure(c)
  BY <1>4 DEF AuditStart, MarkCompleted, AuditCompletion, AuditFailure
<1>4a. ASSUME NEW result \in {"ok", "error"}, RunHandler(c, result)
       PROVE  VerdictsFit'
  BY <1>4a DEF RunHandler
<1>4b. CASE MarkFailed(c)
  BY <1>4b DEF MarkFailed
<1>5. CASE CheckFinalized(c) \/ RecordOutcome(c) \/ Followup(c)
  BY <1>5 DEF CheckFinalized, RecordOutcome, Followup, Throw, TryBlock
<1>6. CASE Fault(c)
  BY <1>6, FaultCaught DEF TryBlock
<1> QED
  BY <1>2, <1>3, <1>4, <1>4a, <1>4b, <1>5, <1>6 DEF Advance

(* A request that arrives takes nothing away from what is being done, and   *)
(* sees to the execution it makes.                                          *)
LEMMA ArriveAttends ==
  ASSUME Typed, Knowledge, NEW c \in Calls, Arrive(c), NEW e \in Calls,
         rows[e].exists => Attended(e), rows'[e].exists
  PROVE  Attended(e)'
<1>1. call[c].pc = "idle" /\ \A d \in Calls \ {c} : call'[d] = call[d]
  BY ArriveFrame
<1>2. outcome' = outcome /\ followups' = followups
  BY DEF Arrive, Create, StartApprove, StartReject, StartRecord
<1>3. CASE rows'[e] = rows[e]
  BY <1>1, <1>2, <1>3 DEF Attended, Working, AboutToFail
<1>4. CASE rows'[e] # rows[e]
  <2>1. PICK type \in Types : Create(c, type) /\ e = c
    BY <1>4, ArriveFrame
    DEF Arrive, StartApprove, StartReject, StartRecord
  <2>2. call'[c].pc = "created" /\ call'[c].e = c
    BY <2>1 DEF Create, Enter, Typed
  <2>3. \/ /\ rows'[c].status = "PENDING" /\ rows'[c].type \in LowRisk
        \/ rows'[c].status = "PENDING_APPROVAL"
    BY <2>1 DEF Create, determineApprovalStatus, Typed
  <2> QED
    BY <2>1, <2>2, <2>3 DEF Attended, Working
<1> QED
  BY <1>3, <1>4

(* The step of a request leaves other executions to the same hands. *)
LEMMA AttendedElsewhere ==
  ASSUME Typed, Knowledge, NEW c \in Calls, Advance(c), NEW e \in Calls,
         e # call[c].e, Attended(e)
  PROVE  Attended(e)'
<1>1. \A d \in Calls \ {c} : call'[d] = call[d]
  BY AdvanceFrame DEF CallFollows
<1>2. /\ rows'[e] = rows[e] /\ outcome'[e] = outcome[e]
      /\ followups'[e] = followups[e]
  BY DEF Advance, AuditCreation, Approve, AuditApproval, Reject,
      AuditRejection, Begin, MarkExecuting, AuditStart, RunHandler,
      MarkCompleted, AuditCompletion, MarkFailed, AuditFailure,
      CheckFinalized, RecordOutcome, Followup, Fault, SetStatus, Typed
<1> QED
  BY <1>1, <1>2 DEF Attended, Working, AboutToFail

(* A request attends to its own execution at every step, or leaves it to    *)
(* another that does.                                                       *)
LEMMA AttendedHere ==
  ASSUME Typed, Knowledge, VerdictsFit, ErrorsCaught, NEW c \in Calls,
         Advance(c), NEW e \in Calls, e = call[c].e, Attended(e)
  PROVE  Attended(e)'
<1>0. /\ call \in [Calls -> Call] /\ call[c] \in Call
      /\ rows \in [Calls -> Row] /\ rows[e] \in Row
      /\ \A d \in Calls \ {c} : call'[d] = call[d]
  BY AdvanceFrame DEF Typed, CallFollows
<1> USE <1>0 DEF VerdictsFit, Goto, Finish, Resting, Attended, Working,
                 AboutToFail, Call, Row
<1>1. CASE AuditCreation(c)
  <2>1. e = c
    BY <1>1 DEF AuditCreation, Knowledge, CallsKnow
  <2>2. \/ /\ call' = [call EXCEPT ![c].pc = "execute"]
        \/ /\ call' = [call EXCEPT ![c] = Resting(c, "done")]
           /\ rows[e].type \notin LowRisk
    BY <1>1, <2>1 DEF AuditCreation, determineApprovalStatus
  <2>3. call[c].pc = "created" /\ UNCHANGED <<rows, outcome, followups>>
    BY <1>1 DEF AuditCreation
  <2> QED
    BY <2>1, <2>2, <2>3
<1>2. CASE Approve(c) \/ AuditApproval(c)
  BY <1>2 DEF Approve, AuditApproval, SetStatus
<1>3. CASE Reject(c) \/ AuditRejection(c)
  BY <1>3 DEF Reject, AuditRejection, SetStatus
<1>4. CASE Begin(c)
  BY <1>4 DEF Begin
<1>5. CASE MarkExecuting(c)
  <2>1. rows'[e].status = "EXECUTING"
    BY <1>5 DEF MarkExecuting, SetStatus
  <2>2. call'[c].pc = "marked" /\ call'[c].e = e
    BY <1>5 DEF MarkExecuting
  <2> QED
    BY <2>1, <2>2
<1>5a. CASE AuditStart(c)
  BY <1>5a DEF AuditStart
<1>6. ASSUME NEW result \in {"ok", "error"}, RunHandler(c, result)
      PROVE  Attended(e)'
  BY <1>6 DEF RunHandler
<1>7. CASE MarkCompleted(c) \/ AuditCompletion(c)
  BY <1>7 DEF MarkCompleted, AuditCompletion, SetStatus
<1>8. CASE MarkFailed(c)
  <2>1. /\ rows'[e].status = "FAILED"
        /\ call'[c].pc = "failed" /\ call'[c].e = e
        /\ call'[c].verdict = "NEGATIVE"
    BY <1>8 DEF MarkFailed, SetStatus
  <2> QED
    BY <2>1
<1>9. CASE AuditFailure(c)
  BY <1>9 DEF AuditFailure
<1>10. CASE CheckFinalized(c)
  BY <1>10 DEF CheckFinalized, Throw, TryBlock, Final
<1>11. CASE RecordOutcome(c)
  <2>1. outcome'[e] # "NONE"
    BY <1>11 DEF RecordOutcome, Typed, Outcomes
  <2>2. call[c].verdict = "NEGATIVE" =>
          /\ call'[c].pc = "following" /\ call'[c].e = e
          /\ call'[c].verdict = "NEGATIVE"
    BY <1>11 DEF RecordOutcome
  <2>3. call[c].pc = "recording" /\ rows' = rows /\ followups' = followups
    BY <1>11 DEF RecordOutcome
  <2>4. AboutToFail(e) => AboutToFail(e)'
    BY <2>2, <2>3
  <2>5. \A pcs \in {{"created", "execute", "starting"},
                    {"approved", "execute", "starting"},
                    {"marked", "running", "succeeded", "failing"}} :
          Working(e, pcs) => Working(e, pcs)'
    BY <2>3
  <2> HIDE DEF Working, AboutToFail
  <2> QED
    BY <2>1, <2>3, <2>4, <2>5
<1>12. CASE Followup(c)
  <2>1. /\ call[c].verdict = "NEGATIVE" /\ rows[e].type \in Retries =>
             "integration_guard_agent" \in followups'[e]
        /\ followups[e] \subseteq followups'[e]
    BY <1>12 DEF Followup, Triggered, Typed
  <2> QED
    BY <1>12, <2>1 DEF Followup
<1>13. CASE Fault(c)
  BY <1>13, FaultCaught DEF Fault, TryBlock
<1> QED
  BY <1>1, <1>2, <1>3, <1>4, <1>5, <1>5a, <1>6, <1>7, <1>8, <1>9, <1>10,
     <1>11, <1>12, <1>13 DEF Advance

(* Every step keeps what is attended to attended to. *)
LEMMA SettledStep == Typed /\ Knowledge /\ SettledInv /\ [Next]_vars
                       => SettledInv'
<1> SUFFICES ASSUME Typed, Knowledge, SettledInv, [Next]_vars
             PROVE  SettledInv'
  OBVIOUS
<1>1. ASSUME NEW c \in Calls, Arrive(c) PROVE SettledInv'
  <2>1. setting' = setting
    BY <1>1, ArriveFrame
  <2>2. ErrorsCaught' = ErrorsCaught
    BY <2>1 DEF ErrorsCaught, FaultPoints
  <2> QED
    BY <1>1, <2>2, ArriveAttends, VerdictsStep DEF SettledInv
<1>2. ASSUME NEW c \in Calls, Advance(c) PROVE SettledInv'
  <2>1. setting' = setting /\ RowsFollow(c)
    BY <1>2, AdvanceFrame
  <2>2. ErrorsCaught' = ErrorsCaught
    BY <2>1 DEF ErrorsCaught, FaultPoints
  <2>3. \A e \in Calls : rows'[e].exists => rows[e].exists
    BY <2>1 DEF RowsFollow, Typed, Row
  <2> QED
    BY <1>2, <2>2, <2>3, AttendedHere, AttendedElsewhere, VerdictsStep
    DEF SettledInv
<1>3. CASE UNCHANGED vars
  BY <1>3
  DEF vars, SettledInv, ErrorsCaught, FaultPoints, VerdictsFit, Attended,
      Working, AboutToFail
<1> QED
  BY <1>1, <1>2, <1>3 DEF Next

\* The outcome is the one the status calls for, or an operator's.
Agreed(e) ==
  outcome[e] # "OPERATOR" =>
    /\ rows[e].status = "COMPLETED" => outcome[e] = "POSITIVE"
    /\ rows[e].status = "FAILED" => outcome[e] = "NEGATIVE"

\* A request that has written an end, and is to record it.
Concluding(c) ==
  /\ call[c].pc \in {"completed", "failing", "failed", "learning",
                     "recording", "following"}
  /\ call[c].verdict # "OPERATOR"

\* The status is still what the request has written.
EndStands(c) ==
  LET e == call[c].e
      verdict == call[c].verdict
  IN /\ /\ call[c].pc \in {"completed", "learning", "recording", "following"}
        /\ verdict = "POSITIVE"
        => rows[e].status = "COMPLETED"
     /\ /\ call[c].pc \in {"failed", "learning", "recording", "following"}
        /\ verdict = "NEGATIVE"
        => rows[e].status = "FAILED"
     /\ call[c].pc = "following" => outcome[e] = verdict

\* Served alone, a request finds the status as it has left it, and leaves no
\* execution with an outcome that does not agree.
ServedAlone ==
  Width = 1 =>
    /\ \A c, d \in InFlight : c = d
    /\ \A c \in InFlight : EndStands(c)
    /\ \A e \in Calls :
         Agreed(e) \/ \E c \in InFlight : call[c].e = e /\ Concluding(c)

(* Only the row and the outcome of its own execution are changed by a       *)
(* request that is being served.                                            *)
LEMMA ChangesOwn ==
  ASSUME Typed, NEW c \in Calls, Advance(c), NEW e \in Calls,
         e # call[c].e
  PROVE  rows'[e] = rows[e] /\ outcome'[e] = outcome[e]
BY DEF Advance, AuditCreation, Approve, AuditApproval, Reject,
    AuditRejection, Begin, MarkExecuting, AuditStart, RunHandler,
    MarkCompleted, AuditCompletion, MarkFailed, AuditFailure,
    CheckFinalized, RecordOutcome, Followup, Fault, SetStatus, Typed

(* A request that is served alone leaves its execution with an outcome that *)
(* agrees, or is about to record it.                                        *)
LEMMA EndsAgree ==
  ASSUME Typed, Knowledge, VerdictsFit, ErrorsCaught, NEW c \in Calls,
         Advance(c), NEW e \in Calls, e = call[c].e, EndStands(c),
         Agreed(e) \/ Concluding(c)
  PROVE  /\ call'[c].pc \notin {"idle", "done"} => EndStands(c)'
         /\ Agreed(e)' \/ Concluding(c)'
         /\ Concluding(c)' => call'[c].e = e
<1>0. /\ call \in [Calls -> Call] /\ call[c] \in Call
      /\ rows \in [Calls -> Row] /\ rows[e] \in Row
      /\ outcome \in [Calls -> Outcomes]
  BY DEF Typed
<1> USE <1>0 DEF VerdictsFit, Goto, Finish, Resting, Agreed, Concluding,
                 EndStands, Call, Row, Outcomes
<1>1. CASE AuditCreation(c) \/ AuditApproval(c) \/ AuditRejection(c)
             \/ Begin(c) \/ AuditStart(c) \/ AuditCompletion(c)
             \/ AuditFailure(c)
  <2>1. UNCHANGED <<rows, outcome>>
    BY <1>1 DEF AuditCreation, AuditApproval, AuditRejection, Begin,
                AuditStart, AuditCompletion, AuditFailure
  <2>2. \/ /\ call[c].pc \notin {"completed", "failing", "failed",
                                 "learning", "recording", "following"}
           /\ \E pc \in {"execute", "starting", "running", "done"} :
                \/ call' = [call EXCEPT ![c].pc = pc]
                \/ call' = [call EXCEPT ![c] = Resting(c, "done")]
        \/ /\ call[c].pc \in {"completed", "failed"}
           /\ call' = [call EXCEPT ![c].pc = "learning"]
    BY <1>1 DEF AuditCreation, AuditApproval, AuditRejection, Begin,
                AuditStart, AuditCompletion, AuditFailure
  <2> QED
    BY <2>1, <2>2
<1>2. CASE Approve(c) \/ Reject(c)
  BY <1>2 DEF Approve, Reject, SetStatus
<1>3. CASE MarkExecuting(c)
  BY <1>3 DEF MarkExecuting, SetStatus
<1>4. ASSUME NEW result \in {"ok", "error"}, RunHandler(c, result)
      PROVE  /\ call'[c].pc \notin {"idle", "done"} => EndStands(c)'
             /\ Agreed(e)' \/ Concluding(c)'
             /\ Concluding(c)' => call'[c].e = e
  BY <1>4 DEF RunHandler
<1>5. CASE MarkCompleted(c)
  BY <1>5 DEF MarkCompleted, SetStatus
<1>6. CASE MarkFailed(c)
  BY <1>6 DEF MarkFailed, SetStatus
<1>7. CASE CheckFinalized(c)
  BY <1>7 DEF CheckFinalized, Final
<1>8. CASE RecordOutcome(c)
  BY <1>8 DEF RecordOutcome
<1>9. CASE Followup(c)
  BY <1>9 DEF Followup
<1>10. CASE Fault(c)
  BY <1>10, FaultCaught DEF Fault, TryBlock
<1> QED
  BY <1>1, <1>2, <1>3, <1>4, <1>5, <1>6, <1>7, <1>8, <1>9, <1>10 DEF Advance

(* With one request served at a time every outcome agrees with the status,  *)
(* or is about to.                                                          *)
LEMMA AloneStep ==
  Typed /\ Knowledge /\ SettledInv /\ ErrorsCaught /\ ServedAlone /\ [Next]_vars
    => ServedAlone'
<1> SUFFICES ASSUME Typed, Knowledge, SettledInv, ErrorsCaught, ServedAlone,
                    [Next]_vars, Width' = 1
             PROVE  /\ \A c, d \in InFlight' : c = d
                    /\ \A c \in InFlight' : EndStands(c)'
                    /\ \A e \in Calls :
                         \/ Agreed(e)'
                         \/ \E c \in InFlight' :
                              call'[c].e = e /\ Concluding(c)'
  BY DEF ServedAlone
<1>0. VerdictsFit
  BY DEF SettledInv
<1>1. ASSUME NEW c \in Calls, Arrive(c)
      PROVE  /\ \A d, f \in InFlight' : d = f
             /\ \A d \in InFlight' : EndStands(d)'
             /\ \A e \in Calls :
                  \/ Agreed(e)'
                  \/ \E d \in InFlight' :
                       call'[d].e = e /\ Concluding(d)'
  <2>1. /\ setting' = setting
        /\ \A d \in Calls \ {c} : call'[d] = call[d]
        /\ call'[c].pc \in {"created", "approving", "rejecting", "recording"}
    BY <1>1, ArriveFrame
  <2>2. InFlight = {}
    <3>1. Cardinality(InFlight) < 1
      BY <1>1, <2>1, ArriveCounts DEF Width
    <3>2. IsFiniteSet(InFlight) /\ Cardinality(InFlight) \in Nat
      BY SubsetsCounted DEF InFlight
    <3> QED
      BY <3>1, <3>2, FS_EmptySet
  <2>3. InFlight' \subseteq {c}
    BY <2>1, <2>2 DEF InFlight
  <2>4. \A e \in Calls : Agreed(e)
    BY <2>1, <2>2 DEF ServedAlone, Width
  <2>5. call'[c].pc = "recording" => call'[c].verdict = "OPERATOR"
    <3>1. CASE \E type \in Types : Create(c, type)
      BY <3>1 DEF Create, Enter, Typed
    <3>2. CASE \E e \in Calls : StartApprove(c, e) \/ StartReject(c, e)
      BY <3>2 DEF StartApprove, StartReject, Enter, Typed
    <3>3. CASE \E e \in Calls : StartRecord(c, e)
      BY <3>3 DEF StartRecord, Enter, Typed
    <3> QED
      BY <1>1, <3>1, <3>2, <3>3 DEF Arrive
  <2>6. EndStands(c)'
    BY <2>1, <2>5 DEF EndStands
  <2>7. /\ outcome' = outcome
        /\ \A e \in Calls : \/ rows'[e] = rows[e]
                           \/ rows'[e].status \notin {"COMPLETED", "FAILED"}
    BY <1>1 DEF Arrive, Create, StartApprove, StartReject, StartRecord, Typed
  <2>8. \A e \in Calls : Agreed(e)'
    BY <2>4, <2>7 DEF Agreed
  <2> QED
    BY <2>3, <2>6, <2>8
<1>2. ASSUME NEW c \in Calls, Advance(c)
      PROVE  /\ \A d, f \in InFlight' : d = f
             /\ \A d \in InFlight' : EndStands(d)'
             /\ \A e \in Calls :
                  \/ Agreed(e)'
                  \/ \E d \in InFlight' :
                       call'[d].e = e /\ Concluding(d)'
  <2>1. RowsFollow(c) /\ CallFollows(c) /\ setting' = setting
    BY <1>2, AdvanceFrame
  <2>2. InFlight = {c} /\ EndStands(c)
    BY <2>1 DEF ServedAlone, Width, InFlight, CallFollows
  <2>3. InFlight' \subseteq {c}
    BY <2>1, <2>2 DEF InFlight, CallFollows
  <2>4. PICK f \in Calls : f = call[c].e
    BY <2>1 DEF CallFollows
  <2>5. ASSUME NEW e \in Calls
        PROVE  Agreed(e) \/ (e = f /\ Concluding(c))
    <3>1. Width = 1
      BY <2>1 DEF Width
    <3>2. \/ Agreed(e)
          \/ \E d \in InFlight : call[d].e = e /\ Concluding(d)
      BY <3>1 DEF ServedAlone
    <3>3. ASSUME NEW d \in InFlight, call[d].e = e, Concluding(d)
          PROVE  e = f /\ Concluding(c)
      <4>1. d = c
        BY <2>2
      <4> QED
        BY <2>4, <3>3, <4>1
    <3> QED
      BY <3>2, <3>3
  <2>6. /\ call'[c].pc \notin {"idle", "done"} => EndStands(c)'
        /\ Agreed(f)' \/ Concluding(c)'
        /\ Concluding(c)' => call'[c].e = f
    BY <1>0, <1>2, <2>2, <2>4, <2>5, EndsAgree
  <2>7. \A e \in Calls \ {f} : Agreed(e)'
    BY <1>2, <2>4, <2>5, ChangesOwn DEF Agreed
  <2>8. Concluding(c)' => c \in InFlight'
    BY DEF Concluding, InFlight
  <2>9. \A d \in InFlight' : EndStands(d)'
    BY <2>3, <2>6 DEF InFlight
  <2>10. ASSUME NEW e \in Calls
         PROVE  \/ Agreed(e)'
                \/ \E d \in InFlight' : call'[d].e = e /\ Concluding(d)'
    BY <2>6, <2>7, <2>8
  <2> QED
    BY <2>3, <2>9, <2>10
<1>3. CASE UNCHANGED vars
  <2>1. ServedAlone'
    BY <1>3 DEF vars, ServedAlone, Width, InFlight, EndStands, Agreed,
                Concluding
  <2> QED
    BY <2>1 DEF ServedAlone
<1> QED
  BY <1>1, <1>2, <1>3 DEF Next

(* What is attended to, once nobody works on it, is settled.                *)
LEMMA AttendedSettles ==
  ASSUME Typed, Knowledge, SettledInv, ErrorsCaught, ServedAlone
  PROVE  /\ StartedIsFinished /\ FinalizedIsLearned
         /\ FailureIsFollowedUp /\ OutcomeAgrees
<1>1. ASSUME NEW e \in Calls, rows[e].exists, Quiet(e)
      PROVE  /\ rows[e].status \in Final \cup {"PENDING_APPROVAL"}
             /\ rows[e].status \in {"COMPLETED", "FAILED"} =>
                  outcome[e] # "NONE"
             /\ rows[e].type \in Retries /\ rows[e].status = "FAILED" =>
                  "integration_guard_agent" \in followups[e]
             /\ Width = 1 => Agreed(e)
  <2>1. Attended(e)
    BY <1>1 DEF SettledInv
  <2>2. \A d \in Calls : call[d].e = e => call[d].pc \in {"idle", "done"}
    BY <1>1 DEF Quiet, InFlight
  <2>3. \A pcs : "idle" \notin pcs /\ "done" \notin pcs => ~Working(e, pcs)
    BY <2>2 DEF Working
  <2>4. ~AboutToFail(e)
    BY <2>2 DEF AboutToFail
  <2>5. Width = 1 => Agreed(e)
    BY <1>1 DEF ServedAlone, Quiet
  <2>6. rows[e].status \in Status
    BY DEF Typed, Row
  <2> QED
    BY <2>1, <2>3, <2>4, <2>5, <2>6 DEF Attended, Status, Final
<1>2. StartedIsFinished
  BY <1>1 DEF StartedIsFinished
<1>3. FinalizedIsLearned
  BY <1>1 DEF FinalizedIsLearned
<1>4. FailureIsFollowedUp
  BY <1>1 DEF FailureIsFollowedUp
<1>5. OutcomeAgrees
  BY <1>1 DEF OutcomeAgrees, Agreed
<1> QED
  BY <1>2, <1>3, <1>4, <1>5

(* Whatever throws in the try block, and however requests overwrite one     *)
(* another's status, an execution nobody works on any more has come to its  *)
(* end or waits for a decision, was learned from and followed up; and, with *)
(* requests served one at a time, as what it is (execute, recordOutcome,    *)
(* handleExecutionFollowup).                                                *)
THEOREM EndsSettle == Spec => []EndIsSettled
<1>1. Init => SettledInv
  BY ExecutionAssumption
  DEF Init, SettledInv, VerdictsFit, Resting
<1>2. Init => ServedAlone
  BY DEF Init, ServedAlone, InFlight, Resting, Agreed
<1> DEFINE Inv == /\ Typed /\ Knowledge /\ SettledInv
                  /\ ErrorsCaught => ServedAlone
<1>3. Inv /\ [Next]_vars => Inv'
  <2> SUFFICES ASSUME Inv, [Next]_vars PROVE Inv'
    OBVIOUS
  <2>1. Typed' /\ Knowledge' /\ SettledInv'
    BY TypedStep, KnowledgeStep, SettledStep
  <2>2. setting' = setting
    BY ArriveFrame, AdvanceFrame DEF Next, vars
  <2>3. ErrorsCaught' => ErrorsCaught
    BY <2>2 DEF ErrorsCaught, FaultPoints
  <2> QED
    BY <2>1, <2>3, AloneStep
<1>4. Inv => EndIsSettled
  BY AttendedSettles DEF EndIsSettled
<1>5. Init => Inv
  BY <1>1, <1>2, InitInv
<1> HIDE DEF Inv
<1> QED
  BY <1>3, <1>4, <1>5, PTL DEF Spec

==============================================================================
