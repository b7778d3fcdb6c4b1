--------------------------- MODULE ActionExecution ---------------------------
(***************************************************************************)
(* The action execution engine                                             *)
(* (modules/intelligence/ai-execution.service.ts) and the outcome it has   *)
(* the learning service record (ai-learning.service.ts).                   *)
(*                                                                         *)
(* An execution is made from a proposal, waits for an operator when its    *)
(* type is risky, runs its handler, and leaves an audit trail, an outcome  *)
(* and sometimes a follow-up trigger.  Every statement of the service is a *)
(* database round trip of its own; there is no transaction, and approve,   *)
(* reject and execute read the row before they write it.  What is learned  *)
(* from an execution is a row with the execution's id for key, so a later  *)
(* verdict replaces an earlier one.                                        *)
(***************************************************************************)
EXTENDS Naturals, Sequences, FiniteSets

CONSTANTS
  Calls,         \* the requests there will ever be; the execution a request
                 \* makes has the request for its id
  Types,         \* the types of execution in use
  Settings       \* how the service may be run: see setting

ExecutionType ==
  {"RETRY_SHOPIFY_SYNC", "RETRY_STRIPE_SYNC", "TRIGGER_DATA_REFRESH",
   "RECONNECT_STORE", "ESCALATE_ISSUE", "MARK_RESOLVED"}
Retries == {"RETRY_SHOPIFY_SYNC", "RETRY_STRIPE_SYNC"}
LowRisk == Retries \cup {"TRIGGER_DATA_REFRESH"}

Steps ==
  {"idle", "created", "approving", "approved", "rejecting", "rejected",
   "execute", "starting", "marked", "running", "succeeded", "completed",
   "learning", "recording", "following", "failing", "failed", "done"}

ASSUME ExecutionAssumption ==
  /\ Calls # {} /\ IsFiniteSet(Calls)
  /\ Types # {} /\ Types \subseteq ExecutionType
  /\ Settings \subseteq
       [width : Nat \ {0}, calls : Nat,
        faults : SUBSET ((Steps \ {"idle", "done"})
                           \X {"POSITIVE", "NEGATIVE", "OPERATOR"})]

VARIABLES
  rows,       \* the ActionExecution rows
  trail,      \* the statuses the audit trail of each execution mentions
  outcome,    \* the ActionOutcome of each execution
  followups,  \* the agents that were triggered after each execution
  results,    \* history: what each run of the handler came to
  call,       \* the local state of each request
  setting     \* chosen once: how many requests are served at a time, how many
              \* there are (a bound), and at which values of pc and verdict the
              \* next statement may throw

vars == <<rows, trail, outcome, followups, results, call, setting>>

Width == setting.width
MaxCalls == setting.calls
FaultPoints == setting.faults

Status == {"PENDING", "PENDING_APPROVAL", "APPROVED", "REJECTED",
           "EXECUTING", "COMPLETED", "FAILED"}
Approval == {"NOT_REQUIRED", "PENDING", "APPROVED", "REJECTED"}
Final == {"COMPLETED", "FAILED", "REJECTED"}
Agents == {"integration_guard_agent", "commerce_health_agent"}
Outcomes == {"NONE", "POSITIVE", "NEGATIVE", "OPERATOR"}

Row == [exists : BOOLEAN, type : ExecutionType, status : Status,
        approval : Approval]
\* verdict is the outcome the request records; with "POSITIVE" it is inside
\* the try block of execute, with "NEGATIVE" inside its catch block.
Call == [pc : Steps, e : Calls, verdict : Outcomes \ {"NONE"}]

TypeOK ==
  /\ rows \in [Calls -> Row]
  /\ trail \in [Calls -> SUBSET Status]
  /\ outcome \in [Calls -> Outcomes]
  /\ followups \in [Calls -> SUBSET Agents]
  /\ \A e \in Calls : /\ Len(results[e]) <= Cardinality(Calls)
                      /\ results[e] \in Seq({"ok", "error"})
  /\ call \in [Calls -> Call]
  /\ setting \in Settings

Resting(c, pc) == [pc |-> pc, e |-> c, verdict |-> "POSITIVE"]

Init ==
  /\ rows = [c \in Calls |-> [exists |-> FALSE, type |-> "MARK_RESOLVED",
                              status |-> "PENDING", approval |-> "PENDING"]]
  /\ trail = [c \in Calls |-> {}]
  /\ outcome = [c \in Calls |-> "NONE"]
  /\ followups = [c \in Calls |-> {}]
  /\ results = [c \in Calls |-> <<>>]
  /\ call = [c \in Calls |-> Resting(c, "idle")]
  /\ setting \in Settings

InFlight == {c \in Calls : call[c].pc \notin {"idle", "done"}}

Goto(c, pc) == call' = [call EXCEPT ![c].pc = pc]
Finish(c) == call' = [call EXCEPT ![c] = Resting(c, "done")]

Enter(c, pc, e, verdict) ==
  /\ call[c].pc = "idle"
  /\ Cardinality(InFlight) < Width
  /\ Cardinality({d \in Calls : call[d].pc # "idle"}) < MaxCalls
  /\ call' = [call EXCEPT ![c] = [pc |-> pc, e |-> e, verdict |-> verdict]]

\* One statement that moves the execution of request c to status and, when
\* it is a decision, sets the approval too.
SetStatus(c, status, approval) ==
  rows' = [rows EXCEPT ![call[c].e].status = status,
                       ![call[c].e].approval = approval]
SameApproval(c) == rows[call[c].e].approval

\* Mutant: the trail is given a status that there is not.
AuditTypo(c, status) == trail' = [trail EXCEPT ![call[c].e] = @ \cup {"DONE"}]

Audit(c, status) == trail' = [trail EXCEPT ![call[c].e] = @ \cup {status}]

\* Mutant: every type is taken for low-risk.
ApprovalForAnyRisk(type) == "NOT_REQUIRED"

determineApprovalStatus(type) ==
  IF type \in LowRisk THEN "NOT_REQUIRED" ELSE "PENDING"

Create(c, type) ==
  LET approval == determineApprovalStatus(type)
  IN /\ Enter(c, "created", c, "POSITIVE")
     /\ rows' = [rows EXCEPT ![c] =
          [exists |-> TRUE, type |-> type, approval |-> approval,
           status |-> IF approval = "NOT_REQUIRED" THEN "PENDING"
                      ELSE "PENDING_APPROVAL"]]
     /\ UNCHANGED <<trail, outcome, followups, results, setting>>

AuditCreation(c) ==
  /\ call[c].pc = "created"
  /\ Audit(c, IF determineApprovalStatus(rows[c].type) = "NOT_REQUIRED"
              THEN "PENDING" ELSE "PENDING_APPROVAL")
  /\ IF determineApprovalStatus(rows[c].type) = "NOT_REQUIRED"
     THEN Goto(c, "execute") ELSE Finish(c)
  /\ UNCHANGED <<rows, outcome, followups, results, setting>>

\* Mutant: an approval does not ask whether the action is pending approval.
StartApproveAny(c, e) ==
  /\ rows[e].exists
  /\ Enter(c, "approving", e, "POSITIVE")
  /\ UNCHANGED <<rows, trail, outcome, followups, results, setting>>

StartApprove(c, e) ==
  /\ rows[e].exists /\ rows[e].approval = "PENDING"
  /\ Enter(c, "approving", e, "POSITIVE")
  /\ UNCHANGED <<rows, trail, outcome, followups, results, setting>>

Approve(c) ==
  /\ call[c].pc = "approving"
  /\ SetStatus(c, "APPROVED", "APPROVED")
  /\ Goto(c, "approved")
  /\ UNCHANGED <<trail, outcome, followups, results, setting>>

AuditApproval(c) ==
  /\ call[c].pc = "approved"
  /\ Audit(c, "APPROVED")
  /\ Goto(c, "execute")
  /\ UNCHANGED <<rows, outcome, followups, results, setting>>

\* A rejection is accepted whatever the execution has come to.
StartReject(c, e) ==
  /\ rows[e].exists
  /\ Enter(c, "rejecting", e, "POSITIVE")
  /\ UNCHANGED <<rows, trail, outcome, followups, results, setting>>

Reject(c) ==
  /\ call[c].pc = "rejecting"
  /\ SetStatus(c, "REJECTED", "REJECTED")
  /\ Goto(c, "rejected")
  /\ UNCHANGED <<trail, outcome, followups, results, setting>>

AuditRejection(c) ==
  /\ call[c].pc = "rejected"
  /\ Audit(c, "REJECTED")
  /\ Finish(c)
  /\ UNCHANGED <<rows, outcome, followups, results, setting>>

Begin(c) ==
  /\ call[c].pc = "execute"
  /\ IF rows[call[c].e].status \in {"APPROVED", "PENDING"}
     THEN Goto(c, "starting") ELSE Finish(c)
  /\ UNCHANGED <<rows, trail, outcome, followups, results, setting>>

MarkExecuting(c) ==
  /\ call[c].pc = "starting"
  /\ SetStatus(c, "EXECUTING", SameApproval(c))
  /\ Goto(c, "marked")
  /\ UNCHANGED <<trail, outcome, followups, results, setting>>

AuditStart(c) ==
  /\ call[c].pc = "marked"
  /\ Audit(c, "EXECUTING")
  /\ Goto(c, "running")
  /\ UNCHANGED <<rows, outcome, followups, results, setting>>

\* The syncs and the refresh may fail; the handlers of the risky types only
\* return a constant.
RunHandler(c, result) ==
  /\ call[c].pc = "running"
  /\ result = "ok" \/ rows[call[c].e].type \in LowRisk
  /\ results' = [results EXCEPT ![call[c].e] = Append(@, result)]
  /\ Goto(c, IF result = "ok" THEN "succeeded" ELSE "failing")
  /\ UNCHANGED <<rows, trail, outcome, followups, setting>>

MarkCompleted(c) ==
  /\ call[c].pc = "succeeded"
  /\ SetStatus(c, "COMPLETED", SameApproval(c))
  /\ Goto(c, "completed")
  /\ UNCHANGED <<trail, outcome, followups, results, setting>>

AuditCompletion(c) ==
  /\ call[c].pc = "completed"
  /\ Audit(c, "COMPLETED")
  /\ Goto(c, "learning")
  /\ UNCHANGED <<rows, outcome, followups, results, setting>>

MarkFailed(c) ==
  /\ call[c].pc = "failing"
  /\ SetStatus(c, "FAILED", SameApproval(c))
  /\ call' = [call EXCEPT ![c].pc = "failed", ![c].verdict = "NEGATIVE"]
  /\ UNCHANGED <<trail, outcome, followups, results, setting>>

AuditFailure(c) ==
  /\ call[c].pc = "failed"
  /\ Audit(c, "FAILED")
  /\ Goto(c, "learning")
  /\ UNCHANGED <<rows, outcome, followups, results, setting>>

\* An operator records an outcome of their own.
StartRecord(c, e) ==
  /\ rows[e].exists /\ rows[e].status \in Final
  /\ Enter(c, "recording", e, "OPERATOR")
  /\ UNCHANGED <<rows, trail, outcome, followups, results, setting>>

\* The statements of the try block of execute.
TryBlock == {"running", "succeeded", "completed", "learning", "recording",
             "following"}

\* Where a statement that throws leaves the request: the try block of
\* execute has its catch block, nothing else has one.
Throw(c) ==
  IF call[c].pc \in TryBlock /\ call[c].verdict = "POSITIVE"
  THEN Goto(c, "failing") ELSE Finish(c)

\* Mutant: only a completed execution can be learned from.
CheckCompleted(c) ==
  /\ call[c].pc = "learning"
  /\ IF rows[call[c].e].status = "COMPLETED"
     THEN Goto(c, "recording") ELSE Throw(c)
  /\ UNCHANGED <<rows, trail, outcome, followups, results, setting>>

\* recordOutcome reads the execution again, and throws unless it is final.
CheckFinalized(c) ==
  /\ call[c].pc = "learning"
  /\ IF rows[call[c].e].status \in Final
     THEN Goto(c, "recording") ELSE Throw(c)
  /\ UNCHANGED <<rows, trail, outcome, followups, results, setting>>

RecordOutcome(c) ==
  /\ call[c].pc = "recording"
  /\ outcome' = [outcome EXCEPT ![call[c].e] = call[c].verdict]
  /\ IF call[c].verdict = "OPERATOR" THEN Finish(c) ELSE Goto(c, "following")
  /\ UNCHANGED <<rows, trail, followups, results, setting>>

Triggered(e, verdict) ==
  CASE rows[e].type \in Retries /\ verdict = "NEGATIVE" ->
         {"integration_guard_agent"}
    [] rows[e].type = "TRIGGER_DATA_REFRESH" /\ verdict = "POSITIVE" ->
         {"commerce_health_agent"}
    [] OTHER -> {}

Followup(c) ==
  /\ call[c].pc = "following"
  /\ followups' = [followups EXCEPT ![call[c].e] =
                     @ \cup Triggered(call[c].e, call[c].verdict)]
  /\ Finish(c)
  /\ UNCHANGED <<rows, trail, outcome, results, setting>>

\* The statement the request has come to throws (the database, the network).
Fault(c) ==
  /\ <<call[c].pc, call[c].verdict>> \in FaultPoints
  /\ Throw(c)
  /\ UNCHANGED <<rows, trail, outcome, followups, results, setting>>

Arrive(c) ==
  \/ \E type \in Types : Create(c, type)
  \/ \E e \in Calls : StartApprove(c, e) \/ StartReject(c, e)
                      \/ StartRecord(c, e)

Advance(c) ==
  \/ AuditCreation(c)
  \/ Approve(c) \/ AuditApproval(c)
  \/ Reject(c) \/ AuditRejection(c)
  \/ Begin(c) \/ MarkExecuting(c) \/ AuditStart(c)
  \/ \E result \in {"ok", "error"} : RunHandler(c, result)
  \/ MarkCompleted(c) \/ AuditCompletion(c)
  \/ MarkFailed(c) \/ AuditFailure(c)
  \/ CheckFinalized(c) \/ RecordOutcome(c) \/ Followup(c)
  \/ Fault(c)

Next == \E c \in Calls : Arrive(c) \/ Advance(c)

Spec == Init /\ [][Next]_vars

------------------------------------------------------------------------------
Quiet(e) == \A c \in InFlight : call[c].e # e

\* No blind execution: whichever requests race, the handler of a type that
\* is not low-risk has run only if the trail names an approval.
NoBlindExecution ==
  \A e \in Calls : rows[e].type \notin LowRisk /\ results[e] # <<>>
                     => "APPROVED" \in trail[e]

\* Two operators who approve at once can run a handler twice, but never more
\* often than there are requests served at a time; served one by one, the
\* handler of an execution runs once.
RunsAreBounded == \A e \in Calls : Len(results[e]) <= Width

\* Once nobody works on it, an execution that completed or failed has been
\* learned from.  The approval race makes recordOutcome throw in one request
\* because the other has set the status back to EXECUTING: then the other
\* one records.
FinalizedIsLearned ==
  \A e \in Calls :
    rows[e].exists /\ rows[e].status \in {"COMPLETED", "FAILED"} /\ Quiet(e)
      => outcome[e] # "NONE"

\* A retry that is left FAILED has triggered the agent that looks after the
\* integrations, however its failure came about.
FailureIsFollowedUp ==
  \A e \in Calls :
    rows[e].exists /\ rows[e].type \in Retries /\ rows[e].status = "FAILED"
    /\ Quiet(e) => "integration_guard_agent" \in followups[e]

\* With requests served one at a time the outcome the engine records agrees
\* with the status, whatever throws inside the try block: a late failure
\* replaces the verdict of success.
OutcomeAgrees ==
  \A e \in Calls :
    Width = 1 /\ rows[e].exists /\ Quiet(e) /\ outcome[e] # "OPERATOR"
      => /\ rows[e].status = "COMPLETED" => outcome[e] = "POSITIVE"
         /\ rows[e].status = "FAILED" => outcome[e] = "NEGATIVE"

\* Once nobody works on it, an execution waits for a decision or has come to
\* its end: none is left where it may still run, nor in EXECUTING, though
\* every statement of the try block may throw and another request may have
\* overwritten the status.
StartedIsFinished ==
  \A e \in Calls :
    rows[e].exists /\ Quiet(e)
      => rows[e].status \in Final \cup {"PENDING_APPROVAL"}

\* Only statements throw that the catch block of execute is there for.
ErrorsCaught == FaultPoints \subseteq TryBlock \X {"POSITIVE"}

\* Once nobody works on an execution its end is settled: it was reached,
\* learned from as what it is, and followed up, whatever threw in the try
\* block and whoever overwrote the status on the way.
EndIsSettled == ErrorsCaught => /\ StartedIsFinished /\ FinalizedIsLearned
                                /\ FailureIsFollowedUp /\ OutcomeAgrees
==============================================================================
