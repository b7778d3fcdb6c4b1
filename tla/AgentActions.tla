---------------------------- MODULE AgentActions ----------------------------
(***************************************************************************)
(* The action proposals of one agent run: how the run commits them         *)
(* (modules/agents/agent-runner.service.ts), how operators review them     *)
(* (reviewActionProposal there), and how an approved one is executed       *)
(* (modules/actions/action-execution.service.ts).                          *)
(*                                                                         *)
(* A review writes the status of the proposal without looking at the old   *)
(* one; an approval goes on to execute the proposal within the same        *)
(* request.  The execution log of a proposal has a unique idempotency key: *)
(* the request that inserts it owns the action, and every later insert     *)
(* throws.  Nothing but the statements themselves is atomic, and a request *)
(* ends where a statement throws or the process stops.                     *)
(***************************************************************************)
EXTENDS Naturals, FiniteSets

CONSTANTS
  Proposals,
  Calls,         \* the reviews there will ever be
  Decisions,     \* the statuses reviewers give
  Settings       \* how the service may be run: see setting

Steps ==
  {"idle", "updating", "loading", "lookup", "creating", "evaluating",
   "blocking", "requesting", "parking", "waiting", "starting", "dispatching",
   "logging", "executed", "acting", "verifying", "failing", "done"}
\* The statements of the try block of executeProposal.
Trying == {"dispatching", "logging", "executed", "acting", "verifying"}

ProposalStatus == {"PROPOSED", "APPROVAL_REQUIRED", "APPROVED", "REJECTED",
                   "EXECUTED", "CANCELLED"}
LogStatus == {"PENDING", "PENDING_APPROVAL", "EXECUTING", "SUCCEEDED",
              "FAILED", "BLOCKED"}
RunStatus == {"RUNNING", "SUCCEEDED", "FAILED", "WAITING_APPROVAL", "ACTED",
              "VERIFIED_SUCCESS", "VERIFIED_PARTIAL", "VERIFIED_FAILED"}
Results == {"SUCCEEDED", "FAILED"}

ASSUME AgentActionsAssumption ==
  /\ Proposals # {}
  /\ Calls # {} /\ IsFiniteSet(Calls)
  /\ Decisions # {} /\ Decisions \subseteq ProposalStatus
  /\ Settings \subseteq [width : Nat \ {0}, crashes : BOOLEAN,
                          faults : SUBSET (Steps \ {"idle", "done"})]

VARIABLES
  run,         \* the status of the agent run
  maker,       \* where the request that makes the run is
  proposals,   \* the AgentActionProposal rows of the run
  log,         \* the ActionExecutionLog of each proposal's idempotency key
  requests,    \* how many approval requests were made for each proposal
  dispatched,  \* history: how often the handler of each proposal was called
  call,        \* the local state of each review
  setting      \* chosen once: how many reviews are served at a time, whether
               \* the process may stop, and the values of pc at which the next
               \* statement may throw

vars == <<run, maker, proposals, log, requests, dispatched, call, setting>>

Call == [pc : Steps, p : Proposals, decision : Decisions,
         seen : ProposalStatus, result : Results]

TypeOK ==
  /\ run \in RunStatus
  /\ maker \in {"reasoning", "committed", "done"}
  /\ proposals \in [Proposals -> [exists : BOOLEAN, status : ProposalStatus,
                                  requiresApproval : BOOLEAN]]
  /\ log \in [Proposals -> LogStatus \cup {"NONE"}]
  /\ requests \in [Proposals -> Nat]
  /\ dispatched \in [Proposals -> Nat]
  /\ call \in [Calls -> Call]
  /\ setting \in Settings

Resting(pc) ==
  [pc |-> pc, p |-> CHOOSE p \in Proposals : TRUE,
   decision |-> CHOOSE d \in Decisions : TRUE, seen |-> "PROPOSED",
   result |-> "SUCCEEDED"]

Init ==
  /\ run = "RUNNING" /\ maker = "reasoning"
  /\ proposals = [p \in Proposals |-> [exists |-> FALSE, status |-> "PROPOSED",
                                       requiresApproval |-> FALSE]]
  /\ log = [p \in Proposals |-> "NONE"]
  /\ requests = [p \in Proposals |-> 0]
  /\ dispatched = [p \in Proposals |-> 0]
  /\ call = [c \in Calls |-> Resting("idle")]
  /\ setting \in Settings

InFlight == {c \in Calls : call[c].pc \notin {"idle", "done"}}
At(c, pc) == call[c].pc = pc
Goto(c, pc) == call' = [call EXCEPT ![c].pc = pc]
Finish(c) == call' = [call EXCEPT ![c] = Resting("done")]
SetLog(c, status) == log' = [log EXCEPT ![call[c].p] = status]

------------------------------------------------------------------------------
(* The request that makes the run                                          *)

\* The policy of an action: disabled, to be approved, or free.
Evaluated == [exists : {TRUE}, status : {"CANCELLED", "APPROVAL_REQUIRED"},
              requiresApproval : {TRUE}]
             \cup [exists : {TRUE}, status : {"CANCELLED", "PROPOSED"},
                   requiresApproval : {FALSE}]

\* One transaction: the observations, the decisions, the proposals, the run.
CommitRun ==
  /\ maker = "reasoning"
  /\ run' = "SUCCEEDED" /\ maker' = "committed"
  /\ proposals' \in [Proposals -> Evaluated]
  /\ UNCHANGED <<log, requests, dispatched, call, setting>>

\* The usage and the report have gone well; the audit and the events never
\* throw.
FinishRun ==
  /\ maker = "committed"
  /\ maker' = "done"
  /\ UNCHANGED <<run, proposals, log, requests, dispatched, call, setting>>

\* The catch block does not tell what failed before the commit from what
\* failed after it.
FailRun ==
  /\ maker # "done"
  /\ run' = "FAILED" /\ maker' = "done"
  /\ UNCHANGED <<proposals, log, requests, dispatched, call, setting>>

------------------------------------------------------------------------------
(* The review of a proposal                                                *)

Review(c, p, decision) ==
  /\ At(c, "idle") /\ proposals[p].exists
  /\ Cardinality(InFlight) < setting.width
  /\ call' = [call EXCEPT ![c] = [Resting("updating") EXCEPT
                !.p = p, !.decision = decision]]
  /\ UNCHANGED <<run, maker, proposals, log, requests, dispatched,
                 setting>>

UpdateProposal(c) ==
  /\ At(c, "updating")
  /\ proposals' = [proposals EXCEPT ![call[c].p].status = call[c].decision]
  /\ IF call[c].decision = "APPROVED" THEN Goto(c, "loading") ELSE Finish(c)
  /\ UNCHANGED <<run, maker, log, requests, dispatched, setting>>

------------------------------------------------------------------------------
(* The execution of an approved proposal                                   *)

LoadProposal(c) ==
  /\ At(c, "loading")
  /\ call' = [call EXCEPT ![c].pc = "lookup",
                          ![c].seen = proposals[call[c].p].status]
  /\ UNCHANGED <<run, maker, proposals, log, requests, dispatched,
                 setting>>

\* An action that has succeeded is not asked for again.
FindLog(c) ==
  /\ At(c, "lookup")
  /\ IF log[call[c].p] = "SUCCEEDED" THEN Finish(c) ELSE Goto(c, "creating")
  /\ UNCHANGED <<run, maker, proposals, log, requests, dispatched,
                 setting>>

\* Mutant: the insert is an upsert.
UpsertLog(c) ==
  /\ At(c, "creating")
  /\ SetLog(c, "PENDING")
  /\ Goto(c, "evaluating")
  /\ UNCHANGED <<run, maker, proposals, requests, dispatched, setting>>

\* Mutant: a failed action may be tried again.
CreateLogAfterFailure(c) ==
  /\ At(c, "creating")
  /\ IF log[call[c].p] \in {"NONE", "FAILED"}
     THEN SetLog(c, "PENDING") /\ Goto(c, "evaluating")
     ELSE Finish(c) /\ UNCHANGED log
  /\ UNCHANGED <<run, maker, proposals, requests, dispatched, setting>>

\* The insert throws when there is a log of any status.
CreateLog(c) ==
  /\ At(c, "creating")
  /\ IF log[call[c].p] = "NONE"
     THEN SetLog(c, "PENDING") /\ Goto(c, "evaluating")
     ELSE Finish(c) /\ UNCHANGED log
  /\ UNCHANGED <<run, maker, proposals, requests, dispatched, setting>>

\* Mutant: the approval of the proposal is not looked at.
EvaluatePolicyAlone(c, allowed, policyRequires) ==
  LET requiresApproval == \/ proposals[call[c].p].requiresApproval
                          \/ policyRequires
  IN /\ At(c, "evaluating")
     /\ Goto(c, CASE ~allowed -> "blocking"
                  [] allowed /\ requiresApproval -> "requesting"
                  [] OTHER -> "starting")
     /\ UNCHANGED <<run, maker, proposals, log, requests, dispatched,
                 setting>>

\* The policies may have changed since the proposal was made, so what they
\* say is open; what the proposal itself requires is not.
EvaluatePolicy(c, allowed, policyRequires) ==
  LET requiresApproval == \/ proposals[call[c].p].requiresApproval
                          \/ policyRequires
  IN /\ At(c, "evaluating")
     /\ Goto(c, CASE ~allowed -> "blocking"
                  [] allowed /\ requiresApproval /\ call[c].seen # "APPROVED"
                       -> "requesting"
                  [] OTHER -> "starting")
     /\ UNCHANGED <<run, maker, proposals, log, requests, dispatched,
                 setting>>

BlockLog(c) ==
  /\ At(c, "blocking")
  /\ SetLog(c, "BLOCKED")
  /\ Finish(c)
  /\ UNCHANGED <<run, maker, proposals, requests, dispatched, setting>>

RequestApproval(c) ==
  /\ At(c, "requesting")
  /\ requests' = [requests EXCEPT ![call[c].p] = @ + 1]
  /\ Goto(c, "parking")
  /\ UNCHANGED <<run, maker, proposals, log, dispatched, setting>>

ParkLog(c) ==
  /\ At(c, "parking")
  /\ SetLog(c, "PENDING_APPROVAL")
  /\ Goto(c, "waiting")
  /\ UNCHANGED <<run, maker, proposals, requests, dispatched, setting>>

WaitRun(c) ==
  /\ At(c, "waiting")
  /\ run' = "WAITING_APPROVAL"
  /\ Finish(c)
  /\ UNCHANGED <<maker, proposals, log, requests, dispatched, setting>>

StartLog(c) ==
  /\ At(c, "starting")
  /\ SetLog(c, "EXECUTING")
  /\ Goto(c, "dispatching")
  /\ UNCHANGED <<run, maker, proposals, requests, dispatched, setting>>

\* A handler throws, or returns what became of the action: a notification
\* that its connector refused is FAILED without an error.
Dispatch(c, result, throws) ==
  /\ At(c, "dispatching")
  /\ dispatched' = [dispatched EXCEPT ![call[c].p] = @ + 1]
  /\ call' = [call EXCEPT ![c].pc = IF throws THEN "failing" ELSE "logging",
                          ![c].result = result]
  /\ UNCHANGED <<run, maker, proposals, log, requests, setting>>

LogResult(c) ==
  /\ At(c, "logging")
  /\ SetLog(c, call[c].result)
  /\ Goto(c, "executed")
  /\ UNCHANGED <<run, maker, proposals, requests, dispatched, setting>>

MarkExecuted(c) ==
  /\ At(c, "executed")
  /\ proposals' = [proposals EXCEPT ![call[c].p].status = "EXECUTED"]
  /\ Goto(c, "acting")
  /\ UNCHANGED <<run, maker, log, requests, dispatched, setting>>

ActRun(c) ==
  /\ At(c, "acting")
  /\ run' = "ACTED"
  /\ IF call[c].result = "SUCCEEDED" THEN Goto(c, "verifying") ELSE Finish(c)
  /\ UNCHANGED <<maker, proposals, log, requests, dispatched, setting>>

\* Mutant: the verdict is the status of the verification, not of a run.
VerifyRunWithStatus(c, verdict) ==
  /\ At(c, "verifying")
  /\ run' = "PASSED"
  /\ Finish(c)
  /\ UNCHANGED <<maker, proposals, log, requests, dispatched, setting>>

\* verifyActionExecution; its three verifiers may say anything.
VerifyRun(c, verdict) ==
  /\ At(c, "verifying")
  /\ run' = verdict
  /\ Finish(c)
  /\ UNCHANGED <<maker, proposals, log, requests, dispatched, setting>>

\* The catch block, also for what failed after the handler had succeeded.
FailLog(c) ==
  /\ At(c, "failing")
  /\ SetLog(c, "FAILED")
  /\ Finish(c)
  /\ UNCHANGED <<run, maker, proposals, requests, dispatched, setting>>

Fault(c) ==
  /\ call[c].pc \in setting.faults
  /\ IF call[c].pc \in Trying THEN Goto(c, "failing") ELSE Finish(c)
  /\ UNCHANGED <<run, maker, proposals, log, requests, dispatched,
                 setting>>

------------------------------------------------------------------------------
\* The process stops: no request goes on, the rows stay as they are.
Crash ==
  /\ setting.crashes
  /\ InFlight # {} \/ maker # "done"
  /\ maker' = "done"
  /\ call' = [c \in Calls |-> IF c \in InFlight THEN Resting("done")
                              ELSE call[c]]
  /\ UNCHANGED <<run, proposals, log, requests, dispatched, setting>>

Advance(c) ==
  \/ UpdateProposal(c) \/ LoadProposal(c) \/ FindLog(c) \/ CreateLog(c)
  \/ \E allowed, policyRequires \in BOOLEAN :
       EvaluatePolicy(c, allowed, policyRequires)
  \/ BlockLog(c)
  \/ RequestApproval(c) \/ ParkLog(c) \/ WaitRun(c)
  \/ StartLog(c)
  \/ \E result \in Results, throws \in BOOLEAN : Dispatch(c, result, throws)
  \/ LogResult(c) \/ MarkExecuted(c) \/ ActRun(c)
  \/ \E verdict \in {"VERIFIED_SUCCESS", "VERIFIED_PARTIAL",
                     "VERIFIED_FAILED"} : VerifyRun(c, verdict)
  \/ FailLog(c) \/ Fault(c)

Next ==
  \/ CommitRun \/ FinishRun \/ FailRun
  \/ \E c \in Calls :
       \/ \E p \in Proposals, decision \in Decisions : Review(c, p, decision)
       \/ Advance(c)
  \/ Crash

Spec == Init /\ [][Next]_vars

------------------------------------------------------------------------------
Quiet(p) == \A c \in InFlight : call[c].p # p

Stage(p) ==
  CASE log[p] = "NONE" -> "open"
    [] log[p] \in {"PENDING", "EXECUTING"} -> "claimed"
    [] OTHER -> "settled"

Once == INSTANCE ExecuteOnce WITH
  Actions <- Proposals,
  stage <- [p \in Proposals |-> Stage(p)],
  effects <- dispatched

\* Whatever reviews race, whatever throws and whenever the process stops, the
\* handler of a proposal is called at most once, and only by the request that
\* holds its idempotency key.
ImplementsExecuteOnce == Once!Spec

\* What was blocked, parked or failed stays so: no later approval of the
\* proposal turns its log into a success or has it tried again.
RefusalIsFinal ==
  [][\A p \in Proposals :
       log[p] \in {"BLOCKED", "PENDING_APPROVAL", "FAILED"}
         => log'[p] = log[p]]_vars

\* The engine asks for an approval only because a second review has replaced
\* the first: served one at a time, no review ever leaves a request behind,
\* and a run never waits for one.
ServedAloneNothingWaits ==
  setting.width = 1 =>
    /\ \A p \in Proposals : requests[p] = 0
    /\ run # "WAITING_APPROVAL"

\* Without crashes, and with throwing statements only inside the try block,
\* nobody leaves an action behind that is claimed and not settled, however
\* the reviews of its proposal race.
ClaimIsSettled ==
  ~setting.crashes /\ setting.faults \subseteq Trying =>
    \A p \in Proposals : Quiet(p) => Stage(p) # "claimed"

\* Nothing is left behind that nobody will come back to: no claim, and, where
\* reviews do not race, no request for an approval that would execute nothing.
NothingIsLeft == ServedAloneNothingWaits /\ ClaimIsSettled

==============================================================================
