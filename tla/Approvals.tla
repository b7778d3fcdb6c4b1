------------------------------ MODULE Approvals ------------------------------
(***************************************************************************)
(* One approval request and the handlers that work on it                   *)
(* (modules/approvals/approvals.service.ts).                               *)
(*                                                                         *)
(* createRequest writes the request and its steps in one transaction and   *)
(* then publishes.  actOnStep is modelled at the granularity of its awaits:*)
(* it reads the step and the request outside any transaction (ReadStep),   *)
(* checks the acting user (UserFound, UserMissing), writes the decision    *)
(* and its consequences in one transaction that looks at neither status    *)
(* again (Commit), reads the step that is now pending (ReadNextPending),   *)
(* and publishes the assignment (PublishAssigned).                         *)
(*                                                                         *)
(* A transaction is one action: each one first updates the row of its step *)
(* and then rows of later steps and of the request, so two transactions    *)
(* take row locks in the same order, and none reads a column another       *)
(* writes.                                                                 *)
(***************************************************************************)
EXTENDS Naturals, FiniteSets

CONSTANTS
  N,            \* number of steps of the request
  Calls,        \* the calls of actOnStep there will ever be
  Users,        \* principals that call
  Approvers,    \* Approvers[s]: the users step s is assigned to, by id or role
  Settings      \* how the service may be run: see setting

Steps == 1 .. N
NoStep == 0

ASSUME ApprovalsAssumption ==
  /\ N \in Nat \ {0}
  /\ Users # {}
  /\ Approvers \in [Steps -> SUBSET Users]
  /\ Settings \subseteq [overlap : BOOLEAN, crashes : Nat]

VARIABLES
  request,        \* the ApprovalRequest row
  steps,          \* the ApprovalStep rows, by sequence order
  decisions,      \* the calls whose ApprovalDecision row exists
  call,           \* the local state of each call of actOnStep
  creator,        \* the local state of the call of createRequest
  assignedEvents, \* steps whose approval.step.assigned event was published
  crashes,        \* handlers that have died
  setting         \* chosen once: may two calls both be between their read and
                  \* their commit, and how many handlers may die (a bound)

vars == <<request, steps, decisions, call, creator, assignedEvents, crashes,
          setting>>

Overlap == setting.overlap
MaxCrashes == setting.crashes

RequestStatus == {"NONE", "IN_PROGRESS", "APPROVED", "REJECTED", "CANCELLED"}
Resolved == {"APPROVED", "REJECTED", "CANCELLED"}
StepStatus == {"SKIPPED", "PENDING", "APPROVED", "REJECTED", "CANCELLED"}
DecisionType == {"APPROVE", "REJECT", "SEND_BACK", "COMMENT", "CANCEL"}
CallPc == {"idle", "read", "checked", "committed", "loaded", "done"}

Row(Status) == [status : Status, resolvedAt : BOOLEAN]
Call == [pc : CallPc, step : Steps, actor : Users,
         decision : DecisionType, next : Steps \cup {NoStep}]
Creator == [pc : {"idle", "created", "loaded", "done"},
            next : Steps \cup {NoStep}]

TypeOK ==
  /\ request \in Row(RequestStatus)
  /\ steps \in [Steps -> Row(StepStatus)]
  /\ decisions \in SUBSET Calls
  /\ call \in [Calls -> Call]
  /\ creator \in Creator
  /\ assignedEvents \in SUBSET Steps
  /\ setting \in Settings
  /\ crashes \in 0 .. MaxCrashes

\* Of an idle call only the pc means anything.
IdleCall == [pc |-> "idle", step |-> 1, actor |-> CHOOSE u \in Users : TRUE,
             decision |-> "COMMENT", next |-> NoStep]

Init ==
  /\ request = [status |-> "NONE", resolvedAt |-> FALSE]
  /\ steps = [s \in Steps |-> [status |-> "SKIPPED", resolvedAt |-> FALSE]]
  /\ decisions = {}
  /\ call = [c \in Calls |-> IdleCall]
  /\ creator = [pc |-> "idle", next |-> NoStep]
  /\ assignedEvents = {}
  /\ crashes = 0
  /\ setting \in Settings

\* The pending step with the lowest sequence order among S, if there is one.
FirstPending(S) ==
  LET pending == {s \in S : steps[s].status = "PENDING"}
      first == {s \in pending : \A t \in pending : s <= t}
  IN  IF first = {} THEN NoStep ELSE CHOOSE s \in first : TRUE

(***************************************************************************)
(* createRequest                                                           *)
(***************************************************************************)

\* Mutant: the request is written with the schema's default status.
CreateRequestAsPending ==
  /\ creator.pc = "idle"
  /\ request' = [status |-> "PENDING", resolvedAt |-> FALSE]
  /\ steps' = [s \in Steps |->
                 [status |-> IF s = 1 THEN "PENDING" ELSE "SKIPPED",
                  resolvedAt |-> FALSE]]
  /\ creator' = [creator EXCEPT !.pc = "created"]
  /\ UNCHANGED <<decisions, call, assignedEvents, crashes,
                 setting>>

\* The transaction: the first step is PENDING, the others wait as SKIPPED.
CreateRequest ==
  /\ creator.pc = "idle"
  /\ request' = [status |-> "IN_PROGRESS", resolvedAt |-> FALSE]
  /\ steps' = [s \in Steps |->
                 [status |-> IF s = 1 THEN "PENDING" ELSE "SKIPPED",
                  resolvedAt |-> FALSE]]
  /\ creator' = [creator EXCEPT !.pc = "created"]
  /\ UNCHANGED <<decisions, call, assignedEvents, crashes,
                 setting>>

\* The request is read back; whichever step is pending by now is announced.
LoadRequest ==
  /\ creator.pc = "created"
  /\ creator' = [pc |-> "loaded", next |-> FirstPending(Steps)]
  /\ UNCHANGED <<request, steps, decisions, call, assignedEvents, crashes,
                 setting>>

AnnounceRequest ==
  /\ creator.pc = "loaded"
  /\ creator' = [creator EXCEPT !.pc = "done"]
  /\ assignedEvents' = assignedEvents \cup ({creator.next} \ {NoStep})
  /\ UNCHANGED <<request, steps, decisions, call, crashes, setting>>

(***************************************************************************)
(* actOnStep                                                               *)
(***************************************************************************)

\* A call that has read and has not written yet.
InFlight(c) == call[c].pc \in {"read", "checked"}

\* The read and the guards: the request is open, the principal is assigned
\* to the step, the step is PENDING.
ReadStep(c, s, u, d) ==
  /\ call[c].pc = "idle"
  /\ Overlap \/ \A e \in Calls : ~InFlight(e)
  /\ request.status \notin Resolved \cup {"NONE"}
  /\ u \in Approvers[s]
  /\ steps[s].status = "PENDING"
  /\ call' = [call EXCEPT ![c] = [pc |-> "read", step |-> s, actor |-> u,
                                  decision |-> d, next |-> NoStep]]
  /\ UNCHANGED <<request, steps, decisions, creator, assignedEvents, crashes,
                 setting>>

\* ensureActiveUserInOrganization finds the user, or the call ends with 404.
UserFound(c) ==
  /\ call[c].pc = "read"
  /\ call' = [call EXCEPT ![c].pc = "checked"]
  /\ UNCHANGED <<request, steps, decisions, creator, assignedEvents, crashes,
                 setting>>

UserMissing(c) ==
  /\ call[c].pc = "read"
  /\ call' = [call EXCEPT ![c].pc = "done"]
  /\ UNCHANGED <<request, steps, decisions, creator, assignedEvents, crashes,
                 setting>>

\* The writes of the transaction, one operator per branch.
Resolve(s, status) ==
  /\ steps' = [steps EXCEPT ![s] = [status |-> status, resolvedAt |-> TRUE]]
  /\ request' = [status |-> status, resolvedAt |-> TRUE]

\* Mutant: the search for the next step stops one step early.
AdvanceTooFew(s) ==
  IF s + 1 < N
  THEN /\ steps' = [steps EXCEPT
                      ![s] = [status |-> "APPROVED", resolvedAt |-> TRUE],
                      ![s + 1].status = "PENDING"]
       /\ request' = [request EXCEPT !.status = "IN_PROGRESS"]
  ELSE Resolve(s, "APPROVED")

\* Mutant: the next step is not made pending.
AdvanceAlone(s) ==
  IF s < N
  THEN /\ steps' = [steps EXCEPT
                      ![s] = [status |-> "APPROVED", resolvedAt |-> TRUE]]
       /\ request' = [request EXCEPT !.status = "IN_PROGRESS"]
  ELSE Resolve(s, "APPROVED")

\* The next step is the one with the next higher sequence order, whatever
\* its status; only the step's own resolvedAt is touched.
Advance(s) ==
  IF s < N
  THEN /\ steps' = [steps EXCEPT
                      ![s] = [status |-> "APPROVED", resolvedAt |-> TRUE],
                      ![s + 1].status = "PENDING"]
       /\ request' = [request EXCEPT !.status = "IN_PROGRESS"]
  ELSE Resolve(s, "APPROVED")

Apply(s, d) ==
  \/ d = "COMMENT" /\ UNCHANGED <<request, steps>>
  \/ d \in {"REJECT", "SEND_BACK"} /\ Resolve(s, "REJECTED")
  \/ d = "CANCEL" /\ Resolve(s, "CANCELLED")
  \/ d = "APPROVE" /\ Advance(s)

Commit(c) ==
  /\ call[c].pc = "checked"
  /\ decisions' = decisions \cup {c}
  /\ Apply(call[c].step, call[c].decision)
  /\ call' = [call EXCEPT ![c].pc = "committed"]
  /\ UNCHANGED <<creator, assignedEvents, crashes, setting>>

\* Mutant: the pending step is looked for after a refusal only.
ReadNextPendingOfRefusal(c) ==
  /\ call[c].pc = "committed"
  /\ call' = [call EXCEPT
                ![c].pc = "loaded",
                ![c].next = IF call[c].decision = "REJECT"
                            THEN FirstPending(Steps \ {call[c].step})
                            ELSE NoStep]
  /\ UNCHANGED <<request, steps, decisions, creator, assignedEvents, crashes,
                 setting>>

\* Only an approval looks for the step that is pending now.
ReadNextPending(c) ==
  /\ call[c].pc = "committed"
  /\ call' = [call EXCEPT
                ![c].pc = "loaded",
                ![c].next = IF call[c].decision = "APPROVE"
                            THEN FirstPending(Steps \ {call[c].step})
                            ELSE NoStep]
  /\ UNCHANGED <<request, steps, decisions, creator, assignedEvents, crashes,
                 setting>>

\* The audit record and the decision event change no state modelled here.
PublishAssigned(c) ==
  /\ call[c].pc = "loaded"
  /\ call' = [call EXCEPT ![c].pc = "done"]
  /\ assignedEvents' = assignedEvents \cup ({call[c].next} \ {NoStep})
  /\ UNCHANGED <<request, steps, decisions, creator, crashes, setting>>

\* The process dies between two awaits of a handler; nothing resumes it.
Crash ==
  /\ crashes < MaxCrashes
  /\ crashes' = crashes + 1
  /\ \/ \E c \in Calls :
          /\ call[c].pc \notin {"idle", "done"}
          /\ call' = [call EXCEPT ![c].pc = "done"]
          /\ UNCHANGED creator
     \/ /\ creator.pc \in {"created", "loaded"}
        /\ creator' = [creator EXCEPT !.pc = "done"]
        /\ UNCHANGED call
  /\ UNCHANGED <<request, steps, decisions, assignedEvents, setting>>

Continue(c) == UserFound(c) \/ UserMissing(c) \/ Commit(c)
               \/ ReadNextPending(c) \/ PublishAssigned(c)

Next ==
  \/ CreateRequest \/ LoadRequest \/ AnnounceRequest
  \/ \E c \in Calls, s \in Steps, u \in Users, d \in DecisionType :
       ReadStep(c, s, u, d)
  \/ \E c \in Calls : Continue(c)
  \/ Crash

Spec == Init /\ [][Next]_vars

(***************************************************************************)
(* Properties                                                              *)
(***************************************************************************)

\* Step s carries an APPROVE decision of somebody it is assigned to.
HasApproval(s) ==
  \E c \in decisions : /\ call[c].step = s
                       /\ call[c].decision = "APPROVE"
                       /\ call[c].actor \in Approvers[s]

\* Whatever the interleaving of the calls, a request is APPROVED only when
\* every one of its steps has been approved by somebody assigned to it: a
\* stale call can repeat a step but never jump over one.
ApprovedByAll ==
  request.status = "APPROVED" => \A s \in Steps : HasApproval(s)

\* Whatever the interleaving, an open request always has a step that is
\* waiting for a decision: no order of commits leaves it open and stuck.
NeverStranded ==
  request.status = "IN_PROGRESS" =>
    \E s \in Steps : steps[s].status = "PENDING"

\* approvals.service.ts:368, "Resolved approval requests cannot accept new
\* decisions.": once the request is resolved it stays as it is and no
\* decision row is added.  It fails when calls overlap.
ResolvedIsFinal ==
  [][request.status \in Resolved =>
       request' = request /\ decisions' = decisions]_vars

\* resolvedAt is set exactly on what is resolved, on the request and on
\* each of its steps, when calls do not overlap.
StampsAgree ==
  ~Overlap =>
    /\ request.resolvedAt <=> request.status \in Resolved
    /\ \A s \in Steps : steps[s].resolvedAt <=> steps[s].status \in Resolved

\* The chain that the rows stand for.
ChainOutcome ==
  [NONE |-> "none", IN_PROGRESS |-> "open", APPROVED |-> "approved",
   REJECTED |-> "rejected", CANCELLED |-> "cancelled"][request.status]
ChainFrontier == Cardinality({s \in Steps : steps[s].status = "APPROVED"})

Chain == INSTANCE ApprovalChain
           WITH outcome <- ChainOutcome, frontier <- ChainFrontier

\* When calls do not overlap the handlers implement the chain, even if some
\* of them die: steps are approved in order, each is resolved once, and a
\* resolved request is final.
ImplementsChain ==
  /\ ~Overlap => Chain!Init
  /\ [][~Overlap => [Chain!Next]_Chain!vars]_vars

Quiet == /\ creator.pc \notin {"created", "loaded"}
         /\ \A c \in Calls : call[c].pc \in {"idle", "done"}

\* When calls do not overlap and no handler dies, the approvers of a pending
\* step have been told of it by the time every handler has answered, though
\* a handler looks for the pending step only after its commit.
PendingIsAnnounced ==
  ~Overlap /\ crashes = 0 /\ Quiet =>
    \A s \in Steps : steps[s].status = "PENDING" => s \in assignedEvents

\* What others read off the rows can be relied on when calls do not overlap:
\* their stamps agree with their statuses, and whoever is waited for knows.
RowsAreReliable == StampsAgree /\ PendingIsAnnounced
==============================================================================
