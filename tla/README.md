# A TLA+ verification project for NexoraTaxi

NexoraTaxi is a multi-tenant operations platform for commerce and fleet
operators: a NestJS API over PostgreSQL through Prisma (`src/apps/api`), a web
client (`src/apps/web`), a Shopify extension (`src/apps/nexora`), the schema
(`src/prisma`), scripts and deployment files. Nearly all state is in database
rows. A request handler reads rows, decides, and writes rows; several replicas
of the API run such handlers at once (`k8s/base/api-deployment.yaml:7`),
transactions run at READ COMMITTED, and most handlers have no transaction at
all. What can go wrong is therefore mostly of one kind: a handler decides on
what it read before an `await` and acts on it after somebody else wrote, or
dies, or throws, on the way. That is what these modules model and these
properties are about.

Paths below are relative to `src/apps/api/src/modules/` unless they begin with
another directory of the repository.

## 1. Inventory

### Components that are modelled

| Component (source) | State | Operations | How it interacts | What is hard | What makes it correct |
|---|---|---|---|---|---|
| Approvals (`approvals/approvals.service.ts`) | `ApprovalRequest`, `ApprovalStep`, `ApprovalDecision` rows | `createRequest`, `actOnStep` | publishes domain events | statuses are read before the transaction that relies on them | steps are approved in order, nothing is jumped over, an open request is never stuck, a resolved one is final |
| Workflows (`workflows/workflows.service.ts`) | `WorkflowInstance`, `WorkflowTask`, `TaskAction` rows | `createInstance`, `actOnTask` | publishes domain events; triggers start instances | the same, and a transaction that counts rows others write (write skew) | an instance is completed exactly when no task is open, by actions on each task; assignees are told |
| Dispatch assignments (`dispatch/dispatch.service.ts`) | `DriverVehicleAssignment` rows | `createAssignment`, `updateAssignment`, `releaseAssignment` | reads drivers, vehicles, shifts, zones | conflict check and write in two statements, no unique key | no driver and no vehicle in two assignments in force |
| Action execution (`intelligence/ai-execution.service.ts`, `ai-learning.service.ts`) | `ActionExecution`, `ActionOutcome` rows, audit trail | create, approve, reject, execute, record an outcome | calls the syncs; triggers agents afterwards | no transactions; a try block that holds more than the handler; re-reads | risky types run only once approved, an end is learned from and followed up, nothing is left running |
| Agent actions (`agents/agent-runner.service.ts`, `actions/action-execution.service.ts`) | `AgentRun`, `AgentActionProposal`, `ActionExecutionLog`, approval requests | a run commits proposals; `reviewActionProposal`; `executeProposal` | asks `approvals` for requests; notifications and workflows as handlers | racing reviews; a unique idempotency key as the only guard; faults outside the try block | a handler is called at most once, what was refused stays refused, no claim is left behind |
| Commerce orchestration (`agents/commerce-agent-orchestration.service.ts`) | `AgentTriggerEvent`, `AgentRun` rows | `processTrigger`, from the timer, signals, follow-ups and by hand | has the agent runner make runs | a timer in every process; check then insert; cooldowns in real time | one run per window, one active run per agent, no event left open |
| Shopify sync (`integrations/shopify/*-sync.service.ts`, `shopify-webhook.service.ts`) | connection, runs, cursors, local records, deliveries | full and incremental sync, webhooks, uninstall | the store changes meanwhile; notifications | two resources under way at once, shared cursors, webhooks late, again and out of order | success is earned, edits arrive, nothing is passed by, runs are closed |
| Domain events and triggers (`notifications/domain-events.service.ts`, `event-handlers.service.ts`, `triggers/*`) | `DomainEvent`, `TriggerExecutionLog` rows | `publish`, rule evaluation, rule actions | every component publishes; rule actions publish again | recursion without a bound, swallowed errors, cooldown read before the insert | a processed event has settled its rules, cooldowns bound the runs, cascades end |
| Signals, recommendations, proposals, review (`intelligence/ai-signal.service.ts`, `ai-recommendation.service.ts`, `ai-notification.service.ts`, `ai-action-proposal-engine.service.ts`, `action-proposal*.ts`) | `AiSignal`, `AiRecommendation`, notifications, `ActionProposal`, `DecisionLog` rows | reading signals and recommendations, listing and creating proposals, submitting and deciding them | reads the store's records; a decision is learned from; notifications | reads that write; check then create without a unique key; windows of 10 and 50 rows; statuses read before the transaction | one active signal per thing the store shows, the first recommendations of one type each, one open proposal per matter, reviews are kept and learned from |
| Drivers, workforce records, backfill (`drivers/drivers.service.ts`, `workforce/*.service.ts`, `src/scripts/migrations/manual/*`) | `Driver`, `WorkforceMember`, its profile, authorizations, credentials, both status histories | create, update, archive, status change, documents of a driver; the backfill script | a driver request is routed to the older or the newer row, or to both; the script copies beside it | several writes without a transaction, copies that must agree, a script that is broken off and run again | driver and member are archived together, one licence, one joined history, a request leaves the driver readable, a finished run has reconciled the two |

### Components that are not modelled

| Component | Why |
|---|---|
| Dispatch runs, shifts, zones, incidents | single-row writes without guards: nothing is promised that a step could break |
| Resource assignments, scheduling, work orders | single-row writes; the status endpoints keep COMPLETED and RELEASED, the update endpoints of the same rows write any status, and conflicts are reported on request only |
| Fleet, assets | single-row writes, with a history for assets |
| Other scopes of the backfill (zones, assets, shifts, assignments, incidents) | upserts of the shape of the member's, without extension rows |
| Planning, strategic review, digests, analytics | derivations over query results; what is hard is their content |
| Stripe sync | the shape of the Shopify sync without webhooks or shared cursors |
| Shopify authorisation, authentication, authorisation | cryptography and look-ups; the models start behind the guards |
| Notifications, audit | inserts nobody reads back; `AuditService.record` never throws |
| Tenancy and usage, CRM, governance, reports, incidents, platform | upserts, configuration, exports |
| Retrieval, knowledge graph, dashboard, observability | pure queries |
| Web client, Shopify extension, schema, scripts, deployment | the unique keys and the number of replicas are taken into the models |

### Hazards

`PROJECT.json` lists forty places of the code that a test would hardly reach,
each with the properties that would catch it going wrong. The one without a
property says why. Where a property speaks of a hazard under a condition only,
the hazard's note names the condition, and section 7 what happens outside of it.

## 2. Plan

The order is that of what the platform cannot afford to get wrong. Done:

1. `Approvals`, refining `ApprovalChain`; `ApprovalsProofs`.
2. `Workflows`; `WorkflowsProofs`.
3. `DispatchAssignments`, refining `ExclusiveUse`; `DispatchAndEventsProofs`.
4. `ActionExecution`, with the outcomes of the learning service;
   `ActionExecutionProofs`.
5. `AgentActions`, refining `ExecuteOnce`; `AgentActionsProofs`.
6. `CommerceOrchestration`; `OrchestrationAndReviewProofs`.
7. `ShopifySync`; `ShopifySyncProofs`.
8. `DomainEvents`; the second half of `DispatchAndEventsProofs`.
9. `Insights` and `ProposalReview`, which extends it: what the store shows, what
   is derived from it, and what is decided about that; the second half of
   `OrchestrationAndReviewProofs`.
10. `DriverRecords` and `Backfill`, which extends it: the two rows of a driver,
    and the script that makes one from the other beside the requests;
    `BackfillProofs`.

Left, in this order:

11. The other scopes of the backfill, together with the reads of dispatch that
    prefer the copy once there is one.
12. Stripe, with its one resource.

## 3. Modules

Each module is the life of one thing in one organization: one approval request,
one workflow instance, one agent, one store. A handler is a record `call[c]` (or
`pc[c]`) with the point it has reached and what it has read. An action is what
happens between two awaits, so that others may act between any two. What throws
and where, how many handlers are served at a time, and whether processes stop
are parts of a variable `setting`, chosen by `Init` from the constant `Settings`
and never changed: one run checks several instances, and a property may speak of
the settings it holds in. Database errors, stops of a process, the clock and the
store at Shopify are the environment.

| Module | Correspondence |
|---|---|
| `Approvals` | `request`, `steps`, `decisions` are the rows. `ReadStep` is the read with its guards, `UserFound`/`UserMissing` the user check, `Commit` the transaction (its branches are `Resolve` and `Advance`), `ReadNextPending` and `PublishAssigned` what follows it. The transaction is one action because it reads nothing that another one writes and takes its row locks in one order. |
| `Workflows` | As above, with the transaction in three actions (`UpdateTask`, `CountOpenTasks`, `CommitTask`): the row lock of the task is held from the first to the last, the count sees what is committed and the transaction's own update. |
| `DispatchAssignments` | `StartCreate`, `StartUpdate`, `StartRelease` enter; `CheckConflicts` is `ensureNoConflictingAssignments`; `Insert` and `Write` write without looking again. Whether a driver or vehicle is fit is data: `Refuse` may end a call. |
| `ActionExecution` | One action per statement. `Throw` says where an error leaves the request: the try block of `execute` has a catch block, nothing else has. The outcome row has the execution's id for key, so a later verdict replaces an earlier one. |
| `AgentActions` | `CommitRun`, `FinishRun`, `FailRun` are the request that makes a run; `UpdateProposal` is `reviewActionProposal`; the rest is `executeProposal`. `CreateLog` throws when the key is taken. `dispatched` is a history variable. |
| `CommerceOrchestration` | `Trigger` looks for a recent event of the dedupe key, `CheckActiveRun` for an active run, `InsertEvent` inserts; the run is four actions. `Tick` ages the events up to `Horizon`. |
| `ShopifySync` | `Fetch`, `Store`, `MoveCursor` are a resource of a run, `Close`, `Count`, `notifySyncCompleted`, `MarkFailed`, `notifySyncFailed` the run; `Receive`, `StoreHook`, `MoveHook`, `Acknowledge` a webhook. A cursor, a moment in the code, is the set `changed` of the records that are not older than it. |
| `DomainEvents` | `publish` is a call, so a request is a stack of events being handled. `Evaluate` to `TellFailed` are one rule; `Caught` says where an error ends. `recent` holds the logs within the cooldown, oldest first. |
| `Insights` | A row is what it is about, with its figures (`Content`). What the store shows (`world`) is the conditions that hold and the order they come in; `Leading` finds the first signal of each type of recommendation, `Foremost` keeps the first few (`slice(0, 6)`), `Recommended` is what is persisted. `Start` is a request that reads signals or recommendations; `BuildSignals`, `Compare`, `Aim`, `Replace` the replacement of a set, `LookForNote`, `Notify` the notifications it makes, `ReadBack`, `Read` the answer. |
| `ProposalReview` | `Generate` to `Archive` are `listActionProposals` with the engine; `FindRecommendation`, `LookForDuplicate`, `CreateFromRecommendation` the creation by hand; `Submit`, `BeginReview`, `Decide`, `NotifyDecision`, `RecordDecision` the review. |
| `DriverRecords` | `driver` and `member` are the two rows of one person, `profile`, `licences`, `credentials` and the histories what hangs from them. `Read` is what the API answers, or its 409. One action per statement or transaction: `FindCanonical`, `UpdateMember`, `CommitExtensions`, `UpdateDriver` for a profile update, and so on. |
| `Backfill` | The script: `ReadDrivers` to `Report`, one action per query, beside the requests of `DriverRecords`. |
| `ApprovalChain`, `ExclusiveUse`, `ExecuteOnce` | What three of the components promise, without handlers. |
| `MC*` | The instances TLC checks. |
| `ApprovalsProofs`, `WorkflowsProofs`, `DispatchAndEventsProofs`, `ActionExecutionProofs`, `AgentActionsProofs`, `OrchestrationAndReviewProofs`, `ShopifySyncProofs`, `BackfillProofs` | The theorems, each module those of one component, or of two. A module with those of two extends both, so the definitions of `DomainEvents` and of `CommerceOrchestration` have names that the other one does not use (`EventsSpec`, `OrchestrationTypeOK`). |

Left out everywhere: `AuditService.record` and `DomainEventsService.publish`,
where nothing read later depends on them, because neither throws; the wording of
messages; queries. A Prisma read with nested relations is one read. The
definitions marked "Mutant" are plausible mistakes: each property is checked to
fail when one of them takes the place of the definition that follows it.

## 4. Runs

| Run | Settings | What it shows |
|---|---|---|
| `approvals` | three decisions, three steps, two users; overlapping, and one after the other; one handler may die | overlapping: `ApprovedByAll`, `NeverStranded`; one after the other: `ImplementsChain`, `RowsAreReliable` (stamps agree with the status, who must act has been told) |
| `approvals_resolved_reopened` | two overlapping decisions | `ResolvedIsFinal` is violated: the second decision reopens, or resolves otherwise, what is resolved |
| `workflows` | two tasks; three overlapping actions; two with a second assignee and a crash; three one after the other | `CompletedByActions` always, `AssigneeIsTold` unless a handler dies; one after the other `CompletedExactly` (completed with no open task, and stays so) |
| `dispatch` | four calls, two drivers, two vehicles; one handler at a time, and two | `RaceIsBounded`; one at a time `ImplementsExclusiveUse` |
| `execution` | four requests two at a time; three at once and three one by one, the try block may throw anywhere | `NoBlindExecution`, `RunsAreBounded`; `EndIsSettled`: an end is learned from and followed up, what was started is finished, and one by one the outcome agrees with the status, as long as only the try block throws |
| `actions` | two proposals, three reviews; any statement may throw and the process may stop, at once and one by one; at once with errors in the try block only | `ImplementsExecuteOnce`, `RefusalIsFinal` always; `NothingIsLeft` (no claim without an end, nothing waits) where the settings allow |
| `orchestration` | three triggers; two processed at a time and one by one with everything that can go wrong; two with errors in the try block only | `CooldownIsKept`, `RunningIsBounded`; `PendingIsClosed` |
| `sync` | three syncs one by one, full and incremental; two overlapping with webhooks and any fault; two overlapping in a process that goes on | `RunIsTrue`: success is earned, the first is announced once, and runs are closed in a process that goes on; `UpToCursor` where the store is left alone, no webhook moves the cursor and a page holds all there is, whatever overlaps or fails |
| `sync_live` | webhooks of a record in order, one handler at a time, a store that changes meanwhile | `EditsArrive`, under fairness |
| `events` | one rule with a cooldown, two requests, crashes and faults; three rules that answer to one another; a rule that answers to the requests it makes; one that answers to its own successes | `CooldownIsKept`, `RulesAreSettled`; `CascadeIsBounded`: rules that have cooldowns end by themselves, however they answer to one another |
| `proposals` | readings that overlap, insist and stop, in a store whose figures or order change; one list beside three readings; requests of every kind one at a time; lists, refreshes and reviews that overlap; a list that is broken off | `InsightsAreSound`: an undisturbed reading leaves one active signal for each thing and the first two recommendations, one of a type, and the overlap bounds the copies; `ReviewsAreKept`: a proposal's status is what its reviews say, and every one is learned from; `ProposalsAreDistinct` |
| `migration` | requests one at a time, two at a time and beside the script, the backfill before, between and after them, everything broken off anywhere; status changes of a driver that was created after the move | `RowsGoTogether`: archived together, licences bounded by the overlap, the history joins up; `AlignedStaysReadable`; `BackfillReconciles` |

Deadlock is not checked: every system stops when the calls it was given are
through.

### Bounds, and why they are enough

- *Calls.* A race needs two; a third call meets what the first two left behind
  (a reopened request, a second run of a handler, a notification that was sent).
  `dispatch` and `execution` have four: two calls create what the other two race
  for.
- *Steps, tasks.* Three approval steps give a first, a middle and a last one.
  Write skew needs two tasks.
- *Crashes* (`crashes : Nat`): nothing resumes what a dead handler left, so a
  second crash only ends another handler. Elsewhere the process may stop at any
  time, as often as there are handlers.
- *Time.* `Horizon` is one more than the longest cooldown: events older than
  that are alike. In `DomainEvents` the oldest log leaves the cooldown at any
  moment (`slow`), or only when nothing is under way.
- *Versions, records.* Two contents tell a stale write from a fresh one; two
  records and a page of one or two, a page that is full from one that is not.
  `sync_live` has three versions, so that a webhook may be overtaken twice.
- *Insights.* Four conditions, two of which call for one recommendation and one
  proposal, so three recommendations for a limit of two: the cut drops one, the
  merge another, and two orders drop different ones. Two figures each tell a set
  that changed from one that did not and a copy from a refresh.
- *Proposals.* At most four, and windows smaller than that: 3 of generated ones
  (50 in the code), 2 of those made from recommendations (10). So proposals do
  drop out of the windows; the two parts of `ProposalsAreDistinct` are asked
  where none has, and section 7 says what happens when one does.
- *Driver.* One driver, whose documents are named after the requests that make
  them; two values of each field tell a copy that is stale from one that is not.
  The requests of a setting are chosen so that each kind meets each stage of the
  script, which runs twice where a second run matters.
- *Events.* `Race`, `Serial`, `Loop` and `Echo` have room for 6, 13, 9 and 9
  events. The depth that `CascadeIsBounded` allows the last two, five, is
  reached; without the cooldown the room for events lets them go deeper. In the
  proof there is no such bound.
- *Symmetry* is used over calls, syncs, requests and proposals, which no
  definition orders or singles out, and never in the run with the liveness
  property.

### Fairness

Only `sync_live` assumes any. A sync that was begun goes on (weak fairness of
each sync's steps, errors of a resource included): nothing but a crash, which
its settings exclude, stops a Node handler between two awaits. The webhook steps
are strongly fair: Shopify delivers again until a delivery is acknowledged, and
each attempt waits for the one handler at a time the setting has. That a
statement tried again and again succeeds in the end is the assumption;
`FailHook` may interrupt any finite number of attempts. `EditsArrive` needs the
deliveries in order: an upsert does not compare ages (hazard at
`shopify-sync.service.ts:400`).

## 5. Findings

One statement of the repository that the code does not keep has a run of its
own:

- `approvals.service.ts:368`, "Resolved approval requests cannot accept new
  decisions." Overlapping decisions are accepted, and overwrite the resolution.

Section 7 lists others.

## 6. Proofs

TLAPS checks the following for every value of the constants that the named
assumptions allow.

**`Approvals`, under `ApprovalsAssumption`** (at least one step; approvers are
users):

- `TypeCorrect`: `Spec => []TypeOK`.
- `OpenIsPending`: `Spec => []NeverStranded`, for any number of calls, crashes
  and any overlap. It is inductive with the types: only an approval takes
  PENDING away without resolving the request, and it gives it to the next step
  in the same transaction.
- `ApprovedInOrder`: `Spec => []ApprovedByAll`. That is not inductive: a call
  relies on the status it read some awaits ago. The strengthening `OrderInv`
  says that every step that was ever reached (no longer SKIPPED), and every step
  a call in flight has read, has only approved steps before it
  (`ReachedInOrder`, `CallsReachedInOrder`), and that recorded decisions belong
  to calls that have started (`DecidedCallsStarted`). It is kept because
  approvals never disappear (`ApprovalsStay`): what a call knows of earlier
  steps cannot become stale, although the status it knows it from can.
- `SerialRowsReliable`: `Spec => []RowsAreReliable`, and `RefinesChain`:
  `Spec => ImplementsChain`, both where calls do not overlap, whichever of them
  die. `SerialInv` says that the rows are those of a chain: open at some step k,
  with everything before it approved and everything after it skipped
  (`RowsOfOpen`), refused at k, or approved throughout; and that the one call
  between its read and its commit has read what is still so. The frontier of the
  chain is then k - 1, and each branch of the transaction is a step of it.
  `AnnouncedInv` adds that whoever a pending step waits for has been told, or a
  handler is about to tell them.

**`Workflows`, under `WorkflowsAssumption`**:

- `TypeCorrect`: `Spec => []TypeOK`.
- `CompletedByActing`: `Spec => []CompletedByActions`, however actions overlap.
  The count of open tasks that a transaction has taken may be stale, but not in
  one direction: what it counted as closed had been closed by a recorded action
  (`CountsAreFounded`), and recorded actions do not disappear.
- `CompletedInTurn`: `Spec => []CompletedExactly`, where actions do not overlap.
  One action is then between its read and its commit, and its count is exact.
- `AssigneesAreTold`: `Spec => []AssigneeIsTold`. An assignee who has not been
  told is owed it by a handler that has yet to read the task again
  (`ToldOrOwed`): the recipient is read after the commit, so whoever commits
  last tells the right one.

**`AgentActions`, under `AgentActionsAssumption`** (non-empty sets, finitely
many calls):

- `TypeCorrect`: `Spec => []TypeOK`.
- `ExecutesOnce`: `Spec => ImplementsExecuteOnce`, the refinement of
  `ExecuteOnce`: whatever races, throws or stops, the handler of a proposal is
  called at most once, and only by the request that holds its key. The invariant
  `Ownership` says that no two requests are past the insert for one proposal
  (`Alone`), that the owner knows the status of the log and, before it calls the
  handler, that nobody has called it (`Known`), and that without a log nobody
  has. The insert succeeds only where there is no log, hence no owner; everybody
  else's writes are to logs they own themselves.
- `RefusalsStand`: `Spec => RefusalIsFinal`. By `Ownership` only the owner of a
  log writes to it, and it gives the log up with the refusal.
- `NothingLeftBehind`: `Spec => []NothingIsLeft`. As long as errors stay inside
  the try block and the process goes on, each claimed log has a request that
  holds it (`ClaimHeld`): every way out of the try block ends the claim. Where
  reviews come one at a time the proposal is still APPROVED when it is loaded
  (`OneByOne`), so no approval is asked for.

**`CommerceOrchestration`, under `OrchestrationAssumption`**:

- `TypeCorrect`: `OrchestrationSpec => []OrchestrationTypeOK`.
- `RunsAreBounded`: `OrchestrationSpec => []RunningIsBounded`, and
  `CooldownsAreKept`: `OrchestrationSpec => []CooldownIsKept`, by counting what is there together with what is
  about to be: a trigger that passes a check has seen nothing, so at that moment
  all that is claimed (`RunsClaimed`, `KeyClaimed`) belongs to triggers being
  processed, and they are at most `width`; whoever comes later is turned away by
  what it sees. What a crash leaves RUNNING stays counted.
- `PendingEnds`: `OrchestrationSpec => []PendingIsClosed`. An event is PENDING only while its
  trigger is between the insert and the close (`EventsFit`), and each error in
  the try block leads to the statement that closes it.

**`ShopifySync`, under `SyncAssumption`**:

- `TypeCorrect`: `Spec => []TypeOK`.
- `RunsAreTrue`: `Spec => []RunIsTrue`, for any number of overlapping syncs,
  webhooks, errors and stops. `CallInv` says, for each request, what its row and
  its two resources have come to at each point of the code; `OneAnnounces`, that
  a request that has counted one success is the only one to announce it.
- `CursorPassesNothingBy`: `Spec => []UpToCursor`. In a store left alone,
  without webhooks and with pages that are long enough, every page that was
  fetched is of the store as it is, and holds every record that was asked for
  (`WholePage`); what was not asked for has arrived. A cursor is moved by
  whoever has stored its own page, so it does not matter who else is at it, or
  where the others are broken off (`FetchedInv`, `CursorInv`).

**`Backfill`, with the requests of `DriverRecords`, under `RecordsAssumption`
and `BackfillAssumption`**:

- `TypeCorrect`: `Spec => []TypeOK`. It needs `RequestsFit`, that a request is
  only ever at a point its operation leads to.
- `RowsAgree`: `Spec => []RowsGoTogether`, from its three parts:
  - `ArchivedTogether`: `Spec => []LifecyclesAgree`, where the script runs
    alone: an archive that found no member is followed by no other request that
    makes one (`AloneInv`).
  - `LicencesBounded`: `Spec => []LicencesAreBounded`. Licences are counted
    together with those who are about to make one (`Adding`): whoever is has
    found none, and at that moment all who are about to are being served, or
    are the script, so they are at most `width`, and one more where the script
    runs beside requests (`LicenceInv`).
  - `HistoryJoined`: `Spec => []HistoryJoins`, where statuses are changed in
    turn. `HistoryInv` says at every step what the property says, without a
    request in mind; it is kept because the one request there is holds the row
    it writes to, and writes to the history of the row that is read
    (`StatusInv`), and because the script comes at most once, and then upon a
    driver that has no member (`OnceInv`). That the entries of a history lead
    from one status to another is said with the status after each entry
    (`Leads`), not by recursion, so that an entry more is a step of the proof.
- `Reconciles`: `Spec => []BackfillReconciles`. `StageInv` says, stage by stage
  of the script, what has been copied by then and still agrees with the driver;
  it holds of a run that starts upon what a broken-off one has left, since each
  stage writes all of its rows again.
- `StaysAligned`: `Spec => AlignedStaysReadable`. With requests one at a time
  the one that is served holds the member, profile and licences as they are
  (`TurnInv`), so what it writes agrees with the rows it does not write.

**`DispatchAssignments`, under `DispatchAssumption`** (finitely many calls; no
driver is a vehicle):

- `TypeCorrect`: `Spec => []TypeOK`. It needs `Owned`: only a handler that works
  on another call's row may keep the status, and that row is there, with the
  driver and the vehicle the handler has read.
- `RaceBounded`: `Spec => []RaceIsBounded`. The rows alone do not show it: a
  handler past its check is about to add one. `Bounded` counts claims instead,
  the assignments in force for a driver or a vehicle together with those about
  to be. A handler that passes `ensureNoConflictingAssignments` has seen nothing
  in force but its own row, so at that moment every claim belongs to a handler
  at work, and there are at most `width` of them (`CheckedClaims`). A write
  turns one kind of claim into the other (`WriteClaimsNothing`), and a handler
  that starts claims nothing (`StartClaimsNothing`).
- `HandsOutExclusively`: `Spec => ImplementsExclusiveUse`. With one handler at
  work there is one claim, so a row that is put in force meets no other.

**`DomainEvents`, under `EventsAssumption`** (requests and aggregates are not
empty, and an aggregate is not a rule's number; the settings are well formed).
A request is a stack of frames, one for each event being handled. The first part
shows that each action moves the top frame, takes it off, puts a frame upon it
or empties the stack (`NextSteps`); the invariants are shown for these.

- `EventsTypeCorrect`: `EventsSpec => []EventsTypeOK`. It needs `StacksFit`: an
  event is handled by one frame only; the rules a frame has yet to come to have
  no log of that event, and the one it runs has an open one.
- `CooldownKept`: `EventsSpec => []CooldownIsKept`, by the argument of the
  dispatch: `CooldownClaims` are the logs of a key within the cooldown together
  with those that a request is about to create. A rule that is evaluated outside
  its cooldown has seen none of the first kind, and of the second there is at
  most one for each request that is handled.
- `RulesSettle`: `EventsSpec => []RulesAreSettled`, where nothing throws but a
  notification or the action of a rule. `SettledInv` says of each frame that the
  rules before the one it is at are over and told, and those after it untold
  (`FrameSettles`), and that an event which a handled one has set off is pending
  only while it is handled directly above it (`ChildrenPend`).
- `CascadeEnds`: `EventsSpec => []CascadeIsBounded`. A frame that waits for what
  its rule published holds the cooldown of that rule for what its own event is
  about (`ChildFits`: a request is made under an open log, a success is
  announced under a successful one). No two frames of a stack hold the same one
  (`Differ`), since the evaluation would have seen it. So the frames of a stack,
  all but the outermost and the two innermost, are at most the pairs of an
  answering rule and a rule whose event it answers to. TLC finds
  the bound reached where one of two rules answers.

**`Insights` and `ProposalReview`, under `InsightsAssumption` and
`ReviewAssumption`**:

- `ReviewTypeCorrect`: `Spec => []TypeOK`, of the proposals and of the readings;
  it needs what a request holds at each point (`CallShape`).
- `ReviewsKept`: `Spec => []ReviewsAreKept`. Statuses follow reviews, one
  reviewer at a time, because a proposal that was read for a review has no final
  decision until it is decided (`ReadIsOpen`): a list may rewrite or archive it
  meanwhile, but does not review. Learning is accounted for by `LearnInv`: the
  decisions that are learned, with those that requests owe (`Owing`), are never
  more than the reviews, and just as many as long as nothing stops; a decision
  is told before it is learned.
- `ProposalsDistinct`: `Spec => []ProposalsAreDistinct`. `Fits` counts the
  active proposals of a type together with the requests that are about to make
  one (`Creators`). A request that generates alone sees all that are active
  (`Sees`), so it adds one only where there is none; one that is not alone has
  raised `allowed` to the number of requests there may be (`Sides`). Of a
  recommendation there is one because a request that found none is the only one
  until it has created it (`MineDiffer`).
- `InsightsSound`: `Spec => []InsightsAreSound`. Two readings may aim at rows of
  which neither sees those the other is about to insert, so counting copies and
  readings is not inductive. `CopiesFit` looks at every set of readings that are
  about to replace a kind of rows: the copies that none of them will take down,
  together with these readings, are at most the readings there have been at a
  time, where a recommendation is a copy of another of its type. `NotesFit` is
  the same for notifications. `AloneInv` says of a reading
  that nothing has disturbed that its drafts are what the store shows and that
  it has seen every active row; `CalmInv`, that nobody who would change the rows
  is under way once they are right; `ToldInv`, that a loud row has been notified
  or some reading has yet to look at it. `RecommendedIsRight` ties the operator
  that ranks and cuts to what `RecommendationsSettle` says without it: that a
  type has a first signal needs the order to be well-founded (`FirstOne`), and
  that something is left out only when the limit is reached, the counting of
  finite sets. All this is for any types of recommendation, any limit and any
  order.

**`ActionExecution`, under `ExecutionAssumption`**:

- `TypeCorrect`: `Spec => []TypeOK`.
- `NeverBlind`: `Spec => []NoBlindExecution`. The invariant `Knowledge` says of
  the rows that a risky execution past its approval has an approval in its audit
  trail, and of the requests that whoever may still run the handler knows so:
  the trail only grows, so what was read some awaits ago stays true.
- `RunsBounded`: `Spec => []RunsAreBounded`. `Counted` adds the runs there were
  to the requests that may yet make one. While the approval of an execution is
  PENDING its handler has not run and all who may run it are being served, hence
  at most `Width`; once it is not PENDING nobody new is let in, and each run is
  paid for by a request that made it.
- `EndsSettle`: `Spec => []EndIsSettled`, where only the try block throws.
  Requests overwrite one another's status, so what a request knows of it says
  nothing. The invariant `Attended` says instead that for each status that is
  not the last word some request is at a point where it will write another, and
  that for each end not yet learned from or followed up some request is about to
  do so: whoever writes a status takes what it calls for upon itself, and an
  error leads to the catch block, which writes anew. `ServedAlone` adds, for
  requests one at a time, that the status is the one the request has written.

Every safety property of the passing runs, and every refinement, is the
statement of a theorem. Only model-checked are `EditsArrive`, a liveness
property under fairness, which is beyond this prover, and the violation of
`ResolvedIsFinal`, which is a behaviour TLC shows.

## 7. Known deviations without a run

Met while modelling; the properties are stated so that they exclude these cases,
and say so.

- Workflows: overlapping actions are recorded on a completed instance and may
  reopen a task of it (`workflows.service.ts:426`, `:437`); two last completions
  may leave the instance open. A REJECT of the last open task does not complete
  the instance, at any overlap.
- Action execution: `rejectAction` accepts any status, while
  `docs/product-readiness/execution-engine.md:69` speaks of rejecting a pending
  action. The audit of the start stands before the try block
  (`ai-execution.service.ts:188`): an error there leaves the row EXECUTING. An
  error of the bookkeeping after a successful handler makes the execution FAILED
  and its outcome NEGATIVE (`:214`), while
  `docs/product-readiness/learning-loop.md:62` says "successful execution ->
  `POSITIVE`".
- Agent actions: a second review that replaces an approval before the proposal
  is loaded parks the log for approval, and the approval that is then asked for
  executes nothing, since the key is taken (`action-execution.service.ts:166`).
  A stop, or an error between the insert and the try block, leaves the key taken
  for good.
- Orchestration: the dedupe key of a manual trigger holds `Date.now()`
  (`commerce-agent-orchestration.service.ts:210`), so its documented cooldown of
  two minutes never applies. Two processes both pass the check for a recent
  event before either inserts its own (`:446`), so the daily run is not "once
  per UTC day window"
  (`docs/product-readiness/agent-orchestration-triggering.md:98`).
- Shopify: a run left RUNNING by a stop is shown as in progress; an error after
  success turns the run into FAILED (`shopify-sync.service.ts:200`); a webhook
  moves the cursor past records no sync has brought
  (`shopify-webhook.service.ts:214`), and so does a page that is full; neither
  of two overlapping first syncs is announced.
- Domain events: a stop leaves an event PENDING and nothing retries it; an error
  that is not of a rule's action ends the running of all later rules, and the
  event is PROCESSED. The second `OR` key of `trigger.repository.ts:19` replaces
  the first, and the restriction to an organization with it.
- Recommendations: of the nine types of signals two call for the same
  recommendation (`ai-recommendation.service.ts:216`), of several sync issues or
  visibility gaps only the first is found, and of up to eight recommendations
  six are kept (`:195`). What is cut off is not told to anybody, and what is
  kept may change with the learned scores alone. Scores that differ by less
  than 0.05 count as equal (`:527`), which is not transitive, so that one
  recommendation that comes or goes may change the order of others.
- Proposals: the dedupe key of a product's proposal is never stored, so a
  proposal of a type that is decided is overwritten with another product's
  content while it stays APPROVED. A DEFERRED proposal can never be decided. The
  ids of recommendations change when their set is rewritten, and the check for a
  duplicate by id (`action-proposal.service.ts:108`) then finds none; a
  duplicate behind the last 10 active rows is not found either, and stays when
  newer ones are closed. A stop between the decision and `recordDecision` loses
  the entry of the decision log for good.
- Drivers: what the API creates it cannot read. `create` leaves a member without
  extension rows, `findOne` answers 409 and `findAll` leaves the driver out
  until an update or the backfill adds them (`drivers.service.ts:1268`). A
  profile update that names the organization, the employee or the user goes to
  the driver's row only, and the linkage then differs. Onboarding changes of a
  linked driver are written to the row they are not read from, and their entry
  in the older history makes `getStatusHistory` fall back to it, hiding every
  newer change. Statuses that are recomputed or set by a profile update, and the
  archive, have no entry. Overlapping changes of one status leave a history that
  does not join up; overlapping licence updates leave two LICENSE authorizations
  and a driver nobody can read; a slow update writes its stale metadata over a
  later one.
- Backfill: a second run writes the statuses and metadata of the driver's row
  over newer ones of the member, and verified credentials are pending again. So
  does the first, to a driver that was created after the move and whose statuses
  have been changed on the member since (`backfill-universal-operational-layer.ts:406`);
  the history has no entry of it. Run
  beside an archive it makes the member active again. Its verification never
  passes while an archived driver has documents that were not copied.

## 8. What is not modelled

Besides the components of section 1: more than one organization, request or
store at a time, where the rows of one do not meet those of another; what the
data says (scores, messages, reasoning of the agents); permissions; the time
stamps, except where a status depends on them (`resolvedAt`, `releasedAt`,
`completedAt`); failures of the database other than a statement that throws.

`Insights` takes severities, scores and trust as an order of the conditions. The
code compares signals by severity (`ai-signal.service.ts:656`) and
recommendations by urgency, learned scores and confidence
(`ai-recommendation.service.ts:498`); since the first matters among signals of
one type only and the second among types, one order stands for both. It is
whatever the sort comes to for what the store shows, and may change whenever
that does (`WorldChanges`), so the sort need not agree with itself between two
sets. A reading takes the order and the signals at once, when it has read the
signals, where the code reads the scores some queries later; when the signals it
has read are not those the store shows any more, the order is left open. That
the evidence of a recommendation also has figures of the metrics is part of the
figures of its condition.
