------------------------------ MODULE Workflows ------------------------------
(***************************************************************************)
(* One workflow instance, its tasks and the handlers that work on them     *)
(* (modules/workflows/workflows.service.ts).                               *)
(*                                                                         *)
(* createInstance writes the instance and its tasks in one transaction and *)
(* then publishes one event per assigned task.  actOnTask reads the task   *)
(* and the status of the instance outside any transaction (ReadTask), ends *)
(* if a user it names is not there (UsersMissing), and runs a transaction  *)
(* that is modelled statement by statement, because it counts rows that    *)
(* other transactions write: UpdateTask inserts the TaskAction row and     *)
(* updates the task, which locks its row; CountOpenTasks reads, at READ    *)
(* COMMITTED, what the others have committed and what this transaction     *)
(* wrote; CommitTask completes the instance when the count was zero and    *)
(* makes everything visible.  Then the task is read back (LoadTask) and    *)
(* its assignee is told (PublishTask).                                     *)
(***************************************************************************)
EXTENDS Naturals, FiniteSets

CONSTANTS
  Tasks,        \* the initial tasks of the instance
  People,       \* user ids and role codes a task can be assigned to
  Nobody,       \* no assignee
  Calls,        \* the calls of actOnTask there will ever be
  Settings      \* how the service may be run: see setting

ASSUME WorkflowsAssumption ==
  /\ Tasks # {} /\ IsFiniteSet(Tasks)
  /\ Nobody \notin People
  /\ Settings \subseteq [overlap : BOOLEAN, crashes : Nat, calls : Nat,
                          people : SUBSET People]

VARIABLES
  instance,   \* the status of the WorkflowInstance row
  task,       \* the committed WorkflowTask rows
  actions,    \* the committed TaskAction rows, as pairs <<task, action type>>
  call,       \* the local state of each call of actOnTask
  creator,    \* the local state of the call of createInstance
  told,       \* told[t]: the assignees an event about t was addressed to
  crashes,    \* handlers that have died
  setting     \* chosen once: may two calls both be between their read and
              \* their commit; bounds on the handlers that die, the calls
              \* there are and the people they name

vars == <<instance, task, actions, call, creator, told, crashes, setting>>

Overlap == setting.overlap
MaxCrashes == setting.crashes
MaxCalls == setting.calls

Open == {"PENDING", "IN_PROGRESS", "ESCALATED"}
Closed == {"COMPLETED", "REJECTED"}
\* COMPLETE stands for APPROVE as well: the code treats them alike.
ActionType == {"COMPLETE", "REJECT", "SEND_BACK", "COMMENT", "ASSIGN",
               "ESCALATE"}
Assignee == People \cup {Nobody}

TaskRow == [status : Open \cup Closed, completedAt : BOOLEAN,
            assignee : Assignee]
Call == [pc : {"idle", "read", "written", "counted", "committed", "loaded",
               "done"},
         task : Tasks, action : ActionType, assignee : Assignee,
         noneOpen : BOOLEAN]
Creator == [pc : {"idle", "created", "loaded"},
            seen : [Tasks -> Assignee], left : SUBSET Tasks]

TypeOK ==
  /\ instance \in {"NONE", "ACTIVE", "COMPLETED"}
  /\ task \in [Tasks -> TaskRow]
  /\ actions \in SUBSET (Tasks \X ActionType)
  /\ call \in [Calls -> Call]
  /\ creator \in Creator
  /\ told \in [Tasks -> SUBSET People]
  /\ setting \in Settings
  /\ crashes \in 0 .. MaxCrashes

\* A call that has no local state: it is idle, or done.
Resting(pc) == [pc |-> pc, task |-> CHOOSE t \in Tasks : TRUE,
                action |-> "COMMENT", assignee |-> Nobody, noneOpen |-> FALSE]

Init ==
  /\ instance = "NONE"
  /\ task = [t \in Tasks |-> [status |-> "PENDING", completedAt |-> FALSE,
                              assignee |-> Nobody]]
  /\ actions = {}
  /\ call = [c \in Calls |-> Resting("idle")]
  /\ creator = [pc |-> "idle", seen |-> [t \in Tasks |-> Nobody], left |-> {}]
  /\ told = [t \in Tasks |-> {}]
  /\ crashes = 0
  /\ setting \in Settings

(***************************************************************************)
(* createInstance                                                          *)
(***************************************************************************)

\* The transaction; every initial task has an assignee.
CreateInstance(assignees) ==
  /\ creator.pc = "idle"
  /\ instance' = "ACTIVE"
  /\ task' = [t \in Tasks |-> [status |-> "PENDING", completedAt |-> FALSE,
                               assignee |-> assignees[t]]]
  /\ creator' = [creator EXCEPT !.pc = "created"]
  /\ UNCHANGED <<actions, call, told, crashes, setting>>

\* Mutant: unassigned tasks are announced as well.
LoadInstanceAll ==
  /\ creator.pc = "created"
  /\ creator' = [pc |-> "loaded",
                 seen |-> [t \in Tasks |-> task[t].assignee],
                 left |-> Tasks]
  /\ UNCHANGED <<instance, task, actions, call, told, crashes, setting>>

\* The instance is read back; unassigned tasks are passed over.
LoadInstance ==
  /\ creator.pc = "created"
  /\ creator' = [pc |-> "loaded",
                 seen |-> [t \in Tasks |-> task[t].assignee],
                 left |-> {t \in Tasks : task[t].assignee # Nobody}]
  /\ UNCHANGED <<instance, task, actions, call, told, crashes, setting>>

AnnounceTask(t) ==
  /\ t \in creator.left
  /\ creator' = [creator EXCEPT !.left = @ \ {t}]
  /\ told' = [told EXCEPT ![t] = @ \cup {creator.seen[t]}]
  /\ UNCHANGED <<instance, task, actions, call, crashes, setting>>

(***************************************************************************)
(* actOnTask                                                               *)
(***************************************************************************)

InTransaction(c) == call[c].pc \in {"written", "counted"}
InFlight(c) == call[c].pc = "read" \/ InTransaction(c)

\* Neither the status of the task nor its assignee is looked at.
ReadTask(c, t, a, p) ==
  /\ call[c].pc = "idle"
  /\ Overlap \/ \A e \in Calls : ~InFlight(e)
  /\ Cardinality({e \in Calls : call[e].pc # "idle"}) < MaxCalls
  /\ instance = "ACTIVE"
  /\ a = "ASSIGN" => p # Nobody
  /\ call' = [call EXCEPT ![c] = [pc |-> "read", task |-> t, action |-> a,
                                  assignee |-> p, noneOpen |-> FALSE]]
  /\ UNCHANGED <<instance, task, actions, creator, told, crashes, setting>>

\* ensureActiveUserInOrganization, for the caller and for the assignee.
UsersMissing(c) ==
  /\ call[c].pc = "read"
  /\ call' = [call EXCEPT ![c] = Resting("done")]
  /\ UNCHANGED <<instance, task, actions, creator, told, crashes, setting>>

\* The row that the action of call c makes of a task row.
Transition(c, row) ==
  CASE call[c].action = "COMPLETE" ->
         [row EXCEPT !.status = "COMPLETED", !.completedAt = TRUE]
    [] call[c].action = "REJECT" ->
         [row EXCEPT !.status = "REJECTED", !.completedAt = TRUE]
    [] call[c].action = "SEND_BACK" ->
         [row EXCEPT !.status = "PENDING", !.completedAt = FALSE]
    [] call[c].action = "COMMENT" -> row
    [] call[c].action = "ASSIGN" ->
         [status |-> "IN_PROGRESS", completedAt |-> FALSE,
          assignee |-> call[c].assignee]
    [] call[c].action = "ESCALATE" ->
         [status |-> "ESCALATED", completedAt |-> FALSE,
          assignee |-> call[c].assignee]

\* The task as the transaction of call c sees it.
Seen(c, t) == IF t = call[c].task THEN Transition(c, task[t]) ELSE task[t]

\* BEGIN, the TaskAction row and the update, which waits for the row lock.
UpdateTask(c) ==
  /\ call[c].pc = "read"
  /\ \A e \in Calls : InTransaction(e) => call[e].task # call[c].task
  /\ call' = [call EXCEPT ![c].pc = "written"]
  /\ UNCHANGED <<instance, task, actions, creator, told, crashes, setting>>

\* Mutant: escalated tasks are not counted as open.
CountOpenTasksNotEscalated(c) ==
  /\ call[c].pc = "written"
  /\ call' = [call EXCEPT
       ![c].pc = "counted",
       ![c].noneOpen = /\ call[c].action = "COMPLETE"
                       /\ \A t \in Tasks :
                            Seen(c, t).status \notin {"PENDING", "IN_PROGRESS"}]
  /\ UNCHANGED <<instance, task, actions, creator, told, crashes, setting>>

\* Mutant: the count runs outside the transaction.
CountCommittedOpenTasks(c) ==
  /\ call[c].pc = "written"
  /\ call' = [call EXCEPT
       ![c].pc = "counted",
       ![c].noneOpen = /\ call[c].action = "COMPLETE"
                       /\ \A t \in Tasks : task[t].status \notin Open]
  /\ UNCHANGED <<instance, task, actions, creator, told, crashes, setting>>

\* Only a completion counts the open tasks.
CountOpenTasks(c) ==
  /\ call[c].pc = "written"
  /\ call' = [call EXCEPT
       ![c].pc = "counted",
       ![c].noneOpen = /\ call[c].action = "COMPLETE"
                       /\ \A t \in Tasks : Seen(c, t).status \notin Open]
  /\ UNCHANGED <<instance, task, actions, creator, told, crashes, setting>>

CommitTask(c) ==
  /\ call[c].pc = "counted"
  /\ task' = [task EXCEPT ![call[c].task] = Seen(c, call[c].task)]
  /\ actions' = actions \cup {<<call[c].task, call[c].action>>}
  /\ instance' = IF call[c].noneOpen THEN "COMPLETED" ELSE instance
  /\ call' = [call EXCEPT ![c].pc = "committed"]
  /\ UNCHANGED <<creator, told, crashes, setting>>

\* The recipient of the event is whoever the task is assigned to by now.
LoadTask(c) ==
  /\ call[c].pc = "committed"
  /\ call' = [call EXCEPT ![c].pc = "loaded",
                          ![c].assignee = task[call[c].task].assignee]
  /\ UNCHANGED <<instance, task, actions, creator, told, crashes, setting>>

\* Mutant: only an assignment publishes.
PublishAssignment(c) ==
  /\ call[c].pc = "loaded"
  /\ told' = [told EXCEPT ![call[c].task] =
                @ \cup IF call[c].action = "ASSIGN"
                       THEN {call[c].assignee} \ {Nobody} ELSE {}]
  /\ call' = [call EXCEPT ![c] = Resting("done")]
  /\ UNCHANGED <<instance, task, actions, creator, crashes, setting>>

\* workflow.task.action.recorded for every action, and
\* workflow.task.assigned, to the same recipient, for an assignment.
PublishTask(c) ==
  /\ call[c].pc = "loaded"
  /\ told' = [told EXCEPT ![call[c].task] =
                @ \cup ({call[c].assignee} \ {Nobody})]
  /\ call' = [call EXCEPT ![c] = Resting("done")]
  /\ UNCHANGED <<instance, task, actions, creator, crashes, setting>>

\* A process dies; a transaction that has not committed is rolled back.
Crash ==
  /\ crashes < MaxCrashes
  /\ crashes' = crashes + 1
  /\ \/ \E c \in Calls :
          /\ call[c].pc \notin {"idle", "done"}
          /\ call' = [call EXCEPT ![c] = Resting("done")]
          /\ UNCHANGED creator
     \/ /\ creator.pc = "created" \/ creator.left # {}
        /\ creator' = [creator EXCEPT !.pc = "loaded", !.left = {}]
        /\ UNCHANGED call
  /\ UNCHANGED <<instance, task, actions, told, setting>>

Continue(c) ==
  \/ UsersMissing(c) \/ UpdateTask(c) \/ CountOpenTasks(c)
  \/ CommitTask(c) \/ LoadTask(c) \/ PublishTask(c)

Announce == LoadInstance \/ \E t \in Tasks : AnnounceTask(t)

Next ==
  \/ \E assignees \in [Tasks -> setting.people] : CreateInstance(assignees)
  \/ Announce
  \/ \E c \in Calls, t \in Tasks, a \in ActionType,
        p \in setting.people \cup {Nobody} :
       ReadTask(c, t, a, p)
  \/ \E c \in Calls : Continue(c)
  \/ Crash

Spec == Init /\ [][Next]_vars

(***************************************************************************)
(* Properties                                                              *)
(***************************************************************************)

\* Whatever the interleaving, a completed instance has, for every one of
\* its tasks, a recorded action that closed the task.
CompletedByActions ==
  instance = "COMPLETED" =>
    \A t \in Tasks : \E a \in {"COMPLETE", "REJECT"} : <<t, a>> \in actions

\* A completed instance has no open task when calls do not overlap; a call
\* that read the instance while it was active can otherwise reopen a task
\* after the instance was completed.
CompletedIsClosed ==
  ~Overlap /\ instance = "COMPLETED" =>
    \A t \in Tasks : task[t].status \in Closed

\* Once every task is COMPLETED the instance is, when calls do not overlap:
\* two transactions that complete the last two tasks can otherwise each
\* count the other's task as open.
AllCompletedCompletes ==
  ~Overlap /\ instance # "NONE"
  /\ (\A t \in Tasks : task[t].status = "COMPLETED") =>
    instance = "COMPLETED"

\* Served one at a time, the actions on the tasks complete an instance when,
\* and only when, there is nothing left to do, and it stays that way.
CompletedExactly == CompletedIsClosed /\ AllCompletedCompletes

Quiet == /\ creator.pc # "created" /\ creator.left = {}
         /\ \A c \in Calls : call[c].pc \in {"idle", "done"}

\* If no handler dies, whoever a task is assigned to has been told of it by
\* the time every handler has answered, however the calls overlap, though
\* the recipient is read after the commit.
AssigneeIsTold ==
  crashes = 0 /\ Quiet =>
    \A t \in Tasks : task[t].assignee \in told[t] \cup {Nobody}
==============================================================================
