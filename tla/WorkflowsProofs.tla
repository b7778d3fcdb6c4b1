--------------------------- MODULE WorkflowsProofs ---------------------------
(***************************************************************************)
(* Theorems about Workflows for any number of tasks, people and calls.     *)
(***************************************************************************)
EXTENDS Workflows, TLAPS

(***************************************************************************)
(* Type correctness.  An event is addressed to a person because unassigned *)
(* tasks were passed over when the instance was read back (LeftAssigned).  *)
(***************************************************************************)

\* Whoever is left to be told of a task is a person.
LeftAssigned == \A t \in creator.left : creator.seen[t] # Nobody

TypeInv == TypeOK /\ LeftAssigned

\* Setting and assignees in the types of WorkflowsAssumption.
LEMMA SettingTypes ==
  ASSUME TypeOK
  PROVE  /\ setting.overlap \in BOOLEAN /\ setting.crashes \in Nat
         /\ setting.people \subseteq People
  BY WorkflowsAssumption DEF TypeOK

\* A call at rest is a call.
LEMMA RestingType ==
  ASSUME NEW pc \in {"idle", "done"}
  PROVE  Resting(pc) \in Call
<1>1. (CHOOSE t \in Tasks : TRUE) \in Tasks
  BY WorkflowsAssumption
<1>2. QED
  BY <1>1 DEF Resting, Call, ActionType, Assignee

\* The initial rows and calls have their types.
LEMMA InitTypeInv == Init => TypeInv
<1> SUFFICES ASSUME Init PROVE TypeInv
  OBVIOUS
<1>1. task \in [Tasks -> TaskRow]
  BY DEF Init, TaskRow, Open, Closed, Assignee
<1>2. call \in [Calls -> Call]
  BY RestingType DEF Init
<1>3. creator \in Creator
  BY DEF Init, Creator, Assignee
<1>4. crashes \in 0 .. MaxCrashes
  BY WorkflowsAssumption DEF Init, MaxCrashes
<1>5. QED
  BY <1>1, <1>2, <1>3, <1>4 DEF Init, TypeInv, TypeOK, LeftAssigned

\* A call and the row it makes of a task row.
LEMMA TransitionType ==
  ASSUME TypeOK, NEW c \in Calls, NEW row \in TaskRow
  PROVE  Transition(c, row) \in TaskRow
<1>1. call[c] \in Call
  BY DEF TypeOK
<1>2. call[c].action \in ActionType /\ call[c].assignee \in Assignee
  BY <1>1 DEF Call
<1>3. CASE call[c].action = "COMPLETE"
  BY <1>3 DEF Transition, TaskRow, Closed
<1>4. CASE call[c].action = "REJECT"
  BY <1>4 DEF Transition, TaskRow, Closed
<1>5. CASE call[c].action = "SEND_BACK"
  BY <1>5 DEF Transition, TaskRow, Open
<1>6. CASE call[c].action = "COMMENT"
  BY <1>6 DEF Transition
<1>7. CASE call[c].action \in {"ASSIGN", "ESCALATE"}
  BY <1>2, <1>7 DEF Transition, TaskRow, Open
<1>8. QED
  BY <1>2, <1>3, <1>4, <1>5, <1>6, <1>7 DEF ActionType

\* The parts of the local state of a call.
LEMMA CallTypes ==
  ASSUME TypeOK, NEW c \in Calls
  PROVE  /\ call[c] \in Call /\ call[c].task \in Tasks
         /\ call[c].action \in ActionType /\ call[c].assignee \in Assignee
         /\ task[call[c].task] \in TaskRow
  BY DEF TypeOK, Call

\* Every step of the specification preserves the types.
LEMMA StepTypeInv == TypeInv /\ [Next]_vars => TypeInv'
<1> SUFFICES ASSUME TypeInv, [Next]_vars PROVE TypeInv'
  OBVIOUS
<1>0. TypeOK /\ LeftAssigned
  BY DEF TypeInv
<1>1. CASE UNCHANGED vars
  BY <1>0, <1>1 DEF vars, TypeInv, TypeOK, LeftAssigned, MaxCrashes
<1>2. ASSUME NEW assignees \in [Tasks -> setting.people],
             CreateInstance(assignees)
      PROVE  TypeInv'
  <2>1. task' \in [Tasks -> TaskRow]
    BY <1>0, <1>2, SettingTypes
    DEF CreateInstance, TaskRow, Open, Assignee
  <2>2. creator' \in Creator
    BY <1>0, <1>2 DEF CreateInstance, TypeOK, Creator
  <2>3. LeftAssigned'
    BY <1>0, <1>2 DEF CreateInstance, LeftAssigned, TypeOK, Creator
  <2>4. QED
    BY <1>0, <1>2, <2>1, <2>2, <2>3
    DEF CreateInstance, TypeInv, TypeOK, MaxCrashes
<1>3. CASE LoadInstance
  <2>1. \A t \in Tasks : task[t].assignee \in Assignee
    BY <1>0 DEF TypeOK, TaskRow
  <2>2. creator' \in Creator /\ LeftAssigned'
    BY <1>3, <2>1 DEF LoadInstance, Creator, LeftAssigned
  <2>3. QED
    BY <1>0, <1>3, <2>2 DEF LoadInstance, TypeInv, TypeOK, MaxCrashes
<1>4. ASSUME NEW t \in Tasks, AnnounceTask(t)
      PROVE  TypeInv'
  <2>1. creator.seen[t] \in People
    BY <1>0, <1>4 DEF AnnounceTask, TypeOK, Creator, LeftAssigned, Assignee
  <2>2. told' \in [Tasks -> SUBSET People]
    BY <1>0, <1>4, <2>1 DEF AnnounceTask, TypeOK
  <2>3. creator' \in Creator /\ LeftAssigned'
    BY <1>0, <1>4 DEF AnnounceTask, TypeOK, Creator, LeftAssigned
  <2>4. QED
    BY <1>0, <1>4, <2>2, <2>3 DEF AnnounceTask, TypeInv, TypeOK, MaxCrashes
<1>5. ASSUME NEW c \in Calls, NEW t \in Tasks, NEW a \in ActionType,
             NEW p \in setting.people \cup {Nobody}, ReadTask(c, t, a, p)
      PROVE  TypeInv'
  <2>1. p \in Assignee
    BY <1>0, SettingTypes DEF Assignee
  <2>2. call' \in [Calls -> Call]
    BY <1>0, <1>5, <2>1 DEF ReadTask, TypeOK, Call
  <2>3. QED
    BY <1>0, <1>5, <2>2
    DEF ReadTask, TypeInv, TypeOK, LeftAssigned, MaxCrashes
<1>6. ASSUME NEW c \in Calls, Continue(c)
      PROVE  TypeInv'
  <2>1. CASE UsersMissing(c)
    BY <1>0, <2>1, RestingType
    DEF UsersMissing, TypeInv, TypeOK, LeftAssigned, MaxCrashes
  <2>2. CASE UpdateTask(c)
    BY <1>0, <2>2
    DEF UpdateTask, TypeInv, TypeOK, LeftAssigned, Call, MaxCrashes
  <2>3. CASE CountOpenTasks(c)
    BY <1>0, <2>3
    DEF CountOpenTasks, TypeInv, TypeOK, LeftAssigned, Call, MaxCrashes
  <2>4. CASE CommitTask(c)
    <3>1. Seen(c, call[c].task) \in TaskRow
      BY <1>0, CallTypes, TransitionType DEF Seen
    <3>2. task' \in [Tasks -> TaskRow]
      BY <1>0, <2>4, <3>1 DEF CommitTask, TypeOK
    <3>3. actions' \in SUBSET (Tasks \X ActionType)
      BY <1>0, <2>4, CallTypes DEF CommitTask, TypeOK
    <3>4. call' \in [Calls -> Call]
      BY <1>0, <2>4 DEF CommitTask, TypeOK, Call
    <3>5. instance' \in {"NONE", "ACTIVE", "COMPLETED"}
      BY <1>0, <2>4 DEF CommitTask, TypeOK
    <3>6. QED
      BY <1>0, <2>4, <3>2, <3>3, <3>4, <3>5
      DEF CommitTask, TypeInv, TypeOK, LeftAssigned, MaxCrashes
  <2>5. CASE LoadTask(c)
    <3>1. task[call[c].task].assignee \in Assignee
      BY <1>0, CallTypes DEF TaskRow
    <3>2. call' \in [Calls -> Call]
      BY <1>0, <2>5, <3>1 DEF LoadTask, TypeOK, Call
    <3>3. QED
      BY <1>0, <2>5, <3>2
      DEF LoadTask, TypeInv, TypeOK, LeftAssigned, MaxCrashes
  <2>6. CASE PublishTask(c)
    <3>1. {call[c].assignee} \ {Nobody} \subseteq People
      BY <1>0, CallTypes DEF Assignee
    <3>2. told' \in [Tasks -> SUBSET People]
      BY <1>0, <2>6, <3>1 DEF PublishTask, TypeOK
    <3>3. call' \in [Calls -> Call]
      BY <1>0, <2>6, RestingType DEF PublishTask, TypeOK
    <3>4. QED
      BY <1>0, <2>6, <3>2, <3>3
      DEF PublishTask, TypeInv, TypeOK, LeftAssigned, MaxCrashes
  <2>7. QED
    BY <1>6, <2>1, <2>2, <2>3, <2>4, <2>5, <2>6 DEF Continue
<1>7. CASE Crash
  <2>1. call' \in [Calls -> Call]
    BY <1>0, <1>7, RestingType DEF Crash, TypeOK
  <2>2. creator' \in Creator /\ LeftAssigned'
    BY <1>0, <1>7 DEF Crash, TypeOK, Creator, LeftAssigned
  <2>3. crashes' \in 0 .. MaxCrashes'
    BY <1>0, <1>7, SettingTypes DEF Crash, TypeOK, MaxCrashes
  <2>4. QED
    BY <1>0, <1>7, <2>1, <2>2, <2>3 DEF Crash, TypeInv, TypeOK
<1>8. QED
  BY <1>1, <1>2, <1>3, <1>4, <1>5, <1>6, <1>7 DEF Next, Announce

\* The rows and the handlers' local states always have their types.
THEOREM TypeCorrect == Spec => []TypeOK
<1>1. TypeInv => TypeOK
  BY DEF TypeInv
<1>2. QED
  BY <1>1, InitTypeInv, StepTypeInv, PTL DEF Spec

\* The types, and who is assigned, always hold.
LEMMA TypeInvAlways == Spec => []TypeInv
  BY InitTypeInv, StepTypeInv, PTL DEF Spec

(***************************************************************************)
(* CompletedByActions.  What the count of a transaction has seen may have  *)
(* changed by the time it commits, but not that every other task has an    *)
(* action that closed it: actions are never taken away.                    *)
(***************************************************************************)

\* An action has closed the task, maybe not for good.
HasClosing(t) == \E a \in {"COMPLETE", "REJECT"} : <<t, a>> \in actions

ClosedHaveClosing ==
  \A t \in Tasks : task[t].status \in Closed => HasClosing(t)

CountsAreFounded ==
  \A c \in Calls : call[c].pc = "counted" /\ call[c].noneOpen =>
    /\ call[c].action = "COMPLETE"
    /\ \A t \in Tasks \ {call[c].task} : HasClosing(t)

ClosingInv == ClosedHaveClosing /\ CountsAreFounded /\ CompletedByActions

\* The row a transition makes is closed only if it was, or by an action that
\* closes.
LEMMA TransitionCloses ==
  ASSUME TypeOK, NEW c \in Calls, NEW row \in TaskRow,
         Transition(c, row).status \in Closed
  PROVE  call[c].action \in {"COMPLETE", "REJECT"} \/ row.status \in Closed
<1>1. call[c].action \in ActionType
  BY CallTypes
<1>2. CASE call[c].action \in {"SEND_BACK", "ASSIGN", "ESCALATE"}
  BY <1>2 DEF Transition, Closed, TaskRow
<1>3. CASE call[c].action = "COMMENT"
  BY <1>3 DEF Transition
<1>4. QED
  BY <1>1, <1>2, <1>3 DEF ActionType

\* Every step of the specification preserves ClosingInv.
LEMMA StepClosingInv == TypeInv /\ ClosingInv /\ [Next]_vars => ClosingInv'
<1> SUFFICES ASSUME TypeOK, ClosingInv, [Next]_vars PROVE ClosingInv'
  BY DEF TypeInv
<1>0. \A t : HasClosing(t) => HasClosing(t)'
  BY DEF HasClosing, Next, Announce, CreateInstance, LoadInstance,
      AnnounceTask, ReadTask, Continue, UsersMissing, UpdateTask,
      CountOpenTasks, CommitTask, LoadTask, PublishTask, Crash, vars
\* Steps that touch neither the instance nor a task, and count nothing.
<1>1. ASSUME UNCHANGED <<instance, task>>,
             \A c \in Calls : call'[c].pc = "counted" => call'[c] = call[c]
      PROVE  ClosingInv'
  <2>1. ClosedHaveClosing'
    BY <1>0, <1>1 DEF ClosingInv, ClosedHaveClosing
  <2>2. CountsAreFounded'
    BY <1>0, <1>1 DEF ClosingInv, CountsAreFounded
  <2>3. CompletedByActions'
    BY <1>0, <1>1 DEF ClosingInv, CompletedByActions, HasClosing
  <2>4. QED
    BY <2>1, <2>2, <2>3 DEF ClosingInv
<1>2. ASSUME NEW assignees \in [Tasks -> setting.people],
             CreateInstance(assignees)
      PROVE  ClosingInv'
  <2>1. ClosedHaveClosing'
    BY <1>2 DEF CreateInstance, ClosedHaveClosing, Closed
  <2>2. CountsAreFounded'
    BY <1>0, <1>2 DEF CreateInstance, ClosingInv, CountsAreFounded
  <2>3. CompletedByActions'
    BY <1>2 DEF CreateInstance, CompletedByActions
  <2>4. QED
    BY <2>1, <2>2, <2>3 DEF ClosingInv
<1>3. CASE LoadInstance \/ (\E t \in Tasks : AnnounceTask(t)) \/ UNCHANGED vars
  BY <1>1, <1>3 DEF LoadInstance, AnnounceTask, vars
<1>4. ASSUME NEW c \in Calls, NEW t \in Tasks, NEW a \in ActionType,
             NEW p \in setting.people \cup {Nobody}, ReadTask(c, t, a, p)
      PROVE  ClosingInv'
  <2>1. \A e \in Calls : call'[e].pc = "counted" => call'[e] = call[e]
    BY <1>4 DEF ReadTask, TypeOK
  <2>2. QED
    BY <1>1, <1>4, <2>1 DEF ReadTask
<1>5. ASSUME NEW c \in Calls,
             UsersMissing(c) \/ UpdateTask(c) \/ LoadTask(c) \/ PublishTask(c)
      PROVE  ClosingInv'
  <2>1. \A e \in Calls : call'[e].pc = "counted" => call'[e] = call[e]
    BY <1>5 DEF UsersMissing, UpdateTask, LoadTask, PublishTask, Resting,
        TypeOK, Call
  <2>2. QED
    BY <1>1, <1>5, <2>1 DEF UsersMissing, UpdateTask, LoadTask, PublishTask
<1>6. ASSUME NEW c \in Calls, CountOpenTasks(c)
      PROVE  ClosingInv'
  <2>1. \A e \in Calls : e # c => call'[e] = call[e]
    BY <1>6 DEF CountOpenTasks, TypeOK
  <2>2. /\ call'[c].task = call[c].task /\ call'[c].action = call[c].action
        /\ call'[c].noneOpen =>
             /\ call[c].action = "COMPLETE"
             /\ \A t \in Tasks : Seen(c, t).status \notin Open
    BY <1>6 DEF CountOpenTasks, TypeOK, Call
  <2>3. ASSUME call'[c].noneOpen, NEW t \in Tasks \ {call[c].task}
        PROVE  HasClosing(t)
    <3>1. task[t].status \notin Open
      BY <2>2, <2>3 DEF Seen
    <3>2. task[t].status \in Closed
      BY <3>1 DEF TypeOK, TaskRow
    <3>3. QED
      BY <3>2 DEF ClosingInv, ClosedHaveClosing
  <2>4. CountsAreFounded'
    BY <1>0, <2>1, <2>2, <2>3 DEF ClosingInv, CountsAreFounded
  <2>5. ClosedHaveClosing' /\ CompletedByActions'
    BY <1>6 DEF CountOpenTasks, ClosingInv, ClosedHaveClosing,
        CompletedByActions, HasClosing
  <2>6. QED
    BY <2>4, <2>5 DEF ClosingInv
<1>7. ASSUME NEW c \in Calls, CommitTask(c)
      PROVE  ClosingInv'
  <2>1. PICK u \in Tasks : u = call[c].task
    BY CallTypes
  <2>2. <<u, call[c].action>> \in actions'
    BY <1>7, <2>1 DEF CommitTask
  <2>3. call[c].action \in {"COMPLETE", "REJECT"} => HasClosing(u)'
    BY <2>2 DEF HasClosing
  <2>4. ASSUME NEW t \in Tasks, task'[t].status \in Closed
        PROVE  HasClosing(t)'
    <3>1. CASE t = u
      <4>1. task'[u] = Transition(c, task[u])
        BY <1>7, <2>1 DEF CommitTask, TypeOK, Seen
      <4>2. call[c].action \in {"COMPLETE", "REJECT"}
              \/ task[u].status \in Closed
        BY <2>1, <2>4, <3>1, <4>1, CallTypes, TransitionCloses
      <4>3. QED
        BY <1>0, <2>3, <3>1, <4>2 DEF ClosingInv, ClosedHaveClosing
    <3>2. CASE t # u
      <4>1. task'[t] = task[t]
        BY <1>7, <2>1, <3>2 DEF CommitTask, TypeOK
      <4>2. QED
        BY <1>0, <2>4, <4>1 DEF ClosingInv, ClosedHaveClosing
    <3>3. QED
      BY <3>1, <3>2
  <2>5. ClosedHaveClosing'
    BY <2>4 DEF ClosedHaveClosing
  <2>6. CountsAreFounded'
    <3>1. \A e \in Calls : call'[e].pc = "counted" => call'[e] = call[e]
      BY <1>7 DEF CommitTask, TypeOK, Call
    <3>2. QED
      BY <1>0, <3>1 DEF ClosingInv, CountsAreFounded
  <2>7. CompletedByActions'
    <3>1. CASE call[c].noneOpen
      <4>1. /\ call[c].action = "COMPLETE"
            /\ \A t \in Tasks \ {u} : HasClosing(t)
        BY <1>7, <2>1, <3>1 DEF CommitTask, ClosingInv, CountsAreFounded
      <4>2. \A t \in Tasks : HasClosing(t)'
        BY <1>0, <2>3, <4>1
      <4>3. QED
        BY <4>2 DEF CompletedByActions, HasClosing
    <3>2. CASE ~call[c].noneOpen
      <4>1. instance' = instance
        BY <1>7, <3>2 DEF CommitTask
      <4>2. instance = "COMPLETED" => \A t \in Tasks : HasClosing(t)
        BY DEF ClosingInv, CompletedByActions, HasClosing
      <4>3. QED
        BY <1>0, <4>1, <4>2 DEF CompletedByActions, HasClosing
    <3>3. QED
      BY <3>1, <3>2
  <2>8. QED
    BY <2>5, <2>6, <2>7 DEF ClosingInv
<1>8. CASE Crash
  <2>1. \A e \in Calls : call'[e].pc = "counted" => call'[e] = call[e]
    BY <1>8 DEF Crash, TypeOK, Resting
  <2>2. QED
    BY <1>1, <1>8, <2>1 DEF Crash
<1>9. QED
  BY <1>2, <1>3, <1>4, <1>5, <1>6, <1>7, <1>8 DEF Next, Announce, Continue

\* However the actions on its tasks overlap, a completed instance has for each
\* task a recorded action that closed it.
THEOREM CompletedByActing == Spec => []CompletedByActions
<1>1. Init => ClosingInv
  BY DEF Init, ClosingInv, ClosedHaveClosing, CountsAreFounded,
      CompletedByActions, Closed, Resting
<1>2. ClosingInv => CompletedByActions
  BY DEF ClosingInv
<1>3. QED
  BY <1>1, <1>2, StepClosingInv, TypeInvAlways, PTL DEF Spec

(***************************************************************************)
(* CompletedExactly.  One at a time, what a transaction has counted is     *)
(* still so when it commits.                                               *)
(***************************************************************************)

\* Before it is created an instance has no handlers.
BornActive ==
  /\ creator.pc = "idle" => instance = "NONE"
  /\ instance = "NONE" => \A c \in Calls : ~InFlight(c)

\* What a completion counts, as long as nobody else writes.
NoneOpen(c) ==
  call[c].action = "COMPLETE" /\ \A t \in Tasks : Seen(c, t).status \notin Open

\* One handler at a time, and of an active instance; what it has counted.
Alone ==
  ~Overlap => \A c \in Calls : InFlight(c) =>
    /\ instance = "ACTIVE"
    /\ \A e \in Calls \ {c} : ~InFlight(e)
    /\ call[c].pc = "counted" => call[c].noneOpen = NoneOpen(c)

SerialInv == BornActive /\ Alone /\ CompletedExactly

\* Every step of the specification preserves SerialInv.
LEMMA StepSerialInv == TypeInv /\ SerialInv /\ [Next]_vars => SerialInv'
<1> SUFFICES ASSUME TypeOK, SerialInv, [Next]_vars PROVE SerialInv'
  BY DEF TypeInv
<1>0. BornActive /\ Alone /\ CompletedIsClosed /\ AllCompletedCompletes
  BY DEF SerialInv, CompletedExactly
\* Steps that touch neither the instance nor a task.
<1>1. ASSUME UNCHANGED <<instance, task, setting>>,
             creator.pc # "idle" => creator'.pc # "idle",
             \A c \in Calls : InFlight(c)' =>
               /\ InFlight(c)
               /\ call'[c].task = call[c].task
               /\ call'[c].action = call[c].action
               /\ call'[c].pc = "counted" => call'[c] = call[c]
      PROVE  SerialInv'
  <2>1. BornActive'
    BY <1>0, <1>1 DEF BornActive
  <2>2. Alone'
    <3> SUFFICES ASSUME ~Overlap, NEW c \in Calls, InFlight(c)'
                 PROVE  /\ instance' = "ACTIVE"
                        /\ \A e \in Calls \ {c} : ~InFlight(e)'
                        /\ call'[c].pc = "counted" =>
                             call'[c].noneOpen = NoneOpen(c)'
      BY <1>1 DEF Alone, Overlap
    <3>1. InFlight(c)
      BY <1>1
    <3>2. call'[c].pc = "counted" => \A t \in Tasks : Seen(c, t)' = Seen(c, t)
      BY <1>1, CallTypes DEF Seen, Transition, ActionType
    <3>3. QED
      BY <1>0, <1>1, <3>1, <3>2 DEF Alone, NoneOpen
  <2>3. CompletedExactly'
    BY <1>0, <1>1 DEF CompletedExactly, CompletedIsClosed,
        AllCompletedCompletes, Overlap
  <2>4. QED
    BY <2>1, <2>2, <2>3 DEF SerialInv
<1>2. ASSUME NEW assignees \in [Tasks -> setting.people],
             CreateInstance(assignees)
      PROVE  SerialInv'
  <2>1. \A c \in Calls : ~InFlight(c) /\ ~InFlight(c)'
    BY <1>0, <1>2 DEF CreateInstance, BornActive, InFlight, InTransaction
  <2>2. instance' = "ACTIVE" /\ creator'.pc = "created"
    BY <1>2 DEF CreateInstance, TypeOK, Creator
  <2>3. BornActive' /\ Alone'
    BY <2>1, <2>2 DEF BornActive, Alone
  <2>4. \A t \in Tasks : task'[t].status # "COMPLETED"
    BY <1>2 DEF CreateInstance
  <2>5. CompletedExactly'
    BY <2>2, <2>4, WorkflowsAssumption
    DEF CompletedExactly, CompletedIsClosed, AllCompletedCompletes
  <2>6. QED
    BY <2>3, <2>5 DEF SerialInv
<1>3. CASE LoadInstance \/ (\E t \in Tasks : AnnounceTask(t)) \/ UNCHANGED vars
  <2>1. creator.pc # "idle" => creator'.pc # "idle"
    BY <1>3 DEF LoadInstance, AnnounceTask, vars, TypeOK, Creator
  <2>2. call' = call /\ UNCHANGED <<instance, task, setting>>
    BY <1>3 DEF LoadInstance, AnnounceTask, vars
  <2>3. QED
    BY <1>1, <2>1, <2>2 DEF InFlight, InTransaction
<1>4. ASSUME NEW c \in Calls, NEW t \in Tasks, NEW a \in ActionType,
             NEW p \in setting.people \cup {Nobody}, ReadTask(c, t, a, p)
      PROVE  SerialInv'
  <2>1. /\ instance = "ACTIVE" /\ call'[c].pc = "read"
        /\ \A e \in Calls \ {c} : call'[e] = call[e]
        /\ UNCHANGED <<instance, task, creator, setting>>
        /\ ~Overlap => \A e \in Calls : ~InFlight(e)
    BY <1>4 DEF ReadTask, TypeOK
  <2>2. BornActive'
    BY <1>0, <2>1 DEF BornActive
  <2>3. Alone'
    BY <2>1 DEF Alone, Overlap, InFlight, InTransaction
  <2>4. CompletedExactly'
    BY <1>0, <2>1 DEF CompletedExactly, CompletedIsClosed,
        AllCompletedCompletes, Overlap
  <2>5. QED
    BY <2>2, <2>3, <2>4 DEF SerialInv
<1>5. ASSUME NEW c \in Calls,
             UsersMissing(c) \/ UpdateTask(c) \/ LoadTask(c) \/ PublishTask(c)
      PROVE  SerialInv'
  <2>1. \A e \in Calls : InFlight(e)' =>
          /\ InFlight(e)
          /\ call'[e].task = call[e].task
          /\ call'[e].action = call[e].action
          /\ call'[e].pc = "counted" => call'[e] = call[e]
    BY <1>5 DEF UsersMissing, UpdateTask, LoadTask, PublishTask, Resting,
        InFlight, InTransaction, TypeOK, Call
  <2>2. QED
    BY <1>1, <1>5, <2>1 DEF UsersMissing, UpdateTask, LoadTask, PublishTask
<1>6. ASSUME NEW c \in Calls, CountOpenTasks(c)
      PROVE  SerialInv'
  <2>1. /\ InFlight(c) /\ InFlight(c)'
        /\ call'[c].task = call[c].task /\ call'[c].action = call[c].action
        /\ call'[c].noneOpen = NoneOpen(c)
        /\ \A e \in Calls \ {c} : call'[e] = call[e]
        /\ UNCHANGED <<instance, task, creator, setting>>
    BY <1>6 DEF CountOpenTasks, TypeOK, Call, InFlight, InTransaction, NoneOpen
  <2>2. \A e \in Calls \ {c} : InFlight(e)' = InFlight(e)
    BY <2>1 DEF InFlight, InTransaction
  <2>3. BornActive'
    BY <1>0, <2>1, <2>2 DEF BornActive
  <2>4. Alone'
    <3> SUFFICES ASSUME ~Overlap, NEW d \in Calls, InFlight(d)'
                 PROVE  /\ instance' = "ACTIVE"
                        /\ \A e \in Calls \ {d} : ~InFlight(e)'
                        /\ call'[d].pc = "counted" =>
                             call'[d].noneOpen = NoneOpen(d)'
      BY <2>1 DEF Alone, Overlap
    <3>1. d = c
      BY <1>0, <2>1, <2>2 DEF Alone
    <3>2. \A t \in Tasks : Seen(c, t)' = Seen(c, t)
      BY <2>1 DEF Seen, Transition, TypeOK, Call
    <3>3. QED
      BY <1>0, <2>1, <2>2, <3>1, <3>2 DEF Alone, NoneOpen
  <2>5. CompletedExactly'
    BY <1>0, <2>1 DEF CompletedExactly, CompletedIsClosed,
        AllCompletedCompletes, Overlap
  <2>6. QED
    BY <2>3, <2>4, <2>5 DEF SerialInv
<1>7. ASSUME NEW c \in Calls, CommitTask(c)
      PROVE  SerialInv'
  <2>1. PICK u \in Tasks : u = call[c].task
    BY CallTypes
  <2>2. /\ call[c].pc = "counted" /\ InFlight(c) /\ ~InFlight(c)'
        /\ \A e \in Calls \ {c} : call'[e] = call[e]
        /\ UNCHANGED <<creator, setting>>
        /\ instance' = IF call[c].noneOpen THEN "COMPLETED" ELSE instance
    BY <1>7 DEF CommitTask, InFlight, InTransaction, TypeOK, Call
  <2>3. \A t \in Tasks : task'[t] = Seen(c, t)
    BY <1>7, <2>1 DEF CommitTask, Seen, TypeOK
  <2>4. \A e \in Calls \ {c} : InFlight(e)' = InFlight(e)
    BY <2>2 DEF InFlight, InTransaction
  <2>5. instance # "NONE"
    BY <1>0, <2>2 DEF BornActive
  <2>6. BornActive'
    BY <1>0, <2>2, <2>5 DEF BornActive
  <2>7. Alone'
    BY <1>0, <2>2, <2>4 DEF Alone, Overlap
  <2>8. CASE Overlap
    BY <2>2, <2>6, <2>7, <2>8
    DEF SerialInv, CompletedExactly, CompletedIsClosed,
        AllCompletedCompletes, Overlap
  <2>9. CASE ~Overlap
    <3>1. /\ instance = "ACTIVE"
          /\ call[c].noneOpen = NoneOpen(c)
      BY <1>0, <2>2, <2>9 DEF Alone
    <3>2. \A t \in Tasks : Seen(c, t) \in TaskRow
      <4>1. Transition(c, task[u]) \in TaskRow
        BY <2>1, CallTypes, TransitionType
      <4>2. QED
        BY <2>1, <4>1 DEF Seen, TypeOK
    <3>3. CompletedIsClosed'
      BY <2>2, <2>3, <3>1, <3>2 DEF CompletedIsClosed, TaskRow, NoneOpen
    <3>4. ASSUME \A t \in Tasks : task'[t].status = "COMPLETED"
          PROVE  instance' = "COMPLETED"
      <4>1. \A t \in Tasks : Seen(c, t).status = "COMPLETED"
        BY <2>3, <3>4
      <4>2. Transition(c, task[u]).status = "COMPLETED"
        BY <2>1, <4>1 DEF Seen
      <4>3. CASE call[c].action = "COMPLETE"
        <5>1. call[c].noneOpen
          BY <3>1, <4>1, <4>3 DEF Open, NoneOpen
        <5>2. QED
          BY <2>2, <5>1
      <4>4. CASE call[c].action = "COMMENT"
        <5>1. \A t \in Tasks : Seen(c, t) = task[t]
          BY <2>1, <4>4 DEF Seen, Transition
        <5>2. instance = "COMPLETED"
          BY <1>0, <2>5, <2>9, <4>1, <5>1 DEF AllCompletedCompletes
        <5>3. QED
          BY <3>1, <5>2
      <4>5. CASE call[c].action
                   \in {"REJECT", "SEND_BACK", "ASSIGN", "ESCALATE"}
        <5>1. task[u] \in TaskRow
          BY DEF TypeOK
        <5>2. Transition(c, task[u]).status # "COMPLETED"
          BY <4>5, <5>1 DEF Transition, TaskRow
        <5>3. QED
          BY <4>2, <5>2
      <4>6. QED
        BY <4>3, <4>4, <4>5, CallTypes DEF ActionType
    <3>5. AllCompletedCompletes'
      BY <3>4 DEF AllCompletedCompletes
    <3>6. QED
      BY <2>6, <2>7, <3>3, <3>5 DEF SerialInv, CompletedExactly
  <2>10. QED
    BY <2>8, <2>9
<1>8. CASE Crash
  <2>1. creator.pc # "idle" => creator'.pc # "idle"
    BY <1>8 DEF Crash, TypeOK, Creator
  <2>2. \A e \in Calls : InFlight(e)' => InFlight(e) /\ call'[e] = call[e]
    BY <1>8 DEF Crash, InFlight, InTransaction, Resting, TypeOK
  <2>3. QED
    BY <1>1, <1>8, <2>1, <2>2 DEF Crash
<1>9. QED
  BY <1>2, <1>3, <1>4, <1>5, <1>6, <1>7, <1>8 DEF Next, Announce, Continue

\* Served one at a time, the actions complete the instance exactly when there
\* is nothing left to do, and for good.
THEOREM CompletedInTurn == Spec => []CompletedExactly
<1>1. Init => SerialInv
  BY WorkflowsAssumption
  DEF Init, SerialInv, BornActive, Alone, InFlight, InTransaction,
      CompletedExactly, CompletedIsClosed, AllCompletedCompletes, Resting
<1>2. SerialInv => CompletedExactly
  BY DEF SerialInv
<1>3. QED
  BY <1>1, <1>2, StepSerialInv, TypeInvAlways, PTL DEF Spec

(***************************************************************************)
(* AssigneeIsTold.  As long as no handler has died, a task whose assignee  *)
(* has not been told has a handler that is going to tell him.              *)
(***************************************************************************)

\* The creation will tell the assignee of t, or call c will.
CreatorOwes(t) ==
  \/ creator.pc = "created"
  \/ t \in creator.left /\ creator.seen[t] = task[t].assignee
CallOwes(c, t) ==
  /\ call[c].task = t
  /\ \/ call[c].pc = "committed"
     \/ call[c].pc = "loaded" /\ call[c].assignee = task[t].assignee

ToldOrOwed ==
  crashes = 0 =>
    \A t \in Tasks : \/ task[t].assignee \in told[t] \cup {Nobody}
                     \/ CreatorOwes(t)
                     \/ \E c \in Calls : CallOwes(c, t)

\* Every step of the specification preserves ToldOrOwed.
LEMMA StepToldOrOwed == TypeInv /\ ToldOrOwed /\ [Next]_vars => ToldOrOwed'
<1> SUFFICES ASSUME TypeOK, ToldOrOwed, [Next]_vars, crashes' = 0,
                    NEW t \in Tasks
             PROVE  \/ task'[t].assignee \in told'[t] \cup {Nobody}
                    \/ CreatorOwes(t)'
                    \/ \E c \in Calls : CallOwes(c, t)'
  BY DEF TypeInv, ToldOrOwed
<1>0. crashes = 0 /\ ~Crash
  <2>1. crashes \in Nat
    BY SettingTypes DEF TypeOK, MaxCrashes
  <2>2. Crash => crashes' = crashes + 1
    BY DEF Crash
  <2>3. Crash \/ crashes' = crashes
    BY DEF Next, Announce, CreateInstance, LoadInstance, AnnounceTask,
        ReadTask, Continue, UsersMissing, UpdateTask, CountOpenTasks,
        CommitTask, LoadTask, PublishTask, vars
  <2>4. QED
    BY <2>1, <2>2, <2>3
<1>1. \/ task[t].assignee \in told[t] \cup {Nobody}
      \/ CreatorOwes(t)
      \/ \E c \in Calls : CallOwes(c, t)
  BY <1>0 DEF ToldOrOwed
\* Steps after which whoever owed still does.
<1>2. ASSUME UNCHANGED <<task, told, creator>>,
             \A c \in Calls : CallOwes(c, t) => CallOwes(c, t)'
      PROVE  \/ task'[t].assignee \in told'[t] \cup {Nobody}
             \/ CreatorOwes(t)'
             \/ \E c \in Calls : CallOwes(c, t)'
  BY <1>1, <1>2 DEF CreatorOwes
<1>3. CASE UNCHANGED vars
  BY <1>2, <1>3 DEF vars, CallOwes
<1>4. ASSUME NEW assignees \in [Tasks -> setting.people],
             CreateInstance(assignees)
      PROVE  CreatorOwes(t)'
  BY <1>4 DEF CreateInstance, CreatorOwes, TypeOK, Creator
<1>5. CASE LoadInstance
  <2>1. /\ UNCHANGED <<task, told, call>>
        /\ creator'.seen[t] = task[t].assignee
        /\ task[t].assignee # Nobody => t \in creator'.left
    BY <1>5 DEF LoadInstance
  <2>2. QED
    BY <2>1 DEF CreatorOwes
<1>6. ASSUME NEW u \in Tasks, AnnounceTask(u)
      PROVE  \/ task'[t].assignee \in told'[t] \cup {Nobody}
             \/ CreatorOwes(t)'
             \/ \E c \in Calls : CallOwes(c, t)'
  <2>1. /\ UNCHANGED <<task, call>>
        /\ creator'.pc = creator.pc /\ creator'.seen = creator.seen
        /\ creator'.left = creator.left \ {u}
        /\ told'[t] = IF t = u THEN told[t] \cup {creator.seen[u]} ELSE told[t]
    BY <1>6 DEF AnnounceTask, TypeOK, Creator
  <2>2. CASE t = u /\ creator.seen[t] = task[t].assignee
    BY <2>1, <2>2
  <2>3. CASE ~(t = u /\ creator.seen[t] = task[t].assignee)
    <3>1. CreatorOwes(t) => CreatorOwes(t)'
      BY <2>1, <2>3 DEF CreatorOwes
    <3>2. \A c \in Calls : CallOwes(c, t) => CallOwes(c, t)'
      BY <2>1 DEF CallOwes
    <3>3. told[t] \subseteq told'[t]
      BY <2>1
    <3>4. QED
      BY <1>1, <2>1, <3>1, <3>2, <3>3
  <2>4. QED
    BY <2>2, <2>3
<1>7. ASSUME NEW c \in Calls, NEW u \in Tasks, NEW a \in ActionType,
             NEW p \in setting.people \cup {Nobody}, ReadTask(c, u, a, p)
      PROVE  \/ task'[t].assignee \in told'[t] \cup {Nobody}
             \/ CreatorOwes(t)'
             \/ \E e \in Calls : CallOwes(e, t)'
  <2>1. \A e \in Calls : CallOwes(e, t) => CallOwes(e, t)'
    BY <1>7 DEF ReadTask, CallOwes, TypeOK
  <2>2. QED
    BY <1>2, <1>7, <2>1 DEF ReadTask
<1>8. ASSUME NEW c \in Calls,
             \/ UsersMissing(c) \/ UpdateTask(c)
             \/ CountOpenTasks(c) \/ LoadTask(c)
      PROVE  \/ task'[t].assignee \in told'[t] \cup {Nobody}
             \/ CreatorOwes(t)'
             \/ \E e \in Calls : CallOwes(e, t)'
  <2>1. \A e \in Calls : CallOwes(e, t) => CallOwes(e, t)'
    BY <1>8 DEF UsersMissing, UpdateTask, CountOpenTasks, LoadTask, CallOwes,
        TypeOK, Call
  <2>2. QED
    BY <1>2, <1>8, <2>1 DEF UsersMissing, UpdateTask, CountOpenTasks, LoadTask
<1>9. ASSUME NEW c \in Calls, CommitTask(c)
      PROVE  \/ task'[t].assignee \in told'[t] \cup {Nobody}
             \/ CreatorOwes(t)'
             \/ \E e \in Calls : CallOwes(e, t)'
  <2>1. CASE call[c].task = t
    <3>1. CallOwes(c, t)'
      BY <1>9, <2>1 DEF CommitTask, CallOwes, TypeOK, Call
    <3>2. QED
      BY <3>1
  <2>2. CASE call[c].task # t
    <3>1. task'[t] = task[t] /\ UNCHANGED <<told, creator>>
      BY <1>9, <2>2 DEF CommitTask, TypeOK
    <3>2. \A e \in Calls : CallOwes(e, t) => CallOwes(e, t)'
      BY <1>9, <2>2, <3>1 DEF CommitTask, CallOwes, TypeOK
    <3>3. QED
      BY <1>1, <3>1, <3>2 DEF CreatorOwes
  <2>3. QED
    BY <2>1, <2>2
<1>10. ASSUME NEW c \in Calls, PublishTask(c)
       PROVE  \/ task'[t].assignee \in told'[t] \cup {Nobody}
              \/ CreatorOwes(t)'
              \/ \E e \in Calls : CallOwes(e, t)'
  <2>1. /\ call[c].pc = "loaded" /\ UNCHANGED <<task, creator>>
        /\ \A e \in Calls \ {c} : call'[e] = call[e]
        /\ told[t] \subseteq told'[t]
        /\ call[c].task = t =>
             call[c].assignee \in told'[t] \cup {Nobody}
    BY <1>10 DEF PublishTask, TypeOK, Call
  <2>2. CASE CallOwes(c, t)
    BY <2>1, <2>2 DEF CallOwes
  <2>3. CASE ~CallOwes(c, t)
    <3>1. \A e \in Calls : CallOwes(e, t) => CallOwes(e, t)'
      BY <2>1, <2>3 DEF CallOwes
    <3>2. QED
      BY <1>1, <2>1, <3>1 DEF CreatorOwes
  <2>4. QED
    BY <2>2, <2>3
<1>11. QED
  BY <1>0, <1>3, <1>4, <1>5, <1>6, <1>7, <1>8, <1>9, <1>10
  DEF Next, Announce, Continue

\* When every handler has answered and none has died, each assignee has been
\* told.
THEOREM AssigneesAreTold == Spec => []AssigneeIsTold
<1>1. Init => ToldOrOwed
  BY DEF Init, ToldOrOwed
<1>2. ToldOrOwed => AssigneeIsTold
  BY DEF ToldOrOwed, AssigneeIsTold, Quiet, CreatorOwes, CallOwes
<1>3. QED
  BY <1>1, <1>2, StepToldOrOwed, TypeInvAlways, PTL DEF Spec
==============================================================================
