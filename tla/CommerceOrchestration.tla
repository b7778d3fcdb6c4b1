------------------------ MODULE CommerceOrchestration ------------------------
(***************************************************************************)
(* The triggers of one commerce agent in one organization                  *)
(* (modules/agents/commerce-agent-orchestration.service.ts) and the runs   *)
(* they have the agent runner make.                                        *)
(*                                                                         *)
(* processTrigger looks for a recent event with the same dedupe key, then  *)
(* for an active run of the agent, then inserts its event, and only then   *)
(* has the run made.  The timer that emits the scheduled triggers runs in  *)
(* every API process, next to the requests that emit the others, so two    *)
(* triggers can be between their reads and their insert at once.  Time is  *)
(* the age of the events, up to Horizon.  The insert of a skipped event,   *)
(* after which nothing is done, is one step with the read it rests on.     *)
(***************************************************************************)
EXTENDS Naturals, FiniteSets

CONSTANTS
  Triggers,        \* the triggers there will ever be; the event and the run
                   \* of a trigger have the trigger for their id
  Keys,            \* the dedupe keys of schedules, signals and follow-ups
  Cooldown,        \* the cooldown of each of them
  ManualCooldown,  \* and of a manual run, whose dedupe key is its own
  Horizon,         \* the age from which events are told apart no more
  Modes            \* how the service may be run: see mode

Steps == {"idle", "checking", "inserting", "starting", "observing",
          "reasoning", "closing", "failing", "done"}
\* The statements of the try block of processTrigger that may throw.
Trying == {"starting", "observing", "closing"}

ASSUME OrchestrationAssumption ==
  /\ Triggers # {} /\ IsFiniteSet(Triggers)
  /\ Keys # {} /\ Keys \cap Triggers = {}
  /\ Horizon \in Nat
  /\ Cooldown \in [Keys -> 0..Horizon - 1] /\ ManualCooldown \in 0..Horizon - 1
  /\ Modes \subseteq [width : Nat \ {0}, keys : SUBSET Keys,
                       crashes : BOOLEAN,
                       faults : SUBSET (Steps \ {"idle", "done"})]

VARIABLES
  events,    \* the AgentTriggerEvent rows, with their age
  runs,      \* the status of the AgentRun rows
  pc,        \* where each trigger is
  key,       \* the dedupe key of each trigger
  mode       \* chosen once: how many triggers are processed at a time, which
             \* keys there are beside manual runs, whether the processes may
             \* stop, and the pcs at which the next statement may throw

orchestrationVars == <<events, runs, pc, key, mode>>

EventStatus == {"PENDING", "PROCESSED", "SKIPPED", "FAILED"}
RunStatus == {"RUNNING", "SUCCEEDED", "FAILED", "WAITING_APPROVAL"}
Counted == {"PENDING", "PROCESSED", "SKIPPED"}
ActiveRun == {"RUNNING", "WAITING_APPROVAL"}

OrchestrationTypeOK ==
  /\ events \in [Triggers -> [status : EventStatus \cup {"NONE"},
                              age : 0..Horizon]]
  /\ runs \in [Triggers -> RunStatus \cup {"NONE"}]
  /\ pc \in [Triggers -> Steps]
  /\ key \in [Triggers -> Keys \cup Triggers]
  /\ mode \in Modes

OrchestrationInit ==
  /\ events = [c \in Triggers |-> [status |-> "NONE", age |-> 0]]
  /\ runs = [c \in Triggers |-> "NONE"]
  /\ pc = [c \in Triggers |-> "idle"]
  /\ key = [c \in Triggers |-> c]
  /\ mode \in Modes

Processing == {c \in Triggers : pc[c] \notin {"idle", "done"}}

CooldownOf(k) == IF k \in Triggers THEN ManualCooldown ELSE Cooldown[k]

\* Mutant: only events that were processed count.
ProcessedWithin(k) ==
  {e \in Triggers : events[e].status = "PROCESSED" /\ key[e] = k
                     /\ events[e].age <= CooldownOf(k)}

Recent(k) ==
  {e \in Triggers : events[e].status \in Counted /\ key[e] = k
                     /\ events[e].age <= CooldownOf(k)}

GoOn(c, step) == pc' = [pc EXCEPT ![c] = step]

\* Mutant: a status of another table.
InsertBlocked(c, status) ==
  events' = [events EXCEPT ![c] = [status |-> "COOLDOWN_BLOCKED", age |-> 0]]

Insert(c, status) ==
  events' = [events EXCEPT ![c] = [status |-> status, age |-> 0]]

\* A trigger arrives and looks for a recent one with its key.
Trigger(c, k) ==
  /\ pc[c] = "idle" /\ Cardinality(Processing) < mode.width
  /\ key' = [key EXCEPT ![c] = k]
  /\ IF Recent(k) # {} THEN GoOn(c, "done") /\ Insert(c, "SKIPPED")
     ELSE GoOn(c, "checking") /\ UNCHANGED events
  /\ UNCHANGED <<runs, mode>>

\* The dedupe key of a manual run ends with Date.now().
TriggerManually(c) == Trigger(c, c)

\* Mutant: active runs are not looked for.
CheckNothing(c) ==
  /\ pc[c] = "checking"
  /\ GoOn(c, "inserting")
  /\ UNCHANGED <<events, runs, key, mode>>

CheckActiveRun(c) ==
  /\ pc[c] = "checking"
  /\ IF \E r \in Triggers : runs[r] \in ActiveRun
     THEN GoOn(c, "done") /\ Insert(c, "SKIPPED")
     ELSE GoOn(c, "inserting") /\ UNCHANGED events
  /\ UNCHANGED <<runs, key, mode>>

InsertEvent(c) ==
  /\ pc[c] = "inserting"
  /\ Insert(c, "PENDING")
  /\ GoOn(c, "starting")
  /\ UNCHANGED <<runs, key, mode>>

\* The plan, the usage or the definition of the agent forbid the run.
RefuseRun(c) ==
  /\ pc[c] = "starting"
  /\ GoOn(c, "failing")
  /\ UNCHANGED <<events, runs, key, mode>>

StartRun(c) ==
  /\ pc[c] = "starting"
  /\ runs' = [runs EXCEPT ![c] = "RUNNING"]
  /\ GoOn(c, "observing")
  /\ UNCHANGED <<events, key, mode>>

\* recordRunStarted stands before the try block of the runner: when it
\* throws, the event fails and the run stays as it is.
ObserveRun(c) ==
  /\ pc[c] = "observing"
  /\ GoOn(c, "reasoning")
  /\ UNCHANGED <<events, runs, key, mode>>

FinishRun(c, status) ==
  /\ pc[c] = "reasoning"
  /\ runs' = [runs EXCEPT ![c] = status]
  /\ GoOn(c, IF status = "SUCCEEDED" THEN "closing" ELSE "failing")
  /\ UNCHANGED <<events, key, mode>>

CloseEvent(c) ==
  /\ pc[c] = "closing"
  /\ events' = [events EXCEPT ![c].status = "PROCESSED"]
  /\ GoOn(c, "done")
  /\ UNCHANGED <<runs, key, mode>>

\* Mutant: what went wrong is only returned.
ReturnFailure(c) ==
  /\ pc[c] = "failing"
  /\ GoOn(c, "done")
  /\ UNCHANGED <<events, runs, key, mode>>

FailEvent(c) ==
  /\ pc[c] = "failing"
  /\ events' = [events EXCEPT ![c].status = "FAILED"]
  /\ GoOn(c, "done")
  /\ UNCHANGED <<runs, key, mode>>

\* A statement throws: after the insert there is a catch block.
Fault(c) ==
  /\ pc[c] \in mode.faults
  /\ GoOn(c, IF pc[c] \in Trying THEN "failing" ELSE "done")
  /\ UNCHANGED <<events, runs, key, mode>>

\* The action engine parks an action of a finished run for approval.
ParkRun(r) ==
  /\ runs[r] = "SUCCEEDED"
  /\ runs' = [runs EXCEPT ![r] = "WAITING_APPROVAL"]
  /\ UNCHANGED <<events, pc, key, mode>>

Tick ==
  /\ events' = [c \in Triggers |->
       IF events[c].status # "NONE" /\ events[c].age < Horizon
       THEN [events[c] EXCEPT !.age = @ + 1] ELSE events[c]]
  /\ UNCHANGED <<runs, pc, key, mode>>

\* The processes stop; the rows stay as they are.
Crash ==
  /\ mode.crashes
  /\ Processing # {}
  /\ pc' = [c \in Triggers |-> IF c \in Processing THEN "done" ELSE pc[c]]
  /\ UNCHANGED <<events, runs, key, mode>>

Advance(c) ==
  \/ CheckActiveRun(c) \/ InsertEvent(c)
  \/ RefuseRun(c) \/ StartRun(c) \/ ObserveRun(c)
  \/ \E status \in {"SUCCEEDED", "FAILED"} : FinishRun(c, status)
  \/ CloseEvent(c) \/ FailEvent(c) \/ Fault(c)

OrchestrationNext ==
  \/ \E c \in Triggers : \/ \E k \in mode.keys : Trigger(c, k)
                         \/ TriggerManually(c)
                         \/ Advance(c) \/ ParkRun(c)
  \/ Tick \/ Crash

OrchestrationSpec ==
  OrchestrationInit /\ [][OrchestrationNext]_orchestrationVars

------------------------------------------------------------------------------
\* The triggers of one key that were accepted within its cooldown.
Accepted(k) ==
  {c \in Triggers : key[c] = k /\ events[c].status \in {"PENDING", "PROCESSED"}
                     /\ events[c].age <= CooldownOf(k)}

\* Within a cooldown no more triggers of a key are accepted than there are
\* triggers processed at a time: one, where they are processed one by one.
\* A skipped trigger or a crash never makes room for another.
CooldownIsKept == \A k \in Keys : Cardinality(Accepted(k)) <= mode.width

\* No more runs of the agent are RUNNING than triggers processed at a time,
\* also when runs were left RUNNING by a crash.
RunningIsBounded ==
  Cardinality({r \in Triggers : runs[r] = "RUNNING"}) <= mode.width

\* Without crashes, and with errors inside the try block only, no trigger
\* that is through leaves its event PENDING, which would block its key for
\* the length of the cooldown.
PendingIsClosed ==
  ~mode.crashes /\ mode.faults \subseteq Trying =>
    \A c \in Triggers : pc[c] = "done" => events[c].status # "PENDING"

==============================================================================
