--------------------- MODULE OrchestrationAndReviewProofs ---------------------
(***************************************************************************)
(* Theorems about two components that share nothing: CommerceOrchestration,*)
(* for any number of triggers, keys and triggers at a time, any cooldowns, *)
(* and crashes and faults anywhere; and ProposalReview with Insights, for  *)
(* any readings, requests, reviewers, conditions and bounds, whatever      *)
(* stops.                                                                  *)
(*                                                                         *)
(* The bounds of the first part count claims: what is there, with what a   *)
(* trigger past its check is about to add.  The second part starts at      *)
(* "Signals, recommendations, proposals".  It counts in the same way:      *)
(* active proposals with the requests that will make one, decisions        *)
(* learned with those owed, and, for every set of readings that are about  *)
(* to replace rows, the copies that none of them will take down with these *)
(* readings.                                                               *)
(***************************************************************************)
EXTENDS CommerceOrchestration, ProposalReview, FiniteSetTheorems,
        SequenceTheorems, WellFoundedInduction, TLAPS

(***************************************************************************)
(* Type correctness                                                        *)
(***************************************************************************)

\* No trigger has arrived yet, and the types hold.
LEMMA InitTypeOK == OrchestrationInit => OrchestrationTypeOK
  BY OrchestrationAssumption DEF OrchestrationInit, OrchestrationTypeOK, Steps

\* Inserting an event keeps the types of the events.
LEMMA InsertType ==
  ASSUME OrchestrationTypeOK, NEW c \in Triggers, NEW status \in EventStatus,
         Insert(c, status)
  PROVE  events' \in [Triggers -> [status : EventStatus \cup {"NONE"},
                                age : 0..Horizon]]
<1>1. [status |-> status, age |-> 0]
        \in [status : EventStatus \cup {"NONE"}, age : 0..Horizon]
  BY OrchestrationAssumption
<1>2. QED
  BY <1>1 DEF Insert, OrchestrationTypeOK

\* Every step of the specification preserves the types.
LEMMA StepTypeOK ==
  OrchestrationTypeOK /\ [OrchestrationNext]_orchestrationVars
    => OrchestrationTypeOK'
<1> SUFFICES ASSUME OrchestrationTypeOK, [OrchestrationNext]_orchestrationVars
             PROVE OrchestrationTypeOK'
  OBVIOUS
<1>1. CASE UNCHANGED orchestrationVars
  BY <1>1 DEF orchestrationVars, OrchestrationTypeOK
<1>2. ASSUME NEW c \in Triggers, NEW k \in Keys \cup Triggers, Trigger(c, k)
      PROVE  OrchestrationTypeOK'
  <2>1. CASE Recent(k) # {}
    BY <1>2, <2>1, InsertType
    DEF Trigger, GoOn, OrchestrationTypeOK, Steps, EventStatus
  <2>2. CASE Recent(k) = {}
    BY <1>2, <2>2 DEF Trigger, GoOn, OrchestrationTypeOK, Steps
  <2>3. QED
    BY <2>1, <2>2
<1>3. ASSUME NEW c \in Triggers, Advance(c)
      PROVE  OrchestrationTypeOK'
  <2>1. CASE CheckActiveRun(c)
    BY <2>1, InsertType
      DEF CheckActiveRun, GoOn, OrchestrationTypeOK, Steps, EventStatus
  <2>2. CASE InsertEvent(c)
    BY <2>2, InsertType
      DEF InsertEvent, GoOn, OrchestrationTypeOK, Steps, EventStatus
  <2>3. CASE RefuseRun(c)
    BY <2>3 DEF RefuseRun, GoOn, OrchestrationTypeOK, Steps
  <2>4. CASE StartRun(c)
    BY <2>4 DEF StartRun, GoOn, OrchestrationTypeOK, Steps, RunStatus
  <2>5. CASE ObserveRun(c)
    BY <2>5 DEF ObserveRun, GoOn, OrchestrationTypeOK, Steps
  <2>6. ASSUME NEW status \in {"SUCCEEDED", "FAILED"}, FinishRun(c, status)
        PROVE  OrchestrationTypeOK'
    BY <2>6 DEF FinishRun, GoOn, OrchestrationTypeOK, Steps, RunStatus
  <2>7. CASE CloseEvent(c)
    BY <2>7 DEF CloseEvent, GoOn, OrchestrationTypeOK, Steps, EventStatus
  <2>8. CASE FailEvent(c)
    BY <2>8 DEF FailEvent, GoOn, OrchestrationTypeOK, Steps, EventStatus
  <2>9. CASE Fault(c)
    BY <2>9 DEF Fault, GoOn, OrchestrationTypeOK, Steps
  <2>10. QED
    BY <1>3, <2>1, <2>2, <2>3, <2>4, <2>5, <2>6, <2>7, <2>8, <2>9 DEF Advance
<1>4. ASSUME NEW c \in Triggers, ParkRun(c)
      PROVE  OrchestrationTypeOK'
  BY <1>4 DEF ParkRun, OrchestrationTypeOK, RunStatus
<1>5. CASE Tick
  <2>1. ASSUME NEW c \in Triggers
        PROVE  events'[c] \in [status : EventStatus \cup {"NONE"},
                               age : 0..Horizon]
    BY <1>5, OrchestrationAssumption DEF Tick, OrchestrationTypeOK
  <2>2. events' \in [Triggers -> [status : EventStatus \cup {"NONE"},
                               age : 0..Horizon]]
    BY <1>5, <2>1 DEF Tick
  <2>3. QED
    BY <1>5, <2>2 DEF Tick, OrchestrationTypeOK
<1>6. CASE Crash
  BY <1>6 DEF Crash, Processing, OrchestrationTypeOK, Steps
<1>7. \A k \in mode.keys : k \in Keys
  BY OrchestrationAssumption DEF OrchestrationTypeOK
<1>8. QED
  BY <1>1, <1>2, <1>3, <1>4, <1>5, <1>6, <1>7
    DEF OrchestrationNext, TriggerManually

\* The rows and the local states of the triggers always have their types.
THEOREM TypeCorrect == OrchestrationSpec => []OrchestrationTypeOK
  BY InitTypeOK, StepTypeOK, PTL DEF OrchestrationSpec

(***************************************************************************)
(* What each trigger does to the rows, and how many are under way          *)
(***************************************************************************)

\* Width is a number, and what triggers there are is finite.
LEMMA Finite ==
  ASSUME OrchestrationTypeOK, NEW S \in SUBSET Triggers
  PROVE  /\ mode.width \in Nat \ {0}
         /\ IsFiniteSet(S) /\ Cardinality(S) \in Nat
<1>1. IsFiniteSet(S)
  BY OrchestrationAssumption, FS_Subset
<1>2. Cardinality(S) \in Nat
  BY <1>1, FS_CardinalityType
<1>3. QED
  BY <1>1, <1>2, OrchestrationAssumption DEF OrchestrationTypeOK

\* Part of a bounded set of triggers is bounded.
LEMMA Smaller ==
  ASSUME OrchestrationTypeOK, NEW S \in SUBSET Triggers, NEW T \in SUBSET S,
         Cardinality(S) <= mode.width
  PROVE  Cardinality(T) <= mode.width
<1>1. IsFiniteSet(S)
  BY Finite
<1>2. Cardinality(T) <= Cardinality(S)
  BY <1>1, FS_Subset
<1>3. T \in SUBSET Triggers
  OBVIOUS
<1>4. Cardinality(S) \in Nat /\ Cardinality(T) \in Nat /\ mode.width \in Nat
  BY <1>3, Finite
<1>5. QED
  BY <1>2, <1>4

\* No more triggers are processed than there may be.
WidthIsKept == Cardinality(Processing) <= mode.width

\* What keeps the mode and lets no trigger in keeps the width.
LEMMA NobodyEnters ==
  ASSUME OrchestrationTypeOK, WidthIsKept, mode' = mode,
         Processing' \subseteq Processing
  PROVE  WidthIsKept'
  BY Smaller DEF WidthIsKept, Processing

\* Every step keeps the triggers being processed within the width.
LEMMA StepWidth ==
  OrchestrationTypeOK /\ WidthIsKept /\ [OrchestrationNext]_orchestrationVars
    => WidthIsKept'
<1> SUFFICES ASSUME OrchestrationTypeOK, WidthIsKept,
                    [OrchestrationNext]_orchestrationVars
             PROVE WidthIsKept'
  OBVIOUS
<1>1. ASSUME NEW c \in Triggers, NEW k, Trigger(c, k)
      PROVE  WidthIsKept'
  <2>1. Processing' \subseteq Processing \cup {c}
    BY <1>1 DEF Trigger, GoOn, Processing, OrchestrationTypeOK
  <2>2. Cardinality(Processing) < mode.width /\ mode' = mode
    BY <1>1 DEF Trigger
  <2>3. IsFiniteSet(Processing) /\ Cardinality(Processing) \in Nat
        /\ mode.width \in Nat
    BY Finite DEF Processing
  <2>4. Cardinality(Processing \cup {c}) = IF c \in Processing
                                         THEN Cardinality(Processing)
                                         ELSE Cardinality(Processing) + 1
    BY <2>3, FS_AddElement
  <2>5. Cardinality(Processing) + 1 <= mode.width
    BY <2>2, <2>3
  <2>6. Cardinality(Processing \cup {c}) <= mode.width
    BY <2>2, <2>3, <2>4, <2>5
  <2>7. Processing \cup {c} \in SUBSET Triggers
    BY DEF Processing
  <2>8. Cardinality(Processing') <= mode.width
    BY <2>1, <2>6, <2>7, Smaller
  <2>9. QED
    BY <2>2, <2>8 DEF WidthIsKept
<1>2. ASSUME NEW c \in Triggers, Advance(c)
      PROVE  WidthIsKept'
  <2>1. pc[c] \notin {"idle", "done"}
    BY <1>2, OrchestrationAssumption
    DEF Advance, CheckActiveRun, InsertEvent, RefuseRun, StartRun, ObserveRun,
        FinishRun, CloseEvent, FailEvent, Fault, OrchestrationTypeOK
  <2>2. /\ mode' = mode
        /\ \A e \in Triggers \ {c} : pc'[e] = pc[e]
    BY <1>2
    DEF Advance, CheckActiveRun, InsertEvent, RefuseRun, StartRun, ObserveRun,
        FinishRun, CloseEvent, FailEvent, Fault, GoOn, OrchestrationTypeOK
  <2>3. Processing' \subseteq Processing
    BY <2>1, <2>2 DEF Processing
  <2>4. QED
    BY <2>2, <2>3, NobodyEnters
<1>3. CASE \/ \E c \in Triggers : ParkRun(c)
           \/ Tick
           \/ Crash
           \/ UNCHANGED orchestrationVars
  <2>1. Processing' \subseteq Processing /\ mode' = mode
    BY <1>3 DEF ParkRun, Tick, Crash, orchestrationVars, Processing
  <2>2. QED
    BY <2>1, NobodyEnters
<1>4. QED
  BY <1>1, <1>2, <1>3 DEF OrchestrationNext, TriggerManually


\* At the beginning no trigger is being processed.
LEMMA InitWidth == OrchestrationInit => WidthIsKept
<1> SUFFICES ASSUME OrchestrationInit PROVE WidthIsKept
  OBVIOUS
<1>1. Processing = {}
  BY DEF OrchestrationInit, Processing
<1>2. mode.width \in Nat
  BY OrchestrationAssumption DEF OrchestrationInit
<1>3. QED
  BY <1>1, <1>2, FS_EmptySet DEF WidthIsKept

\* The types and the width always hold.
LEMMA TypeAndWidth ==
  OrchestrationSpec => [](OrchestrationTypeOK /\ WidthIsKept)
  BY InitTypeOK, StepTypeOK, InitWidth, StepWidth, PTL DEF OrchestrationSpec

(***************************************************************************)
(* RunningIsBounded.  A trigger that has found no active run is about to   *)
(* make one, and others may have found none as well: they are counted with *)
(* the runs there are.  When a trigger joins them there is no run, and     *)
(* they are all being processed.                                           *)
(***************************************************************************)

RunningRuns == {r \in Triggers : runs[r] = "RUNNING"}
AboutToRun == {c \in Triggers : pc[c] \in {"inserting", "starting"}}
RunsClaimed == RunningRuns \cup AboutToRun

ClaimsAreBounded == Cardinality(RunsClaimed) <= mode.width

\* A run is claimed only by a trigger that is being processed.
LEMMA StepClaims ==
  OrchestrationTypeOK /\ WidthIsKept /\ ClaimsAreBounded
    /\ [OrchestrationNext]_orchestrationVars
    => ClaimsAreBounded'
<1> SUFFICES ASSUME OrchestrationTypeOK, WidthIsKept,
                    ClaimsAreBounded, [OrchestrationNext]_orchestrationVars
             PROVE  ClaimsAreBounded'
  OBVIOUS
<1>0. mode' = mode
  BY DEF OrchestrationNext, Trigger, TriggerManually, Advance, CheckActiveRun,
       InsertEvent,
      RefuseRun, StartRun, ObserveRun, FinishRun, CloseEvent, FailEvent, Fault,
      ParkRun, Tick, Crash, orchestrationVars
<1>1. ASSUME RunsClaimed' \subseteq RunsClaimed
      PROVE  ClaimsAreBounded'
  BY <1>0, <1>1, Smaller
  DEF ClaimsAreBounded, RunsClaimed, RunningRuns, AboutToRun
<1>2. ASSUME NEW c \in Triggers, CheckActiveRun(c)
      PROVE  ClaimsAreBounded'
  <2>1. CASE \E r \in Triggers : runs[r] \in ActiveRun
    <3>1. RunsClaimed' \subseteq RunsClaimed
      BY <1>2, <2>1
      DEF CheckActiveRun, GoOn, RunsClaimed, RunningRuns, AboutToRun,
           OrchestrationTypeOK
    <3>2. QED
      BY <1>1, <3>1
  <2>2. CASE \A r \in Triggers : runs[r] \notin ActiveRun
    <3>1. RunningRuns' = {}
      BY <1>2, <2>2 DEF CheckActiveRun, RunningRuns, ActiveRun
    <3>2. AboutToRun' \subseteq Processing
      BY <1>2, <2>2
        DEF CheckActiveRun, GoOn, AboutToRun, Processing, OrchestrationTypeOK
    <3>3. RunsClaimed' \subseteq Processing /\ Processing \in SUBSET Triggers
      BY <3>1, <3>2 DEF RunsClaimed, Processing
    <3>4. Cardinality(RunsClaimed') <= mode.width
      BY <3>3, Smaller DEF WidthIsKept
    <3>5. QED
      BY <1>0, <3>4 DEF ClaimsAreBounded
  <2>3. QED
    BY <2>1, <2>2
<1>3. ASSUME NEW c \in Triggers, NEW k, Trigger(c, k)
      PROVE  RunsClaimed' \subseteq RunsClaimed
  BY <1>3 DEF Trigger, GoOn, RunsClaimed, RunningRuns, AboutToRun,
       OrchestrationTypeOK
<1>4. ASSUME NEW c \in Triggers, InsertEvent(c) \/ RefuseRun(c) \/ StartRun(c)
      PROVE  RunsClaimed' \subseteq RunsClaimed
  BY <1>4 DEF InsertEvent, RefuseRun, StartRun, GoOn, RunsClaimed, RunningRuns,
      AboutToRun, OrchestrationTypeOK
<1>5. ASSUME NEW c \in Triggers, ObserveRun(c) \/ CloseEvent(c) \/ FailEvent(c)
      PROVE  RunsClaimed' \subseteq RunsClaimed
  BY <1>5 DEF ObserveRun, CloseEvent, FailEvent, GoOn, RunsClaimed, RunningRuns,
      AboutToRun, OrchestrationTypeOK
<1>6. ASSUME NEW c \in Triggers, NEW status \in {"SUCCEEDED", "FAILED"},
             FinishRun(c, status)
      PROVE  RunsClaimed' \subseteq RunsClaimed
  BY <1>6 DEF FinishRun, GoOn, RunsClaimed, RunningRuns, AboutToRun,
       OrchestrationTypeOK
<1>7. ASSUME NEW c \in Triggers, Fault(c) \/ ParkRun(c)
      PROVE  RunsClaimed' \subseteq RunsClaimed
  BY <1>7 DEF Fault, ParkRun, GoOn, RunsClaimed, RunningRuns, AboutToRun,
       OrchestrationTypeOK
<1>8. CASE Tick \/ Crash \/ UNCHANGED orchestrationVars
  <2>1. RunsClaimed' \subseteq RunsClaimed
    BY <1>8 DEF Tick, Crash, orchestrationVars, RunsClaimed, RunningRuns,
         AboutToRun, OrchestrationTypeOK
  <2>2. QED
    BY <1>1, <2>1
<1>9. QED
  BY <1>1, <1>2, <1>3, <1>4, <1>5, <1>6, <1>7, <1>8
  DEF OrchestrationNext, TriggerManually, Advance

\* The runs RUNNING are never more than the triggers processed at a time, even
\* if runs are left behind by crashes and errors.
THEOREM RunsAreBounded == OrchestrationSpec => []RunningIsBounded
<1>1. OrchestrationInit => ClaimsAreBounded
  <2> SUFFICES ASSUME OrchestrationInit PROVE ClaimsAreBounded
    OBVIOUS
  <2>1. RunsClaimed = {}
    BY DEF OrchestrationInit, RunsClaimed, RunningRuns, AboutToRun
  <2>2. mode.width \in Nat
    BY OrchestrationAssumption DEF OrchestrationInit
  <2>3. QED
    BY <2>1, <2>2, FS_EmptySet DEF ClaimsAreBounded
<1>2. OrchestrationTypeOK /\ ClaimsAreBounded => RunningIsBounded
  <2> SUFFICES ASSUME OrchestrationTypeOK, ClaimsAreBounded
               PROVE RunningIsBounded
    OBVIOUS
  <2>1. RunsClaimed \in SUBSET Triggers /\ RunningRuns \in SUBSET RunsClaimed
    BY DEF RunsClaimed, RunningRuns, AboutToRun
  <2>2. Cardinality(RunningRuns) <= mode.width
    BY <2>1, Smaller DEF ClaimsAreBounded
  <2>3. QED
    BY <2>2 DEF RunningIsBounded, RunningRuns
<1>3. QED
  BY <1>1, <1>2, StepClaims, TypeAndWidth, PTL DEF OrchestrationSpec

(***************************************************************************)
(* The event of a trigger is PENDING from its insert until it is closed.   *)
(***************************************************************************)

EventsFit ==
  \A c \in Triggers :
    /\ pc[c] \in {"idle", "checking", "inserting"} => events[c].status = "NONE"
    /\ pc[c] \in {"starting", "observing", "reasoning", "closing", "failing"}
         => events[c].status = "PENDING"

\* Every step keeps each event as the local state of its trigger says.
LEMMA StepEventsFit ==
  OrchestrationTypeOK /\ EventsFit /\ [OrchestrationNext]_orchestrationVars
    => EventsFit'
<1> SUFFICES ASSUME OrchestrationTypeOK, EventsFit,
                    [OrchestrationNext]_orchestrationVars
             PROVE EventsFit'
  OBVIOUS
<1>1. ASSUME NEW c \in Triggers, NEW k, Trigger(c, k)
      PROVE  EventsFit'
  <2>1. /\ \A e \in Triggers \ {c} : pc'[e] = pc[e] /\ events'[e] = events[e]
        /\ \/ pc'[c] = "done"
           \/ pc'[c] = "checking" /\ events'[c] = events[c] /\ pc[c] = "idle"
    BY <1>1 DEF Trigger, GoOn, Insert, OrchestrationTypeOK
  <2>2. QED
    BY <2>1 DEF EventsFit
<1>2. ASSUME NEW c \in Triggers, Advance(c)
      PROVE  EventsFit'
  <2>1. CASE CheckActiveRun(c)
    <3>1. /\ \A e \in Triggers \ {c} : pc'[e] = pc[e] /\ events'[e] = events[e]
          /\ \/ pc'[c] = "done"
             \/ /\ pc'[c] = "inserting" /\ events'[c] = events[c]
                /\ pc[c] = "checking"
      BY <2>1 DEF CheckActiveRun, GoOn, Insert, OrchestrationTypeOK
    <3>2. QED
      BY <3>1 DEF EventsFit
  <2>2. CASE InsertEvent(c)
    <3>1. /\ \A e \in Triggers \ {c} : pc'[e] = pc[e] /\ events'[e] = events[e]
          /\ pc'[c] = "starting" /\ events'[c].status = "PENDING"
      BY <2>2 DEF InsertEvent, GoOn, Insert, OrchestrationTypeOK
    <3>2. QED
      BY <3>1 DEF EventsFit
  <2>3. CASE CloseEvent(c) \/ FailEvent(c)
    <3>1. /\ \A e \in Triggers \ {c} : pc'[e] = pc[e] /\ events'[e] = events[e]
          /\ pc'[c] = "done"
      BY <2>3 DEF CloseEvent, FailEvent, GoOn, OrchestrationTypeOK
    <3>2. QED
      BY <3>1 DEF EventsFit
  <2>4. CASE Fault(c)
    <3>1. /\ \A e \in Triggers \ {c} : pc'[e] = pc[e]
          /\ events' = events
          /\ \/ pc'[c] = "done"
             \/ pc'[c] = "failing" /\ pc[c] \in Trying
      BY <2>4 DEF Fault, GoOn, OrchestrationTypeOK
    <3>2. QED
      BY <3>1 DEF EventsFit, Trying
  <2>5. ASSUME \/ RefuseRun(c) \/ StartRun(c) \/ ObserveRun(c)
               \/ \E status \in {"SUCCEEDED", "FAILED"} : FinishRun(c, status)
        PROVE  EventsFit'
    <3>1. /\ \A e \in Triggers \ {c} : pc'[e] = pc[e]
          /\ events' = events
          /\ pc[c] \in {"starting", "observing", "reasoning"}
          /\ pc'[c] \in {"observing", "reasoning", "closing", "failing"}
      BY <2>5 DEF RefuseRun, StartRun, ObserveRun, FinishRun, GoOn,
           OrchestrationTypeOK
    <3>2. QED
      BY <3>1 DEF EventsFit
  <2>6. QED
    BY <1>2, <2>1, <2>2, <2>3, <2>4, <2>5 DEF Advance
<1>3. CASE (\E c \in Triggers : ParkRun(c)) \/ UNCHANGED orchestrationVars
  BY <1>3 DEF ParkRun, orchestrationVars, EventsFit
<1>4. CASE Tick
  <2>1. \A c \in Triggers : events'[c].status = events[c].status
    BY <1>4 DEF Tick, OrchestrationTypeOK
  <2>2. QED
    BY <1>4, <2>1 DEF Tick, EventsFit
<1>5. CASE Crash
  BY <1>5 DEF Crash, Processing, EventsFit
<1>6. QED
  BY <1>1, <1>2, <1>3, <1>4, <1>5 DEF OrchestrationNext, TriggerManually

\* The events always are as the local states say.
LEMMA EventsFitAlways == OrchestrationSpec => []EventsFit
<1>1. OrchestrationInit => EventsFit
  BY DEF OrchestrationInit, EventsFit
<1>2. QED
  BY <1>1, StepEventsFit, TypeAndWidth, PTL DEF OrchestrationSpec

(***************************************************************************)
(* CooldownIsKept, in the same way: the accepted events of a key together  *)
(* with the triggers that have found none.                                 *)
(***************************************************************************)

Accepting(k) ==
  {c \in Triggers : key[c] = k /\ pc[c] \in {"checking", "inserting"}}
KeyClaimed(k) == Accepted(k) \cup Accepting(k)

KeysAreBounded == \A k \in Keys : Cardinality(KeyClaimed(k)) <= mode.width

\* A trigger that goes on has found its key free.
LEMMA TriggerClaims ==
  ASSUME OrchestrationTypeOK, WidthIsKept, EventsFit, KeysAreBounded,
         [OrchestrationNext]_orchestrationVars,
         NEW c \in Triggers, NEW k \in Keys \cup Triggers, Trigger(c, k),
         NEW l \in Keys
  PROVE  Cardinality(KeyClaimed(l)') <= mode.width
<1>1. /\ pc[c] = "idle" /\ events[c].status = "NONE"
      /\ \A e \in Triggers \ {c} : /\ pc'[e] = pc[e] /\ key'[e] = key[e]
                                 /\ events'[e] = events[e]
      /\ key'[c] = k
  BY DEF Trigger, GoOn, Insert, OrchestrationTypeOK, EventsFit
<1>2. events'[c].status \notin {"PENDING", "PROCESSED"}
  BY <1>1 DEF Trigger, Insert, OrchestrationTypeOK
<1>3. Accepted(l)' \subseteq Accepted(l)
  BY <1>1, <1>2 DEF Accepted
<1>4. CASE k = l /\ Recent(k) = {}
  <2>1. Accepted(l) = {}
    BY <1>4 DEF Accepted, Recent, Counted
  <2>2. KeyClaimed(l)' \subseteq Processing' /\ Processing' \in SUBSET Triggers
    BY <1>3, <2>1 DEF KeyClaimed, Accepting, Processing
  <2>3. mode' = mode /\ Cardinality(Processing') <= mode'.width
    BY StepWidth DEF Trigger, WidthIsKept
  <2>4. QED
    BY <2>2, <2>3, Smaller
<1>5. CASE ~(k = l /\ Recent(k) = {})
  <2>1. Accepting(l)' \subseteq Accepting(l)
    BY <1>1, <1>5 DEF Accepting, Trigger, GoOn, OrchestrationTypeOK
  <2>2. KeyClaimed(l)' \subseteq KeyClaimed(l)
    BY <1>3, <2>1 DEF KeyClaimed
  <2>3. KeyClaimed(l) \in SUBSET Triggers
    BY DEF KeyClaimed, Accepted, Accepting
  <2>4. Cardinality(KeyClaimed(l)) <= mode.width
    BY DEF KeysAreBounded
  <2>5. QED
    BY <2>2, <2>3, <2>4, Smaller
<1>6. QED
  BY <1>4, <1>5

\* Every step keeps the bound on what each key has had accepted.
LEMMA StepKeys ==
  OrchestrationTypeOK /\ WidthIsKept /\ EventsFit /\ KeysAreBounded
    /\ [OrchestrationNext]_orchestrationVars
    => KeysAreBounded'
<1> SUFFICES ASSUME OrchestrationTypeOK, WidthIsKept, EventsFit,
                    KeysAreBounded, [OrchestrationNext]_orchestrationVars,
                    NEW l \in Keys
             PROVE  Cardinality(KeyClaimed(l)') <= mode'.width
  BY DEF KeysAreBounded
<1>0. mode' = mode
  BY DEF OrchestrationNext, Trigger, TriggerManually, Advance, CheckActiveRun,
       InsertEvent,
      RefuseRun, StartRun, ObserveRun, FinishRun, CloseEvent, FailEvent, Fault,
      ParkRun, Tick, Crash, orchestrationVars
<1>1. ASSUME KeyClaimed(l)' \subseteq KeyClaimed(l)
      PROVE  Cardinality(KeyClaimed(l)') <= mode'.width
  <2>1. KeyClaimed(l) \in SUBSET Triggers
    BY DEF KeyClaimed, Accepted, Accepting
  <2>2. QED
    BY <1>0, <1>1, <2>1, Smaller DEF KeysAreBounded
<1>2. ASSUME NEW c \in Triggers, NEW k \in Keys \cup Triggers, Trigger(c, k)
      PROVE  Cardinality(KeyClaimed(l)') <= mode'.width
  BY <1>0, <1>2, TriggerClaims
<1>3. ASSUME NEW c \in Triggers, Advance(c)
      PROVE  KeyClaimed(l)' \subseteq KeyClaimed(l)
  <2>1. CASE CheckActiveRun(c)
    <3>1. /\ key' = key
          /\ \A e \in Triggers \ {c} : pc'[e] = pc[e] /\ events'[e] = events[e]
          /\ pc[c] = "checking"
          /\ events'[c] = events[c] \/ events'[c].status = "SKIPPED"
      BY <2>1 DEF CheckActiveRun, GoOn, Insert, OrchestrationTypeOK
    <3>2. Accepted(l)' \subseteq Accepted(l)
      BY <3>1 DEF Accepted
    <3>3. Accepting(l)' \subseteq Accepting(l)
      BY <3>1 DEF Accepting
    <3>4. QED
      BY <3>2, <3>3 DEF KeyClaimed
  <2>2. CASE InsertEvent(c)
    BY <2>2
    DEF InsertEvent, GoOn, Insert, KeyClaimed, Accepted, Accepting,
         OrchestrationTypeOK
  <2>3. CASE CloseEvent(c)
    <3>1. /\ UNCHANGED key
          /\ \A e \in Triggers \ {c} : pc'[e] = pc[e] /\ events'[e] = events[e]
          /\ events[c].status = "PENDING" /\ events'[c].age = events[c].age
          /\ pc'[c] = "done"
      BY <2>3 DEF CloseEvent, GoOn, OrchestrationTypeOK, EventsFit
    <3>2. QED
      BY <3>1 DEF KeyClaimed, Accepted, Accepting
  <2>4. CASE FailEvent(c)
    <3>1. /\ UNCHANGED key
          /\ \A e \in Triggers \ {c} : pc'[e] = pc[e] /\ events'[e] = events[e]
          /\ events'[c].status = "FAILED" /\ pc'[c] = "done"
      BY <2>4 DEF FailEvent, GoOn, OrchestrationTypeOK
    <3>2. QED
      BY <3>1 DEF KeyClaimed, Accepted, Accepting
  <2>5. ASSUME \/ RefuseRun(c) \/ StartRun(c) \/ ObserveRun(c) \/ Fault(c)
               \/ \E status \in {"SUCCEEDED", "FAILED"} : FinishRun(c, status)
        PROVE  KeyClaimed(l)' \subseteq KeyClaimed(l)
    <3>1. /\ UNCHANGED <<key, events>>
          /\ \A e \in Triggers \ {c} : pc'[e] = pc[e]
          /\ pc'[c] \in {"observing", "reasoning", "closing", "failing", "done"}
      BY <2>5
      DEF RefuseRun, StartRun, ObserveRun, FinishRun, Fault, GoOn,
           OrchestrationTypeOK
    <3>2. QED
      BY <3>1 DEF KeyClaimed, Accepted, Accepting
  <2>6. QED
    BY <1>3, <2>1, <2>2, <2>3, <2>4, <2>5 DEF Advance
<1>4. CASE (\E c \in Triggers : ParkRun(c)) \/ UNCHANGED orchestrationVars
  <2>1. KeyClaimed(l)' \subseteq KeyClaimed(l)
    BY <1>4 DEF ParkRun, orchestrationVars, KeyClaimed, Accepted, Accepting
  <2>2. QED
    BY <1>1, <2>1
<1>5. CASE Tick
  <2>1. \A c \in Triggers :
          /\ events'[c].status = events[c].status
          /\ events[c].age \in Nat
          /\ events'[c].age \in {events[c].age, events[c].age + 1}
    BY <1>5 DEF Tick, OrchestrationTypeOK
  <2>2. CooldownOf(l) \in Nat
    BY OrchestrationAssumption DEF CooldownOf
  <2>3. Accepted(l)' \subseteq Accepted(l)
    BY <1>5, <2>1, <2>2 DEF Accepted, Tick
  <2>4. Accepting(l)' = Accepting(l)
    BY <1>5 DEF Tick, Accepting
  <2>5. QED
    BY <1>1, <2>3, <2>4 DEF KeyClaimed
<1>6. CASE Crash
  <2>1. KeyClaimed(l)' \subseteq KeyClaimed(l)
    BY <1>6 DEF Crash, Processing, KeyClaimed, Accepted, Accepting,
         OrchestrationTypeOK
  <2>2. QED
    BY <1>1, <2>1
<1>7. \A k \in mode.keys : k \in Keys
  BY OrchestrationAssumption DEF OrchestrationTypeOK
<1>8. QED
  BY <1>1, <1>2, <1>3, <1>4, <1>5, <1>6, <1>7
    DEF OrchestrationNext, TriggerManually

\* Within the cooldown of a key no more triggers are accepted than there are
\* processed at a time, whatever is skipped, throws or crashes.
THEOREM CooldownsAreKept == OrchestrationSpec => []CooldownIsKept
<1>1. OrchestrationInit => KeysAreBounded
  <2> SUFFICES ASSUME OrchestrationInit, NEW k \in Keys
               PROVE  Cardinality(KeyClaimed(k)) <= mode.width
    BY DEF KeysAreBounded
  <2>1. KeyClaimed(k) = {}
    BY DEF OrchestrationInit, KeyClaimed, Accepted, Accepting
  <2>2. mode.width \in Nat
    BY OrchestrationAssumption DEF OrchestrationInit
  <2>3. QED
    BY <2>1, <2>2, FS_EmptySet
<1>2. OrchestrationTypeOK /\ KeysAreBounded => CooldownIsKept
  <2> SUFFICES ASSUME OrchestrationTypeOK, KeysAreBounded, NEW k \in Keys
               PROVE  Cardinality(Accepted(k)) <= mode.width
    BY DEF CooldownIsKept
  <2>1. /\ KeyClaimed(k) \in SUBSET Triggers
        /\ Accepted(k) \in SUBSET KeyClaimed(k)
    BY DEF KeyClaimed, Accepted, Accepting
  <2>2. QED
    BY <2>1, Smaller DEF KeysAreBounded
<1>3. QED
  BY <1>1, <1>2, StepKeys, TypeAndWidth, EventsFitAlways,
    PTL DEF OrchestrationSpec

(***************************************************************************)
(* PendingIsClosed                                                         *)
(***************************************************************************)

\* Where nothing crashes and errors stay inside the try block, no trigger that
\* is through has left its event PENDING.
THEOREM PendingEnds == OrchestrationSpec => []PendingIsClosed
<1>1. OrchestrationInit => PendingIsClosed
  BY DEF OrchestrationInit, PendingIsClosed
<1>2. OrchestrationTypeOK /\ EventsFit /\ PendingIsClosed
        /\ [OrchestrationNext]_orchestrationVars
      => PendingIsClosed'
  <2> SUFFICES ASSUME OrchestrationTypeOK, EventsFit, PendingIsClosed,
                      [OrchestrationNext]_orchestrationVars,
                      ~mode'.crashes, mode'.faults \subseteq Trying,
                      NEW d \in Triggers, pc'[d] = "done"
               PROVE  events'[d].status # "PENDING"
    BY DEF PendingIsClosed
  <2>0. /\ mode' = mode
        /\ pc[d] = "done" => events[d].status # "PENDING"
    BY DEF OrchestrationNext, Trigger, TriggerManually, Advance, CheckActiveRun,
        InsertEvent, RefuseRun, StartRun, ObserveRun, FinishRun, CloseEvent,
        FailEvent, Fault, ParkRun, Tick, Crash, orchestrationVars,
        PendingIsClosed
  <2>1. ASSUME NEW c \in Triggers, NEW k, Trigger(c, k)
        PROVE  events'[d].status # "PENDING"
    BY <2>0, <2>1 DEF Trigger, GoOn, Insert, OrchestrationTypeOK
  <2>2. ASSUME NEW c \in Triggers, Advance(c)
        PROVE  events'[d].status # "PENDING"
    <3>1. CASE CheckActiveRun(c)
      BY <2>0, <3>1 DEF CheckActiveRun, GoOn, Insert, OrchestrationTypeOK
    <3>2. CASE InsertEvent(c)
      BY <2>0, <3>2 DEF InsertEvent, GoOn, Insert, OrchestrationTypeOK
    <3>3. CASE CloseEvent(c) \/ FailEvent(c)
      BY <2>0, <3>3 DEF CloseEvent, FailEvent, GoOn, OrchestrationTypeOK
    <3>4. CASE Fault(c)
      <4>1. pc[c] \in Trying
        BY <2>0, <3>4 DEF Fault
      <4>2. QED
        BY <2>0, <3>4, <4>1 DEF Fault, GoOn, OrchestrationTypeOK
    <3>5. ASSUME \/ RefuseRun(c) \/ StartRun(c) \/ ObserveRun(c)
                 \/ \E status \in {"SUCCEEDED", "FAILED"} : FinishRun(c, status)
          PROVE  events'[d].status # "PENDING"
      BY <2>0, <3>5
      DEF RefuseRun, StartRun, ObserveRun, FinishRun, GoOn, OrchestrationTypeOK
    <3>6. QED
      BY <2>2, <3>1, <3>2, <3>3, <3>4, <3>5 DEF Advance
  <2>3. CASE (\E c \in Triggers : ParkRun(c)) \/ UNCHANGED orchestrationVars
    BY <2>0, <2>3 DEF ParkRun, orchestrationVars
  <2>4. CASE Tick
    <3>1. events'[d].status = events[d].status /\ pc' = pc
      BY <2>4 DEF Tick, OrchestrationTypeOK
    <3>2. QED
      BY <2>0, <3>1
  <2>5. CASE Crash
    BY <2>0, <2>5 DEF Crash
  <2>6. QED
    BY <2>1, <2>2, <2>3, <2>4, <2>5 DEF OrchestrationNext, TriggerManually
<1>3. QED
  BY <1>1, <1>2, TypeAndWidth, EventsFitAlways, PTL DEF OrchestrationSpec

(***************************************************************************)
(* Signals, recommendations, proposals and their review: types of the      *)
(* readings                                                                *)
(***************************************************************************)

\* The greater of two numbers.
LEMMA Greater ==
  ASSUME NEW m \in Nat, NEW n \in Nat
  PROVE  /\ Max({m, n}) \in {m, n}
         /\ Max({m, n}) >= m /\ Max({m, n}) >= n
<1>1. \E x \in {m, n} : \A y \in {m, n} : x >= y
  OBVIOUS
<1>2. QED
  BY <1>1 DEF Max

\* There are finitely many drafts, and so a finite number of them each time.
LEMMA FinitelyManyDrafts == IsFiniteSet(Draft)
<1> DEFINE C == Conditions \cup {Rhythm}
           V == Versions \cup {Absent}
<1>1. PICK f : f = [p \in C \X V |-> [condition |-> p[1], version |-> p[2]]]
  OBVIOUS
<1>2. f \in Surjection(C \X V, Draft)
  <2>1. f \in [C \X V -> Draft]
    BY <1>1 DEF Draft
  <2>2. ASSUME NEW d \in Draft PROVE \E p \in C \X V : f[p] = d
    <3>1. <<d.condition, d.version>> \in C \X V
      BY DEF Draft
    <3>2. f[<<d.condition, d.version>>] = d
      BY <1>1, <3>1 DEF Draft
    <3>3. QED
      BY <3>1, <3>2
  <2>3. QED
    BY <2>1, <2>2 DEF Surjection
<1>3. IsFiniteSet(C) /\ IsFiniteSet(V)
  BY InsightsAssumption, FS_AddElement
<1>4. IsFiniteSet(C \X V)
  BY <1>3, FS_Product
<1>5. QED
  BY <1>2, <1>4, FS_Surjection

\* Drafts are finitely many.
LEMMA DraftsAreFinite ==
  ASSUME NEW D \in SUBSET Draft
  PROVE  IsFiniteSet(D) /\ Cardinality(D) \in Nat
  BY FinitelyManyDrafts, FS_Subset, FS_CardinalityType

\* Numbers 1 to Cardinality(D) can be given to the drafts D.
LEMMA NumbersGiven ==
  ASSUME NEW D \in SUBSET Draft
  PROVE  \E f \in [D -> 1..Cardinality(D)] :
           \A d, e \in D : f[d] = f[e] => d = e
<1>1. IsFiniteSet(D) /\ Cardinality(D) \in Nat
  BY DraftsAreFinite
<1>2. ExistsBijection(1..Cardinality(D), D)
  BY <1>1, FS_CardinalityType
<1>3. PICK g \in Bijection(1..Cardinality(D), D) : TRUE
  BY <1>2 DEF ExistsBijection
<1>4. /\ g \in [1..Cardinality(D) -> D]
      /\ \A d \in D : \E i \in 1..Cardinality(D) : g[i] = d
  BY <1>3 DEF Bijection, Injection, Surjection
<1>5. PICK f : f = [d \in D |-> CHOOSE i \in 1..Cardinality(D) : g[i] = d]
  OBVIOUS
<1>6. \A d \in D : f[d] \in 1..Cardinality(D) /\ g[f[d]] = d
  BY <1>4, <1>5
<1>7. f \in [D -> 1..Cardinality(D)]
  BY <1>5, <1>6
<1>8. \A d, e \in D : f[d] = f[e] => d = e
  BY <1>6
<1>9. QED
  BY <1>7, <1>8

\* The rows of drafts have ids that have not been used.
LEMMA RowsOfDrafts ==
  ASSUME NEW D \in SUBSET Draft, NEW used \in Nat
  PROVE  /\ \A row \in Rows(D, used) :
              /\ Content(row) \in D
              /\ row = [condition |-> row.condition, version |-> row.version,
                        id |-> row.id]
              /\ row.id \in used + 1..used + Cardinality(D)
         /\ \A d \in D : \E row \in Rows(D, used) : Content(row) = d
         /\ \A row, other \in Rows(D, used) :
              row.id = other.id \/ Content(row) = Content(other) => row = other
<1> DEFINE number == CHOOSE f \in [D -> 1..Cardinality(D)] :
                       \A d, e \in D : f[d] = f[e] => d = e
<1>1. /\ number \in [D -> 1..Cardinality(D)]
      /\ \A d, e \in D : number[d] = number[e] => d = e
  BY NumbersGiven
<1>2. PICK f : f = number
  OBVIOUS
<1>3. /\ f \in [D -> 1..Cardinality(D)]
      /\ \A d, e \in D : f[d] = f[e] => d = e
  BY <1>1, <1>2
<1>4. Rows(D, used) = {[condition |-> d.condition, version |-> d.version,
                        id |-> used + f[d]] : d \in D}
  BY <1>2 DEF Rows
<1>5. Cardinality(D) \in Nat
  BY DraftsAreFinite
<1>6. ASSUME NEW d \in D
      PROVE  /\ d = [condition |-> d.condition, version |-> d.version]
             /\ f[d] \in 1..Cardinality(D)
  BY <1>3 DEF Draft
<1>7. ASSUME NEW row \in Rows(D, used)
      PROVE  \E d \in D : /\ Content(row) = d
                          /\ row = [condition |-> row.condition,
                                    version |-> row.version, id |-> row.id]
                          /\ row.id = used + f[d]
  <2>1. PICK d \in D : row = [condition |-> d.condition, version |-> d.version,
                              id |-> used + f[d]]
    BY <1>4
  <2>2. /\ row.condition = d.condition /\ row.version = d.version
        /\ row.id = used + f[d]
    BY <2>1
  <2>3. d = [condition |-> d.condition, version |-> d.version]
    BY <1>6
  <2>4. QED
    BY <2>1, <2>2, <2>3 DEF Content
<1>8. ASSUME NEW d \in D PROVE \E row \in Rows(D, used) : Content(row) = d
  <2>1. [condition |-> d.condition, version |-> d.version, id |-> used + f[d]]
          \in Rows(D, used)
    BY <1>4
  <2>2. QED
    BY <1>6, <2>1 DEF Content
<1>9. \A row \in Rows(D, used) :
        /\ Content(row) \in D
        /\ row = [condition |-> row.condition, version |-> row.version,
                  id |-> row.id]
        /\ row.id \in used + 1..used + Cardinality(D)
  BY <1>5, <1>6, <1>7
<1>10. ASSUME NEW row \in Rows(D, used), NEW other \in Rows(D, used),
              row.id = other.id \/ Content(row) = Content(other)
       PROVE  row = other
  <2>1. PICK d \in D : /\ Content(row) = d /\ row.id = used + f[d]
                       /\ row = [condition |-> row.condition,
                                 version |-> row.version, id |-> row.id]
    BY <1>7
  <2>2. PICK e \in D : /\ Content(other) = e /\ other.id = used + f[e]
                       /\ other = [condition |-> other.condition,
                                   version |-> other.version, id |-> other.id]
    BY <1>7
  <2>3. d = e
    <3>1. CASE Content(row) = Content(other)
      BY <2>1, <2>2, <3>1
    <3>2. CASE row.id = other.id
      <4>1. f[d] = f[e]
        BY <1>5, <1>6, <2>1, <2>2, <3>2
      <4>2. QED
        BY <1>3, <4>1
    <3>3. QED
      BY <1>10, <3>1, <3>2
  <2>4. row.condition = other.condition /\ row.version = other.version
        /\ row.id = other.id
    BY <2>1, <2>2, <2>3 DEF Content
  <2>5. QED
    BY <2>1, <2>2, <2>4
<1>11. QED
  BY <1>8, <1>9, <1>10

\* They are rows, as long as there are ids.
LEMMA RowsAreRows ==
  ASSUME NEW D \in SUBSET Draft, NEW used \in Nat,
         used + Cardinality(D) <= MaxRows
  PROVE  Rows(D, used) \in SUBSET Row
<1>1. Cardinality(D) \in Nat /\ MaxRows \in Nat
  BY DraftsAreFinite, InsightsAssumption
<1> SUFFICES ASSUME NEW row \in Rows(D, used) PROVE row \in Row
  OBVIOUS
<1>2. /\ Content(row) \in D
      /\ row = [condition |-> row.condition, version |-> row.version,
                id |-> row.id]
      /\ row.id \in used + 1..used + Cardinality(D)
  BY RowsOfDrafts
<1>3. row.condition \in Conditions \cup {Rhythm}
      /\ row.version \in Versions \cup {Absent}
  BY <1>2 DEF Content, Draft
<1>4. row.id \in 1..MaxRows
  BY <1>1, <1>2
<1>5. QED
  BY <1>2, <1>3, <1>4 DEF Row

\* The drafts of a reading are drafts.
LEMMA DraftTypes ==
  /\ \A w \in World : SignalsOf(w) \in SUBSET Draft
  /\ \A D \in SUBSET Draft : \A order : Recommended(D, order) \in SUBSET Draft
  /\ \A rows : (\A row \in rows : Content(row) \in Draft) =>
       \A D \in Picks(rows) : D \in SUBSET Draft
<1>1. ASSUME NEW w \in World PROVE SignalsOf(w) \in SUBSET Draft
  BY <1>1 DEF SignalsOf, Draft, World
<1>2. ASSUME NEW D \in SUBSET Draft, NEW order
      PROVE  Recommended(D, order) \in SUBSET Draft
  <2>1. [condition |-> Rhythm, version |-> Absent] \in Draft
    BY DEF Draft
  <2>2. Foremost(Leading(D, order), order) \in SUBSET Draft
    BY DEF Foremost, Leading
  <2>3. QED
    BY <2>1, <2>2 DEF Recommended
<1>3. ASSUME NEW rows, \A row \in rows : Content(row) \in Draft,
             NEW D \in Picks(rows)
      PROVE  D \in SUBSET Draft
  BY <1>3 DEF Picks
<1>4. QED
  BY <1>1, <1>2, <1>3

\* Rows hold drafts.
LEMMA RowContent ==
  ASSUME NEW row \in Row PROVE Content(row) \in Draft
  BY DEF Content, Row, Draft

\* Drafts or rows of different conditions.
Distinct(D) == \A d, e \in D : d.condition = e.condition => d = e

\* What the store shows is so, ...
LEMMA WorldIsDistinct ==
  ASSUME NEW w
  PROVE  Distinct(SignalsOf(w))
<1> SUFFICES ASSUME NEW d \in SignalsOf(w), NEW e \in SignalsOf(w),
                    d.condition = e.condition
             PROVE  d = e
  BY DEF Distinct
<1>1. PICK c \in Conditions : d = [condition |-> c, version |-> w.shows[c]]
  BY DEF SignalsOf
<1>2. PICK b \in Conditions : e = [condition |-> b, version |-> w.shows[b]]
  BY DEF SignalsOf
<1>3. QED
  BY <1>1, <1>2

\* ... and so is what is picked of rows or drafts.
LEMMA PicksAreDistinct ==
  ASSUME NEW rows, \A row \in rows : Content(row) \in Draft,
         NEW signals \in Picks(rows)
  PROVE  signals \in SUBSET Draft /\ Distinct(signals)
<1>1. PICK found : found = {Content(row).condition : row \in rows}
  OBVIOUS
<1>2. /\ Cardinality(signals) = Cardinality(found)
      /\ {d.condition : d \in signals} = found
  BY <1>1 DEF Picks
<1>3. signals \in SUBSET Draft
  BY DraftTypes
<1>4. IsFiniteSet(signals)
  BY <1>3, DraftsAreFinite
<1>5. PICK f : f = [d \in signals |-> d.condition]
  OBVIOUS
<1>6. f \in Surjection(signals, found)
  BY <1>2, <1>5 DEF Surjection
<1>7. f \in Injection(signals, found)
  BY <1>2, <1>4, <1>6, FS_Surjection
<1>8. Distinct(signals)
  BY <1>5, <1>7 DEF Injection, IsInjective, Distinct
<1>9. QED
  BY <1>3, <1>8

\* What is proposed for what a store shows is of different types.
LEMMA DraftsOfWorld ==
  ASSUME InsightsTypeOK, NEW D \in Drafts
  PROVE  D \in SUBSET Draft /\ Distinct(D)
<1>1. ASSUME NEW d \in Proposed PROVE Content(d) \in Draft
  <2>1. PICK e \in SignalsOf(world) :
          /\ e.condition \in DOMAIN Proposes
          /\ d = [condition |-> Proposes[e.condition], version |-> e.version]
    BY DEF Proposed
  <2>2. e \in Draft
    BY DraftTypes DEF InsightsTypeOK
  <2>3. Proposes[e.condition] \in Conditions
    BY <2>1, ReviewAssumption
  <2>4. QED
    BY <2>1, <2>2, <2>3 DEF Content, Draft
<1>2. PICK P : P \subseteq Proposed /\ D \in Picks(P)
  BY DEF Drafts
<1>3. QED
  BY <1>1, <1>2, PicksAreDistinct

\* A function on 1..n is a sequence.
LEMMA FunctionIsSeq ==
  ASSUME NEW S, NEW n \in Nat, NEW s \in [1..n -> S]
  PROVE  s \in Seq(S) /\ Len(s) = n
<1>1. s \in Seq(S)
  BY SeqDef
<1>2. Len(s) \in Nat /\ 1..Len(s) = 1..n
  BY <1>1, LenProperties
<1>3. QED
  BY <1>1, <1>2

\* What is to be notified are the loud signals among the drafts, each once.
LEMMA LoudAreNotified ==
  ASSUME NEW kind \in Kinds, NEW D \in SUBSET Draft
  PROVE  LET L == IF kind = "signals"
                  THEN Loud \cap {d.condition : d \in D} ELSE {}
             s == ToNotify(kind, D)
         IN  /\ s \in Seq(Conditions)
             /\ \A i, j \in 1..Len(s) : s[i] = s[j] => i = j
             /\ \A c : c \in L <=> \E i \in 1..Len(s) : s[i] = c
<1> DEFINE L == Loud \cap {d.condition : d \in D}
<1>1. CASE kind # "signals"
  <2>1. ToNotify(kind, D) = <<>>
    BY <1>1 DEF ToNotify
  <2>2. <<>> \in Seq(Conditions) /\ Len(<<>>) = 0
    BY EmptySeq
  <2>3. QED
    BY <1>1, <2>1, <2>2
<1>2. CASE kind = "signals"
  <2>1. L \in SUBSET Conditions
    BY InsightsAssumption
  <2>2. IsFiniteSet(L) /\ Cardinality(L) \in Nat
    BY <2>1, InsightsAssumption, FS_Subset, FS_CardinalityType
  <2>3. PICK g \in Bijection(1..Cardinality(L), L) : TRUE
    BY <2>2, FS_CardinalityType DEF ExistsBijection
  <2>4. g \in [1..Cardinality(L) -> L] /\ IsInjective(g)
    BY <2>3 DEF Bijection, Injection, IsInjective
  <2>5. PICK s : s = ToNotify(kind, D)
    OBVIOUS
  <2>6. s \in [1..Cardinality(L) -> L] /\ IsInjective(s)
    BY <1>2, <2>4, <2>5 DEF ToNotify, SetToSeq
  <2>7. s \in Seq(L) /\ Len(s) = Cardinality(L)
    <3>1. PICK M, n : M = L /\ n = Cardinality(L)
      OBVIOUS
    <3>2. n \in Nat /\ s \in [1..n -> M]
      BY <2>2, <2>6, <3>1
    <3>3. s \in Seq(M) /\ Len(s) = n
      BY <3>2, FunctionIsSeq
    <3>4. QED
      BY <3>1, <3>3
  <2>8. s \in Seq(Conditions)
    <3>1. L \subseteq Conditions
      BY <2>1
    <3>2. QED
      BY <2>7, <3>1, SeqMonotonic
  <2>9. \A i, j \in 1..Len(s) : s[i] = s[j] => i = j
    BY <2>6, <2>7 DEF IsInjective
  <2>10. \A c \in L : \E i \in 1..Len(s) : s[i] = c
    <3>1. s \in Injection(1..Cardinality(L), L)
      BY <2>6 DEF Injection, IsInjective
    <3>2. Cardinality(1..Cardinality(L)) = Cardinality(L)
      BY <2>2, FS_Interval
    <3>3. s \in Surjection(1..Cardinality(L), L)
      BY <2>2, <3>1, <3>2, FS_Injection
    <3>4. QED
      BY <2>7, <3>3 DEF Surjection
  <2>11. \A i \in 1..Len(s) : s[i] \in L
    BY <2>6, <2>7
  <2>12. QED
    BY <1>2, <2>5, <2>8, <2>9, <2>10, <2>11
<1>3. QED
  BY <1>1, <1>2

\* A task stays a task when what is replaced in it has its type.
LEMMA IdleTaskType == IdleTask \in Task
<1>1. <<>> \in Seq(Conditions)
  BY EmptySeq
<1>2. QED
  BY <1>1 DEF IdleTask, Task, TaskPcs, Kinds

\* The readings that are started are of the types they should be.
LEMMA StartTypes ==
  ASSUME InsightsTypeOK, NEW S, NEW last \in [S -> Kinds], NEW insist,
         Start(S, last, insist)
  PROVE  /\ task' \in [Tasks -> Task] /\ calm' \in BOOLEAN
         /\ bundle' \in Nat /\ bundle' >= bundle
         /\ bundle' >= Cardinality(Running \cup S)
         /\ IsFiniteSet(Running \cup S) /\ Cardinality(Running \cup S) \in Nat
         /\ S \subseteq Tasks
<1>1. S \subseteq Tasks /\ Running \cup S \subseteq Tasks
  BY DEF Start, Running, Idle
<1>2. IsFiniteSet(Running \cup S) /\ Cardinality(Running \cup S) \in Nat
  BY <1>1, InsightsAssumption, FS_Subset, FS_CardinalityType
<1>3. PICK n \in Nat : n = Cardinality(Running \cup S)
  BY <1>2
<1>4. bundle' = Max({bundle, n}) /\ bundle \in Nat
  BY <1>3 DEF Start, InsightsTypeOK
<1>5. bundle' \in Nat /\ bundle' >= bundle /\ bundle' >= n
  BY <1>4, Greater
<1>6. ASSUME NEW t \in Tasks PROVE task'[t] \in Task
  <2>1. task[t] \in Task
    BY DEF InsightsTypeOK
  <2>2. CASE t \in S
    <3>1. task'[t] = [IdleTask EXCEPT !.pc = "building", !.last = last[t],
                        !.force = t \in insist,
                        !.alone = Cardinality(Running \cup S) = 1]
      BY <2>2 DEF Start
    <3>2. PICK f, a : /\ f = (t \in insist)
                      /\ a = (Cardinality(Running \cup S) = 1)
      OBVIOUS
    <3>3. f \in BOOLEAN /\ a \in BOOLEAN
      BY <3>2
    <3>4. PICK l \in Kinds : l = last[t]
      BY <2>2
    <3>5. task'[t] = [IdleTask EXCEPT !.pc = "building", !.last = l,
                                      !.force = f, !.alone = a]
      BY <3>1, <3>2, <3>4
    <3>6. QED
      BY <3>3, <3>5, IdleTaskType DEF Task, TaskPcs
  <2>3. CASE t \notin S
    <3>1. task'[t] = [task[t] EXCEPT !.alone = @ /\ S = {}]
      BY <2>3 DEF Start
    <3>2. QED
      BY <2>1, <3>1 DEF Task
  <2>4. QED
    BY <2>2, <2>3
<1>7. task' \in [Tasks -> Task]
  <2>1. DOMAIN task' = Tasks /\ task' = [t \in Tasks |-> task'[t]]
    BY DEF Start
  <2>2. QED
    BY <1>6, <2>1
<1>8. calm' \in BOOLEAN
  BY DEF Start
<1>9. QED
  BY <1>1, <1>2, <1>3, <1>5, <1>7, <1>8

\* What a reading writes of its own.
LEMMA SetTypes ==
  ASSUME InsightsTypeOK, NEW t \in Tasks, NEW fields \in Task, Set(t, fields)
  PROVE  task' \in [Tasks -> Task]
  BY DEF Set, InsightsTypeOK

\* So when it goes on to the recommendations or ends.
LEMMA ContinueTypes ==
  ASSUME InsightsTypeOK, NEW t \in Tasks, NEW rows \in SUBSET Row,
         Continue(t, rows)
  PROVE  task' \in [Tasks -> Task] /\ calm' \in BOOLEAN
<1>1. task[t] \in Task /\ calm \in BOOLEAN
  BY DEF InsightsTypeOK
<1>2. CASE task[t].kind # task[t].last
  <2>1. PICK signals \in Picks(rows), order \in setting.orders :
          Set(t, [task[t] EXCEPT !.pc = "drafted", !.kind = "recommendations",
                                 !.drafts = Recommended(signals, order),
                                 !.seen = {}])
    BY <1>2 DEF Continue
  <2>2. PICK D \in SUBSET Draft : D = Recommended(signals, order)
    BY DraftTypes, RowContent
  <2>3. [task[t] EXCEPT !.pc = "drafted", !.kind = "recommendations",
                        !.drafts = D, !.seen = {}] \in Task
    BY <1>1 DEF Task, TaskPcs, Kinds
  <2>4. task' \in [Tasks -> Task]
    BY <2>1, <2>2, <2>3, SetTypes
  <2>5. calm' = calm
    BY <1>2 DEF Continue
  <2>6. QED
    BY <1>1, <2>4, <2>5
<1>3. CASE task[t].kind = task[t].last
  <2>1. Set(t, [IdleTask EXCEPT !.pc = "done"])
        /\ calm' = (calm \/ (task[t].alone /\ task[t].last = "recommendations"))
    BY <1>3 DEF Continue
  <2>2. [IdleTask EXCEPT !.pc = "done"] \in Task
    BY IdleTaskType DEF Task, TaskPcs
  <2>3. task' \in [Tasks -> Task]
    BY <2>1, <2>2, SetTypes
  <2>4. QED
    BY <2>1, <2>3
<1>4. QED
  BY <1>2, <1>3

\* Who is about to make a notification has one to make.
TellsSomething ==
  \A t \in Tasks : task[t].pc = "telling" => task[t].untold # <<>>

\* A statement of a reading keeps the types.
LEMMA TaskStepTypes ==
  ASSUME InsightsTypeOK, TellsSomething, NEW t \in Tasks,
         TaskStep(t) \/ StopTask(t)
  PROVE  InsightsTypeOK'
<1>1. task[t] \in Task
  BY DEF InsightsTypeOK
<1>2. CASE BuildSignals(t)
  <2>1. PICK D \in SUBSET Draft : D = SignalsOf(world)
    BY DraftTypes DEF InsightsTypeOK
  <2>2. [task[t] EXCEPT !.pc = "drafted", !.drafts = D] \in Task
    BY <1>1 DEF Task, TaskPcs
  <2>3. task' \in [Tasks -> Task]
    BY <1>2, <2>1, <2>2, SetTypes DEF BuildSignals
  <2>4. QED
    BY <1>2, <2>3 DEF BuildSignals, InsightsTypeOK, tables
<1>3. CASE Compare(t)
  <2>1. active[task[t].kind] \in SUBSET Row
    BY <1>1 DEF InsightsTypeOK, Task
  <2>2. CASE Continue(t, active[task[t].kind])
    <3>1. task' \in [Tasks -> Task] /\ calm' \in BOOLEAN
      BY <2>1, <2>2, ContinueTypes
    <3>2. QED
      BY <1>3, <3>1 DEF Compare, InsightsTypeOK, tables
  <2>3. CASE Goto(t, "judged") /\ UNCHANGED calm
    <3>1. [task[t] EXCEPT !.pc = "judged"] \in Task
      BY <1>1 DEF Task, TaskPcs
    <3>2. task' \in [Tasks -> Task]
      BY <2>3, <3>1, SetTypes DEF Goto
    <3>3. QED
      BY <1>3, <2>3, <3>2 DEF Compare, InsightsTypeOK, tables
  <2>4. QED
    BY <1>3, <2>2, <2>3 DEF Compare
<1>4. CASE Aim(t)
  <2>1. PICK rows \in SUBSET Row : rows = active[task[t].kind]
    BY <1>1 DEF InsightsTypeOK, Task
  <2>2. [task[t] EXCEPT !.pc = "aimed", !.seen = rows] \in Task
    BY <1>1 DEF Task, TaskPcs
  <2>3. task' \in [Tasks -> Task]
    BY <1>4, <2>1, <2>2, SetTypes DEF Aim
  <2>4. QED
    BY <1>4, <2>3 DEF Aim, InsightsTypeOK, tables
<1>5. CASE Replace(t)
  <2>1. PICK k \in Kinds : k = task[t].kind
    BY <1>1 DEF Task
  <2>2. PICK D \in SUBSET Draft : D = task[t].drafts
    BY <1>1 DEF Task
  <2>3. Cardinality(D) \in Nat
    BY DraftsAreFinite
  <2>4. made[k] \in Nat /\ made[k] + Cardinality(D) <= MaxRows
        /\ made[k] + Cardinality(D) \in 0..MaxRows
    BY <1>5, <2>1, <2>2, <2>3, InsightsAssumption DEF Replace, InsightsTypeOK
  <2>5. PICK N \in SUBSET Row : N = Rows(D, made[k])
    BY <2>4, RowsAreRows
  <2>6. PICK s \in Seq(Conditions) : s = ToNotify(k, D)
    BY LoudAreNotified
  <2>7. active' = [active EXCEPT ![k] = (@ \ task[t].seen) \cup N]
    BY <1>5, <2>1, <2>2, <2>5 DEF Replace
  <2>8. made' = [made EXCEPT ![k] = @ + Cardinality(D)]
    BY <1>5, <2>1, <2>2 DEF Replace
  <2>9. Set(t, [task[t] EXCEPT !.pc = "replaced", !.seen = {}, !.untold = s])
    BY <1>5, <2>1, <2>2, <2>6 DEF Replace
  <2>10. active' \in [Kinds -> SUBSET Row]
    BY <2>7 DEF InsightsTypeOK
  <2>11. made' \in [Kinds -> 0..MaxRows]
    BY <2>4, <2>8 DEF InsightsTypeOK
  <2>12. [task[t] EXCEPT !.pc = "replaced", !.seen = {}, !.untold = s] \in Task
    BY <1>1 DEF Task, TaskPcs
  <2>13. task' \in [Tasks -> Task]
    BY <2>9, <2>12, SetTypes
  <2>14. QED
    BY <1>5, <2>10, <2>11, <2>13 DEF Replace, InsightsTypeOK
<1>6. CASE LookForNote(t)
  <2>1. PICK s \in Seq(Conditions) : s = task[t].untold
    BY <1>1 DEF Task
  <2>2. s # <<>>
    BY <1>6, <2>1 DEF LookForNote
  <2>3. PICK r \in Seq(Conditions) : r = Tail(s)
    BY <2>2, HeadTailProperties
  <2>4. /\ [task[t] EXCEPT !.untold = r] \in Task
        /\ [task[t] EXCEPT !.pc = "telling"] \in Task
    BY <1>1 DEF Task, TaskPcs
  <2>5. task' \in [Tasks -> Task]
    BY <1>6, <2>1, <2>3, <2>4, SetTypes DEF LookForNote, Goto
  <2>6. QED
    BY <1>6, <2>5 DEF LookForNote, InsightsTypeOK, tables
<1>7. CASE Notify(t)
  <2>1. PICK s \in Seq(Conditions) : s = task[t].untold
    BY <1>1 DEF Task
  <2>2. s # <<>>
    BY <1>7, <2>1 DEF Notify, TellsSomething
  <2>3. PICK c \in Conditions, r \in Seq(Conditions) :
          c = Head(s) /\ r = Tail(s)
    BY <2>2, HeadTailProperties
  <2>4. [task[t] EXCEPT !.pc = "replaced", !.untold = r] \in Task
    BY <1>1 DEF Task, TaskPcs
  <2>5. Set(t, [task[t] EXCEPT !.pc = "replaced", !.untold = r])
        /\ notes' = [notes EXCEPT ![c] = @ + 1]
    BY <1>7, <2>1, <2>3 DEF Notify
  <2>6. task' \in [Tasks -> Task]
    BY <2>4, <2>5, SetTypes
  <2>7. notes' \in [Conditions -> Nat]
    BY <2>5 DEF InsightsTypeOK
  <2>8. QED
    BY <1>7, <2>6, <2>7 DEF Notify, InsightsTypeOK
<1>8. CASE ReadBack(t)
  <2>1. active[task[t].kind] \in SUBSET Row
    BY <1>1 DEF InsightsTypeOK, Task
  <2>2. task' \in [Tasks -> Task] /\ calm' \in BOOLEAN
    BY <1>8, <2>1, ContinueTypes DEF ReadBack
  <2>3. QED
    BY <1>8, <2>2 DEF ReadBack, InsightsTypeOK, tables
<1>9. CASE StopTask(t)
  <2>1. [IdleTask EXCEPT !.pc = "stopped"] \in Task
    BY IdleTaskType DEF Task, TaskPcs
  <2>2. task' \in [Tasks -> Task]
    BY <1>9, <2>1, SetTypes DEF StopTask
  <2>3. stops' \in 0..setting.stops
    <3>1. setting.stops \in Nat
      BY InsightsAssumption DEF InsightsTypeOK
    <3>2. QED
      BY <1>9, <3>1 DEF StopTask, InsightsTypeOK
  <2>4. QED
    BY <1>9, <2>2, <2>3 DEF StopTask, InsightsTypeOK, tables
<1>10. QED
  BY <1>2, <1>3, <1>4, <1>5, <1>6, <1>7, <1>8, <1>9 DEF TaskStep

\* A statement of a reading writes the task of that reading only.
LEMMA TaskStepIsLocal ==
  ASSUME InsightsTypeOK, NEW t \in Tasks, TaskStep(t) \/ StopTask(t)
  PROVE  \A u \in Tasks \ {t} : task'[u] = task[u]
  BY DEF TaskStep, StopTask, BuildSignals, Compare, Continue, Goto, Aim,
       Replace,
       LookForNote, Notify, ReadBack, Set, InsightsTypeOK

\* A reading looks for a notification only if one is left to make.
LEMMA TaskStepTells ==
  ASSUME InsightsTypeOK, TellsSomething, NEW t \in Tasks,
         TaskStep(t) \/ StopTask(t)
  PROVE  TellsSomething'
<1>1. \A u \in Tasks \ {t} : task'[u] = task[u]
  BY TaskStepIsLocal
<1>2. task'[t].pc = "telling" => task'[t].untold # <<>>
  <2>1. task[t] \in Task /\ task \in [Tasks -> Task]
    BY DEF InsightsTypeOK
  <2>2. CASE LookForNote(t)
    <3>1. task[t].pc = "replaced" /\ task[t].untold # <<>>
      BY <2>2 DEF LookForNote
    <3>2. CASE notes[Head(task[t].untold)] > 0
      <4>1. task' = [task EXCEPT ![t] = [task[t] EXCEPT
                                           !.untold = Tail(task[t].untold)]]
        BY <2>2, <3>2 DEF LookForNote, Set
      <4>2. task'[t].pc = "replaced"
        BY <2>1, <3>1, <4>1 DEF Task
      <4>3. QED
        BY <4>2
    <3>3. CASE ~(notes[Head(task[t].untold)] > 0)
      <4>1. task' = [task EXCEPT ![t] = [task[t] EXCEPT !.pc = "telling"]]
        BY <2>2, <3>3 DEF LookForNote, Goto, Set
      <4>2. task'[t].untold = task[t].untold
        BY <2>1, <4>1 DEF Task
      <4>3. QED
        BY <3>1, <4>2
    <3>4. QED
      BY <3>2, <3>3
  <2>3. CASE ~LookForNote(t)
    <3>1. CASE Compare(t) \/ ReadBack(t)
      <4>1. CASE Goto(t, "judged")
        <5>1. task'[t].pc = "judged"
          BY <2>1, <4>1 DEF Goto, Set, Task
        <5>2. QED
          BY <5>1
      <4>2. CASE \E rows : Continue(t, rows)
        <5>1. task'[t].pc \in {"drafted", "done"}
          BY <2>1, <4>2 DEF Continue, Set, Task, IdleTask
        <5>2. QED
          BY <5>1
      <4>3. QED
        BY <3>1, <4>1, <4>2 DEF Compare, ReadBack
    <3>2. CASE BuildSignals(t) \/ Aim(t)
      <4>1. task'[t].pc \in {"drafted", "aimed"}
        BY <2>1, <3>2 DEF BuildSignals, Aim, Set, Task
      <4>2. QED
        BY <4>1
    <3>3. CASE Replace(t)
      <4>1. task'[t].pc = "replaced"
        BY <2>1, <3>3 DEF Replace, Set, Task
      <4>2. QED
        BY <4>1
    <3>4. CASE Notify(t)
      <4>1. task'[t].pc = "replaced"
        BY <2>1, <3>4 DEF Notify, Set, Task
      <4>2. QED
        BY <4>1
    <3>5. CASE StopTask(t)
      <4>1. task'[t].pc = "stopped"
        BY <2>1, <3>5 DEF StopTask, Set, IdleTask
      <4>2. QED
        BY <4>1
    <3>6. QED
      BY <2>3, <3>1, <3>2, <3>3, <3>4, <3>5 DEF TaskStep
  <2>4. QED
    BY <2>2, <2>3
<1>3. QED
  BY <1>1, <1>2 DEF TellsSomething

\* What starts readings has nobody about to make a notification.
LEMMA StartTells ==
  ASSUME InsightsTypeOK, TellsSomething, NEW S, NEW last, NEW insist,
         Start(S, last, insist)
  PROVE  TellsSomething'
<1> SUFFICES ASSUME NEW t \in Tasks
             PROVE  task'[t].pc = "telling" => task'[t].untold # <<>>
  BY DEF TellsSomething
<1>1. task[t] \in Task /\ IdleTask \in Task
  BY IdleTaskType DEF InsightsTypeOK
<1>2. CASE t \in S
  <2>1. task'[t] = [IdleTask EXCEPT !.pc = "building", !.last = last[t],
                      !.force = t \in insist,
                      !.alone = Cardinality(Running \cup S) = 1]
    BY <1>2 DEF Start
  <2>2. task'[t].pc = "building"
    BY <1>1, <2>1 DEF Task
  <2>3. QED
    BY <2>2
<1>3. CASE t \notin S
  <2>1. task'[t] = [task[t] EXCEPT !.alone = @ /\ S = {}]
    BY <1>3 DEF Start
  <2>2. task'[t].pc = task[t].pc /\ task'[t].untold = task[t].untold
    BY <1>1, <2>1 DEF Task
  <2>3. QED
    BY <2>2 DEF TellsSomething
<1>4. QED
  BY <1>2, <1>3

\* What readings there are have their types, and tell something.
ReadingsOK == InsightsTypeOK /\ TellsSomething

\* A step of the readings, of the store or of a reader keeps them so.
LEMMA InsightsStepTypes ==
  ASSUME ReadingsOK, InsightsNext
  PROVE  ReadingsOK'
<1>1. CASE \E t \in Tasks : TaskStep(t) \/ StopTask(t)
  BY <1>1, TaskStepTypes, TaskStepTells DEF ReadingsOK
<1>2. ASSUME NEW t \in Tasks, Read(t) PROVE ReadingsOK'
  <2>1. PICK kind \in Kinds, insist \in {{}, {t}} :
          Start({t}, [x \in {t} |-> kind], insist)
    BY <1>2 DEF Read
  <2>2. [x \in {t} |-> kind] \in [{t} -> Kinds]
    OBVIOUS
  <2>3. task' \in [Tasks -> Task] /\ calm' \in BOOLEAN /\ bundle' \in Nat
    BY <2>1, <2>2, StartTypes DEF ReadingsOK
  <2>4. TellsSomething'
    BY <2>1, StartTells DEF ReadingsOK
  <2>5. QED
    BY <1>2, <2>3, <2>4 DEF Read, ReadingsOK, InsightsTypeOK, tables
<1>3. CASE WorldChanges
  <2>1. PICK c \in Conditions, v \in Versions \cup {Absent},
             order \in setting.orders :
          world' = [shows |-> [world.shows EXCEPT ![c] = v], order |-> order]
    BY <1>3 DEF WorldChanges
  <2>2. world' \in World
    <3>1. order \in Rankings
      BY <2>1, InsightsAssumption DEF ReadingsOK, InsightsTypeOK
    <3>2. world.shows \in [Conditions -> Versions \cup {Absent}]
      BY DEF ReadingsOK, InsightsTypeOK, World
    <3>3. QED
      BY <2>1, <3>1, <3>2 DEF World
  <2>3. setting.changes \in Nat
    BY InsightsAssumption DEF ReadingsOK, InsightsTypeOK
  <2>4. changes' \in 0..setting.changes
    BY <1>3, <2>3 DEF WorldChanges, ReadingsOK, InsightsTypeOK
  <2>5. ASSUME NEW t \in Tasks
        PROVE  /\ task'[t] \in Task /\ task'[t].pc = task[t].pc
               /\ task'[t].untold = task[t].untold
    <3>1. task'[t] = [task[t] EXCEPT !.alone = FALSE] /\ task[t] \in Task
      BY <1>3 DEF WorldChanges, ReadingsOK, InsightsTypeOK
    <3>2. QED
      BY <3>1 DEF Task
  <2>6. task' \in [Tasks -> Task]
    BY <1>3, <2>5 DEF WorldChanges
  <2>7. TellsSomething'
    BY <2>5 DEF ReadingsOK, TellsSomething
  <2>8. QED
    BY <1>3, <2>2, <2>4, <2>6, <2>7
      DEF WorldChanges, ReadingsOK, InsightsTypeOK, tables
<1>4. \/ \E t \in Tasks : Read(t) \/ TaskStep(t) \/ StopTask(t)
      \/ WorldChanges
  BY DEF InsightsNext
<1>5. QED
  BY <1>1, <1>2, <1>3, <1>4

\* So at first.
LEMMA InsightsInitTypes == InsightsInit => ReadingsOK
<1> SUFFICES ASSUME InsightsInit PROVE ReadingsOK
  OBVIOUS
<1>1. setting \in Settings /\ setting.changes \in Nat /\ setting.stops \in Nat
      /\ world \in World /\ MaxRows \in Nat
  BY InsightsAssumption DEF InsightsInit
<1>2. task \in [Tasks -> Task] /\ \A t \in Tasks : task[t].pc = "idle"
  BY IdleTaskType DEF InsightsInit, IdleTask
<1>3. /\ active \in [Kinds -> SUBSET Row]
      /\ made \in [Kinds -> 0..MaxRows]
      /\ notes \in [Conditions -> Nat]
  BY <1>1 DEF InsightsInit
<1>4. /\ changes \in 0..setting.changes /\ stops \in 0..setting.stops
      /\ calm \in BOOLEAN /\ bundle \in Nat
  <2>1. changes = 0 /\ stops = 0 /\ calm = FALSE /\ bundle = 0
    BY DEF InsightsInit
  <2>2. 0 \in 0..setting.changes /\ 0 \in 0..setting.stops
    BY <1>1
  <2>3. QED
    BY <2>1, <2>2
<1>5. InsightsTypeOK
  BY <1>1, <1>2, <1>3, <1>4 DEF InsightsTypeOK
<1>6. TellsSomething
  BY <1>2 DEF TellsSomething
<1>7. QED
  BY <1>5, <1>6 DEF ReadingsOK

(***************************************************************************)
(* Types of the proposals and of the requests                              *)
(***************************************************************************)

\* What a request holds fits where it is.
Shape(c) ==
  /\ call[c].pc \in {"building", "built", "persisting"}
       => call[c].kind \in Generates
  /\ call[c].pc = "read" => call[c].kind \in Reviews
  /\ call[c].pc \in {"decided", "telling", "told"} => call[c].kind = "decide"
  /\ call[c].pc \in {"found", "clear"} => call[c].kind = "create"
  /\ call[c].pc \in {"read", "decided", "telling", "told"}
       => call[c].id \in Ids
  /\ call[c].existing \subseteq From("engine")
  /\ call[c].used \subseteq From("engine")
  /\ call[c].alone => call[c].kind \in Generates /\ InFlight(c)

CallShape == \A c \in Calls : Shape(c)

ReviewOK == ReadingsOK /\ TypeOK /\ CallShape

\* The ids of the proposals are the numbers up to the last.
LEMMA IdsAreNumbers ==
  ASSUME TypeOK
  PROVE  /\ Len(proposals) \in 0..MaxProposals /\ Ids = 1..Len(proposals)
         /\ Ids \subseteq ProposalIds
         /\ \A p \in Ids : proposals[p] \in Proposal
         /\ \A source : From(source) \subseteq Ids
<1>1. proposals \in Seq(Proposal) /\ Len(proposals) <= MaxProposals
      /\ MaxProposals \in Nat
  BY ReviewAssumption DEF TypeOK
<1>2. Len(proposals) \in Nat
      /\ proposals \in [1..Len(proposals) -> Proposal]
  BY <1>1, LenProperties
<1>3. QED
  BY <1>1, <1>2 DEF Ids, From, ProposalIds

\* A request that has ended is a request.
LEMMA IdleCallType == IdleCall \in Call
  BY ReviewAssumption
    DEF IdleCall, Call, RequestKinds, Generates, Reviews, Decision

\* What a request writes of its own.
LEMMA SetCallTypes ==
  ASSUME TypeOK, NEW c \in Calls, NEW fields \in Call, SetCall(c, fields)
  PROVE  /\ call' \in [Calls -> Call] /\ call'[c] = fields
         /\ \A e \in Calls \ {c} : call'[e] = call[e]
  BY DEF SetCall, TypeOK

\* What is written over a proposal.
LEMMA SetProposalTypes ==
  ASSUME TypeOK, NEW p \in Ids, NEW row \in Proposal, SetProposal(p, row)
  PROVE  /\ proposals' \in Seq(Proposal) /\ Len(proposals') = Len(proposals)
         /\ Ids' = Ids /\ proposals'[p] = row
         /\ \A q \in Ids \ {p} : proposals'[q] = proposals[q]
<1>1. proposals \in Seq(Proposal) /\ Ids = 1..Len(proposals)
  BY IdsAreNumbers DEF TypeOK
<1>2. proposals' = [proposals EXCEPT ![p] = row]
  BY DEF SetProposal
<1>3. proposals' \in Seq(Proposal) /\ Len(proposals') = Len(proposals)
  BY <1>1, <1>2, ExceptSeq
<1>4. QED
  BY <1>1, <1>2, <1>3 DEF Ids

\* A new proposal is the last.
LEMMA AppendTypes ==
  ASSUME TypeOK, NEW row \in Proposal, proposals' = Append(proposals, row),
         Len(proposals) < MaxProposals
  PROVE  /\ proposals' \in Seq(Proposal)
         /\ Len(proposals') = Len(proposals) + 1
         /\ Ids' = Ids \cup {Len(proposals) + 1}
         /\ Len(proposals) + 1 \in ProposalIds \ Ids
         /\ proposals'[Len(proposals) + 1] = row
         /\ \A q \in Ids : proposals'[q] = proposals[q]
<1>1. /\ proposals \in Seq(Proposal) /\ Ids = 1..Len(proposals)
      /\ Len(proposals) \in Nat /\ MaxProposals \in Nat
  BY IdsAreNumbers, ReviewAssumption DEF TypeOK
<1>2. /\ proposals' \in Seq(Proposal) /\ Len(proposals') = Len(proposals) + 1
      /\ \A i \in 1..Len(proposals) : proposals'[i] = proposals[i]
      /\ proposals'[Len(proposals) + 1] = row
  BY <1>1, AppendProperties
<1>3. Ids' = 1..Len(proposals')
  BY <1>2, LenProperties DEF Ids
<1>4. QED
  BY <1>1, <1>2, <1>3 DEF ProposalIds

\* How a draft is written.
LEMMA PersistCases ==
  ASSUME TypeOK, CallShape, NEW c \in Calls, Persist(c)
  PROVE  \E draft \in call[c].drafts :
           \/ \E p \in call[c].existing :
                /\ p \in From("engine") /\ Matches(p, draft)
                /\ [proposals[p] EXCEPT !.version = draft.version] \in Proposal
                /\ SetProposal(p, [proposals[p] EXCEPT
                                     !.version = draft.version])
                /\ SetCall(c, [call[c] EXCEPT !.drafts = @ \ {draft},
                                              !.used = @ \cup {p}])
                /\ [call[c] EXCEPT !.drafts = @ \ {draft},
                                   !.used = @ \cup {p}] \in Call
           \/ /\ \A p \in call[c].existing : ~Matches(p, draft)
              /\ Len(proposals) < MaxProposals
              /\ \E row \in Proposal :
                   /\ row.source = "engine" /\ row.status = "PENDING"
                   /\ row.condition = draft.condition /\ row.reviews = <<>>
                   /\ proposals' = Append(proposals, row)
              /\ SetCall(c, [call[c] EXCEPT
                               !.drafts = @ \ {draft},
                               !.used = @ \cup {Len(proposals) + 1}])
              /\ [call[c] EXCEPT !.drafts = @ \ {draft},
                                 !.used = @ \cup {Len(proposals) + 1}] \in Call
<1>1. call[c] \in Call /\ call[c].existing \subseteq From("engine")
  BY DEF TypeOK, CallShape, Shape
<1>2. PICK draft \in call[c].drafts :
        LET hits == {p \in call[c].existing : Matches(p, draft)}
            next == [call[c] EXCEPT !.drafts = @ \ {draft}]
        IN  \/ \E p \in hits :
                 /\ SetProposal(p, [proposals[p] EXCEPT
                                      !.version = draft.version])
                 /\ SetCall(c, [next EXCEPT !.used = @ \cup {p}])
            \/ /\ hits = {} /\ Len(proposals) < MaxProposals
               /\ proposals' = Append(proposals,
                    [source |-> "engine", condition |-> draft.condition,
                     version |-> draft.version, recommendation |-> 0,
                     status |-> "PENDING", reviews |-> <<>>])
               /\ SetCall(c, [next EXCEPT
                                !.used = @ \cup {Len(proposals) + 1}])
  BY DEF Persist
<1>3. draft \in Draft /\ draft.condition \in Conditions \cup {Rhythm}
      /\ draft.version \in Versions \cup {Absent}
  BY <1>1 DEF Call, Draft
<1>4. ASSUME NEW n
      PROVE  [[call[c] EXCEPT !.drafts = @ \ {draft}]
                EXCEPT !.used = @ \cup {n}]
               = [call[c] EXCEPT !.drafts = @ \ {draft}, !.used = @ \cup {n}]
  BY <1>1 DEF Call
<1>5. ASSUME NEW n \in ProposalIds
      PROVE  [call[c] EXCEPT !.drafts = @ \ {draft}, !.used = @ \cup {n}]
               \in Call
  BY <1>1 DEF Call
<1>6. ASSUME NEW p \in call[c].existing
      PROVE  /\ p \in From("engine") /\ p \in Ids /\ p \in ProposalIds
             /\ [proposals[p] EXCEPT !.version = draft.version] \in Proposal
  <2>1. p \in From("engine") /\ p \in Ids /\ p \in ProposalIds
        /\ proposals[p] \in Proposal
    BY <1>1, IdsAreNumbers
  <2>2. [proposals[p] EXCEPT !.version = draft.version] \in Proposal
    BY <1>3, <2>1 DEF Proposal
  <2>3. QED
    BY <2>1, <2>2
<1>7. [source |-> "engine", condition |-> draft.condition,
       version |-> draft.version, recommendation |-> 0,
       status |-> "PENDING", reviews |-> <<>>] \in Proposal
  <2>1. <<>> \in Seq(Decision)
    BY EmptySeq
  <2>2. 0 \in 0..MaxRows
    BY InsightsAssumption
  <2>3. QED
    BY <1>3, <2>1, <2>2 DEF Proposal, Status
<1>8. Len(proposals) < MaxProposals => Len(proposals) + 1 \in ProposalIds
  BY IdsAreNumbers, ReviewAssumption DEF ProposalIds
<1>9. CASE \E p \in call[c].existing :
             /\ Matches(p, draft)
             /\ SetProposal(p, [proposals[p] EXCEPT
                                  !.version = draft.version])
             /\ SetCall(c, [[call[c] EXCEPT !.drafts = @ \ {draft}]
                              EXCEPT !.used = @ \cup {p}])
  BY <1>4, <1>5, <1>6, <1>9
<1>10. CASE /\ \A p \in call[c].existing : ~Matches(p, draft)
            /\ Len(proposals) < MaxProposals
            /\ proposals' = Append(proposals,
                 [source |-> "engine", condition |-> draft.condition,
                  version |-> draft.version, recommendation |-> 0,
                  status |-> "PENDING", reviews |-> <<>>])
            /\ SetCall(c, [[call[c] EXCEPT !.drafts = @ \ {draft}]
                             EXCEPT !.used = @ \cup {Len(proposals) + 1}])
  BY <1>4, <1>5, <1>7, <1>8, <1>10
<1>11. QED
  BY <1>2, <1>9, <1>10

\* Which steps there are.
LEMMA WhichSteps ==
  ASSUME Next
  PROVE  \/ InsightsNext /\ UNCHANGED reviewVars
         \/ \E c \in Calls, kind \in Generates : Generate(c, kind)
         \/ \E c \in Calls : FindRecommendation(c)
         \/ \E c \in Calls, kind \in Reviews, p \in ProposalIds,
               d \in Decision : BeginReview(c, kind, p, d)
         \/ \E c \in Calls : CallStep(c)
         \/ \E c \in Calls : StopCall(c)
  BY DEF Next

\* What a request may have counted.
LEMMA MayEnterTypes ==
  ASSUME TypeOK, NEW c, NEW kind, MayEnter(c, kind)
  PROVE  begun' \in 0..setting.calls
<1>1. setting.calls \in Nat
  BY ReviewAssumption DEF TypeOK, InsightsTypeOK
<1>2. QED
  BY <1>1 DEF MayEnter, TypeOK

\* A request that generates starts its readings.
LEMMA GenerateTypes ==
  ASSUME ReviewOK, NEW c \in Calls, NEW kind \in Generates, Generate(c, kind)
  PROVE  ReadingsOK' /\ TypeOK'
<1>1. PICK S \in SUBSET Idle : \E last \in [S -> Kinds] :
        /\ Start(S, last, {})
        /\ allowed' = IF Handled(Generates) = {} THEN allowed
                      ELSE Max({allowed, setting.width})
        /\ call' = [e \in Calls |->
              IF e = c
              THEN [IdleCall EXCEPT !.pc = "building", !.kind = kind,
                                    !.readings = S,
                                    !.alone = Handled(Generates) = {}]
              ELSE [call[e] EXCEPT !.alone = FALSE]]
  BY DEF Generate
<1>2. PICK last \in [S -> Kinds] : Start(S, last, {})
  BY <1>1
<1>3. /\ task' \in [Tasks -> Task] /\ calm' \in BOOLEAN /\ bundle' \in Nat
      /\ S \subseteq Tasks /\ TellsSomething'
  BY <1>2, StartTypes, StartTells DEF ReviewOK, ReadingsOK
<1>4. UNCHANGED <<world, tables, changes, stops, setting, proposals, decisions,
                  told>>
  BY DEF Generate
<1>5. InsightsTypeOK'
  BY <1>3, <1>4 DEF ReviewOK, ReadingsOK, InsightsTypeOK, tables
<1>6. call' \in [Calls -> Call]
  <2>1. ASSUME NEW e \in Calls PROVE call'[e] \in Call
    <3>1. CASE e = c
      <4>1. PICK a \in BOOLEAN : a = (Handled(Generates) = {})
        OBVIOUS
      <4>2. call'[e] = [IdleCall EXCEPT !.pc = "building", !.kind = kind,
                                        !.readings = S, !.alone = a]
        BY <1>1, <3>1, <4>1
      <4>3. QED
        BY <1>3, <4>2, IdleCallType DEF Call, RequestKinds
    <3>2. CASE e # c
      <4>1. call'[e] = [call[e] EXCEPT !.alone = FALSE] /\ call[e] \in Call
        BY <1>1, <3>2 DEF ReviewOK, TypeOK
      <4>2. QED
        BY <4>1 DEF Call
    <3>3. QED
      BY <3>1, <3>2
  <2>2. QED
    BY <1>1, <2>1
<1>7. allowed' \in Nat
  <2>1. allowed \in Nat /\ setting.width \in Nat
    BY ReviewAssumption DEF ReviewOK, TypeOK, InsightsTypeOK
  <2>2. Max({allowed, setting.width}) \in Nat
    BY <2>1, Greater
  <2>3. QED
    BY <1>1, <2>1, <2>2
<1>8. begun' \in 0..setting.calls
  BY MayEnterTypes DEF ReviewOK, Generate
<1>9. QED
  BY <1>3, <1>4, <1>5, <1>6, <1>7, <1>8 DEF ReviewOK, ReadingsOK, TypeOK

\* A review writes the status and the reviews of a proposal.
LEMMA ReviewTypes ==
  ASSUME ReviewOK, NEW c \in Calls, NEW status \in Status,
         NEW reviews \in Seq(Decision), NEW next \in Call,
         call[c].id \in Ids, Review(c, status, reviews, next)
  PROVE  /\ TypeOK' /\ Ids' = Ids
         /\ proposals'[call[c].id] = [proposals[call[c].id] EXCEPT
                                        !.status = status, !.reviews = reviews]
         /\ \A p \in Ids \ {call[c].id} : proposals'[p] = proposals[p]
         /\ call'[c] = next
         /\ \A e \in Calls \ {c} :
              call'[e] = [call[e] EXCEPT
                            !.alone = @ /\ ~Reopens(call[c].id, status)]
<1> DEFINE p == call[c].id
<1>1. proposals[p] \in Proposal
  BY IdsAreNumbers DEF ReviewOK
<1>2. PICK row \in Proposal :
        row = [proposals[p] EXCEPT !.status = status, !.reviews = reviews]
  BY <1>1 DEF Proposal
<1>3. SetProposal(p, row)
  BY <1>2 DEF Review
<1>4. /\ proposals' \in Seq(Proposal) /\ Len(proposals') = Len(proposals)
      /\ Ids' = Ids /\ proposals'[p] = row
      /\ \A q \in Ids \ {p} : proposals'[q] = proposals[q]
  BY <1>3, SetProposalTypes DEF ReviewOK
<1>5. call' = [e \in Calls |->
                 IF e = c THEN next
                 ELSE [call[e] EXCEPT !.alone = @ /\ ~Reopens(p, status)]]
  BY DEF Review
<1>6. PICK r \in BOOLEAN : r = Reopens(p, status)
  BY DEF Reopens
<1>7. ASSUME NEW e \in Calls PROVE call'[e] \in Call
  <2>1. call[e] \in Call
    BY DEF ReviewOK, TypeOK
  <2>2. e # c => call'[e] = [call[e] EXCEPT !.alone = @ /\ ~r]
    BY <1>5, <1>6
  <2>3. e # c => call'[e] \in Call
    BY <2>1, <2>2 DEF Call
  <2>4. e = c => call'[e] = next
    BY <1>5
  <2>5. QED
    BY <2>3, <2>4
<1>8. call' \in [Calls -> Call]
  BY <1>5, <1>7
<1>9. allowed' \in Nat
  BY DEF Review, ReviewOK, TypeOK
<1>10. TypeOK'
  <2>1. UNCHANGED <<insightVars, decisions, told, begun>>
    BY DEF Review
  <2>2. InsightsTypeOK' /\ begun' \in 0..setting'.calls
    BY <2>1 DEF ReviewOK, TypeOK, InsightsTypeOK, insightVars
  <2>3. QED
    BY <1>4, <1>8, <1>9, <2>1, <2>2 DEF ReviewOK, TypeOK
<1>11. QED
  BY <1>2, <1>4, <1>5, <1>10

\* The types do not depend on what a request leaves alone.
LEMMA ReadingsUntouched ==
  ASSUME ReadingsOK, UNCHANGED insightVars
  PROVE  ReadingsOK' /\ InsightsTypeOK' /\ setting' = setting
  BY DEF ReadingsOK, InsightsTypeOK, TellsSomething, insightVars

\* Archiving changes statuses only.
LEMMA ArchiveTypes ==
  ASSUME ReviewOK, NEW c \in Calls, Archive(c)
  PROVE  /\ proposals' \in Seq(Proposal) /\ Len(proposals') = Len(proposals)
         /\ Ids' = Ids
         /\ \A p \in Ids :
              proposals'[p] = IF /\ call[c].kind = "refresh"
                                 /\ p \in call[c].existing \ call[c].used
                              THEN [proposals[p] EXCEPT !.status = "ARCHIVED"]
                              ELSE proposals[p]
<1>1. proposals' = [p \in Ids |->
        IF call[c].kind = "refresh" /\ p \in call[c].existing \ call[c].used
        THEN [proposals[p] EXCEPT !.status = "ARCHIVED"] ELSE proposals[p]]
  BY DEF Archive
<1>2. Ids = 1..Len(proposals) /\ Len(proposals) \in Nat
  BY IdsAreNumbers DEF ReviewOK
<1>3. ASSUME NEW p \in Ids PROVE proposals'[p] \in Proposal
  <2>1. proposals[p] \in Proposal
    BY IdsAreNumbers DEF ReviewOK
  <2>2. [proposals[p] EXCEPT !.status = "ARCHIVED"] \in Proposal
    BY <2>1 DEF Proposal, Status
  <2>3. QED
    BY <1>1, <2>1, <2>2
<1>4. proposals' \in [1..Len(proposals) -> Proposal]
  BY <1>1, <1>2, <1>3
<1>5. proposals' \in Seq(Proposal) /\ Len(proposals') = Len(proposals)
  BY <1>2, <1>4, FunctionIsSeq
<1>6. Ids' = Ids
  BY <1>1 DEF Ids
<1>7. QED
  BY <1>1, <1>5, <1>6

\* A recommendation becomes a proposal.
LEMMA CreateCases ==
  ASSUME ReviewOK, NEW c \in Calls, CreateFromRecommendation(c)
  PROVE  /\ Len(proposals) < MaxProposals
         /\ \E row \in call[c].source : \E new \in Proposal :
              /\ new.source = "recommendation" /\ new.status = "PENDING"
              /\ new.recommendation = row.id /\ new.reviews = <<>>
              /\ proposals' = Append(proposals, new)
         /\ Finish(c)
<1>1. PICK row \in call[c].source :
        proposals' = Append(proposals,
          [source |-> "recommendation", condition |-> row.condition,
           version |-> row.version, recommendation |-> row.id,
           status |-> "PENDING", reviews |-> <<>>])
  BY DEF CreateFromRecommendation
<1>2. row \in Row /\ MaxRows \in Nat
  BY InsightsAssumption DEF ReviewOK, TypeOK, Call
<1>3. <<>> \in Seq(Decision)
  BY EmptySeq
<1>4. PICK new : new = [source |-> "recommendation",
                        condition |-> row.condition, version |-> row.version,
                        recommendation |-> row.id, status |-> "PENDING",
                        reviews |-> <<>>]
  OBVIOUS
<1>5. new \in Proposal
  BY <1>2, <1>3, <1>4 DEF Row, Proposal, Status
<1>6. QED
  BY <1>1, <1>4, <1>5 DEF CreateFromRecommendation

\* One more is counted of one decision of one proposal.
LEMMA OneMore ==
  ASSUME NEW f \in [ProposalIds -> [Decision -> Nat]], NEW p \in ProposalIds,
         NEW d \in Decision, NEW g, g = [f EXCEPT ![p][d] = @ + 1]
  PROVE  /\ g \in [ProposalIds -> [Decision -> Nat]]
         /\ g[p][d] = f[p][d] + 1
         /\ \A q \in ProposalIds, e \in Decision :
              q # p \/ e # d => g[q][e] = f[q][e]
<1>1. PICK h : h = [f[p] EXCEPT ![d] = @ + 1]
  OBVIOUS
<1>2. f[p] \in [Decision -> Nat] /\ f[p][d] \in Nat
  OBVIOUS
<1>3. /\ h \in [Decision -> Nat] /\ h[d] = f[p][d] + 1
      /\ \A e \in Decision \ {d} : h[e] = f[p][e]
  BY <1>1, <1>2
<1>4. g = [f EXCEPT ![p] = h]
  BY <1>1
<1>5. /\ g \in [ProposalIds -> [Decision -> Nat]] /\ g[p] = h
      /\ \A q \in ProposalIds \ {p} : g[q] = f[q]
  BY <1>3, <1>4
<1>6. QED
  BY <1>3, <1>5

\* A step of a request keeps the types.
LEMMA CallStepTypes ==
  ASSUME ReviewOK, NEW c \in Calls, CallStep(c)
  PROVE  TypeOK'
<1>1. /\ call[c] \in Call /\ call \in [Calls -> Call] /\ Shape(c)
      /\ proposals \in Seq(Proposal) /\ Len(proposals) <= MaxProposals
  BY DEF ReviewOK, CallShape, TypeOK
<1> DEFINE Rest == /\ UNCHANGED <<insightVars, decisions, told, begun>>
                   /\ allowed' \in Nat
<1>2. ASSUME Rest, call' \in [Calls -> Call], proposals' \in Seq(Proposal),
             Len(proposals') <= MaxProposals
      PROVE  TypeOK'
  <2>1. InsightsTypeOK' /\ setting' = setting
    BY <1>2, ReadingsUntouched DEF ReviewOK
  <2>2. QED
    BY <1>2, <2>1 DEF ReviewOK, TypeOK
<1>3. allowed \in Nat
  BY DEF ReviewOK, TypeOK
<1>4. CASE BuildDrafts(c)
  <2>1. PICK D \in Drafts :
          SetCall(c, [call[c] EXCEPT !.pc = "built", !.drafts = D])
    BY <1>4 DEF BuildDrafts
  <2>2. [call[c] EXCEPT !.pc = "built", !.drafts = D] \in Call
    <3>1. D \in SUBSET Draft
      BY DraftsOfWorld DEF ReviewOK, ReadingsOK
    <3>2. QED
      BY <1>1, <3>1 DEF Call
  <2>3. call' \in [Calls -> Call]
    BY <2>1, <2>2, SetCallTypes DEF ReviewOK
  <2>4. QED
    BY <1>1, <1>2, <1>3, <1>4, <2>3 DEF BuildDrafts
<1>5. CASE LoadExisting(c)
  <2>1. PICK E \in SUBSET ProposalIds :
          E = {p \in Newest(From("engine"), EngineWindow) :
                 proposals[p].status \in ActiveGenerated}
    BY IdsAreNumbers DEF ReviewOK, Newest
  <2>2. [call[c] EXCEPT !.pc = "persisting", !.existing = E] \in Call
    BY <1>1 DEF Call
  <2>3. call' \in [Calls -> Call]
    BY <1>5, <2>1, <2>2, SetCallTypes DEF LoadExisting, ReviewOK
  <2>4. QED
    BY <1>1, <1>2, <1>3, <1>5, <2>3 DEF LoadExisting
<1>6. CASE Persist(c)
  <2>1. Rest
    BY <1>3, <1>6 DEF Persist
  <2>2. PICK fields \in Call : SetCall(c, fields)
    BY <1>6, PersistCases DEF ReviewOK
  <2>3. call' \in [Calls -> Call]
    BY <2>2, SetCallTypes DEF ReviewOK
  <2>4. \/ \E p \in Ids, row \in Proposal : SetProposal(p, row)
        \/ /\ Len(proposals) < MaxProposals
           /\ \E row \in Proposal : proposals' = Append(proposals, row)
    BY <1>6, PersistCases, IdsAreNumbers DEF ReviewOK
  <2>5. proposals' \in Seq(Proposal) /\ Len(proposals') <= MaxProposals
    <3>1. CASE \E p \in Ids, row \in Proposal : SetProposal(p, row)
      BY <1>1, <3>1, SetProposalTypes DEF ReviewOK
    <3>2. CASE /\ Len(proposals) < MaxProposals
               /\ \E row \in Proposal : proposals' = Append(proposals, row)
      <4>1. proposals' \in Seq(Proposal)
            /\ Len(proposals') = Len(proposals) + 1
        BY <3>2, AppendTypes DEF ReviewOK
      <4>2. Len(proposals) \in Nat /\ MaxProposals \in Nat
        BY IdsAreNumbers, ReviewAssumption DEF ReviewOK
      <4>3. QED
        BY <3>2, <4>1, <4>2
    <3>3. QED
      BY <2>4, <3>1, <3>2
  <2>6. QED
    BY <1>2, <2>1, <2>3, <2>5
<1>7. CASE Archive(c)
  <2>1. call' \in [Calls -> Call]
    BY <1>7, SetCallTypes, IdleCallType DEF Archive, Finish, ReviewOK
  <2>2. Rest
    BY <1>3, <1>7 DEF Archive
  <2>3. QED
    BY <1>1, <1>2, <1>7, <2>1, <2>2, ArchiveTypes
<1>8. CASE Abandon(c)
  <2>1. call' \in [Calls -> Call]
    BY <1>8, SetCallTypes, IdleCallType DEF Abandon, Finish, ReviewOK
  <2>2. QED
    BY <1>1, <1>2, <1>3, <1>8, <2>1 DEF Abandon
<1>9. CASE LookForDuplicate(c)
  <2>1. [call[c] EXCEPT !.pc = "clear"] \in Call
    BY <1>1 DEF Call
  <2>2. call' \in [Calls -> Call]
    BY <1>9, <2>1, SetCallTypes, IdleCallType
      DEF LookForDuplicate, Finish, CallGoto, ReviewOK
  <2>3. QED
    BY <1>1, <1>2, <1>3, <1>9, <2>2 DEF LookForDuplicate
<1>10. CASE CreateFromRecommendation(c)
  <2>1. call' \in [Calls -> Call]
    BY <1>10, SetCallTypes, IdleCallType
      DEF CreateFromRecommendation, Finish, ReviewOK
  <2>2. PICK new \in Proposal : proposals' = Append(proposals, new)
    BY <1>10, CreateCases
  <2>3. proposals' \in Seq(Proposal) /\ Len(proposals') = Len(proposals) + 1
        /\ Len(proposals) < MaxProposals
    BY <1>10, <2>2, AppendTypes, CreateCases DEF ReviewOK
  <2>4. Len(proposals) \in Nat /\ MaxProposals \in Nat
    BY IdsAreNumbers, ReviewAssumption DEF ReviewOK
  <2>5. QED
    BY <1>2, <1>3, <1>10, <2>1, <2>3, <2>4 DEF CreateFromRecommendation
<1>11. CASE Submit(c)
  <2>1. call[c].id \in Ids /\ proposals[call[c].id] \in Proposal
    BY <1>1, <1>11, IdsAreNumbers DEF Submit, Shape, ReviewOK
  <2>2. PICK r \in Seq(Decision) : r = proposals[call[c].id].reviews
    BY <2>1 DEF Proposal
  <2>3. Review(c, "IN_REVIEW", r, IdleCall) /\ "IN_REVIEW" \in Status
    BY <1>11, <2>2 DEF Submit, Status
  <2>4. QED
    BY <2>1, <2>3, ReviewTypes, IdleCallType
<1>12. CASE Decide(c)
  <2>1. call[c].id \in Ids /\ proposals[call[c].id] \in Proposal
    BY <1>1, <1>12, IdsAreNumbers DEF Decide, Shape, ReviewOK
  <2>2. PICK d \in Decision : d = call[c].decision
    BY <1>1 DEF Call
  <2>3. PICK r \in Seq(Decision) :
          r = Append(proposals[call[c].id].reviews, d)
    BY <2>1, AppendProperties DEF Proposal
  <2>4. PICK next \in Call : next = [call[c] EXCEPT !.pc = "decided"]
    BY <1>1 DEF Call
  <2>5. Review(c, d, r, next) /\ d \in Status
    BY <1>12, <2>2, <2>3, <2>4 DEF Decide, Status
  <2>6. QED
    BY <2>1, <2>5, ReviewTypes
<1>13. CASE LookForDecisionNote(c)
  <2>1. /\ [call[c] EXCEPT !.pc = "told"] \in Call
        /\ [call[c] EXCEPT !.pc = "telling"] \in Call
    BY <1>1 DEF Call
  <2>2. call' \in [Calls -> Call]
    BY <1>13, <2>1, SetCallTypes DEF LookForDecisionNote, CallGoto, ReviewOK
  <2>3. QED
    BY <1>1, <1>2, <1>3, <1>13, <2>2 DEF LookForDecisionNote
<1>14. CASE NotifyDecision(c) \/ RecordDecision(c)
  <2>1. [call[c] EXCEPT !.pc = "told"] \in Call
    BY <1>1 DEF Call
  <2>2. call' \in [Calls -> Call]
    BY <1>14, <2>1, SetCallTypes, IdleCallType
      DEF NotifyDecision, RecordDecision, CallGoto, Finish, ReviewOK
  <2>3. PICK p \in ProposalIds, d \in Decision :
          p = call[c].id /\ d = call[c].decision
    BY <1>1, <1>14, IdsAreNumbers
      DEF NotifyDecision, RecordDecision, Shape, Call, ReviewOK
  <2>4. /\ told' \in [ProposalIds -> [Decision -> Nat]]
        /\ decisions' \in [ProposalIds -> [Decision -> Nat]]
    <3>1. told \in [ProposalIds -> [Decision -> Nat]]
          /\ decisions \in [ProposalIds -> [Decision -> Nat]]
      BY DEF ReviewOK, TypeOK
    <3>2. CASE NotifyDecision(c)
      <4>1. PICK g : g = told'
        OBVIOUS
      <4>2. g = [told EXCEPT ![p][d] = @ + 1] /\ decisions' = decisions
        BY <2>3, <3>2, <4>1 DEF NotifyDecision
      <4>3. g \in [ProposalIds -> [Decision -> Nat]]
        BY <3>1, <4>2, OneMore
      <4>4. QED
        BY <3>1, <4>1, <4>2, <4>3
    <3>3. CASE RecordDecision(c)
      <4>1. PICK g : g = decisions'
        OBVIOUS
      <4>2. g = [decisions EXCEPT ![p][d] = @ + 1] /\ told' = told
        BY <2>3, <3>3, <4>1 DEF RecordDecision
      <4>3. g \in [ProposalIds -> [Decision -> Nat]]
        BY <3>1, <4>2, OneMore
      <4>4. QED
        BY <3>1, <4>1, <4>2, <4>3
    <3>4. QED
      BY <1>14, <3>2, <3>3
  <2>5. UNCHANGED <<insightVars, proposals, begun, allowed>>
    BY <1>14 DEF NotifyDecision, RecordDecision
  <2>6. InsightsTypeOK' /\ setting' = setting
    BY <2>5, ReadingsUntouched DEF ReviewOK
  <2>7. QED
    BY <2>2, <2>4, <2>5, <2>6 DEF ReviewOK, TypeOK
<1>15. QED
  BY <1>4, <1>5, <1>6, <1>7, <1>8, <1>9, <1>10, <1>11, <1>12, <1>13, <1>14
    DEF CallStep

\* What a proposal was made from and for is never written again, and no
\* proposal goes away.
LEMMA ProposalsStay ==
  ASSUME ReviewOK, Next
  PROVE  /\ Ids \subseteq Ids' /\ setting' = setting
         /\ \A p \in Ids : /\ proposals'[p].source = proposals[p].source
                           /\ proposals'[p].condition = proposals[p].condition
                           /\ proposals'[p].recommendation
                                = proposals[p].recommendation
<1> DEFINE Stays(p) == /\ proposals'[p].source = proposals[p].source
                       /\ proposals'[p].condition = proposals[p].condition
                       /\ proposals'[p].recommendation
                            = proposals[p].recommendation
<1>1. TypeOK /\ \A p \in Ids : proposals[p] \in Proposal
  BY IdsAreNumbers DEF ReviewOK
<1>2. CASE proposals' = proposals
  <2>1. setting' = setting
    BY DEF Next, InsightsNext, Read, TaskStep, StopTask, WorldChanges,
         BuildSignals, Compare, Aim, Replace, LookForNote, Notify, ReadBack,
         Generate, FindRecommendation, BeginReview, CallStep, StopCall,
         BuildDrafts, LoadExisting, Persist, Archive, Abandon,
         LookForDuplicate, CreateFromRecommendation, Submit, Decide, Review,
         LookForDecisionNote, NotifyDecision, RecordDecision, insightVars
  <2>2. QED
    BY <1>2, <2>1 DEF Ids
<1>3. ASSUME NEW c \in Calls, Persist(c)
      PROVE  Ids \subseteq Ids' /\ \A p \in Ids : Stays(p)
  <2>1. CASE \E p \in Ids : \E v :
               LET row == [proposals[p] EXCEPT !.version = v]
               IN  row \in Proposal /\ SetProposal(p, row)
    <3>1. PICK p \in Ids : \E v :
            LET row == [proposals[p] EXCEPT !.version = v]
            IN  row \in Proposal /\ SetProposal(p, row)
      BY <2>1
    <3>2. PICK v : LET row == [proposals[p] EXCEPT !.version = v]
                   IN  row \in Proposal /\ SetProposal(p, row)
      BY <3>1
    <3>3. PICK row \in Proposal : /\ row = [proposals[p] EXCEPT !.version = v]
                                  /\ SetProposal(p, row)
      BY <3>2
    <3>4. Ids' = Ids /\ proposals'[p] = row
          /\ \A q \in Ids \ {p} : proposals'[q] = proposals[q]
      BY <1>1, <3>3, SetProposalTypes
    <3>5. Stays(p)
      BY <1>1, <3>3, <3>4 DEF Proposal
    <3>6. QED
      BY <3>4, <3>5
  <2>2. CASE /\ Len(proposals) < MaxProposals
             /\ \E row \in Proposal : proposals' = Append(proposals, row)
    BY <1>1, <2>2, AppendTypes
  <2>3. QED
    BY <1>3, <2>1, <2>2, PersistCases, IdsAreNumbers DEF ReviewOK
<1>4. ASSUME NEW c \in Calls, Archive(c)
      PROVE  Ids \subseteq Ids' /\ \A p \in Ids : Stays(p)
  <2>1. Ids' = Ids
    BY <1>4, ArchiveTypes
  <2>2. ASSUME NEW p \in Ids PROVE Stays(p)
    <3>1. proposals'[p] \in {[proposals[p] EXCEPT !.status = "ARCHIVED"],
                             proposals[p]}
      BY <1>4, ArchiveTypes
    <3>2. QED
      BY <1>1, <3>1 DEF Proposal
  <2>3. QED
    BY <2>1, <2>2
<1>5. ASSUME NEW c \in Calls, CreateFromRecommendation(c)
      PROVE  Ids \subseteq Ids' /\ \A p \in Ids : Stays(p)
  BY <1>1, <1>5, CreateCases, AppendTypes
<1>6. ASSUME NEW c \in Calls, Submit(c) \/ Decide(c)
      PROVE  Ids \subseteq Ids' /\ \A p \in Ids : Stays(p)
  <2>1. call[c].id \in Ids
    BY <1>6 DEF Submit, Decide, ReviewOK, CallShape, Shape
  <2>2. PICK st, r : SetProposal(call[c].id,
                       [proposals[call[c].id] EXCEPT !.status = st,
                                                     !.reviews = r])
    BY <1>6 DEF Submit, Decide, Review
  <2>3. proposals' = [proposals EXCEPT ![call[c].id] =
                        [proposals[call[c].id] EXCEPT !.status = st,
                                                      !.reviews = r]]
    BY <2>2 DEF SetProposal
  <2>4. Ids' = Ids
    BY <2>3 DEF Ids
  <2>5. ASSUME NEW p \in Ids PROVE Stays(p)
    <3>1. proposals'[p] \in {[proposals[p] EXCEPT !.status = st, !.reviews = r],
                             proposals[p]}
      BY <2>3 DEF Ids
    <3>2. QED
      BY <1>1, <3>1 DEF Proposal
  <2>6. QED
    BY <2>4, <2>5
<1>7. ASSUME NEW c \in Calls,
             \/ Persist(c) \/ Archive(c) \/ CreateFromRecommendation(c)
             \/ Submit(c) \/ Decide(c)
      PROVE  setting' = setting
  BY <1>7 DEF Persist, Archive, CreateFromRecommendation, Submit, Decide,
       Review, insightVars
<1>8. \/ proposals' = proposals
      \/ \E c \in Calls : \/ Persist(c) \/ Archive(c) \/ Submit(c) \/ Decide(c)
                          \/ CreateFromRecommendation(c)
  BY DEF Next, reviewVars, Generate, FindRecommendation, BeginReview, CallStep,
       StopCall, BuildDrafts, LoadExisting, Abandon, LookForDuplicate,
       LookForDecisionNote, NotifyDecision, RecordDecision
<1>9. QED
  BY <1>2, <1>3, <1>4, <1>5, <1>6, <1>7, <1>8

\* So what comes from a source only grows.
LEMMA SourcesGrow ==
  ASSUME ReviewOK, Next, NEW source
  PROVE  From(source) \subseteq From(source)'
  BY ProposalsStay DEF From

\* A request that writes nothing of its own, or only loses that it is alone,
\* keeps its shape.
LEMMA OthersKeepShape ==
  ASSUME ReviewOK, Next, NEW e \in Calls,
         \/ call'[e] = call[e]
         \/ \E b \in BOOLEAN : call'[e] = [call[e] EXCEPT !.alone = @ /\ b]
  PROVE  Shape(e)'
<1>1. Shape(e) /\ call[e] \in Call
  BY DEF ReviewOK, CallShape, TypeOK
<1>2. /\ call'[e].pc = call[e].pc /\ call'[e].kind = call[e].kind
      /\ call'[e].id = call[e].id /\ call'[e].existing = call[e].existing
      /\ call'[e].used = call[e].used
      /\ call'[e].alone => call[e].alone
  BY <1>1 DEF Call
<1>3. Ids \subseteq Ids' /\ From("engine") \subseteq From("engine")'
  BY ProposalsStay, SourcesGrow
<1>4. QED
  BY <1>1, <1>2, <1>3 DEF Shape, InFlight

\* A request that has ended has the shape of one.
LEMMA EndedShape ==
  ASSUME NEW c \in Calls, call'[c] = IdleCall
  PROVE  Shape(c)'
  BY DEF Shape, IdleCall

\* The requests keep their shape.
LEMMA StepShape ==
  ASSUME ReviewOK, Next
  PROVE  CallShape'
<1> USE DEF CallShape
<1>1. /\ call \in [Calls -> Call] /\ \A e \in Calls : call[e] \in Call
      /\ \A e \in Calls : Shape(e)
  BY DEF ReviewOK, TypeOK
<1>2. /\ Ids \subseteq Ids'
      /\ \A source : From(source) \subseteq From(source)'
  BY ProposalsStay, SourcesGrow
<1>3. CASE call' = call
  BY <1>3, OthersKeepShape
<1>4. ASSUME NEW c \in Calls, NEW fields, SetCall(c, fields), Shape(c)'
      PROVE  CallShape'
  <2>1. \A e \in Calls \ {c} : call'[e] = call[e]
    BY <1>1, <1>4 DEF SetCall
  <2>2. QED
    BY <1>4, <2>1, OthersKeepShape
<1>5. ASSUME NEW c \in Calls, Finish(c) PROVE CallShape'
  <2>1. call'[c] = IdleCall
    BY <1>1, <1>5 DEF Finish, SetCall
  <2>2. QED
    BY <1>4, <1>5, <2>1, EndedShape DEF Finish
<1>6. ASSUME NEW c \in Calls, NEW kind \in Generates, Generate(c, kind)
      PROVE  CallShape'
  <2>1. PICK S \in SUBSET Idle :
          call' = [e \in Calls |->
              IF e = c
              THEN [IdleCall EXCEPT !.pc = "building", !.kind = kind,
                                    !.readings = S,
                                    !.alone = Handled(Generates) = {}]
              ELSE [call[e] EXCEPT !.alone = FALSE]]
    BY <1>6 DEF Generate
  <2>2. Shape(c)'
    <3>1. /\ call'[c].pc = "building" /\ call'[c].kind = kind
          /\ call'[c].existing = {} /\ call'[c].used = {}
      BY <2>1 DEF IdleCall
    <3>2. QED
      BY <3>1 DEF Shape, InFlight
  <2>3. ASSUME NEW e \in Calls \ {c} PROVE Shape(e)'
    <3>1. call'[e] = [call[e] EXCEPT !.alone = @ /\ FALSE]
      BY <1>1, <2>1 DEF Call
    <3>2. QED
      BY <3>1, OthersKeepShape
  <2>4. QED
    BY <2>2, <2>3
<1>7. ASSUME NEW c \in Calls, FindRecommendation(c) PROVE CallShape'
  <2>1. PICK row : SetCall(c, [IdleCall EXCEPT !.pc = "found",
                                               !.kind = "create",
                                               !.source = {row}])
    BY <1>7 DEF FindRecommendation
  <2>2. Shape(c)'
    <3>1. /\ call'[c].pc = "found" /\ call'[c].kind = "create"
          /\ call'[c].existing = {} /\ call'[c].used = {}
          /\ call'[c].alone = FALSE
      BY <1>1, <2>1 DEF IdleCall, SetCall
    <3>2. QED
      BY <3>1 DEF Shape
  <2>3. QED
    BY <1>4, <2>1, <2>2
<1>8. ASSUME NEW c \in Calls, NEW kind \in Reviews, NEW p, NEW d,
             BeginReview(c, kind, p, d)
      PROVE  CallShape'
  <2>1. SetCall(c, [IdleCall EXCEPT !.pc = "read", !.kind = kind, !.id = p,
                                    !.decision = d]) /\ p \in Ids
    BY <1>8 DEF BeginReview
  <2>2. Shape(c)'
    <3>1. /\ call'[c].pc = "read" /\ call'[c].kind = kind
          /\ call'[c].existing = {} /\ call'[c].used = {}
          /\ call'[c].alone = FALSE /\ call'[c].id \in Ids
      BY <1>1, <2>1 DEF IdleCall, SetCall
    <3>2. QED
      BY <1>2, <3>1 DEF Shape
  <2>3. QED
    BY <1>4, <2>1, <2>2
<1>9. ASSUME NEW c \in Calls, BuildDrafts(c) PROVE CallShape'
  <2>1. PICK D \in Drafts :
          /\ SetCall(c, [call[c] EXCEPT !.pc = "built", !.drafts = D])
          /\ call[c].pc = "building"
    BY <1>9 DEF BuildDrafts
  <2>2. Shape(c)'
    <3>1. /\ call'[c].pc = "built" /\ call'[c].kind = call[c].kind
          /\ call'[c].existing = call[c].existing
          /\ call'[c].used = call[c].used
      BY <1>1, <2>1 DEF Call, SetCall
    <3>2. QED
      BY <1>1, <1>2, <2>1, <3>1 DEF Shape, InFlight
  <2>3. QED
    BY <1>4, <2>1, <2>2
<1>10. ASSUME NEW c \in Calls, LoadExisting(c) PROVE CallShape'
  <2>1. PICK E \in SUBSET From("engine") :
          /\ SetCall(c, [call[c] EXCEPT !.pc = "persisting", !.existing = E])
          /\ call[c].pc = "built"
    BY <1>10 DEF LoadExisting, Newest
  <2>2. Shape(c)'
    <3>1. /\ call'[c].pc = "persisting" /\ call'[c].kind = call[c].kind
          /\ call'[c].existing = E /\ call'[c].used = call[c].used
      BY <1>1, <2>1 DEF Call, SetCall
    <3>2. QED
      BY <1>1, <1>2, <2>1, <3>1 DEF Shape, InFlight
  <2>3. QED
    BY <1>4, <2>1, <2>2
<1>11. ASSUME NEW c \in Calls, Persist(c) PROVE CallShape'
  <2>1. call[c].pc = "persisting"
    BY <1>11 DEF Persist
  <2>2. PICK draft \in call[c].drafts, n \in From("engine")' :
          SetCall(c, [call[c] EXCEPT !.drafts = @ \ {draft},
                                      !.used = @ \cup {n}])
    <3>1. PICK draft \in call[c].drafts :
            \/ \E p \in From("engine") :
                 SetCall(c, [call[c] EXCEPT !.drafts = @ \ {draft},
                                            !.used = @ \cup {p}])
            \/ /\ Len(proposals) < MaxProposals
               /\ \E row \in Proposal : /\ row.source = "engine"
                                        /\ proposals' = Append(proposals, row)
               /\ SetCall(c, [call[c] EXCEPT
                                !.drafts = @ \ {draft},
                                !.used = @ \cup {Len(proposals) + 1}])
      BY <1>11, PersistCases DEF ReviewOK
    <3>2. CASE \E row \in Proposal : /\ row.source = "engine"
                                     /\ Len(proposals) < MaxProposals
                                     /\ proposals' = Append(proposals, row)
      <4>1. Len(proposals) + 1 \in From("engine")'
        BY <3>2, AppendTypes DEF From, ReviewOK
      <4>2. QED
        BY <1>2, <3>1, <4>1
    <3>3. QED
      BY <1>2, <3>1, <3>2
  <2>3. Shape(c)'
    <3>1. /\ call'[c].pc = "persisting" /\ call'[c].kind = call[c].kind
          /\ call'[c].existing = call[c].existing
          /\ call'[c].used = call[c].used \cup {n}
      BY <1>1, <2>1, <2>2 DEF Call, SetCall
    <3>2. QED
      BY <1>1, <1>2, <2>1, <2>2, <3>1 DEF Shape, InFlight
  <2>4. QED
    BY <1>4, <2>2, <2>3
<1>12. ASSUME NEW c \in Calls, NEW to, CallGoto(c, to),
              <<call[c].pc, to>> \in
                {<<"found", "clear">>, <<"decided", "told">>,
                 <<"decided", "telling">>, <<"telling", "told">>}
       PROVE  CallShape'
  <2>1. SetCall(c, [call[c] EXCEPT !.pc = to])
    BY <1>12 DEF CallGoto
  <2>2. Shape(c)'
    <3>1. /\ call'[c].pc = to /\ call'[c].kind = call[c].kind
          /\ call'[c].existing = call[c].existing
          /\ call'[c].used = call[c].used /\ call'[c].id = call[c].id
          /\ call'[c].alone = call[c].alone
      BY <1>1, <2>1 DEF Call, SetCall
    <3>2. QED
      BY <1>1, <1>2, <1>12, <3>1 DEF Shape, InFlight
  <2>3. QED
    BY <1>4, <2>1, <2>2
<1>13. ASSUME NEW c \in Calls, Submit(c) \/ Decide(c) PROVE CallShape'
  <2>1. PICK st \in {"IN_REVIEW", call[c].decision},
             next \in {IdleCall, [call[c] EXCEPT !.pc = "decided"]} :
          /\ call[c].pc = "read"
          /\ next # IdleCall => call[c].kind = "decide"
          /\ call' = [e \in Calls |->
               IF e = c THEN next
               ELSE [call[e] EXCEPT !.alone = @ /\ ~Reopens(call[c].id, st)]]
    BY <1>13 DEF Submit, Decide, Review
  <2>2. Shape(c)'
    <3>1. CASE next = IdleCall
      BY <2>1, <3>1, EndedShape
    <3>2. CASE next = [call[c] EXCEPT !.pc = "decided"]
               /\ call[c].kind = "decide"
      <4>1. /\ call'[c].pc = "decided" /\ call'[c].kind = "decide"
            /\ call'[c].existing = call[c].existing
            /\ call'[c].used = call[c].used /\ call'[c].id = call[c].id
            /\ call'[c].alone = call[c].alone
        BY <1>1, <2>1, <3>2 DEF Call
      <4>2. QED
        BY <1>1, <1>2, <2>1, <3>2, <4>1 DEF Shape, InFlight
    <3>3. QED
      BY <2>1, <3>1, <3>2
  <2>3. ASSUME NEW e \in Calls \ {c} PROVE Shape(e)'
    <3>1. PICK b : b = ~Reopens(call[c].id, st)
      OBVIOUS
    <3>2. b \in BOOLEAN /\ call'[e] = [call[e] EXCEPT !.alone = @ /\ b]
      BY <2>1, <3>1 DEF Reopens
    <3>3. QED
      BY <3>2, OthersKeepShape
  <2>4. QED
    BY <2>2, <2>3
<1>14. ASSUME NEW c \in Calls, CallStep(c) PROVE CallShape'
  <2>1. CASE Archive(c) \/ Abandon(c) \/ CreateFromRecommendation(c)
             \/ RecordDecision(c)
    BY <1>5, <2>1 DEF Archive, Abandon, CreateFromRecommendation, RecordDecision
  <2>2. CASE LookForDuplicate(c)
    BY <1>5, <1>12, <2>2 DEF LookForDuplicate
  <2>3. CASE LookForDecisionNote(c) \/ NotifyDecision(c)
    BY <1>12, <2>3 DEF LookForDecisionNote, NotifyDecision
  <2>4. QED
    BY <1>9, <1>10, <1>11, <1>13, <1>14, <2>1, <2>2, <2>3 DEF CallStep
<1>15. ASSUME NEW c \in Calls, StopCall(c) PROVE CallShape'
  BY <1>5, <1>15 DEF StopCall
<1>16. CASE UNCHANGED reviewVars
  BY <1>3, <1>16 DEF reviewVars
<1>17. QED
  BY <1>6, <1>7, <1>8, <1>14, <1>15, <1>16, WhichSteps

\* All there is has its type and its shape, after every step.
LEMMA ReviewStepTypes == ReviewOK /\ [Next]_vars => ReviewOK'
<1> SUFFICES ASSUME ReviewOK, [Next]_vars PROVE ReviewOK'
  OBVIOUS
<1>1. CASE UNCHANGED vars
  BY <1>1 DEF vars, reviewVars, insightVars, ReviewOK, ReadingsOK, TypeOK,
       InsightsTypeOK, TellsSomething, CallShape, Shape, InFlight, From, Ids
<1>2. CASE Next
  <2>1. CallShape'
    BY <1>2, StepShape
  <2>2. ReadingsOK' /\ TypeOK'
    <3>1. CASE InsightsNext /\ UNCHANGED reviewVars
      <4>1. ReadingsOK'
        BY <3>1, InsightsStepTypes DEF ReviewOK
      <4>2. setting' = setting
        BY <1>2, ProposalsStay
      <4>3. QED
        BY <3>1, <4>1, <4>2 DEF ReviewOK, ReadingsOK, TypeOK, reviewVars
    <3>2. CASE \E c \in Calls, kind \in Generates : Generate(c, kind)
      BY <3>2, GenerateTypes
    <3>3. ASSUME NEW c \in Calls, NEW kind, NEW fields \in Call,
                 MayEnter(c, kind), SetCall(c, fields),
                 UNCHANGED <<insightVars, proposals, decisions, told, allowed>>
          PROVE  ReadingsOK' /\ TypeOK'
      <4>1. ReadingsOK' /\ InsightsTypeOK' /\ setting' = setting
        BY <3>3, ReadingsUntouched DEF ReviewOK
      <4>2. call' \in [Calls -> Call]
        BY <3>3, SetCallTypes DEF ReviewOK
      <4>3. begun' \in 0..setting.calls
        BY <3>3, MayEnterTypes DEF ReviewOK
      <4>4. QED
        BY <3>3, <4>1, <4>2, <4>3 DEF ReviewOK, TypeOK
    <3>4. ASSUME NEW c \in Calls, FindRecommendation(c)
          PROVE  ReadingsOK' /\ TypeOK'
      <4>1. PICK row \in active["recommendations"] :
              SetCall(c, [IdleCall EXCEPT !.pc = "found", !.kind = "create",
                                          !.source = {row}])
        BY <3>4 DEF FindRecommendation
      <4>2. row \in Row
        BY DEF ReviewOK, ReadingsOK, InsightsTypeOK, Kinds
      <4>3. [IdleCall EXCEPT !.pc = "found", !.kind = "create",
                             !.source = {row}] \in Call
        BY <4>2, IdleCallType DEF Call, RequestKinds
      <4>4. QED
        BY <3>3, <3>4, <4>1, <4>3 DEF FindRecommendation
    <3>5. ASSUME NEW c \in Calls, NEW kind \in Reviews, NEW p \in ProposalIds,
                 NEW d \in Decision, BeginReview(c, kind, p, d)
          PROVE  ReadingsOK' /\ TypeOK'
      <4>1. [IdleCall EXCEPT !.pc = "read", !.kind = kind, !.id = p,
                             !.decision = d] \in Call
        <5>1. p \in 0..MaxProposals /\ kind \in RequestKinds
          BY ReviewAssumption DEF RequestKinds, ProposalIds
        <5>2. QED
          BY <5>1, IdleCallType DEF Call
      <4>2. QED
        BY <3>3, <3>5, <4>1 DEF BeginReview
    <3>6. ASSUME NEW c \in Calls, CallStep(c) PROVE ReadingsOK' /\ TypeOK'
      <4>1. UNCHANGED insightVars
        BY <3>6 DEF CallStep, BuildDrafts, LoadExisting, Persist, Archive,
             Abandon, LookForDuplicate, CreateFromRecommendation, Submit,
             Decide, Review, LookForDecisionNote, NotifyDecision, RecordDecision
      <4>2. QED
        BY <3>6, <4>1, CallStepTypes, ReadingsUntouched DEF ReviewOK
    <3>7. ASSUME NEW c \in Calls, StopCall(c) PROVE ReadingsOK' /\ TypeOK'
      <4>1. call' \in [Calls -> Call]
        BY <3>7, SetCallTypes, IdleCallType DEF StopCall, Finish, ReviewOK
      <4>2. setting.stops \in Nat
        BY InsightsAssumption DEF ReviewOK, ReadingsOK, InsightsTypeOK
      <4>3. stops' \in 0..setting.stops
        BY <3>7, <4>2 DEF StopCall, ReviewOK, ReadingsOK, InsightsTypeOK
      <4>4. UNCHANGED <<world, tables, task, calm, bundle, changes, setting>>
        BY <3>7 DEF StopCall
      <4>5. ReadingsOK'
        BY <4>3, <4>4
          DEF ReviewOK, ReadingsOK, InsightsTypeOK, TellsSomething, tables
      <4>6. QED
        BY <3>7, <4>1, <4>4, <4>5 DEF StopCall, ReviewOK, ReadingsOK, TypeOK
    <3>8. QED
      BY <1>2, <3>1, <3>2, <3>4, <3>5, <3>6, <3>7, WhichSteps
  <2>3. QED
    BY <2>1, <2>2 DEF ReviewOK
<1>3. QED
  BY <1>1, <1>2

\* So at first.
LEMMA ReviewInitTypes == Init => ReviewOK
<1> SUFFICES ASSUME Init PROVE ReviewOK
  OBVIOUS
<1>1. ReadingsOK /\ InsightsTypeOK
  BY InsightsInitTypes DEF Init, ReadingsOK
<1>2. setting.calls \in Nat /\ MaxProposals \in Nat
  BY <1>1, ReviewAssumption DEF InsightsTypeOK
<1>3. proposals \in Seq(Proposal) /\ Len(proposals) = 0
  BY EmptySeq DEF Init
<1>4. call \in [Calls -> Call] /\ \A c \in Calls : call[c] = IdleCall
  BY IdleCallType DEF Init
<1>5. /\ decisions \in [ProposalIds -> [Decision -> Nat]]
      /\ told \in [ProposalIds -> [Decision -> Nat]]
  BY DEF Init
<1>6. begun \in 0..setting.calls /\ allowed \in Nat
  BY <1>2 DEF Init
<1>7. TypeOK
  BY <1>1, <1>2, <1>3, <1>4, <1>5, <1>6 DEF TypeOK
<1>8. CallShape
  BY <1>4 DEF CallShape, Shape, IdleCall
<1>9. QED
  BY <1>1, <1>7, <1>8 DEF ReviewOK

\* All there is has its type and its shape.
LEMMA ReviewAlwaysOK == Spec => []ReviewOK
  BY ReviewInitTypes, ReviewStepTypes, PTL DEF Spec

\* The rows, the readings and the requests of the intelligence service always
\* have their types.
THEOREM ReviewTypeCorrect == Spec => []TypeOK
<1>1. ReviewOK => TypeOK
  BY DEF ReviewOK
<1>2. QED
  BY <1>1, ReviewAlwaysOK, PTL

(***************************************************************************)
(* What a step does to the requests and to the proposals                   *)
(***************************************************************************)

\* A request that nothing is done to but that it is alone no more.
Rests(e) ==
  /\ call'[e].pc = call[e].pc /\ call'[e].kind = call[e].kind
  /\ call'[e].id = call[e].id /\ call'[e].decision = call[e].decision
  /\ call'[e].drafts = call[e].drafts
  /\ call'[e].existing = call[e].existing
  /\ call'[e].used = call[e].used /\ call'[e].source = call[e].source
  /\ call'[e].alone => call[e].alone

\* A request that begins.
Begins(c) ==
  \/ \E kind \in Generates : Generate(c, kind)
  \/ FindRecommendation(c)
  \/ \E kind \in Reviews, p \in ProposalIds, d \in Decision :
       BeginReview(c, kind, p, d)

\* A step moves one request at most.
LEMMA OneMoves ==
  ASSUME ReviewOK, Next
  PROVE  \/ \A e \in Calls : call'[e] = call[e]
         \/ \E c \in Calls : /\ Begins(c) \/ CallStep(c) \/ StopCall(c)
                             /\ \A e \in Calls \ {c} : Rests(e)
<1>1. call \in [Calls -> Call] /\ \A e \in Calls : call[e] \in Call
  BY DEF ReviewOK, TypeOK
<1>2. CASE UNCHANGED reviewVars
  BY <1>2 DEF reviewVars
<1>3. ASSUME NEW c \in Calls, NEW fields, SetCall(c, fields)
      PROVE  \A e \in Calls \ {c} : Rests(e)
  BY <1>1, <1>3 DEF SetCall, Rests
<1>4. ASSUME NEW c \in Calls, NEW kind \in Generates, Generate(c, kind)
      PROVE  \A e \in Calls \ {c} : Rests(e)
  <2> SUFFICES ASSUME NEW e \in Calls \ {c} PROVE Rests(e)
    OBVIOUS
  <2>1. call'[e] = [call[e] EXCEPT !.alone = FALSE]
    BY <1>4 DEF Generate
  <2>2. QED
    BY <1>1, <2>1 DEF Call, Rests
<1>5. ASSUME NEW c \in Calls, NEW status, NEW reviews, NEW next,
             Review(c, status, reviews, next)
      PROVE  \A e \in Calls \ {c} : Rests(e)
  <2> SUFFICES ASSUME NEW e \in Calls \ {c} PROVE Rests(e)
    OBVIOUS
  <2>1. PICK b : b = ~Reopens(call[c].id, status)
    OBVIOUS
  <2>2. call'[e] = [call[e] EXCEPT !.alone = @ /\ b]
    BY <1>5, <2>1 DEF Review
  <2>3. QED
    BY <1>1, <2>2 DEF Call, Rests
<1>6. ASSUME NEW c \in Calls, CallStep(c) \/ StopCall(c)
      PROVE  \A e \in Calls \ {c} : Rests(e)
  <2>1. CASE Submit(c) \/ Decide(c)
    BY <1>5, <2>1 DEF Submit, Decide
  <2>2. CASE ~(Submit(c) \/ Decide(c))
    <3>1. \E fields : SetCall(c, fields)
      <4>1. CASE Persist(c)
        BY <4>1, PersistCases DEF ReviewOK
      <4>2. CASE ~Persist(c)
        BY <1>6, <2>2, <4>2 DEF CallStep, StopCall, BuildDrafts, LoadExisting,
             Archive, Abandon, LookForDuplicate, CreateFromRecommendation,
             LookForDecisionNote, NotifyDecision, RecordDecision, Finish,
             CallGoto
      <4>3. QED
        BY <4>1, <4>2
    <3>2. QED
      BY <1>3, <3>1
  <2>3. QED
    BY <2>1, <2>2
<1>7. ASSUME NEW c \in Calls, FindRecommendation(c)
      PROVE  \A e \in Calls \ {c} : Rests(e)
  BY <1>3, <1>7 DEF FindRecommendation
<1>8. ASSUME NEW c \in Calls, NEW kind, NEW p, NEW d, BeginReview(c, kind, p, d)
      PROVE  \A e \in Calls \ {c} : Rests(e)
  BY <1>3, <1>8 DEF BeginReview
<1>9. ASSUME NEW c \in Calls, Begins(c)
      PROVE  \A e \in Calls \ {c} : Rests(e)
  BY <1>4, <1>7, <1>8, <1>9 DEF Begins
<1>10. \/ UNCHANGED reviewVars
       \/ \E c \in Calls : Begins(c) \/ CallStep(c) \/ StopCall(c)
  BY WhichSteps DEF Begins
<1>11. QED
  BY <1>2, <1>6, <1>9, <1>10

\* A request keeps its kind, its proposal and its decision as long as it is
\* under way.
LEMMA StepsKeepKind ==
  ASSUME ReviewOK, NEW c \in Calls, CallStep(c) \/ StopCall(c)
  PROVE  /\ InFlight(c)
         /\ \/ call'[c] = IdleCall
            \/ /\ call'[c].kind = call[c].kind /\ call'[c].id = call[c].id
               /\ call'[c].decision = call[c].decision
<1>1. call \in [Calls -> Call] /\ call[c] \in Call
  BY DEF ReviewOK, TypeOK
<1>2. InFlight(c)
  BY DEF CallStep, StopCall, BuildDrafts, LoadExisting, Persist, Archive,
       Abandon, LookForDuplicate, CreateFromRecommendation, Submit, Decide,
       LookForDecisionNote, NotifyDecision, RecordDecision, InFlight
<1>3. ASSUME Finish(c) PROVE call'[c] = IdleCall
  BY <1>1, <1>3 DEF Finish, SetCall
<1>4. ASSUME NEW to, CallGoto(c, to)
      PROVE  /\ call'[c].kind = call[c].kind /\ call'[c].id = call[c].id
             /\ call'[c].decision = call[c].decision
  BY <1>1, <1>4 DEF CallGoto, SetCall, Call
<1>5. CASE Persist(c)
  <2>1. PICK draft, n : SetCall(c, [call[c] EXCEPT !.drafts = @ \ {draft},
                                                   !.used = @ \cup {n}])
    BY <1>5, PersistCases DEF ReviewOK
  <2>2. QED
    BY <1>1, <1>2, <2>1 DEF SetCall, Call
<1>6. CASE BuildDrafts(c)
  BY <1>1, <1>2, <1>6 DEF BuildDrafts, SetCall, Call
<1>7. CASE LoadExisting(c)
  <2>1. PICK E : SetCall(c, [call[c] EXCEPT !.pc = "persisting",
                                            !.existing = E])
    BY <1>7 DEF LoadExisting
  <2>2. QED
    BY <1>1, <1>2, <2>1 DEF SetCall, Call
<1>8. CASE Submit(c)
  BY <1>1, <1>2, <1>8 DEF Submit, Review
<1>9. CASE Decide(c)
  <2>1. call'[c] = [call[c] EXCEPT !.pc = "decided"]
    BY <1>9 DEF Decide, Review
  <2>2. QED
    BY <1>1, <1>2, <2>1 DEF Call
<1>10. QED
  BY <1>2, <1>3, <1>4, <1>5, <1>6, <1>7, <1>8, <1>9
    DEF CallStep, StopCall, Archive, Abandon, LookForDuplicate,
      CreateFromRecommendation, LookForDecisionNote, NotifyDecision,
      RecordDecision

\* Who begins was not under way, and may enter as the request it then is.
LEMMA BeginsEnter ==
  ASSUME ReviewOK, NEW c \in Calls, Begins(c)
  PROVE  /\ MayEnter(c, call'[c].kind) /\ call'[c].kind \in RequestKinds
         /\ proposals' = proposals /\ decisions' = decisions /\ told' = told
         /\ stops' = stops
<1>1. call \in [Calls -> Call]
  BY DEF ReviewOK, TypeOK
<1>2. ASSUME NEW kind \in Generates, Generate(c, kind)
      PROVE  call'[c].kind = kind
  <2>1. PICK S, a : call'[c] = [IdleCall EXCEPT !.pc = "building",
                                  !.kind = kind, !.readings = S, !.alone = a]
    BY <1>2 DEF Generate
  <2>2. QED
    BY <2>1 DEF IdleCall
<1>3. ASSUME FindRecommendation(c) PROVE call'[c].kind = "create"
  BY <1>1, <1>3 DEF FindRecommendation, SetCall, IdleCall
<1>4. ASSUME NEW kind \in Reviews, NEW p, NEW d, BeginReview(c, kind, p, d)
      PROVE  call'[c].kind = kind
  BY <1>1, <1>4 DEF BeginReview, SetCall, IdleCall
<1>5. \/ \E kind \in Generates : MayEnter(c, kind) /\ call'[c].kind = kind
      \/ MayEnter(c, "create") /\ call'[c].kind = "create"
      \/ \E kind \in Reviews : MayEnter(c, kind) /\ call'[c].kind = kind
  BY <1>2, <1>3, <1>4
    DEF Begins, Generate, FindRecommendation, BeginReview
<1>6. MayEnter(c, call'[c].kind) /\ call'[c].kind \in RequestKinds
  BY <1>5 DEF RequestKinds
<1>7. QED
  BY <1>6 DEF Begins, Generate, FindRecommendation, BeginReview, insightVars

\* Requests of some kinds are finitely many.
LEMMA FinitelyHandled ==
  ASSUME NEW kinds
  PROVE  /\ IsFiniteSet(Handled(kinds)) /\ Cardinality(Handled(kinds)) \in Nat
         /\ Handled(kinds) \subseteq Calls
<1>1. Handled(kinds) \subseteq Calls
  BY DEF Handled
<1>2. QED
  BY <1>1, ReviewAssumption, FS_Subset, FS_CardinalityType

\* Of a set with one element at most all elements are the same.
LEMMA AtMostOne ==
  ASSUME NEW S, IsFiniteSet(S), Cardinality(S) <= 1, NEW x \in S, NEW y \in S
  PROVE  x = y
<1>1. {x, y} \in SUBSET S
  OBVIOUS
<1>2. IsFiniteSet({x}) /\ Cardinality({x}) = 1
  BY FS_Singleton
<1>3. {x, y} = {x} \cup {y}
  OBVIOUS
<1>4. Cardinality({x, y}) = IF y \in {x} THEN 1 ELSE 2
  BY <1>2, <1>3, FS_AddElement
<1>5. Cardinality({x, y}) <= Cardinality(S) /\ Cardinality(S) \in Nat
  BY <1>1, FS_Subset, FS_CardinalityType
<1>6. QED
  BY <1>4, <1>5

\* And a set whose elements are all the same has one at most.
LEMMA OneAtMost ==
  ASSUME NEW S, \A x, y \in S : x = y
  PROVE  IsFiniteSet(S) /\ Cardinality(S) <= 1 /\ Cardinality(S) \in Nat
<1>1. CASE S = {}
  BY <1>1, FS_EmptySet
<1>2. CASE S # {}
  <2>1. PICK x \in S : TRUE
    BY <1>2
  <2>2. S = {x}
    BY <2>1
  <2>3. IsFiniteSet({x}) /\ Cardinality({x}) = 1
    BY FS_Singleton
  <2>4. QED
    BY <2>2, <2>3
<1>3. QED
  BY <1>1, <1>2

\* A request that is under way was so before, or enters.
LEMMA WhoEnters ==
  ASSUME ReviewOK, Next, NEW kinds \in SUBSET RequestKinds
  PROVE  \/ Handled(kinds)' \subseteq Handled(kinds)
         \/ \E c \in Calls, kind \in kinds :
              /\ MayEnter(c, kind) /\ Begins(c)
              /\ Handled(kinds)' \subseteq Handled(kinds) \cup {c}
<1>1. CASE \A e \in Calls : call'[e] = call[e]
  BY <1>1 DEF Handled, InFlight
<1>2. ASSUME NEW c \in Calls, CallStep(c) \/ StopCall(c),
             \A e \in Calls \ {c} : Rests(e)
      PROVE  Handled(kinds)' \subseteq Handled(kinds)
  <2>1. InFlight(c) /\ (call'[c] = IdleCall \/ call'[c].kind = call[c].kind)
    BY <1>2, StepsKeepKind
  <2>2. QED
    BY <1>2, <2>1 DEF Handled, InFlight, Rests, IdleCall
<1>3. ASSUME NEW c \in Calls, Begins(c), \A e \in Calls \ {c} : Rests(e)
      PROVE  \/ Handled(kinds)' \subseteq Handled(kinds)
             \/ \E kind \in kinds :
                  /\ MayEnter(c, kind)
                  /\ Handled(kinds)' \subseteq Handled(kinds) \cup {c}
  <2>1. MayEnter(c, call'[c].kind)
    BY <1>3, BeginsEnter
  <2>2. Handled(kinds)' \subseteq Handled(kinds) \cup {c}
    BY <1>3 DEF Handled, InFlight, Rests
  <2>3. CASE call'[c].kind \in kinds
    BY <2>1, <2>2, <2>3
  <2>4. CASE call'[c].kind \notin kinds
    BY <2>2, <2>4 DEF Handled
  <2>5. QED
    BY <2>3, <2>4
<1>4. QED
  BY <1>1, <1>2, <1>3, OneMoves

\* No more requests are handled at a time than there may be, and no more of
\* them review.
WithinWidth ==
  /\ Cardinality(Handled(RequestKinds)) <= setting.width
  /\ Cardinality(Handled(Reviews)) <= setting.reviewers

\* Bounds of a setting are numbers.
LEMMA Bounds ==
  ASSUME ReviewOK
  PROVE  setting.width \in Nat /\ setting.reviewers \in Nat
  BY ReviewAssumption DEF ReviewOK, ReadingsOK, InsightsTypeOK

\* A set that one element joins, at most, has one more at most.
LEMMA OneJoins ==
  ASSUME NEW S, NEW T, NEW x, IsFiniteSet(S), T \subseteq S \cup {x}
  PROVE  /\ IsFiniteSet(T) /\ Cardinality(T) \in Nat
         /\ Cardinality(S) \in Nat /\ Cardinality(T) <= Cardinality(S) + 1
<1>1. /\ IsFiniteSet(S \cup {x}) /\ Cardinality(S) \in Nat
      /\ Cardinality(S \cup {x}) <= Cardinality(S) + 1
  <2>1. IsFiniteSet(S \cup {x}) /\ Cardinality(S) \in Nat
    BY FS_AddElement, FS_CardinalityType
  <2>2. Cardinality(S \cup {x}) =
          IF x \in S THEN Cardinality(S) ELSE Cardinality(S) + 1
    BY FS_AddElement
  <2>3. QED
    BY <2>1, <2>2
<1>2. /\ IsFiniteSet(T) /\ Cardinality(T) <= Cardinality(S \cup {x})
      /\ Cardinality(T) \in Nat /\ Cardinality(S \cup {x}) \in Nat
  BY <1>1, FS_Subset, FS_CardinalityType
<1>3. QED
  BY <1>1, <1>2

\* Every step keeps to both.
LEMMA StepWithinWidth ==
  ASSUME ReviewOK, Next, WithinWidth
  PROVE  WithinWidth'
<1> DEFINE W == Handled(RequestKinds)
           R == Handled(Reviews)
<1>1. setting' = setting /\ setting.width \in Nat /\ setting.reviewers \in Nat
  BY ProposalsStay, Bounds
<1>2. /\ IsFiniteSet(W) /\ Cardinality(W) \in Nat
      /\ IsFiniteSet(R) /\ Cardinality(R) \in Nat
  BY FinitelyHandled
<1>3. Cardinality(W') <= setting.width
  <2>1. CASE W' \subseteq W
    <3>1. Cardinality(W') <= Cardinality(W) /\ Cardinality(W') \in Nat
      BY <1>2, <2>1, FS_Subset, FS_CardinalityType
    <3>2. QED
      BY <1>1, <1>2, <3>1 DEF WithinWidth
  <2>2. ASSUME NEW c \in Calls, NEW kind, MayEnter(c, kind),
               W' \subseteq W \cup {c}
        PROVE  Cardinality(W') <= setting.width
    <3>1. Cardinality(W) < setting.width
      BY <2>2 DEF MayEnter
    <3>2. Cardinality(W') <= Cardinality(W) + 1 /\ Cardinality(W') \in Nat
      BY <1>2, <2>2, OneJoins
    <3>3. QED
      BY <1>1, <1>2, <3>1, <3>2
  <2>3. \/ W' \subseteq W
        \/ \E c \in Calls, kind \in RequestKinds :
             MayEnter(c, kind) /\ W' \subseteq W \cup {c}
    BY WhoEnters
  <2>4. QED
    BY <2>1, <2>2, <2>3
<1>4. Cardinality(R') <= setting.reviewers
  <2>1. CASE R' \subseteq R
    <3>1. Cardinality(R') <= Cardinality(R) /\ Cardinality(R') \in Nat
      BY <1>2, <2>1, FS_Subset, FS_CardinalityType
    <3>2. QED
      BY <1>1, <1>2, <3>1 DEF WithinWidth
  <2>2. ASSUME NEW c \in Calls, NEW kind \in Reviews, MayEnter(c, kind),
               R' \subseteq R \cup {c}
        PROVE  Cardinality(R') <= setting.reviewers
    <3>1. Cardinality(R) < setting.reviewers
      BY <2>2 DEF MayEnter
    <3>2. Cardinality(R') <= Cardinality(R) + 1 /\ Cardinality(R') \in Nat
      BY <1>2, <2>2, OneJoins
    <3>3. QED
      BY <1>1, <1>2, <3>1, <3>2
  <2>3. Reviews \in SUBSET RequestKinds
    BY DEF RequestKinds
  <2>4. \/ R' \subseteq R
        \/ \E c \in Calls, kind \in Reviews :
             MayEnter(c, kind) /\ R' \subseteq R \cup {c}
    BY <2>3, WhoEnters
  <2>5. QED
    BY <2>1, <2>2, <2>4
<1>5. QED
  BY <1>1, <1>3, <1>4 DEF WithinWidth

\* How the rows of proposals change: a draft or a recommendation makes one that
\* is pending, a refresh archives, a review writes its status and perhaps a
\* review.
Made(p) == /\ p \notin Ids /\ p = Len(proposals) + 1
           /\ proposals'[p].status = "PENDING" /\ proposals'[p].reviews = <<>>
Archived(c, p) ==
  /\ p \in Ids /\ Archive(c) /\ call[c].kind = "refresh"
  /\ p \in call[c].existing \ call[c].used
  /\ proposals'[p].status = "ARCHIVED"
  /\ proposals'[p].reviews = proposals[p].reviews
Submitted(c, p) ==
  /\ p \in Ids /\ Submit(c) /\ p = call[c].id
  /\ proposals'[p].status = "IN_REVIEW"
  /\ proposals'[p].reviews = proposals[p].reviews
Decided(c, p) ==
  /\ p \in Ids /\ Decide(c) /\ p = call[c].id
  /\ proposals'[p].status = call[c].decision
  /\ proposals'[p].reviews = Append(proposals[p].reviews, call[c].decision)
Kept(p) == /\ p \in Ids /\ proposals'[p].status = proposals[p].status
           /\ proposals'[p].reviews = proposals[p].reviews

\* There is no other change.
LEMMA RowsChange ==
  ASSUME ReviewOK, Next, NEW p \in Ids'
  PROVE  \/ Kept(p)
         \/ /\ Made(p)
            /\ \E c \in Calls : Persist(c) \/ CreateFromRecommendation(c)
         \/ \E c \in Calls : Archived(c, p) \/ Submitted(c, p) \/ Decided(c, p)
<1>1. TypeOK /\ \A q \in Ids : proposals[q] \in Proposal
  BY IdsAreNumbers DEF ReviewOK
<1>2. CASE proposals' = proposals
  BY <1>2 DEF Kept, Ids
<1>3. ASSUME NEW row \in Proposal, proposals' = Append(proposals, row),
             Len(proposals) < MaxProposals,
             row.status = "PENDING", row.reviews = <<>>
      PROVE  Kept(p) \/ Made(p)
  BY <1>1, <1>3, AppendTypes DEF Kept, Made
<1>4. ASSUME NEW c \in Calls, Persist(c)
      PROVE  Kept(p) \/ Made(p)
  <2>1. CASE \E q \in Ids : \E v :
               LET row == [proposals[q] EXCEPT !.version = v]
               IN  row \in Proposal /\ SetProposal(q, row)
    <3>1. PICK q \in Ids : \E v :
            LET row == [proposals[q] EXCEPT !.version = v]
            IN  row \in Proposal /\ SetProposal(q, row)
      BY <2>1
    <3>2. PICK v : LET row == [proposals[q] EXCEPT !.version = v]
                   IN  row \in Proposal /\ SetProposal(q, row)
      BY <3>1
    <3>3. PICK row \in Proposal : /\ row = [proposals[q] EXCEPT !.version = v]
                                  /\ SetProposal(q, row)
      BY <3>2
    <3>4. Ids' = Ids /\ proposals'[q] = row
          /\ \A r \in Ids \ {q} : proposals'[r] = proposals[r]
      BY <1>1, <3>3, SetProposalTypes
    <3>5. Kept(q)
      BY <1>1, <3>3, <3>4 DEF Proposal, Kept
    <3>6. QED
      BY <3>4, <3>5 DEF Kept
  <2>2. CASE /\ Len(proposals) < MaxProposals
             /\ \E row \in Proposal :
                  /\ row.status = "PENDING" /\ row.reviews = <<>>
                  /\ proposals' = Append(proposals, row)
    BY <1>3, <2>2
  <2>3. QED
    BY <1>4, <2>1, <2>2, PersistCases, IdsAreNumbers DEF ReviewOK
<1>5. ASSUME NEW c \in Calls, CreateFromRecommendation(c)
      PROVE  Kept(p) \/ Made(p)
  BY <1>3, <1>5, CreateCases
<1>6. ASSUME NEW c \in Calls, Archive(c)
      PROVE  Kept(p) \/ Archived(c, p)
  <2>1. /\ Ids' = Ids
        /\ proposals'[p] = IF /\ call[c].kind = "refresh"
                              /\ p \in call[c].existing \ call[c].used
                           THEN [proposals[p] EXCEPT !.status = "ARCHIVED"]
                           ELSE proposals[p]
    BY <1>6, ArchiveTypes
  <2>2. proposals[p] \in Proposal
    BY <1>1, <2>1
  <2>3. QED
    BY <1>6, <2>1, <2>2 DEF Kept, Archived, Proposal
<1>7. ASSUME NEW c \in Calls, NEW status, NEW reviews, NEW next,
             Review(c, status, reviews, next), call[c].id \in Ids
      PROVE  \/ Kept(p)
             \/ /\ p = call[c].id /\ p \in Ids
                /\ proposals'[p].status = status
                /\ proposals'[p].reviews = reviews
  <2>1. proposals' = [proposals EXCEPT ![call[c].id] =
                        [proposals[call[c].id] EXCEPT !.status = status,
                                                      !.reviews = reviews]]
    BY <1>7 DEF Review, SetProposal
  <2>2. Ids' = Ids
    BY <2>1 DEF Ids
  <2>3. CASE p = call[c].id
    <3>1. proposals'[p] = [proposals[p] EXCEPT !.status = status,
                                               !.reviews = reviews]
      BY <2>1, <2>2, <2>3 DEF Ids
    <3>2. QED
      BY <1>1, <2>2, <2>3, <3>1 DEF Proposal
  <2>4. CASE p # call[c].id
    <3>1. proposals'[p] = proposals[p]
      BY <2>1, <2>2, <2>4 DEF Ids
    <3>2. QED
      BY <2>2, <3>1 DEF Kept
  <2>5. QED
    BY <2>3, <2>4
<1>8. ASSUME NEW c \in Calls, Submit(c) PROVE Kept(p) \/ Submitted(c, p)
  <2>1. call[c].id \in Ids
    BY <1>8 DEF Submit, ReviewOK, CallShape, Shape
  <2>2. Review(c, "IN_REVIEW", proposals[call[c].id].reviews, IdleCall)
    BY <1>8 DEF Submit
  <2>3. QED
    BY <1>7, <1>8, <2>1, <2>2 DEF Submitted
<1>9. ASSUME NEW c \in Calls, Decide(c) PROVE Kept(p) \/ Decided(c, p)
  <2>1. call[c].id \in Ids
    BY <1>9 DEF Decide, ReviewOK, CallShape, Shape
  <2>2. Review(c, call[c].decision,
               Append(proposals[call[c].id].reviews, call[c].decision),
               [call[c] EXCEPT !.pc = "decided"])
    BY <1>9 DEF Decide
  <2>3. QED
    BY <1>7, <1>9, <2>1, <2>2 DEF Decided
<1>10. \/ proposals' = proposals
       \/ \E c \in Calls : \/ Persist(c) \/ Archive(c) \/ Submit(c)
                           \/ Decide(c) \/ CreateFromRecommendation(c)
  BY DEF Next, reviewVars, Generate, FindRecommendation, BeginReview, CallStep,
       StopCall, BuildDrafts, LoadExisting, Abandon, LookForDuplicate,
       LookForDecisionNote, NotifyDecision, RecordDecision
<1>11. QED
  BY <1>2, <1>4, <1>5, <1>6, <1>8, <1>9, <1>10

(***************************************************************************)
(* A proposal's status is what its reviews say                             *)
(***************************************************************************)

\* The requests that review, from the read of the proposal.
ReviewPcs == {"read", "decided", "telling", "told"}

\* A request that reviews was at it before, with the same proposal, or begins.
LEMMA WhoReviews ==
  ASSUME ReviewOK, Next, NEW e \in Calls, call'[e].pc \in ReviewPcs
  PROVE  \/ /\ call[e].pc \in ReviewPcs /\ call'[e].id = call[e].id
            /\ call'[e].decision = call[e].decision
            /\ call'[e].kind = call[e].kind
            /\ call'[e].pc = "read" => call[e].pc = "read"
         \/ /\ ~InFlight(e) /\ call'[e].pc = "read" /\ proposals' = proposals
            /\ call'[e].id \in Ids
            /\ proposals[call'[e].id].status \in PendingStatuses
<1>1. call \in [Calls -> Call] /\ call[e] \in Call
  BY DEF ReviewOK, TypeOK
<1>2. CASE \A f \in Calls : call'[f] = call[f]
  BY <1>2
<1>3. CASE Rests(e)
  BY <1>3 DEF Rests
<1>4. CASE Begins(e)
  <2>1. ASSUME NEW kind \in Generates, Generate(e, kind) PROVE FALSE
    <3>1. PICK S, a : call'[e] = [IdleCall EXCEPT !.pc = "building",
                                    !.kind = kind, !.readings = S, !.alone = a]
      BY <2>1 DEF Generate
    <3>2. call'[e].pc = "building"
      BY <3>1 DEF IdleCall
    <3>3. QED
      BY <3>2 DEF ReviewPcs
  <2>2. ASSUME FindRecommendation(e) PROVE FALSE
    <3>1. call'[e].pc = "found"
      BY <1>1, <2>2 DEF FindRecommendation, SetCall, IdleCall
    <3>2. QED
      BY <3>1 DEF ReviewPcs
  <2>3. PICK kind \in Reviews, p \in ProposalIds, d \in Decision :
          BeginReview(e, kind, p, d)
    BY <1>4, <2>1, <2>2 DEF Begins
  <2>4. call'[e].pc = "read" /\ call'[e].id = p
    BY <1>1, <2>3 DEF BeginReview, SetCall, IdleCall
  <2>5. /\ ~InFlight(e) /\ proposals' = proposals /\ p \in Ids
        /\ proposals[p].status \in PendingStatuses
    BY <2>3 DEF BeginReview, MayEnter, Submittable, PendingStatuses
  <2>6. QED
    BY <2>4, <2>5
<1>5. CASE CallStep(e) \/ StopCall(e)
  <2>1. call'[e] # IdleCall
    BY DEF IdleCall, ReviewPcs
  <2>2. /\ call'[e].kind = call[e].kind /\ call'[e].id = call[e].id
        /\ call'[e].decision = call[e].decision
    BY <1>5, <2>1, StepsKeepKind
  <2>3. ~Finish(e)
    BY <1>1, <2>1 DEF Finish, SetCall
  <2>4. ~StopCall(e) /\ ~Archive(e) /\ ~Abandon(e)
        /\ ~CreateFromRecommendation(e) /\ ~RecordDecision(e)
    BY <2>3 DEF StopCall, Archive, Abandon, CreateFromRecommendation,
         RecordDecision
  <2>5. ~Submit(e)
    BY <2>1 DEF Submit, Review
  <2>6. ~BuildDrafts(e)
    BY <1>1 DEF BuildDrafts, SetCall, Call, ReviewPcs
  <2>7. ~LoadExisting(e)
    <3> SUFFICES ASSUME LoadExisting(e) PROVE FALSE
      OBVIOUS
    <3>1. PICK E : SetCall(e, [call[e] EXCEPT !.pc = "persisting",
                                              !.existing = E])
      BY DEF LoadExisting
    <3>2. call'[e].pc = "persisting"
      BY <1>1, <3>1 DEF SetCall, Call
    <3>3. QED
      BY <3>2 DEF ReviewPcs
  <2>8. ~Persist(e)
    <3> SUFFICES ASSUME Persist(e) PROVE FALSE
      OBVIOUS
    <3>1. PICK draft, n : SetCall(e, [call[e] EXCEPT !.drafts = @ \ {draft},
                                                     !.used = @ \cup {n}])
      BY PersistCases DEF ReviewOK
    <3>2. call'[e].pc = call[e].pc /\ call[e].pc = "persisting"
      BY <1>1, <3>1 DEF SetCall, Call, Persist
    <3>3. QED
      BY <3>2 DEF ReviewPcs
  <2>9. ~LookForDuplicate(e)
    BY <1>1, <2>3 DEF LookForDuplicate, CallGoto, SetCall, Call, ReviewPcs
  <2>10. CASE Decide(e)
    <3>1. call'[e] = [call[e] EXCEPT !.pc = "decided"] /\ call[e].pc = "read"
      BY <2>10 DEF Decide, Review
    <3>2. call'[e].pc = "decided"
      BY <1>1, <3>1 DEF Call
    <3>3. QED
      BY <2>2, <3>1, <3>2 DEF ReviewPcs
  <2>11. CASE LookForDecisionNote(e) \/ NotifyDecision(e)
    <3>1. call'[e].pc \in {"told", "telling"}
          /\ call[e].pc \in {"decided", "telling"}
      BY <1>1, <2>11
        DEF LookForDecisionNote, NotifyDecision, CallGoto, SetCall, Call
    <3>2. QED
      BY <2>2, <3>1 DEF ReviewPcs
  <2>12. QED
    BY <1>5, <2>4, <2>5, <2>6, <2>7, <2>8, <2>9, <2>10, <2>11 DEF CallStep
<1>6. QED
  BY <1>2, <1>3, <1>4, <1>5, OneMoves

\* What is read for a review has no final decision, as long as no two review.
ReadIsOpen ==
  \A c \in Calls :
    call[c].pc = "read" =>
      \/ proposals[call[c].id].reviews = <<>>
      \/ Last(proposals[call[c].id].reviews) = "NEEDS_REVISION"

\* One reviewer at a time: the proposals' statuses are what their reviews say.
ReviewInv == setting.reviewers <= 1 => StatusFollowsReviews /\ ReadIsOpen

\* At most one request reviews.
LEMMA OneReviewer ==
  ASSUME ReviewOK, WithinWidth, setting.reviewers <= 1, NEW c \in Calls,
         NEW e \in Calls, InFlight(c), InFlight(e),
         call[c].kind \in Reviews, call[e].kind \in Reviews
  PROVE  c = e
<1>1. c \in Handled(Reviews) /\ e \in Handled(Reviews)
  BY DEF Handled
<1>2. IsFiniteSet(Handled(Reviews)) /\ Cardinality(Handled(Reviews)) \in Nat
  BY FinitelyHandled
<1>3. Cardinality(Handled(Reviews)) <= 1
  BY <1>2, Bounds DEF WithinWidth
<1>4. QED
  BY <1>1, <1>2, <1>3, AtMostOne

\* A review of an open proposal leaves it as its reviews then say.
LEMMA ReviewFits ==
  ASSUME NEW r \in Seq(Decision), NEW d \in Decision,
         r = <<>> \/ Last(r) = "NEEDS_REVISION",
         \A i \in DOMAIN r : r[i] \in Final => i = Len(r)
  PROVE  /\ "IN_REVIEW" \in After(r)
         /\ d \in After(Append(r, d))
         /\ \A i \in DOMAIN Append(r, d) :
              Append(r, d)[i] \in Final => i = Len(Append(r, d))
<1>1. "IN_REVIEW" \in After(r)
  BY DEF After
<1>2. PICK s : s = Append(r, d)
  OBVIOUS
<1>3. /\ s \in Seq(Decision) /\ Len(s) = Len(r) + 1 /\ Len(r) \in Nat
      /\ s[Len(r) + 1] = d /\ \A i \in 1..Len(r) : s[i] = r[i]
      /\ DOMAIN r = 1..Len(r) /\ DOMAIN s = 1..Len(s)
  BY <1>2, AppendProperties, LenProperties
<1>4. s # <<>> /\ Last(s) = d
  BY <1>3, EmptySeq DEF Last
<1>5. d \in After(s)
  BY <1>4 DEF After
<1>6. ASSUME NEW i \in DOMAIN s, s[i] \in Final, i # Len(s)
      PROVE  FALSE
  <2>1. i \in 1..Len(r) /\ r[i] \in Final
    BY <1>3, <1>6
  <2>2. i = Len(r) /\ r # <<>>
    BY <1>3, <2>1, EmptySeq
  <2>3. r[Len(r)] = "NEEDS_REVISION"
    BY <2>2 DEF Last
  <2>4. QED
    BY <2>1, <2>2, <2>3 DEF Final
<1>7. QED
  BY <1>1, <1>2, <1>5, <1>6

\* Every step leaves the statuses as the reviews say.
LEMMA StepReviewInv ==
  ASSUME ReviewOK, WithinWidth, Next, ReviewInv
  PROVE  ReviewInv'
<1> SUFFICES ASSUME setting'.reviewers <= 1
             PROVE  StatusFollowsReviews' /\ ReadIsOpen'
  BY DEF ReviewInv
<1>1. setting' = setting /\ Ids \subseteq Ids' /\ setting.reviewers <= 1
  BY ProposalsStay
<1>2. StatusFollowsReviews /\ ReadIsOpen
  BY <1>1 DEF ReviewInv
<1>3. \A p \in Ids : /\ proposals[p].status \in After(proposals[p].reviews)
                     /\ \A i \in DOMAIN proposals[p].reviews :
                          proposals[p].reviews[i] \in Final
                            => i = Len(proposals[p].reviews)
  BY <1>1, <1>2 DEF StatusFollowsReviews
<1>4. \A p \in Ids : proposals[p].reviews \in Seq(Decision)
  BY IdsAreNumbers DEF ReviewOK, Proposal
<1>5. ASSUME NEW c \in Calls, call[c].pc = "read"
      PROVE  LET r == proposals[call[c].id].reviews
             IN  /\ call[c].id \in Ids
                 /\ r = <<>> \/ Last(r) = "NEEDS_REVISION"
  BY <1>2, <1>5 DEF ReadIsOpen, ReviewOK, CallShape, Shape
<1>6. ASSUME NEW p \in Ids'
      PROVE  /\ proposals'[p].status \in After(proposals'[p].reviews)
             /\ \A i \in DOMAIN proposals'[p].reviews :
                  proposals'[p].reviews[i] \in Final
                    => i = Len(proposals'[p].reviews)
  <2>1. CASE Kept(p)
    BY <1>3, <2>1 DEF Kept
  <2>2. CASE Made(p)
    <3>1. proposals'[p].status = "PENDING" /\ proposals'[p].reviews = <<>>
      BY <2>2 DEF Made
    <3>2. "PENDING" \in After(<<>>) /\ DOMAIN <<>> = {}
      BY EmptySeq DEF After
    <3>3. QED
      BY <3>1, <3>2
  <2>3. ASSUME NEW c \in Calls, Archived(c, p)
        PROVE  /\ proposals'[p].status \in After(proposals'[p].reviews)
               /\ \A i \in DOMAIN proposals'[p].reviews :
                    proposals'[p].reviews[i] \in Final
                      => i = Len(proposals'[p].reviews)
    BY <1>3, <2>3 DEF Archived, After
  <2>4. ASSUME NEW c \in Calls, Submitted(c, p) \/ Decided(c, p)
        PROVE  /\ proposals'[p].status \in After(proposals'[p].reviews)
               /\ \A i \in DOMAIN proposals'[p].reviews :
                    proposals'[p].reviews[i] \in Final
                      => i = Len(proposals'[p].reviews)
    <3>1. call[c].pc = "read" /\ p = call[c].id /\ call[c] \in Call
      BY <2>4 DEF Submitted, Decided, Submit, Decide, ReviewOK, TypeOK
    <3>2. PICK r : r = proposals[p].reviews
      OBVIOUS
    <3>3. /\ p \in Ids /\ r \in Seq(Decision)
          /\ r = <<>> \/ Last(r) = "NEEDS_REVISION"
          /\ \A i \in DOMAIN r : r[i] \in Final => i = Len(r)
      BY <1>3, <1>4, <1>5, <3>1, <3>2
    <3>4. PICK d : d = call[c].decision
      OBVIOUS
    <3>5. d \in Decision
      BY <3>1, <3>4 DEF Call
    <3>6. /\ "IN_REVIEW" \in After(r) /\ d \in After(Append(r, d))
          /\ \A i \in DOMAIN Append(r, d) :
               Append(r, d)[i] \in Final => i = Len(Append(r, d))
      BY <3>3, <3>5, ReviewFits
    <3>7. CASE Submitted(c, p)
      BY <3>2, <3>3, <3>6, <3>7 DEF Submitted
    <3>8. CASE Decided(c, p)
      <4>1. /\ proposals'[p].status = d
            /\ proposals'[p].reviews = Append(r, d)
        BY <3>2, <3>4, <3>8 DEF Decided
      <4>2. QED
        BY <3>6, <4>1
    <3>9. QED
      BY <2>4, <3>7, <3>8
  <2>5. QED
    BY <2>1, <2>2, <2>3, <2>4, RowsChange
<1>7. StatusFollowsReviews'
  BY <1>6 DEF StatusFollowsReviews
<1>8. ASSUME NEW e \in Calls, call'[e].pc = "read"
      PROVE  \/ proposals'[call'[e].id].reviews = <<>>
             \/ Last(proposals'[call'[e].id].reviews) = "NEEDS_REVISION"
  <2>1. PICK p : p = call'[e].id
    OBVIOUS
  <2>2. call'[e].pc \in ReviewPcs
    BY <1>8 DEF ReviewPcs
  <2>3. CASE call[e].pc = "read" /\ p = call[e].id
    <3>1. p \in Ids /\ p \in Ids'
          /\ (proposals[p].reviews = <<>>
              \/ Last(proposals[p].reviews) = "NEEDS_REVISION")
      BY <1>1, <1>5, <2>3
    <3>2. InFlight(e) /\ call[e].kind \in Reviews
      BY <2>3 DEF InFlight, ReviewOK, CallShape, Shape
    <3>3. ASSUME NEW c \in Calls, Decided(c, p) PROVE FALSE
      <4>1. InFlight(c) /\ call[c].kind \in Reviews
        BY <3>3 DEF Decided, Decide, InFlight, Reviews
      <4>2. c = e
        BY <1>1, <3>2, <4>1, OneReviewer
      <4>3. call'[e] = [call[e] EXCEPT !.pc = "decided"] /\ call[e] \in Call
        BY <3>3, <4>2 DEF Decided, Decide, Review, ReviewOK, TypeOK
      <4>4. QED
        BY <1>8, <4>3 DEF Call
    <3>4. ~Made(p)
      BY <3>1 DEF Made
    <3>5. proposals'[p].reviews = proposals[p].reviews
      BY <3>1, <3>3, <3>4, RowsChange DEF Kept, Archived, Submitted
    <3>6. QED
      BY <2>1, <3>1, <3>5
  <2>4. CASE /\ proposals' = proposals /\ p \in Ids
             /\ proposals[p].status \in PendingStatuses
    <3>1. PICK r : r = proposals[p].reviews
      OBVIOUS
    <3>2. r \in Seq(Decision) /\ proposals[p].status \in After(r)
      BY <1>3, <1>4, <2>4, <3>1
    <3>3. CASE r # <<>>
      <4>1. Len(r) \in 1..Len(r)
        BY <3>2, <3>3, EmptySeq, LenProperties
      <4>2. Last(r) \in Decision
        BY <3>2, <4>1, ElementOfSeq DEF Last
      <4>3. Last(r) = "NEEDS_REVISION"
        BY <2>4, <3>2, <3>3, <4>2 DEF After, Decision, PendingStatuses
      <4>4. QED
        BY <2>1, <2>4, <3>1, <4>3
    <3>4. QED
      BY <2>1, <2>4, <3>1, <3>3
  <2>5. QED
    BY <2>1, <2>2, <2>3, <2>4, <1>8, WhoReviews
<1>9. ReadIsOpen'
  BY <1>8 DEF ReadIsOpen
<1>10. QED
  BY <1>7, <1>9

(***************************************************************************)
(* Decisions are told and learned                                          *)
(***************************************************************************)

\* A request whose program counter moves is the one that the step is of.
LEMMA TheOneThatMoves ==
  ASSUME ReviewOK, Next, NEW c \in Calls, call'[c].pc # call[c].pc
  PROVE  /\ Begins(c) \/ CallStep(c) \/ StopCall(c)
         /\ \A e \in Calls \ {c} : Rests(e)
<1>1. PICK m \in Calls : /\ Begins(m) \/ CallStep(m) \/ StopCall(m)
                         /\ \A e \in Calls \ {m} : Rests(e)
  BY OneMoves
<1>2. m = c
  BY <1>1 DEF Rests
<1>3. QED
  BY <1>1, <1>2

\* How many times a proposal was decided some way.
LEMMA TimesAppended ==
  ASSUME NEW r \in Seq(Decision), NEW e, NEW d
  PROVE  /\ Times(d, r) \in Nat
         /\ Times(d, Append(r, e)) = Times(d, r) + (IF d = e THEN 1 ELSE 0)
<1> DEFINE A == {i \in DOMAIN r : r[i] = d}
           n == Len(r) + 1
<1>1. PICK s : s = Append(r, e)
  OBVIOUS
<1>2. r \in Seq(Decision \cup {e})
  BY SeqDef
<1>3. /\ DOMAIN r = 1..Len(r) /\ Len(r) \in Nat
      /\ DOMAIN s = 1..n /\ s[n] = e /\ \A i \in 1..Len(r) : s[i] = r[i]
  <2>1. /\ s \in Seq(Decision \cup {e}) /\ Len(s) = n /\ s[n] = e
        /\ \A i \in 1..Len(r) : s[i] = r[i]
    BY <1>1, <1>2, AppendProperties
  <2>2. QED
    BY <2>1, <1>2, LenProperties
<1>4. IsFiniteSet(A) /\ Cardinality(A) \in Nat
  <2>1. A \subseteq 1..Len(r) /\ IsFiniteSet(1..Len(r))
    BY <1>3, FS_Interval
  <2>2. QED
    BY <2>1, FS_Subset, FS_CardinalityType
<1>5. n \notin A
  BY <1>3
<1>6. CASE d = e
  <2>1. {i \in DOMAIN s : s[i] = d} = A \cup {n}
    BY <1>3, <1>6
  <2>2. Cardinality(A \cup {n}) = Cardinality(A) + 1
    BY <1>4, <1>5, FS_AddElement
  <2>3. Times(d, s) = Times(d, r) + 1 /\ Times(d, r) \in Nat
    BY <1>4, <2>1, <2>2 DEF Times
  <2>4. QED
    BY <1>1, <1>6, <2>3
<1>7. CASE d # e
  <2>1. {i \in DOMAIN s : s[i] = d} = A
    BY <1>3, <1>7
  <2>2. Times(d, s) = Times(d, r) /\ Times(d, r) \in Nat
    BY <1>4, <2>1 DEF Times
  <2>3. QED
    BY <1>1, <1>7, <2>2
<1>8. QED
  BY <1>6, <1>7

\* Nothing was decided any way at first.
LEMMA TimesOfNone ==
  ASSUME NEW d
  PROVE  Times(d, <<>>) = 0
<1>1. {i \in DOMAIN <<>> : <<>>[i] = d} = {}
  BY EmptySeq
<1>2. QED
  BY <1>1, FS_EmptySet DEF Times

\* The requests that have decided and not recorded it yet, and those of them
\* that have decided a proposal some way.
Owed == {"decided", "telling", "told"}
Owing(p, d) == {c \in Calls : /\ call[c].pc \in Owed
                              /\ call[c].id = p /\ call[c].decision = d}

\* They are finitely many.
LEMMA FinitelyOwing ==
  ASSUME NEW p, NEW d
  PROVE  /\ IsFiniteSet(Owing(p, d)) /\ Cardinality(Owing(p, d)) \in Nat
         /\ IsFiniteSet(Owing(p, d))' /\ Cardinality(Owing(p, d))' \in Nat
<1>1. Owing(p, d) \subseteq Calls /\ Owing(p, d)' \subseteq Calls
  BY DEF Owing
<1>2. QED
  BY <1>1, ReviewAssumption, FS_Subset, FS_CardinalityType

\* A request comes to owe by a decision only, and stops owing when it has
\* recorded that, or stops.
LEMMA WhoOwes ==
  ASSUME ReviewOK, Next, NEW e \in Calls
  PROVE  /\ call'[e].pc \in Owed /\ ~Decide(e) =>
              /\ call[e].pc \in Owed /\ call'[e].id = call[e].id
              /\ call'[e].decision = call[e].decision
         /\ call[e].pc \in Owed /\ ~RecordDecision(e) /\ ~StopCall(e) =>
              /\ call'[e].pc \in Owed /\ call'[e].id = call[e].id
              /\ call'[e].decision = call[e].decision
<1>1. call \in [Calls -> Call] /\ call[e] \in Call
  BY DEF ReviewOK, TypeOK
<1>2. ASSUME call'[e].pc \in Owed, ~Decide(e)
      PROVE  /\ call[e].pc \in Owed /\ call'[e].id = call[e].id
             /\ call'[e].decision = call[e].decision
  <2>1. /\ call[e].pc \in ReviewPcs /\ call'[e].id = call[e].id
        /\ call'[e].decision = call[e].decision
    BY <1>2, WhoReviews DEF Owed, ReviewPcs
  <2>2. ASSUME call[e].pc = "read" PROVE FALSE
    <3>1. Begins(e) \/ CallStep(e) \/ StopCall(e)
      BY <1>2, <2>2, TheOneThatMoves DEF Owed
    <3>2. ~Begins(e)
      BY <2>2, BeginsEnter DEF MayEnter, InFlight
    <3>3. ~StopCall(e)
      BY <1>1, <1>2 DEF StopCall, Finish, SetCall, IdleCall, Owed
    <3>4. ~Submit(e)
      BY <1>2 DEF Submit, Review, IdleCall, Owed
    <3>5. QED
      BY <1>2, <2>2, <3>1, <3>2, <3>3, <3>4
        DEF CallStep, BuildDrafts, LoadExisting, Persist, Archive, Abandon,
          LookForDuplicate, CreateFromRecommendation, LookForDecisionNote,
          NotifyDecision, RecordDecision
  <2>3. QED
    BY <2>1, <2>2 DEF ReviewPcs, Owed
<1>3. ASSUME call[e].pc \in Owed, ~RecordDecision(e), ~StopCall(e)
      PROVE  /\ call'[e].pc \in Owed /\ call'[e].id = call[e].id
             /\ call'[e].decision = call[e].decision
  <2>1. CASE (\A f \in Calls : call'[f] = call[f]) \/ Rests(e)
    BY <1>3, <2>1 DEF Rests
  <2>2. CASE CallStep(e)
    <3>1. LookForDecisionNote(e) \/ NotifyDecision(e)
      BY <1>3, <2>2
        DEF CallStep, BuildDrafts, LoadExisting, Persist, Archive, Abandon,
          LookForDuplicate, CreateFromRecommendation, Submit, Decide, Owed
    <3>2. QED
      BY <1>1, <3>1
        DEF LookForDecisionNote, NotifyDecision, CallGoto, SetCall, Call, Owed
  <2>3. ~Begins(e)
    BY <1>3, BeginsEnter DEF MayEnter, InFlight, Owed
  <2>4. QED
    BY <1>3, <2>1, <2>2, <2>3, OneMoves
<1>4. QED
  BY <1>2, <1>3

\* A decision is told before it is learned, and learned once for a review: as
\* long as nothing stops, it is learned or owed for each.
LearnInv ==
  /\ \A p \in ProposalIds, d \in Decision :
       /\ p \notin Ids => decisions[p][d] = 0
       /\ p \in Ids =>
            /\ decisions[p][d] + Cardinality(Owing(p, d))
                 <= Times(d, proposals[p].reviews)
            /\ stops = 0 =>
                 decisions[p][d] + Cardinality(Owing(p, d))
                   = Times(d, proposals[p].reviews)
       /\ decisions[p][d] > 0 => told[p][d] > 0
  /\ \A c \in Calls :
       call[c].pc = "told" => told[call[c].id][call[c].decision] > 0

\* Notifications stay.
LEMMA ToldStays ==
  ASSUME ReviewOK, Next, NEW p \in ProposalIds, NEW d \in Decision
  PROVE  /\ told[p][d] \in Nat /\ told'[p][d] \in Nat
         /\ told'[p][d] >= told[p][d]
<1>1. told \in [ProposalIds -> [Decision -> Nat]]
  BY DEF ReviewOK, TypeOK
<1>2. CASE told' = told
  BY <1>1, <1>2
<1>3. ASSUME NEW c \in Calls, NotifyDecision(c)
      PROVE  told'[p][d] \in Nat /\ told'[p][d] >= told[p][d]
  <2>1. call[c].id \in ProposalIds /\ call[c].decision \in Decision
    BY <1>3, IdsAreNumbers
      DEF NotifyDecision, ReviewOK, CallShape, Shape, TypeOK, Call
  <2>2. PICK g : g = told'
    OBVIOUS
  <2>3. g = [told EXCEPT ![call[c].id][call[c].decision] = @ + 1]
    BY <1>3, <2>2 DEF NotifyDecision
  <2>4. /\ g \in [ProposalIds -> [Decision -> Nat]]
        /\ g[call[c].id][call[c].decision]
             = told[call[c].id][call[c].decision] + 1
        /\ \A q \in ProposalIds, e \in Decision :
             q # call[c].id \/ e # call[c].decision => g[q][e] = told[q][e]
    BY <1>1, <2>1, <2>3, OneMore
  <2>5. told[p][d] \in Nat
    BY <1>1
  <2>6. QED
    BY <2>2, <2>4, <2>5
<1>4. told' = told \/ \E c \in Calls : NotifyDecision(c)
  BY DEF Next, reviewVars, Generate, FindRecommendation, BeginReview, CallStep,
       StopCall, BuildDrafts, LoadExisting, Persist, Archive, Abandon,
       LookForDuplicate, CreateFromRecommendation, Submit, Decide, Review,
       LookForDecisionNote, RecordDecision
<1>5. QED
  BY <1>1, <1>2, <1>3, <1>4

\* What a request has told has been told.
LEMMA StepTold ==
  ASSUME ReviewOK, Next, LearnInv, NEW c \in Calls, call'[c].pc = "told"
  PROVE  told'[call'[c].id][call'[c].decision] > 0
<1>1. call \in [Calls -> Call] /\ call[c] \in Call
      /\ told \in [ProposalIds -> [Decision -> Nat]]
  BY DEF ReviewOK, TypeOK
<1>2. ~Decide(c)
  <2> SUFFICES ASSUME Decide(c) PROVE FALSE
    OBVIOUS
  <2>1. call'[c] = [call[c] EXCEPT !.pc = "decided"]
    BY DEF Decide, Review
  <2>2. QED
    BY <1>1, <2>1 DEF Call
<1>3. PICK p, d : p = call[c].id /\ d = call[c].decision
  OBVIOUS
<1>4. call[c].pc \in Owed /\ call'[c].id = p /\ call'[c].decision = d
  BY <1>2, <1>3, WhoOwes DEF Owed
<1>5. p \in ProposalIds /\ d \in Decision
  BY <1>1, <1>3, <1>4, IdsAreNumbers
    DEF Owed, ReviewOK, CallShape, Shape, Call
<1>6. /\ told[p][d] \in Nat /\ told'[p][d] \in Nat
      /\ told'[p][d] >= told[p][d]
  BY <1>5, ToldStays
<1>7. CASE told[p][d] > 0
  BY <1>4, <1>6, <1>7
<1>8. CASE ~(told[p][d] > 0)
  <2>1. call[c].pc # "told"
    BY <1>3, <1>8 DEF LearnInv
  <2>2. Begins(c) \/ CallStep(c) \/ StopCall(c)
    BY <2>1, TheOneThatMoves
  <2>3. ~Begins(c)
    BY <1>4, BeginsEnter DEF MayEnter, InFlight, Owed
  <2>4. ~StopCall(c)
    BY <1>1 DEF StopCall, Finish, SetCall, IdleCall
  <2>5. LookForDecisionNote(c) \/ NotifyDecision(c)
    BY <1>4, <2>1, <2>2, <2>3, <2>4
      DEF CallStep, BuildDrafts, LoadExisting, Persist, Archive, Abandon,
        LookForDuplicate, CreateFromRecommendation, Submit, Decide,
        RecordDecision, Owed
  <2>6. ~LookForDecisionNote(c)
    <3> SUFFICES ASSUME LookForDecisionNote(c) PROVE FALSE
      OBVIOUS
    <3>1. CallGoto(c, "telling")
      BY <1>3, <1>8 DEF LookForDecisionNote
    <3>2. QED
      BY <1>1, <3>1 DEF CallGoto, SetCall, Call
  <2>7. PICK g : g = told'
    OBVIOUS
  <2>8. g = [told EXCEPT ![p][d] = @ + 1]
    BY <1>3, <2>5, <2>6, <2>7 DEF NotifyDecision
  <2>9. g[p][d] = told[p][d] + 1
    BY <1>1, <1>5, <2>8, OneMore
  <2>10. QED
    BY <1>4, <1>6, <2>7, <2>9
<1>9. QED
  BY <1>7, <1>8

\* What is recorded of decisions.
LEMMA RecordTypes ==
  ASSUME ReviewOK, LearnInv, NEW c \in Calls, RecordDecision(c)
  PROVE  /\ call[c].id \in Ids /\ call[c].id \in ProposalIds
         /\ call[c].decision \in Decision
         /\ told[call[c].id][call[c].decision] > 0
         /\ decisions'[call[c].id][call[c].decision]
              = decisions[call[c].id][call[c].decision] + 1
         /\ \A p \in ProposalIds, d \in Decision :
              p # call[c].id \/ d # call[c].decision
                => decisions'[p][d] = decisions[p][d]
         /\ proposals' = proposals /\ stops' = stops
<1>1. decisions \in [ProposalIds -> [Decision -> Nat]] /\ call[c] \in Call
  BY DEF ReviewOK, TypeOK
<1>2. /\ call[c].id \in Ids /\ call[c].id \in ProposalIds
      /\ call[c].decision \in Decision
  BY <1>1, IdsAreNumbers DEF RecordDecision, ReviewOK, CallShape, Shape, Call
<1>3. PICK g : g = decisions'
  OBVIOUS
<1>4. g = [decisions EXCEPT ![call[c].id][call[c].decision] = @ + 1]
  BY <1>3 DEF RecordDecision
<1>5. /\ g[call[c].id][call[c].decision]
           = decisions[call[c].id][call[c].decision] + 1
      /\ \A p \in ProposalIds, d \in Decision :
           p # call[c].id \/ d # call[c].decision
             => g[p][d] = decisions[p][d]
  BY <1>1, <1>2, <1>4, OneMore
<1>6. told[call[c].id][call[c].decision] > 0
  BY DEF LearnInv, RecordDecision
<1>7. QED
  BY <1>2, <1>3, <1>5, <1>6 DEF RecordDecision, insightVars

\* Other than the one that moves, requests owe what they owed.
LEMMA OthersOwe ==
  ASSUME ReviewOK, Next, NEW c \in Calls, call'[c].pc # call[c].pc, NEW p, NEW d
  PROVE  Owing(p, d)' \ {c} = Owing(p, d) \ {c}
<1>1. \A e \in Calls \ {c} : Rests(e)
  BY TheOneThatMoves
<1>2. QED
  BY <1>1 DEF Owing, Rests

\* How what is learned of a proposal's decisions, n of them, and what is owed
\* change with its reviews r: not at all, by a decision, when one is recorded
\* and when something stops.
DebtStays(p, d, r, n) ==
  /\ Owing(p, d)' = Owing(p, d) /\ decisions'[p][d] = n
  /\ proposals'[p].reviews = r
  /\ stops' = 0 => stops = 0
DebtMade(p, d, r, n) ==
  \E c \in Calls : \E e :
    /\ c \notin Owing(p, d) /\ decisions'[p][d] = n
    /\ Owing(p, d)' = Owing(p, d) \cup (IF e = d THEN {c} ELSE {})
    /\ proposals'[p].reviews = Append(r, e) /\ stops' = stops
DebtPaid(p, d, r, n) ==
  \E c \in Owing(p, d) :
    /\ Owing(p, d)' = Owing(p, d) \ {c}
    /\ decisions'[p][d] = n + 1 /\ told[p][d] > 0
    /\ proposals'[p].reviews = r /\ stops' = stops
DebtLost(p, d, r, n) ==
  /\ Owing(p, d)' \subseteq Owing(p, d) /\ decisions'[p][d] = n
  /\ proposals'[p].reviews = r /\ stops' # 0

\* There is no other change.
LEMMA StepOwes ==
  ASSUME ReviewOK, LearnInv, Next, NEW p \in Ids, NEW d \in Decision,
         NEW r, r = proposals[p].reviews, NEW n, n = decisions[p][d]
  PROVE  /\ n \in Nat /\ Times(d, r) \in Nat
         /\ \/ DebtStays(p, d, r, n) \/ DebtMade(p, d, r, n)
            \/ DebtPaid(p, d, r, n) \/ DebtLost(p, d, r, n)
<1>1. /\ call \in [Calls -> Call] /\ \A c \in Calls : call[c] \in Call
      /\ decisions \in [ProposalIds -> [Decision -> Nat]] /\ p \in ProposalIds
      /\ r \in Seq(Decision)
  BY IdsAreNumbers DEF ReviewOK, TypeOK, Proposal
<1>2. n \in Nat /\ Times(d, r) \in Nat
  BY <1>1, TimesAppended
<1>3. p \in Ids' /\ ~Made(p)
  BY ProposalsStay DEF Made
<1>4. ASSUME \A c \in Calls : ~Decide(c)
      PROVE  proposals'[p].reviews = r
  BY <1>3, <1>4, RowsChange DEF Kept, Archived, Submitted, Decided
<1>5. ASSUME NEW c \in Calls, Decide(c)
      PROVE  /\ decisions'[p][d] = n /\ stops' = stops /\ c \notin Owing(p, d)
             /\ \/ /\ Owing(p, d)' = Owing(p, d)
                   /\ proposals'[p].reviews = r
                \/ \E e :
                     /\ Owing(p, d)'
                          = Owing(p, d) \cup (IF e = d THEN {c} ELSE {})
                     /\ proposals'[p].reviews = Append(r, e)
  <2>1. /\ call[c].pc = "read" /\ call'[c] = [call[c] EXCEPT !.pc = "decided"]
        /\ decisions' = decisions /\ stops' = stops
    BY <1>5 DEF Decide, Review, insightVars
  <2>2. /\ call'[c].pc = "decided" /\ call'[c].id = call[c].id
        /\ call'[c].decision = call[c].decision
    BY <1>1, <2>1 DEF Call
  <2>3. Owing(p, d)' \ {c} = Owing(p, d) \ {c}
    BY <2>1, <2>2, OthersOwe
  <2>4. c \notin Owing(p, d)
    BY <2>1 DEF Owing, Owed
  <2>5. c \in Owing(p, d)' <=> call[c].id = p /\ call[c].decision = d
    BY <2>2 DEF Owing, Owed
  <2>6. ASSUME NEW e \in Calls, Decide(e) PROVE e = c
    <3>1. call[e].pc = "read" /\ call'[e] = [call[e] EXCEPT !.pc = "decided"]
      BY <2>6 DEF Decide, Review
    <3>2. call'[e].pc # call[e].pc
      BY <1>1, <3>1 DEF Call
    <3>3. QED
      BY <2>1, <2>2, <3>2, TheOneThatMoves DEF Rests
  <2>7. CASE call[c].id = p
    <3>1. PICK e : e = call[c].decision
      OBVIOUS
    <3>2. Owing(p, d)' = Owing(p, d) \cup (IF e = d THEN {c} ELSE {})
      BY <2>3, <2>4, <2>5, <2>7, <3>1
    <3>3. proposals'[p].reviews = Append(r, e)
      <4>1. SetProposal(p, [proposals[p] EXCEPT !.status = e,
                                                !.reviews = Append(r, e)])
        BY <1>5, <2>7, <3>1 DEF Decide, Review
      <4>2. proposals' = [proposals EXCEPT ![p] =
                            [proposals[p] EXCEPT !.status = e,
                                                 !.reviews = Append(r, e)]]
        BY <4>1 DEF SetProposal
      <4>3. proposals'[p] = [proposals[p] EXCEPT !.status = e,
                                                 !.reviews = Append(r, e)]
        BY <4>2 DEF Ids
      <4>4. proposals[p] \in Proposal
        BY IdsAreNumbers DEF ReviewOK
      <4>5. QED
        BY <4>3, <4>4 DEF Proposal
    <3>4. QED
      BY <2>1, <2>4, <3>2, <3>3
  <2>8. CASE call[c].id # p
    <3>1. Owing(p, d)' = Owing(p, d)
      BY <2>3, <2>4, <2>5, <2>8
    <3>2. \A e \in Calls : ~Decided(e, p)
      BY <2>6, <2>8 DEF Decided
    <3>3. proposals'[p].reviews = r
      BY <1>3, <3>2, RowsChange DEF Kept, Archived, Submitted
    <3>4. QED
      BY <2>1, <2>4, <3>1, <3>3
  <2>9. QED
    BY <2>7, <2>8
<1>6. ASSUME NEW c \in Calls, RecordDecision(c)
      PROVE  \/ /\ Owing(p, d)' = Owing(p, d) /\ decisions'[p][d] = n
                /\ stops' = stops
             \/ /\ c \in Owing(p, d) /\ Owing(p, d)' = Owing(p, d) \ {c}
                /\ decisions'[p][d] = n + 1 /\ told[p][d] > 0 /\ stops' = stops
  <2>1. call[c].pc = "told" /\ call'[c] = IdleCall
    BY <1>1, <1>6 DEF RecordDecision, Finish, SetCall
  <2>2. Owing(p, d)' \ {c} = Owing(p, d) \ {c} /\ c \notin Owing(p, d)'
    BY <2>1, OthersOwe DEF IdleCall, Owing, Owed
  <2>3. c \in Owing(p, d) <=> call[c].id = p /\ call[c].decision = d
    BY <2>1 DEF Owing, Owed
  <2>4. CASE call[c].id = p /\ call[c].decision = d
    BY <1>6, <2>2, <2>3, <2>4, RecordTypes
  <2>5. CASE ~(call[c].id = p /\ call[c].decision = d)
    <3>1. Owing(p, d)' = Owing(p, d)
      BY <2>2, <2>3, <2>5
    <3>2. decisions'[p][d] = decisions[p][d] /\ stops' = stops
      <4>1. p # call[c].id \/ d # call[c].decision
        BY <2>5
      <4>2. QED
        BY <1>1, <1>6, <4>1, RecordTypes
    <3>3. QED
      BY <3>1, <3>2
  <2>6. QED
    BY <2>4, <2>5
<1>7. ASSUME NEW c \in Calls, StopCall(c)
      PROVE  /\ Owing(p, d)' \subseteq Owing(p, d) /\ decisions'[p][d] = n
             /\ stops' # 0
  <2>1. call[c].pc # "idle" /\ call'[c] = IdleCall
    BY <1>1, <1>7 DEF StopCall, InFlight, Finish, SetCall
  <2>2. call'[c].pc # call[c].pc /\ c \notin Owing(p, d)'
    BY <2>1 DEF IdleCall, Owing, Owed
  <2>3. Owing(p, d)' \ {c} = Owing(p, d) \ {c}
    BY <2>2, OthersOwe
  <2>4. setting.stops \in Nat /\ stops \in 0..setting.stops
    BY InsightsAssumption DEF ReviewOK, ReadingsOK, InsightsTypeOK
  <2>5. stops' # 0
    BY <1>7, <2>4 DEF StopCall
  <2>6. decisions' = decisions
    BY <1>7 DEF StopCall
  <2>7. QED
    BY <2>2, <2>3, <2>5, <2>6
<1>8. ASSUME \A c \in Calls : ~Decide(c) /\ ~RecordDecision(c) /\ ~StopCall(c)
      PROVE  /\ Owing(p, d)' = Owing(p, d) /\ decisions'[p][d] = n
             /\ stops' = 0 => stops = 0
  <2>1. Owing(p, d)' = Owing(p, d)
    BY <1>8, WhoOwes DEF Owing
  <2>2. decisions' = decisions
    BY <1>8 DEF Next, reviewVars, Generate, FindRecommendation, BeginReview,
         CallStep, BuildDrafts, LoadExisting, Persist, Archive, Abandon,
         LookForDuplicate, CreateFromRecommendation, Submit, Review,
         LookForDecisionNote, NotifyDecision
  <2>3. setting.stops \in Nat /\ stops \in 0..setting.stops
    BY InsightsAssumption DEF ReviewOK, ReadingsOK, InsightsTypeOK
  <2>4. stops' = stops \/ stops' = stops + 1
    BY <1>8 DEF Next, reviewVars, Generate, FindRecommendation, BeginReview,
         CallStep, BuildDrafts, LoadExisting, Persist, Archive, Abandon,
         LookForDuplicate, CreateFromRecommendation, Submit, Review,
         LookForDecisionNote, NotifyDecision, insightVars,
         InsightsNext, Read, TaskStep, StopTask, WorldChanges, BuildSignals,
         Compare, Aim, Replace, LookForNote, Notify, ReadBack
  <2>5. QED
    BY <2>1, <2>2, <2>3, <2>4
<1>9. QED
  <2>1. CASE \E c \in Calls : Decide(c)
    <3>1. PICK c \in Calls : Decide(c)
      BY <2>1
    <3>2. CASE Owing(p, d)' = Owing(p, d) /\ proposals'[p].reviews = r
      BY <1>2, <1>5, <3>1, <3>2 DEF DebtStays
    <3>3. CASE \E e :
                 /\ Owing(p, d)'
                      = Owing(p, d) \cup (IF e = d THEN {c} ELSE {})
                 /\ proposals'[p].reviews = Append(r, e)
      BY <1>2, <1>5, <3>1, <3>3 DEF DebtMade
    <3>4. QED
      BY <1>5, <3>1, <3>2, <3>3
  <2>2. CASE /\ \A c \in Calls : ~Decide(c)
             /\ \E c \in Calls : RecordDecision(c)
    BY <1>2, <1>4, <1>6, <2>2 DEF DebtStays, DebtPaid
  <2>3. CASE (\A c \in Calls : ~Decide(c)) /\ \E c \in Calls : StopCall(c)
    BY <1>2, <1>4, <1>7, <2>3 DEF DebtLost
  <2>4. CASE \A c \in Calls : ~Decide(c) /\ ~RecordDecision(c) /\ ~StopCall(c)
    BY <1>2, <1>4, <1>8, <2>4 DEF DebtStays
  <2>5. QED
    BY <2>1, <2>2, <2>3, <2>4

\* Every step tells before it learns, and learns what was decided.
LEMMA StepLearnInv ==
  ASSUME ReviewOK, Next, LearnInv
  PROVE  LearnInv'
<1>1. /\ decisions \in [ProposalIds -> [Decision -> Nat]]
      /\ TypeOK' /\ Ids \subseteq Ids' /\ Ids \subseteq ProposalIds
  BY ReviewStepTypes, ProposalsStay, IdsAreNumbers DEF ReviewOK, TypeOK
<1>2. ASSUME NEW p \in ProposalIds, NEW d \in Decision, p \notin Ids
      PROVE  /\ decisions'[p][d] = 0
             /\ p \in Ids' =>
                  /\ decisions'[p][d] + Cardinality(Owing(p, d)')
                       = Times(d, proposals'[p].reviews)
  <2>1. \A c \in Calls : RecordDecision(c) => call[c].id # p
    BY <1>2, RecordTypes
  <2>2. decisions'[p][d] = decisions[p][d]
    <3>1. CASE \E c \in Calls : RecordDecision(c)
      BY <2>1, <3>1, RecordTypes
    <3>2. CASE \A c \in Calls : ~RecordDecision(c)
      BY <3>2 DEF Next, reviewVars, Generate, FindRecommendation, BeginReview,
           CallStep, StopCall, BuildDrafts, LoadExisting, Persist, Archive,
           Abandon, LookForDuplicate, CreateFromRecommendation, Submit, Decide,
           Review, LookForDecisionNote, NotifyDecision
    <3>3. QED
      BY <3>1, <3>2
  <2>3. decisions'[p][d] = 0
    BY <1>2, <2>2 DEF LearnInv
  <2>4. ASSUME p \in Ids'
        PROVE  Cardinality(Owing(p, d)') = 0
               /\ Times(d, proposals'[p].reviews) = 0
    <3>1. proposals'[p].reviews = <<>>
      BY <1>2, <2>4, RowsChange DEF Kept, Made, Archived, Submitted, Decided
    <3>2. ASSUME NEW c \in Calls, c \in Owing(p, d)' PROVE FALSE
      <4>1. ~Decide(c)
        <5> SUFFICES ASSUME Decide(c) PROVE FALSE
          OBVIOUS
        <5>1. call[c].id \in Ids /\ call[c] \in Call
          BY DEF Decide, ReviewOK, CallShape, Shape, TypeOK
        <5>2. call'[c] = [call[c] EXCEPT !.pc = "decided"]
          BY DEF Decide, Review
        <5>3. call'[c].id = call[c].id
          BY <5>1, <5>2 DEF Call
        <5>4. QED
          BY <1>2, <3>2, <5>1, <5>3 DEF Owing
      <4>2. call[c].pc \in Owed /\ call[c].id = p
        BY <3>2, <4>1, WhoOwes DEF Owing
      <4>3. p \in Ids
        BY <4>2 DEF ReviewOK, CallShape, Shape, Owed
      <4>4. QED
        BY <1>2, <4>3
    <3>3. Owing(p, d)' = {}
      BY <3>2 DEF Owing
    <3>4. QED
      BY <3>1, <3>3, FS_EmptySet, TimesOfNone
  <2>5. QED
    BY <2>3, <2>4
<1>3. ASSUME NEW p \in Ids, NEW d \in Decision
      PROVE  /\ decisions'[p][d] + Cardinality(Owing(p, d)')
                  <= Times(d, proposals'[p].reviews)
             /\ stops' = 0 =>
                  decisions'[p][d] + Cardinality(Owing(p, d)')
                    = Times(d, proposals'[p].reviews)
             /\ decisions'[p][d] > decisions[p][d] => told[p][d] > 0
             /\ decisions'[p][d] \in Nat /\ decisions[p][d] \in Nat
  <2>1. PICK r, n : r = proposals[p].reviews /\ n = decisions[p][d]
    OBVIOUS
  <2>2. PICK k, t : k = Cardinality(Owing(p, d)) /\ t = Times(d, r)
    OBVIOUS
  <2>3. PICK k1, t1, n1 : /\ k1 = Cardinality(Owing(p, d)')
                          /\ t1 = Times(d, proposals'[p].reviews)
                          /\ n1 = decisions'[p][d]
    OBVIOUS
  <2>4. /\ k \in Nat /\ k1 \in Nat /\ p \in ProposalIds /\ n \in Nat
        /\ t \in Nat /\ IsFiniteSet(Owing(p, d)) /\ r \in Seq(Decision)
    BY <1>1, <2>1, <2>2, <2>3, FinitelyOwing, StepOwes, IdsAreNumbers
      DEF ReviewOK, Proposal
  <2>5. n + k <= t /\ (stops = 0 => n + k = t)
    BY <2>1, <2>2, <2>4 DEF LearnInv
  <2>6. /\ n1 + k1 <= t1
        /\ stops' = 0 => n1 + k1 = t1
        /\ n1 > n => told[p][d] > 0
        /\ n1 \in Nat
    <3>1. CASE /\ Owing(p, d)' = Owing(p, d) /\ decisions'[p][d] = n
               /\ proposals'[p].reviews = r
               /\ stops' = 0 => stops = 0
      <4>1. k1 = k /\ t1 = t /\ n1 = n
        BY <2>2, <2>3, <3>1
      <4>2. QED
        BY <2>4, <2>5, <3>1, <4>1
    <3>2. ASSUME NEW c \in Calls, NEW e,
                 c \notin Owing(p, d), decisions'[p][d] = n,
                 Owing(p, d)' = Owing(p, d) \cup (IF e = d THEN {c} ELSE {}),
                 proposals'[p].reviews = Append(r, e), stops' = stops
          PROVE  /\ n1 + k1 <= t1
                 /\ stops' = 0 => n1 + k1 = t1
                 /\ n1 > n => told[p][d] > 0
                 /\ n1 \in Nat
      <4>1. n1 = n
        BY <2>3, <3>2
      <4>2. t1 = t + (IF d = e THEN 1 ELSE 0)
        BY <2>2, <2>3, <2>4, <3>2, TimesAppended
      <4>3. CASE e = d
        <5>1. Cardinality(Owing(p, d) \cup {c}) = k + 1
          BY <2>2, <2>4, <3>2, FS_AddElement
        <5>2. k1 = k + 1
          BY <2>3, <3>2, <4>3, <5>1
        <5>3. QED
          BY <2>4, <2>5, <3>2, <4>1, <4>2, <4>3, <5>2
      <4>4. CASE e # d
        <5>1. k1 = k
          BY <2>2, <2>3, <3>2, <4>4
        <5>2. QED
          BY <2>4, <2>5, <3>2, <4>1, <4>2, <4>4, <5>1
      <4>5. QED
        BY <4>3, <4>4
    <3>3. ASSUME NEW c \in Owing(p, d), Owing(p, d)' = Owing(p, d) \ {c},
                 decisions'[p][d] = n + 1, told[p][d] > 0,
                 proposals'[p].reviews = r, stops' = stops
          PROVE  /\ n1 + k1 <= t1
                 /\ stops' = 0 => n1 + k1 = t1
                 /\ n1 > n => told[p][d] > 0
                 /\ n1 \in Nat
      <4>1. n1 = n + 1 /\ t1 = t
        BY <2>2, <2>3, <3>3
      <4>2. Cardinality(Owing(p, d) \ {c}) = k - 1
        BY <2>2, <2>4, FS_RemoveElement
      <4>3. k1 = k - 1
        BY <2>3, <3>3, <4>2
      <4>4. QED
        BY <2>4, <2>5, <3>3, <4>1, <4>3
    <3>4. CASE /\ Owing(p, d)' \subseteq Owing(p, d) /\ decisions'[p][d] = n
               /\ proposals'[p].reviews = r /\ stops' # 0
      <4>1. n1 = n /\ t1 = t
        BY <2>2, <2>3, <3>4
      <4>2. k1 <= k
        BY <2>2, <2>3, <2>4, <3>4, FS_Subset
      <4>3. QED
        BY <2>4, <2>5, <3>4, <4>1, <4>2
    <3>5. \/ DebtStays(p, d, r, n) \/ DebtMade(p, d, r, n)
          \/ DebtPaid(p, d, r, n) \/ DebtLost(p, d, r, n)
      BY <2>1, StepOwes
    <3>6. QED
      BY <3>1, <3>2, <3>3, <3>4, <3>5
        DEF DebtStays, DebtMade, DebtPaid, DebtLost
  <2>7. QED
    BY <2>1, <2>3, <2>4, <2>6
<1>4. ASSUME NEW p \in ProposalIds, NEW d \in Decision
      PROVE  /\ p \notin Ids' => decisions'[p][d] = 0
             /\ p \in Ids' =>
                  /\ decisions'[p][d] + Cardinality(Owing(p, d)')
                       <= Times(d, proposals'[p].reviews)
                  /\ stops' = 0 =>
                       decisions'[p][d] + Cardinality(Owing(p, d)')
                         = Times(d, proposals'[p].reviews)
             /\ decisions'[p][d] > 0 => told'[p][d] > 0
  <2>1. CASE p \in Ids
    <3>1. decisions'[p][d] > 0 => told'[p][d] > 0
      <4>1. /\ told[p][d] \in Nat /\ told'[p][d] \in Nat
            /\ told'[p][d] >= told[p][d]
        BY ToldStays
      <4>2. decisions[p][d] > 0 => told[p][d] > 0
        BY DEF LearnInv
      <4>3. /\ decisions'[p][d] > decisions[p][d] => told[p][d] > 0
            /\ decisions'[p][d] \in Nat /\ decisions[p][d] \in Nat
        BY <1>3, <2>1
      <4>4. QED
        BY <4>1, <4>2, <4>3
    <3>2. p \in Ids'
      BY <1>1, <2>1
    <3>3. QED
      BY <1>3, <2>1, <3>1, <3>2
  <2>2. CASE p \notin Ids
    <3>1. decisions'[p][d] = 0
      BY <1>2, <2>2
    <3>2. p \in Ids' => Times(d, proposals'[p].reviews)
                          = decisions'[p][d] + Cardinality(Owing(p, d)')
      BY <1>2, <2>2
    <3>3. decisions'[p][d] + Cardinality(Owing(p, d)') \in Nat
      <4>1. Cardinality(Owing(p, d)') \in Nat
        BY FinitelyOwing
      <4>2. QED
        BY <3>1, <4>1
    <3>4. PICK n, t : /\ n = decisions'[p][d] + Cardinality(Owing(p, d)')
                      /\ p \in Ids' => t = Times(d, proposals'[p].reviews)
      OBVIOUS
    <3>5. p \in Ids' => n <= t /\ n = t
      BY <3>2, <3>3, <3>4
    <3>6. QED
      BY <2>2, <3>1, <3>4, <3>5
  <2>3. QED
    BY <2>1, <2>2
<1>5. \A c \in Calls :
        call'[c].pc = "told" => told'[call'[c].id][call'[c].decision] > 0
  BY StepTold
<1>6. QED
  BY <1>4, <1>5 DEF LearnInv

\* What is learned is never more than what was reviewed, and when all reviews
\* have ended, just that.
LEMMA LearnedIsLearned ==
  ASSUME ReviewOK, LearnInv
  PROVE  DecisionsAreLearned
<1> SUFFICES ASSUME NEW p \in Ids, NEW d \in Decision,
                    NEW t, t = Times(d, proposals[p].reviews)
             PROVE  /\ decisions[p][d] <= t
                    /\ stops = 0 /\ Handled(Reviews) = {} =>
                         /\ decisions[p][d] = t
                         /\ t > 0 => told[p][d] > 0
  BY DEF DecisionsAreLearned
<1>1. /\ p \in ProposalIds /\ proposals[p].reviews \in Seq(Decision)
      /\ decisions \in [ProposalIds -> [Decision -> Nat]]
  BY IdsAreNumbers DEF ReviewOK, TypeOK, Proposal
<1>2. PICK k, n : k = Cardinality(Owing(p, d)) /\ n = decisions[p][d]
  OBVIOUS
<1>3. k \in Nat /\ n \in Nat /\ t \in Nat
  BY <1>1, <1>2, FinitelyOwing, TimesAppended
<1>4. /\ n + k <= t /\ (stops = 0 => n + k = t)
      /\ n > 0 => told[p][d] > 0
  BY <1>1, <1>2 DEF LearnInv
<1>5. ASSUME Handled(Reviews) = {} PROVE k = 0
  <2>1. \A c \in Calls : call[c].pc \in Owed => c \in Handled(Reviews)
    BY DEF Handled, InFlight, Owed, Reviews, ReviewOK, CallShape, Shape
  <2>2. Owing(p, d) = {}
    BY <1>5, <2>1 DEF Owing
  <2>3. QED
    BY <1>2, <2>2, FS_EmptySet
<1>6. QED
  BY <1>2, <1>3, <1>4, <1>5

\* The reviews' invariant: types, how many there are at a time, statuses and
\* decisions.
ReviewsInv == ReviewOK /\ WithinWidth /\ ReviewInv /\ LearnInv

\* It holds of the first state, ...
LEMMA ReviewsInvInit == Init => ReviewsInv
<1> SUFFICES ASSUME Init PROVE ReviewsInv
  OBVIOUS
<1>1. ReviewOK
  BY ReviewInitTypes
<1>2. call = [c \in Calls |-> IdleCall] /\ proposals = <<>> /\ Ids = {}
  BY EmptySeq DEF Init, Ids
<1>3. \A kinds : Handled(kinds) = {}
  BY <1>2 DEF Handled, InFlight, IdleCall
<1>4. WithinWidth
  <2>1. Cardinality({}) = 0
    BY FS_EmptySet
  <2>2. QED
    BY <1>1, <1>3, <2>1, Bounds DEF WithinWidth
<1>5. ReviewInv
  BY <1>2 DEF ReviewInv, StatusFollowsReviews, ReadIsOpen, IdleCall
<1>6. decisions = [p \in ProposalIds |-> [d \in Decision |-> 0]]
  BY DEF Init
<1>7. LearnInv
  BY <1>2, <1>6 DEF LearnInv, IdleCall
<1>8. QED
  BY <1>1, <1>4, <1>5, <1>7 DEF ReviewsInv

\* ... and every step keeps it.
LEMMA ReviewsInvStep == ReviewsInv /\ [Next]_vars => ReviewsInv'
<1> SUFFICES ASSUME ReviewsInv, [Next]_vars PROVE ReviewsInv'
  OBVIOUS
<1>1. ReviewOK'
  BY ReviewStepTypes DEF ReviewsInv
<1>2. CASE Next
  BY <1>1, <1>2, StepWithinWidth, StepReviewInv, StepLearnInv DEF ReviewsInv
<1>3. CASE UNCHANGED vars
  <2>1. call' = call /\ proposals' = proposals /\ decisions' = decisions
        /\ told' = told /\ setting' = setting /\ stops' = stops
    BY <1>3 DEF vars, reviewVars, insightVars
  <2>2. WithinWidth'
    BY <2>1 DEF ReviewsInv, WithinWidth, Handled, InFlight
  <2>3. ReviewInv'
    BY <2>1 DEF ReviewsInv, ReviewInv, StatusFollowsReviews, ReadIsOpen, Ids
  <2>4. LearnInv'
    BY <2>1 DEF ReviewsInv, LearnInv, Ids, Owing
  <2>5. QED
    BY <1>1, <2>2, <2>3, <2>4 DEF ReviewsInv
<1>4. QED
  BY <1>2, <1>3

\* With one reviewer at a time a proposal is decided once for good and has the
\* status that its reviews say; and however many review, a decision is learned
\* once for each review at most, told first, and just so when all have ended.
THEOREM ReviewsKept == Spec => []ReviewsAreKept
<1>1. Spec => []ReviewsInv
  BY ReviewsInvInit, ReviewsInvStep, PTL DEF Spec
<1>2. ReviewsInv => ReviewsAreKept
  BY LearnedIsLearned DEF ReviewsInv, ReviewInv, StatusFollowsReviews,
    ReviewsAreKept
<1>3. QED
  BY <1>1, <1>2, PTL

(***************************************************************************)
(* Active proposals of a type                                              *)
(***************************************************************************)

\* The proposals and what is counted of them are finitely many.
LEMMA FinitelyManyProposals ==
  ASSUME TypeOK
  PROVE  /\ IsFiniteSet(Ids) /\ Ids \subseteq Nat
         /\ \A source : IsFiniteSet(From(source))
         /\ \A source : Cardinality(From(source)) \in Nat
<1>1. Ids = 1..Len(proposals) /\ Len(proposals) \in Nat
  BY IdsAreNumbers
<1>2. IsFiniteSet(Ids) /\ Ids \subseteq Nat
  BY <1>1, FS_Interval
<1>3. ASSUME NEW source
      PROVE  IsFiniteSet(From(source)) /\ Cardinality(From(source)) \in Nat
  <2>1. From(source) \subseteq Ids
    BY DEF From
  <2>2. QED
    BY <1>2, <2>1, FS_Subset, FS_CardinalityType
<1>4. QED
  BY <1>2, <1>3

\* Of few proposals the newest are all.
LEMMA NewestOfFew ==
  ASSUME NEW S \in SUBSET Nat, IsFiniteSet(S), NEW n \in Nat,
         Cardinality(S) <= n
  PROVE  Newest(S, n) = S
<1> SUFFICES ASSUME NEW p \in S
             PROVE  Cardinality({q \in S : q > p}) < n
  BY DEF Newest
<1>1. {q \in S : q > p} \subseteq S \ {p}
  OBVIOUS
<1>2. /\ IsFiniteSet(S \ {p}) /\ Cardinality(S) \in Nat
      /\ Cardinality(S \ {p}) = Cardinality(S) - 1
  BY FS_RemoveElement, FS_CardinalityType
<1>3. /\ Cardinality({q \in S : q > p}) \in Nat
      /\ Cardinality({q \in S : q > p}) <= Cardinality(S \ {p})
  BY <1>1, <1>2, FS_Subset, FS_CardinalityType
<1>4. QED
  BY <1>2, <1>3

\* What a request that generates begins with.
LEMMA GeneratedFields ==
  ASSUME NEW c \in Calls, NEW kind, Generate(c, kind)
  PROVE  /\ call'[c].pc = "building" /\ call'[c].kind = kind
         /\ call'[c].drafts = {} /\ call'[c].used = {}
         /\ call'[c].alone = (Handled(Generates) = {})
         /\ \A e \in Calls \ {c} : call'[e] = [call[e] EXCEPT !.alone = FALSE]
         /\ allowed' = IF Handled(Generates) = {} THEN allowed
                       ELSE Max({allowed, setting.width})
<1>1. PICK S : call' = [e \in Calls |->
                 IF e = c
                 THEN [IdleCall EXCEPT !.pc = "building", !.kind = kind,
                                       !.readings = S,
                                       !.alone = Handled(Generates) = {}]
                 ELSE [call[e] EXCEPT !.alone = FALSE]]
  BY DEF Generate
<1>2. PICK a : a = (Handled(Generates) = {})
  OBVIOUS
<1>3. call'[c] = [IdleCall EXCEPT !.pc = "building", !.kind = kind,
                                  !.readings = S, !.alone = a]
  BY <1>1, <1>2
<1>4. /\ call'[c].pc = "building" /\ call'[c].kind = kind
      /\ call'[c].drafts = {} /\ call'[c].used = {} /\ call'[c].alone = a
  BY <1>3 DEF IdleCall
<1>5. \A e \in Calls \ {c} : call'[e] = [call[e] EXCEPT !.alone = FALSE]
  BY <1>1
<1>6. allowed' = IF Handled(Generates) = {} THEN allowed
                 ELSE Max({allowed, setting.width})
  BY DEF Generate
<1>7. QED
  BY <1>2, <1>4, <1>5, <1>6

\* A request that writes drafts was at it before, or has just looked up what
\* there is.
LEMMA WhoPersists ==
  ASSUME ReviewOK, Next, NEW e \in Calls, call'[e].pc = "persisting"
  PROVE  /\ call'[e].alone => call[e].alone
         /\ InFlight(e) /\ call[e].kind \in Generates
         /\ \/ Rests(e) \/ LoadExisting(e) \/ Persist(e)
<1>1. call \in [Calls -> Call] /\ call[e] \in Call
  BY DEF ReviewOK, TypeOK
<1>2. CASE Rests(e) \/ \A f \in Calls : call'[f] = call[f]
  <2>1. Rests(e)
    BY <1>2 DEF Rests
  <2>2. call[e].pc = "persisting"
    BY <2>1 DEF Rests
  <2>3. InFlight(e) /\ call[e].kind \in Generates
    BY <2>2 DEF InFlight, ReviewOK, CallShape, Shape
  <2>4. QED
    BY <2>1, <2>3 DEF Rests
<1>3. CASE Begins(e)
  <2>1. ASSUME NEW kind \in Generates, Generate(e, kind) PROVE FALSE
    BY <2>1, GeneratedFields
  <2>2. ASSUME FindRecommendation(e) PROVE FALSE
    BY <1>1, <2>2 DEF FindRecommendation, SetCall, IdleCall
  <2>3. ASSUME NEW kind, NEW p, NEW d, BeginReview(e, kind, p, d) PROVE FALSE
    BY <1>1, <2>3 DEF BeginReview, SetCall, IdleCall
  <2>4. QED
    BY <1>3, <2>1, <2>2, <2>3 DEF Begins
<1>4. CASE CallStep(e) \/ StopCall(e)
  <2>1. call'[e] # IdleCall
    BY DEF IdleCall
  <2>2. ~Finish(e)
    BY <1>1, <2>1 DEF Finish, SetCall
  <2>3. ~StopCall(e) /\ ~Archive(e) /\ ~Abandon(e)
        /\ ~CreateFromRecommendation(e) /\ ~RecordDecision(e)
    BY <2>2 DEF StopCall, Archive, Abandon, CreateFromRecommendation,
         RecordDecision
  <2>4. ~Submit(e)
    BY <2>1 DEF Submit, Review
  <2>5. ~Decide(e)
    <3> SUFFICES ASSUME Decide(e) PROVE FALSE
      OBVIOUS
    <3>1. call'[e] = [call[e] EXCEPT !.pc = "decided"]
      BY DEF Decide, Review
    <3>2. QED
      BY <1>1, <3>1 DEF Call
  <2>6. ~BuildDrafts(e)
    BY <1>1 DEF BuildDrafts, SetCall, Call
  <2>7. ~LookForDuplicate(e)
    BY <1>1, <2>2 DEF LookForDuplicate, CallGoto, SetCall, Call
  <2>8. ~LookForDecisionNote(e) /\ ~NotifyDecision(e)
    BY <1>1 DEF LookForDecisionNote, NotifyDecision, CallGoto, SetCall, Call
  <2>9. CASE LoadExisting(e)
    <3>1. PICK E : SetCall(e, [call[e] EXCEPT !.pc = "persisting",
                                              !.existing = E])
      BY <2>9 DEF LoadExisting
    <3>2. call'[e].alone = call[e].alone
      BY <1>1, <3>1 DEF SetCall, Call
    <3>3. QED
      BY <2>9, <3>2 DEF LoadExisting, InFlight, ReviewOK, CallShape, Shape
  <2>10. CASE Persist(e)
    <3>1. PICK draft, n : SetCall(e, [call[e] EXCEPT !.drafts = @ \ {draft},
                                                     !.used = @ \cup {n}])
      BY <2>10, PersistCases DEF ReviewOK
    <3>2. call'[e].alone = call[e].alone
      BY <1>1, <3>1 DEF SetCall, Call
    <3>3. QED
      BY <2>10, <3>2 DEF Persist, InFlight, ReviewOK, CallShape, Shape
  <2>11. QED
    BY <1>4, <2>3, <2>4, <2>5, <2>6, <2>7, <2>8, <2>9, <2>10 DEF CallStep
<1>5. QED
  BY <1>2, <1>3, <1>4, OneMoves

\* What a request has of drafts and proposals after a look-up, ...
LEMMA LoadedFields ==
  ASSUME ReviewOK, NEW c \in Calls, LoadExisting(c)
  PROVE  /\ call'[c].pc = "persisting" /\ call'[c].drafts = call[c].drafts
         /\ call'[c].used = call[c].used
         /\ call'[c].existing = {p \in Newest(From("engine"), EngineWindow) :
                                   proposals[p].status \in ActiveGenerated}
         /\ proposals' = proposals /\ allowed' = allowed
<1>1. call \in [Calls -> Call] /\ call[c] \in Call
  BY DEF ReviewOK, TypeOK
<1>2. PICK E : E = {p \in Newest(From("engine"), EngineWindow) :
                      proposals[p].status \in ActiveGenerated}
  OBVIOUS
<1>3. SetCall(c, [call[c] EXCEPT !.pc = "persisting", !.existing = E])
  BY <1>2 DEF LoadExisting
<1>4. call'[c] = [call[c] EXCEPT !.pc = "persisting", !.existing = E]
  BY <1>1, <1>3 DEF SetCall
<1>5. QED
  BY <1>1, <1>2, <1>4 DEF Call, LoadExisting

\* ... and after a draft has been written over a proposal or as one.
LEMMA PersistedFields ==
  ASSUME ReviewOK, NEW c \in Calls, Persist(c)
  PROVE  /\ call[c].pc = "persisting" /\ allowed' = allowed
         /\ \E draft \in call[c].drafts, n \in From("engine")' :
              /\ call'[c].drafts = call[c].drafts \ {draft}
              /\ call'[c].used = call[c].used \cup {n}
              /\ call'[c].existing = call[c].existing
              /\ proposals'[n].condition = draft.condition
              /\ \/ n \in call[c].existing /\ Ids' = Ids
                 \/ /\ n = Len(proposals) + 1 /\ Ids' = Ids \cup {n}
                    /\ n \notin Ids
                    /\ \A p \in call[c].existing :
                         proposals[p].condition # draft.condition
<1>1. call \in [Calls -> Call] /\ call[c] \in Call
      /\ call[c].existing \subseteq From("engine")
      /\ \A p \in Ids : proposals[p] \in Proposal
  BY IdsAreNumbers DEF ReviewOK, TypeOK, CallShape, Shape
<1>2. ASSUME NEW draft, NEW n,
             SetCall(c, [call[c] EXCEPT !.drafts = @ \ {draft},
                                        !.used = @ \cup {n}])
      PROVE  /\ call'[c].drafts = call[c].drafts \ {draft}
             /\ call'[c].used = call[c].used \cup {n}
             /\ call'[c].existing = call[c].existing
  <2>1. call'[c] = [call[c] EXCEPT !.drafts = @ \ {draft},
                                   !.used = @ \cup {n}]
    BY <1>1, <1>2 DEF SetCall
  <2>2. QED
    BY <1>1, <2>1 DEF Call
<1>3. PICK draft \in call[c].drafts :
        \/ \E p \in call[c].existing :
             /\ p \in From("engine") /\ Matches(p, draft)
             /\ [proposals[p] EXCEPT !.version = draft.version] \in Proposal
             /\ SetProposal(p, [proposals[p] EXCEPT !.version = draft.version])
             /\ SetCall(c, [call[c] EXCEPT !.drafts = @ \ {draft},
                                           !.used = @ \cup {p}])
        \/ /\ \A p \in call[c].existing : ~Matches(p, draft)
           /\ Len(proposals) < MaxProposals
           /\ \E row \in Proposal :
                /\ row.source = "engine" /\ row.condition = draft.condition
                /\ proposals' = Append(proposals, row)
           /\ SetCall(c, [call[c] EXCEPT
                            !.drafts = @ \ {draft},
                            !.used = @ \cup {Len(proposals) + 1}])
  BY PersistCases DEF ReviewOK
<1>4. ASSUME NEW p \in call[c].existing, Matches(p, draft),
             [proposals[p] EXCEPT !.version = draft.version] \in Proposal,
             SetProposal(p, [proposals[p] EXCEPT !.version = draft.version])
      PROVE  /\ p \in From("engine")' /\ Ids' = Ids
             /\ proposals'[p].condition = draft.condition
  <2>1. p \in Ids /\ proposals[p] \in Proposal /\ proposals[p].source = "engine"
    BY <1>1, <1>4 DEF From
  <2>2. PICK row \in Proposal :
          row = [proposals[p] EXCEPT !.version = draft.version]
    BY <1>4
  <2>3. Ids' = Ids /\ proposals'[p] = row
    BY <1>4, <2>1, <2>2, SetProposalTypes DEF ReviewOK
  <2>4. row.source = "engine" /\ row.condition = proposals[p].condition
    BY <2>1, <2>2 DEF Proposal
  <2>5. QED
    BY <1>4, <2>1, <2>3, <2>4 DEF From, Matches
<1>5. ASSUME Len(proposals) < MaxProposals, NEW row \in Proposal,
             row.source = "engine", row.condition = draft.condition,
             proposals' = Append(proposals, row)
      PROVE  /\ Len(proposals) + 1 \in From("engine")'
             /\ Ids' = Ids \cup {Len(proposals) + 1}
             /\ Len(proposals) + 1 \notin Ids
             /\ proposals'[Len(proposals) + 1].condition = draft.condition
  BY <1>5, AppendTypes DEF ReviewOK, From
<1>6. call[c].pc = "persisting" /\ allowed' = allowed
  BY DEF Persist
<1>7. CASE \E p \in call[c].existing :
             /\ p \in From("engine") /\ Matches(p, draft)
             /\ [proposals[p] EXCEPT !.version = draft.version] \in Proposal
             /\ SetProposal(p, [proposals[p] EXCEPT !.version = draft.version])
             /\ SetCall(c, [call[c] EXCEPT !.drafts = @ \ {draft},
                                           !.used = @ \cup {p}])
  <2>1. PICK p \in call[c].existing :
             /\ p \in From("engine") /\ Matches(p, draft)
             /\ [proposals[p] EXCEPT !.version = draft.version] \in Proposal
             /\ SetProposal(p, [proposals[p] EXCEPT !.version = draft.version])
             /\ SetCall(c, [call[c] EXCEPT !.drafts = @ \ {draft},
                                           !.used = @ \cup {p}])
    BY <1>7
  <2>2. /\ call'[c].drafts = call[c].drafts \ {draft}
        /\ call'[c].used = call[c].used \cup {p}
        /\ call'[c].existing = call[c].existing
    BY <1>2, <2>1
  <2>3. QED
    BY <1>4, <1>6, <2>1, <2>2
<1>8. CASE /\ \A p \in call[c].existing : ~Matches(p, draft)
           /\ Len(proposals) < MaxProposals
           /\ \E row \in Proposal :
                /\ row.source = "engine" /\ row.condition = draft.condition
                /\ proposals' = Append(proposals, row)
           /\ SetCall(c, [call[c] EXCEPT
                            !.drafts = @ \ {draft},
                            !.used = @ \cup {Len(proposals) + 1}])
  <2>1. PICK n : n = Len(proposals) + 1
    OBVIOUS
  <2>2. /\ call'[c].drafts = call[c].drafts \ {draft}
        /\ call'[c].used = call[c].used \cup {n}
        /\ call'[c].existing = call[c].existing
    BY <1>2, <1>8, <2>1
  <2>3. /\ n \in From("engine")' /\ Ids' = Ids \cup {n} /\ n \notin Ids
        /\ proposals'[n].condition = draft.condition
    BY <1>5, <1>8, <2>1
  <2>4. \A p \in call[c].existing : proposals[p].condition # draft.condition
    BY <1>8 DEF Matches
  <2>5. QED
    BY <1>6, <2>1, <2>2, <2>3, <2>4
<1>9. QED
  BY <1>3, <1>7, <1>8

\* How many active proposals of a type there may be: some, and as many as there
\* may be requests once two generate side by side.
Sides ==
  /\ allowed >= 1
  /\ \A c, e \in Handled(Generates) :
       c # e => allowed >= setting.width /\ ~call[c].alone

\* A request's drafts are of different types, and none is used before there is
\* something to use.
DraftsDiffer ==
  \A c \in Calls :
    /\ call[c].pc \in {"building", "built"} => call[c].used = {}
    /\ \A d, e \in call[c].drafts : d.condition = e.condition => d = e

\* How allowed changes.
LEMMA AllowedChanges ==
  ASSUME ReviewOK, Next
  PROVE  /\ allowed \in Nat /\ allowed' \in Nat
         /\ \/ allowed' >= allowed
            \/ \E c \in Calls : /\ Archive(c) /\ call[c].alone
                                /\ allowed' = 1
<1>1. allowed \in Nat /\ allowed' \in Nat /\ setting.width \in Nat
  BY ReviewStepTypes, Bounds DEF ReviewOK, TypeOK
<1>2. CASE allowed' = allowed
  BY <1>1, <1>2
<1>3. ASSUME NEW c \in Calls, NEW kind, Generate(c, kind)
      PROVE  allowed' >= allowed
  BY <1>1, <1>3, GeneratedFields, Greater
<1>4. ASSUME NEW c \in Calls, Submit(c) \/ Decide(c)
      PROVE  allowed' >= allowed
  <2>1. allowed' \in {allowed, allowed + 1}
    BY <1>4 DEF Submit, Decide, Review
  <2>2. QED
    BY <1>1, <2>1
<1>5. ASSUME NEW c \in Calls, Archive(c)
      PROVE  allowed' = allowed \/ (call[c].alone /\ allowed' = 1)
  <2>1. allowed' = IF call[c].kind = "refresh" /\ call[c].alone THEN 1
                   ELSE allowed
    BY <1>5 DEF Archive
  <2>2. PICK a \in BOOLEAN : a = call[c].alone
    BY <1>5 DEF ReviewOK, TypeOK, Call
  <2>3. QED
    BY <2>1, <2>2
<1>6. \/ allowed' = allowed
      \/ \E c \in Calls, kind \in Generates : Generate(c, kind)
      \/ \E c \in Calls : Submit(c) \/ Decide(c) \/ Archive(c)
  BY DEF Next, reviewVars, FindRecommendation, BeginReview, CallStep, StopCall,
       BuildDrafts, LoadExisting, Persist, Abandon, LookForDuplicate,
       CreateFromRecommendation, LookForDecisionNote, NotifyDecision,
       RecordDecision
<1>7. QED
  BY <1>1, <1>2, <1>3, <1>4, <1>5, <1>6

\* Who generates did so before, or begins.
LEMMA WhoGenerates ==
  ASSUME ReviewOK, Next, NEW e \in Handled(Generates)'
  PROVE  \/ e \in Handled(Generates) /\ (call'[e].alone => call[e].alone)
         \/ \E kind \in Generates : Generate(e, kind)
<1>1. e \in Calls /\ InFlight(e)' /\ call'[e].kind \in Generates
  BY DEF Handled
<1>2. CASE Rests(e) \/ \A f \in Calls : call'[f] = call[f]
  BY <1>1, <1>2 DEF Rests, Handled, InFlight
<1>3. CASE CallStep(e) \/ StopCall(e)
  <2>1. /\ InFlight(e) /\ call'[e] # IdleCall /\ call'[e].kind = call[e].kind
    BY <1>1, <1>3, StepsKeepKind DEF InFlight, IdleCall
  <2>2. e \in Handled(Generates)
    BY <1>1, <2>1 DEF Handled
  <2>3. call'[e].alone => call[e].alone
    <3>1. /\ call[e] \in Call /\ call \in [Calls -> Call]
          /\ call[e].kind \in Generates
      BY <1>1, <2>1 DEF ReviewOK, TypeOK
    <3>2. ~Finish(e)
      BY <1>1, <2>1, <3>1 DEF Finish, SetCall
    <3>3. call[e].pc \in {"building", "built", "persisting"}
      <4>1. Shape(e)
        BY <1>1 DEF ReviewOK, CallShape
      <4>2. call[e].kind \notin Reviews /\ call[e].kind # "create"
            /\ call[e].kind # "decide" /\ call[e].pc # "idle"
        BY <2>1, <3>1 DEF Generates, Reviews, InFlight
      <4>3. QED
        BY <3>1, <4>1, <4>2 DEF Shape, Call
    <3>4. CASE BuildDrafts(e)
      BY <1>1, <3>1, <3>4 DEF BuildDrafts, SetCall, Call
    <3>5. CASE LoadExisting(e)
      BY <3>5, WhoPersists, LoadedFields, <1>1
    <3>6. CASE Persist(e)
      <4>1. PICK draft, n : SetCall(e, [call[e] EXCEPT !.drafts = @ \ {draft},
                                                       !.used = @ \cup {n}])
        BY <1>1, <3>6, PersistCases DEF ReviewOK
      <4>2. QED
        BY <3>1, <4>1 DEF SetCall, Call
    <3>7. QED
      BY <1>3, <3>2, <3>3, <3>4, <3>5, <3>6
        DEF CallStep, StopCall, Archive, Abandon, LookForDuplicate,
          CreateFromRecommendation, Submit, Decide, LookForDecisionNote,
          NotifyDecision, RecordDecision
  <2>4. QED
    BY <2>2, <2>3
<1>4. CASE Begins(e)
  <2>1. ~FindRecommendation(e)
    <3> SUFFICES ASSUME FindRecommendation(e) PROVE FALSE
      OBVIOUS
    <3>1. call'[e].kind = "create"
      BY <1>1 DEF FindRecommendation, SetCall, IdleCall, ReviewOK, TypeOK
    <3>2. QED
      BY <1>1, <3>1 DEF Generates
  <2>2. ASSUME NEW kind \in Reviews, NEW p, NEW d, BeginReview(e, kind, p, d)
        PROVE  FALSE
    <3>1. call'[e].kind = kind
      BY <1>1, <2>2 DEF BeginReview, SetCall, IdleCall, ReviewOK, TypeOK
    <3>2. QED
      BY <1>1, <2>2, <3>1 DEF Generates, Reviews
  <2>3. QED
    BY <1>4, <2>1, <2>2 DEF Begins
<1>5. QED
  BY <1>1, <1>2, <1>3, <1>4, OneMoves

\* Every step keeps the bound as it should be.
LEMMA StepSides ==
  ASSUME ReviewOK, Next, Sides
  PROVE  Sides'
<1>1. /\ allowed \in Nat /\ allowed' \in Nat /\ setting' = setting
      /\ setting.width \in Nat
  BY AllowedChanges, Bounds, ProposalsStay
<1>2. allowed' >= 1
  <2>1. allowed' >= allowed \/ allowed' = 1
    BY AllowedChanges
  <2>2. QED
    BY <1>1, <2>1 DEF Sides
<1>3. ASSUME NEW c \in Handled(Generates)', NEW e \in Handled(Generates)',
             c # e
      PROVE  allowed' >= setting.width /\ ~call'[c].alone
  <2>1. c \in Calls /\ e \in Calls /\ InFlight(c)' /\ InFlight(e)'
        /\ call'[c].kind \in Generates /\ call'[e].kind \in Generates
    BY <1>3 DEF Handled
  <2>2. ASSUME NEW m \in Calls, NEW kind \in Generates, Generate(m, kind),
               m = c \/ m = e
        PROVE  allowed' >= setting.width /\ ~call'[c].alone
    <3>1. PICK other \in Calls \ {m} : other \in {c, e}
      BY <1>3, <2>1, <2>2
    <3>2. call'[other] = [call[other] EXCEPT !.alone = FALSE]
          /\ call[other] \in Call
      BY <2>2, <3>1, GeneratedFields DEF ReviewOK, TypeOK
    <3>3. /\ call'[other].pc = call[other].pc
          /\ call'[other].kind = call[other].kind
          /\ ~call'[other].alone
      BY <3>2 DEF Call
    <3>4. other \in Handled(Generates)
      BY <2>1, <3>1, <3>3 DEF Handled, InFlight
    <3>5. ~call'[m].alone /\ allowed' = Max({allowed, setting.width})
      BY <2>2, <3>4, GeneratedFields
    <3>6. allowed' >= setting.width
      BY <1>1, <3>5, Greater
    <3>7. QED
      BY <2>2, <3>1, <3>3, <3>5, <3>6
  <2>3. CASE /\ c \in Handled(Generates) /\ (call'[c].alone => call[c].alone)
             /\ e \in Handled(Generates)
    <3>1. allowed >= setting.width /\ ~call[c].alone /\ ~call[e].alone
      BY <1>3, <2>3 DEF Sides
    <3>2. ASSUME NEW m \in Calls, Archive(m), call[m].alone PROVE FALSE
      <4>1. m \in Handled(Generates)
        BY <3>2 DEF Handled, Archive, InFlight, ReviewOK, CallShape, Shape
      <4>2. m # c
        BY <3>1, <3>2
      <4>3. QED
        BY <2>3, <3>2, <4>1, <4>2 DEF Sides
    <3>3. allowed' >= allowed
      BY <3>2, AllowedChanges
    <3>4. QED
      BY <1>1, <2>3, <3>1, <3>3
  <2>4. QED
    BY <1>3, <2>1, <2>2, <2>3, WhoGenerates
<1>4. QED
  BY <1>1, <1>2, <1>3 DEF Sides

\* Every step keeps the drafts apart.
LEMMA StepDraftsDiffer ==
  ASSUME ReviewOK, Next, DraftsDiffer
  PROVE  DraftsDiffer'
<1> DEFINE Good(e) ==
             /\ call[e].pc \in {"building", "built"} => call[e].used = {}
             /\ \A d, f \in call[e].drafts : d.condition = f.condition => d = f
<1> SUFFICES ASSUME NEW e \in Calls PROVE Good(e)'
  BY DEF DraftsDiffer
<1>1. call \in [Calls -> Call] /\ call[e] \in Call /\ Good(e)
  BY DEF ReviewOK, TypeOK, DraftsDiffer
<1>2. CASE Rests(e) \/ \A f \in Calls : call'[f] = call[f]
  BY <1>1, <1>2 DEF Rests
<1>3. ASSUME call'[e] = IdleCall PROVE Good(e)'
  BY <1>3 DEF IdleCall
<1>4. ASSUME NEW to, CallGoto(e, to), to \notin {"building", "built"}
      PROVE  Good(e)'
  BY <1>1, <1>4 DEF CallGoto, SetCall, Call
<1>5. CASE CallStep(e) \/ StopCall(e)
  <2>1. CASE Finish(e)
    BY <1>1, <1>3, <2>1 DEF Finish, SetCall
  <2>2. CASE BuildDrafts(e)
    <3>1. PICK D \in Drafts :
            SetCall(e, [call[e] EXCEPT !.pc = "built", !.drafts = D])
      BY <2>2 DEF BuildDrafts
    <3>2. call'[e] = [call[e] EXCEPT !.pc = "built", !.drafts = D]
      BY <1>1, <3>1 DEF SetCall
    <3>3. call'[e].drafts = D /\ call'[e].used = call[e].used
      BY <1>1, <3>2 DEF Call
    <3>4. call[e].used = {}
      BY <1>1, <2>2 DEF BuildDrafts
    <3>5. Distinct(D)
      BY DraftsOfWorld DEF ReviewOK, ReadingsOK
    <3>6. QED
      BY <3>3, <3>4, <3>5 DEF Distinct
  <2>3. CASE LoadExisting(e)
    BY <1>1, <2>3, LoadedFields
  <2>4. CASE Persist(e)
    <3>1. PICK draft, n : SetCall(e, [call[e] EXCEPT !.drafts = @ \ {draft},
                                                     !.used = @ \cup {n}])
      BY <2>4, PersistCases DEF ReviewOK
    <3>2. call'[e] = [call[e] EXCEPT !.drafts = @ \ {draft},
                                     !.used = @ \cup {n}]
      BY <1>1, <3>1 DEF SetCall
    <3>3. call'[e].pc = "persisting" /\ call'[e].drafts \subseteq call[e].drafts
      BY <1>1, <2>4, <3>2 DEF Call, Persist
    <3>4. QED
      BY <1>1, <3>3
  <2>5. CASE Submit(e)
    BY <1>3, <2>5 DEF Submit, Review
  <2>6. CASE Decide(e)
    <3>1. call'[e] = [call[e] EXCEPT !.pc = "decided"]
      BY <2>6 DEF Decide, Review
    <3>2. QED
      BY <1>1, <3>1 DEF Call
  <2>7. QED
    BY <1>4, <1>5, <2>1, <2>2, <2>3, <2>4, <2>5, <2>6
      DEF CallStep, StopCall, Archive, Abandon, LookForDuplicate,
        CreateFromRecommendation, LookForDecisionNote, NotifyDecision,
        RecordDecision
<1>6. CASE Begins(e)
  <2>1. ASSUME NEW kind, Generate(e, kind) PROVE Good(e)'
    BY <2>1, GeneratedFields
  <2>2. ASSUME FindRecommendation(e) PROVE Good(e)'
    BY <1>1, <2>2 DEF FindRecommendation, SetCall, IdleCall
  <2>3. ASSUME NEW kind, NEW p, NEW d, BeginReview(e, kind, p, d)
        PROVE  Good(e)'
    BY <1>1, <2>3 DEF BeginReview, SetCall, IdleCall
  <2>4. QED
    BY <1>6, <2>1, <2>2, <2>3 DEF Begins
<1>7. QED
  BY <1>2, <1>5, <1>6, OneMoves

\* The requests that will make a proposal of a type.
Creators(x) ==
  {c \in Calls : /\ call[c].pc = "persisting"
                 /\ \E d \in call[c].drafts : d.condition = x
                 /\ \A p \in call[c].existing : proposals[p].condition # x}

\* The engine sees all it has generated.
AllSeen == Cardinality(From("engine")) <= EngineWindow

\* There is room for all that will be made.
Fits ==
  \A x \in Conditions :
    Cardinality(Active(x)) + Cardinality(Creators(x)) <= allowed

\* A request knows of the active proposals, has come by one of a type at most,
\* and has no more drafts of the types it has come by.
Sees(c) ==
  /\ \A x \in Conditions :
       Active(x) \subseteq call[c].existing \cup call[c].used
  /\ \A p, q \in call[c].used :
       proposals[p].condition = proposals[q].condition => p = q
  /\ \A d \in call[c].drafts, p \in call[c].used :
       proposals[p].condition # d.condition

DistinctInv ==
  /\ Sides /\ DraftsDiffer
  /\ AllSeen => /\ Fits
                /\ \A c \in Calls :
                     call[c].alone /\ call[c].pc = "persisting" => Sees(c)

\* The proposals of each source are finitely many, ...
FinitelyMade == \A source : /\ IsFiniteSet(From(source))
                            /\ Cardinality(From(source)) \in Nat

\* ... and so they are after a step.
LEMMA FinitelyManyThen ==
  TypeOK' => \A source : /\ IsFiniteSet(From(source)')
                         /\ Cardinality(From(source)') \in Nat
<1>1. TypeOK => FinitelyMade
  BY FinitelyManyProposals DEF FinitelyMade
<1>2. TypeOK' => FinitelyMade'
  BY <1>1, PTL
<1>3. QED
  BY <1>2 DEF FinitelyMade

\* Both are finitely many.
LEMMA FinitelyManyActive ==
  ASSUME TypeOK, NEW x
  PROVE  /\ IsFiniteSet(Active(x)) /\ Cardinality(Active(x)) \in Nat
         /\ IsFiniteSet(Creators(x)) /\ Cardinality(Creators(x)) \in Nat
<1>1. IsFiniteSet(From("engine")) /\ IsFiniteSet(Calls)
  BY FinitelyManyProposals, ReviewAssumption
<1>2. Active(x) \subseteq From("engine") /\ Creators(x) \subseteq Calls
  BY DEF Active, Creators
<1>3. QED
  BY <1>1, <1>2, FS_Subset, FS_CardinalityType

\* What has been generated only grows.
LEMMA SeenBefore ==
  ASSUME ReviewOK, Next, AllSeen'
  PROVE  AllSeen
<1>1. TypeOK /\ TypeOK' /\ From("engine") \subseteq From("engine")'
  BY ReviewStepTypes, SourcesGrow DEF ReviewOK
<1>2. /\ IsFiniteSet(From("engine")') /\ Cardinality(From("engine")) \in Nat
      /\ Cardinality(From("engine")') \in Nat
  <2>1. IsFiniteSet(From("engine"))
    BY <1>1, FinitelyManyProposals
  <2>2. Cardinality(From("engine")) \in Nat
    BY <2>1, FS_CardinalityType
  <2>3. IsFiniteSet(From("engine")') /\ Cardinality(From("engine")') \in Nat
    <3>1. \A source : /\ IsFiniteSet(From(source)')
                      /\ Cardinality(From(source)') \in Nat
      BY <1>1, FinitelyManyThen
    <3>2. QED
      BY <3>1
  <2>4. QED
    BY <2>2, <2>3
<1>3. Cardinality(From("engine")) <= Cardinality(From("engine")')
  BY <1>1, <1>2, FS_Subset
<1>4. EngineWindow \in Nat
  BY ReviewAssumption
<1>5. QED
  BY <1>2, <1>3, <1>4 DEF AllSeen

\* There are never more requests that will make a proposal of a type than there
\* may be proposals.
LEMMA CreatorsFit ==
  ASSUME ReviewOK, WithinWidth, Sides, NEW x
  PROVE  Cardinality(Creators(x)) <= allowed
<1>1. /\ Creators(x) \subseteq Handled(Generates)
      /\ Handled(Generates) \subseteq Handled(RequestKinds)
  BY DEF Creators, Handled, InFlight, ReviewOK, CallShape, Shape, RequestKinds
<1>2. /\ IsFiniteSet(Handled(RequestKinds)) /\ setting.width \in Nat
      /\ Cardinality(Handled(RequestKinds)) \in Nat
      /\ allowed \in Nat /\ Cardinality(Creators(x)) \in Nat
  BY FinitelyHandled, Bounds, FinitelyManyActive DEF ReviewOK, TypeOK
<1>3. CASE allowed >= setting.width
  <2>1. Cardinality(Creators(x)) <= Cardinality(Handled(RequestKinds))
    BY <1>1, <1>2, FS_Subset
  <2>2. QED
    BY <1>2, <1>3, <2>1 DEF WithinWidth
<1>4. CASE ~(allowed >= setting.width)
  <2>1. \A c, e \in Creators(x) : c = e
    BY <1>1, <1>4 DEF Sides
  <2>2. Cardinality(Creators(x)) <= 1
    BY <2>1, OneAtMost
  <2>3. QED
    BY <1>2, <2>2 DEF Sides
<1>5. QED
  BY <1>3, <1>4

\* Only a look-up makes a request one that will make a proposal.
LEMMA CreatorsShrink ==
  ASSUME ReviewOK, Next, NEW x, NEW e \in Creators(x)', ~LoadExisting(e)
  PROVE  e \in Creators(x)
<1>1. e \in Calls /\ call'[e].pc = "persisting"
      /\ \A p \in call'[e].existing : proposals'[p].condition # x
  BY DEF Creators
<1>2. /\ call[e].pc = "persisting" /\ call'[e].drafts \subseteq call[e].drafts
      /\ call'[e].existing = call[e].existing
  <2>1. CASE Rests(e)
    BY <1>1, <2>1 DEF Rests
  <2>2. CASE Persist(e)
    BY <1>1, <2>2, PersistedFields
  <2>3. QED
    BY <1>1, <2>1, <2>2, WhoPersists
<1>3. call[e].existing \subseteq Ids
  BY <1>1 DEF ReviewOK, CallShape, Shape, From
<1>4. \A p \in call[e].existing :
        proposals'[p].condition = proposals[p].condition
  BY <1>3, ProposalsStay
<1>5. QED
  BY <1>1, <1>2, <1>4 DEF Creators

\* A proposal becomes active when a draft is written as a new one, and when a
\* review brings it back.
LEMMA ActiveGrows ==
  ASSUME ReviewOK, Next, NEW x, NEW p \in Active(x)', p \notin Active(x)
  PROVE  \E c \in Calls :
           \/ Persist(c) /\ p \notin Ids
           \/ /\ Submit(c) \/ Decide(c)
              /\ p = call[c].id /\ p \in Ids /\ allowed' = allowed + 1
              /\ \A e \in Calls :
                   ~(call'[e].alone /\ call'[e].pc = "persisting")
<1>1. /\ p \in Ids' /\ proposals'[p].source = "engine"
      /\ proposals'[p].condition = x /\ proposals'[p].status \in ActiveGenerated
  BY DEF Active, From
<1>2. ASSUME p \in Ids, proposals'[p].status = proposals[p].status PROVE FALSE
  <2>1. p \in Active(x)
    BY <1>1, <1>2, ProposalsStay DEF Active, From
  <2>2. QED
    BY <2>1
<1>3. CASE Kept(p)
  BY <1>2, <1>3 DEF Kept
<1>4. ASSUME Made(p), NEW c \in Calls, CreateFromRecommendation(c)
      PROVE  FALSE
  <2>1. PICK row \in Proposal : /\ row.source = "recommendation"
                                /\ proposals' = Append(proposals, row)
    BY <1>4, CreateCases
  <2>2. proposals'[Len(proposals) + 1] = row
    BY <1>4, <2>1, CreateCases, AppendTypes DEF ReviewOK
  <2>3. QED
    BY <1>1, <1>4, <2>1, <2>2 DEF Made
<1>5. ASSUME NEW c \in Calls, Archived(c, p) PROVE FALSE
  BY <1>1, <1>5 DEF Archived, ActiveGenerated
<1>6. ASSUME NEW c \in Calls, NEW status, NEW reviews, NEW next, p = call[c].id,
             p \in Ids, Review(c, status, reviews, next),
             ~next.alone \/ next.pc # "persisting"
      PROVE  /\ allowed' = allowed + 1
             /\ \A e \in Calls :
                  ~(call'[e].alone /\ call'[e].pc = "persisting")
  <2>1. proposals[p].status \notin ActiveGenerated
    BY <1>1, <1>2, <1>6, ProposalsStay DEF Active, From
  <2>2. proposals'[p].status = status
    <3>1. proposals' = [proposals EXCEPT ![p] =
                          [proposals[p] EXCEPT !.status = status,
                                               !.reviews = reviews]]
      BY <1>6 DEF Review, SetProposal
    <3>2. proposals'[p] = [proposals[p] EXCEPT !.status = status,
                                               !.reviews = reviews]
      BY <1>6, <3>1 DEF Ids
    <3>3. proposals[p] \in Proposal
      BY <1>6, IdsAreNumbers DEF ReviewOK
    <3>4. QED
      BY <3>2, <3>3 DEF Proposal
  <2>3. Reopens(p, status)
    BY <1>1, <2>1, <2>2 DEF Reopens
  <2>4. allowed' = allowed + 1
    BY <1>6, <2>3 DEF Review
  <2>5. ASSUME NEW e \in Calls
        PROVE  ~(call'[e].alone /\ call'[e].pc = "persisting")
    <3>1. CASE e = c
      <4>1. call'[e] = next
        BY <1>6, <3>1 DEF Review
      <4>2. QED
        BY <1>6, <4>1
    <3>2. CASE e # c
      <4>1. call'[e] = [call[e] EXCEPT !.alone = @ /\ ~Reopens(p, status)]
        BY <1>6, <3>2 DEF Review
      <4>2. call'[e] = [call[e] EXCEPT !.alone = FALSE] /\ call[e] \in Call
        BY <2>3, <4>1 DEF ReviewOK, TypeOK
      <4>3. QED
        BY <4>2 DEF Call
    <3>3. QED
      BY <3>1, <3>2
  <2>6. QED
    BY <2>4, <2>5
<1>7. ASSUME NEW c \in Calls, Submitted(c, p) \/ Decided(c, p)
      PROVE  /\ Submit(c) \/ Decide(c)
             /\ p = call[c].id /\ p \in Ids /\ allowed' = allowed + 1
             /\ \A e \in Calls :
                  ~(call'[e].alone /\ call'[e].pc = "persisting")
  <2>1. /\ Submit(c) \/ Decide(c)
        /\ p = call[c].id /\ p \in Ids /\ call[c] \in Call
    BY <1>7 DEF Submitted, Decided, ReviewOK, TypeOK
  <2>2. IdleCall.pc = "idle" /\ [call[c] EXCEPT !.pc = "decided"].pc = "decided"
    BY <2>1 DEF IdleCall, Call
  <2>3. PICK status, reviews, next :
          /\ Review(c, status, reviews, next)
          /\ next = IdleCall \/ next = [call[c] EXCEPT !.pc = "decided"]
    BY <2>1 DEF Submit, Decide
  <2>4. next.pc # "persisting"
    BY <2>2, <2>3
  <2>5. QED
    BY <1>6, <2>1, <2>3, <2>4
<1>8. \/ Kept(p)
      \/ Made(p) /\ \E c \in Calls : Persist(c) \/ CreateFromRecommendation(c)
      \/ \E c \in Calls : Archived(c, p) \/ Submitted(c, p) \/ Decided(c, p)
  BY <1>1, RowsChange
<1>9. CASE Made(p) /\ \E c \in Calls : Persist(c) \/ CreateFromRecommendation(c)
  BY <1>4, <1>9 DEF Made
<1>10. QED
  BY <1>3, <1>5, <1>7, <1>8, <1>9

\* The active proposals of a type and those who will make one are finitely many,
\* and the latter no more than there is room for, ...
ActiveFinite ==
  \A x : /\ IsFiniteSet(Active(x)) /\ Cardinality(Active(x)) \in Nat
         /\ IsFiniteSet(Creators(x)) /\ Cardinality(Creators(x)) \in Nat
Roomy == \A x : Cardinality(Creators(x)) <= allowed

\* ... and so they are after a step.
LEMMA ActiveThen ==
  /\ TypeOK' => ActiveFinite'
  /\ ReviewOK' /\ WithinWidth' /\ Sides' => Roomy'
<1>1. TypeOK => ActiveFinite
  BY FinitelyManyActive DEF ActiveFinite
<1>2. ReviewOK /\ WithinWidth /\ Sides => Roomy
  BY CreatorsFit DEF Roomy
<1>3. TypeOK' => ActiveFinite'
  BY <1>1, PTL
<1>4. ReviewOK' /\ WithinWidth' /\ Sides' => Roomy'
  BY <1>2, PTL
<1>5. QED
  BY <1>3, <1>4

\* While all is seen, a look-up finds all active proposals.
LEMMA AllLookedUp ==
  ASSUME ReviewOK, AllSeen, NEW c \in Calls, LoadExisting(c), NEW x
  PROVE  Active(x) = {p \in call'[c].existing : proposals[p].condition = x}
<1>1. /\ From("engine") \in SUBSET Nat /\ IsFiniteSet(From("engine"))
      /\ EngineWindow \in Nat
  BY FinitelyManyProposals, IdsAreNumbers, ReviewAssumption DEF ReviewOK
<1>2. Newest(From("engine"), EngineWindow) = From("engine")
  BY <1>1, NewestOfFew DEF AllSeen
<1>3. call'[c].existing = {p \in From("engine") :
                             proposals[p].status \in ActiveGenerated}
  BY <1>2, LoadedFields
<1>4. QED
  BY <1>3 DEF Active

\* A request that generates alone is the only one to.
LEMMA NoOther ==
  ASSUME ReviewOK, Sides, NEW c \in Calls, call[c].alone, NEW e \in Calls,
         call[e].pc \in {"building", "built", "persisting"}
  PROVE  c = e
<1>1. c \in Handled(Generates)
  BY DEF Handled, ReviewOK, CallShape, Shape
<1>2. e \in Handled(Generates)
  BY DEF Handled, ReviewOK, CallShape, Shape, InFlight
<1>3. QED
  BY <1>1, <1>2 DEF Sides

\* Every step leaves room for all that will be made.
LEMMA StepFits ==
  ASSUME ReviewOK, Next, WithinWidth, DistinctInv, AllSeen'
  PROVE  Fits'
<1>1. /\ AllSeen /\ Fits /\ Sides /\ DraftsDiffer
      /\ \A c \in Calls : call[c].alone /\ call[c].pc = "persisting" => Sees(c)
  BY SeenBefore DEF DistinctInv
<1>2. /\ ReviewOK' /\ TypeOK' /\ TypeOK /\ WithinWidth' /\ Sides'
      /\ allowed \in Nat /\ allowed' \in Nat
  BY <1>1, ReviewStepTypes, StepWithinWidth, StepSides, AllowedChanges
    DEF ReviewOK
<1> SUFFICES ASSUME NEW x \in Conditions
             PROVE  Cardinality(Active(x)') + Cardinality(Creators(x)')
                      <= allowed'
  BY DEF Fits
<1>3. PICK A, A1, C, C1 : /\ A = Active(x) /\ A1 = Active(x)'
                          /\ C = Creators(x) /\ C1 = Creators(x)'
  OBVIOUS
<1> SUFFICES Cardinality(A1) + Cardinality(C1) <= allowed'
  BY <1>3
<1>4. /\ IsFiniteSet(A) /\ Cardinality(A) \in Nat
      /\ IsFiniteSet(C) /\ Cardinality(C) \in Nat
      /\ IsFiniteSet(A1) /\ Cardinality(A1) \in Nat
      /\ IsFiniteSet(C1) /\ Cardinality(C1) \in Nat
  BY <1>2, <1>3, ActiveThen, FinitelyManyActive DEF ActiveFinite
<1>5. Cardinality(A) + Cardinality(C) <= allowed
  BY <1>1, <1>3 DEF Fits
<1>6. ASSUME A1 \subseteq A, C1 \subseteq C, allowed' >= allowed
      PROVE  Cardinality(A1) + Cardinality(C1) <= allowed'
  <2>1. Cardinality(A1) <= Cardinality(A) /\ Cardinality(C1) <= Cardinality(C)
    BY <1>4, <1>6, FS_Subset
  <2>2. QED
    BY <1>2, <1>4, <1>5, <1>6, <2>1
<1>7. CASE \E c \in Calls : LoadExisting(c)
  <2>1. PICK c \in Calls : LoadExisting(c)
    BY <1>7
  <2>2. proposals' = proposals /\ allowed' = allowed /\ A1 = A
    BY <1>3, <2>1, LoadedFields DEF Active, From, Ids
  <2>3. CASE c \in C1
    <3>1. \A p \in call'[c].existing : proposals[p].condition # x
      BY <1>3, <2>2, <2>3 DEF Creators
    <3>2. A = {}
      BY <1>1, <1>3, <2>1, <3>1, AllLookedUp
    <3>3. Cardinality(A1) = 0
      BY <2>2, <3>2, FS_EmptySet
    <3>4. Cardinality(C1) <= allowed'
      BY <1>2, <1>3, ActiveThen DEF Roomy
    <3>5. QED
      BY <1>2, <1>4, <3>3, <3>4
  <2>4. CASE c \notin C1
    <3>1. ASSUME NEW e \in C1 PROVE e \in C
      <4>1. e \in Calls /\ e # c
        BY <1>3, <2>4, <3>1 DEF Creators
      <4>2. call'[c].pc = "persisting" /\ call[c].pc = "built"
        BY <2>1, LoadedFields DEF LoadExisting
      <4>3. Rests(e)
        BY <4>1, <4>2, TheOneThatMoves
      <4>4. call'[e].pc = "persisting"
        BY <1>3, <3>1 DEF Creators
      <4>5. ~LoadExisting(e)
        BY <4>3, <4>4 DEF Rests, LoadExisting
      <4>6. QED
        BY <1>3, <3>1, <4>5, CreatorsShrink
    <3>2. QED
      BY <1>2, <1>6, <2>2, <3>1
  <2>5. QED
    BY <2>3, <2>4
<1>8. CASE \A c \in Calls : ~LoadExisting(c)
  <2>1. C1 \subseteq C
    <3>1. C1 \subseteq Calls
      BY <1>3 DEF Creators
    <3>2. QED
      BY <1>3, <1>8, <3>1, CreatorsShrink
  <2>2. CASE A1 \subseteq A /\ allowed' >= allowed
    BY <1>6, <2>1, <2>2
  <2>3. ASSUME A1 \subseteq A, ~(allowed' >= allowed)
        PROVE  Cardinality(A1) + Cardinality(C1) <= allowed'
    <3>1. PICK c \in Calls : Archive(c) /\ call[c].alone /\ allowed' = 1
      BY <2>3, AllowedChanges
    <3>2. call[c].pc = "persisting"
      BY <3>1 DEF Archive
    <3>3. C1 = {}
      <4>1. ASSUME NEW e \in C1 PROVE FALSE
        <5>1. e \in Calls /\ call[e].pc = "persisting"
          BY <1>3, <2>1, <4>1 DEF Creators
        <5>2. e = c
          BY <1>1, <3>1, <5>1, NoOther
        <5>3. call'[c] = IdleCall
          BY <3>1 DEF Archive, Finish, SetCall, ReviewOK, TypeOK
        <5>4. QED
          BY <1>3, <4>1, <5>2, <5>3 DEF Creators, IdleCall
      <4>2. QED
        BY <4>1
    <3>4. call[c].kind = "refresh"
      BY <2>3, <3>1, <1>2 DEF Archive
    <3>5. A1 \subseteq call[c].used
      <4>1. ASSUME NEW p \in A1, p \notin call[c].used PROVE FALSE
        <5>1. p \in call[c].existing
          BY <1>1, <1>3, <2>3, <3>1, <3>2, <4>1 DEF Sees
        <5>2. p \in Ids
          BY <1>3, <2>3, <4>1 DEF Active, From
        <5>3. proposals'[p] = [proposals[p] EXCEPT !.status = "ARCHIVED"]
              /\ proposals[p] \in Proposal
          BY <3>1, <3>4, <4>1, <5>1, <5>2, ArchiveTypes, IdsAreNumbers
            DEF ReviewOK
        <5>4. proposals'[p].status = "ARCHIVED"
          BY <5>3 DEF Proposal
        <5>5. QED
          BY <1>3, <4>1, <5>4 DEF Active, ActiveGenerated
      <4>2. QED
        BY <4>1
    <3>6. \A p, q \in A1 : p = q
      <4>1. \A p \in A1 : proposals[p].condition = x
        BY <1>3, <2>3 DEF Active
      <4>2. \A p, q \in call[c].used :
              proposals[p].condition = proposals[q].condition => p = q
        BY <1>1, <3>1, <3>2 DEF Sees
      <4>3. QED
        BY <3>5, <4>1, <4>2
    <3>7. Cardinality(A1) <= 1 /\ Cardinality(C1) = 0
      BY <3>3, <3>6, OneAtMost, FS_EmptySet
    <3>8. QED
      BY <1>4, <3>1, <3>7
  <2>4. ASSUME NEW p \in A1, p \notin A
        PROVE  Cardinality(A1) + Cardinality(C1) <= allowed'
    <3>1. PICK c \in Calls :
            \/ Persist(c) /\ p \notin Ids
            \/ /\ Submit(c) \/ Decide(c)
               /\ p = call[c].id /\ p \in Ids /\ allowed' = allowed + 1
      BY <1>3, <2>4, ActiveGrows
    <3>2. CASE Persist(c) /\ p \notin Ids
      <4>1. PICK draft \in call[c].drafts, n \in From("engine")' :
              /\ call'[c].drafts = call[c].drafts \ {draft}
              /\ proposals'[n].condition = draft.condition
              /\ \/ n \in call[c].existing /\ Ids' = Ids
                 \/ /\ n = Len(proposals) + 1 /\ Ids' = Ids \cup {n}
                    /\ n \notin Ids
                    /\ \A q \in call[c].existing :
                         proposals[q].condition # draft.condition
        BY <3>2, PersistedFields
      <4>2. p \in Ids' /\ proposals'[p].condition = x
        BY <1>3, <2>4 DEF Active, From
      <4>3. /\ n = p /\ Ids' = Ids \cup {p} /\ draft.condition = x
            /\ \A q \in call[c].existing : proposals[q].condition # x
        BY <3>2, <4>1, <4>2
      <4>4. allowed' = allowed /\ call[c].pc = "persisting"
        BY <3>2, PersistedFields
      <4>5. c \in C /\ c \notin C1
        <5>1. c \in C
          BY <1>3, <4>1, <4>3, <4>4 DEF Creators
        <5>2. ASSUME NEW d \in call'[c].drafts, d.condition = x PROVE FALSE
          <6>1. d \in call[c].drafts /\ d # draft
            BY <4>1, <5>2
          <6>2. QED
            BY <1>1, <4>3, <5>2, <6>1 DEF DraftsDiffer
        <5>3. c \notin C1
          BY <1>3, <5>2 DEF Creators
        <5>4. QED
          BY <5>1, <5>3
      <4>6. A1 \subseteq A \cup {p}
        <5>1. ASSUME NEW q \in A1, q \notin A PROVE q = p
          <6>1. q \in Ids'
            BY <1>3, <5>1 DEF Active, From
          <6>2. PICK e \in Calls :
                  \/ Persist(e) /\ q \notin Ids
                  \/ allowed' = allowed + 1
            BY <1>3, <5>1, ActiveGrows
          <6>3. q \notin Ids
            BY <1>2, <4>4, <6>2
          <6>4. QED
            BY <4>3, <6>1, <6>3
        <5>2. QED
          BY <5>1
      <4>7. Cardinality(A1) <= Cardinality(A) + 1
        BY <1>4, <4>6, OneJoins
      <4>8. C1 \subseteq C \ {c}
        BY <2>1, <4>5
      <4>9. /\ Cardinality(C \ {c}) = Cardinality(C) - 1
            /\ IsFiniteSet(C \ {c})
        BY <1>4, <4>5, FS_RemoveElement
      <4>10. Cardinality(C1) <= Cardinality(C) - 1
        <5>1. Cardinality(C1) <= Cardinality(C \ {c})
          BY <4>8, <4>9, FS_Subset
        <5>2. QED
          BY <4>9, <5>1
      <4>11. QED
        BY <1>2, <1>4, <1>5, <4>4, <4>7, <4>10
    <3>3. CASE /\ Submit(c) \/ Decide(c)
               /\ p = call[c].id /\ p \in Ids /\ allowed' = allowed + 1
      <4>1. A1 \subseteq A \cup {p}
        <5>1. ASSUME NEW q \in A1, q \notin A, q # p PROVE FALSE
          <6>1. PICK st, r : proposals' = [proposals EXCEPT ![p] =
                               [proposals[p] EXCEPT !.status = st,
                                                    !.reviews = r]]
            BY <3>3 DEF Submit, Decide, Review, SetProposal
          <6>2. Ids' = Ids /\ \A o \in Ids \ {p} : proposals'[o] = proposals[o]
            BY <6>1 DEF Ids
          <6>3. q \in Ids
            BY <1>3, <5>1, <6>2 DEF Active, From
          <6>4. q \in A
            BY <1>3, <5>1, <6>2, <6>3 DEF Active, From
          <6>5. QED
            BY <5>1, <6>4
        <5>2. QED
          BY <5>1
      <4>2. Cardinality(A1) <= Cardinality(A) + 1
        BY <1>4, <4>1, OneJoins
      <4>3. Cardinality(C1) <= Cardinality(C)
        BY <1>4, <2>1, FS_Subset
      <4>4. QED
        BY <1>2, <1>4, <1>5, <3>3, <4>2, <4>3
    <3>4. QED
      BY <3>1, <3>2, <3>3
  <2>5. QED
    BY <2>2, <2>3, <2>4
<1>9. QED
  BY <1>3, <1>7, <1>8

\* Every step leaves a request that generates alone knowing what it has to know.
LEMMA StepSees ==
  ASSUME ReviewOK, Next, DistinctInv, AllSeen', NEW e \in Calls,
         call'[e].alone, call'[e].pc = "persisting"
  PROVE  Sees(e)'
<1>1. /\ AllSeen /\ Sides /\ DraftsDiffer
      /\ \A c \in Calls : call[c].alone /\ call[c].pc = "persisting" => Sees(c)
  BY SeenBefore DEF DistinctInv
<1>2. /\ call[e].alone
      /\ Rests(e) \/ LoadExisting(e) \/ Persist(e)
      /\ call[e].existing \subseteq Ids /\ call[e].used \subseteq Ids
      /\ \A p \in Ids : proposals'[p].condition = proposals[p].condition
  BY WhoPersists, ProposalsStay DEF ReviewOK, CallShape, Shape, From
<1>3. PICK E, U, D : /\ E = call'[e].existing /\ U = call'[e].used
                     /\ D = call'[e].drafts
  OBVIOUS
<1> SUFFICES /\ \A x \in Conditions : Active(x)' \subseteq E \cup U
             /\ \A p, q \in U :
                  proposals'[p].condition = proposals'[q].condition => p = q
             /\ \A d \in D, p \in U : proposals'[p].condition # d.condition
  BY <1>3 DEF Sees
<1>4. CASE LoadExisting(e)
  <2>1. proposals' = proposals /\ U = call[e].used
    BY <1>3, <1>4, LoadedFields
  <2>2. call[e].pc = "built"
    BY <1>4 DEF LoadExisting
  <2>3. U = {}
    BY <1>1, <2>1, <2>2 DEF DraftsDiffer
  <2>4. ASSUME NEW x \in Conditions PROVE Active(x)' \subseteq E
    <3>1. Active(x)' = Active(x)
      BY <2>1 DEF Active, From, Ids
    <3>2. Active(x) \subseteq E
      BY <1>1, <1>3, <1>4, AllLookedUp
    <3>3. QED
      BY <3>1, <3>2
  <2>5. QED
    BY <2>3, <2>4
<1>5. CASE Rests(e)
  <2>1. /\ E = call[e].existing /\ U = call[e].used /\ D = call[e].drafts
        /\ call[e].pc = "persisting" /\ Sees(e)
    BY <1>1, <1>2, <1>3, <1>5 DEF Rests
  <2>2. ASSUME NEW x \in Conditions, NEW p \in Active(x)', p \notin Active(x)
        PROVE  p \in E \cup U
    <3>1. PICK c \in Calls : Persist(c)
      BY <2>2, ActiveGrows
    <3>2. call[c].pc = "persisting"
      BY <3>1 DEF Persist
    <3>3. c = e
      BY <1>1, <1>2, <3>2, NoOther
    <3>4. PICK draft \in call[e].drafts :
            call'[e].drafts = call[e].drafts \ {draft}
      BY <3>1, <3>3, PersistedFields
    <3>5. D = call[e].drafts \ {draft}
      BY <1>3, <3>4
    <3>6. QED
      BY <2>1, <3>4, <3>5
  <2>3. \A x \in Conditions : Active(x)' \subseteq E \cup U
    BY <2>1, <2>2 DEF Sees
  <2>4. /\ \A p, q \in U :
             proposals'[p].condition = proposals'[q].condition => p = q
        /\ \A d \in D, p \in U : proposals'[p].condition # d.condition
    BY <1>2, <2>1 DEF Sees
  <2>5. QED
    BY <2>3, <2>4
<1>6. CASE Persist(e)
  <2>1. /\ call[e].pc = "persisting" /\ allowed' = allowed
        /\ allowed \in Nat /\ Sees(e)
    BY <1>1, <1>2, <1>6, PersistedFields, AllowedChanges
  <2>2. PICK draft \in call[e].drafts, n \in From("engine")' :
          /\ D = call[e].drafts \ {draft} /\ U = call[e].used \cup {n}
          /\ E = call[e].existing /\ proposals'[n].condition = draft.condition
          /\ \/ n \in call[e].existing /\ Ids' = Ids
             \/ Ids' = Ids \cup {n} /\ n \notin Ids
    <3>1. PICK draft \in call[e].drafts, n \in From("engine")' :
            /\ call'[e].drafts = call[e].drafts \ {draft}
            /\ call'[e].used = call[e].used \cup {n}
            /\ call'[e].existing = call[e].existing
            /\ proposals'[n].condition = draft.condition
            /\ \/ n \in call[e].existing /\ Ids' = Ids
               \/ /\ n = Len(proposals) + 1 /\ Ids' = Ids \cup {n}
                  /\ n \notin Ids
                  /\ \A p \in call[e].existing :
                       proposals[p].condition # draft.condition
      BY <1>6, PersistedFields
    <3>2. QED
      BY <1>3, <3>1
  <2>3. ASSUME NEW x \in Conditions, NEW p \in Active(x)', p \notin Active(x)
        PROVE  p \in E \cup U
    <3>1. p \notin Ids
      <4>1. ~(allowed' = allowed + 1)
        BY <2>1
      <4>2. QED
        BY <2>3, <4>1, ActiveGrows
    <3>2. p \in Ids'
      BY <2>3 DEF Active, From
    <3>3. QED
      BY <2>2, <3>1, <3>2
  <2>4. ASSUME NEW x \in Conditions PROVE Active(x)' \subseteq E \cup U
    <3>1. Active(x) \subseteq call[e].existing \cup call[e].used
      BY <2>1 DEF Sees
    <3>2. QED
      BY <2>2, <2>3, <3>1
  <2>5. \A p \in call[e].used :
          /\ proposals'[p].condition = proposals[p].condition
          /\ proposals[p].condition # draft.condition
    BY <1>2, <2>1, <2>2 DEF Sees
  <2>6. ASSUME NEW p \in U, NEW q \in U,
               proposals'[p].condition = proposals'[q].condition
        PROVE  p = q
    BY <2>1, <2>2, <2>5, <2>6 DEF Sees
  <2>7. ASSUME NEW d \in D, NEW p \in U
        PROVE  proposals'[p].condition # d.condition
    <3>1. CASE p \in call[e].used
      BY <2>1, <2>2, <2>5, <2>7, <3>1 DEF Sees
    <3>2. CASE p = n
      BY <1>1, <2>2, <2>7, <3>2 DEF DraftsDiffer
    <3>3. QED
      BY <2>2, <2>7, <3>1, <3>2
  <2>8. QED
    BY <2>4, <2>6, <2>7
<1>7. QED
  BY <1>2, <1>4, <1>5, <1>6

\* Every step keeps the proposals distinct.
LEMMA StepDistinctInv ==
  ASSUME ReviewOK, Next, WithinWidth, DistinctInv
  PROVE  DistinctInv'
<1>1. Sides' /\ DraftsDiffer'
  BY StepSides, StepDraftsDiffer DEF DistinctInv
<1>2. ASSUME AllSeen' PROVE Fits'
  BY <1>2, StepFits
<1>3. ASSUME AllSeen', NEW c \in Calls,
             call'[c].alone, call'[c].pc = "persisting"
      PROVE  Sees(c)'
  BY <1>3, StepSees
<1>4. QED
  BY <1>1, <1>2, <1>3 DEF DistinctInv

(***************************************************************************)
(* Active proposals of a recommendation                                    *)
(***************************************************************************)

\* The active proposals made of recommendations.
Mine == {p \in From("recommendation") : proposals[p].status \in ActiveProposal}

\* What is read for a review stays open, ...
ReadIsPending ==
  \A c \in Calls :
    call[c].pc = "read" => proposals[call[c].id].status \in PendingStatuses

\* ... the active proposals are of different recommendations, and none is of the
\* one that a request has found no proposal of, as long as all can be looked at.
MineDiffer ==
  Cardinality(From("recommendation")) <= RecommendationWindow =>
    /\ \A p, q \in Mine :
         proposals[p].recommendation = proposals[q].recommendation => p = q
    /\ \A c \in Calls, p \in Mine :
         call[c].pc = "clear" =>
           \A row \in call[c].source : proposals[p].recommendation # row.id

\* Requests are served one at a time.
RecommendationInv == setting.width <= 1 => ReadIsPending /\ MineDiffer

\* At most one request is handled.
LEMMA OneRequest ==
  ASSUME ReviewOK, WithinWidth, setting.width <= 1, NEW c \in Calls,
         NEW e \in Calls, InFlight(c), InFlight(e)
  PROVE  c = e
<1>1. c \in Handled(RequestKinds) /\ e \in Handled(RequestKinds)
  BY DEF Handled, ReviewOK, TypeOK, Call
<1>2. /\ IsFiniteSet(Handled(RequestKinds))
      /\ Cardinality(Handled(RequestKinds)) \in Nat
  BY FinitelyHandled
<1>3. Cardinality(Handled(RequestKinds)) <= 1
  BY <1>2, Bounds DEF WithinWidth
<1>4. QED
  BY <1>1, <1>2, <1>3, AtMostOne

\* What is read stays open.
LEMMA StepReadIsPending ==
  ASSUME ReviewOK, Next, WithinWidth, WithinWidth', setting.width <= 1,
         ReadIsPending
  PROVE  ReadIsPending'
<1> SUFFICES ASSUME NEW e \in Calls, call'[e].pc = "read"
             PROVE  proposals'[call'[e].id].status \in PendingStatuses
  BY DEF ReadIsPending
<1>1. CASE /\ ~InFlight(e) /\ call'[e].pc = "read" /\ proposals' = proposals
           /\ call'[e].id \in Ids
           /\ proposals[call'[e].id].status \in PendingStatuses
  BY <1>1
<1>2. CASE call[e].pc = "read" /\ call'[e].id = call[e].id
  <2>1. PICK p \in Ids : p = call[e].id
    BY <1>2 DEF ReviewOK, CallShape, Shape
  <2>2. p \in Ids' /\ proposals[p].status \in PendingStatuses /\ InFlight(e)
    BY <1>2, <2>1, ProposalsStay DEF ReadIsPending, InFlight
  <2>3. ASSUME NEW c \in Calls, Archive(c) \/ Submit(c) \/ Decide(c) PROVE FALSE
    <3>1. InFlight(c)
      BY <2>3 DEF Archive, Submit, Decide, InFlight
    <3>2. c = e
      BY <2>2, <3>1, OneRequest
    <3>3. ~Archive(c)
      BY <1>2, <3>2 DEF Archive
    <3>4. call'[e] = IdleCall \/ call'[e] = [call[e] EXCEPT !.pc = "decided"]
      BY <2>3, <3>2, <3>3 DEF Submit, Decide, Review
    <3>5. QED
      BY <3>4 DEF IdleCall, ReviewOK, TypeOK, Call
  <2>4. Kept(p)
    BY <2>1, <2>2, <2>3, RowsChange DEF Archived, Submitted, Decided, Made
  <2>5. QED
    BY <1>2, <2>1, <2>2, <2>4 DEF Kept
<1>3. QED
  BY <1>1, <1>2, WhoReviews DEF ReviewPcs

\* An active proposal was active before, or is new and of a recommendation
\* that a request found no proposal of.
LEMMA WhoIsMine ==
  ASSUME ReviewOK, Next, ReadIsPending, NEW p \in Mine'
  PROVE  \/ /\ p \in Mine
            /\ proposals'[p].recommendation = proposals[p].recommendation
         \/ /\ p = Len(proposals) + 1 /\ p \notin Ids
            /\ \E c \in Calls :
                 /\ CreateFromRecommendation(c)
                 /\ call[c].pc = "clear" /\ call'[c] = IdleCall
                 /\ \E row \in call[c].source :
                      proposals'[p].recommendation = row.id
<1>1. /\ p \in Ids' /\ proposals'[p].source = "recommendation"
      /\ proposals'[p].status \in ActiveProposal
  BY DEF Mine, From
<1>2. ASSUME p \in Ids, proposals[p].status \in ActiveProposal
      PROVE  /\ p \in Mine
             /\ proposals'[p].recommendation = proposals[p].recommendation
  BY <1>1, <1>2, ProposalsStay DEF Mine, From
<1>3. CASE Kept(p)
  BY <1>1, <1>2, <1>3 DEF Kept
<1>4. ASSUME NEW c \in Calls, Archived(c, p) PROVE FALSE
  BY <1>1, <1>4 DEF Archived, ActiveProposal, ActiveGenerated
<1>5. ASSUME NEW c \in Calls, Submitted(c, p) \/ Decided(c, p)
      PROVE  p \in Ids /\ proposals[p].status \in ActiveProposal
  <2>1. call[c].pc = "read" /\ p = call[c].id /\ p \in Ids
    BY <1>5 DEF Submitted, Decided, Submit, Decide
  <2>2. QED
    BY <2>1 DEF ReadIsPending, PendingStatuses, ActiveProposal, ActiveGenerated
<1>6. ASSUME Made(p), NEW c \in Calls, Persist(c) PROVE FALSE
  <2>1. PICK draft, n \in From("engine")' :
          \/ n \in call[c].existing /\ Ids' = Ids
          \/ n = Len(proposals) + 1
    BY <1>6, PersistedFields
  <2>2. n = p
    BY <1>1, <1>6, <2>1 DEF Made
  <2>3. QED
    BY <1>1, <2>1, <2>2 DEF From
<1>7. ASSUME Made(p), NEW c \in Calls, CreateFromRecommendation(c)
      PROVE  /\ p = Len(proposals) + 1 /\ p \notin Ids
             /\ call[c].pc = "clear" /\ call'[c] = IdleCall
             /\ \E row \in call[c].source :
                  proposals'[p].recommendation = row.id
  <2>1. PICK row \in call[c].source : \E new \in Proposal :
               /\ new.recommendation = row.id
               /\ proposals' = Append(proposals, new)
    BY <1>7, CreateCases
  <2>2. PICK new \in Proposal : /\ new.recommendation = row.id
                                /\ proposals' = Append(proposals, new)
    BY <2>1
  <2>3. proposals'[Len(proposals) + 1] = new
    BY <1>7, <2>2, CreateCases, AppendTypes DEF ReviewOK
  <2>4. call'[c] = IdleCall
    BY <1>7 DEF CreateFromRecommendation, Finish, SetCall, ReviewOK, TypeOK
  <2>5. QED
    BY <1>7, <2>2, <2>3, <2>4 DEF Made, CreateFromRecommendation
<1>8. \/ Kept(p)
      \/ Made(p) /\ \E c \in Calls : Persist(c) \/ CreateFromRecommendation(c)
      \/ \E c \in Calls : Archived(c, p) \/ Submitted(c, p) \/ Decided(c, p)
  BY <1>1, RowsChange
<1>9. QED
  BY <1>2, <1>3, <1>4, <1>5, <1>6, <1>7, <1>8

\* Who may create was so before, or has looked.
LEMMA WhoIsClear ==
  ASSUME ReviewOK, Next, NEW e \in Calls, call'[e].pc = "clear"
  PROVE  /\ InFlight(e)
         /\ \/ Rests(e) /\ call[e].pc = "clear"
            \/ LookForDuplicate(e) /\ call'[e].source = call[e].source
<1>1. call \in [Calls -> Call] /\ call[e] \in Call
  BY DEF ReviewOK, TypeOK
<1>2. CASE Rests(e) \/ \A f \in Calls : call'[f] = call[f]
  BY <1>2 DEF Rests, InFlight
<1>3. CASE Begins(e)
  <2>1. ASSUME NEW kind \in Generates, Generate(e, kind) PROVE FALSE
    BY <2>1, GeneratedFields
  <2>2. ASSUME FindRecommendation(e) PROVE FALSE
    BY <1>1, <2>2 DEF FindRecommendation, SetCall, IdleCall
  <2>3. ASSUME NEW kind, NEW p, NEW d, BeginReview(e, kind, p, d) PROVE FALSE
    BY <1>1, <2>3 DEF BeginReview, SetCall, IdleCall
  <2>4. QED
    BY <1>3, <2>1, <2>2, <2>3 DEF Begins
<1>4. CASE CallStep(e) \/ StopCall(e)
  <2>1. call'[e] # IdleCall
    BY DEF IdleCall
  <2>2. ~Finish(e)
    BY <1>1, <2>1 DEF Finish, SetCall
  <2>3. ~StopCall(e) /\ ~Archive(e) /\ ~Abandon(e)
        /\ ~CreateFromRecommendation(e) /\ ~RecordDecision(e)
    BY <2>2 DEF StopCall, Archive, Abandon, CreateFromRecommendation,
         RecordDecision
  <2>4. ~Submit(e)
    BY <2>1 DEF Submit, Review
  <2>5. ~Decide(e)
    <3> SUFFICES ASSUME Decide(e) PROVE FALSE
      OBVIOUS
    <3>1. call'[e] = [call[e] EXCEPT !.pc = "decided"]
      BY DEF Decide, Review
    <3>2. QED
      BY <1>1, <3>1 DEF Call
  <2>6. ~BuildDrafts(e)
    BY <1>1 DEF BuildDrafts, SetCall, Call
  <2>7. ~LookForDecisionNote(e) /\ ~NotifyDecision(e)
    BY <1>1 DEF LookForDecisionNote, NotifyDecision, CallGoto, SetCall, Call
  <2>8. ~LoadExisting(e)
    BY LoadedFields
  <2>9. ~Persist(e)
    <3> SUFFICES ASSUME Persist(e) PROVE FALSE
      OBVIOUS
    <3>1. PICK draft, n : SetCall(e, [call[e] EXCEPT !.drafts = @ \ {draft},
                                                     !.used = @ \cup {n}])
      BY PersistCases DEF ReviewOK
    <3>2. call'[e].pc = call[e].pc /\ call[e].pc = "persisting"
      BY <1>1, <3>1 DEF SetCall, Call, Persist
    <3>3. QED
      BY <3>2
  <2>10. LookForDuplicate(e)
    BY <1>4, <2>3, <2>4, <2>5, <2>6, <2>7, <2>8, <2>9 DEF CallStep
  <2>11. call'[e].source = call[e].source /\ InFlight(e)
    BY <1>1, <2>2, <2>10
      DEF LookForDuplicate, CallGoto, SetCall, Call, InFlight
  <2>12. QED
    BY <2>10, <2>11
<1>5. QED
  BY <1>2, <1>3, <1>4, OneMoves

\* Every step keeps them of different recommendations.
LEMMA StepMineDiffer ==
  ASSUME ReviewOK, Next, WithinWidth, setting.width <= 1, ReadIsPending,
         MineDiffer
  PROVE  MineDiffer'
<1> SUFFICES ASSUME Cardinality(From("recommendation")') <= RecommendationWindow
             PROVE  /\ \A p, q \in Mine' :
                         proposals'[p].recommendation
                           = proposals'[q].recommendation => p = q
                    /\ \A e \in Calls, p \in Mine' :
                         call'[e].pc = "clear" =>
                           \A row \in call'[e].source :
                             proposals'[p].recommendation # row.id
  BY DEF MineDiffer
<1>1. PICK R : R = From("recommendation")
  OBVIOUS
<1>2. /\ R \in SUBSET Nat /\ IsFiniteSet(R) /\ RecommendationWindow \in Nat
      /\ Cardinality(R) \in Nat /\ Cardinality(R) <= RecommendationWindow
  <2>1. TypeOK /\ TypeOK' /\ R \subseteq From("recommendation")'
    BY <1>1, ReviewStepTypes, SourcesGrow DEF ReviewOK
  <2>2. IsFiniteSet(R) /\ R \in SUBSET Nat /\ Cardinality(R) \in Nat
    BY <1>1, <2>1, FinitelyManyProposals DEF From
  <2>3. /\ IsFiniteSet(From("recommendation")')
        /\ Cardinality(From("recommendation")') \in Nat
    <3>1. \A source : /\ IsFiniteSet(From(source)')
                      /\ Cardinality(From(source)') \in Nat
      BY <2>1, FinitelyManyThen
    <3>2. QED
      BY <3>1
  <2>4. Cardinality(R) <= Cardinality(From("recommendation")')
    BY <2>1, <2>3, FS_Subset
  <2>5. QED
    BY <2>2, <2>3, <2>4, ReviewAssumption
<1>3. /\ \A p, q \in Mine :
           proposals[p].recommendation = proposals[q].recommendation => p = q
      /\ \A c \in Calls, p \in Mine :
           call[c].pc = "clear" =>
             \A row \in call[c].source : proposals[p].recommendation # row.id
  BY <1>1, <1>2 DEF MineDiffer
<1>4. Mine \subseteq Ids
  BY DEF Mine, From
<1>5. ASSUME NEW p \in Mine', NEW q \in Mine',
             proposals'[p].recommendation = proposals'[q].recommendation
      PROVE  p = q
  <2>1. ASSUME NEW a \in Mine', NEW b \in Mine',
               a \in Mine,
               proposals'[a].recommendation = proposals[a].recommendation,
               b \notin Mine,
               proposals'[a].recommendation = proposals'[b].recommendation
        PROVE  FALSE
    <3>1. PICK c \in Calls : /\ call[c].pc = "clear"
                             /\ \E row \in call[c].source :
                                  proposals'[b].recommendation = row.id
      BY <2>1, WhoIsMine
    <3>2. QED
      BY <1>3, <2>1, <3>1
  <2>2. CASE /\ p \in Mine
             /\ proposals'[p].recommendation = proposals[p].recommendation
             /\ q \in Mine
             /\ proposals'[q].recommendation = proposals[q].recommendation
    BY <1>3, <1>5, <2>2
  <2>3. CASE p \notin Mine /\ q \notin Mine
    BY <2>3, WhoIsMine
  <2>4. CASE p \in Mine /\ q \notin Mine
    BY <1>4, <1>5, <2>1, <2>4, WhoIsMine
  <2>5. CASE p \notin Mine /\ q \in Mine
    BY <1>4, <1>5, <2>1, <2>5, WhoIsMine
  <2>6. QED
    BY <1>4, <2>2, <2>3, <2>4, <2>5, WhoIsMine
<1>6. ASSUME NEW e \in Calls, NEW p \in Mine', call'[e].pc = "clear",
             NEW row \in call'[e].source
      PROVE  proposals'[p].recommendation # row.id
  <2>1. InFlight(e)
    BY <1>6, WhoIsClear
  <2>2. /\ p \in Mine
        /\ proposals'[p].recommendation = proposals[p].recommendation
    <3>1. ASSUME NEW c \in Calls, call[c].pc = "clear", call'[c] = IdleCall
          PROVE  FALSE
      <4>1. InFlight(c)
        BY <3>1 DEF InFlight
      <4>2. c = e
        BY <2>1, <4>1, OneRequest
      <4>3. QED
        BY <1>6, <3>1, <4>2 DEF IdleCall
    <3>2. QED
      BY <3>1, WhoIsMine
  <2>3. CASE Rests(e) /\ call[e].pc = "clear"
    BY <1>3, <1>6, <2>2, <2>3 DEF Rests
  <2>4. CASE LookForDuplicate(e) /\ call'[e].source = call[e].source
    <3>1. /\ IsFiniteSet(Mine) /\ Mine \in SUBSET Nat
          /\ Cardinality(Mine) <= RecommendationWindow
      <4>1. Mine \subseteq R
        BY <1>1 DEF Mine
      <4>2. IsFiniteSet(Mine) /\ Cardinality(Mine) <= Cardinality(R)
        BY <1>2, <4>1, FS_Subset
      <4>3. Cardinality(Mine) \in Nat
        BY <4>2, FS_CardinalityType
      <4>4. QED
        BY <1>2, <4>1, <4>2, <4>3
    <3>2. Newest(Mine, RecommendationWindow) = Mine
      BY <1>2, <3>1, NewestOfFew
    <3>3. call'[e] # IdleCall /\ call \in [Calls -> Call]
      BY <1>6 DEF IdleCall, ReviewOK, TypeOK
    <3>4. ~Finish(e)
      BY <3>3 DEF Finish, SetCall
    <3>5. ~\E r \in Newest(Mine, RecommendationWindow) :
             \E source \in call[e].source :
               proposals[r].recommendation = source.id
      BY <2>4, <3>4 DEF LookForDuplicate, Mine
    <3>6. QED
      BY <1>6, <2>2, <2>4, <3>2, <3>5
  <2>5. QED
    BY <1>6, <2>3, <2>4, WhoIsClear
<1>7. QED
  BY <1>5, <1>6

\* The proposals' invariant: types, how many requests there are at a time, and
\* how the active proposals differ.
ProposalsInv == ReviewOK /\ WithinWidth /\ DistinctInv /\ RecommendationInv

\* It holds of the first state, ...
LEMMA ProposalsInvInit == Init => ProposalsInv
<1> SUFFICES ASSUME Init PROVE ProposalsInv
  OBVIOUS
<1>1. ReviewOK /\ WithinWidth
  BY ReviewsInvInit DEF ReviewsInv
<1>2. /\ call = [c \in Calls |-> IdleCall] /\ proposals = <<>> /\ Ids = {}
      /\ allowed = 1
  BY EmptySeq DEF Init, Ids
<1>3. Sides /\ DraftsDiffer
  BY <1>2 DEF Sides, DraftsDiffer, Handled, InFlight, IdleCall
<1>4. \A x : Active(x) = {} /\ Creators(x) = {}
  BY <1>2 DEF Active, From, Creators, IdleCall
<1>5. Fits
  <2>1. Cardinality({}) = 0
    BY FS_EmptySet
  <2>2. \A x : Cardinality(Active(x)) = 0 /\ Cardinality(Creators(x)) = 0
    BY <1>4, <2>1
  <2>3. QED
    BY <1>2, <2>2 DEF Fits
<1>6. \A c \in Calls : call[c].pc = "idle"
  BY <1>2 DEF IdleCall
<1>7. Mine = {}
  BY <1>2 DEF Mine, From
<1>8. QED
  BY <1>1, <1>3, <1>5, <1>6, <1>7
    DEF ProposalsInv, DistinctInv, RecommendationInv, ReadIsPending, MineDiffer

\* ... and every step keeps it.
LEMMA ProposalsInvStep == ProposalsInv /\ [Next]_vars => ProposalsInv'
<1> SUFFICES ASSUME ProposalsInv, [Next]_vars PROVE ProposalsInv'
  OBVIOUS
<1>1. ReviewOK'
  BY ReviewStepTypes DEF ProposalsInv
<1>2. CASE Next
  <2>1. WithinWidth' /\ DistinctInv'
    BY <1>2, StepWithinWidth, StepDistinctInv DEF ProposalsInv
  <2>2. ASSUME setting'.width <= 1 PROVE ReadIsPending' /\ MineDiffer'
    <3>1. setting.width <= 1
      BY <1>2, <2>2, ProposalsStay DEF ProposalsInv
    <3>2. QED
      BY <1>2, <2>1, <3>1, StepReadIsPending, StepMineDiffer
        DEF ProposalsInv, RecommendationInv
  <2>3. QED
    BY <1>1, <2>1, <2>2 DEF ProposalsInv, RecommendationInv
<1>3. CASE UNCHANGED vars
  <2>1. call' = call /\ proposals' = proposals /\ setting' = setting
        /\ allowed' = allowed
    BY <1>3 DEF vars, reviewVars, insightVars
  <2>2. WithinWidth'
    BY <2>1 DEF ProposalsInv, WithinWidth, Handled, InFlight
  <2>3. /\ Sides' = Sides /\ DraftsDiffer' = DraftsDiffer
        /\ AllSeen' = AllSeen /\ Fits' = Fits
        /\ \A c : Sees(c)' = Sees(c)
    BY <2>1 DEF Sides, Handled, InFlight, DraftsDiffer, AllSeen, From, Ids,
      Fits, Active, Creators, Sees
  <2>4. DistinctInv'
    BY <2>1, <2>3 DEF ProposalsInv, DistinctInv
  <2>5. RecommendationInv'
    BY <2>1 DEF ProposalsInv, RecommendationInv, ReadIsPending, MineDiffer,
      Mine, From, Ids
  <2>6. QED
    BY <1>1, <2>2, <2>4, <2>5 DEF ProposalsInv
<1>4. QED
  BY <1>2, <1>3

\* While the engine sees all it has generated there are never more active
\* proposals of a type than requests that generated side by side and reviews
\* that brought one back; and requests served one at a time make one active
\* proposal of a recommendation, as long as all made of them can be looked at.
THEOREM ProposalsDistinct == Spec => []ProposalsAreDistinct
<1>1. Spec => []ProposalsInv
  BY ProposalsInvInit, ProposalsInvStep, PTL DEF Spec
<1>2. ProposalsInv => ProposalsAreDistinct
  <2> SUFFICES ASSUME ProposalsInv PROVE ProposalsAreDistinct
    OBVIOUS
  <2>1. OneActivePerType
    <3> SUFFICES ASSUME AllSeen, NEW x \in Conditions
                 PROVE  Cardinality(Active(x)) <= allowed
      BY DEF OneActivePerType, AllSeen
    <3>1. /\ Cardinality(Active(x)) \in Nat /\ Cardinality(Creators(x)) \in Nat
          /\ allowed \in Nat
      BY FinitelyManyActive DEF ProposalsInv, ReviewOK, TypeOK
    <3>2. Cardinality(Active(x)) + Cardinality(Creators(x)) <= allowed
      BY DEF ProposalsInv, DistinctInv, Fits
    <3>3. QED
      BY <3>1, <3>2
  <2>2. OneActivePerRecommendation
    BY DEF OneActivePerRecommendation, ProposalsInv, RecommendationInv,
      MineDiffer, Mine
  <2>3. QED
    BY <2>1, <2>2 DEF ProposalsAreDistinct
<1>3. QED
  BY <1>1, <1>2, PTL

(***************************************************************************)
(* What a statement of a reading does                                      *)
(***************************************************************************)

\* What a reading keeps until it has read all rows of a kind.
KeepsTurn(t) ==
  /\ task'[t].kind = task[t].kind /\ task'[t].last = task[t].last
  /\ task'[t].force = task[t].force /\ task'[t].alone = task[t].alone

TaskBuilt(t) ==
  /\ task[t].pc = "building" /\ task'[t].pc = "drafted" /\ KeepsTurn(t)
  /\ task'[t].drafts = SignalsOf(world)
  /\ active' = active /\ notes' = notes /\ calm' = calm
TaskJudged(t) ==
  /\ task[t].pc = "drafted" /\ task'[t].pc = "judged" /\ KeepsTurn(t)
  /\ ~Settled(t, active[task[t].kind])
  /\ task'[t].drafts = task[t].drafts
  /\ active' = active /\ notes' = notes /\ calm' = calm
TaskAimed(t) ==
  /\ task[t].pc = "judged" /\ task'[t].pc = "aimed" /\ KeepsTurn(t)
  /\ task'[t].drafts = task[t].drafts
  /\ task'[t].seen = active[task[t].kind]
  /\ active' = active /\ notes' = notes /\ calm' = calm
TaskReplaced(t) ==
  /\ task[t].pc = "aimed" /\ task'[t].pc = "replaced" /\ KeepsTurn(t)
  /\ task'[t].drafts = task[t].drafts
  /\ task'[t].untold = ToNotify(task[t].kind, task[t].drafts)
  /\ active' = [active EXCEPT ![task[t].kind] =
                  (active[task[t].kind] \ task[t].seen)
                    \cup Rows(task[t].drafts, made[task[t].kind])]
  /\ notes' = notes /\ calm' = calm
TaskPassed(t) ==
  /\ task[t].pc = "replaced" /\ task'[t].pc = "replaced" /\ KeepsTurn(t)
  /\ task'[t].drafts = task[t].drafts
  /\ task[t].untold # <<>> /\ notes[Head(task[t].untold)] > 0
  /\ task'[t].untold = Tail(task[t].untold)
  /\ active' = active /\ notes' = notes /\ calm' = calm
TaskFinds(t) ==
  /\ task[t].pc = "replaced" /\ task'[t].pc = "telling" /\ KeepsTurn(t)
  /\ task'[t].drafts = task[t].drafts
  /\ task[t].untold # <<>> /\ ~(notes[Head(task[t].untold)] > 0)
  /\ task'[t].untold = task[t].untold
  /\ active' = active /\ notes' = notes /\ calm' = calm
TaskTold(t) ==
  /\ task[t].pc = "telling" /\ task'[t].pc = "replaced" /\ KeepsTurn(t)
  /\ task'[t].drafts = task[t].drafts
  /\ task'[t].untold = Tail(task[t].untold)
  /\ notes' = [notes EXCEPT ![Head(task[t].untold)] = @ + 1]
  /\ active' = active /\ calm' = calm
\* All rows of the kind have been read.
TurnEnds(t) ==
  /\ \/ task[t].pc = "drafted" /\ Settled(t, active[task[t].kind])
     \/ task[t].pc = "replaced" /\ task[t].untold = <<>>
  /\ active' = active /\ notes' = notes
TaskGoesOn(t) ==
  /\ TurnEnds(t) /\ task[t].kind # task[t].last
  /\ task'[t].pc = "drafted" /\ task'[t].kind = "recommendations"
  /\ task'[t].last = task[t].last /\ task'[t].force = task[t].force
  /\ task'[t].alone = task[t].alone /\ calm' = calm
  /\ \E signals \in Picks(active[task[t].kind]), order \in Rankings :
       /\ signals = SignalsOf(world) => order = world.order
       /\ task'[t].drafts = Recommended(signals, order)
TaskEnds(t) ==
  /\ TurnEnds(t) /\ task[t].kind = task[t].last
  /\ task'[t] = [IdleTask EXCEPT !.pc = "done"]
  /\ calm' = (calm \/ (task[t].alone /\ task[t].last = "recommendations"))

\* The rows of the kind have been read.
LEMMA ContinueOutcomes ==
  ASSUME InsightsTypeOK, NEW t \in Tasks, TurnEnds(t),
         Continue(t, active[task[t].kind])
  PROVE  TaskGoesOn(t) \/ TaskEnds(t)
<1>1. task[t] \in Task /\ task \in [Tasks -> Task]
  BY DEF InsightsTypeOK
<1>2. CASE task[t].kind # task[t].last
  <2>1. PICK signals \in Picks(active[task[t].kind]),
             order \in setting.orders :
          /\ signals = SignalsOf(world) => order = world.order
          /\ Set(t, [task[t] EXCEPT !.pc = "drafted",
                                    !.kind = "recommendations",
                                    !.drafts = Recommended(signals, order),
                                    !.seen = {}])
          /\ UNCHANGED calm
    BY <1>2 DEF Continue
  <2>2. PICK D : D = Recommended(signals, order)
    OBVIOUS
  <2>3. task'[t] = [task[t] EXCEPT !.pc = "drafted", !.kind = "recommendations",
                                   !.drafts = D, !.seen = {}]
    BY <1>1, <2>1, <2>2 DEF Set
  <2>4. /\ task'[t].pc = "drafted" /\ task'[t].kind = "recommendations"
        /\ task'[t].drafts = D /\ task'[t].last = task[t].last
        /\ task'[t].force = task[t].force /\ task'[t].alone = task[t].alone
    BY <1>1, <2>3 DEF Task
  <2>5. order \in Rankings
    BY InsightsAssumption DEF InsightsTypeOK
  <2>6. QED
    BY <1>2, <2>1, <2>2, <2>4, <2>5 DEF TaskGoesOn
<1>3. CASE task[t].kind = task[t].last
  <2>1. Set(t, [IdleTask EXCEPT !.pc = "done"])
        /\ calm' = (calm \/ (task[t].alone /\ task[t].last = "recommendations"))
    BY <1>3 DEF Continue
  <2>2. task'[t] = [IdleTask EXCEPT !.pc = "done"]
    BY <1>1, <2>1 DEF Set
  <2>3. QED
    BY <1>3, <2>1, <2>2 DEF TaskEnds
<1>4. QED
  BY <1>2, <1>3

\* A statement of a reading does one of these.
LEMMA TaskOutcomes ==
  ASSUME InsightsTypeOK, NEW t \in Tasks, TaskStep(t)
  PROVE  /\ world' = world /\ bundle' = bundle /\ stops' = stops
         /\ \A u \in Tasks \ {t} : task'[u] = task[u]
         /\ \/ TaskBuilt(t) \/ TaskJudged(t) \/ TaskAimed(t) \/ TaskReplaced(t)
            \/ TaskPassed(t) \/ TaskFinds(t) \/ TaskTold(t)
            \/ TaskGoesOn(t) \/ TaskEnds(t)
<1>1. task[t] \in Task /\ task \in [Tasks -> Task]
  BY DEF InsightsTypeOK
<1>2. /\ world' = world /\ bundle' = bundle /\ stops' = stops
      /\ \A u \in Tasks \ {t} : task'[u] = task[u]
  BY TaskStepIsLocal DEF TaskStep, BuildSignals, Compare, Aim, Replace,
    LookForNote, Notify, ReadBack
<1>3. CASE BuildSignals(t)
  <2>1. PICK D : D = SignalsOf(world)
    OBVIOUS
  <2>2. task'[t] = [task[t] EXCEPT !.pc = "drafted", !.drafts = D]
    BY <1>1, <1>3, <2>1 DEF BuildSignals, Set
  <2>3. task'[t].pc = "drafted" /\ task'[t].drafts = D /\ KeepsTurn(t)
    BY <1>1, <2>2 DEF Task, KeepsTurn
  <2>4. QED
    BY <1>2, <1>3, <2>1, <2>3 DEF TaskBuilt, BuildSignals, tables
<1>4. CASE Compare(t)
  <2>1. CASE Settled(t, active[task[t].kind])
             /\ Continue(t, active[task[t].kind])
    <3>1. TurnEnds(t)
      BY <1>4, <2>1 DEF Compare, tables, TurnEnds
    <3>2. QED
      BY <1>2, <2>1, <3>1, ContinueOutcomes
  <2>2. CASE ~Settled(t, active[task[t].kind]) /\ Goto(t, "judged")
             /\ UNCHANGED calm
    <3>1. task'[t] = [task[t] EXCEPT !.pc = "judged"]
      BY <1>1, <2>2 DEF Goto, Set
    <3>2. /\ task'[t].pc = "judged" /\ task'[t].drafts = task[t].drafts
          /\ KeepsTurn(t)
      BY <1>1, <3>1 DEF Task, KeepsTurn
    <3>3. QED
      BY <1>2, <1>4, <2>2, <3>2 DEF TaskJudged, Compare, tables
  <2>3. QED
    BY <1>4, <2>1, <2>2 DEF Compare
<1>5. CASE Aim(t)
  <2>1. PICK R : R = active[task[t].kind]
    OBVIOUS
  <2>2. task'[t] = [task[t] EXCEPT !.pc = "aimed", !.seen = R]
    BY <1>1, <1>5, <2>1 DEF Aim, Set
  <2>3. /\ task'[t].pc = "aimed" /\ task'[t].seen = R
        /\ task'[t].drafts = task[t].drafts /\ KeepsTurn(t)
    BY <1>1, <2>2 DEF Task, KeepsTurn
  <2>4. QED
    BY <1>2, <1>5, <2>1, <2>3 DEF TaskAimed, Aim, tables
<1>6. CASE Replace(t)
  <2>1. PICK s : s = ToNotify(task[t].kind, task[t].drafts)
    OBVIOUS
  <2>2. Set(t, [task[t] EXCEPT !.pc = "replaced", !.seen = {}, !.untold = s])
    BY <1>6, <2>1 DEF Replace
  <2>3. task'[t] = [task[t] EXCEPT !.pc = "replaced", !.seen = {}, !.untold = s]
    BY <1>1, <2>2 DEF Set
  <2>4. /\ task'[t].pc = "replaced" /\ task'[t].untold = s
        /\ task'[t].drafts = task[t].drafts /\ KeepsTurn(t)
    BY <1>1, <2>3 DEF Task, KeepsTurn
  <2>5. QED
    BY <1>2, <1>6, <2>1, <2>4 DEF TaskReplaced, Replace
<1>7. CASE LookForNote(t)
  <2>1. task[t].pc = "replaced" /\ task[t].untold # <<>>
        /\ active' = active /\ notes' = notes /\ calm' = calm
    BY <1>7 DEF LookForNote, tables
  <2>2. CASE notes[Head(task[t].untold)] > 0
    <3>1. PICK s : s = Tail(task[t].untold)
      OBVIOUS
    <3>2. task'[t] = [task[t] EXCEPT !.untold = s]
      BY <1>1, <1>7, <2>2, <3>1 DEF LookForNote, Set
    <3>3. /\ task'[t].pc = task[t].pc /\ task'[t].untold = s
          /\ task'[t].drafts = task[t].drafts /\ KeepsTurn(t)
      BY <1>1, <3>2 DEF Task, KeepsTurn
    <3>4. QED
      BY <1>2, <2>1, <2>2, <3>1, <3>3 DEF TaskPassed
  <2>3. CASE ~(notes[Head(task[t].untold)] > 0)
    <3>1. task'[t] = [task[t] EXCEPT !.pc = "telling"]
      BY <1>1, <1>7, <2>3 DEF LookForNote, Goto, Set
    <3>2. /\ task'[t].pc = "telling" /\ task'[t].untold = task[t].untold
          /\ task'[t].drafts = task[t].drafts /\ KeepsTurn(t)
      BY <1>1, <3>1 DEF Task, KeepsTurn
    <3>3. QED
      BY <1>2, <2>1, <2>3, <3>2 DEF TaskFinds
  <2>4. QED
    BY <2>2, <2>3
<1>8. CASE Notify(t)
  <2>1. PICK s : s = Tail(task[t].untold)
    OBVIOUS
  <2>2. task'[t] = [task[t] EXCEPT !.pc = "replaced", !.untold = s]
    BY <1>1, <1>8, <2>1 DEF Notify, Set
  <2>3. /\ task'[t].pc = "replaced" /\ task'[t].untold = s
        /\ task'[t].drafts = task[t].drafts /\ KeepsTurn(t)
    BY <1>1, <2>2 DEF Task, KeepsTurn
  <2>4. QED
    BY <1>2, <1>8, <2>1, <2>3 DEF TaskTold, Notify
<1>9. CASE ReadBack(t)
  <2>1. TurnEnds(t)
    BY <1>9 DEF ReadBack, tables, TurnEnds
  <2>2. QED
    BY <1>2, <1>9, <2>1, ContinueOutcomes DEF ReadBack
<1>10. QED
  BY <1>3, <1>4, <1>5, <1>6, <1>7, <1>8, <1>9 DEF TaskStep

\* A reading that starts, ...
TaskStarts(t, insists, alone) ==
  /\ t \in Tasks /\ task[t].pc = "idle"
  /\ task'[t].pc = "building" /\ task'[t].kind = "signals"
  /\ task'[t].drafts = {} /\ task'[t].force = insists
  /\ task'[t].alone = alone
\* ... and one that nothing happens to but a disturbance.
TaskRests(t) ==
  /\ task'[t].pc = task[t].pc /\ task'[t].seen = task[t].seen
  /\ task'[t].drafts = task[t].drafts /\ task'[t].untold = task[t].untold
  /\ task'[t].kind = task[t].kind /\ task'[t].last = task[t].last
  /\ task'[t].force = task[t].force
  /\ task'[t].alone => task[t].alone

\* The readings that start, and those under way then.
LEMMA StartFields ==
  ASSUME InsightsTypeOK, NEW S, NEW last \in [S -> Kinds], NEW insist,
         Start(S, last, insist)
  PROVE  /\ \A t \in S :
              TaskStarts(t, t \in insist, Cardinality(Running \cup S) = 1)
         /\ \A t \in Tasks \ S : TaskRests(t) /\ (task'[t].alone => S = {})
         /\ calm' = (calm /\ insist = {})
         /\ bundle \in Nat /\ bundle' \in Nat /\ bundle' >= bundle
         /\ bundle' >= Cardinality(Running \cup S)
         /\ Running' = Running \cup S /\ IsFiniteSet(Running \cup S)
<1>1. /\ bundle \in Nat /\ bundle' \in Nat /\ bundle' >= bundle
      /\ bundle' >= Cardinality(Running \cup S)
      /\ IsFiniteSet(Running \cup S)
      /\ S \subseteq Tasks /\ S \subseteq Idle
      /\ calm' = (calm /\ insist = {})
  BY StartTypes DEF Start, InsightsTypeOK
<1>2. ASSUME NEW t \in S
      PROVE  TaskStarts(t, t \in insist, Cardinality(Running \cup S) = 1)
  <2>1. t \in Tasks /\ task[t].pc = "idle"
    BY <1>1, <1>2 DEF Idle
  <2>2. PICK l, f, a : /\ l = last[t] /\ f = (t \in insist)
                       /\ a = (Cardinality(Running \cup S) = 1)
    OBVIOUS
  <2>3. task'[t] = [IdleTask EXCEPT !.pc = "building", !.last = l, !.force = f,
                                    !.alone = a]
    BY <2>1, <2>2, <1>2 DEF Start
  <2>4. TaskStarts(t, f, a)
    BY <2>1, <2>3 DEF IdleTask, TaskStarts
  <2>5. QED
    BY <2>2, <2>4
<1>3. ASSUME NEW t \in Tasks \ S
      PROVE  TaskRests(t) /\ (task'[t].alone => S = {})
  <2>1. PICK a : a = (task[t].alone /\ S = {})
    OBVIOUS
  <2>2. task'[t] = [task[t] EXCEPT !.alone = a] /\ task[t] \in Task
    BY <2>1 DEF Start, InsightsTypeOK
  <2>3. QED
    BY <2>1, <2>2 DEF Task, TaskRests
<1>4. Running' = Running \cup S
  <2>1. \A t \in S : t \in Tasks /\ task'[t].pc = "building"
    BY <1>2 DEF TaskStarts
  <2>2. \A t \in Tasks \ S : task'[t].pc = task[t].pc
    BY <1>3 DEF TaskRests
  <2>3. QED
    BY <2>1, <2>2 DEF Running, Started
<1>5. QED
  BY <1>1, <1>2, <1>3, <1>4

\* How the readings, the rows and the notifications may change: some readings
\* start, ...
ReadingsStart ==
  /\ \E S : \E last \in [S -> Kinds] : \E insist : Start(S, last, insist)
  /\ world' = world /\ active' = active /\ notes' = notes /\ stops' = stops
\* ... a handler ends, or something else happens.
ReadingsRest ==
  /\ world' = world /\ active' = active /\ notes' = notes
  /\ task' = task /\ calm' = calm /\ bundle' = bundle
  /\ stops \in Nat /\ stops' \in {stops, stops + 1}

\* A step is one of a reading, or of one of these kinds.
LEMMA ReadingSteps ==
  ASSUME ReviewOK, [Next]_vars
  PROVE  \/ \E t \in Tasks : TaskStep(t) \/ StopTask(t)
         \/ ReadingsStart \/ ReadingsRest \/ WorldChanges
<1>1. stops \in Nat
  <2>1. setting.stops \in Nat /\ stops \in 0..setting.stops
    BY InsightsAssumption DEF ReviewOK, ReadingsOK, InsightsTypeOK
  <2>2. QED
    BY <2>1
<1>2. ASSUME UNCHANGED insightVars PROVE ReadingsRest
  BY <1>1, <1>2 DEF insightVars, ReadingsRest
<1>3. CASE UNCHANGED vars
  BY <1>2, <1>3 DEF vars
<1>4. ASSUME NEW t \in Tasks, Read(t) PROVE ReadingsStart
  <2>1. PICK kind \in Kinds :
          \E insist : Start({t}, [x \in {t} |-> kind], insist)
    BY <1>4 DEF Read
  <2>2. [x \in {t} |-> kind] \in [{t} -> Kinds]
    OBVIOUS
  <2>3. QED
    BY <1>4, <2>1, <2>2 DEF Read, ReadingsStart, tables
<1>5. ASSUME NEW c \in Calls, NEW kind, Generate(c, kind) PROVE ReadingsStart
  <2>1. \E S : \E last \in [S -> Kinds] : Start(S, last, {})
    BY <1>5 DEF Generate
  <2>2. QED
    BY <1>5, <2>1 DEF Generate, ReadingsStart, tables
<1>6. ASSUME NEW c \in Calls, StopCall(c) PROVE ReadingsRest
  BY <1>1, <1>6 DEF StopCall, ReadingsRest, tables
<1>7. ASSUME NEW c \in Calls, CallStep(c) PROVE UNCHANGED insightVars
  BY <1>7 DEF CallStep, BuildDrafts, LoadExisting, Persist, Archive,
    Abandon, LookForDuplicate, CreateFromRecommendation, Submit,
    Decide, Review, LookForDecisionNote, NotifyDecision, RecordDecision
<1>8. \/ InsightsNext \/ UNCHANGED insightVars
      \/ \E c \in Calls, kind \in Generates : Generate(c, kind)
      \/ \E c \in Calls : StopCall(c)
  BY <1>3, <1>7, WhichSteps DEF FindRecommendation, BeginReview, vars
<1>9. QED
  BY <1>2, <1>4, <1>5, <1>6, <1>8 DEF InsightsNext

\* What stops ends, and writes nothing.
LEMMA StopOutcome ==
  ASSUME InsightsTypeOK, NEW t \in Tasks, StopTask(t)
  PROVE  /\ task'[t] = [IdleTask EXCEPT !.pc = "stopped"]
         /\ \A u \in Tasks \ {t} : task'[u] = task[u]
         /\ world' = world /\ active' = active /\ notes' = notes
         /\ calm' = calm /\ bundle' = bundle /\ stops' # 0
<1>1. stops \in Nat
  <2>1. setting.stops \in Nat /\ stops \in 0..setting.stops
    BY InsightsAssumption DEF InsightsTypeOK
  <2>2. QED
    BY <2>1
<1>2. QED
  BY <1>1 DEF StopTask, Set, InsightsTypeOK, tables

\* A change of the store disturbs all.
LEMMA WorldOutcome ==
  ASSUME InsightsTypeOK, WorldChanges
  PROVE  /\ active' = active /\ notes' = notes /\ bundle' = bundle
         /\ calm' = FALSE /\ stops' = stops
         /\ \A t \in Tasks : TaskRests(t) /\ ~task'[t].alone
<1>1. ASSUME NEW t \in Tasks PROVE TaskRests(t) /\ ~task'[t].alone
  <2>1. task'[t] = [task[t] EXCEPT !.alone = FALSE] /\ task[t] \in Task
    BY DEF WorldChanges, InsightsTypeOK
  <2>2. QED
    BY <2>1 DEF Task, TaskRests
<1>2. QED
  BY <1>1 DEF WorldChanges, tables

(***************************************************************************)
(* The shape of a reading                                                  *)
(***************************************************************************)

\* Drafts or rows of a kind no two of which are copies.
KeysDiffer(kind, D) ==
  \A d, e \in D : Key(kind, d.condition) = Key(kind, e.condition) => d = e

\* A reading begins with signals and goes on to recommendations only if these
\* are to be read; only one that is under way is undisturbed; no two of its
\* drafts are copies.
TaskOK(t) ==
  /\ task[t].pc = "building" => task[t].kind = "signals"
  /\ task[t].kind = "recommendations" => task[t].last = "recommendations"
  /\ task[t].alone => Started(t)
  /\ KeysDiffer(task[t].kind, task[t].drafts)
TaskShape == \A t \in Tasks : TaskOK(t)

\* What the store shows has no copies, ...
LEMMA WorldKeysDiffer == KeysDiffer("signals", SignalsOf(world))
  BY WorldIsDistinct DEF KeysDiffer, Key, Distinct

\* ... and neither has what is recommended: of one type only the first signal
\* leads to a recommendation.
LEMMA RecommendedKeysDiffer ==
  ASSUME NEW signals \in SUBSET Draft, Distinct(signals),
         NEW order \in Rankings
  PROVE  KeysDiffer("recommendations", Recommended(signals, order))
<1> SUFFICES ASSUME signals # {}, NEW d \in Leading(signals, order),
                    NEW e \in Leading(signals, order),
                    Key("recommendations", d.condition)
                      = Key("recommendations", e.condition)
             PROVE  d = e
  BY DEF KeysDiffer, Recommended, Foremost
<1>1. /\ d \in signals /\ e \in signals
      /\ SameType(d, e) => ~Before(order, e, d) /\ ~Before(order, d, e)
  BY DEF Leading, SameType
<1>2. /\ d.condition \in Conditions \cup {Rhythm}
      /\ e.condition \in Conditions \cup {Rhythm}
      /\ Rhythm \notin Conditions
      /\ RecommendationType \in [Conditions -> Conditions]
  BY <1>1, InsightsAssumption DEF Draft
<1>3. CASE d.condition = Rhythm \/ e.condition = Rhythm
  <2>1. d.condition = e.condition
    BY <1>2, <1>3 DEF Key
  <2>2. QED
    BY <1>1, <2>1 DEF Distinct
<1>4. CASE d.condition \in Conditions /\ e.condition \in Conditions
  <2>1. SameType(d, e)
    BY <1>2, <1>4 DEF Key, SameType
  <2>2. order \in [Conditions -> Nat] /\ IsInjective(order)
    <3>1. Cardinality(Conditions) \in Nat
      BY InsightsAssumption, FS_CardinalityType
    <3>2. QED
      BY <3>1 DEF Rankings
  <2>3. order[d.condition] = order[e.condition]
    BY <1>1, <1>4, <2>1, <2>2 DEF Before
  <2>4. d.condition = e.condition
    BY <1>4, <2>2, <2>3 DEF IsInjective
  <2>5. QED
    BY <1>1, <2>4 DEF Distinct
<1>5. QED
  BY <1>2, <1>3, <1>4

\* Every step keeps the readings in shape.
LEMMA StepTaskShape ==
  ASSUME ReviewOK, [Next]_vars, TaskShape
  PROVE  TaskShape'
<1>1. /\ InsightsTypeOK /\ \A t \in Tasks : TaskOK(t)
      /\ \A t \in Tasks : task[t] \in Task
  BY DEF ReviewOK, ReadingsOK, TaskShape, InsightsTypeOK
<1>2. ASSUME NEW t \in Tasks, TaskStep(t) PROVE TaskShape'
  <2>1. /\ \A u \in Tasks \ {t} : task'[u] = task[u]
        /\ \/ TaskBuilt(t) \/ TaskJudged(t) \/ TaskAimed(t) \/ TaskReplaced(t)
           \/ TaskPassed(t) \/ TaskFinds(t) \/ TaskTold(t)
           \/ TaskGoesOn(t) \/ TaskEnds(t)
    BY <1>1, <1>2, TaskOutcomes
  <2>2. TaskOK(t) /\ task[t].kind \in Kinds /\ task[t].last \in Kinds
    BY <1>1 DEF Task
  <2>3. TaskOK(t)'
    <3>1. CASE TaskBuilt(t)
      <4>1. task'[t].kind = "signals" /\ task'[t].drafts = SignalsOf(world)
        BY <2>2, <3>1 DEF TaskBuilt, KeepsTurn, TaskOK
      <4>2. KeysDiffer(task'[t].kind, task'[t].drafts)
        BY <4>1, WorldKeysDiffer
      <4>3. QED
        BY <2>2, <3>1, <4>1, <4>2 DEF TaskBuilt, KeepsTurn, TaskOK, Started
    <3>2. CASE TaskJudged(t) \/ TaskAimed(t) \/ TaskReplaced(t)
               \/ TaskPassed(t) \/ TaskFinds(t) \/ TaskTold(t)
      <4>1. /\ task'[t].pc \in {"judged", "aimed", "replaced", "telling"}
            /\ task'[t].drafts = task[t].drafts /\ KeepsTurn(t)
        BY <3>2 DEF TaskJudged, TaskAimed, TaskReplaced, TaskPassed, TaskFinds,
          TaskTold
      <4>2. QED
        BY <2>2, <4>1 DEF KeepsTurn, TaskOK, Started
    <3>3. CASE TaskGoesOn(t)
      <4>1. active[task[t].kind] \in SUBSET Row
        BY <1>1, <2>2 DEF InsightsTypeOK
      <4>2. KeysDiffer(task'[t].kind, task'[t].drafts)
        <5>1. PICK signals \in Picks(active[task[t].kind]), order \in Rankings :
                task'[t].drafts = Recommended(signals, order)
          BY <3>3 DEF TaskGoesOn
        <5>2. signals \in SUBSET Draft /\ Distinct(signals)
          BY <4>1, PicksAreDistinct, RowContent
        <5>3. task'[t].kind = "recommendations"
          BY <3>3 DEF TaskGoesOn
        <5>4. QED
          BY <5>1, <5>2, <5>3, RecommendedKeysDiffer
      <4>3. task'[t].last = "recommendations"
        BY <2>2, <3>3 DEF TaskGoesOn, TaskOK, Kinds
      <4>4. QED
        BY <3>3, <4>2, <4>3 DEF TaskGoesOn, TaskOK, Started
    <3>4. CASE TaskEnds(t)
      BY <3>4 DEF TaskEnds, IdleTask, TaskOK, KeysDiffer
    <3>5. QED
      BY <2>1, <3>1, <3>2, <3>3, <3>4
  <2>4. ASSUME NEW u \in Tasks \ {t} PROVE TaskOK(u)'
    BY <1>1, <2>1, <2>4 DEF TaskOK, Started
  <2>5. QED
    BY <2>3, <2>4 DEF TaskShape
<1>3. ASSUME NEW t \in Tasks, StopTask(t) PROVE TaskShape'
  <2>1. /\ task'[t] = [IdleTask EXCEPT !.pc = "stopped"]
        /\ \A u \in Tasks \ {t} : task'[u] = task[u]
    BY <1>1, <1>3, StopOutcome
  <2>2. TaskOK(t)'
    BY <2>1 DEF IdleTask, TaskOK, KeysDiffer
  <2>3. ASSUME NEW u \in Tasks \ {t} PROVE TaskOK(u)'
    BY <1>1, <2>1, <2>3 DEF TaskOK, Started
  <2>4. QED
    BY <2>2, <2>3 DEF TaskShape
<1>4. CASE ReadingsStart
  <2>1. PICK S : \E last \in [S -> Kinds] : \E insist : Start(S, last, insist)
    BY <1>4 DEF ReadingsStart
  <2>2. PICK last \in [S -> Kinds] : \E insist : Start(S, last, insist)
    BY <2>1
  <2>3. PICK insist : Start(S, last, insist)
    BY <2>2
  <2>4. ASSUME NEW t \in S PROVE TaskOK(t)'
    <3>1. \E f, a : TaskStarts(t, f, a)
      BY <1>1, <2>3, <2>4, StartFields
    <3>2. QED
      BY <3>1 DEF TaskStarts, TaskOK, Started, KeysDiffer
  <2>5. ASSUME NEW t \in Tasks \ S PROVE TaskOK(t)'
    <3>1. TaskRests(t) /\ TaskOK(t)
      BY <1>1, <2>3, <2>5, StartFields
    <3>2. QED
      BY <3>1 DEF TaskRests, TaskOK, Started
  <2>6. QED
    BY <2>4, <2>5 DEF TaskShape
<1>5. CASE ReadingsRest
  BY <1>1, <1>5 DEF ReadingsRest, TaskShape, TaskOK, Started
<1>6. CASE WorldChanges
  BY <1>1, <1>6, WorldOutcome DEF TaskRests, TaskShape, TaskOK, Started
<1>7. QED
  BY <1>2, <1>3, <1>4, <1>5, <1>6, ReadingSteps

(***************************************************************************)
(* Copies and notifications                                                *)
(***************************************************************************)

\* The readings that are to replace the rows of a kind, ...
Aimers(k) == {t \in Tasks : task[t].pc = "aimed" /\ task[t].kind = k}
\* ... the copies of a row that none of some of them will take down, ...
Unseen(k, c, S) ==
  {row \in Copies(k, c) : \A t \in S : row \notin task[t].seen}
\* ... and the readings about to notify a condition.
Telling(c) ==
  {t \in Tasks : task[t].pc = "telling" /\ Head(task[t].untold) = c}

\* However many of the readings under way replace the rows they aim at, there
\* are no more copies then than there have been readings at a time; likewise of
\* notifications.
CopiesFit(k, c) ==
  \A S \in SUBSET Aimers(k) :
    Cardinality(Unseen(k, c, S)) + Cardinality(S) <= bundle
NotesFit(c) == notes[c] + Cardinality(Telling(c)) <= bundle
CopiesInv ==
  /\ Cardinality(Running) <= bundle
  /\ \A k \in Kinds : IsFiniteSet(active[k])
  /\ \A k \in Kinds, c \in Conditions \cup {Rhythm} : CopiesFit(k, c)
  /\ \A c \in Conditions : NotesFit(c)

\* Readings are finitely many.
LEMMA FewReadings ==
  ASSUME NEW A \in SUBSET Tasks, NEW B \in SUBSET A
  PROVE  /\ IsFiniteSet(A) /\ Cardinality(A) \in Nat /\ IsFiniteSet(B)
         /\ Cardinality(B) \in Nat /\ Cardinality(B) <= Cardinality(A)
<1>1. IsFiniteSet(A) /\ Cardinality(A) \in Nat
  BY InsightsAssumption, FS_Subset, FS_CardinalityType
<1>2. IsFiniteSet(B) /\ Cardinality(B) <= Cardinality(A)
  BY <1>1, FS_Subset
<1>3. QED
  BY <1>1, <1>2, FS_CardinalityType

\* There are as many rows as drafts, with their content.
LEMMA RowsCounted ==
  ASSUME NEW D \in SUBSET Draft, NEW used \in Nat
  PROVE  /\ IsFiniteSet(Rows(D, used))
         /\ Cardinality(Rows(D, used)) = Cardinality(D)
         /\ {Content(row) : row \in Rows(D, used)} = D
<1>1. PICK R : R = Rows(D, used)
  OBVIOUS
<1>2. /\ \A row \in R : Content(row) \in D
      /\ \A d \in D : \E row \in R : Content(row) = d
      /\ \A row, other \in R : Content(row) = Content(other) => row = other
  <2>1. \A row \in Rows(D, used) : Content(row) \in D
    BY RowsOfDrafts
  <2>2. \A d \in D : \E row \in Rows(D, used) : Content(row) = d
    BY RowsOfDrafts
  <2>3. \A row, other \in Rows(D, used) :
          Content(row) = Content(other) => row = other
    BY RowsOfDrafts
  <2>4. QED
    BY <1>1, <2>1, <2>2, <2>3
<1>3. PICK f : f = [row \in R |-> Content(row)]
  OBVIOUS
<1>4. f \in Injection(R, D) /\ f \in Surjection(R, D)
  BY <1>2, <1>3 DEF Injection, Surjection, IsInjective
<1>5. IsFiniteSet(D)
  BY DraftsAreFinite
<1>6. IsFiniteSet(R) /\ Cardinality(R) = Cardinality(D)
  BY <1>4, <1>5, FS_Injection
<1>7. {Content(row) : row \in R} = D
  BY <1>2
<1>8. QED
  BY <1>1, <1>6, <1>7

\* Rows of drafts that are no copies are none.
LEMMA RowsKeysDiffer ==
  ASSUME NEW D \in SUBSET Draft, NEW used \in Nat, NEW kind,
         KeysDiffer(kind, D)
  PROVE  KeysDiffer(kind, Rows(D, used))
<1> SUFFICES ASSUME NEW r \in Rows(D, used), NEW q \in Rows(D, used),
                    Key(kind, r.condition) = Key(kind, q.condition)
             PROVE  r = q
  BY DEF KeysDiffer
<1>1. Content(r) \in D /\ Content(q) \in D
  BY RowsOfDrafts
<1>2. Key(kind, Content(r).condition) = Key(kind, Content(q).condition)
  BY DEF Content
<1>3. Content(r) = Content(q)
  BY <1>1, <1>2 DEF KeysDiffer
<1>4. QED
  BY <1>3, RowsOfDrafts

\* As long as rows and readings stay, so do the copies that are not seen.
LEMMA UnseenStay ==
  ASSUME NEW k, NEW c, NEW S, active' = active,
         \A t \in S : task'[t].seen = task[t].seen
  PROVE  Unseen(k, c, S)' = Unseen(k, c, S)
  BY DEF Unseen, Copies

\* Every step keeps the copies within bounds, ...
LEMMA StepCopies ==
  ASSUME ReviewOK, [Next]_vars, TaskShape, CopiesInv,
         NEW k \in Kinds, NEW c \in Conditions \cup {Rhythm},
         Cardinality(Running') <= bundle'
  PROVE  IsFiniteSet(active'[k]) /\ CopiesFit(k, c)'
<1>1. /\ InsightsTypeOK /\ bundle \in Nat /\ IsFiniteSet(active[k])
      /\ active \in [Kinds -> SUBSET Row]
      /\ \A t \in Tasks : task[t] \in Task
  BY DEF ReviewOK, ReadingsOK, InsightsTypeOK, CopiesInv
<1>2. bundle' \in Nat
  BY ReviewStepTypes DEF ReviewOK, ReadingsOK, InsightsTypeOK
<1>3. ASSUME NEW S \in SUBSET Aimers(k), active' = active, bundle' >= bundle,
             \A t \in S : task'[t].seen = task[t].seen
      PROVE  Cardinality(Unseen(k, c, S)') + Cardinality(S) <= bundle'
  <2>1. Unseen(k, c, S)' = Unseen(k, c, S)
    BY <1>3, UnseenStay
  <2>2. Unseen(k, c, S) \subseteq active[k] /\ S \subseteq Tasks
    BY DEF Unseen, Copies, Aimers
  <2>3. Cardinality(Unseen(k, c, S)) \in Nat /\ Cardinality(S) \in Nat
    BY <1>1, <2>2, FewReadings, FS_Subset, FS_CardinalityType
  <2>4. Cardinality(Unseen(k, c, S)) + Cardinality(S) <= bundle
    BY DEF CopiesInv, CopiesFit
  <2>5. QED
    BY <1>1, <1>2, <1>3, <2>1, <2>3, <2>4
<1>4. ASSUME NEW t \in Tasks, TaskStep(t)
      PROVE  IsFiniteSet(active'[k]) /\ CopiesFit(k, c)'
  <2>1. /\ bundle' = bundle /\ \A u \in Tasks \ {t} : task'[u] = task[u]
        /\ \/ TaskBuilt(t) \/ TaskJudged(t) \/ TaskAimed(t) \/ TaskReplaced(t)
           \/ TaskPassed(t) \/ TaskFinds(t) \/ TaskTold(t)
           \/ TaskGoesOn(t) \/ TaskEnds(t)
    BY <1>1, <1>4, TaskOutcomes
  <2>2. CASE TaskReplaced(t)
    <3>1. PICK K \in Kinds, D \in SUBSET Draft, n \in Nat :
            /\ K = task[t].kind /\ D = task[t].drafts /\ n = made[K]
      <4>1. task[t].kind \in Kinds /\ task[t].drafts \in SUBSET Draft
        BY <1>1 DEF Task
      <4>2. made[task[t].kind] \in Nat
        BY <1>1, <4>1, InsightsAssumption DEF InsightsTypeOK
      <4>3. QED
        BY <4>1, <4>2
    <3>2. PICK N : N = Rows(D, n)
      OBVIOUS
    <3>3. active' = [active EXCEPT ![K] = (active[K] \ task[t].seen) \cup N]
      BY <2>2, <3>1, <3>2 DEF TaskReplaced
    <3>4. IsFiniteSet(N) /\ KeysDiffer(K, N)
      BY <3>1, <3>2, RowsCounted, RowsKeysDiffer DEF TaskShape, TaskOK
    <3>5. Aimers(k)' \subseteq Aimers(k) \ {t}
      BY <2>1, <2>2 DEF Aimers, TaskReplaced
    <3>6. CASE K # k
      <4>1. active'[k] = active[k]
        BY <1>1, <3>3, <3>6
      <4>2. ASSUME NEW S \in SUBSET Aimers(k)'
            PROVE  Cardinality(Unseen(k, c, S)') + Cardinality(S) <= bundle'
        <5>1. /\ S \in SUBSET Aimers(k)
              /\ \A u \in S : task'[u].seen = task[u].seen
          BY <2>1, <3>5, <4>2 DEF Aimers
        <5>2. Unseen(k, c, S)' = Unseen(k, c, S)
          BY <4>1, <5>1 DEF Unseen, Copies
        <5>3. QED
          BY <2>1, <5>1, <5>2 DEF CopiesInv, CopiesFit
      <4>3. QED
        BY <1>1, <4>1, <4>2 DEF CopiesFit
    <3>7. CASE K = k
      <4>1. active'[k] = (active[k] \ task[t].seen) \cup N
        BY <1>1, <3>3, <3>7
      <4>2. IsFiniteSet(active[k] \ task[t].seen)
        BY <1>1, FS_Subset
      <4>3. IsFiniteSet(active'[k])
        BY <3>4, <4>1, <4>2, FS_Union
      <4>4. ASSUME NEW S \in SUBSET Aimers(k)'
            PROVE  Cardinality(Unseen(k, c, S)') + Cardinality(S) <= bundle'
        <5>1. PICK T : T = S \cup {t}
          OBVIOUS
        <5>2. /\ t \notin S /\ S \subseteq Tasks /\ T \in SUBSET Aimers(k)
              /\ \A u \in S : task'[u] = task[u]
          BY <2>1, <2>2, <3>1, <3>5, <3>7, <4>4, <5>1
            DEF Aimers, TaskReplaced
        <5>3. /\ IsFiniteSet(S) /\ Cardinality(S) \in Nat
              /\ Cardinality(T) = Cardinality(S) + 1
          BY <5>1, <5>2, FewReadings, FS_AddElement
        <5>4. PICK x : \A row \in N : Key(k, row.condition) = c => row = x
          BY <3>4, <3>7 DEF KeysDiffer
        <5>5. Unseen(k, c, S)' \subseteq Unseen(k, c, T) \cup {x}
          <6>1. ASSUME NEW row \in Unseen(k, c, S)', row # x
                PROVE  row \in Unseen(k, c, T)
            <7>1. /\ row \in active'[k] /\ Key(k, row.condition) = c
                  /\ \A u \in S : row \notin task[u].seen
              BY <5>2, <6>1 DEF Unseen, Copies
            <7>2. row \in active[k] /\ row \notin task[t].seen
              BY <4>1, <5>4, <6>1, <7>1
            <7>3. QED
              BY <5>1, <7>1, <7>2 DEF Unseen, Copies
          <6>2. QED
            BY <6>1
        <5>6. IsFiniteSet(Unseen(k, c, T))
          <6>1. Unseen(k, c, T) \subseteq active[k]
            BY DEF Unseen, Copies
          <6>2. QED
            BY <1>1, <6>1, FS_Subset
        <5>7. /\ Cardinality(Unseen(k, c, S)') \in Nat
              /\ Cardinality(Unseen(k, c, T)) \in Nat
              /\ Cardinality(Unseen(k, c, S)')
                   <= Cardinality(Unseen(k, c, T)) + 1
          BY <5>5, <5>6, OneJoins
        <5>8. Cardinality(Unseen(k, c, T)) + Cardinality(T) <= bundle
          BY <5>2 DEF CopiesInv, CopiesFit
        <5>9. QED
          BY <1>1, <2>1, <5>3, <5>7, <5>8
      <4>5. QED
        BY <4>3, <4>4 DEF CopiesFit
    <3>8. QED
      BY <3>6, <3>7
  <2>3. CASE TaskAimed(t)
    <3>1. active' = active
      BY <2>3 DEF TaskAimed
    <3>2. ASSUME NEW S \in SUBSET Aimers(k)'
          PROVE  Cardinality(Unseen(k, c, S)') + Cardinality(S) <= bundle'
      <4>1. S \subseteq Running' /\ Running' \subseteq Tasks
        BY DEF Aimers, Running, Started
      <4>2. Cardinality(S) <= Cardinality(Running') /\ Cardinality(S) \in Nat
            /\ Cardinality(Running') \in Nat
        BY <4>1, FewReadings
      <4>3. CASE t \in S
        <5>1. task[t].kind = k
          BY <2>3, <3>2, <4>3 DEF Aimers, TaskAimed, KeepsTurn
        <5>2. Unseen(k, c, S)' = {}
          BY <2>3, <3>1, <4>3, <5>1 DEF Unseen, Copies, TaskAimed
        <5>3. Cardinality(Unseen(k, c, S)') = 0
          BY <5>2, FS_EmptySet
        <5>4. QED
          BY <1>2, <4>2, <5>3
      <4>4. CASE t \notin S
        <5>1. /\ S \in SUBSET Aimers(k)
              /\ \A u \in S : task'[u].seen = task[u].seen
          BY <2>1, <3>2, <4>4 DEF Aimers
        <5>2. bundle' >= bundle
          BY <1>1, <2>1
        <5>3. QED
          BY <1>3, <3>1, <5>1, <5>2
      <4>5. QED
        BY <4>3, <4>4
    <3>3. QED
      BY <1>1, <3>1, <3>2 DEF CopiesFit
  <2>4. CASE TaskBuilt(t) \/ TaskJudged(t) \/ TaskPassed(t) \/ TaskFinds(t)
             \/ TaskTold(t) \/ TaskGoesOn(t) \/ TaskEnds(t)
    <3>1. active' = active /\ task'[t].pc # "aimed" /\ bundle' >= bundle
      BY <1>1, <2>1, <2>4 DEF TaskBuilt, TaskJudged, TaskPassed, TaskFinds,
        TaskTold, TaskGoesOn, TaskEnds, TurnEnds, IdleTask
    <3>2. ASSUME NEW S \in SUBSET Aimers(k)'
          PROVE  Cardinality(Unseen(k, c, S)') + Cardinality(S) <= bundle'
      <4>1. S \in SUBSET Aimers(k) /\ \A u \in S : task'[u].seen = task[u].seen
        BY <2>1, <3>1, <3>2 DEF Aimers
      <4>2. QED
        BY <1>3, <3>1, <4>1
    <3>3. QED
      BY <1>1, <3>1, <3>2 DEF CopiesFit
  <2>5. QED
    BY <2>1, <2>2, <2>3, <2>4
<1>5. ASSUME active' = active, bundle' >= bundle,
             \A t \in Tasks : task'[t].pc = "aimed" =>
               /\ task[t].pc = "aimed" /\ task[t].kind = task'[t].kind
               /\ task'[t].seen = task[t].seen
      PROVE  IsFiniteSet(active'[k]) /\ CopiesFit(k, c)'
  <2>1. ASSUME NEW S \in SUBSET Aimers(k)'
        PROVE  Cardinality(Unseen(k, c, S)') + Cardinality(S) <= bundle'
    <3>1. S \in SUBSET Aimers(k) /\ \A u \in S : task'[u].seen = task[u].seen
      BY <1>5, <2>1 DEF Aimers
    <3>2. QED
      BY <1>3, <1>5, <3>1
  <2>2. QED
    BY <1>1, <1>5, <2>1 DEF CopiesFit
<1>6. ASSUME NEW t \in Tasks, StopTask(t)
      PROVE  IsFiniteSet(active'[k]) /\ CopiesFit(k, c)'
  <2>1. /\ task'[t] = [IdleTask EXCEPT !.pc = "stopped"]
        /\ \A u \in Tasks \ {t} : task'[u] = task[u]
        /\ active' = active /\ bundle' = bundle
    BY <1>1, <1>6, StopOutcome
  <2>2. task'[t].pc = "stopped" /\ bundle' >= bundle
    BY <1>1, <2>1 DEF IdleTask
  <2>3. QED
    BY <1>5, <2>1, <2>2
<1>7. CASE ReadingsStart
  <2>1. PICK S : \E last \in [S -> Kinds] : \E insist : Start(S, last, insist)
    BY <1>7 DEF ReadingsStart
  <2>2. PICK last \in [S -> Kinds] : \E insist : Start(S, last, insist)
    BY <2>1
  <2>3. PICK insist : Start(S, last, insist)
    BY <2>2
  <2>4. /\ \A t \in S : \E f, a : TaskStarts(t, f, a)
        /\ \A t \in Tasks \ S : TaskRests(t)
        /\ bundle' >= bundle
    BY <1>1, <2>3, StartFields
  <2>5. active' = active
    BY <1>7 DEF ReadingsStart
  <2>6. QED
    BY <1>5, <2>4, <2>5 DEF TaskStarts, TaskRests
<1>8. CASE ReadingsRest
  <2>1. active' = active /\ task' = task /\ bundle' >= bundle
    BY <1>1, <1>8 DEF ReadingsRest
  <2>2. QED
    BY <1>5, <2>1
<1>9. CASE WorldChanges
  <2>1. active' = active /\ bundle' >= bundle /\ \A t \in Tasks : TaskRests(t)
    BY <1>1, <1>9, WorldOutcome
  <2>2. QED
    BY <1>5, <2>1 DEF TaskRests
<1>10. QED
  BY <1>4, <1>6, <1>7, <1>8, <1>9, ReadingSteps

\* ... and as many readings as ever are under way bound those that are, ...
LEMMA StepRunning ==
  ASSUME ReviewOK, [Next]_vars, Cardinality(Running) <= bundle
  PROVE  Cardinality(Running') <= bundle'
<1>1. /\ InsightsTypeOK /\ bundle \in Nat
      /\ Running \subseteq Tasks /\ Running' \subseteq Tasks
  BY DEF ReviewOK, ReadingsOK, InsightsTypeOK, Running
<1>2. ASSUME Running' \subseteq Running, bundle' = bundle
      PROVE  Cardinality(Running') <= bundle'
  <2>1. /\ Cardinality(Running') <= Cardinality(Running)
        /\ Cardinality(Running) \in Nat /\ Cardinality(Running') \in Nat
    BY <1>1, <1>2, FewReadings
  <2>2. QED
    BY <1>1, <1>2, <2>1
<1>3. ASSUME NEW t \in Tasks, TaskStep(t) PROVE Cardinality(Running') <= bundle'
  <2>1. bundle' = bundle /\ \A u \in Tasks \ {t} : task'[u] = task[u]
    BY <1>1, <1>3, TaskOutcomes
  <2>2. Started(t)
    BY <1>3 DEF TaskStep, Started, BuildSignals, Compare, Aim, Replace,
      LookForNote, Notify, ReadBack
  <2>3. QED
    BY <1>2, <2>1, <2>2 DEF Running, Started
<1>4. ASSUME NEW t \in Tasks, StopTask(t) PROVE Cardinality(Running') <= bundle'
  BY <1>1, <1>2, <1>4, StopOutcome DEF Running, Started, StopTask
<1>5. ASSUME ReadingsStart PROVE Cardinality(Running') <= bundle'
  <2>1. PICK S : \E last \in [S -> Kinds] : \E insist : Start(S, last, insist)
    BY <1>5 DEF ReadingsStart
  <2>2. PICK last \in [S -> Kinds] : \E insist : Start(S, last, insist)
    BY <2>1
  <2>3. QED
    BY <1>1, <2>2, StartFields
<1>6. CASE ReadingsRest
  BY <1>2, <1>6 DEF ReadingsRest, Running, Started
<1>7. CASE WorldChanges
  BY <1>1, <1>2, <1>7, WorldOutcome DEF TaskRests, Running, Started
<1>8. QED
  BY <1>3, <1>4, <1>5, <1>6, <1>7, ReadingSteps

\* ... and the notifications.
LEMMA StepNotes ==
  ASSUME ReviewOK, [Next]_vars, CopiesInv, NEW c \in Conditions,
         Cardinality(Running') <= bundle'
  PROVE  NotesFit(c)'
<1>1. /\ InsightsTypeOK /\ TellsSomething /\ bundle \in Nat
      /\ notes \in [Conditions -> Nat] /\ NotesFit(c)
      /\ \A t \in Tasks : task[t] \in Task
  BY DEF ReviewOK, ReadingsOK, InsightsTypeOK, CopiesInv
<1>2. bundle' \in Nat
  BY ReviewStepTypes DEF ReviewOK, ReadingsOK, InsightsTypeOK
<1>3. Telling(c) \subseteq Tasks /\ Cardinality(Telling(c)) \in Nat
      /\ notes[c] \in Nat
  BY <1>1, FewReadings DEF Telling
<1>4. ASSUME notes' = notes, bundle' >= bundle, Telling(c)' \subseteq Telling(c)
      PROVE  NotesFit(c)'
  <2>1. /\ Cardinality(Telling(c)') <= Cardinality(Telling(c))
        /\ Cardinality(Telling(c)') \in Nat
    BY <1>3, <1>4, FewReadings
  <2>2. QED
    BY <1>1, <1>2, <1>3, <1>4, <2>1 DEF NotesFit
<1>5. ASSUME NEW t \in Tasks, TaskStep(t) PROVE NotesFit(c)'
  <2>1. /\ bundle' = bundle /\ \A u \in Tasks \ {t} : task'[u] = task[u]
        /\ bundle' >= bundle
        /\ \/ TaskBuilt(t) \/ TaskJudged(t) \/ TaskAimed(t) \/ TaskReplaced(t)
           \/ TaskPassed(t) \/ TaskFinds(t) \/ TaskTold(t)
           \/ TaskGoesOn(t) \/ TaskEnds(t)
    BY <1>1, <1>5, TaskOutcomes
  <2>2. CASE TaskBuilt(t) \/ TaskJudged(t) \/ TaskAimed(t) \/ TaskReplaced(t)
             \/ TaskPassed(t) \/ TaskGoesOn(t) \/ TaskEnds(t)
    <3>1. notes' = notes /\ task'[t].pc # "telling"
      BY <2>2 DEF TaskBuilt, TaskJudged, TaskAimed, TaskReplaced, TaskPassed,
        TaskGoesOn, TaskEnds, TurnEnds, IdleTask
    <3>2. Telling(c)' \subseteq Telling(c)
      BY <2>1, <3>1 DEF Telling
    <3>3. QED
      BY <1>4, <2>1, <3>1, <3>2
  <2>3. CASE TaskFinds(t)
    <3>1. /\ notes' = notes /\ task'[t].untold = task[t].untold
          /\ ~(notes[Head(task[t].untold)] > 0)
      BY <2>3 DEF TaskFinds
    <3>2. CASE Head(task[t].untold) = c
      <4>1. notes'[c] = 0
        BY <1>3, <3>1, <3>2
      <4>2. Telling(c)' \subseteq Running' /\ Running' \subseteq Tasks
        BY DEF Telling, Running, Started
      <4>3. /\ Cardinality(Telling(c)') <= Cardinality(Running')
            /\ Cardinality(Telling(c)') \in Nat
            /\ Cardinality(Running') \in Nat
        BY <4>2, FewReadings
      <4>4. QED
        BY <1>2, <4>1, <4>3 DEF NotesFit
    <3>3. CASE Head(task[t].untold) # c
      <4>1. Telling(c)' \subseteq Telling(c)
        BY <2>1, <3>1, <3>3 DEF Telling
      <4>2. QED
        BY <1>4, <2>1, <3>1, <4>1
    <3>4. QED
      BY <3>2, <3>3
  <2>4. CASE TaskTold(t)
    <3>1. /\ task[t].pc = "telling" /\ task'[t].pc = "replaced"
          /\ notes' = [notes EXCEPT ![Head(task[t].untold)] = @ + 1]
      BY <2>4 DEF TaskTold
    <3>2. Telling(c)' \subseteq Telling(c) \ {t}
      BY <2>1, <3>1 DEF Telling
    <3>3. CASE Head(task[t].untold) # c
      <4>1. notes'[c] = notes[c]
        BY <1>1, <3>1, <3>3
      <4>2. /\ Cardinality(Telling(c)') <= Cardinality(Telling(c))
            /\ Cardinality(Telling(c)') \in Nat
        BY <1>3, <3>2, FewReadings
      <4>3. QED
        BY <1>1, <1>3, <2>1, <4>1, <4>2 DEF NotesFit
    <3>4. CASE Head(task[t].untold) = c
      <4>1. notes'[c] = notes[c] + 1
        BY <1>1, <3>1, <3>4
      <4>2. t \in Telling(c)
        BY <3>1, <3>4 DEF Telling
      <4>3. /\ Cardinality(Telling(c) \ {t}) = Cardinality(Telling(c)) - 1
            /\ Cardinality(Telling(c)') <= Cardinality(Telling(c) \ {t})
            /\ Cardinality(Telling(c)') \in Nat
        <5>1. IsFiniteSet(Telling(c)) /\ Telling(c) \ {t} \in SUBSET Tasks
          BY <1>3, FewReadings
        <5>2. Cardinality(Telling(c) \ {t}) = Cardinality(Telling(c)) - 1
          BY <4>2, <5>1, FS_RemoveElement
        <5>3. QED
          BY <3>2, <5>1, <5>2, FewReadings
      <4>4. QED
        BY <1>1, <1>3, <2>1, <4>1, <4>3 DEF NotesFit
    <3>5. QED
      BY <3>3, <3>4
  <2>5. QED
    BY <2>1, <2>2, <2>3, <2>4
<1>6. ASSUME NEW t \in Tasks, StopTask(t) PROVE NotesFit(c)'
  <2>1. /\ task'[t] = [IdleTask EXCEPT !.pc = "stopped"]
        /\ \A u \in Tasks \ {t} : task'[u] = task[u]
        /\ notes' = notes /\ bundle' = bundle
    BY <1>1, <1>6, StopOutcome
  <2>2. task'[t].pc = "stopped" /\ bundle' >= bundle
    BY <1>1, <2>1 DEF IdleTask
  <2>3. Telling(c)' \subseteq Telling(c)
    BY <2>1, <2>2 DEF Telling
  <2>4. QED
    BY <1>4, <2>1, <2>2, <2>3
<1>7. CASE ReadingsStart
  <2>1. PICK S : \E last \in [S -> Kinds] : \E insist : Start(S, last, insist)
    BY <1>7 DEF ReadingsStart
  <2>2. PICK last \in [S -> Kinds] : \E insist : Start(S, last, insist)
    BY <2>1
  <2>3. /\ \A t \in S : \E f, a : TaskStarts(t, f, a)
        /\ \A t \in Tasks \ S : TaskRests(t)
        /\ bundle' >= bundle
    BY <1>1, <2>2, StartFields
  <2>4. notes' = notes /\ Telling(c)' \subseteq Telling(c)
    BY <1>7, <2>3 DEF ReadingsStart, Telling, TaskStarts, TaskRests
  <2>5. QED
    BY <1>4, <2>3, <2>4
<1>8. CASE ReadingsRest
  <2>1. notes' = notes /\ task' = task /\ bundle' >= bundle
    BY <1>1, <1>8 DEF ReadingsRest
  <2>2. QED
    BY <1>4, <2>1 DEF Telling
<1>9. CASE WorldChanges
  <2>1. notes' = notes /\ bundle' >= bundle /\ \A t \in Tasks : TaskRests(t)
    BY <1>1, <1>9, WorldOutcome
  <2>2. Telling(c)' \subseteq Telling(c)
    BY <2>1 DEF Telling, TaskRests
  <2>3. QED
    BY <1>4, <2>1, <2>2
<1>10. QED
  BY <1>5, <1>6, <1>7, <1>8, <1>9, ReadingSteps

\* A condition that a reading has yet to look at or to notify.
Tells(t, c) ==
  /\ task[t].pc \in {"replaced", "telling"}
  /\ \E i \in 1..Len(task[t].untold) : task[t].untold[i] = c

\* As long as nothing stops, whatever is loud and active has been notified or
\* will be.
ToldInv ==
  stops = 0 =>
    \A row \in active["signals"] :
      row.condition \in Loud =>
        notes[row.condition] > 0 \/ \E t \in Tasks : Tells(t, row.condition)

\* What is left of the conditions to look at, once one has been.
LEMMA LeftToTell ==
  ASSUME NEW s \in Seq(Conditions), s # <<>>, NEW i \in 1..Len(s)
  PROVE  s[i] = Head(s) \/ \E j \in 1..Len(Tail(s)) : Tail(s)[j] = s[i]
<1>1. Len(s) \in Nat /\ Len(s) > 0 /\ Len(Tail(s)) = Len(s) - 1
  BY HeadTailProperties, LenProperties, EmptySeq
<1>2. CASE i = 1
  BY <1>2
<1>3. CASE i # 1
  <2>1. i - 1 \in 1..Len(Tail(s)) /\ Tail(s)[i - 1] = s[i - 1 + 1]
    BY <1>1, <1>3, HeadTailProperties
  <2>2. QED
    BY <2>1
<1>4. QED
  BY <1>2, <1>3

\* Every step keeps it so.
LEMMA StepToldInv ==
  ASSUME ReviewOK, [Next]_vars, TaskShape, ToldInv
  PROVE  ToldInv'
<1> SUFFICES ASSUME stops' = 0, NEW row \in active'["signals"],
                    row.condition \in Loud
             PROVE  notes'[row.condition] > 0
                    \/ \E t \in Tasks : Tells(t, row.condition)'
  BY DEF ToldInv
<1>1. /\ InsightsTypeOK /\ TellsSomething
      /\ notes \in [Conditions -> Nat] /\ Loud \subseteq Conditions
      /\ active \in [Kinds -> SUBSET Row]
      /\ \A t \in Tasks : task[t] \in Task
      /\ stops \in Nat
  <2>1. setting.stops \in Nat /\ stops \in 0..setting.stops
    BY InsightsAssumption DEF ReviewOK, ReadingsOK, InsightsTypeOK
  <2>2. stops \in Nat
    BY <2>1
  <2>3. QED
    BY <2>2, InsightsAssumption DEF ReviewOK, ReadingsOK, InsightsTypeOK
<1>2. PICK c \in Conditions : c = row.condition
  BY <1>1
<1>3. ASSUME stops' = stops, row \in active["signals"]
      PROVE  notes[c] > 0 \/ \E t \in Tasks : Tells(t, c)
  BY <1>2, <1>3 DEF ToldInv
<1>4. ASSUME active' = active, notes' = notes,
             stops' = stops \/ stops' = stops + 1,
             \A t \in Tasks : task[t].pc \in {"replaced", "telling"} =>
               /\ task'[t].pc \in {"replaced", "telling"}
               /\ task'[t].untold = task[t].untold
      PROVE  notes'[c] > 0 \/ \E t \in Tasks : Tells(t, c)'
  <2>1. stops' = stops
    BY <1>1, <1>4
  <2>2. notes[c] > 0 \/ \E t \in Tasks : Tells(t, c)
    BY <1>3, <1>4, <2>1
  <2>3. QED
    BY <1>4, <2>2 DEF Tells
<1>5. ASSUME NEW t \in Tasks, TaskStep(t)
      PROVE  notes'[c] > 0 \/ \E u \in Tasks : Tells(u, c)'
  <2>1. /\ stops' = stops /\ \A u \in Tasks \ {t} : task'[u] = task[u]
        /\ \/ TaskBuilt(t) \/ TaskJudged(t) \/ TaskAimed(t) \/ TaskReplaced(t)
           \/ TaskPassed(t) \/ TaskFinds(t) \/ TaskTold(t)
           \/ TaskGoesOn(t) \/ TaskEnds(t)
    BY <1>1, <1>5, TaskOutcomes
  <2>2. CASE \/ TaskBuilt(t) \/ TaskJudged(t) \/ TaskAimed(t) \/ TaskFinds(t)
    <3>1. /\ active' = active /\ notes' = notes
          /\ task[t].pc \in {"replaced", "telling"} =>
               /\ task'[t].pc \in {"replaced", "telling"}
               /\ task'[t].untold = task[t].untold
      BY <2>2 DEF TaskBuilt, TaskJudged, TaskAimed, TaskFinds
    <3>2. QED
      BY <1>4, <2>1, <3>1
  <2>3. CASE TaskGoesOn(t) \/ TaskEnds(t)
    <3>1. TurnEnds(t)
      BY <2>3 DEF TaskGoesOn, TaskEnds
    <3>2. notes[c] > 0 \/ \E u \in Tasks : Tells(u, c)
      BY <1>3, <2>1, <3>1 DEF TurnEnds
    <3>3. ~Tells(t, c)
      <4>1. Len(<<>>) = 0
        BY EmptySeq
      <4>2. QED
        BY <3>1, <4>1 DEF Tells, TurnEnds
    <3>4. \A u \in Tasks : Tells(u, c) => Tells(u, c)'
      BY <2>1, <3>3 DEF Tells
    <3>5. QED
      BY <3>1, <3>2, <3>4 DEF TurnEnds
  <2>4. CASE TaskPassed(t) \/ TaskTold(t)
    <3>1. PICK s \in Seq(Conditions) : s = task[t].untold
      BY <1>1 DEF Task
    <3>2. s # <<>>
      BY <2>4, <1>1, <3>1 DEF TaskPassed, TaskTold, TellsSomething
    <3>3. /\ active' = active /\ task'[t].pc = "replaced"
          /\ task'[t].untold = Tail(s)
      BY <2>4, <3>1 DEF TaskPassed, TaskTold
    <3>4. Head(s) \in Conditions
      BY <3>2, HeadTailProperties
    <3>5. /\ notes'[Head(s)] > 0
          /\ notes[c] > 0 => notes'[c] > 0
      <4>1. CASE TaskPassed(t)
        BY <3>1, <4>1 DEF TaskPassed
      <4>2. CASE TaskTold(t)
        <5>1. notes' = [notes EXCEPT ![Head(s)] = @ + 1]
          BY <3>1, <4>2 DEF TaskTold
        <5>2. QED
          BY <1>1, <3>4, <5>1
      <4>3. QED
        BY <2>4, <4>1, <4>2
    <3>6. notes[c] > 0 \/ \E u \in Tasks : Tells(u, c)
      BY <1>3, <2>1, <3>3
    <3>7. ASSUME NEW u \in Tasks, Tells(u, c)
          PROVE  notes'[c] > 0 \/ Tells(u, c)'
      <4>1. CASE u # t
        BY <2>1, <3>7, <4>1 DEF Tells
      <4>2. CASE u = t
        <5>1. PICK i \in 1..Len(s) : s[i] = c
          BY <3>1, <3>7, <4>2 DEF Tells
        <5>2. CASE s[i] = Head(s)
          BY <3>5, <5>1, <5>2
        <5>3. CASE \E j \in 1..Len(Tail(s)) : Tail(s)[j] = s[i]
          BY <3>3, <4>2, <5>1, <5>3 DEF Tells
        <5>4. QED
          BY <3>2, <5>2, <5>3, LeftToTell
      <4>3. QED
        BY <4>1, <4>2
    <3>8. QED
      BY <3>5, <3>6, <3>7
  <2>5. CASE TaskReplaced(t)
    <3>1. PICK K \in Kinds, D \in SUBSET Draft, n \in Nat :
            /\ K = task[t].kind /\ D = task[t].drafts /\ n = made[K]
      <4>1. task[t].kind \in Kinds /\ task[t].drafts \in SUBSET Draft
        BY <1>1 DEF Task
      <4>2. made[task[t].kind] \in Nat
        BY <1>1, <4>1, InsightsAssumption DEF InsightsTypeOK
      <4>3. QED
        BY <4>1, <4>2
    <3>2. /\ active' = [active EXCEPT ![K] =
                          (active[K] \ task[t].seen) \cup Rows(D, n)]
          /\ task'[t].pc = "replaced" /\ task'[t].untold = ToNotify(K, D)
          /\ notes' = notes /\ task[t].pc = "aimed"
      BY <2>5, <3>1 DEF TaskReplaced
    <3>3. CASE row \in active["signals"]
      <4>1. notes[c] > 0 \/ \E u \in Tasks : Tells(u, c)
        BY <1>3, <2>1, <3>3
      <4>2. ~Tells(t, c)
        BY <3>2 DEF Tells
      <4>3. \A u \in Tasks : Tells(u, c) => Tells(u, c)'
        BY <2>1, <4>2 DEF Tells
      <4>4. QED
        BY <3>2, <4>1, <4>3
    <3>4. CASE row \notin active["signals"]
      <4>1. K = "signals" /\ row \in Rows(D, n)
        BY <1>1, <3>2, <3>4 DEF Kinds
      <4>2. Content(row) \in D /\ Content(row).condition = c
        BY <1>2, <3>1, <4>1, RowsOfDrafts DEF Content
      <4>3. c \in Loud \cap {d.condition : d \in D}
        BY <1>2, <4>2
      <4>4. PICK s : s = ToNotify(K, D)
        OBVIOUS
      <4>5. \E i \in 1..Len(s) : s[i] = c
        BY <3>1, <4>1, <4>3, <4>4, LoudAreNotified
      <4>6. QED
        BY <3>2, <4>4, <4>5 DEF Tells
    <3>5. QED
      BY <3>3, <3>4
  <2>6. QED
    BY <2>1, <2>2, <2>3, <2>4, <2>5
<1>6. ASSUME NEW t \in Tasks, StopTask(t) PROVE FALSE
  BY <1>1, <1>6, StopOutcome
<1>7. ASSUME ReadingsStart
      PROVE  notes'[c] > 0 \/ \E t \in Tasks : Tells(t, c)'
  <2>1. PICK S : \E last \in [S -> Kinds] : \E insist : Start(S, last, insist)
    BY <1>7 DEF ReadingsStart
  <2>2. PICK last \in [S -> Kinds] : \E insist : Start(S, last, insist)
    BY <2>1
  <2>3. /\ \A t \in S : \E f, a : TaskStarts(t, f, a)
        /\ \A t \in Tasks \ S : TaskRests(t)
    BY <1>1, <2>2, StartFields
  <2>4. active' = active /\ notes' = notes /\ stops' = stops
    BY <1>7 DEF ReadingsStart
  <2>5. QED
    BY <1>4, <2>3, <2>4 DEF TaskStarts, TaskRests
<1>8. ASSUME ReadingsRest
      PROVE  notes'[c] > 0 \/ \E t \in Tasks : Tells(t, c)'
  BY <1>4, <1>8 DEF ReadingsRest
<1>9. ASSUME WorldChanges
      PROVE  notes'[c] > 0 \/ \E t \in Tasks : Tells(t, c)'
  BY <1>1, <1>4, <1>9, WorldOutcome DEF TaskRests
<1>10. QED
  BY <1>2, <1>5, <1>6, <1>7, <1>8, <1>9, ReadingSteps

(***************************************************************************)
(* How the rows settle                                                     *)
(***************************************************************************)

\* The rows of a kind there should be, and that they are the active ones.
Right(k) == IF k = "signals" THEN SignalsOf(world)
            ELSE Recommended(SignalsOf(world), world.order)
Agrees(k) == /\ Cardinality(active[k]) = Cardinality(Right(k))
             /\ {Content(row) : row \in active[k]} = Right(k)

\* While nothing has happened that should change the rows, they are right, and
\* no reading under way is about to replace them.
CalmOK(t) == /\ task[t].pc \in {"building", "drafted"} /\ ~task[t].force
             /\ task[t].pc = "drafted" => task[t].drafts = Right(task[t].kind)
CalmInv ==
  calm => /\ \A k \in Kinds : Agrees(k)
          /\ \A t \in Running : CalmOK(t)

\* A reading that nothing disturbs is the only one, its drafts are right, and so
\* are the rows it has seen to.
AloneOK(t) ==
  /\ \A u \in Running : u = t
  /\ task[t].kind = "recommendations" => Agrees("signals")
  /\ task[t].pc # "building" => task[t].drafts = Right(task[t].kind)
  /\ task[t].pc = "aimed" => task[t].seen = active[task[t].kind]
  /\ task[t].pc \in {"replaced", "telling"} => Agrees(task[t].kind)
AloneInv == \A t \in Tasks : task[t].alone => AloneOK(t)

\* Signals that are right are picked as they are.
LEMMA PicksAreRight ==
  ASSUME Agrees("signals"), NEW signals \in Picks(active["signals"])
  PROVE  signals = SignalsOf(world)
<1>1. {Content(row) : row \in active["signals"]} = SignalsOf(world)
  BY DEF Agrees, Right
<1>2. signals \subseteq SignalsOf(world)
  BY <1>1 DEF Picks
<1>3. ASSUME NEW d \in SignalsOf(world) PROVE d \in signals
  <2>1. PICK row \in active["signals"] : Content(row) = d
    BY <1>1, <1>3
  <2>2. PICK found : found = {Content(r).condition : r \in active["signals"]}
    OBVIOUS
  <2>3. {e.condition : e \in signals} = found /\ d.condition \in found
    BY <2>1, <2>2 DEF Picks
  <2>4. PICK e \in signals : e.condition = d.condition
    BY <2>3
  <2>5. e = d
    BY <1>2, <1>3, <2>4, WorldIsDistinct DEF Distinct
  <2>6. QED
    BY <2>4, <2>5
<1>4. QED
  BY <1>2, <1>3

\* As long as the store and the rows of a kind stay, so does what is right.
LEMMA RightStays ==
  ASSUME NEW k, world' = world
  PROVE  /\ Right(k)' = Right(k)
         /\ active'[k] = active[k] => Agrees(k)' = Agrees(k)
  BY DEF Right, Agrees

\* Every step keeps it so of a reading that nothing disturbs, ...
LEMMA StepAloneInv ==
  ASSUME ReviewOK, [Next]_vars, TaskShape, AloneInv
  PROVE  AloneInv'
<1> SUFFICES ASSUME NEW t \in Tasks, task'[t].alone PROVE AloneOK(t)'
  BY DEF AloneInv
<1>1. /\ InsightsTypeOK /\ TaskOK(t) /\ task[t] \in Task
      /\ task[t].kind \in Kinds /\ task[t].last \in Kinds
      /\ active \in [Kinds -> SUBSET Row]
  BY DEF ReviewOK, ReadingsOK, InsightsTypeOK, TaskShape, Task
<1>2. ASSUME world' = world, active' = active, Running' \subseteq Running,
             task[t].alone, TaskRests(t)
      PROVE  AloneOK(t)'
  <2>1. AloneOK(t)
    BY <1>2 DEF AloneInv
  <2>2. \A k : Right(k)' = Right(k) /\ Agrees(k)' = Agrees(k)
    BY <1>2, RightStays
  <2>3. PICK k : k = task[t].kind
    OBVIOUS
  <2>4. /\ task'[t].kind = k /\ Right(k)' = Right(k) /\ Agrees(k)' = Agrees(k)
        /\ Agrees("signals")' = Agrees("signals")
    BY <1>2, <2>2, <2>3 DEF TaskRests
  <2>5. AloneOK(t)'
    BY <1>2, <2>1, <2>3, <2>4 DEF TaskRests, AloneOK
  <2>6. QED
    BY <2>5
<1>3. ASSUME NEW u \in Tasks, TaskStep(u) PROVE AloneOK(t)'
  <2>1. /\ world' = world /\ \A v \in Tasks \ {u} : task'[v] = task[v]
        /\ \/ TaskBuilt(u) \/ TaskJudged(u) \/ TaskAimed(u) \/ TaskReplaced(u)
           \/ TaskPassed(u) \/ TaskFinds(u) \/ TaskTold(u)
           \/ TaskGoesOn(u) \/ TaskEnds(u)
    BY <1>1, <1>3, TaskOutcomes
  <2>2. u \in Running
    BY <1>3 DEF TaskStep, Running, Started, BuildSignals, Compare, Aim, Replace,
      LookForNote, Notify, ReadBack
  <2>3. u = t
    BY <2>1, <2>2 DEF AloneInv, AloneOK
  <2>4. task[t].alone /\ AloneOK(t) /\ ~TaskEnds(t)
    <3>1. ~TaskEnds(t)
      BY DEF TaskEnds, IdleTask
    <3>2. task[t].alone
      BY <2>1, <2>3, <3>1 DEF TaskBuilt, TaskJudged, TaskAimed, TaskReplaced,
        TaskPassed, TaskFinds, TaskTold, TaskGoesOn, KeepsTurn
    <3>3. QED
      BY <3>1, <3>2 DEF AloneInv
  <2>5. \A v \in Running' : v = t
    BY <2>1, <2>2, <2>3, <2>4 DEF Running, Started, AloneOK
  <2>6. PICK k \in Kinds : k = task[t].kind
    BY <1>1
  <2>7. /\ Right("signals")' = Right("signals") /\ Right(k)' = Right(k)
        /\ Right("recommendations")' = Right("recommendations")
    BY <2>1, RightStays
  <2>8. /\ active'["signals"] = active["signals"] =>
             Agrees("signals")' = Agrees("signals")
        /\ active' = active => Agrees(k)' = Agrees(k)
    BY <2>1, RightStays
  <2>9. CASE TaskBuilt(t)
    <3>1. /\ k = "signals" /\ task'[t].kind = k /\ task'[t].pc = "drafted"
          /\ task'[t].drafts = SignalsOf(world)
      BY <1>1, <2>6, <2>9 DEF TaskBuilt, KeepsTurn, TaskOK
    <3>2. task'[t].drafts = Right(k)'
      BY <2>7, <3>1 DEF Right
    <3>3. QED
      BY <2>5, <3>1, <3>2 DEF AloneOK
  <2>10. CASE \/ TaskJudged(t) \/ TaskAimed(t) \/ TaskPassed(t) \/ TaskFinds(t)
              \/ TaskTold(t)
    <3>1. /\ active' = active /\ task'[t].kind = k
          /\ task'[t].drafts = task[t].drafts /\ task[t].pc # "building"
          /\ task'[t].pc = "aimed" => task'[t].seen = active[k]
          /\ task'[t].pc \in {"replaced", "telling"} =>
               task[t].pc \in {"replaced", "telling"}
      BY <2>6, <2>10 DEF TaskJudged, TaskAimed, TaskPassed, TaskFinds, TaskTold,
        KeepsTurn
    <3>2. /\ task'[t].drafts = Right(k)'
          /\ k = "recommendations" => Agrees("signals")'
          /\ task'[t].pc \in {"replaced", "telling"} => Agrees(k)'
      BY <2>4, <2>6, <2>7, <2>8, <3>1 DEF AloneOK
    <3>3. QED
      BY <2>5, <3>1, <3>2 DEF AloneOK
  <2>11. CASE TaskReplaced(t)
    <3>1. PICK D \in SUBSET Draft, n \in Nat :
            D = task[t].drafts /\ n = made[k]
      <4>1. task[t].drafts \in SUBSET Draft
        BY <1>1 DEF Task
      <4>2. made[k] \in Nat
        BY <1>1, <2>6, InsightsAssumption DEF InsightsTypeOK
      <4>3. QED
        BY <4>1, <4>2
    <3>2. /\ task'[t].pc = "replaced" /\ task'[t].kind = k
          /\ task'[t].drafts = D /\ task[t].seen = active[k]
          /\ active' = [active EXCEPT ![k] = (@ \ task[t].seen) \cup Rows(D, n)]
          /\ D = Right(k)
      BY <2>4, <2>6, <2>11, <3>1 DEF TaskReplaced, KeepsTurn, AloneOK
    <3>3. active'[k] = Rows(D, n)
      BY <1>1, <2>6, <3>2
    <3>4. Agrees(k)'
      <4>1. PICK N : N = Rows(D, n)
        OBVIOUS
      <4>2. /\ Cardinality(N) = Cardinality(D)
            /\ {Content(row) : row \in N} = D
        BY <3>1, <4>1, RowsCounted
      <4>3. active'[k] = N /\ Right(k)' = D
        BY <2>7, <3>2, <3>3, <4>1
      <4>4. QED
        BY <4>2, <4>3 DEF Agrees
    <3>5. k = "recommendations" => Agrees("signals")'
      <4>1. k = "recommendations" => active'["signals"] = active["signals"]
        BY <1>1, <3>2 DEF Kinds
      <4>2. QED
        BY <2>4, <2>6, <2>8, <4>1 DEF AloneOK
    <3>6. task'[t].drafts = Right(k)'
      BY <2>7, <3>2
    <3>7. QED
      BY <2>5, <3>2, <3>4, <3>5, <3>6 DEF AloneOK
  <2>12. CASE TaskGoesOn(t)
    <3>1. k = "signals"
      BY <1>1, <2>6, <2>12 DEF TaskGoesOn, TaskOK, Kinds
    <3>2. active' = active /\ Agrees("signals")
      <4>1. CASE task[t].pc = "drafted" /\ Settled(t, active[task[t].kind])
        BY <2>4, <2>6, <2>12, <3>1, <4>1
          DEF Settled, AloneOK, Agrees, TaskGoesOn, TurnEnds
      <4>2. CASE task[t].pc = "replaced"
        BY <2>4, <2>6, <2>12, <3>1, <4>2 DEF AloneOK, TaskGoesOn, TurnEnds
      <4>3. QED
        BY <2>12, <4>1, <4>2 DEF TaskGoesOn, TurnEnds
    <3>3. PICK signals \in Picks(active["signals"]), order \in Rankings :
            /\ signals = SignalsOf(world) => order = world.order
            /\ task'[t].drafts = Recommended(signals, order)
      BY <2>6, <2>12, <3>1 DEF TaskGoesOn
    <3>4. signals = SignalsOf(world)
      BY <3>2, PicksAreRight
    <3>5. task'[t].drafts = Right("recommendations")'
      BY <2>7, <3>3, <3>4 DEF Right
    <3>6. task'[t].pc = "drafted" /\ task'[t].kind = "recommendations"
      BY <2>12 DEF TaskGoesOn
    <3>7. QED
      BY <2>5, <2>8, <3>2, <3>5, <3>6 DEF AloneOK
  <2>13. QED
    BY <2>1, <2>3, <2>4, <2>9, <2>10, <2>11, <2>12
<1>4. ASSUME NEW u \in Tasks, StopTask(u) PROVE AloneOK(t)'
  <2>1. /\ task'[u] = [IdleTask EXCEPT !.pc = "stopped"]
        /\ \A v \in Tasks \ {u} : task'[v] = task[v]
    BY <1>1, <1>4, StopOutcome
  <2>2. u # t
    BY <2>1 DEF IdleTask
  <2>3. u \in Running
    BY <1>4 DEF StopTask, Running
  <2>4. QED
    BY <2>1, <2>2, <2>3 DEF AloneInv, AloneOK
<1>5. CASE ReadingsStart
  <2>1. PICK S : \E last \in [S -> Kinds] : \E insist : Start(S, last, insist)
    BY <1>5 DEF ReadingsStart
  <2>2. PICK last \in [S -> Kinds] : \E insist : Start(S, last, insist)
    BY <2>1
  <2>3. PICK insist : Start(S, last, insist)
    BY <2>2
  <2>4. Running' = Running \cup S /\ IsFiniteSet(Running \cup S)
    BY <1>1, <2>3, StartFields
  <2>5. CASE t \in S
    <3>1. TaskStarts(t, t \in insist, Cardinality(Running \cup S) = 1)
      BY <1>1, <2>3, <2>5, StartFields
    <3>2. /\ Cardinality(Running \cup S) = 1 /\ task'[t].pc = "building"
          /\ task'[t].kind = "signals"
      BY <3>1 DEF TaskStarts
    <3>3. \A u \in Running' : u = t
      BY <2>4, <2>5, <3>2, AtMostOne
    <3>4. QED
      BY <3>2, <3>3 DEF AloneOK
  <2>6. CASE t \notin S
    <3>1. TaskRests(t) /\ S = {}
      BY <1>1, <2>3, <2>6, StartFields
    <3>2. Running' \subseteq Running /\ task[t].alone
      BY <2>4, <3>1 DEF TaskRests
    <3>3. QED
      BY <1>2, <1>5, <3>1, <3>2 DEF ReadingsStart
  <2>7. QED
    BY <2>5, <2>6
<1>6. CASE ReadingsRest
  BY <1>2, <1>6 DEF ReadingsRest, Running, Started, TaskRests
<1>7. CASE WorldChanges
  BY <1>1, <1>7, WorldOutcome
<1>8. QED
  BY <1>3, <1>4, <1>5, <1>6, <1>7, ReadingSteps

\* ... and of the rows once they have come right.
LEMMA StepCalmInv ==
  ASSUME ReviewOK, [Next]_vars, TaskShape, AloneInv, CalmInv
  PROVE  CalmInv'
<1> SUFFICES ASSUME calm'
             PROVE  (\A k \in Kinds : Agrees(k))'
                    /\ \A t \in Running' : CalmOK(t)'
  BY DEF CalmInv
<1>1. /\ InsightsTypeOK /\ \A t \in Tasks : task[t] \in Task
      /\ Running \subseteq Tasks /\ calm \in BOOLEAN
  BY DEF ReviewOK, ReadingsOK, InsightsTypeOK, Running
<1>2. ASSUME world' = world, active' = active
      PROVE  \A k : Right(k)' = Right(k) /\ Agrees(k)' = Agrees(k)
  BY <1>2, RightStays
<1>3. ASSUME calm, NEW t \in Running, world' = world, active' = active,
             TaskRests(t)
      PROVE  CalmOK(t)'
  <2>1. CalmOK(t)
    BY <1>3 DEF CalmInv
  <2>2. PICK k : k = task[t].kind
    OBVIOUS
  <2>3. task'[t].kind = k /\ Right(k)' = Right(k)
    BY <1>2, <1>3, <2>2 DEF TaskRests
  <2>4. QED
    BY <1>3, <2>1, <2>2, <2>3 DEF TaskRests, CalmOK
<1>4. ASSUME calm, world' = world, active' = active
      PROVE  (\A k \in Kinds : Agrees(k))'
  BY <1>2, <1>4 DEF CalmInv
<1>5. ASSUME NEW t \in Tasks, TaskStep(t)
      PROVE  (\A k \in Kinds : Agrees(k))' /\ \A u \in Running' : CalmOK(u)'
  <2>1. /\ world' = world /\ \A u \in Tasks \ {t} : task'[u] = task[u]
        /\ \/ TaskBuilt(t) \/ TaskJudged(t) \/ TaskAimed(t) \/ TaskReplaced(t)
           \/ TaskPassed(t) \/ TaskFinds(t) \/ TaskTold(t)
           \/ TaskGoesOn(t) \/ TaskEnds(t)
    BY <1>1, <1>5, TaskOutcomes
  <2>2. t \in Running
    BY <1>5 DEF TaskStep, Running, Started, BuildSignals, Compare, Aim, Replace,
      LookForNote, Notify, ReadBack
  <2>3. /\ task[t].kind \in Kinds /\ task[t].last \in Kinds
        /\ TaskOK(t)
    BY <1>1 DEF Task, TaskShape
  <2>4. CASE calm
    <3>1. CalmOK(t) /\ \A k \in Kinds : Agrees(k)
      BY <2>2, <2>4 DEF CalmInv
    <3>2. task[t].pc = "drafted" => Settled(t, active[task[t].kind])
      BY <2>3, <3>1 DEF CalmOK, Settled, Agrees
    <3>3. TaskBuilt(t) \/ TaskGoesOn(t) \/ TaskEnds(t)
      BY <2>1, <3>1, <3>2 DEF CalmOK, TaskJudged, TaskAimed, TaskReplaced,
        TaskPassed, TaskFinds, TaskTold
    <3>4. active' = active
      BY <3>3 DEF TaskBuilt, TaskGoesOn, TaskEnds, TurnEnds
    <3>5. ASSUME t \in Running' PROVE CalmOK(t)'
      <4>1. CASE TaskBuilt(t)
        <5>1. /\ task'[t].pc = "drafted" /\ task'[t].kind = "signals"
              /\ task'[t].drafts = SignalsOf(world) /\ ~task'[t].force
          BY <2>3, <3>1, <4>1 DEF TaskBuilt, KeepsTurn, TaskOK, CalmOK
        <5>2. Right("signals")' = SignalsOf(world)
          BY <1>2, <2>1, <3>4 DEF Right
        <5>3. QED
          BY <5>1, <5>2 DEF CalmOK
      <4>2. CASE TaskGoesOn(t)
        <5>1. /\ task[t].kind = "signals" /\ task'[t].pc = "drafted"
              /\ task'[t].kind = "recommendations" /\ ~task'[t].force
          BY <2>3, <3>1, <4>2 DEF TaskGoesOn, TaskOK, CalmOK, Kinds
        <5>2. PICK signals \in Picks(active["signals"]), order \in Rankings :
                /\ signals = SignalsOf(world) => order = world.order
                /\ task'[t].drafts = Recommended(signals, order)
          BY <4>2, <5>1 DEF TaskGoesOn
        <5>3. signals = SignalsOf(world)
          BY <3>1, <5>2, PicksAreRight DEF Kinds
        <5>4. Right("recommendations")'
                = Recommended(SignalsOf(world), world.order)
          BY <1>2, <2>1, <3>4 DEF Right
        <5>5. QED
          BY <5>1, <5>2, <5>3, <5>4 DEF CalmOK
      <4>3. ~TaskEnds(t)
        BY <3>5 DEF TaskEnds, IdleTask, Running, Started
      <4>4. QED
        BY <3>3, <4>1, <4>2, <4>3
    <3>6. ASSUME NEW u \in Running' \ {t} PROVE CalmOK(u)'
      <4>1. u \in Running /\ TaskRests(u)
        BY <2>1, <3>6 DEF Running, Started, TaskRests
      <4>2. QED
        BY <1>3, <2>1, <2>4, <3>4, <4>1
    <3>7. QED
      BY <1>4, <2>1, <2>4, <3>4, <3>5, <3>6
  <2>5. CASE ~calm
    <3>1. TaskEnds(t)
      BY <2>1, <2>5 DEF TaskBuilt, TaskJudged, TaskAimed, TaskReplaced,
        TaskPassed, TaskFinds, TaskTold, TaskGoesOn
    <3>2. /\ task[t].alone /\ task[t].kind = "recommendations"
          /\ active' = active
          /\ \/ task[t].pc = "drafted" /\ Settled(t, active[task[t].kind])
             \/ task[t].pc = "replaced"
      BY <2>5, <3>1 DEF TaskEnds, TurnEnds
    <3>3. AloneOK(t)
      BY <3>2 DEF AloneInv
    <3>4. Agrees("signals") /\ Agrees("recommendations")
      <4>1. CASE task[t].pc = "drafted" /\ Settled(t, active[task[t].kind])
        BY <3>2, <3>3, <4>1 DEF AloneOK, Settled, Agrees
      <4>2. CASE task[t].pc = "replaced"
        BY <3>2, <3>3, <4>2 DEF AloneOK
      <4>3. QED
        BY <3>2, <4>1, <4>2
    <3>5. (\A k \in Kinds : Agrees(k))'
      BY <1>2, <2>1, <3>2, <3>4 DEF Kinds
    <3>6. Running' = {}
      BY <2>1, <3>1, <3>3 DEF AloneOK, TaskEnds, IdleTask, Running, Started
    <3>7. QED
      BY <3>5, <3>6
  <2>6. QED
    BY <1>1, <2>4, <2>5
<1>6. ASSUME NEW t \in Tasks, StopTask(t)
      PROVE  (\A k \in Kinds : Agrees(k))' /\ \A u \in Running' : CalmOK(u)'
  <2>1. /\ task'[t] = [IdleTask EXCEPT !.pc = "stopped"]
        /\ \A u \in Tasks \ {t} : task'[u] = task[u]
        /\ world' = world /\ active' = active /\ calm' = calm
    BY <1>1, <1>6, StopOutcome
  <2>2. ASSUME NEW u \in Running' PROVE u \in Running /\ TaskRests(u)
    <3>1. u # t /\ u \in Tasks
      BY <2>1, <2>2 DEF IdleTask, Running, Started
    <3>2. QED
      BY <2>1, <2>2, <3>1 DEF Running, Started, TaskRests
  <2>3. QED
    BY <1>3, <1>4, <2>1, <2>2
<1>7. ASSUME ReadingsStart
      PROVE  (\A k \in Kinds : Agrees(k))' /\ \A u \in Running' : CalmOK(u)'
  <2>1. PICK S : \E last \in [S -> Kinds] : \E insist : Start(S, last, insist)
    BY <1>7 DEF ReadingsStart
  <2>2. PICK last \in [S -> Kinds] : \E insist : Start(S, last, insist)
    BY <2>1
  <2>3. PICK insist : Start(S, last, insist)
    BY <2>2
  <2>4. /\ calm /\ insist = {} /\ Running' = Running \cup S
        /\ world' = world /\ active' = active
    BY <1>1, <1>7, <2>3, StartFields DEF ReadingsStart
  <2>5. ASSUME NEW u \in S PROVE CalmOK(u)'
    <3>1. TaskStarts(u, u \in insist, Cardinality(Running \cup S) = 1)
      BY <1>1, <2>3, <2>5, StartFields
    <3>2. task'[u].pc = "building" /\ task'[u].force = (u \in insist)
      BY <3>1 DEF TaskStarts
    <3>3. QED
      BY <2>4, <3>2 DEF CalmOK
  <2>6. ASSUME NEW u \in Running \ S PROVE CalmOK(u)'
    <3>1. TaskRests(u)
      BY <1>1, <2>3, <2>6, StartFields
    <3>2. QED
      BY <1>3, <2>4, <3>1
  <2>7. QED
    BY <1>4, <2>4, <2>5, <2>6
<1>8. ASSUME ReadingsRest
      PROVE  (\A k \in Kinds : Agrees(k))' /\ \A u \in Running' : CalmOK(u)'
  <2>1. /\ world' = world /\ active' = active /\ task' = task /\ calm
        /\ Running' = Running
    BY <1>8 DEF ReadingsRest, Running, Started
  <2>2. QED
    BY <1>3, <1>4, <2>1 DEF TaskRests
<1>9. ASSUME WorldChanges PROVE FALSE
  BY <1>1, <1>9, WorldOutcome
<1>10. QED
  BY <1>5, <1>6, <1>7, <1>8, <1>9, ReadingSteps

\* Of some things that are numbered one comes first.
LEMMA FirstOne ==
  ASSUME NEW S, S # {}, NEW f, \A x \in S : f[x] \in Nat
  PROVE  \E x \in S : \A y \in S : f[x] <= f[y]
<1>1. PICK T : T = {f[x] : x \in S}
  OBVIOUS
<1>2. T \subseteq Nat /\ T # {}
  BY <1>1
<1>3. PICK R : R = OpToRel(<, Nat)
  OBVIOUS
<1>4. R = {p \in Nat \X Nat : p[1] < p[2]}
  BY <1>3 DEF OpToRel
<1>5. IsWellFoundedOn(R, Nat)
  BY <1>3, NatLessThanWellFounded
<1>6. PICK m \in T : \A n \in T : <<n, m>> \notin R
  BY <1>2, <1>5, WFMin
<1>7. ASSUME NEW n \in T PROVE m <= n
  <2>1. m \in Nat /\ n \in Nat /\ <<n, m>> \notin R
    BY <1>2, <1>6
  <2>2. ~(n < m)
    BY <1>4, <2>1
  <2>3. QED
    BY <2>1, <2>2
<1>8. QED
  BY <1>1, <1>7

\* What is recommended on some signals: as many as are kept, each from the first
\* signal of its type, and what goes without one comes after them all.
LEMMA RecommendedIsRight ==
  ASSUME NEW S \in SUBSET Draft, S # {}, Distinct(S),
         \A d \in S : d.condition \in Conditions,
         NEW order \in Rankings, NEW D, D = Recommended(S, order)
  PROVE  /\ D \subseteq S /\ Cardinality(D) <= RecommendationLimit
         /\ \A d \in D, e \in S :
              SameType(d, e) /\ d # e => Before(order, d, e)
         /\ \A e \in S : (\A d \in D : ~SameType(d, e)) =>
              /\ Cardinality(D) = RecommendationLimit
              /\ \A d \in D : Before(order, d, e)
<1>1. PICK f : f = [d \in S |-> order[d.condition]]
  OBVIOUS
<1>2. PICK N \in Nat : N = Cardinality(Conditions)
  BY InsightsAssumption, FS_CardinalityType
<1>3. /\ order \in [Conditions -> 1..N] /\ IsInjective(order)
      /\ RecommendationLimit \in Nat \ {0}
  BY <1>2, InsightsAssumption DEF Rankings
<1>4. /\ \A d \in S : f[d] \in 1..N
      /\ \A d, e \in S : f[d] = f[e] => d = e
      /\ \A d, e \in S : Before(order, d, e) <=> f[d] < f[e]
  <2>1. \A d \in S : f[d] = order[d.condition] /\ f[d] \in 1..N
    BY <1>1, <1>3
  <2>2. ASSUME NEW d \in S, NEW e \in S, f[d] = f[e] PROVE d = e
    <3>1. d.condition = e.condition
      BY <1>3, <2>1, <2>2 DEF IsInjective
    <3>2. QED
      BY <3>1 DEF Distinct
  <2>3. QED
    BY <2>1, <2>2 DEF Before
<1>5. PICK L \in SUBSET S :
        L = {d \in S : \A e \in S : SameType(d, e) => ~(f[e] < f[d])}
  OBVIOUS
<1>6. L = Leading(S, order)
  BY <1>4, <1>5 DEF Leading
<1>7. D = {d \in L : Cardinality({x \in L : f[x] < f[d]}) < RecommendationLimit}
  <2>1. D = Foremost(L, order)
    BY <1>6 DEF Recommended
  <2>2. ASSUME NEW d \in L
        PROVE  {x \in L : Before(order, x, d)} = {x \in L : f[x] < f[d]}
    BY <1>4
  <2>3. QED
    BY <2>1, <2>2 DEF Foremost
<1>8. ASSUME NEW X \in SUBSET L, NEW Y \in SUBSET X
      PROVE  /\ IsFiniteSet(X) /\ Cardinality(X) \in Nat
             /\ Cardinality(Y) \in Nat /\ Cardinality(Y) <= Cardinality(X)
  <2>1. X \in SUBSET Draft /\ Y \in SUBSET Draft
    OBVIOUS
  <2>2. QED
    BY <2>1, DraftsAreFinite, FS_Subset
<1>9. D \subseteq L /\ D \subseteq S
  BY <1>7
<1>10. Cardinality(D) <= RecommendationLimit
  <2>1. CASE D = {}
    BY <1>3, <2>1, FS_EmptySet
  <2>2. CASE D # {}
    <3>1. PICK g : g = [d \in D |-> N - f[d]]
      OBVIOUS
    <3>2. \A d \in D : g[d] = N - f[d] /\ g[d] \in Nat /\ f[d] \in 1..N
      BY <1>4, <1>9, <3>1
    <3>3. PICK m \in D : \A d \in D : g[m] <= g[d]
      BY <2>2, <3>2, FirstOne
    <3>4. PICK B : B = {x \in L : f[x] < f[m]}
      OBVIOUS
    <3>5. D \ {m} \subseteq B
      <4>1. ASSUME NEW d \in D \ {m} PROVE f[d] < f[m]
        <5>1. f[d] <= f[m] /\ f[d] # f[m]
          BY <1>4, <1>9, <3>2, <3>3
        <5>2. QED
          BY <3>2, <5>1
      <4>2. QED
        BY <1>9, <3>4, <4>1
    <3>6. /\ Cardinality(D \ {m}) <= Cardinality(B)
          /\ Cardinality(D \ {m}) \in Nat /\ Cardinality(B) \in Nat
      BY <1>8, <3>4, <3>5
    <3>7. IsFiniteSet(D) /\ Cardinality(D) \in Nat
      BY <1>8, <1>9
    <3>8. Cardinality(D \ {m}) = Cardinality(D) - 1
      BY <3>7, FS_RemoveElement
    <3>9. Cardinality(B) < RecommendationLimit
      BY <1>7, <3>4
    <3>10. QED
      BY <1>3, <3>6, <3>7, <3>8, <3>9
  <2>3. QED
    BY <2>1, <2>2
<1>11. ASSUME NEW d \in D, NEW e \in S, SameType(d, e), d # e
       PROVE  Before(order, d, e)
  <2>1. ~(f[e] < f[d]) /\ f[d] # f[e] /\ f[d] \in 1..N /\ f[e] \in 1..N
    BY <1>4, <1>5, <1>9, <1>11
  <2>2. QED
    BY <1>4, <1>9, <2>1
<1>12. ASSUME NEW e \in S, \A d \in D : ~SameType(d, e)
       PROVE  /\ Cardinality(D) = RecommendationLimit
              /\ \A d \in D : Before(order, d, e)
  <2>1. PICK u \in L : SameType(u, e) /\ f[u] <= f[e]
    <3>1. PICK T : T = {x \in S : SameType(x, e)}
      OBVIOUS
    <3>2. e \in T /\ \A x \in T : f[x] \in Nat
      BY <1>4, <3>1 DEF SameType
    <3>3. PICK u \in T : \A x \in T : f[u] <= f[x]
      BY <3>2, FirstOne
    <3>4. ASSUME NEW x \in S, SameType(u, x) PROVE ~(f[x] < f[u])
      <4>1. x \in T
        BY <3>1, <3>4 DEF SameType
      <4>2. QED
        BY <3>2, <3>3, <4>1
    <3>5. u \in L
      BY <1>5, <3>1, <3>4
    <3>6. QED
      BY <3>1, <3>2, <3>3, <3>5
  <2>2. u \in L \ D
    BY <1>12, <2>1
  <2>3. RecommendationLimit <= Cardinality(D)
    <3>1. PICK v \in L \ D : \A x \in L \ D : f[v] <= f[x]
      <4>1. L \ D # {} /\ \A x \in L \ D : f[x] \in Nat
        BY <1>4, <2>2
      <4>2. QED
        BY <4>1, FirstOne
    <3>2. PICK B : B = {x \in L : f[x] < f[v]}
      OBVIOUS
    <3>3. B \subseteq D
      <4>1. ASSUME NEW x \in L, f[x] < f[v] PROVE x \in D
        BY <1>4, <3>1, <4>1
      <4>2. QED
        BY <3>2, <4>1
    <3>4. Cardinality(B) <= Cardinality(D) /\ Cardinality(B) \in Nat
          /\ Cardinality(D) \in Nat
      BY <1>8, <1>9, <3>3
    <3>5. ~(Cardinality(B) < RecommendationLimit)
      BY <1>7, <3>1, <3>2
    <3>6. QED
      BY <1>3, <3>4, <3>5
  <2>4. Cardinality(D) \in Nat
    BY <1>8, <1>9
  <2>5. ASSUME NEW d \in D PROVE Before(order, d, e)
    <3>1. f[d] \in 1..N /\ f[u] \in 1..N /\ f[e] \in 1..N /\ d \in L
      BY <1>4, <1>9
    <3>2. f[d] # f[u]
      BY <1>4, <1>9, <2>2
    <3>3. CASE f[u] < f[d]
      <4>1. PICK B, A : /\ B = {x \in L : f[x] < f[u]}
                        /\ A = {x \in L : f[x] < f[d]}
        OBVIOUS
      <4>2. B \subseteq A
        BY <1>4, <3>1, <3>3, <4>1
      <4>3. /\ Cardinality(B) <= Cardinality(A)
            /\ Cardinality(A) \in Nat /\ Cardinality(B) \in Nat
        BY <1>8, <4>1, <4>2
      <4>4. Cardinality(A) < RecommendationLimit
        BY <1>7, <4>1
      <4>5. Cardinality(B) < RecommendationLimit
        BY <1>3, <4>3, <4>4
      <4>6. u \in D
        BY <1>7, <2>2, <4>1, <4>5
      <4>7. QED
        BY <2>2, <4>6
    <3>4. CASE f[d] < f[u]
      <4>1. f[d] < f[e]
        BY <2>1, <3>1, <3>4
      <4>2. QED
        BY <1>4, <1>9, <4>1
    <3>5. QED
      BY <3>1, <3>2, <3>3, <3>4
  <2>6. QED
    BY <1>3, <1>10, <2>3, <2>4, <2>5
<1>13. QED
  BY <1>9, <1>10, <1>11, <1>12

\* What the three properties of signals and recommendations need.
InsightsInv ==
  ReviewOK /\ TaskShape /\ CopiesInv /\ ToldInv /\ AloneInv /\ CalmInv

\* It holds of the first state, ...
LEMMA InsightsInvInit == Init => InsightsInv
<1> SUFFICES ASSUME Init PROVE InsightsInv
  OBVIOUS
<1>1. ReviewOK /\ InsightsInit
  BY ReviewInitTypes DEF Init
<1>2. /\ task = [t \in Tasks |-> IdleTask] /\ active = [k \in Kinds |-> {}]
      /\ notes = [c \in Conditions |-> 0] /\ calm = FALSE /\ bundle = 0
  BY <1>1 DEF InsightsInit
<1>3. \A t \in Tasks : /\ task[t].pc = "idle" /\ task[t].kind = "signals"
                       /\ task[t].drafts = {} /\ ~task[t].alone
  BY <1>2 DEF IdleTask
<1>4. TaskShape /\ AloneInv /\ CalmInv
  BY <1>2, <1>3 DEF TaskShape, TaskOK, KeysDiffer, AloneInv, CalmInv
<1>5. ToldInv
  BY <1>2 DEF ToldInv, Kinds
<1>6. CopiesInv
  <2>1. Cardinality({}) = 0 /\ IsFiniteSet({})
    BY FS_EmptySet
  <2>2. Running = {} /\ \A k \in Kinds : active[k] = {} /\ Aimers(k) = {}
    BY <1>2, <1>3 DEF Running, Started, Aimers
  <2>3. ASSUME NEW k \in Kinds, NEW c PROVE CopiesFit(k, c)
    <3>1. Unseen(k, c, {}) = {}
      BY <2>2 DEF Unseen, Copies
    <3>2. QED
      BY <1>2, <2>1, <2>2, <3>1 DEF CopiesFit
  <2>4. ASSUME NEW c \in Conditions PROVE NotesFit(c)
    <3>1. Telling(c) = {} /\ notes[c] = 0
      BY <1>2, <1>3 DEF Telling
    <3>2. QED
      BY <1>2, <2>1, <3>1 DEF NotesFit
  <2>5. QED
    BY <1>2, <2>1, <2>2, <2>3, <2>4 DEF CopiesInv
<1>7. QED
  BY <1>1, <1>4, <1>5, <1>6 DEF InsightsInv

\* ... and every step keeps it.
LEMMA InsightsInvStep == InsightsInv /\ [Next]_vars => InsightsInv'
<1> SUFFICES ASSUME InsightsInv, [Next]_vars PROVE InsightsInv'
  OBVIOUS
<1>1. /\ ReviewOK /\ TaskShape /\ CopiesInv /\ ToldInv /\ AloneInv /\ CalmInv
  BY DEF InsightsInv
<1>2. ReviewOK'
  BY <1>1, ReviewStepTypes
<1>3. TaskShape' /\ ToldInv' /\ AloneInv' /\ CalmInv'
  BY <1>1, StepTaskShape, StepToldInv, StepAloneInv, StepCalmInv
<1>4. CopiesInv'
  <2>1. Cardinality(Running') <= bundle'
    BY <1>1, StepRunning DEF CopiesInv
  <2>2. \A k \in Kinds, c \in Conditions \cup {Rhythm} :
          IsFiniteSet(active'[k]) /\ CopiesFit(k, c)'
    BY <1>1, <2>1, StepCopies
  <2>3. \A c \in Conditions : NotesFit(c)'
    BY <1>1, <2>1, StepNotes
  <2>4. QED
    BY <2>1, <2>2, <2>3 DEF CopiesInv
<1>5. QED
  BY <1>2, <1>3, <1>4 DEF InsightsInv

\* InsightsAreSound: once a reading that nothing disturbs has ended, there is
\* one active signal for each thing the store shows, and of recommendations at
\* most RecommendationLimit, each from the first signal of its type, where what
\* goes without one comes after all that have one; no overlapping of readings
\* leaves more copies of a row or of its notification than there were readings
\* at a time; and no loud signal stays unnotified when all have ended.
THEOREM InsightsSound == Spec => []InsightsAreSound
<1>1. Init => InsightsInv
  BY InsightsInvInit
<1>2. InsightsInv /\ [Next]_vars => InsightsInv'
  BY InsightsInvStep
<1>3. InsightsInv => InsightsAreSound
  <2> SUFFICES ASSUME InsightsInv PROVE InsightsAreSound
    OBVIOUS
  <2>1. SetsSettle
    <3> SUFFICES ASSUME calm PROVE SignalsSettle /\ RecommendationsSettle
      BY DEF SetsSettle
    <3>1. Agrees("signals") /\ Agrees("recommendations")
      BY DEF InsightsInv, CalmInv, Kinds
    <3>2. SignalsSettle
      BY <3>1 DEF Agrees, Right, SignalsSettle
    <3>3. PICK D : D = Recommended(SignalsOf(world), world.order)
      OBVIOUS
    <3>4. PICK C :
            /\ C = {Content(row) : row \in active["recommendations"]} /\ C = D
            /\ Cardinality(active["recommendations"]) = Cardinality(C)
      BY <3>1, <3>3 DEF Agrees, Right
    <3>5. CASE SignalsOf(world) = {}
      <4>1. C = {[condition |-> Rhythm, version |-> Absent]}
        BY <3>3, <3>4, <3>5 DEF Recommended
      <4>2. QED
        BY <3>2, <3>4, <3>5, <4>1 DEF RecommendationsSettle
    <3>6. CASE SignalsOf(world) # {}
      <4>1. PICK S, order : S = SignalsOf(world) /\ order = world.order
        OBVIOUS
      <4>2. world \in World
        BY DEF InsightsInv, ReviewOK, ReadingsOK, InsightsTypeOK
      <4>3. /\ S \in SUBSET Draft /\ S # {} /\ Distinct(S)
            /\ \A d \in S : d.condition \in Conditions
        BY <3>6, <4>1, <4>2, DraftTypes, WorldIsDistinct DEF SignalsOf
      <4>4. order \in Rankings
        BY <4>1, <4>2 DEF World
      <4>5. D = Recommended(S, order)
        BY <3>3, <4>1
      <4>6. /\ C \subseteq S /\ Cardinality(C) <= RecommendationLimit
            /\ \A d \in C, e \in S :
                 SameType(d, e) /\ d # e => Before(order, d, e)
            /\ \A e \in S : (\A d \in C : ~SameType(d, e)) =>
                 /\ Cardinality(C) = RecommendationLimit
                 /\ \A d \in C : Before(order, d, e)
        BY <3>4, <4>3, <4>4, <4>5, RecommendedIsRight
      <4>7. QED
        BY <3>2, <3>4, <3>6, <4>1, <4>6 DEF RecommendationsSettle
    <3>7. QED
      BY <3>5, <3>6
  <2>2. CopiesAreBounded
    <3>1. InsightsTypeOK /\ CopiesInv /\ bundle \in Nat
      BY DEF InsightsInv, ReviewOK, ReadingsOK, InsightsTypeOK
    <3>2. ASSUME NEW k \in Kinds, NEW c \in Conditions \cup {Rhythm}
          PROVE  Cardinality(Copies(k, c)) <= bundle
      <4>1. Unseen(k, c, {}) = Copies(k, c)
        BY DEF Unseen
      <4>2. Cardinality({}) = 0 /\ Cardinality(Copies(k, c)) \in Nat
        <5>1. Copies(k, c) \in SUBSET active[k] /\ IsFiniteSet(active[k])
          BY <3>1 DEF Copies, CopiesInv
        <5>2. QED
          BY <5>1, FS_EmptySet, FS_Subset, FS_CardinalityType
      <4>3. Cardinality(Unseen(k, c, {})) + Cardinality({}) <= bundle
        BY <3>1 DEF CopiesInv, CopiesFit
      <4>4. QED
        BY <4>1, <4>2, <4>3
    <3>3. ASSUME NEW c \in Conditions PROVE notes[c] <= bundle
      <4>1. Telling(c) \subseteq Tasks
        BY DEF Telling
      <4>2. Cardinality(Telling(c)) \in Nat /\ notes[c] \in Nat
        BY <3>1, <4>1, FewReadings DEF InsightsTypeOK
      <4>3. QED
        BY <3>1, <4>2 DEF CopiesInv, NotesFit
    <3>4. QED
      BY <3>2, <3>3 DEF CopiesAreBounded
  <2>3. LoudIsTold
    <3>1. Running = {} => \A t \in Tasks : \A c : ~Tells(t, c)
      BY DEF Running, Started, Tells
    <3>2. QED
      BY <3>1 DEF InsightsInv, ToldInv, LoudIsTold
  <2>4. QED
    BY <2>1, <2>2, <2>3 DEF InsightsAreSound
<1>4. QED
  BY <1>1, <1>2, <1>3, PTL DEF Spec

==============================================================================
