------------------------------- MODULE Insights -------------------------------
(***************************************************************************)
(* The signals and the recommendations of an organization                  *)
(* (modules/intelligence/ai-signal.service.ts, ai-recommendation.service.ts*)
(* and ai-notification.service.ts).                                        *)
(*                                                                         *)
(* There is no job that computes them: reading them does.  A reader builds *)
(* drafts from what it finds in the store, compares their fingerprints with*)
(* those of the active rows and, when they differ or the reader insists,   *)
(* replaces the active rows in one transaction; then it notifies, and reads*)
(* back.  Recommendations are built from the signals so read: one of each  *)
(* type of recommendation that some signal calls for, ranked, and only the *)
(* first few kept.  Readers come in bundles: one request starts several at *)
(* once (Promise.all), and nothing keeps two of them apart.                *)
(*                                                                         *)
(* The transaction runs at the isolation PostgreSQL gives by default: the  *)
(* statement that takes the active rows down sees the rows that were       *)
(* committed when it began (Aim), and what it takes down and inserts shows *)
(* when the transaction commits (Replace).                                 *)
(***************************************************************************)
EXTENDS Naturals, Sequences, FiniteSets, FiniteSetsExt, SequencesExt

CONSTANTS
  Tasks,       \* the readings there will ever be
  Conditions,  \* what may be wrong in a store
  Loud,        \* the conditions whose signals are notified
  Versions,    \* the figures a condition may come with: its fingerprint
  RecommendationType,   \* the type of recommendation a condition calls for,
                        \* named by one of the conditions that call for it
  RecommendationLimit,  \* how many recommendations are kept (6 in the code)
  MaxRows,     \* the most rows of a kind there may ever be: a bound
  Settings     \* how the system may be run: see setting

Kinds == {"signals", "recommendations"}
Absent == 0
\* The recommendation there is when there is nothing to say.
Rhythm == "rhythm"
TaskPcs == {"idle", "building", "drafted", "judged", "aimed", "replaced",
            "telling", "done", "stopped"}

\* The ways to put the conditions in order.  One order says in which the
\* signals of one type of recommendation are listed and in which the types are
\* ranked; the code never compares a signal of one type with one of another
\* otherwise.
Rankings == {order \in [Conditions -> 1..Cardinality(Conditions)] :
               IsInjective(order)}
\* What a store may show: of each condition whether it holds and with which
\* figures, and the order severity, learned scores and trust put them in.
World == [shows : [Conditions -> Versions \cup {Absent}], order : Rankings]

ASSUME InsightsAssumption ==
  /\ Tasks # {} /\ IsFiniteSet(Tasks) /\ IsFiniteSet(Conditions)
  /\ Loud \subseteq Conditions /\ Rhythm \notin Conditions
  /\ Versions \subseteq Nat \ {Absent} /\ Versions # {}
  /\ IsFiniteSet(Versions) /\ MaxRows \in Nat
  /\ RecommendationType \in [Conditions -> Conditions]
  /\ RecommendationLimit \in Nat \ {0}
  /\ \A s \in Settings : /\ s.readers \in Nat /\ s.tasks \in Nat
                         /\ s.changes \in Nat /\ s.stops \in Nat
                         /\ s.forces \in BOOLEAN
                         /\ s.worlds \subseteq World
                         /\ s.orders \subseteq Rankings /\ s.orders # {}

VARIABLES
  world,    \* what the store shows, and the order it puts it in
  active,   \* the active AiSignal and AiRecommendation rows, by kind
  made,     \* how many rows of each kind have been made
  notes,    \* the notifications of each condition, within the window in which
            \* they are not repeated
  task,     \* the readings under way
  calm,     \* has a reading ended that nothing disturbed, and has nothing
            \* happened since that should change the rows
  bundle,   \* the most readings that have been under way at a time
  changes,  \* how often the store has changed
  stops,    \* how many handlers have ended between two statements
  setting   \* chosen once: what the store may show at first, and the orders
            \* there may be; how many readings there are of themselves at a
            \* time, and how many ever; whether they may insist; how often the
            \* store changes and how many handlers may end (bounds)

tables == <<active, made, notes>>
insightVars == <<world, active, made, notes, task, calm, bundle, changes,
                 stops, setting>>

Draft ==
  [condition : Conditions \cup {Rhythm}, version : Versions \cup {Absent}]
Row == [condition : Conditions \cup {Rhythm}, version : Versions \cup {Absent},
        id : 1..MaxRows]
Task ==
  [pc : TaskPcs, kind : Kinds, last : Kinds, force : BOOLEAN,
   alone : BOOLEAN, drafts : SUBSET Draft, seen : SUBSET Row,
   untold : Seq(Conditions)]

InsightsTypeOK ==
  /\ world \in World
  /\ active \in [Kinds -> SUBSET Row]
  /\ made \in [Kinds -> 0..MaxRows]
  /\ notes \in [Conditions -> Nat]
  /\ task \in [Tasks -> Task]
  /\ calm \in BOOLEAN
  /\ bundle \in Nat
  /\ changes \in 0..setting.changes
  /\ stops \in 0..setting.stops
  /\ setting \in Settings

Content(row) == [condition |-> row.condition, version |-> row.version]
\* Mutant: the numbers begin with the last one used.
RowsFromLast(drafts, used) ==
  LET number == CHOOSE f \in [drafts -> 0..Cardinality(drafts)-1] :
                  \A d, e \in drafts : f[d] = f[e] => d = e
  IN  {[condition |-> d.condition, version |-> d.version,
        id |-> used + number[d]] : d \in drafts}

\* A row for each draft, with ids that have not been used.
Rows(drafts, used) ==
  LET number == CHOOSE f \in [drafts -> 1..Cardinality(drafts)] :
                  \A d, e \in drafts : f[d] = f[e] => d = e
  IN  {[condition |-> d.condition, version |-> d.version,
        id |-> used + number[d]] : d \in drafts}

SignalsOf(w) ==
  {[condition |-> c, version |-> w.shows[c]] :
     c \in {k \in Conditions : w.shows[k] # Absent}}

Before(order, d, e) == order[d.condition] < order[e.condition]
SameType(d, e) ==
  RecommendationType[d.condition] = RecommendationType[e.condition]

\* signals.find: of each type of recommendation the first signal that calls for
\* it.
Leading(signals, order) ==
  {d \in signals : \A e \in signals : SameType(d, e) => ~Before(order, e, d)}
\* rankRecommendations and slice: the first RecommendationLimit drafts.
Foremost(drafts, order) ==
  {d \in drafts : Cardinality({e \in drafts : Before(order, e, d)})
                     < RecommendationLimit}
\* A recommendation bears the signal it is made from; without any there is the
\* one that says to go on as before.
Recommended(signals, order) ==
  IF signals = {} THEN {[condition |-> Rhythm, version |-> Absent]}
  ELSE Foremost(Leading(signals, order), order)

IdleTask == [pc |-> "idle", kind |-> "signals", last |-> "signals",
             force |-> FALSE, alone |-> FALSE, drafts |-> {}, seen |-> {},
             untold |-> <<>>]

\* An organization whose signals nobody has read, whatever its store shows.
InsightsInit ==
  /\ setting \in Settings
  /\ world \in setting.worlds
  /\ active = [k \in Kinds |-> {}]
  /\ made = [k \in Kinds |-> 0]
  /\ notes = [c \in Conditions |-> 0]
  /\ task = [t \in Tasks |-> IdleTask]
  /\ calm = FALSE
  /\ bundle = 0
  /\ changes = 0
  /\ stops = 0

Started(t) == task[t].pc \notin {"idle", "done", "stopped"}
Running == {t \in Tasks : Started(t)}
Idle == {t \in Tasks : task[t].pc = "idle"}

------------------------------------------------------------------------------
(* A reading                                                               *)

\* The readings S start, each to read up to the kind last says; insist are
\* those that insist on new rows of that kind.
Start(S, last, insist) ==
  LET all == Running \cup S
  IN  /\ S \subseteq Idle
      /\ task' = [t \in Tasks |->
                    IF t \in S
                    THEN [IdleTask EXCEPT !.pc = "building", !.last = last[t],
                                          !.force = t \in insist,
                                          !.alone = Cardinality(all) = 1]
                    ELSE [task[t] EXCEPT !.alone = @ /\ S = {}]]
      /\ bundle' = Max({bundle, Cardinality(all)})
      /\ calm' = (calm /\ insist = {})

Set(t, fields) == task' = [task EXCEPT ![t] = fields]
Goto(t, pc) == Set(t, [task[t] EXCEPT !.pc = pc])

\* buildSignalContext and buildSignals.
BuildSignals(t) ==
  /\ task[t].pc = "building"
  /\ Set(t, [task[t] EXCEPT !.pc = "drafted", !.drafts = SignalsOf(world)])
  /\ UNCHANGED <<world, tables, calm, bundle, changes, stops, setting>>

\* Which of two signals of one condition buildRecommendations finds is left
\* open.
Picks(signals) ==
  LET found == {Content(row).condition : row \in signals}
  IN  {S \in SUBSET {Content(row) : row \in signals} :
         /\ Cardinality(S) = Cardinality(found)
         /\ {d.condition : d \in S} = found}

\* The rows of a kind have been read: recommendations are built from signals,
\* and that is the end for the last kind.  In what order signals come that are
\* not those the store shows now is left open.
Continue(t, rows) ==
  IF task[t].kind # task[t].last
  THEN \E signals \in Picks(rows), order \in setting.orders :
         /\ signals = SignalsOf(world) => order = world.order
         /\ Set(t, [task[t] EXCEPT !.pc = "drafted", !.kind = "recommendations",
                                   !.drafts = Recommended(signals, order),
                                   !.seen = {}])
         /\ UNCHANGED calm
  ELSE /\ Set(t, [IdleTask EXCEPT !.pc = "done"])
       /\ calm' = (calm \/ (task[t].alone /\ task[t].last = "recommendations"))

\* Mutant: only what is missing is looked for.
SettledIfFound(t, rows) ==
  /\ ~(task[t].force /\ task[t].kind = task[t].last)
  /\ task[t].drafts \subseteq {Content(row) : row \in rows}

\* unchanged: as many active rows as drafts, and the same fingerprints.
Settled(t, rows) ==
  /\ ~(task[t].force /\ task[t].kind = task[t].last)
  /\ Cardinality(rows) = Cardinality(task[t].drafts)
  /\ {Content(row) : row \in rows} = task[t].drafts

\* The active rows are read and compared with the drafts.
Compare(t) ==
  /\ task[t].pc = "drafted"
  /\ LET rows == active[task[t].kind]
     IN  \/ Settled(t, rows) /\ Continue(t, rows)
         \/ ~Settled(t, rows) /\ Goto(t, "judged") /\ UNCHANGED calm
  /\ UNCHANGED <<world, tables, bundle, changes, stops, setting>>

\* The transaction begins to take down the active rows.
Aim(t) ==
  /\ task[t].pc = "judged"
  /\ Set(t, [task[t] EXCEPT !.pc = "aimed", !.seen = active[task[t].kind]])
  /\ UNCHANGED <<world, tables, calm, bundle, changes, stops, setting>>

\* What generateNotificationsForOrganization is to notify, in some order: the
\* loud signals.  A recommendation is never urgent enough.
ToNotify(kind, drafts) ==
  IF kind = "signals" THEN SetToSeq(Loud \cap {d.condition : d \in drafts})
  ELSE <<>>

\* It commits.
Replace(t) ==
  LET kind == task[t].kind
      drafts == task[t].drafts
  IN  /\ task[t].pc = "aimed"
      /\ made[kind] + Cardinality(drafts) <= MaxRows
      /\ active' = [active EXCEPT
                      ![kind] =
                        (@ \ task[t].seen) \cup Rows(drafts, made[kind])]
      /\ made' = [made EXCEPT ![kind] = @ + Cardinality(drafts)]
      /\ Set(t, [task[t] EXCEPT
                   !.pc = "replaced", !.seen = {},
                   !.untold = ToNotify(kind, drafts)])
      /\ UNCHANGED <<world, notes, calm, bundle, changes, stops, setting>>

\* createManyDeduped looks for a notification of the next loud draft, ...
LookForNote(t) ==
  /\ task[t].pc = "replaced" /\ task[t].untold # <<>>
  /\ IF notes[Head(task[t].untold)] > 0
     THEN Set(t, [task[t] EXCEPT !.untold = Tail(@)])
     ELSE Goto(t, "telling")
  /\ UNCHANGED <<world, tables, calm, bundle, changes, stops, setting>>

\* ... and makes one if it has found none.
Notify(t) ==
  /\ task[t].pc = "telling"
  /\ notes' = [notes EXCEPT ![Head(task[t].untold)] = @ + 1]
  /\ Set(t, [task[t] EXCEPT !.pc = "replaced", !.untold = Tail(@)])
  /\ UNCHANGED <<world, active, made, calm, bundle, changes, stops, setting>>

\* The active rows are read back.
ReadBack(t) ==
  /\ task[t].pc = "replaced" /\ task[t].untold = <<>>
  /\ Continue(t, active[task[t].kind])
  /\ UNCHANGED <<world, tables, bundle, changes, stops, setting>>

TaskStep(t) == \/ BuildSignals(t) \/ Compare(t) \/ Aim(t) \/ Replace(t)
               \/ LookForNote(t) \/ Notify(t) \/ ReadBack(t)

\* A statement throws, or the process stops: the transaction is undone.
StopTask(t) ==
  /\ Started(t) /\ stops < setting.stops
  /\ stops' = stops + 1
  /\ Set(t, [IdleTask EXCEPT !.pc = "stopped"])
  /\ UNCHANGED <<world, tables, calm, bundle, changes, setting>>

------------------------------------------------------------------------------

\* A reader of its own: listSignals, listRecommendations and all that read
\* them; refreshSignals and refreshRecommendations insist.
Read(t) ==
  /\ Cardinality(Running) < setting.readers
  /\ Cardinality(Tasks \ Idle) < setting.tasks
  /\ \E kind \in Kinds,
        insist \in {{}} \cup (IF setting.forces THEN {{t}} ELSE {}) :
       Start({t}, [x \in {t} |-> kind], insist)
  /\ UNCHANGED <<world, tables, changes, stops, setting>>

\* The store is synchronised, an order comes in, a day passes, something is
\* learned that changes the ranking: no reading under way counts as undisturbed.
WorldChanges ==
  /\ changes < setting.changes
  /\ changes' = changes + 1
  /\ \E c \in Conditions, v \in Versions \cup {Absent},
        order \in setting.orders :
       /\ <<v, order>> # <<world.shows[c], world.order>>
       /\ world' = [shows |-> [world.shows EXCEPT ![c] = v], order |-> order]
  /\ calm' = FALSE
  /\ task' = [t \in Tasks |-> [task[t] EXCEPT !.alone = FALSE]]
  /\ UNCHANGED <<tables, bundle, stops, setting>>

InsightsNext ==
  \/ \E t \in Tasks : Read(t) \/ TaskStep(t) \/ StopTask(t)
  \/ WorldChanges

------------------------------------------------------------------------------
(* Properties                                                              *)

\* The active rows come right without anybody repairing them: once a reading
\* that nothing disturbed has ended, whatever overlapping or unfinished readings
\* had left before, there is one active signal for each thing the store shows,
\* ...
SignalsSettle ==
  LET rows == active["signals"]
  IN  /\ Cardinality(rows) = Cardinality(SignalsOf(world))
      /\ {Content(row) : row \in rows} = SignalsOf(world)

\* ... and no recommendation is there twice: only the one to go on as before if
\* there is nothing wrong, otherwise at most RecommendationLimit, each from the
\* first signal of its type, and a thing goes without one of its type only if
\* so many come before it.
RecommendationsSettle ==
  LET shown == SignalsOf(world)
      rows == active["recommendations"]
      drafts == {Content(row) : row \in rows}
  IN  /\ Cardinality(rows) = Cardinality(drafts)
      /\ shown = {} => drafts = {[condition |-> Rhythm, version |-> Absent]}
      /\ shown # {} =>
           /\ drafts \subseteq shown
           /\ Cardinality(drafts) <= RecommendationLimit
           /\ \A d \in drafts, e \in shown :
                SameType(d, e) /\ d # e => Before(world.order, d, e)
           /\ \A e \in shown :
                (\A d \in drafts : ~SameType(d, e)) =>
                  /\ Cardinality(drafts) = RecommendationLimit
                  /\ \A d \in drafts : Before(world.order, d, e)

\* Readings that do not insist leave it so however they overlap.
SetsSettle == calm => SignalsSettle /\ RecommendationsSettle

\* What two rows of a kind are copies by: its dedupe key.
Key(kind, condition) ==
  IF kind = "recommendations" /\ condition # Rhythm
  THEN RecommendationType[condition] ELSE condition
Copies(kind, key) == {row \in active[kind] : Key(kind, row.condition) = key}

\* Overlapping readings may leave a signal or a type of recommendation twice,
\* and notify a signal twice, but never more often than there were readings at a
\* time.
CopiesAreBounded ==
  /\ \A k \in Kinds, c \in Conditions \cup {Rhythm} :
       Cardinality(Copies(k, c)) <= bundle
  /\ \A c \in Conditions : notes[c] <= bundle

\* Whoever replaces the signals notifies the loud ones or has found them
\* notified: when all have ended, and none before its time, every loud signal
\* that is active has been.
LoudIsTold ==
  stops = 0 /\ Running = {} =>
    \A row \in active["signals"] :
      row.condition \in Loud => notes[row.condition] > 0

InsightsAreSound == SetsSettle /\ CopiesAreBounded /\ LoudIsTold
==============================================================================
