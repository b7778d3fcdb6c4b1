--------------------------- MODULE ShopifySyncProofs ---------------------------
(***************************************************************************)
(* Theorems about ShopifySync for any store, any number of syncs and of    *)
(* webhooks, any length of a page, and faults and stops anywhere.          *)
(***************************************************************************)
EXTENDS ShopifySync, FiniteSetTheorems, TLAPS

(***************************************************************************)
(* Type correctness                                                        *)
(***************************************************************************)

\* The store has its records, nothing has been asked for, the types hold.
LEMMA InitTypeOK == Init => TypeOK
  BY SyncAssumption
  DEF Init, TypeOK, Resources, Pcs, Steps, HookSteps, RunStatus

\* What a request is at, the resources it is at, what a step reads.
LEMMA Parts ==
  ASSUME TypeOK, NEW c \in Syncs
  PROVE  /\ call[c] \in [pc : Pcs, type : Resources \cup {"all"},
                         incremental : BOOLEAN, since : SUBSET Records,
                         first : BOOLEAN]
         /\ runs[c] \in RunStatus
         /\ step[c] \in [Resources -> Steps]
         /\ page[c] \in SUBSET Contents
  BY DEF TypeOK

\* Going on keeps the types and everything but where the request is.
LEMMA GotoKeeps ==
  ASSUME TypeOK, NEW c \in Syncs, NEW pc \in Pcs, Goto(c, pc)
  PROVE  /\ call' \in [Syncs -> [pc : Pcs, type : Resources \cup {"all"},
                                 incremental : BOOLEAN, since : SUBSET Records,
                                 first : BOOLEAN]]
         /\ call'[c].pc = pc
         /\ call'[c].first = call[c].first
         /\ call'[c].type = call[c].type
         /\ call'[c].since = call[c].since
         /\ \A d \in Syncs \ {c} : call'[d] = call[d]
  BY DEF Goto, TypeOK

\* A webhook that goes on keeps the types.
LEMMA HookType ==
  ASSUME TypeOK, NEW r \in Records, NEW v \in 1..Versions, NEW to \in HookSteps,
         SetHook(<<r, v>>, to)
  PROVE  hook' \in [Contents -> HookSteps]
  BY DEF SetHook, TypeOK, Contents

\* A resource that goes on keeps the types.
LEMMA StepType ==
  ASSUME TypeOK, NEW c \in Syncs, NEW res \in Resources, NEW to \in Steps,
         step' = [step EXCEPT ![c][res] = to]
  PROVE  /\ step' \in [Syncs -> [Resources -> Steps]]
         /\ step'[c][res] = to
         /\ \A q \in Resources \ {res} : step'[c][q] = step[c][q]
         /\ \A d \in Syncs \ {c} : step'[d] = step[d]
  BY DEF TypeOK

\* Every step of the specification preserves the types.
LEMMA StepTypeOK == TypeOK /\ [Next]_vars => TypeOK'
<1> SUFFICES ASSUME TypeOK, [Next]_vars PROVE TypeOK'
  OBVIOUS
<1> USE DEF TypeOK
<1>1. ASSUME NEW r \in Records, Edit(r) PROVE TypeOK'
  <2>1. shop' \in [Records -> 1..Versions] /\ shop'[r] \in 1..Versions
    BY <1>1, SyncAssumption DEF Edit
  <2>2. <<r, shop'[r]>> \in Contents
    BY <2>1 DEF Contents
  <2>3. hook' \in [Contents -> HookSteps]
    BY <1>1, <2>2 DEF Edit, HookSteps
  <2>4. \A c \in Syncs : [call[c] EXCEPT !.since = @ \cup {r}]
          \in [pc : Pcs, type : Resources \cup {"all"}, incremental : BOOLEAN,
               since : SUBSET Records, first : BOOLEAN]
    OBVIOUS
  <2>5. call' \in [Syncs -> [pc : Pcs, type : Resources \cup {"all"},
                             incremental : BOOLEAN, since : SUBSET Records,
                             first : BOOLEAN]]
    BY <1>1, <2>4 DEF Edit
  <2>6. QED
    BY <1>1, <2>1, <2>3, <2>5 DEF Edit
<1>2. ASSUME NEW c \in Syncs, NEW type \in Resources \cup {"all"},
             NEW incremental \in BOOLEAN, Connect(c, type, incremental)
      PROVE  TypeOK'
  BY <1>2 DEF Connect, Pcs
<1>3. ASSUME NEW c \in Syncs, CreateRun(c) PROVE TypeOK'
  <2>1. Plan(call[c].type) \in [Resources -> Steps]
    BY DEF Plan, Steps, Live
  <2>2. QED
    BY <1>3, <2>1, GotoKeeps DEF CreateRun, RunStatus, Pcs
<1>4. ASSUME NEW c \in Syncs, NEW res \in Resources, Fetch(c, res)
      PROVE  TypeOK'
  <2>1. PICK rs \in Pages(OfKind(res) \cap call[c].since) :
          page' = [page EXCEPT ![c] = @ \cup {<<r, shop[r]>> : r \in rs}]
    BY <1>4 DEF Fetch
  <2>2. rs \subseteq Records
    <3>1. rs \subseteq OfKind(res) \cap call[c].since
      BY DEF Pages, kSubset
    <3>2. call[c].since \subseteq Records
      OBVIOUS
    <3>3. QED
      BY <3>1, <3>2
  <2>3. {<<r, shop[r]>> : r \in rs} \subseteq Contents
    BY <2>2 DEF Contents
  <2>4. page' \in [Syncs -> SUBSET Contents]
    BY <2>1, <2>3
  <2>5. step' \in [Syncs -> [Resources -> Steps]]
    BY <1>4, StepType DEF Fetch, Steps, Live
  <2>6. QED
    BY <1>4, <2>4, <2>5 DEF Fetch
<1>5. ASSUME NEW c \in Syncs, NEW w \in page[c], Store(c, w[1], w[2])
      PROVE  TypeOK'
  <2>1. w[1] \in Records /\ w[2] \in 1..Versions
    BY DEF Contents
  <2>2. w[2] \in 0..Versions
    BY <2>1, SyncAssumption
  <2>3. QED
    BY <1>5, <2>1, <2>2 DEF Store
<1>6. ASSUME NEW c \in Syncs, NEW res \in Resources, MoveCursor(c, res)
      PROVE  TypeOK'
  <2> DEFINE on == [q \in Resources |-> CASE q = res -> "synced"
                                   [] step[c][q] = "waiting" -> "fetch"
                                   [] OTHER -> step[c][q]]
  <2>1. on \in [Resources -> Steps]
    <3>1. step[c] \in [Resources -> Steps]
      OBVIOUS
    <3>2. "synced" \in Steps /\ "fetch" \in Steps
      BY DEF Steps, Live
    <3>3. \A q \in Resources :
            (CASE q = res -> "synced"
               [] step[c][q] = "waiting" -> "fetch"
               [] OTHER -> step[c][q]) \in Steps
      BY <3>1, <3>2
    <3>4. QED
      BY <3>3
  <2>2. step' = [step EXCEPT ![c] = on]
    BY <1>6 DEF MoveCursor
  <2> HIDE DEF on
  <2>3. step' \in [Syncs -> [Resources -> Steps]]
    BY <2>1, <2>2
  <2>4. changed' \subseteq Records
    BY <1>6 DEF MoveCursor
  <2>5. QED
    BY <1>6, <2>3, <2>4 DEF MoveCursor
<1>7. ASSUME NEW c \in Syncs, Close(c) PROVE TypeOK'
  <2>1. Outcome(c) \in RunStatus
    BY DEF Outcome, RunStatus
  <2>2. \E pc \in Pcs : Goto(c, pc)
    BY <1>7 DEF Close, Pcs
  <2>3. QED
    BY <1>7, <2>1, <2>2, GotoKeeps DEF Close
<1>8. ASSUME NEW c \in Syncs, Count(c) PROVE TypeOK'
  <2>1. PICK only \in BOOLEAN :
          call' = [call EXCEPT ![c].pc = "notifying", ![c].first = only]
    BY <1>8 DEF Count
  <2>2. [call[c] EXCEPT !.pc = "notifying", !.first = only]
          \in [pc : Pcs, type : Resources \cup {"all"}, incremental : BOOLEAN,
               since : SUBSET Records, first : BOOLEAN]
    BY DEF Pcs
  <2>3. call' = [call EXCEPT ![c] =
                   [call[c] EXCEPT !.pc = "notifying", !.first = only]]
    BY <2>1
  <2>4. QED
    BY <1>8, <2>2, <2>3 DEF Count
<1>9. ASSUME NEW c \in Syncs, notifySyncCompleted(c) \/ notifySyncFailed(c)
      PROVE  TypeOK'
  BY <1>9, GotoKeeps DEF notifySyncCompleted, notifySyncFailed, Pcs
<1>10. ASSUME NEW c \in Syncs, MarkFailed(c) PROVE TypeOK'
  <2>1. \E pc \in Pcs : Goto(c, pc)
    BY <1>10 DEF MarkFailed, Pcs
  <2>2. QED
    BY <1>10, <2>1, GotoKeeps DEF MarkFailed, RunStatus
<1>11. ASSUME NEW c \in Syncs, Throw(c) PROVE TypeOK'
  <2>1. \E pc \in Pcs : Goto(c, pc)
    BY <1>11 DEF Throw, Pcs
  <2>2. QED
    BY <1>11, <2>1, GotoKeeps DEF Throw
<1>12. ASSUME NEW c \in Syncs, NEW res \in Resources, Blocked(c, res)
       PROVE  TypeOK'
  <2>1. step' \in [Syncs -> [Resources -> Steps]]
    BY <1>12, StepType DEF Blocked, Steps
  <2>2. QED
    BY <1>12, <2>1, GotoKeeps DEF Blocked, Pcs
<1>13. ASSUME NEW c \in Syncs, NEW res \in Resources, ThrowInResource(c, res)
       PROVE  TypeOK'
  <2>1. step' \in [Syncs -> [Resources -> Steps]]
    BY <1>13, StepType DEF ThrowInResource, Steps
  <2>2. page' \in [Syncs -> SUBSET Contents]
    BY <1>13 DEF ThrowInResource
  <2>3. QED
    BY <1>13, <2>1, <2>2, GotoKeeps DEF ThrowInResource, Pcs
<1>14. ASSUME NEW r \in Records, NEW v \in 1..Versions,
              HookStep(r, v) \/ FailHook(r, v) \/ Redeliver(r, v)
       PROVE  TypeOK'
  <2>1. hook' \in [Contents -> HookSteps]
    BY <1>14, HookType
    DEF HookStep, Receive, StoreHook, MoveHook, Acknowledge, FailHook,
        Redeliver, HookSteps
  <2>2. v \in 0..Versions
    BY SyncAssumption
  <2>3. QED
    BY <1>14, <2>1, <2>2
    DEF HookStep, Receive, StoreHook, MoveHook, Acknowledge, FailHook,
        Redeliver
<1>15. CASE Uninstall
  BY <1>15 DEF Uninstall
<1>16. CASE Crash
  <2>1. \A c \in Syncs : [call[c] EXCEPT !.pc = "done"]
          \in [pc : Pcs, type : Resources \cup {"all"}, incremental : BOOLEAN,
               since : SUBSET Records, first : BOOLEAN]
    BY DEF Pcs
  <2>2. call' \in [Syncs -> [pc : Pcs, type : Resources \cup {"all"},
                             incremental : BOOLEAN, since : SUBSET Records,
                             first : BOOLEAN]]
    BY <1>16, <2>1 DEF Crash
  <2>3. hook' \in [Contents -> HookSteps]
    BY <1>16 DEF Crash, HookSteps
  <2>4. step' \in [Syncs -> [Resources -> Steps]]
    BY <1>16 DEF Crash, Steps
  <2>5. QED
    BY <1>16, <2>2, <2>3, <2>4 DEF Crash
<1>17. CASE UNCHANGED vars
  BY <1>17 DEF vars
<1> HIDE DEF TypeOK
<1>18. QED
  BY <1>1, <1>2, <1>3, <1>4, <1>5, <1>6, <1>7, <1>8, <1>9, <1>10, <1>11,
     <1>12, <1>13, <1>14, <1>15, <1>16, <1>17 DEF Next, SyncStep, Setback

\* The rows, the pages and the local states always have their types.
THEOREM TypeCorrect == Spec => []TypeOK
  BY InitTypeOK, StepTypeOK, PTL DEF Spec

(***************************************************************************)
(* What the row of a run says.  CallInv is what a request knows of its own *)
(* row, resources and page; no other request writes any of them.  Two      *)
(* requests meet only where they count the runs, and there OneAnnounces is *)
(* what keeps them apart.                                                  *)
(***************************************************************************)

Success == {"SUCCEEDED", "PARTIAL_SUCCESS"}

\* A request that is answered, or begun, has no run that is still open.
ClosedInv(c) ==
  setting.faults \cap {"working", "failing"} = {} =>
    (At(c, "done") =>
       /\ runs[c] # "RUNNING"
       /\ runs[c] # "FAILED" =>
            \A res \in Resources : step[c][res] \notin Live)

CallInv(c) ==
  /\ At(c, "idle") \/ At(c, "creating") =>
       /\ runs[c] = "NONE" /\ page[c] = {}
       /\ \A res \in Resources : step[c][res] = "idle"
  /\ \A w \in page[c] : step[c][Kind(w[1])] = "store"
  /\ runs[c] \in Success =>
       \A res \in Resources : step[c][res] \in
         {"idle", "synced"} \cup
           IF runs[c] = "SUCCEEDED" THEN {} ELSE {"blocked"}
  /\ At(c, "counting") \/ At(c, "notifying") => runs[c] \in Success
  /\ At(c, "alarming") => runs[c] = "FAILED"
  /\ <<c, "first">> \in told => At(c, "done") /\ runs[c] \in Success
  /\ ClosedInv(c)

\* The request has told, or is about to tell, that it was the first.
Announces(c) ==
  <<c, "first">> \in told \/ (At(c, "notifying") /\ call[c].first)

OneAnnounces == \A c, d \in Syncs : Announces(c) /\ Announces(d) => c = d

RunInv == (\A c \in Syncs : CallInv(c)) /\ OneAnnounces

\* Nothing of the request has changed.
Same(c) ==
  /\ call'[c].pc = call[c].pc /\ call'[c].first = call[c].first
  /\ runs'[c] = runs[c] /\ step'[c] = step[c] /\ page'[c] = page[c]
  /\ <<c, "first">> \in told' <=> <<c, "first">> \in told

\* What a request knows stays true while nothing of it changes.
LEMMA SameKeeps ==
  ASSUME NEW c \in Syncs, Same(c), setting' = setting
  PROVE  /\ CallInv(c) => CallInv(c)'
         /\ Announces(c)' <=> Announces(c)
  BY DEF Same, CallInv, ClosedInv, Announces, At

\* The records of a page are of one of the resources.
LEMMA PageKinds ==
  ASSUME TypeOK, NEW c \in Syncs, NEW w \in page[c]
  PROVE  w[1] \in Records /\ Kind(w[1]) \in Resources
  BY SyncAssumption DEF TypeOK, Contents, Kind

\* A request whose resources have ended, or whose run is a success, has
\* written all it had.
LEMMA NothingLive ==
  ASSUME TypeOK, NEW c \in Syncs, CallInv(c), Ended(c) \/ runs[c] \in Success
  PROVE  page[c] = {} /\ \A res \in Resources : step[c][res] \notin Live
<1>1. \A res \in Resources : step[c][res] \in {"idle", "synced", "blocked"}
  BY DEF CallInv, Ended
<1>2. \A w \in page[c] : step[c][Kind(w[1])] = "store"
  BY DEF CallInv
<1>3. QED
  BY <1>1, <1>2, PageKinds DEF Live

\* RunInv is kept by a step of one request when the others are left alone, the
\* request keeps what it knows, and does not become another one to announce.
LEMMA OneMoves ==
  ASSUME RunInv, setting' = setting, NEW c \in Syncs, CallInv(c)',
         \A d \in Syncs \ {c} : Same(d),
         Announces(c)' =>
           Announces(c) \/ \A d \in Syncs \ {c} : ~Announces(d)
  PROVE  RunInv'
<1>1. \A d \in Syncs \ {c} : CallInv(d)' /\ (Announces(d)' <=> Announces(d))
  BY SameKeeps DEF RunInv
<1>2. \A d \in Syncs : CallInv(d)'
  BY <1>1
<1>3. OneAnnounces'
  <2> SUFFICES ASSUME NEW d \in Syncs, NEW e \in Syncs,
                      Announces(d)', Announces(e)'
               PROVE  d = e
    BY DEF OneAnnounces
  <2>1. CASE d = c
    BY <1>1, <2>1 DEF RunInv, OneAnnounces
  <2>2. CASE e = c
    BY <1>1, <2>2 DEF RunInv, OneAnnounces
  <2>3. CASE d # c /\ e # c
    BY <1>1, <2>3 DEF RunInv, OneAnnounces
  <2>4. QED
    BY <2>1, <2>2, <2>3
<1>4. QED
  BY <1>2, <1>3 DEF RunInv

\* The steps of a sync keep RunInv.
LEMMA SyncKeepsRunInv ==
  ASSUME TypeOK, RunInv, NEW c \in Syncs, SyncStep(c)
  PROVE  RunInv'
<1>0. /\ setting' = setting
      /\ CallInv(c)
      /\ call \in [Syncs -> [pc : Pcs, type : Resources \cup {"all"},
                             incremental : BOOLEAN, since : SUBSET Records,
                             first : BOOLEAN]]
      /\ runs \in [Syncs -> RunStatus]
      /\ step \in [Syncs -> [Resources -> Steps]]
      /\ page \in [Syncs -> SUBSET Contents]
  BY DEF SyncStep, CreateRun, Fetch, MoveCursor, Store, Close, Count,
         notifySyncCompleted, MarkFailed, notifySyncFailed, RunInv, TypeOK
<1>1. CASE CreateRun(c)
  <2>1. /\ call'[c].pc = "working"
        /\ \A d \in Syncs \ {c} : call'[d] = call[d]
    BY <1>1, GotoKeeps DEF CreateRun, Pcs
  <2>2. /\ runs'[c] = "RUNNING" /\ page'[c] = {}
        /\ UNCHANGED <<page, told>>
        /\ \A d \in Syncs \ {c} : runs'[d] = runs[d] /\ step'[d] = step[d]
    BY <1>0, <1>1 DEF CreateRun, CallInv
  <2>3. <<c, "first">> \notin told
    BY <1>0, <1>1 DEF CreateRun, CallInv, At
  <2>4. CallInv(c)'
    BY <2>1, <2>2, <2>3 DEF CallInv, ClosedInv, At, Success
  <2>5. ~Announces(c)'
    BY <2>1, <2>2, <2>3 DEF Announces, At
  <2>6. QED
    BY <1>0, <2>1, <2>2, <2>4, <2>5, OneMoves DEF Same
<1>2. ASSUME NEW res \in Resources, Fetch(c, res)
      PROVE  RunInv'
  <2>1. PICK rs \in Pages(OfKind(res) \cap call[c].since) :
          page' = [page EXCEPT ![c] = @ \cup {<<r, shop[r]>> : r \in rs}]
    BY <1>2 DEF Fetch
  <2>2. \A r \in rs : Kind(r) = res
    BY DEF Pages, kSubset, OfKind
  <2>3. /\ step'[c][res] = "store"
        /\ \A q \in Resources \ {res} : step'[c][q] = step[c][q]
        /\ \A d \in Syncs \ {c} : step'[d] = step[d]
    BY <1>2, StepType DEF Fetch, Steps, Live
  <2>4. /\ UNCHANGED <<call, runs, told>>
        /\ step[c][res] = "fetch"
        /\ \A d \in Syncs \ {c} : page'[d] = page[d]
    BY <1>0, <1>2, <2>1 DEF Fetch
  <2>5. \A w \in page'[c] : step'[c][Kind(w[1])] = "store"
    <3> SUFFICES ASSUME NEW w \in page'[c]
                 PROVE  step'[c][Kind(w[1])] = "store"
      OBVIOUS
    <3>1. CASE w \in page[c]
      BY <1>0, <2>3, <3>1, PageKinds DEF CallInv
    <3>2. CASE w \in {<<r, shop[r]>> : r \in rs}
      BY <2>2, <2>3, <3>2
    <3>3. QED
      BY <1>0, <2>1, <3>1, <3>2
  <2>6. ~At(c, "idle") /\ ~At(c, "creating") /\ runs[c] \notin Success
    BY <1>0, <2>4 DEF CallInv
  <2>7. ClosedInv(c)'
    BY <1>0, <2>3, <2>4 DEF CallInv, ClosedInv, At, Live
  <2>8. CallInv(c)'
    BY <1>0, <2>4, <2>5, <2>6, <2>7 DEF CallInv, At
  <2>9. QED
    BY <1>0, <2>3, <2>4, <2>8, OneMoves DEF Same, Announces, At
<1>3. ASSUME NEW w \in page[c], Store(c, w[1], w[2])
      PROVE  RunInv'
  <2>1. /\ UNCHANGED <<call, runs, told, step>>
        /\ page'[c] \subseteq page[c]
        /\ \A d \in Syncs \ {c} : page'[d] = page[d]
    BY <1>0, <1>3 DEF Store
  <2>2. CallInv(c)'
    BY <1>0, <2>1 DEF CallInv, ClosedInv, At
  <2>3. QED
    BY <1>0, <2>1, <2>2, OneMoves DEF Same, Announces, At
<1>4. ASSUME NEW res \in Resources, MoveCursor(c, res)
      PROVE  RunInv'
  <2>1. /\ UNCHANGED <<call, runs, told, page>>
        /\ step[c][res] = "store"
        /\ \A w \in page[c] : Kind(w[1]) # res
        /\ \A d \in Syncs \ {c} : step'[d] = step[d]
    BY <1>0, <1>4 DEF MoveCursor, PageWritten
  <2>2. \A q \in Resources \ {res} :
          step[c][q] = "store" => step'[c][q] = "store"
    BY <1>0, <1>4 DEF MoveCursor
  <2>3. \A w \in page[c] : step'[c][Kind(w[1])] = "store"
    BY <1>0, <2>1, <2>2, PageKinds DEF CallInv
  <2>4. ~At(c, "idle") /\ ~At(c, "creating") /\ runs[c] \notin Success
    BY <1>0, <2>1 DEF CallInv
  <2>5. ClosedInv(c)'
    BY <1>0, <2>1 DEF CallInv, ClosedInv, At, Live
  <2>6. CallInv(c)'
    BY <1>0, <2>1, <2>3, <2>4, <2>5 DEF CallInv, At
  <2>7. QED
    BY <1>0, <2>1, <2>6, OneMoves DEF Same, Announces, At
<1>5. CASE Close(c)
  <2>1. /\ call'[c].pc \in {"done", "counting"}
        /\ \A d \in Syncs \ {c} : call'[d] = call[d]
    BY <1>5, GotoKeeps DEF Close, Pcs
  <2>2. /\ UNCHANGED <<told, step, page>>
        /\ runs'[c] = Outcome(c)
        /\ \A d \in Syncs \ {c} : runs'[d] = runs[d]
    BY <1>0, <1>5 DEF Close
  <2>3. /\ page[c] = {} /\ \A res \in Resources : step[c][res] \notin Live
        /\ \A res \in Resources :
             step[c][res] \in {"idle", "synced", "blocked"}
    BY <1>0, <1>5, NothingLive DEF Close, Ended
  <2>4. /\ Outcome(c) \in Success
        /\ Outcome(c) = "SUCCEEDED" =>
             \A res \in Resources : step[c][res] # "blocked"
    BY DEF Outcome, Success
  <2>5. <<c, "first">> \notin told
    BY <1>0, <1>5 DEF Close, CallInv, At
  <2>6. CallInv(c)'
    <3>1. \A res \in Resources : step'[c][res] \in
            {"idle", "synced"} \cup
              IF runs'[c] = "SUCCEEDED" THEN {} ELSE {"blocked"}
      BY <2>2, <2>3, <2>4
    <3>2. ClosedInv(c)'
      BY <2>2, <2>3, <2>4 DEF ClosedInv, Success
    <3>3. QED
      BY <2>1, <2>2, <2>3, <2>4, <2>5, <3>1, <3>2 DEF CallInv, At
  <2>7. ~Announces(c)'
    BY <2>1, <2>2, <2>5 DEF Announces, At
  <2>8. QED
    BY <1>0, <2>1, <2>2, <2>6, <2>7, OneMoves DEF Same
<1>6. CASE Count(c)
  <2>1. /\ call'[c].pc = "notifying"
        /\ call'[c].first = (Cardinality(Successes) = 1)
        /\ \A d \in Syncs \ {c} : call'[d] = call[d]
        /\ UNCHANGED <<runs, told, step, page>>
    BY <1>0, <1>6 DEF Count
  <2>2. runs[c] \in Success /\ <<c, "first">> \notin told
    BY <1>0, <1>6 DEF Count, CallInv, At
  <2>3. CallInv(c)'
    BY <1>0, <2>1, <2>2 DEF CallInv, ClosedInv, At
  <2>4. Announces(c)' => \A d \in Syncs \ {c} : ~Announces(d)
    <3> SUFFICES ASSUME Cardinality(Successes) = 1,
                        NEW d \in Syncs \ {c}, Announces(d)
                 PROVE  FALSE
      BY <2>1, <2>2 DEF Announces, At
    <3>1. runs[d] \in Success
      <4>1. CallInv(d)
        BY DEF RunInv
      <4>2. QED
        BY <4>1 DEF CallInv, Announces
    <3>2. {c, d} \subseteq Successes
      BY <2>2, <3>1 DEF Successes, Success
    <3>3. IsFiniteSet(Successes)
      BY SyncAssumption, FS_Subset DEF Successes
    <3>4. Cardinality({c, d}) <= Cardinality(Successes)
      BY <3>2, <3>3, FS_Subset
    <3>5. Cardinality({c}) = 1 /\ IsFiniteSet({c})
      BY FS_Singleton
    <3>6. Cardinality({c} \cup {d}) = 2
      BY <3>5, FS_AddElement
    <3>7. {c} \cup {d} = {c, d}
      OBVIOUS
    <3>8. QED
      BY <3>4, <3>6, <3>7
  <2>5. QED
    BY <1>0, <2>1, <2>3, <2>4, OneMoves DEF Same
<1>7. CASE notifySyncCompleted(c)
  <2>1. /\ call'[c].pc = "done"
        /\ \A d \in Syncs \ {c} : call'[d] = call[d]
        /\ call[c].pc = "notifying"
    BY <1>7, GotoKeeps DEF notifySyncCompleted, Pcs, At
  <2>2. /\ UNCHANGED <<runs, step, page>>
        /\ \A d \in Syncs \ {c} :
             <<d, "first">> \in told' <=> <<d, "first">> \in told
        /\ <<c, "first">> \in told' =>
             <<c, "first">> \in told \/ call[c].first
    BY <1>0, <1>7 DEF notifySyncCompleted
  <2>3. runs[c] \in Success
    BY <1>0, <2>1 DEF CallInv, At
  <2>4. ClosedInv(c)'
    BY <1>0, <2>2, <2>3, NothingLive DEF ClosedInv, Success
  <2>5. CallInv(c)'
    BY <1>0, <2>1, <2>2, <2>3, <2>4 DEF CallInv, At
  <2>6. Announces(c)' => Announces(c)
    BY <2>1, <2>2 DEF Announces, At
  <2>7. QED
    BY <1>0, <2>1, <2>2, <2>5, <2>6, OneMoves DEF Same
<1>8. CASE MarkFailed(c)
  <2>1. /\ call'[c].pc \in {"done", "alarming"}
        /\ \A d \in Syncs \ {c} : call'[d] = call[d]
        /\ call[c].pc = "failing"
    BY <1>8, GotoKeeps DEF MarkFailed, Pcs, At
  <2>2. /\ UNCHANGED <<told, step, page>>
        /\ runs'[c] = "FAILED"
        /\ \A d \in Syncs \ {c} : runs'[d] = runs[d]
    BY <1>0, <1>8 DEF MarkFailed
  <2>3. <<c, "first">> \notin told
    BY <1>0, <2>1 DEF CallInv, At
  <2>4. CallInv(c)'
    BY <1>0, <2>1, <2>2, <2>3 DEF CallInv, ClosedInv, At, Success
  <2>5. ~Announces(c)'
    BY <2>1, <2>2, <2>3 DEF Announces, At
  <2>6. QED
    BY <1>0, <2>1, <2>2, <2>4, <2>5, OneMoves DEF Same
<1>9. CASE notifySyncFailed(c)
  <2>1. /\ call'[c].pc = "done"
        /\ \A d \in Syncs \ {c} : call'[d] = call[d]
        /\ call[c].pc = "alarming"
    BY <1>9, GotoKeeps DEF notifySyncFailed, Pcs, At
  <2>2. /\ UNCHANGED <<runs, step, page>>
        /\ \A d \in Syncs : <<d, "first">> \in told' <=> <<d, "first">> \in told
    BY <1>9 DEF notifySyncFailed
  <2>3. runs[c] = "FAILED" /\ <<c, "first">> \notin told
    BY <1>0, <2>1 DEF CallInv, At
  <2>4. CallInv(c)'
    BY <1>0, <2>1, <2>2, <2>3 DEF CallInv, ClosedInv, At, Success
  <2>5. ~Announces(c)'
    BY <2>1, <2>2, <2>3 DEF Announces, At
  <2>6. QED
    BY <1>0, <2>1, <2>2, <2>4, <2>5, OneMoves DEF Same
<1>10. QED
  BY <1>1, <1>2, <1>3, <1>4, <1>5, <1>6, <1>7, <1>8, <1>9 DEF SyncStep

\* The steps of a sync that fail keep RunInv.
LEMMA SetbackKeepsRunInv ==
  ASSUME TypeOK, RunInv, NEW c \in Syncs,
         \/ Throw(c)
         \/ \E res \in Resources : Blocked(c, res) \/ ThrowInResource(c, res)
  PROVE  RunInv'
<1>0. /\ setting' = setting
      /\ CallInv(c)
      /\ step \in [Syncs -> [Resources -> Steps]]
      /\ page \in [Syncs -> SUBSET Contents]
  BY DEF Throw, Blocked, ThrowInResource, RunInv, TypeOK
<1>1. CASE Throw(c)
  <2>1. /\ call'[c].pc \in {"done", "failing"}
        /\ \A d \in Syncs \ {c} : call'[d] = call[d]
        /\ call'[c].pc = "done" =>
             \/ call[c].pc = "failing" /\ "failing" \in setting.faults
             \/ call[c].pc \in {"creating", "alarming"}
        /\ call[c].pc \in {"counting", "notifying", "working", "creating",
                           "failing", "alarming"}
    BY <1>1, GotoKeeps DEF Throw, Pcs, At
  <2>2. UNCHANGED <<runs, told, step, page>>
    BY <1>1 DEF Throw
  <2>3. <<c, "first">> \notin told
    BY <1>0, <2>1 DEF CallInv, At
  <2>4. ClosedInv(c)'
    BY <1>0, <2>1, <2>2 DEF CallInv, ClosedInv, At, Live
  <2>5. CallInv(c)'
    BY <1>0, <2>1, <2>2, <2>3, <2>4 DEF CallInv, At
  <2>6. ~Announces(c)'
    BY <2>1, <2>2, <2>3 DEF Announces, At
  <2>7. QED
    BY <1>0, <2>1, <2>2, <2>5, <2>6, OneMoves DEF Same
<1>2. ASSUME NEW res \in Resources, Blocked(c, res)
      PROVE  RunInv'
  <2>1. /\ call'[c].pc \in {call[c].pc, "failing"}
        /\ call'[c].first = call[c].first
        /\ \A d \in Syncs \ {c} : call'[d] = call[d]
    BY <1>2, GotoKeeps DEF Blocked, Pcs
  <2>2. UNCHANGED <<runs, told, page>> /\ step[c][res] = "fetch"
    BY <1>2 DEF Blocked
  <2>3. /\ step'[c][res] \in {"blocked", "failed"}
        /\ \A q \in Resources \ {res} : step'[c][q] = step[c][q]
        /\ \A d \in Syncs \ {c} : step'[d] = step[d]
    BY <1>2, StepType DEF Blocked, Steps
  <2>4. /\ ~At(c, "idle") /\ ~At(c, "creating")
        /\ runs[c] \notin Success /\ <<c, "first">> \notin told
        /\ ~At(c, "counting") /\ ~At(c, "notifying")
    BY <1>0, <2>2 DEF CallInv
  <2>5. \A w \in page[c] : step'[c][Kind(w[1])] = "store"
    BY <1>0, <2>2, <2>3, PageKinds DEF CallInv
  <2>6. ClosedInv(c)'
    BY <1>0, <2>1, <2>2, <2>3 DEF CallInv, ClosedInv, At, Live
  <2>7. CallInv(c)'
    BY <1>0, <2>1, <2>2, <2>4, <2>5, <2>6 DEF CallInv, At
  <2>8. ~Announces(c)'
    BY <2>1, <2>2, <2>4 DEF Announces, At
  <2>9. QED
    BY <1>0, <2>1, <2>2, <2>3, <2>7, <2>8, OneMoves DEF Same
<1>3. ASSUME NEW res \in Resources, ThrowInResource(c, res)
      PROVE  RunInv'
  <2>1. /\ call'[c].pc \in {call[c].pc, "failing"}
        /\ call'[c].first = call[c].first
        /\ \A d \in Syncs \ {c} : call'[d] = call[d]
    BY <1>3, GotoKeeps DEF ThrowInResource, Pcs
  <2>2. UNCHANGED <<runs, told>> /\ step[c][res] \in Live
    BY <1>3 DEF ThrowInResource, Live
  <2>3. /\ step'[c][res] = "failed"
        /\ \A q \in Resources \ {res} : step'[c][q] = step[c][q]
        /\ \A d \in Syncs \ {c} : step'[d] = step[d]
    BY <1>3, StepType DEF ThrowInResource, Steps
  <2>4. /\ page'[c] = {w \in page[c] : Kind(w[1]) # res}
        /\ \A d \in Syncs \ {c} : page'[d] = page[d]
    BY <1>0, <1>3 DEF ThrowInResource
  <2>5. /\ ~At(c, "idle") /\ ~At(c, "creating")
        /\ runs[c] \notin Success /\ <<c, "first">> \notin told
        /\ ~At(c, "counting") /\ ~At(c, "notifying")
    BY <1>0, <2>2 DEF CallInv, Live
  <2>6. \A w \in page'[c] : step'[c][Kind(w[1])] = "store"
    BY <1>0, <2>3, <2>4, PageKinds DEF CallInv
  <2>7. ClosedInv(c)'
    BY <1>0, <2>1, <2>2, <2>3 DEF CallInv, ClosedInv, At, Live
  <2>8. CallInv(c)'
    BY <1>0, <2>1, <2>2, <2>5, <2>6, <2>7 DEF CallInv, At
  <2>9. ~Announces(c)'
    BY <2>1, <2>2, <2>5 DEF Announces, At
  <2>10. QED
    BY <1>0, <2>1, <2>2, <2>3, <2>4, <2>8, <2>9, OneMoves DEF Same
<1>4. QED
  BY <1>1, <1>2, <1>3

\* Every step of the specification preserves RunInv.
LEMMA StepRunInv == TypeOK /\ RunInv /\ [Next]_vars => RunInv'
<1> SUFFICES ASSUME TypeOK, RunInv, [Next]_vars PROVE RunInv'
  OBVIOUS
<1>0. /\ call \in [Syncs -> [pc : Pcs, type : Resources \cup {"all"},
                             incremental : BOOLEAN, since : SUBSET Records,
                             first : BOOLEAN]]
      /\ step \in [Syncs -> [Resources -> Steps]]
  BY DEF TypeOK
<1>a. ASSUME setting' = setting, \A c \in Syncs : Same(c)
      PROVE  RunInv'
  BY <1>a, SameKeeps DEF RunInv, OneAnnounces
<1>1. ASSUME NEW r \in Records, Edit(r) PROVE RunInv'
  <2>1. \A c \in Syncs :
          call'[c].pc = call[c].pc /\ call'[c].first = call[c].first
    BY <1>0, <1>1 DEF Edit
  <2>2. QED
    BY <1>1, <1>a, <2>1 DEF Edit, Same
<1>2. ASSUME NEW c \in Syncs, NEW type \in Resources \cup {"all"},
             NEW incremental \in BOOLEAN, Connect(c, type, incremental)
      PROVE  RunInv'
  <2>1. /\ call'[c].pc = "creating"
        /\ \A d \in Syncs \ {c} : call'[d] = call[d]
        /\ call[c].pc = "idle"
        /\ UNCHANGED <<runs, told, step, page, setting>>
    BY <1>0, <1>2 DEF Connect, At
  <2>2. CallInv(c)
    BY DEF RunInv
  <2>3. CallInv(c)'
    BY <2>1, <2>2 DEF CallInv, ClosedInv, At
  <2>4. ~Announces(c)'
    BY <2>1, <2>2 DEF CallInv, Announces, At
  <2>5. QED
    BY <2>1, <2>3, <2>4, OneMoves DEF Same
<1>3. ASSUME NEW c \in Syncs, SyncStep(c) PROVE RunInv'
  BY <1>3, SyncKeepsRunInv
<1>4. ASSUME NEW c \in Syncs,
             \/ Throw(c)
             \/ \E res \in Resources :
                  Blocked(c, res) \/ ThrowInResource(c, res)
      PROVE  RunInv'
  BY <1>4, SetbackKeepsRunInv
<1>5. CASE \E r \in Records, v \in 1..Versions :
             HookStep(r, v) \/ FailHook(r, v) \/ Redeliver(r, v)
  BY <1>5, <1>a
  DEF HookStep, Receive, StoreHook, MoveHook, Acknowledge, FailHook, Redeliver,
      Same
<1>6. CASE Uninstall \/ UNCHANGED vars
  BY <1>6, <1>a DEF Uninstall, vars, Same
<1>7. CASE Crash
  <2>1. /\ \A c \in Syncs : /\ call'[c].pc \in {call[c].pc, "done"}
                            /\ call[c].pc \in {"idle", "done"} =>
                                 call'[c].pc = call[c].pc
                            /\ call'[c].pc # "notifying"
                            /\ call'[c].pc \in {"idle", "done"}
        /\ \A c \in Syncs : page'[c] = {}
        /\ UNCHANGED <<runs, told, setting>>
        /\ "working" \in setting.faults
    BY <1>0, <1>7 DEF Crash, InFlight
  <2>2. \A c \in Syncs : \A res \in Resources :
          step[c][res] \in {"idle", "synced", "blocked"} =>
            step'[c][res] = step[c][res]
    BY <1>7 DEF Crash, Live
  <2>3. \A c \in Syncs : CallInv(c)'
    <3> SUFFICES ASSUME NEW c \in Syncs PROVE CallInv(c)'
      OBVIOUS
    <3>1. CallInv(c)
      BY DEF RunInv
    <3>2. call'[c].pc = "idle" => call[c].pc = "idle"
      BY <2>1
    <3>3. At(c, "idle")' => \A res \in Resources : step'[c][res] = "idle"
      BY <2>2, <3>1, <3>2 DEF CallInv, At
    <3>4. runs[c] \in Success => \A res \in Resources : step'[c][res] \in
            {"idle", "synced"} \cup
              IF runs[c] = "SUCCEEDED" THEN {} ELSE {"blocked"}
      BY <2>2, <3>1 DEF CallInv
    <3>5. ClosedInv(c)'
      BY <2>1 DEF ClosedInv
    <3>6. QED
      BY <2>1, <3>1, <3>2, <3>3, <3>4, <3>5 DEF CallInv, At
  <2>4. \A c \in Syncs : Announces(c)' => Announces(c)
    BY <2>1 DEF Announces, At
  <2>5. QED
    BY <2>3, <2>4 DEF RunInv, OneAnnounces
<1>8. QED
  BY <1>1, <1>2, <1>3, <1>4, <1>5, <1>6, <1>7 DEF Next, Setback

\* What the row of a run says, and what was told of it, is true once its
\* request has been answered, whatever runs beside it, fails or stops.
THEOREM RunsAreTrue == Spec => []RunIsTrue
<1>1. Init => RunInv
  BY DEF Init, RunInv, CallInv, ClosedInv, OneAnnounces, Announces, At, Success
<1>2. TypeOK /\ RunInv => RunIsTrue
  <2> SUFFICES ASSUME TypeOK, RunInv PROVE RunIsTrue
    OBVIOUS
  <2>1. SuccessIsEarned
    BY DEF SuccessIsEarned, RunInv, CallInv, Success
  <2>2. FirstIsToldOnce
    BY DEF FirstIsToldOnce, RunInv, OneAnnounces, Announces
  <2>3. RunIsClosed
    <3> SUFFICES ASSUME setting.faults \cap {"working", "failing"} = {},
                        NEW c \in Syncs, At(c, "done")
                 PROVE  runs[c] # "RUNNING"
                        /\ (page[c] # {} => runs[c] = "FAILED")
      BY DEF RunIsClosed
    <3>1. CallInv(c)
      BY DEF RunInv
    <3>2. /\ runs[c] # "RUNNING"
          /\ runs[c] # "FAILED" =>
               \A res \in Resources : step[c][res] \notin Live
      BY <3>1 DEF CallInv, ClosedInv
    <3>3. \A w \in page[c] : step[c][Kind(w[1])] \in Live
                             /\ Kind(w[1]) \in Resources
      BY <3>1, PageKinds DEF CallInv, Live
    <3>4. QED
      BY <3>2, <3>3
  <2>4. QED
    BY <2>1, <2>2, <2>3 DEF RunIsTrue
<1>3. QED
  BY <1>1, <1>2, StepRunInv, TypeCorrect, PTL DEF Spec

(***************************************************************************)
(* The cursor.  While the store is left alone and no webhook comes, what a *)
(* request has fetched is what the store holds (FetchedInv), what it did   *)
(* not fetch is there already, and so is every record it passes by when it *)
(* moves the cursor, however many requests are handled at a time and       *)
(* whatever fails or stops.                                                *)
(***************************************************************************)

Undisturbed ==
  /\ ~setting.edits /\ ~setting.hooks
  /\ \A res \in Resources : Cardinality(OfKind(res)) <= setting.limit

Arrived(r) == stored[r] = shop[r]

\* Of a request: its page is current, what it asked to be left out is there,
\* and what it has to write of a resource is on its page or there.
FetchedInv(c) ==
  /\ \A w \in page[c] : w[2] = shop[w[1]]
  /\ \A r \in setting.records \ call[c].since : Arrived(r)
  /\ \A res \in Resources : step[c][res] = "store" =>
       \A r \in OfKind(res) : Arrived(r) \/ <<r, shop[r]>> \in page[c]

CursorInv ==
  Undisturbed =>
    /\ \A w \in Contents : hook[w] = "unsent"
    /\ \A r \in setting.records \ changed : Arrived(r)
    /\ \A c \in Syncs : FetchedInv(c)

\* The records of a setting are among all there may be.
LEMMA SettingType ==
  ASSUME TypeOK
  PROVE  /\ setting.records \subseteq Records /\ setting.limit \in Nat \ {0}
         /\ \A res \in Resources : OfKind(res) \subseteq Records
  BY SyncAssumption DEF TypeOK, OfKind

\* A page that is long enough holds all that was asked for.
LEMMA WholePage ==
  ASSUME TypeOK, NEW res \in Resources,
         Cardinality(OfKind(res)) <= setting.limit,
         NEW S \in SUBSET OfKind(res), NEW rs \in Pages(S)
  PROVE  rs = S
<1>1. IsFiniteSet(OfKind(res))
  BY SettingType, SyncAssumption, FS_Subset
<1>2. /\ IsFiniteSet(S) /\ Cardinality(S) <= Cardinality(OfKind(res))
      /\ Cardinality(S) \in Nat /\ Cardinality(OfKind(res)) \in Nat
  BY <1>1, FS_Subset, FS_CardinalityType
<1>3. (IF Cardinality(S) < setting.limit THEN Cardinality(S)
       ELSE setting.limit) = Cardinality(S)
  BY <1>2, SettingType
<1>4. rs \in SUBSET S /\ Cardinality(rs) = Cardinality(S)
  BY <1>3 DEF Pages, kSubset
<1>5. QED
  BY <1>2, <1>4, FS_Subset

\* What a request has fetched stays current while the store and the database
\* do, and so does what it knows when the database takes in current records.
LEMMA FetchedKeeps ==
  ASSUME NEW c \in Syncs, FetchedInv(c), shop' = shop, setting' = setting,
         \A r \in setting.records : Arrived(r) => Arrived(r)',
         call'[c].since = call[c].since,
         page'[c] = page[c],
         \A res \in Resources :
           step'[c][res] = "store" => step[c][res] = "store"
  PROVE  FetchedInv(c)'
<1>1. \A res \in Resources : OfKind(res)' = OfKind(res)
  BY DEF OfKind
<1>2. \A res \in Resources : OfKind(res) \subseteq setting.records
  BY DEF OfKind
<1>3. \A w \in page'[c] : w[2] = shop'[w[1]]
  BY DEF FetchedInv
<1>4. \A r \in setting.records \ call'[c].since : Arrived(r)'
  BY DEF FetchedInv
<1>5. \A res \in Resources : step'[c][res] = "store" =>
        \A r \in OfKind(res) : Arrived(r)' \/ <<r, shop'[r]>> \in page'[c]
  BY <1>2 DEF FetchedInv
<1>6. QED
  BY <1>1, <1>3, <1>4, <1>5 DEF FetchedInv

\* The steps of a sync keep CursorInv.
LEMMA SyncKeepsCursorInv ==
  ASSUME TypeOK, CursorInv, NEW c \in Syncs, SyncStep(c)
  PROVE  CursorInv'
<1>0. setting' = setting /\ shop' = shop /\ hook' = hook
  BY DEF SyncStep, CreateRun, Fetch, MoveCursor, Store, Close, Count,
         notifySyncCompleted, MarkFailed, notifySyncFailed
<1> SUFFICES ASSUME Undisturbed
             PROVE  /\ \A r \in setting.records \ changed' : Arrived(r)'
                    /\ \A d \in Syncs : FetchedInv(d)'
  BY <1>0 DEF CursorInv, Undisturbed, OfKind
<1>01. /\ call \in [Syncs -> [pc : Pcs, type : Resources \cup {"all"},
                              incremental : BOOLEAN, since : SUBSET Records,
                              first : BOOLEAN]]
       /\ step \in [Syncs -> [Resources -> Steps]]
       /\ page \in [Syncs -> SUBSET Contents]
       /\ stored \in [Records -> 0..Versions]
       /\ \A d \in Syncs : FetchedInv(d)
       /\ \A r \in setting.records \ changed : Arrived(r)
  BY DEF TypeOK, CursorInv
<1>a. ASSUME UNCHANGED <<stored, changed, page>>,
             \A d \in Syncs : call'[d].since = call[d].since,
             \A d \in Syncs : \A res \in Resources :
               step'[d][res] = "store" => step[d][res] = "store"
      PROVE  /\ \A r \in setting.records \ changed' : Arrived(r)'
             /\ \A d \in Syncs : FetchedInv(d)'
  BY <1>0, <1>01, <1>a, FetchedKeeps DEF Arrived
<1>1. CASE CreateRun(c)
  <2>1. \A d \in Syncs : call'[d].since = call[d].since
    BY <1>1, GotoKeeps DEF CreateRun, Pcs
  <2>2. \A d \in Syncs : \A res \in Resources :
          step'[d][res] = "store" => step[d][res] = "store"
    BY <1>01, <1>1 DEF CreateRun, Plan
  <2>3. QED
    BY <1>1, <1>a, <2>1, <2>2 DEF CreateRun
<1>2. ASSUME NEW res \in Resources, Fetch(c, res)
      PROVE  /\ \A r \in setting.records \ changed' : Arrived(r)'
             /\ \A d \in Syncs : FetchedInv(d)'
  <2>1. PICK rs \in Pages(OfKind(res) \cap call[c].since) :
          page' = [page EXCEPT ![c] = @ \cup {<<r, shop[r]>> : r \in rs}]
    BY <1>2 DEF Fetch
  <2>2. rs = OfKind(res) \cap call[c].since
    BY WholePage DEF Undisturbed
  <2>3. /\ \A q \in Resources \ {res} : step'[c][q] = step[c][q]
        /\ \A d \in Syncs \ {c} : step'[d] = step[d]
        /\ \A d \in Syncs \ {c} : page'[d] = page[d]
        /\ page'[c] = page[c] \cup {<<r, shop[r]>> : r \in rs}
        /\ UNCHANGED <<call, stored, changed>>
    BY <1>01, <1>2, <2>1, StepType DEF Fetch, Steps, Live
  <2>4. \A d \in Syncs \ {c} : FetchedInv(d)'
    BY <1>0, <1>01, <2>3, FetchedKeeps DEF Arrived
  <2>5. FetchedInv(c)'
    <3>1. \A w \in page'[c] : w[2] = shop'[w[1]]
      BY <1>0, <1>01, <2>3 DEF FetchedInv
    <3>2. \A r \in setting'.records \ call'[c].since : Arrived(r)'
      BY <1>0, <1>01, <2>3 DEF FetchedInv, Arrived
    <3>3. \A r \in OfKind(res) : Arrived(r)' \/ <<r, shop'[r]>> \in page'[c]
      <4> SUFFICES ASSUME NEW r \in OfKind(res)
                   PROVE  Arrived(r)' \/ <<r, shop'[r]>> \in page'[c]
        OBVIOUS
      <4>1. CASE r \in call[c].since
        BY <1>0, <2>2, <2>3, <4>1
      <4>2. CASE r \notin call[c].since
        BY <1>0, <1>01, <2>3, <4>2 DEF FetchedInv, Arrived, OfKind
      <4>3. QED
        BY <4>1, <4>2
    <3>4. \A q \in Resources \ {res} : step'[c][q] = "store" =>
            \A r \in OfKind(q) : Arrived(r)' \/ <<r, shop'[r]>> \in page'[c]
      BY <1>0, <1>01, <2>3 DEF FetchedInv, Arrived
    <3>5. \A q \in Resources : OfKind(q)' = OfKind(q)
      BY <1>0 DEF OfKind
    <3>6. QED
      BY <3>1, <3>2, <3>3, <3>4, <3>5 DEF FetchedInv
  <2>6. \A r \in setting.records \ changed' : Arrived(r)'
    BY <1>0, <1>01, <2>3 DEF Arrived
  <2>7. QED
    BY <2>4, <2>5, <2>6
<1>3. ASSUME NEW w \in page[c], Store(c, w[1], w[2])
      PROVE  /\ \A r \in setting.records \ changed' : Arrived(r)'
             /\ \A d \in Syncs : FetchedInv(d)'
  <2>1. w[1] \in Records /\ w[2] = shop[w[1]] /\ w = <<w[1], w[2]>>
    BY <1>01 DEF FetchedInv, Contents
  <2>2. /\ Arrived(w[1])'
        /\ \A r \in Records : Arrived(r) => Arrived(r)'
    BY <1>0, <1>01, <1>3, <2>1 DEF Store, Arrived
  <2>3. /\ UNCHANGED <<call, step, changed>>
        /\ page'[c] = page[c] \ {w}
        /\ \A d \in Syncs \ {c} : page'[d] = page[d]
    BY <1>01, <1>3, <2>1 DEF Store
  <2>4. \A d \in Syncs \ {c} : FetchedInv(d)'
    BY <1>0, <1>01, <2>2, <2>3, FetchedKeeps, SettingType
  <2>5. FetchedInv(c)'
    <3>1. \A v \in page'[c] : v[2] = shop'[v[1]]
      BY <1>0, <1>01, <2>3 DEF FetchedInv
    <3>2. \A r \in setting'.records \ call'[c].since : Arrived(r)'
      BY <1>0, <1>01, <2>2, <2>3, SettingType DEF FetchedInv
    <3>3. \A q \in Resources : step'[c][q] = "store" =>
            \A r \in OfKind(q) : Arrived(r)' \/ <<r, shop'[r]>> \in page'[c]
      <4> SUFFICES ASSUME NEW q \in Resources, step[c][q] = "store",
                          NEW r \in OfKind(q), ~Arrived(r)'
                   PROVE  <<r, shop[r]>> \in page'[c]
        BY <1>0, <2>3
      <4>1. r \in Records /\ r # w[1] /\ ~Arrived(r)
        BY <2>2, SettingType
      <4>2. <<r, shop[r]>> \in page[c]
        BY <1>01, <4>1 DEF FetchedInv
      <4>3. <<r, shop[r]>> # w
        BY <2>1, <4>1
      <4>4. QED
        BY <2>3, <4>2, <4>3
    <3>4. \A q \in Resources : OfKind(q)' = OfKind(q)
      BY <1>0 DEF OfKind
    <3>5. QED
      BY <3>1, <3>2, <3>3, <3>4 DEF FetchedInv
  <2>6. \A r \in setting.records \ changed' : Arrived(r)'
    BY <1>01, <2>2, <2>3, SettingType
  <2>7. QED
    BY <2>4, <2>5, <2>6
<1>4. ASSUME NEW res \in Resources, MoveCursor(c, res)
      PROVE  /\ \A r \in setting.records \ changed' : Arrived(r)'
             /\ \A d \in Syncs : FetchedInv(d)'
  <2>1. /\ UNCHANGED <<call, stored, page>>
        /\ step[c][res] = "store"
        /\ \A w \in page[c] : Kind(w[1]) # res
        /\ changed' = changed \ OfKind(res)
    BY <1>4 DEF MoveCursor, PageWritten
  <2>2. \A d \in Syncs : \A q \in Resources :
          step'[d][q] = "store" => step[d][q] = "store"
    BY <1>01, <1>4 DEF MoveCursor
  <2>3. \A r \in OfKind(res) : <<r, shop[r]>> \notin page[c]
    <3>1. \A r \in OfKind(res) : Kind(<<r, shop[r]>>[1]) = res
      BY DEF OfKind
    <3>2. QED
      BY <2>1, <3>1
  <2>4. \A r \in OfKind(res) : Arrived(r)
    BY <1>01, <2>1, <2>3 DEF FetchedInv
  <2>5. \A r \in setting.records \ changed' : Arrived(r)'
    BY <1>0, <1>01, <2>1, <2>4 DEF Arrived
  <2>6. \A d \in Syncs : FetchedInv(d)'
    BY <1>0, <1>01, <2>1, <2>2, FetchedKeeps DEF Arrived
  <2>7. QED
    BY <2>5, <2>6
<1>5. CASE Close(c) \/ notifySyncCompleted(c) \/ MarkFailed(c)
           \/ notifySyncFailed(c)
  <2>1. \E pc \in Pcs : Goto(c, pc)
    BY <1>5
    DEF Close, notifySyncCompleted, MarkFailed, notifySyncFailed, Pcs
  <2>2. \A d \in Syncs : call'[d].since = call[d].since
    BY <2>1, GotoKeeps
  <2>3. QED
    BY <1>5, <1>a, <2>2
    DEF Close, notifySyncCompleted, MarkFailed, notifySyncFailed
<1>6. CASE Count(c)
  <2>1. \A d \in Syncs : call'[d].since = call[d].since
    BY <1>01, <1>6 DEF Count
  <2>2. QED
    BY <1>6, <1>a, <2>1 DEF Count
<1>7. QED
  BY <1>1, <1>2, <1>3, <1>4, <1>5, <1>6 DEF SyncStep

\* Every step of the specification preserves CursorInv.
LEMMA StepCursorInv ==
  TypeOK /\ RunInv /\ CursorInv /\ [Next]_vars => CursorInv'
<1> SUFFICES ASSUME TypeOK, RunInv, CursorInv, [Next]_vars, Undisturbed,
                    setting' = setting
             PROVE  /\ \A w \in Contents : hook'[w] = "unsent"
                    /\ \A r \in setting.records \ changed' : Arrived(r)'
                    /\ \A d \in Syncs : FetchedInv(d)'
  <2>1. [Next]_vars => setting' = setting
    BY DEF Next, vars, Edit, Connect, SyncStep, CreateRun, Fetch, MoveCursor,
           Store, Close, Count, notifySyncCompleted, MarkFailed,
           notifySyncFailed, HookStep, Receive, StoreHook, MoveHook,
           Acknowledge, Setback, Throw, Blocked, ThrowInResource, FailHook,
           Redeliver, Uninstall, Crash
  <2>2. setting' = setting => (Undisturbed' <=> Undisturbed)
    BY DEF Undisturbed, OfKind
  <2>3. QED
    BY <2>1, <2>2 DEF CursorInv
<1>0. /\ call \in [Syncs -> [pc : Pcs, type : Resources \cup {"all"},
                             incremental : BOOLEAN, since : SUBSET Records,
                             first : BOOLEAN]]
      /\ step \in [Syncs -> [Resources -> Steps]]
      /\ page \in [Syncs -> SUBSET Contents]
      /\ \A d \in Syncs : FetchedInv(d)
      /\ \A r \in setting.records \ changed : Arrived(r)
      /\ \A w \in Contents : hook[w] = "unsent"
  BY DEF TypeOK, CursorInv
<1> DEFINE Kept == /\ \A w \in Contents : hook'[w] = "unsent"
                   /\ \A r \in setting.records \ changed' : Arrived(r)'
                   /\ \A d \in Syncs : FetchedInv(d)'
<1>a. ASSUME UNCHANGED <<shop, stored, changed, page, hook>>,
             \A d \in Syncs : call'[d].since = call[d].since,
             \A d \in Syncs : \A res \in Resources :
               step'[d][res] = "store" => step[d][res] = "store"
      PROVE  Kept
  BY <1>0, <1>a, FetchedKeeps DEF Arrived
<1>1. ASSUME NEW r \in Records, Edit(r) PROVE Kept
  <2>1. Working = {}
    BY <1>1 DEF Edit, Undisturbed
  <2>2. \A d \in Syncs : \A res \in Resources : step[d][res] \notin Live
    <3> SUFFICES ASSUME NEW d \in Syncs, NEW res \in Resources,
                        step[d][res] \in Live
                 PROVE  FALSE
      OBVIOUS
    <3>1. <<d, res>> \in Working
      BY DEF Working
    <3>2. QED
      BY <2>1, <3>1
  <2>3. \A d \in Syncs : page[d] = {}
    <3> SUFFICES ASSUME NEW d \in Syncs, NEW w \in page[d] PROVE FALSE
      OBVIOUS
    <3>1. step[d][Kind(w[1])] = "store"
      BY DEF RunInv, CallInv
    <3>2. QED
      BY <2>2, <3>1, PageKinds DEF Live
  <2>4. /\ UNCHANGED <<stored, step, page, hook>>
        /\ \A q \in Records \ {r} : shop'[q] = shop[q]
        /\ changed' = changed \cup {r}
        /\ \A d \in Syncs : call'[d].since = call[d].since \cup {r}
    BY <1>0, <1>1 DEF Edit, Undisturbed, TypeOK
  <2>5. \A q \in Records \ {r} : Arrived(q) => Arrived(q)'
    BY <2>4 DEF Arrived
  <2>6. \A q \in setting.records \ changed' : Arrived(q)'
    BY <1>0, <2>4, <2>5, SettingType
  <2>7. \A d \in Syncs : FetchedInv(d)'
    <3> SUFFICES ASSUME NEW d \in Syncs PROVE FetchedInv(d)'
      OBVIOUS
    <3>1. page'[d] = {}
      BY <2>3, <2>4
    <3>2. \A q \in setting'.records \ call'[d].since : Arrived(q)'
      BY <1>0, <2>4, <2>5, SettingType DEF FetchedInv
    <3>3. \A res \in Resources : step'[d][res] # "store"
      BY <2>2, <2>4 DEF Live
    <3>4. QED
      BY <3>1, <3>2, <3>3 DEF FetchedInv
  <2>8. QED
    BY <1>0, <2>4, <2>6, <2>7
<1>2. ASSUME NEW c \in Syncs, NEW type \in Resources \cup {"all"},
             NEW incremental \in BOOLEAN, Connect(c, type, incremental)
      PROVE  Kept
  <2>1. /\ UNCHANGED <<shop, stored, changed, step, page, hook>>
        /\ \A d \in Syncs \ {c} : call'[d] = call[d]
        /\ call'[c].since = changed \/ call'[c].since = Records
    BY <1>0, <1>2 DEF Connect
  <2>2. \A d \in Syncs \ {c} : FetchedInv(d)'
    BY <1>0, <2>1, FetchedKeeps DEF Arrived
  <2>3. FetchedInv(c)'
    <3>1. \A w \in page'[c] : w[2] = shop'[w[1]]
      BY <1>0, <2>1 DEF FetchedInv
    <3>2. \A r \in setting'.records \ call'[c].since : Arrived(r)'
      BY <1>0, <2>1, SettingType DEF Arrived
    <3>3. \A res \in Resources : OfKind(res)' = OfKind(res)
      BY DEF OfKind
    <3>4. \A res \in Resources : step'[c][res] = "store" =>
            \A r \in OfKind(res) : Arrived(r)' \/ <<r, shop'[r]>> \in page'[c]
      BY <1>0, <2>1 DEF FetchedInv, Arrived
    <3>5. QED
      BY <3>1, <3>2, <3>3, <3>4 DEF FetchedInv
  <2>4. QED
    BY <1>0, <2>1, <2>2, <2>3 DEF Arrived
<1>3. ASSUME NEW c \in Syncs, SyncStep(c) PROVE Kept
  <2>1. CursorInv' /\ hook' = hook /\ Undisturbed'
    <3>1. hook' = hook
      BY <1>3
      DEF SyncStep, CreateRun, Fetch, MoveCursor, Store, Close, Count,
          notifySyncCompleted, MarkFailed, notifySyncFailed
    <3>2. QED
      BY <1>3, <3>1, SyncKeepsCursorInv DEF Undisturbed, OfKind
  <2>2. QED
    BY <1>0, <2>1 DEF CursorInv
<1>4. ASSUME NEW c \in Syncs, Throw(c) PROVE Kept
  <2>1. \E pc \in Pcs : Goto(c, pc)
    BY <1>4 DEF Throw, Pcs
  <2>2. \A d \in Syncs : call'[d].since = call[d].since
    BY <2>1, GotoKeeps
  <2>3. QED
    BY <1>4, <1>a, <2>2 DEF Throw
<1>5. ASSUME NEW c \in Syncs, NEW res \in Resources, Blocked(c, res)
      PROVE  Kept
  <2>1. \A d \in Syncs : call'[d].since = call[d].since
    BY <1>5, GotoKeeps DEF Blocked, Pcs
  <2>2. \A d \in Syncs : \A q \in Resources :
          step'[d][q] = "store" => step[d][q] = "store"
    BY <1>0, <1>5 DEF Blocked
  <2>3. QED
    BY <1>5, <1>a, <2>1, <2>2 DEF Blocked
<1>6. ASSUME NEW c \in Syncs, NEW res \in Resources, ThrowInResource(c, res)
      PROVE  Kept
  <2>1. \A d \in Syncs : call'[d].since = call[d].since
    BY <1>6, GotoKeeps DEF ThrowInResource, Pcs
  <2>2. /\ step'[c][res] = "failed"
        /\ \A q \in Resources \ {res} : step'[c][q] = step[c][q]
        /\ \A d \in Syncs \ {c} : step'[d] = step[d]
    BY <1>6, StepType DEF ThrowInResource, Steps
  <2>3. /\ page'[c] = {w \in page[c] : Kind(w[1]) # res}
        /\ \A d \in Syncs \ {c} : page'[d] = page[d]
        /\ UNCHANGED <<shop, stored, changed, hook>>
    BY <1>0, <1>6 DEF ThrowInResource
  <2>4. \A d \in Syncs \ {c} : FetchedInv(d)'
    BY <1>0, <2>1, <2>2, <2>3, FetchedKeeps DEF Arrived
  <2>5. FetchedInv(c)'
    <3>1. \A w \in page'[c] : w[2] = shop'[w[1]]
      BY <1>0, <2>3 DEF FetchedInv
    <3>2. \A r \in setting'.records \ call'[c].since : Arrived(r)'
      BY <1>0, <2>1, <2>3 DEF FetchedInv, Arrived
    <3>3. \A q \in Resources : OfKind(q)' = OfKind(q)
      BY DEF OfKind
    <3>4. \A q \in Resources : step'[c][q] = "store" =>
            \A r \in OfKind(q) : Arrived(r)' \/ <<r, shop'[r]>> \in page'[c]
      <4> SUFFICES ASSUME NEW q \in Resources \ {res}, step[c][q] = "store",
                          NEW r \in OfKind(q), ~Arrived(r)
                   PROVE  <<r, shop[r]>> \in page'[c]
        BY <2>2, <2>3 DEF Arrived
      <4>1. <<r, shop[r]>> \in page[c]
        BY <1>0 DEF FetchedInv
      <4>2. Kind(<<r, shop[r]>>[1]) # res
        BY DEF OfKind
      <4>3. QED
        BY <2>3, <4>1, <4>2
    <3>5. QED
      BY <3>1, <3>2, <3>3, <3>4 DEF FetchedInv
  <2>6. QED
    BY <1>0, <2>3, <2>4, <2>5 DEF Arrived
<1>7. ASSUME NEW r \in Records, NEW v \in 1..Versions,
             HookStep(r, v) \/ FailHook(r, v) \/ Redeliver(r, v)
      PROVE  FALSE
  <2>1. hook[<<r, v>>] = "unsent"
    BY <1>0 DEF Contents
  <2>2. QED
    BY <1>7, <2>1
    DEF HookStep, Receive, StoreHook, MoveHook, Acknowledge, FailHook,
        Redeliver
<1>8. CASE Crash
  <2>1. /\ UNCHANGED <<shop, stored, changed>>
        /\ \A d \in Syncs : call'[d].since = call[d].since /\ page'[d] = {}
    BY <1>0, <1>8 DEF Crash
  <2>2. \A d \in Syncs : \A res \in Resources : step'[d][res] # "store"
    BY <1>8 DEF Crash, Live
  <2>3. \A w \in Contents : hook'[w] = "unsent"
    BY <1>0, <1>8 DEF Crash, Delivering
  <2>4. \A d \in Syncs : FetchedInv(d)'
    BY <1>0, <2>1, <2>2 DEF FetchedInv, Arrived
  <2>5. QED
    BY <1>0, <2>1, <2>3, <2>4 DEF Arrived
<1>9. CASE Uninstall \/ UNCHANGED vars
  BY <1>9, <1>a DEF Uninstall, vars
<1>10. QED
  BY <1>1, <1>2, <1>3, <1>4, <1>5, <1>6, <1>7, <1>8, <1>9 DEF Next, Setback

\* Whatever runs beside it, fails or stops, a record older than the cursor is
\* in the database as it is in the store, as long as the store is left alone
\* meanwhile, no webhook moves the cursor and a page holds all there is.
THEOREM CursorPassesNothingBy == Spec => []UpToCursor
<1>1. Init => RunInv
  BY DEF Init, RunInv, CallInv, ClosedInv, OneAnnounces, Announces, At, Success
<1>2. Init => CursorInv
  <2> SUFFICES ASSUME Init PROVE CursorInv
    OBVIOUS
  <2>1. TypeOK
    BY InitTypeOK
  <2>2. setting.records \subseteq Records
    BY <2>1, SettingType
  <2>3. QED
    BY <2>2 DEF Init, CursorInv, FetchedInv
<1>3. CursorInv => UpToCursor
  BY DEF CursorInv, UpToCursor, Undisturbed, Arrived
<1>4. QED
  BY <1>1, <1>2, <1>3, StepRunInv, StepCursorInv, TypeCorrect, PTL DEF Spec
================================================================================
