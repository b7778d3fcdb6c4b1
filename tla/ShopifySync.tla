------------------------------ MODULE ShopifySync ------------------------------
(***************************************************************************)
(* The local copy of one Shopify store: what shopify-sync.service.ts,      *)
(* shopify-incremental-sync.service.ts and shopify-webhook.service.ts      *)
(* write, while the store goes on changing.                                *)
(*                                                                         *)
(* A sync fetches one page, writes it record by record, and then moves the *)
(* cursor of the resource to the present.  A sync of everything has two    *)
(* resources under way at once (Promise.all); when one throws, the run is  *)
(* closed as FAILED while the other writes on.  A webhook writes the record*)
(* it brings and moves the same cursor.  The cursor is a moment; it stands *)
(* here for the records whose updated_at is not before it.  A record is    *)
(* <<resource, number>>, and its content a version.                        *)
(***************************************************************************)
EXTENDS Naturals, FiniteSets, FiniteSetsExt

CONSTANTS
  Records,   \* the records a store may have
  Versions,  \* how many contents a record has over time
  Syncs,     \* the sync requests there will ever be, and their run rows
  Settings   \* what is in use: see setting

Resources == {"products", "orders", "customers"}
Protected == {"orders", "customers"}
Live == {"fetch", "store"}
Steps == Live \cup {"idle", "waiting", "synced", "blocked", "failed"}
Pcs == {"idle", "creating", "working", "counting", "notifying", "failing",
        "alarming", "done"}
HookSteps == {"unsent", "due", "storing", "moving", "closing", "acked"}

ASSUME SyncAssumption ==
  /\ Records \subseteq Resources \X Nat /\ IsFiniteSet(Records)
  /\ Versions \in Nat \ {0} /\ IsFiniteSet(Syncs)
  /\ Settings \subseteq
       [records : SUBSET Records, syncs : Nat, width : Nat \ {0},
        types : SUBSET (Resources \cup {"all"}), modes : SUBSET BOOLEAN,
        limit : Nat \ {0}, edits : BOOLEAN, hooks : BOOLEAN,
        ordered : BOOLEAN, faults : SUBSET (Live \cup HookSteps \cup Pcs)]

VARIABLES
  active,   \* IntegrationShopifyStore.isActive
  shop,     \* the version of each record at Shopify
  stored,   \* and in the database, 0 when it is not there
  changed,  \* the records not older than the cursor of their resource
  runs,     \* the ShopifySyncRun rows
  told,     \* the notifications sent, with the run they are about
  call,     \* the requests: where they are, what they ask for, what they read
  step,     \* where a request is with each resource
  page,     \* the fetched records still to be written
  hook,     \* the webhook of each edit, and its ShopifyWebhookDelivery row
  setting   \* chosen once: the records of the store; how many syncs there are
            \* (a bound), and how many requests and deliveries are handled at a
            \* time; what is asked for, and whether incrementally; the length
            \* of a page; whether the store changes while requests are handled;
            \* whether webhooks are registered, and whether those of a record
            \* are delivered in order; the steps whose next statement may throw

vars == <<active, shop, stored, changed, runs, told, call, step, page, hook,
          setting>>

RunStatus == {"NONE", "RUNNING", "SUCCEEDED", "PARTIAL_SUCCESS", "FAILED"}
Kind(r) == r[1]
OfKind(res) == {r \in setting.records : Kind(r) = res}
Contents == Records \X (1..Versions)

TypeOK ==
  /\ active \in BOOLEAN
  /\ shop \in [Records -> 1..Versions]
  /\ stored \in [Records -> 0..Versions]
  /\ changed \subseteq Records
  /\ runs \in [Syncs -> RunStatus]
  /\ told \subseteq Syncs \X {"first", "failed"}
  /\ call \in [Syncs -> [pc : Pcs, type : Resources \cup {"all"},
                         incremental : BOOLEAN, since : SUBSET Records,
                         first : BOOLEAN]]
  /\ step \in [Syncs -> [Resources -> Steps]]
  /\ page \in [Syncs -> SUBSET Contents]
  /\ hook \in [Contents -> HookSteps]
  /\ setting \in Settings

Init ==
  /\ setting \in Settings
  /\ active = TRUE
  /\ shop = [r \in Records |-> 1]
  /\ stored = [r \in Records |-> 0]
  /\ changed = Records
  /\ runs = [c \in Syncs |-> "NONE"]
  /\ told = {}
  /\ call = [c \in Syncs |-> [pc |-> "idle", type |-> "all",
                              incremental |-> FALSE, since |-> Records,
                              first |-> FALSE]]
  /\ step = [c \in Syncs |-> [res \in Resources |-> "idle"]]
  /\ page = [c \in Syncs |-> {}]
  /\ hook = [w \in Contents |-> "unsent"]

At(c, pc) == call[c].pc = pc
Goto(c, pc) == call' = [call EXCEPT ![c].pc = pc]
InFlight == {c \in Syncs : call[c].pc \notin {"idle", "done"}}
Delivering == {w \in Contents : hook[w] \in {"storing", "moving", "closing"}}
Working == {w \in Syncs \X Resources : step[w[1]][w[2]] \in Live}
Free == Cardinality(InFlight) + Cardinality(Delivering) < setting.width

------------------------------------------------------------------------------
(* The store (external)                                                    *)

\* A merchant edits a record; its webhook is due when webhooks are registered.
Edit(r) ==
  /\ r \in setting.records /\ shop[r] < Versions
  /\ setting.edits \/ (InFlight = {} /\ Working = {})
  /\ shop' = [shop EXCEPT ![r] = @ + 1]
  /\ changed' = changed \cup {r}
  /\ call' = [c \in Syncs |-> [call[c] EXCEPT !.since = @ \cup {r}]]
  /\ hook' = IF setting.hooks /\ active
             THEN [hook EXCEPT ![<<r, shop'[r]>>] = "due"] ELSE hook
  /\ UNCHANGED <<active, stored, runs, told, step, page, setting>>

\* What a query for the records not older than the cursor answers: one page.
Pages(rs) ==
  LET n == Cardinality(rs)
  IN kSubset(IF n < setting.limit THEN n ELSE setting.limit, rs)

------------------------------------------------------------------------------
(* A sync                                                                  *)

\* The connection is looked up, and the cursor of an incremental sync.
Connect(c, type, incremental) ==
  /\ At(c, "idle") /\ active /\ Free
  /\ Cardinality({d \in Syncs : ~At(d, "idle")}) < setting.syncs
  /\ type \in setting.types /\ incremental \in setting.modes
  /\ incremental => type \in Resources
  /\ call' = [call EXCEPT ![c] =
       [pc |-> "creating", type |-> type, incremental |-> incremental,
        since |-> IF incremental THEN changed ELSE Records, first |-> FALSE]]
  /\ UNCHANGED <<active, shop, stored, changed, runs, told, step, page, hook,
                 setting>>

\* A sync of everything begins with the products.
Plan(type) ==
  IF type = "all"
  THEN [res \in Resources |-> IF res = "products" THEN "fetch" ELSE "waiting"]
  ELSE [res \in Resources |-> IF res = type THEN "fetch" ELSE "idle"]

CreateRun(c) ==
  /\ At(c, "creating")
  /\ runs' = [runs EXCEPT ![c] = "RUNNING"]
  /\ step' = [step EXCEPT ![c] = Plan(call[c].type)]
  /\ Goto(c, "working")
  /\ UNCHANGED <<active, shop, stored, changed, told, page, hook, setting>>

\* Only the full syncs look at the connection again.
Fetch(c, res) ==
  /\ step[c][res] = "fetch"
  /\ active \/ call[c].incremental
  /\ \E rs \in Pages(OfKind(res) \cap call[c].since) :
       page' = [page EXCEPT ![c] = @ \cup {<<r, shop[r]>> : r \in rs}]
  /\ step' = [step EXCEPT ![c][res] = "store"]
  /\ UNCHANGED <<active, shop, stored, changed, runs, told, call, hook,
                 setting>>

\* An upsert, which no longer knows how old its record is.
Store(c, r, v) ==
  /\ <<r, v>> \in page[c]
  /\ stored' = [stored EXCEPT ![r] = v]
  /\ page' = [page EXCEPT ![c] = @ \ {<<r, v>>}]
  /\ UNCHANGED <<active, shop, changed, runs, told, call, step, hook, setting>>

PageWritten(c, res) ==
  /\ step[c][res] = "store"
  /\ \A w \in page[c] : Kind(w[1]) # res

\* Mutant: the cursor is moved before the page is written.
MoveCursorFirst(c, res) ==
  /\ step[c][res] = "store"
  /\ changed' = changed \ OfKind(res)
  /\ step' = [step EXCEPT ![c] = [q \in Resources |->
                CASE q = res ->
                       IF PageWritten(c, res) THEN "synced" ELSE "store"
                  [] step[c][q] = "waiting" /\ PageWritten(c, res) -> "fetch"
                  [] OTHER -> step[c][q]]]
  /\ UNCHANGED <<active, shop, stored, runs, told, call, page, hook, setting>>

\* updateSyncCursor; the products of a sync of everything make way for the
\* other two resources.
MoveCursor(c, res) ==
  /\ PageWritten(c, res)
  /\ changed' = changed \ OfKind(res)
  /\ step' = [step EXCEPT ![c] = [q \in Resources |->
                CASE q = res -> "synced"
                  [] step[c][q] = "waiting" -> "fetch"
                  [] OTHER -> step[c][q]]]
  /\ UNCHANGED <<active, shop, stored, runs, told, call, page, hook, setting>>

\* Shopify refuses protected customer data: a sync of everything goes on
\* without the resource, any other sync fails.
Blocked(c, res) ==
  /\ step[c][res] = "fetch" /\ res \in Protected
  /\ IF call[c].type = "all"
     THEN step' = [step EXCEPT ![c][res] = "blocked"] /\ UNCHANGED call
     ELSE step' = [step EXCEPT ![c][res] = "failed"] /\ Goto(c, "failing")
  /\ UNCHANGED <<active, shop, stored, changed, runs, told, page, hook,
                 setting>>

\* Mutant: a status no reader of the rows knows.
OutcomeMisspelt(c) ==
  IF \E res \in Resources : step[c][res] = "blocked"
  THEN "PARTIAL" ELSE "SUCCEEDED"

Outcome(c) ==
  IF \E res \in Resources : step[c][res] = "blocked"
  THEN "PARTIAL_SUCCESS" ELSE "SUCCEEDED"

Ended(c) ==
  \A res \in Resources : step[c][res] \in {"idle", "synced", "blocked"}

\* Mutant: the run is closed with the first of its resources.
CloseEarly(c) ==
  /\ At(c, "working")
  /\ \E res \in Resources : step[c][res] \in {"synced", "blocked"}
  /\ runs' = [runs EXCEPT ![c] = Outcome(c)]
  /\ Goto(c, IF call[c].incremental THEN "done" ELSE "counting")
  /\ UNCHANGED <<active, shop, stored, changed, told, step, page, hook,
                 setting>>

Close(c) ==
  /\ At(c, "working") /\ Ended(c)
  /\ runs' = [runs EXCEPT ![c] = Outcome(c)]
  /\ Goto(c, IF call[c].incremental THEN "done" ELSE "counting")
  /\ UNCHANGED <<active, shop, stored, changed, told, step, page, hook,
                 setting>>

Successes == {d \in Syncs : runs[d] \in {"SUCCEEDED", "PARTIAL_SUCCESS"}}

Count(c) ==
  /\ At(c, "counting")
  /\ call' = [call EXCEPT ![c].pc = "notifying",
                          ![c].first = Cardinality(Successes) = 1]
  /\ UNCHANGED <<active, shop, stored, changed, runs, told, step, page, hook,
                 setting>>

notifySyncCompleted(c) ==
  /\ At(c, "notifying")
  /\ told' = IF call[c].first THEN told \cup {<<c, "first">>} ELSE told
  /\ Goto(c, "done")
  /\ UNCHANGED <<active, shop, stored, changed, runs, step, page, hook,
                 setting>>

\* The catch block, which does not ask whether the run has succeeded already.
MarkFailed(c) ==
  /\ At(c, "failing")
  /\ runs' = [runs EXCEPT ![c] = "FAILED"]
  /\ Goto(c, IF call[c].incremental THEN "done" ELSE "alarming")
  /\ UNCHANGED <<active, shop, stored, changed, told, step, page, hook,
                 setting>>

notifySyncFailed(c) ==
  /\ At(c, "alarming")
  /\ told' = told \cup {<<c, "failed">>}
  /\ Goto(c, "done")
  /\ UNCHANGED <<active, shop, stored, changed, runs, step, page, hook,
                 setting>>

\* A resource fails.  The first to do so fails the request; nobody hears of
\* the other.
ThrowInResource(c, res) ==
  /\ \/ step[c][res] \in Live \cap setting.faults
     \/ step[c][res] = "fetch" /\ ~active /\ ~call[c].incremental
  /\ step' = [step EXCEPT ![c][res] = "failed"]
  /\ page' = [page EXCEPT ![c] = {w \in @ : Kind(w[1]) # res}]
  /\ IF At(c, "working") THEN Goto(c, "failing") ELSE UNCHANGED call
  /\ UNCHANGED <<active, shop, stored, changed, runs, told, hook, setting>>

\* A statement of the request itself throws, the closing of its run included.
Throw(c) ==
  /\ \/ /\ call[c].pc \in {"counting", "notifying"} \cap setting.faults
        /\ Goto(c, "failing")
     \/ /\ At(c, "working") /\ Ended(c) /\ "counting" \in setting.faults
        /\ Goto(c, "failing")
     \/ /\ call[c].pc \in
             {"creating", "failing", "alarming"} \cap setting.faults
        /\ Goto(c, "done")
  /\ UNCHANGED <<active, shop, stored, changed, runs, told, step, page, hook,
                 setting>>

------------------------------------------------------------------------------
(* A webhook                                                               *)

SetHook(w, to) == hook' = [hook EXCEPT ![w] = to]

\* processWebhookDelivery up to handleTopic.  Deliveries are not told apart
\* from those already processed, nor is the store asked whether it is active.
Receive(r, v) ==
  /\ hook[<<r, v>>] = "due" /\ Free
  /\ setting.ordered =>
       \A u \in 1..v - 1 : hook[<<r, u>>] \in {"unsent", "acked"}
  /\ SetHook(<<r, v>>, "storing")
  /\ UNCHANGED <<active, shop, stored, changed, runs, told, call, step, page,
                 setting>>

\* Mutant: a record that is there already is not written again.
KeepOldRecord(r, v) ==
  /\ hook[<<r, v>>] = "storing"
  /\ stored' = [stored EXCEPT ![r] = IF @ = 0 THEN v ELSE @]
  /\ SetHook(<<r, v>>, "moving")
  /\ UNCHANGED <<active, shop, changed, runs, told, call, step, page, setting>>

StoreHook(r, v) ==
  /\ hook[<<r, v>>] = "storing"
  /\ stored' = [stored EXCEPT ![r] = v]
  /\ SetHook(<<r, v>>, "moving")
  /\ UNCHANGED <<active, shop, changed, runs, told, call, step, page, setting>>

\* The cursor of the whole resource, for one record of it.
MoveHook(r, v) ==
  /\ hook[<<r, v>>] = "moving"
  /\ changed' = changed \ OfKind(Kind(r))
  /\ SetHook(<<r, v>>, "closing")
  /\ UNCHANGED <<active, shop, stored, runs, told, call, step, page, setting>>

\* The delivery is SUCCEEDED and Shopify is told.
Acknowledge(r, v) ==
  /\ hook[<<r, v>>] = "closing"
  /\ SetHook(<<r, v>>, "acked")
  /\ UNCHANGED <<active, shop, stored, changed, runs, told, call, step, page,
                 setting>>

\* The delivery is FAILED, and Shopify delivers again.
FailHook(r, v) ==
  /\ hook[<<r, v>>] \in setting.faults \cap {"storing", "moving", "closing"}
  /\ SetHook(<<r, v>>, "due")
  /\ UNCHANGED <<active, shop, stored, changed, runs, told, call, step, page,
                 setting>>

\* Shopify delivers again what was acknowledged (external).
Redeliver(r, v) ==
  /\ hook[<<r, v>>] = "acked" /\ "acked" \in setting.faults
  /\ SetHook(<<r, v>>, "due")
  /\ UNCHANGED <<active, shop, stored, changed, runs, told, call, step, page,
                 setting>>

\* The app/uninstalled topic.
Uninstall ==
  /\ "due" \in setting.faults /\ active
  /\ active' = FALSE
  /\ UNCHANGED <<shop, stored, changed, runs, told, call, step, page, hook,
                 setting>>

\* The process ends: what it was doing is not taken up again.
Crash ==
  /\ "working" \in setting.faults
  /\ InFlight # {} \/ Working # {} \/ Delivering # {}
  /\ call' = [c \in Syncs |-> IF c \in InFlight
                             THEN [call[c] EXCEPT !.pc = "done"] ELSE call[c]]
  /\ step' = [c \in Syncs |-> [res \in Resources |->
                IF step[c][res] \in Live \cup {"waiting"}
                THEN "failed" ELSE step[c][res]]]
  /\ page' = [c \in Syncs |-> {}]
  /\ hook' = [w \in Contents |-> IF w \in Delivering THEN "due" ELSE hook[w]]
  /\ UNCHANGED <<active, shop, stored, changed, runs, told, setting>>

------------------------------------------------------------------------------

SyncStep(c) ==
  \/ CreateRun(c)
  \/ \E res \in Resources : Fetch(c, res) \/ MoveCursor(c, res)
  \/ \E w \in page[c] : Store(c, w[1], w[2])
  \/ Close(c) \/ Count(c) \/ notifySyncCompleted(c)
  \/ MarkFailed(c) \/ notifySyncFailed(c)

HookStep(r, v) ==
  Receive(r, v) \/ StoreHook(r, v) \/ MoveHook(r, v) \/ Acknowledge(r, v)

Setback ==
  \/ \E c \in Syncs : Throw(c)
  \/ \E c \in Syncs, res \in Resources :
       Blocked(c, res) \/ ThrowInResource(c, res)
  \/ \E r \in Records, v \in 1..Versions : FailHook(r, v) \/ Redeliver(r, v)
  \/ Uninstall \/ Crash

Next ==
  \/ \E r \in Records : Edit(r)
  \/ \E c \in Syncs, type \in Resources \cup {"all"}, incremental \in BOOLEAN :
       Connect(c, type, incremental)
  \/ \E c \in Syncs : SyncStep(c)
  \/ \E r \in Records, v \in 1..Versions : HookStep(r, v)
  \/ Setback

Spec == Init /\ [][Next]_vars

\* A handler that was begun goes on; Shopify delivers what is due until it is
\* acknowledged, and a statement tried again and again succeeds in the end.
FairSpec ==
  /\ Spec
  /\ \A c \in Syncs : WF_vars(SyncStep(c))
  /\ \A c \in Syncs, res \in Resources : WF_vars(ThrowInResource(c, res))
  /\ \A r \in Records, v \in 2..Versions :
       /\ SF_vars(Receive(r, v)) /\ SF_vars(StoreHook(r, v))
       /\ SF_vars(MoveHook(r, v)) /\ SF_vars(Acknowledge(r, v))

------------------------------------------------------------------------------
(* Properties                                                              *)

\* A run is a success only when every resource it was to bring is there or was
\* refused, and a full one only when none was refused: whatever the order in
\* which the two resources under way together end (runSync, executeSync).
SuccessIsEarned ==
  \A c \in Syncs : runs[c] \in {"SUCCEEDED", "PARTIAL_SUCCESS"} =>
    \A res \in Resources : step[c][res] \in
      {"idle", "synced"} \cup IF runs[c] = "SUCCEEDED" THEN {} ELSE {"blocked"}

\* "Shopify intelligence is now live" is said of one run at most, though the
\* runs count one another and a success may still turn into a failure
\* (runSync, notifySyncCompleted).
FirstIsToldOnce ==
  \A c, d \in Syncs :
    {<<c, "first">>, <<d, "first">>} \subseteq told => c = d

\* A record older than the cursor is in the database as it is in the store, so
\* that an incremental sync may pass it by, whatever runs beside it, fails or
\* stops on the way: as long as no webhook moves the cursor, the store is left
\* alone meanwhile and a page holds all there is (runIncrementalSync).
UpToCursor ==
  (/\ ~setting.edits /\ ~setting.hooks
   /\ \A res \in Resources : Cardinality(OfKind(res)) <= setting.limit) =>
  \A r \in setting.records \ changed : stored[r] = shop[r]

\* A run whose request has been answered is closed, unless the process stopped
\* or the row could not be written, and then it has nothing left to write, but
\* for the resource that is still at it when the other has thrown (runSync,
\* runIncrementalSync, executeSync).
RunIsClosed ==
  setting.faults \cap {"working", "failing"} = {} =>
    \A c \in Syncs : At(c, "done") =>
      /\ runs[c] # "RUNNING"
      /\ page[c] # {} => runs[c] = "FAILED"

\* What the row of a run says, and what was told of it, is true once its
\* request has been answered, whichever of its resources ended first and
\* whatever the runs beside it did (runSync, executeSync).
RunIsTrue == SuccessIsEarned /\ FirstIsToldOnce /\ RunIsClosed

\* When the webhooks of a record come in order and nothing is handled beside
\* them, the edited records end up as they are in the store, syncs or not
\* (processWebhookDelivery, handleTopic).
EditsArrive == <>[](\A r \in Records : shop[r] > 1 => stored[r] = shop[r])
==============================================================================
