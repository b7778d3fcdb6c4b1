---------------------------- MODULE ProposalReview ----------------------------
(***************************************************************************)
(* Action proposals and their review                                       *)
(* (modules/intelligence/ai-action-proposal-engine.service.ts,             *)
(* action-proposal.service.ts, action-proposal-review.service.ts).         *)
(*                                                                         *)
(* Listing the proposals makes them: the request reads signals and         *)
(* recommendations, several readings at once (module Insights), drafts at  *)
(* most MaxDrafts proposals, and writes each draft over the active proposal*)
(* of its type or as a new one; a refresh also archives the active ones it *)
(* did not come by.  A reviewer submits a proposal or decides it: the      *)
(* request reads the status in one statement and writes it in another.     *)
(***************************************************************************)
EXTENDS Insights

CONSTANTS
  Calls,                 \* the requests there may be at a time
  Proposes,              \* the type of proposal a condition leads to, if any,
                         \* named by one of the conditions that lead to it
  Order,                 \* the rank of a type's draft among the drafts
  MaxDrafts,             \* how many drafts a request keeps (5 in the code)
  EngineWindow,          \* how many generated proposals are looked at (50)
  RecommendationWindow,  \* how many of recommendations are looked at (10)
  MaxProposals           \* the most proposals there may ever be: a bound

Generates == {"list", "refresh"}
Reviews == {"submit", "decide"}
RequestKinds == Generates \cup Reviews \cup {"create"}

ASSUME ReviewAssumption ==
  /\ IsFiniteSet(Calls)
  /\ DOMAIN Proposes \subseteq Conditions
  /\ Proposes \in [DOMAIN Proposes -> Conditions]
  /\ Order \in [Conditions -> Nat] /\ IsInjective(Order)
  /\ MaxDrafts \in Nat /\ EngineWindow \in Nat /\ RecommendationWindow \in Nat
  /\ MaxProposals \in Nat
  /\ \A s \in Settings : /\ s.kinds \subseteq RequestKinds
                         /\ s.width \in Nat /\ s.reviewers \in Nat
                         /\ s.calls \in Nat /\ s.fan \in 0..4

VARIABLES
  proposals,  \* the ActionProposal rows with their reviews, oldest first
  decisions,  \* the DecisionLog rows: of each proposal, how many of a decision
  told,       \* the notifications of decisions, likewise
  call,       \* the requests
  begun,      \* how many there have been
  allowed     \* how many active proposals of a type they may have left: see
              \* OneActivePerType
\* Of setting this module reads: the kinds of requests there are; how many are
\* handled at a time, and of those how many review; how many requests there are
\* ever; how many of the four readings of a request that generates are followed
\* (the others find nothing to change).

reviewVars == <<proposals, decisions, told, call, begun, allowed>>
vars == <<insightVars, reviewVars>>

Decision == {"APPROVED", "REJECTED", "NEEDS_REVISION", "DEFERRED"}
Status == Decision \cup {"PENDING", "IN_REVIEW", "ARCHIVED"}
ProposalIds == 1..MaxProposals
Proposal ==
  [source : {"engine", "recommendation"}, condition : Conditions \cup {Rhythm},
   version : Versions \cup {Absent}, recommendation : 0..MaxRows,
   status : Status, reviews : Seq(Decision)]
Call ==
  [pc : {"idle", "building", "built", "persisting", "found", "clear", "read",
         "decided", "telling", "told"},
   kind : RequestKinds, id : 0..MaxProposals, decision : Decision,
   drafts : SUBSET Draft, existing : SUBSET ProposalIds,
   used : SUBSET ProposalIds, readings : SUBSET Tasks, source : SUBSET Row,
   alone : BOOLEAN]

TypeOK ==
  /\ InsightsTypeOK
  /\ proposals \in Seq(Proposal) /\ Len(proposals) <= MaxProposals
  /\ decisions \in [ProposalIds -> [Decision -> Nat]]
  /\ told \in [ProposalIds -> [Decision -> Nat]]
  /\ call \in [Calls -> Call]
  /\ begun \in 0..setting.calls
  /\ allowed \in Nat

IdleCall == [pc |-> "idle", kind |-> "list", id |-> 0, decision |-> "APPROVED",
             drafts |-> {}, existing |-> {}, used |-> {}, readings |-> {},
             source |-> {}, alone |-> FALSE]

Init ==
  /\ InsightsInit
  /\ proposals = <<>>
  /\ decisions = [p \in ProposalIds |-> [d \in Decision |-> 0]]
  /\ told = decisions
  /\ call = [c \in Calls |-> IdleCall]
  /\ begun = 0
  /\ allowed = 1

InFlight(c) == call[c].pc # "idle"
Handled(kinds) == {c \in Calls : InFlight(c) /\ call[c].kind \in kinds}
SetCall(c, fields) == call' = [call EXCEPT ![c] = fields]
CallGoto(c, pc) == SetCall(c, [call[c] EXCEPT !.pc = pc])
Finish(c) == SetCall(c, IdleCall)
SetProposal(p, row) == proposals' = [proposals EXCEPT ![p] = row]

\* A request may begin.
MayEnter(c, kind) ==
  /\ ~InFlight(c) /\ kind \in setting.kinds
  /\ Cardinality(Handled(RequestKinds)) < setting.width
  /\ begun < setting.calls /\ begun' = begun + 1
  /\ kind \in Reviews => Cardinality(Handled(Reviews)) < setting.reviewers

Ids == DOMAIN proposals
From(source) == {p \in Ids : proposals[p].source = source}
\* Of some proposals the newest, at most n of them: orderBy and take.
Newest(ids, n) == {p \in ids : Cardinality({q \in ids : q > p}) < n}

------------------------------------------------------------------------------
(* Generating proposals                                                    *)

\* What may be proposed for what the store shows: several things may lead to a
\* proposal of one type, some to none.
Proposed ==
  {[condition |-> Proposes[d.condition], version |-> d.version] :
     d \in {e \in SignalsOf(world) : e.condition \in DOMAIN Proposes}}

\* The first drafts there are, one of a type; which of several figures it bears
\* is left open.
Drafts ==
  Picks({d \in Proposed :
           Cardinality({e.condition : e \in {x \in Proposed :
                          Order[x.condition] < Order[d.condition]}})
             < MaxDrafts})

\* ensureCurrentProposals: the readings start, two of signals and two of
\* recommendations, its own and those of the daily brief.
Generate(c, kind) ==
  /\ MayEnter(c, kind) /\ kind \in Generates
  /\ \E S \in SUBSET Idle :
       /\ Cardinality(S) = setting.fan
       /\ \E last \in [S -> Kinds] :
            /\ \A k \in Kinds : Cardinality({t \in S : last[t] = k}) <= 2
            /\ Start(S, last, {})
       /\ LET others == Handled(Generates)
          IN  /\ allowed' = IF others = {} THEN allowed
                           ELSE Max({allowed, setting.width})
              /\ call' = [e \in Calls |->
                    IF e = c
                    THEN [IdleCall EXCEPT !.pc = "building", !.kind = kind,
                                          !.readings = S,
                                          !.alone = others = {}]
                    ELSE [call[e] EXCEPT !.alone = FALSE]]
  /\ UNCHANGED <<world, tables, changes, stops, setting, proposals, decisions,
                 told>>

BuildDrafts(c) ==
  /\ call[c].pc = "building"
  /\ \E drafts \in Drafts :
       SetCall(c, [call[c] EXCEPT !.pc = "built", !.drafts = drafts])
  /\ UNCHANGED <<insightVars, proposals, decisions, told, begun, allowed>>

ActiveGenerated == {"PENDING", "IN_REVIEW", "NEEDS_REVISION", "APPROVED",
                    "DEFERRED"}

\* All readings have ended: the active proposals are looked up.
LoadExisting(c) ==
  /\ call[c].pc = "built"
  /\ \A t \in call[c].readings : task[t].pc = "done"
  /\ SetCall(c, [call[c] EXCEPT
                   !.pc = "persisting",
                   !.existing = {p \in Newest(From("engine"), EngineWindow) :
                                   proposals[p].status \in ActiveGenerated}])
  /\ UNCHANGED <<insightVars, proposals, decisions, told, begun, allowed>>

\* Mutant: a proposal whose figures have changed is a new one.
MatchesByFigures(p, draft) ==
  /\ proposals[p].condition = draft.condition
  /\ proposals[p].version = draft.version

\* The dedupe key is not stored, so the type decides; a proposal never changes
\* it.
Matches(p, draft) == proposals[p].condition = draft.condition

\* The next draft is written: over the newest active proposal that matches,
\* whatever has become of that since, or as a new one.
Persist(c) ==
  /\ call[c].pc = "persisting"
  /\ \E draft \in call[c].drafts :
       LET hits == {p \in call[c].existing : Matches(p, draft)}
           next == [call[c] EXCEPT !.drafts = @ \ {draft}]
       IN  /\ \A d \in call[c].drafts :
                Order[draft.condition] <= Order[d.condition]
           /\ \/ \E p \in hits :
                   /\ \A q \in hits : q <= p
                   /\ SetProposal(p, [proposals[p] EXCEPT
                                        !.version = draft.version])
                   /\ SetCall(c, [next EXCEPT !.used = @ \cup {p}])
              \/ /\ hits = {} /\ Len(proposals) < MaxProposals
                 /\ proposals' = Append(proposals,
                      [source |-> "engine", condition |-> draft.condition,
                       version |-> draft.version, recommendation |-> 0,
                       status |-> "PENDING", reviews |-> <<>>])
                 /\ SetCall(c, [next EXCEPT
                                  !.used = @ \cup {Len(proposals) + 1}])
  /\ UNCHANGED <<insightVars, decisions, told, begun, allowed>>

\* A refresh archives what it looked up and did not come by; the proposals are
\* read back.
Archive(c) ==
  LET stale == call[c].existing \ call[c].used
      archives == call[c].kind = "refresh"
  IN  /\ call[c].pc = "persisting" /\ call[c].drafts = {}
      /\ proposals' = [p \in Ids |->
           IF archives /\ p \in stale
           THEN [proposals[p] EXCEPT !.status = "ARCHIVED"] ELSE proposals[p]]
      /\ allowed' = IF archives /\ call[c].alone THEN 1 ELSE allowed
      /\ Finish(c)
      /\ UNCHANGED <<insightVars, decisions, told, begun>>

\* A reading has failed, and with it the request.
Abandon(c) ==
  /\ call[c].pc \in {"building", "built"}
  /\ \E t \in call[c].readings : task[t].pc = "stopped"
  /\ Finish(c)
  /\ UNCHANGED <<insightVars, proposals, decisions, told, begun, allowed>>

------------------------------------------------------------------------------
(* A proposal from a recommendation                                        *)

\* createFromRecommendation: the recommendation must be active.
FindRecommendation(c) ==
  /\ MayEnter(c, "create")
  /\ \E row \in active["recommendations"] :
       SetCall(c, [IdleCall EXCEPT !.pc = "found", !.kind = "create",
                                   !.source = {row}])
  /\ UNCHANGED <<insightVars, proposals, decisions, told, allowed>>

ActiveProposal == ActiveGenerated \ {"DEFERRED"}

\* No active proposal among the newest is of this recommendation.
LookForDuplicate(c) ==
  LET mine == {p \in From("recommendation") :
                 proposals[p].status \in ActiveProposal}
      found == \E p \in Newest(mine, RecommendationWindow) :
                 \E row \in call[c].source :
                   proposals[p].recommendation = row.id
  IN  /\ call[c].pc = "found"
      /\ IF found THEN Finish(c) ELSE CallGoto(c, "clear")
      /\ UNCHANGED <<insightVars, proposals, decisions, told, begun, allowed>>

CreateFromRecommendation(c) ==
  /\ call[c].pc = "clear" /\ Len(proposals) < MaxProposals
  /\ \E row \in call[c].source :
       proposals' = Append(proposals,
         [source |-> "recommendation", condition |-> row.condition,
          version |-> row.version, recommendation |-> row.id,
          status |-> "PENDING", reviews |-> <<>>])
  /\ Finish(c)
  /\ UNCHANGED <<insightVars, decisions, told, begun, allowed>>

------------------------------------------------------------------------------
(* Review                                                                  *)

Submittable == {"PENDING", "NEEDS_REVISION"}
PendingStatuses == {"PENDING", "IN_REVIEW", "NEEDS_REVISION"}

\* The read of the proposal and the guard on its status.
BeginReview(c, kind, p, d) ==
  /\ kind \in Reviews /\ MayEnter(c, kind) /\ p \in Ids
  /\ proposals[p].status \in
       (IF kind = "submit" THEN Submittable ELSE PendingStatuses)
  /\ SetCall(c, [IdleCall EXCEPT !.pc = "read", !.kind = kind, !.id = p,
                                 !.decision = d])
  /\ UNCHANGED <<insightVars, proposals, decisions, told, allowed>>

\* A review may bring back a proposal that was closed since it was read.
Reopens(p, status) == /\ proposals[p].status \notin ActiveGenerated
                      /\ status \in ActiveGenerated
Review(c, status, reviews, next) ==
  LET p == call[c].id
      reopens == Reopens(p, status)
  IN  /\ SetProposal(p, [proposals[p] EXCEPT !.status = status,
                                             !.reviews = reviews])
      /\ call' = [e \in Calls |->
                    IF e = c THEN next
                    ELSE [call[e] EXCEPT !.alone = @ /\ ~reopens]]
      /\ allowed' = IF reopens THEN allowed + 1 ELSE allowed
      /\ UNCHANGED <<insightVars, decisions, told, begun>>

Submit(c) ==
  /\ call[c].pc = "read" /\ call[c].kind = "submit"
  /\ Review(c, "IN_REVIEW", proposals[call[c].id].reviews, IdleCall)

\* The transaction of applyDecision: the status and the review.
Decide(c) ==
  /\ call[c].pc = "read" /\ call[c].kind = "decide"
  /\ Review(c, call[c].decision,
            Append(proposals[call[c].id].reviews, call[c].decision),
            [call[c] EXCEPT !.pc = "decided"])

\* notifyProposalDecision looks for the same notification, ...
LookForDecisionNote(c) ==
  /\ call[c].pc = "decided"
  /\ CallGoto(c, IF told[call[c].id][call[c].decision] > 0 THEN "told"
                 ELSE "telling")
  /\ UNCHANGED <<insightVars, proposals, decisions, told, begun, allowed>>

\* ... and makes it.
NotifyDecision(c) ==
  /\ call[c].pc = "telling"
  /\ told' = [told EXCEPT ![call[c].id][call[c].decision] = @ + 1]
  /\ CallGoto(c, "told")
  /\ UNCHANGED <<insightVars, proposals, decisions, begun, allowed>>

\* Mutant: only final decisions are learned from.
RecordFinalDecision(c) ==
  /\ call[c].pc = "told"
  /\ decisions' = [decisions EXCEPT
       ![call[c].id][call[c].decision] =
          IF call[c].decision = "NEEDS_REVISION" THEN @ ELSE @ + 1]
  /\ Finish(c)
  /\ UNCHANGED <<insightVars, proposals, told, begun, allowed>>

\* recordDecision of the learning loop.
RecordDecision(c) ==
  /\ call[c].pc = "told"
  /\ decisions' = [decisions EXCEPT ![call[c].id][call[c].decision] = @ + 1]
  /\ Finish(c)
  /\ UNCHANGED <<insightVars, proposals, told, begun, allowed>>

------------------------------------------------------------------------------

\* A statement of a request throws, or the process stops.
StopCall(c) ==
  /\ InFlight(c) /\ stops < setting.stops
  /\ stops' = stops + 1
  /\ Finish(c)
  /\ UNCHANGED <<world, tables, task, calm, bundle, changes, setting, proposals,
                 decisions, told, begun, allowed>>

CallStep(c) ==
  \/ BuildDrafts(c) \/ LoadExisting(c) \/ Persist(c) \/ Archive(c) \/ Abandon(c)
  \/ LookForDuplicate(c) \/ CreateFromRecommendation(c)
  \/ Submit(c) \/ Decide(c) \/ LookForDecisionNote(c) \/ NotifyDecision(c)
  \/ RecordDecision(c)

Next ==
  \/ InsightsNext /\ UNCHANGED reviewVars
  \/ \E c \in Calls :
       \/ \E kind \in Generates : Generate(c, kind)
       \/ FindRecommendation(c)
       \/ \E kind \in Reviews, p \in ProposalIds, d \in Decision :
            BeginReview(c, kind, p, d)
       \/ CallStep(c)
       \/ StopCall(c)

Spec == Init /\ [][Next]_vars

------------------------------------------------------------------------------
(* Properties                                                              *)

Final == Decision \ {"NEEDS_REVISION"}

\* The statuses a proposal may have after its reviews.
After(reviews) ==
  {"ARCHIVED"} \cup
  (IF reviews = <<>> THEN {"PENDING", "IN_REVIEW"}
   ELSE IF Last(reviews) = "NEEDS_REVISION" THEN {"NEEDS_REVISION", "IN_REVIEW"}
   ELSE {Last(reviews)})

\* As long as two reviewers are not at work at once, a proposal is decided once
\* for good and its status is what its reviews say, however lists and refreshes
\* rewrite it meanwhile and whatever stops.
StatusFollowsReviews ==
  setting.reviewers <= 1 =>
    \A p \in Ids :
      /\ proposals[p].status \in After(proposals[p].reviews)
      /\ \A i \in DOMAIN proposals[p].reviews :
           proposals[p].reviews[i] \in Final => i = Len(proposals[p].reviews)

Times(d, reviews) == Cardinality({i \in DOMAIN reviews : reviews[i] = d})

\* learning-loop.md:78: a DecisionLog is recorded when a proposal is decided.
\* Never more than one for each review, however reviewers overlap, and just one,
\* with its notification, once all requests have ended and none before its time.
DecisionsAreLearned ==
  \A p \in Ids, d \in Decision :
    LET reviewed == Times(d, proposals[p].reviews)
    IN  /\ decisions[p][d] <= reviewed
        /\ stops = 0 /\ Handled(Reviews) = {} =>
             /\ decisions[p][d] = reviewed
             /\ reviewed > 0 => told[p][d] > 0

ReviewsAreKept == StatusFollowsReviews /\ DecisionsAreLearned

Active(condition) ==
  {p \in From("engine") : /\ proposals[p].condition = condition
                          /\ proposals[p].status \in ActiveGenerated}

\* While the engine sees all it has generated, a refresh that generated alone
\* leaves one active proposal of a type at most, and lists leave it so.  Only
\* requests that generate side by side make more, never more than there are at a
\* time, and reviews that bring back a proposal closed since they read it.
OneActivePerType ==
  Cardinality(From("engine")) <= EngineWindow =>
    \A c \in Conditions : Cardinality(Active(c)) <= allowed

\* Requests served one at a time make one active proposal of a recommendation,
\* as long as no more have been made of recommendations than are looked at: of
\* more, one may be closed that hid an older one from the look.
OneActivePerRecommendation ==
  LET mine == {p \in From("recommendation") :
                 proposals[p].status \in ActiveProposal}
  IN  (/\ setting.width <= 1
       /\ Cardinality(From("recommendation")) <= RecommendationWindow)
      => \A p, q \in mine :
           proposals[p].recommendation = proposals[q].recommendation => p = q

ProposalsAreDistinct == OneActivePerType /\ OneActivePerRecommendation
==============================================================================
