----------------------------- MODULE DomainEvents -----------------------------
(***************************************************************************)
(* The domain events every module publishes                                *)
(* (modules/notifications/domain-events.service.ts and                     *)
(* event-handlers.service.ts) and the trigger rules they set off           *)
(* (modules/triggers).                                                     *)
(*                                                                         *)
(* publish is a call, not a queue: it inserts the event, handles it, closes*)
(* it and never throws.  Handling runs the rules that listen to the type of*)
(* the event one after the other, and what they do is to publish again, so *)
(* a request is a stack of events being handled.  Only the top of a stack  *)
(* moves; the stacks of different requests interleave.  An error while the *)
(* rules are run ends their running but not the handling of the event.     *)
(***************************************************************************)
EXTENDS Naturals, Sequences, FiniteSets

CONSTANTS
  Requests,     \* the requests there may be at a time
  Aggregates,   \* what the root events are about
  MaxEvents,    \* the most events there may be, in any setting
  MaxRules,     \* the most rules
  Settings      \* the rules there are, and what may happen: see setting

Types == {"business", "requested", "succeeded", "failed", "skipped"}
Pcs == {"notifying", "rules", "blocking", "skipping", "logging", "starting",
        "acting", "recording", "announcing", "rulefailing", "lamenting",
        "closing", "failing"}

ASSUME EventsAssumption ==
  /\ Requests # {} /\ Aggregates # {} /\ Aggregates \cap (1..MaxRules) = {}
  /\ MaxEvents \in Nat /\ MaxRules \in Nat
  /\ \A s \in Settings :
       /\ s.listens \in Seq(Types) /\ Len(s.listens) <= MaxRules
       /\ s.does \in [DOMAIN s.listens -> {"notify", "request", "nothing"}]
       /\ s.cooling \subseteq DOMAIN s.listens
       /\ s.byAggregate \subseteq DOMAIN s.listens
       /\ s.aggregates \subseteq Aggregates
       /\ s.requests \in Nat /\ s.roots \in Nat /\ s.events \in 0..MaxEvents
       /\ s.slow \in BOOLEAN
       /\ s.faults \subseteq Pcs \cup {"publishing", "crashed"}

VARIABLES
  events,  \* the DomainEvent rows
  logs,    \* the TriggerExecutionLog rows, by rule and event
  recent,  \* those started within the cooldown, oldest first
  stack,   \* what each request is handling, outermost first
  setting  \* chosen once: the enabled rules, in the order of their priority
           \* (the event type each listens to, its action, whether it has a
           \* cooldown, and whether its dedupe key is the aggregate or the
           \* event); what the root events are about; how many requests are
           \* handled at a time, how many events they publish of themselves
           \* (a bound) and how many there may be (a bound); whether a cooldown
           \* may end while events are handled; the values of pc at which the
           \* next statement may throw

eventsVars == <<events, logs, recent, stack, setting>>

Rules == DOMAIN setting.listens

LogIds == (1..MaxRules) \X (1..MaxEvents)
LogStatus == {"NONE", "PENDING", "RUNNING", "SUCCEEDED", "SKIPPED", "FAILED",
              "COOLDOWN_BLOCKED"}
Open == {"PENDING", "RUNNING"}
\* Mutant: a log counts once it has succeeded.
CountedOnceDone == {"SUCCEEDED"}

Counted == Open \cup {"SUCCEEDED"}

EventsTypeOK ==
  /\ events \in Seq([type : Types, aggregate : Aggregates \cup 1..MaxRules,
                     cause : 0..MaxEvents,
                     status : {"PENDING", "PROCESSED", "FAILED"}])
  /\ Len(events) <= setting.events
  /\ logs \in [LogIds -> LogStatus]
  /\ recent \in Seq(LogIds)
  /\ stack \in [Requests -> Seq([event : 1..MaxEvents, pc : Pcs,
                                   rule : 0..MaxRules])]
  /\ setting \in Settings

EventsInit ==
  /\ setting \in Settings
  /\ events = <<>>
  /\ logs = [l \in LogIds |-> "NONE"]
  /\ recent = <<>>
  /\ stack = [q \in Requests |-> <<>>]

Top(q) == stack[q][Len(stack[q])]
At(q, pc) == stack[q] # <<>> /\ Top(q).pc = pc
Goto(q, pc) == stack' = [stack EXCEPT ![q][Len(stack[q])].pc = pc]
Return(q) == stack' = [stack EXCEPT ![q] = SubSeq(@, 1, Len(@) - 1)]
Log(q) == <<Top(q).rule, Top(q).event>>
SetLog(q, status) == logs' = [logs EXCEPT ![Log(q)] = status]
SetEvent(q, status) ==
  events' = [events EXCEPT ![Top(q).event].status = status]

------------------------------------------------------------------------------
(* publish                                                                 *)

Frame(e) ==
  [event |-> e, rule |-> 0,
   pc |-> IF events'[e].type = "business" THEN "notifying" ELSE "rules"]

\* The insert of an event and the call of its handlers, from the frames given.
InsertEvent(q, frames, type, aggregate, cause) ==
  /\ Len(events) < setting.events
  /\ events' = Append(events, [type |-> type, aggregate |-> aggregate,
                               cause |-> cause, status |-> "PENDING"])
  /\ stack' = [stack EXCEPT ![q] = Append(frames, Frame(Len(events) + 1))]

\* A rule publishes about itself; the event that set it off goes on at back.
\* When the insert throws there is no event, and nobody is told.
Publish(q, type, back) ==
  LET frames == [stack[q] EXCEPT ![Len(stack[q])].pc = back]
  IN \/ InsertEvent(q, frames, type, Top(q).rule, Top(q).event)
     \/ /\ "publishing" \in setting.faults
        /\ stack' = [stack EXCEPT ![q] = frames]
        /\ UNCHANGED events

\* A module publishes in the course of a request.
PublishRoot(q, a) ==
  /\ stack[q] = <<>> /\ a \in setting.aggregates
  /\ Cardinality({p \in Requests : stack[p] # <<>>}) < setting.requests
  /\ Cardinality({e \in DOMAIN events : events[e].cause = 0}) < setting.roots
  /\ InsertEvent(q, <<>>, "business", a, 0)
  /\ UNCHANGED <<logs, recent, setting>>

\* The notification of the event, which stands outside the handling of errors
\* of the rules.
Notify(q) ==
  /\ At(q, "notifying")
  /\ Goto(q, "rules")
  /\ UNCHANGED <<events, logs, recent, setting>>

\* Mutant: an event is closed as published.
ClosePublished(q) ==
  /\ At(q, "closing")
  /\ SetEvent(q, "PUBLISHED") /\ Return(q)
  /\ UNCHANGED <<logs, recent, setting>>

Close(q) ==
  /\ At(q, "closing")
  /\ SetEvent(q, "PROCESSED") /\ Return(q)
  /\ UNCHANGED <<logs, recent, setting>>

CloseFailed(q) ==
  /\ At(q, "failing")
  /\ SetEvent(q, "FAILED") /\ Return(q)
  /\ UNCHANGED <<logs, recent, setting>>

------------------------------------------------------------------------------
(* The rules                                                               *)

Left(q) == {r \in Rules : /\ r > Top(q).rule
                          /\ setting.listens[r] = events[Top(q).event].type}

SameKey(l, r, e) ==
  /\ l[1] = r
  /\ IF r \in setting.byAggregate
     THEN events[l[2]].aggregate = events[e].aggregate ELSE l[2] = e

CooldownActive(r, e) ==
  /\ r \in setting.cooling
  /\ \E i \in DOMAIN recent :
       SameKey(recent[i], r, e) /\ logs[recent[i]] \in Counted

\* The next rule that listens is evaluated.  Whether its conditions hold is in
\* the payload.
Evaluate(q) ==
  /\ At(q, "rules")
  /\ \E r \in Left(q) :
       /\ \A other \in Left(q) : r <= other
       /\ \E pc \in {"rules", IF CooldownActive(r, Top(q).event)
                             THEN "blocking" ELSE "logging"} :
            stack' = [stack EXCEPT ![q][Len(stack[q])].rule = r,
                                   ![q][Len(stack[q])].pc = pc]
  /\ UNCHANGED <<events, logs, recent, setting>>

NoRuleLeft(q) ==
  /\ At(q, "rules") /\ Left(q) = {}
  /\ Goto(q, "closing")
  /\ UNCHANGED <<events, logs, recent, setting>>

Block(q) ==
  /\ At(q, "blocking")
  /\ SetLog(q, "COOLDOWN_BLOCKED")
  /\ Goto(q, "skipping")
  /\ UNCHANGED <<events, recent, setting>>

TellSkipped(q) ==
  /\ At(q, "skipping")
  /\ Publish(q, "skipped", "rules")
  /\ UNCHANGED <<logs, recent, setting>>

CreateLog(q) ==
  /\ At(q, "logging")
  /\ SetLog(q, "PENDING")
  /\ recent' = Append(recent, Log(q))
  /\ Goto(q, "starting")
  /\ UNCHANGED <<events, setting>>

StartRule(q) ==
  /\ At(q, "starting")
  /\ SetLog(q, "RUNNING")
  /\ Goto(q, "acting")
  /\ UNCHANGED <<events, recent, setting>>

\* The actions that are more than a notification are asked for by an event.
Act(q) ==
  /\ At(q, "acting")
  /\ IF setting.does[Top(q).rule] = "request"
     THEN Publish(q, "requested", "recording")
     ELSE Goto(q, "recording") /\ UNCHANGED events
  /\ UNCHANGED <<logs, recent, setting>>

Record(q) ==
  /\ At(q, "recording")
  /\ SetLog(q, IF setting.does[Top(q).rule] = "nothing"
               THEN "SKIPPED" ELSE "SUCCEEDED")
  /\ Goto(q, "announcing")
  /\ UNCHANGED <<events, recent, setting>>

TellSucceeded(q) ==
  /\ At(q, "announcing")
  /\ Publish(q, "succeeded", "rules")
  /\ UNCHANGED <<logs, recent, setting>>

\* Mutant: an error of a rule is only told.
RuleFailedUnlogged(q) ==
  /\ At(q, "rulefailing")
  /\ Goto(q, "lamenting")
  /\ UNCHANGED <<events, logs, recent, setting>>

RuleFailed(q) ==
  /\ At(q, "rulefailing")
  /\ SetLog(q, "FAILED")
  /\ Goto(q, "lamenting")
  /\ UNCHANGED <<events, recent, setting>>

TellFailed(q) ==
  /\ At(q, "lamenting")
  /\ Publish(q, "failed", "rules")
  /\ UNCHANGED <<logs, recent, setting>>

------------------------------------------------------------------------------

\* Where an error at pc is caught: by the rule, by the dispatch of the rules,
\* or by publish; the error of a catch block of publish is dropped.
Caught(pc) ==
  CASE pc \in {"acting", "recording"} -> "rulefailing"
    [] pc \in {"rules", "blocking", "logging", "starting",
              "rulefailing"} -> "closing"
    [] OTHER -> "failing"

Throw(q) ==
  /\ stack[q] # <<>> /\ Top(q).pc \in setting.faults
  /\ Top(q).pc \notin {"skipping", "announcing", "lamenting"}
  /\ IF Top(q).pc = "failing" THEN Return(q) ELSE Goto(q, Caught(Top(q).pc))
  /\ UNCHANGED <<events, logs, recent, setting>>

\* The process of a request ends.
Crash(q) ==
  /\ "crashed" \in setting.faults /\ stack[q] # <<>>
  /\ stack' = [stack EXCEPT ![q] = <<>>]
  /\ UNCHANGED <<events, logs, recent, setting>>

\* The oldest log leaves the cooldown.
Elapse ==
  /\ recent # <<>>
  /\ setting.slow \/ \A q \in Requests : stack[q] = <<>>
  /\ recent' = Tail(recent)
  /\ UNCHANGED <<events, logs, stack, setting>>

Handle(q) ==
  \/ Notify(q) \/ Close(q) \/ CloseFailed(q)
  \/ Evaluate(q) \/ NoRuleLeft(q) \/ Block(q) \/ TellSkipped(q)
  \/ CreateLog(q) \/ StartRule(q) \/ Act(q) \/ Record(q) \/ TellSucceeded(q)
  \/ RuleFailed(q) \/ TellFailed(q)

EventsNext ==
  \/ \E q \in Requests :
       \/ \E a \in Aggregates : PublishRoot(q, a)
       \/ Handle(q) \/ Throw(q) \/ Crash(q)
  \/ Elapse

EventsSpec == EventsInit /\ [][EventsNext]_eventsVars

------------------------------------------------------------------------------
(* Properties                                                              *)

\* Within its cooldown a rule runs for a key once per request that is handled
\* at the time, whatever its own actions set off again on the way
\* (TriggerEvaluatorService.evaluate, createExecutionLog).
CooldownIsKept ==
  \A r \in setting.cooling \cap setting.byAggregate,
     a \in Aggregates \cup Rules :
    Cardinality({i \in DOMAIN recent :
                   /\ recent[i][1] = r
                   /\ logs[recent[i]] \in {"PENDING", "RUNNING", "SUCCEEDED"}
                   /\ events[recent[i][2]].aggregate = a})
      <= setting.requests

\* When an event is processed, all that it set off is over, however deep; each
\* of its rules that was not left aside has a closed log, and an event tells
\* what came of it: as long as the logs can be written and events inserted
\* (TriggerExecutionService.execute, DomainEventsService.publish).
RulesAreSettled ==
  setting.faults \subseteq {"notifying", "acting", "recording"} =>
  \A e \in DOMAIN events : events[e].status = "PROCESSED" =>
    /\ \A d \in DOMAIN events :
         events[d].cause = e => events[d].status # "PENDING"
    /\ \A r \in Rules :
         /\ logs[<<r, e>>] \notin Open
         /\ logs[<<r, e>>] # "NONE" <=>
              \E d \in DOMAIN events :
                events[d].cause = e /\ events[d].aggregate = r

\* The rules that answer to what rules publish.
Answering == {r \in Rules : setting.listens[r] # "business"}
\* They answer to requests and successes only, do something about them, and have
\* a cooldown by what the event is about, which outlasts the request.
CooldownsGuard ==
  /\ ~setting.slow
  /\ \A r \in Answering : /\ setting.listens[r] \in {"requested", "succeeded"}
                          /\ setting.does[r] # "nothing"
                          /\ r \in setting.cooling \cap setting.byAggregate

\* Rules that answer to one another, or to themselves, come to an end when they
\* have such cooldowns: no event is handled deeper within others than there are
\* things an answering rule may be set off by (processDomainEvent, evaluate).
CascadeIsBounded ==
  CooldownsGuard =>
    \A q \in Requests :
      Len(stack[q]) <= Cardinality(Answering) * Cardinality(Rules) + 3
==============================================================================
