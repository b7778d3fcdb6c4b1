---------------------------- MODULE MCDomainEvents ----------------------------
(* The instances of DomainEvents that TLC checks.                          *)
EXTENDS DomainEvents, TLC

RequestSymmetry == Permutations(Requests)

\* A rule that tells somebody of an event: two requests, three events about two
\* things, everything may fail.
Race == [listens |-> <<"business">>, does |-> <<"notify">>,
         cooling |-> {1}, byAggregate |-> {1}, aggregates |-> Aggregates,
         requests |-> 2, roots |-> 3, events |-> 6, slow |-> TRUE,
         faults |-> {"starting", "recording", "rulefailing", "crashed"}]

\* A workflow asked for on an event, a notification of the request, and a rule
\* that listens to what was skipped: one request at a time.
Serial == [listens |-> <<"business", "requested", "skipped">>,
           does |-> <<"request", "notify", "nothing">>,
           cooling |-> {1}, byAggregate |-> {1},
           aggregates |-> {CHOOSE a \in Aggregates : TRUE},
           requests |-> 1, roots |-> 3, events |-> 13, slow |-> TRUE,
           faults |-> {"notifying", "acting", "recording"}]

\* A rule that answers to itself.
Loop == [listens |-> <<"business", "requested">>,
         does |-> <<"request", "request">>,
         cooling |-> {2}, byAggregate |-> {2},
         aggregates |-> {CHOOSE a \in Aggregates : TRUE},
         requests |-> 1, roots |-> 1, events |-> 9, slow |-> FALSE,
         faults |-> {"notifying", "acting", "recording", "publishing",
                     "failing"}]

\* A rule that answers to what succeeds, its own successes included.
Echo == [listens |-> <<"business", "succeeded">>,
         does |-> <<"notify", "notify">>,
         cooling |-> {2}, byAggregate |-> {2},
         aggregates |-> {CHOOSE a \in Aggregates : TRUE},
         requests |-> 1, roots |-> 1, events |-> 9, slow |-> FALSE,
         faults |-> {"notifying", "acting", "recording", "publishing",
                     "failing"}]

AllSettings == {Race, Serial, Loop, Echo}
==============================================================================
