--------------------------- MODULE MCProposalReview ---------------------------
(* The instances of ProposalReview that TLC checks.                         *)
EXTENDS ProposalReview, TLC

\* A drop of revenue and one of orders lead to one recommendation and to one
\* proposal; drafts of the store come before those of figures.
Kind == [c \in Conditions |-> IF c = "orders" THEN "revenue" ELSE c]
DraftOrder == "sync" :> 1 @@ "revenue" :> 2 @@ "product" :> 3 @@ "orders" :> 4

\* The store comes first and products last, or the other way round.
StoreFirst == "sync" :> 1 @@ "orders" :> 2 @@ "revenue" :> 3 @@ "product" :> 4
StoreLast == "product" :> 1 @@ "revenue" :> 2 @@ "orders" :> 3 @@ "sync" :> 4

Symmetry == Permutations(Tasks) \cup Permutations(Calls)

AllWrong == [shows |-> [c \in Conditions |-> 1], order |-> StoreFirst]
Base == [readers |-> 0, tasks |-> 0, forces |-> FALSE, changes |-> 0,
         stops |-> 0, worlds |-> {AllWrong}, orders |-> {StoreFirst},
         kinds |-> {}, width |-> 1, reviewers |-> 1, calls |-> 0, fan |-> 0]

\* Readings only: two at a time that insist and stop, in a store that changes;
\* in one whose order changes too; and three at a time.
Readings == [Base EXCEPT !.readers = 2, !.tasks = 3, !.forces = TRUE,
                         !.changes = 1, !.stops = 1]
Reordered == [Readings EXCEPT !.forces = FALSE, !.stops = 0,
                              !.orders = {StoreFirst, StoreLast}]
Crowd == [Base EXCEPT !.readers = 3, !.tasks = 3]

\* Requests that list, with three readings at once, one of which may fail.
Lists == [Base EXCEPT !.kinds = {"list"}, !.calls = 1, !.fan = 3,
                      !.changes = 1]
Failing == [Lists EXCEPT !.changes = 0, !.stops = 1]

\* One request at a time, of every kind.
Serial == [Base EXCEPT !.kinds = RequestKinds, !.readers = 1, !.tasks = 1,
                       !.changes = 1, !.stops = 1, !.calls = 3]

\* Requests that overlap.
Overlap == [Base EXCEPT !.kinds = Generates \cup {"decide"}, !.width = 2,
                        !.changes = 1, !.calls = 5]
Reviewers == [Base EXCEPT !.kinds = {"list"} \cup Reviews, !.width = 2,
                          !.reviewers = 2, !.calls = 4, !.stops = 1]

AllSettings == {Readings, Reordered, Crowd, Lists, Failing, Serial, Overlap,
                Reviewers}
==============================================================================
