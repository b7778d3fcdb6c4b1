------------------------------ MODULE MCBackfill ------------------------------
(***************************************************************************)
(* The records of a driver and the backfill, for TLC.                      *)
(***************************************************************************)
EXTENDS Backfill, TLC

Symmetry == Permutations(Calls)

Update(identity, joined, licence) ==
  [op |-> "update", identity |-> identity, joined |-> joined,
   licence |-> licence, status |-> ""]
ToStatus(category, value) ==
  [op |-> "status", category |-> category, value |-> value]

\* Updates of an old driver one at a time, the script before, between and after
\* them, everything broken off anywhere.
Aligning == [migrated |-> TRUE, stops |-> TRUE, calls |-> 4, width |-> 1,
  scripts |-> 2, overlaps |-> FALSE,
  requests |-> {Update("kept", 2, Missing), Update("kept", 1, 2),
                Update("code", Missing, 2), Update("linked", Missing, Missing),
                [op |-> "archive"]}]

\* A driver made by a request, and updated; another request for it.
Creating == [migrated |-> FALSE, stops |-> TRUE, calls |-> 3, width |-> 2,
  scripts |-> 1, overlaps |-> FALSE,
  requests |-> {[op |-> "create", joined |-> 1, licence |-> 1],
                Update("kept", 2, 2), [op |-> "archive"],
                [Update("kept", Missing, Missing) EXCEPT !.status = "ACTIVE"]}]

\* Statuses and documents before and after the move.
Filing == [migrated |-> TRUE, stops |-> TRUE, calls |-> 4, width |-> 1,
  scripts |-> 1, overlaps |-> FALSE,
  requests |-> {ToStatus("OPERATIONAL_STATUS", "ACTIVE"),
                ToStatus("OPERATIONAL_STATUS", "SUSPENDED"),
                ToStatus("ONBOARDING_STATUS", "APPROVED"),
                [op |-> "add", content |-> "PENDING"], [op |-> "archive"]}
               \cup [op : {"edit"}, document : Calls, content : {"VERIFIED"}]]

\* Two requests at a time, and the script among them.
Overlapping == [migrated |-> TRUE, stops |-> FALSE, calls |-> 3, width |-> 2,
  scripts |-> 1, overlaps |-> TRUE,
  requests |-> {Update("kept", 2, 2), Update("kept", Missing, 1),
                ToStatus("COMPLIANCE_STATUS", "UNDER_REVIEW"),
                [op |-> "archive"]}]

\* Documents written two at a time.
Papers == [migrated |-> TRUE, stops |-> FALSE, calls |-> 3, width |-> 2,
  scripts |-> 2, overlaps |-> FALSE,
  requests |-> {[op |-> "add", content |-> "REJECTED"],
                [op |-> "add", content |-> "VERIFIED"]}
               \cup [op : {"edit"}, document : Calls, content : {"VERIFIED"}]]

\* The status of a driver made by a request, which no script comes upon.
Changing == [migrated |-> FALSE, stops |-> TRUE, calls |-> 4, width |-> 1,
  scripts |-> 0, overlaps |-> FALSE,
  requests |-> {[op |-> "create", joined |-> 1, licence |-> 1],
                ToStatus("OPERATIONAL_STATUS", "ACTIVE"),
                ToStatus("OPERATIONAL_STATUS", "SUSPENDED"),
                ToStatus("ONBOARDING_STATUS", "APPROVED"),
                Update("code", 2, Missing)}]

AllSettings == {Aligning, Creating, Filing, Overlapping, Papers, Changing}
==============================================================================
