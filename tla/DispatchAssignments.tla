------------------------- MODULE DispatchAssignments -------------------------
(***************************************************************************)
(* Driver and vehicle assignments of one organization                      *)
(* (modules/dispatch/dispatch.service.ts).                                 *)
(*                                                                         *)
(* createAssignment, updateAssignment and releaseAssignment read, decide   *)
(* and write with an await between each two, and no transaction.  The      *)
(* conflict check (ensureNoConflictingAssignments) looks for another       *)
(* assignment of the driver or of the vehicle that is in force; the write  *)
(* does not look again, and no constraint of the schema does it instead.   *)
(* Whether the driver, the vehicle, the zone, the shift and the user are   *)
(* fit for the assignment is data of other components: the handler may end *)
(* for such a reason at any point before its write (Refuse).               *)
(***************************************************************************)
EXTENDS Naturals, FiniteSets

CONSTANTS
  Calls,       \* the calls there will ever be; the row a call creates has
               \* the call for its id
  Drivers, Vehicles,
  Widths       \* how the service may be run: see width

ASSUME DispatchAssumption ==
  /\ IsFiniteSet(Calls) /\ Calls # {}
  /\ Drivers # {} /\ Vehicles # {} /\ Drivers \cap Vehicles = {}
  /\ Widths \subseteq Nat \ {0}

VARIABLES
  rows,      \* the DriverVehicleAssignment rows
  call,      \* the local state of each call
  width      \* chosen once: how many handlers can be between their read and
             \* their write

vars == <<rows, call, width>>

Status == {"ASSIGNED", "ACTIVE", "RELEASED", "CANCELLED", "SUSPENDED"}
Conflicting == {"ASSIGNED", "ACTIVE"}
Released == {"RELEASED", "CANCELLED"}

Row == [exists : BOOLEAN, driver : Drivers, vehicle : Vehicles,
        status : Status, releasedAt : BOOLEAN]
\* status is what is to be written; "KEEP" is an update of other fields.
Call == [pc : {"idle", "started", "checked", "done"}, row : Calls,
         driver : Drivers, vehicle : Vehicles, status : Status \cup {"KEEP"}]

TypeOK == /\ rows \in [Calls -> Row]
          /\ call \in [Calls -> Call]
          /\ width \in Widths

NoRow == [exists |-> FALSE, driver |-> CHOOSE d \in Drivers : TRUE,
          vehicle |-> CHOOSE v \in Vehicles : TRUE, status |-> "CANCELLED",
          releasedAt |-> FALSE]

\* A call without local state, because it is idle or done.
Resting(c, pc) ==
  [pc |-> pc, row |-> c, driver |-> NoRow.driver, vehicle |-> NoRow.vehicle,
   status |-> "KEEP"]

Init ==
  /\ rows = [c \in Calls |-> NoRow]
  /\ call = [c \in Calls |-> Resting(c, "idle")]
  /\ width \in Widths

InForce(r) == rows[r].exists /\ rows[r].status \in Conflicting
InFlight == {c \in Calls : call[c].pc \in {"started", "checked"}}

Start(c, local) ==
  /\ call[c].pc = "idle"
  /\ Cardinality(InFlight) < width
  /\ call' = [call EXCEPT ![c] = local]
  /\ UNCHANGED <<rows, width>>

\* findAssignableDriver and findAssignableVehicle have accepted d and v.
StartCreate(c, d, v, status) ==
  Start(c, [pc |-> "started", row |-> c, driver |-> d, vehicle |-> v,
            status |-> status])

\* Mutant: an update never looks for conflicts.
StartUpdateUnchecked(c, r, status) ==
  /\ rows[r].exists
  /\ Start(c, [pc |-> "checked", row |-> r, driver |-> rows[r].driver,
               vehicle |-> rows[r].vehicle, status |-> status])

\* The conflict check is passed over unless the next status is in force.
StartUpdate(c, r, status) ==
  LET next == IF status = "KEEP" THEN rows[r].status ELSE status
  IN  /\ rows[r].exists
      /\ Start(c, [pc |-> IF next \in Conflicting THEN "started" ELSE "checked",
                   row |-> r, driver |-> rows[r].driver,
                   vehicle |-> rows[r].vehicle, status |-> status])

\* releaseAssignment looks at the row's existence only.
StartRelease(c, r) ==
  /\ rows[r].exists
  /\ Start(c, [pc |-> "checked", row |-> r, driver |-> rows[r].driver,
               vehicle |-> rows[r].vehicle, status |-> "RELEASED"])

\* Mutant: a row conflicts only when both the driver and the vehicle match.
ConflictsOfPair(c) ==
  {r \in Calls \ {call[c].row} :
     /\ InForce(r)
     /\ rows[r].driver = call[c].driver
     /\ rows[r].vehicle = call[c].vehicle}

\* Other assignments in force of the driver or of the vehicle.
Conflicts(c) ==
  {r \in Calls \ {call[c].row} :
     /\ InForce(r)
     /\ \/ rows[r].driver = call[c].driver
        \/ rows[r].vehicle = call[c].vehicle}

CheckConflicts(c) ==
  /\ call[c].pc = "started"
  /\ Conflicts(c) = {}
  /\ call' = [call EXCEPT ![c].pc = "checked"]
  /\ UNCHANGED <<rows, width>>

\* 409, or one of the other refusals.
Refuse(c) ==
  /\ call[c].pc = "started"
  /\ call' = [call EXCEPT ![c] = Resting(c, "done")]
  /\ UNCHANGED <<rows, width>>

\* Mutant: an update that keeps the status is written as an insert.
InsertWithoutStatus(c) ==
  /\ call[c].pc = "checked"
  /\ rows' = [rows EXCEPT ![c] =
                [exists |-> TRUE, driver |-> call[c].driver,
                 vehicle |-> call[c].vehicle, status |-> call[c].status,
                 releasedAt |-> FALSE]]
  /\ call' = [call EXCEPT ![c] = Resting(c, "done")]
  /\ UNCHANGED width

Insert(c) ==
  /\ call[c].pc = "checked"
  /\ call[c].row = c
  /\ rows' = [rows EXCEPT ![c] =
                [exists |-> TRUE, driver |-> call[c].driver,
                 vehicle |-> call[c].vehicle, status |-> call[c].status,
                 releasedAt |-> FALSE]]
  /\ call' = [call EXCEPT ![c] = Resting(c, "done")]
  /\ UNCHANGED width

\* releasedAt is set by a release or a cancellation and never cleared.
Write(c) ==
  /\ call[c].pc = "checked"
  /\ call[c].row # c
  /\ call[c].status # "KEEP"
  /\ rows' = [rows EXCEPT
                ![call[c].row].status = call[c].status,
                ![call[c].row].releasedAt = @ \/ call[c].status \in Released]
  /\ call' = [call EXCEPT ![c] = Resting(c, "done")]
  /\ UNCHANGED width

\* An update of other fields, or the handler dies before its write.
WriteNothing(c) ==
  /\ call[c].pc = "checked"
  /\ call' = [call EXCEPT ![c] = Resting(c, "done")]
  /\ UNCHANGED <<rows, width>>

Next ==
  \E c \in Calls :
    \/ \E d \in Drivers, v \in Vehicles, status \in Status :
         StartCreate(c, d, v, status)
    \/ \E r \in Calls, status \in Status \cup {"KEEP"} :
         StartUpdate(c, r, status)
    \/ \E r \in Calls : StartRelease(c, r)
    \/ CheckConflicts(c) \/ Refuse(c)
    \/ Insert(c) \/ Write(c) \/ WriteNothing(c)

Spec == Init /\ [][Next]_vars

(***************************************************************************)
(* Properties                                                              *)
(***************************************************************************)

InForceFor(x) ==
  {r \in Calls : InForce(r) /\ x \in {rows[r].driver, rows[r].vehicle}}

\* No driver and no vehicle ever has more assignments in force than there
\* are handlers at work at once: the check that the handlers race past stops
\* everybody who comes later.  With one handler at a time this is the rule
\* that a driver or a vehicle has at most one.
RaceIsBounded ==
  \A x \in Drivers \cup Vehicles : Cardinality(InForceFor(x)) <= width

\* What the rows say of who uses what.
Use == [r \in Calls |-> IF InForce(r) THEN {rows[r].driver, rows[r].vehicle}
                        ELSE {}]

ExclusiveUse == INSTANCE ExclusiveUse
  WITH Holders <- Calls, Resources <- Drivers \cup Vehicles, use <- Use

\* One handler at a time hands out drivers and vehicles exclusively.
ImplementsExclusiveUse ==
  /\ ExclusiveUse!Init
  /\ [][width = 1 => [ExclusiveUse!Next]_Use]_vars
==============================================================================
