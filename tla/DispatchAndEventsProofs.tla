----------------------- MODULE DispatchAndEventsProofs ------------------------
(***************************************************************************)
(* Proofs about DispatchAssignments and about DomainEvents, two components *)
(* that have nothing to do with one another but the form of the argument.  *)
(*                                                                         *)
(* DispatchAssignments, for every number of calls, drivers, vehicles and   *)
(* handlers at work at once: the types, the bound on the assignments in    *)
(* force, and the refinement of ExclusiveUse by one handler at a time.     *)
(*                                                                         *)
(* The invariant looks at claims: the assignments that are in force for a  *)
(* driver or a vehicle, and those that a handler past its conflict check   *)
(* is about to put in force.  A handler that passes the check has seen no  *)
(* assignment in force but the one it works on, so at that moment all the  *)
(* claims are those of handlers at work.  A write turns one kind of claim  *)
(* into the other, and nothing else adds to them.                          *)
(*                                                                         *)
(* DomainEvents, for every set of rules and any number of requests: the    *)
(* types, that a cooldown is kept, by the same argument (a claim is a log  *)
(* within the cooldown, or one that a request is about to create), that a  *)
(* processed event is settled, and that a cascade comes to an end: no two  *)
(* frames of a stack hold the same cooldown.  A request is a stack of      *)
(* frames, and a step moves the top of one, takes it off, or puts a frame  *)
(* upon it: the first part shows that every action does one of the three,  *)
(* and the invariants are shown for these.                                 *)
(***************************************************************************)
EXTENDS DispatchAssignments, DomainEvents, FiniteSetTheorems, Functions,
        SequenceTheorems, TLAPS

(***************************************************************************)
(* The invariant                                                           *)
(***************************************************************************)

\* A row has its call's id, so it is there only when that call is done.  A
\* handler works on a row of its own, with a status, or on one that is there,
\* whose driver and vehicle it has read: they never change.
Held(c) ==
  /\ call[c].pc # "done" => ~rows[c].exists
  /\ c \in InFlight /\ call[c].row = c => call[c].status \in Status
  /\ c \in InFlight /\ call[c].row # c =>
       /\ rows[call[c].row].exists
       /\ rows[call[c].row].driver = call[c].driver
       /\ rows[call[c].row].vehicle = call[c].vehicle

Owned == \A c \in Calls : Held(c)

\* The handlers that are about to put an assignment of x in force.
Pending(x) ==
  {c \in Calls : /\ call[c].pc = "checked"
                 /\ call[c].status \in Conflicting
                 /\ x \in {call[c].driver, call[c].vehicle}}

Claims(x) == InForceFor(x) \cup {call[c].row : c \in Pending(x)}

Bounded ==
  /\ Cardinality(InFlight) <= width
  /\ \A x \in Drivers \cup Vehicles : Cardinality(Claims(x)) <= width

IInv == TypeOK /\ Owned /\ Bounded

(***************************************************************************)
(* Types                                                                   *)
(***************************************************************************)

(* A call at rest has its type. *)
LEMMA RestingTyped ==
  ASSUME NEW c \in Calls, NEW pc \in {"idle", "started", "checked", "done"}
  PROVE  Resting(c, pc) \in Call /\ NoRow \in Row
<1>1. /\ (CHOOSE d \in Drivers : TRUE) \in Drivers
      /\ (CHOOSE v \in Vehicles : TRUE) \in Vehicles
  BY DispatchAssumption
<1> QED
  BY <1>1 DEF Resting, NoRow, Call, Row, Status

(* Every step of the specification keeps the types.  That a call which     *)
(* inserts a row has a status to write is what Owned adds.                 *)
LEMMA TypeStep == TypeOK /\ Owned /\ [Next]_vars => TypeOK'
<1> SUFFICES ASSUME TypeOK, Owned, [Next]_vars PROVE TypeOK'
  OBVIOUS
<1> USE DEF TypeOK
<1>1. ASSUME NEW c \in Calls, NEW d \in Drivers, NEW v \in Vehicles,
             NEW status \in Status, StartCreate(c, d, v, status)
      PROVE  TypeOK'
  BY <1>1 DEF StartCreate, Start, Call
<1>2. ASSUME NEW c \in Calls, NEW r \in Calls,
             NEW status \in Status \cup {"KEEP"}, StartUpdate(c, r, status)
      PROVE  TypeOK'
  BY <1>2 DEF StartUpdate, Start, Call, Row
<1>3. ASSUME NEW c \in Calls, NEW r \in Calls, StartRelease(c, r)
      PROVE  TypeOK'
  BY <1>3 DEF StartRelease, Start, Call, Row, Status
<1>4. ASSUME NEW c \in Calls, CheckConflicts(c) PROVE TypeOK'
  BY <1>4 DEF CheckConflicts, Call
<1>5. ASSUME NEW c \in Calls, Refuse(c) \/ WriteNothing(c) PROVE TypeOK'
  BY <1>5, RestingTyped DEF Refuse, WriteNothing
<1>6. ASSUME NEW c \in Calls, Insert(c) PROVE TypeOK'
  <2>1. call' \in [Calls -> Call]
    BY <1>6, RestingTyped DEF Insert
  <2>2. call[c].status \in Status
    BY <1>6 DEF Insert, Owned, Held, InFlight
  <2>3. rows' \in [Calls -> Row]
    BY <1>6, <2>2 DEF Insert, Row, Call
  <2> QED
    BY <1>6, <2>1, <2>3 DEF Insert
<1>7. ASSUME NEW c \in Calls, Write(c) PROVE TypeOK'
  <2>1. call' \in [Calls -> Call]
    BY <1>7, RestingTyped DEF Write
  <2>2. call[c].row \in Calls /\ call[c].status \in Status
    BY <1>7 DEF Write, Call
  <2>3. rows' \in [Calls -> Row]
    BY <1>7, <2>2 DEF Write, Row
  <2> QED
    BY <1>7, <2>1, <2>3 DEF Write
<1>8. CASE UNCHANGED vars
  BY <1>8 DEF vars
<1> QED
  BY <1>1, <1>2, <1>3, <1>4, <1>5, <1>6, <1>7, <1>8 DEF Next

(***************************************************************************)
(* Who works on which row                                                  *)
(***************************************************************************)

(* Owned is kept: a row appears when its call is done, and from then on    *)
(* has its driver and its vehicle.                                         *)
LEMMA OwnedStep == TypeOK /\ Owned /\ [Next]_vars => Owned'
<1> SUFFICES ASSUME TypeOK, Owned, [Next]_vars, NEW e \in Calls
             PROVE  Held(e)'
  BY DEF Owned
<1>0. /\ rows \in [Calls -> Row]
      /\ call \in [Calls -> Call]
      /\ Held(e)
  BY DEF TypeOK, Owned
<1> USE <1>0 DEF Held, InFlight
<1>1. ASSUME NEW c \in Calls, NEW d \in Drivers, NEW v \in Vehicles,
             NEW status \in Status, StartCreate(c, d, v, status)
      PROVE  Held(e)'
  BY <1>1 DEF StartCreate, Start, Call
<1>2. ASSUME NEW c \in Calls, NEW r \in Calls,
             NEW status \in Status \cup {"KEEP"}, StartUpdate(c, r, status)
      PROVE  Held(e)'
  <2>1. Held(c)
    BY DEF Owned
  <2> QED
    BY <1>2, <2>1 DEF StartUpdate, Start, Call
<1>3. ASSUME NEW c \in Calls, NEW r \in Calls, StartRelease(c, r)
      PROVE  Held(e)'
  BY <1>3 DEF StartRelease, Start, Call, Status
<1>4. ASSUME NEW c \in Calls, CheckConflicts(c) PROVE Held(e)'
  BY <1>4 DEF CheckConflicts, Call
<1>5. ASSUME NEW c \in Calls, Refuse(c) \/ WriteNothing(c) PROVE Held(e)'
  BY <1>5 DEF Refuse, WriteNothing, Resting, Call
<1>6. ASSUME NEW c \in Calls, Insert(c) PROVE Held(e)'
  <2>1. Held(c)
    BY DEF Owned
  <2>2. CASE e = c
    BY <1>6, <2>2 DEF Insert, Resting
  <2>3. CASE e # c
    <3>1. call'[e] = call[e] /\ rows'[e] = rows[e] /\ call[e].row \in Calls
      BY <1>6, <2>3 DEF Insert, Call
    <3>2. ASSUME e \in InFlight, call[e].row # e
          PROVE  rows'[call[e].row] = rows[call[e].row]
      BY <1>6, <2>1, <3>1, <3>2 DEF Insert
    <3> QED
      BY <3>1, <3>2
  <2> QED
    BY <2>2, <2>3
<1>7. ASSUME NEW c \in Calls, Write(c) PROVE Held(e)'
  <2>1. /\ call[c].row \in Calls
        /\ call[e].row \in Calls
    BY DEF Call
  <2>2. ASSUME NEW r \in Calls
        PROVE  /\ rows'[r].exists = rows[r].exists
               /\ rows'[r].driver = rows[r].driver
               /\ rows'[r].vehicle = rows[r].vehicle
    BY <1>7, <2>1 DEF Write, Row
  <2>3. rows[call[c].row].exists
    BY <1>7 DEF Write, Owned
  <2>4. CASE e = c
    BY <1>7, <2>4 DEF Write, Resting
  <2>5. CASE e # c
    BY <1>7, <2>1, <2>2, <2>5 DEF Write
  <2> QED
    BY <2>4, <2>5
<1>8. CASE UNCHANGED vars
  BY <1>8 DEF vars
<1> QED
  BY <1>1, <1>2, <1>3, <1>4, <1>5, <1>6, <1>7, <1>8 DEF Next

(***************************************************************************)
(* Claims                                                                  *)
(***************************************************************************)

(* The claims on a driver or a vehicle are rows, finitely many.            *)
LEMMA ClaimsAreFinite ==
  ASSUME TypeOK, NEW x
  PROVE  /\ Claims(x) \subseteq Calls
         /\ IsFiniteSet(Claims(x))
         /\ Cardinality(Claims(x)) \in Nat
<1>1. Claims(x) \subseteq Calls
  BY DEF Claims, InForceFor, Pending, TypeOK, Call
<1>2. IsFiniteSet(Claims(x))
  BY <1>1, FS_Subset, DispatchAssumption
<1> QED
  BY <1>1, <1>2, FS_CardinalityType

(* Two members of a set that has at most one are the same. *)
LEMMA OneClaim ==
  ASSUME NEW S, IsFiniteSet(S), Cardinality(S) <= 1, NEW a \in S, NEW b \in S
  PROVE  a = b
<1> SUFFICES ASSUME a # b PROVE FALSE
  OBVIOUS
<1>1. IsFiniteSet({a}) /\ Cardinality({a}) = 1
  BY FS_Singleton
<1>2. IsFiniteSet({a} \cup {b}) /\ Cardinality({a} \cup {b}) = 2
  <2>1. b \notin {a}
    OBVIOUS
  <2>2. /\ IsFiniteSet({a} \cup {b})
        /\ Cardinality({a} \cup {b}) =
             IF b \in {a} THEN Cardinality({a}) ELSE Cardinality({a}) + 1
    BY <1>1, FS_AddElement
  <2> QED
    BY <1>1, <2>1, <2>2
<1>3. {a} \cup {b} \subseteq S
  OBVIOUS
<1>4. Cardinality({a} \cup {b}) <= Cardinality(S) /\ Cardinality(S) \in Nat
  BY <1>3, FS_Subset, FS_CardinalityType
<1> QED
  BY <1>2, <1>4

(* Handlers that each work on one row work on no more rows than they are.  *)
LEMMA RowsOfHandlers ==
  ASSUME NEW P, IsFiniteSet(P)
  PROVE  /\ IsFiniteSet({call[c].row : c \in P})
         /\ Cardinality({call[c].row : c \in P}) <= Cardinality(P)
<1> DEFINE f == [c \in P |-> call[c].row]
           T == {call[c].row : c \in P}
<1>1. f \in Surjection(P, T)
  BY DEF Surjection
<1> HIDE DEF f, T
<1>2. IsFiniteSet(T) /\ Cardinality(T) <= Cardinality(P)
  BY <1>1, FS_Surjection
<1> QED
  BY <1>2 DEF T

(* A write leaves the claims as they are or gives one up: when a handler   *)
(* comes to its write, the row it puts in force is claimed already.        *)
LEMMA WriteClaimsNothing ==
  ASSUME TypeOK, Owned, NEW x, NEW c \in Calls, Insert(c) \/ Write(c)
  PROVE  Claims(x)' \subseteq Claims(x)
<1> DEFINE row == call[c].row
<1>0. /\ rows \in [Calls -> Row]
      /\ call \in [Calls -> Call]
      /\ row \in Calls
      /\ call[c].pc = "checked"
      /\ Held(c)
  BY DEF TypeOK, Owned, Call, Insert, Write
<1>1. /\ call' = [call EXCEPT ![c] = Resting(c, "done")]
      /\ \A r \in Calls \ {row} : rows'[r] = rows[r]
      /\ rows'[row].status = call[c].status
      /\ rows'[row].driver = call[c].driver
      /\ rows'[row].vehicle = call[c].vehicle
  BY <1>0 DEF Insert, Write, Held, InFlight, Row
<1>2. Pending(x)' = Pending(x) \ {c}
  BY <1>0, <1>1 DEF Pending, Resting
<1>3. InForceFor(x)' \subseteq
        InForceFor(x) \cup {r \in {row} : c \in Pending(x)}
  BY <1>0, <1>1 DEF InForceFor, InForce, Pending
<1>4. \A d \in Pending(x)' : call'[d].row = call[d].row
  BY <1>0, <1>1, <1>2 DEF Pending
<1> QED
  BY <1>2, <1>3, <1>4 DEF Claims

(* A handler that starts claims nothing yet: it has its check before it,   *)
(* or does not put its row in force.                                       *)
LEMMA StartClaimsNothing ==
  ASSUME TypeOK, NEW x, NEW c \in Calls, NEW local \in Call, Start(c, local),
         local.pc = "started" \/ local.status \notin Conflicting
  PROVE  Claims(x)' = Claims(x)
<1>1. Pending(x)' = Pending(x)
  BY DEF Pending, Start, TypeOK, Call
<1>2. InForceFor(x)' = InForceFor(x)
  BY DEF InForceFor, InForce, Start
<1>3. \A d \in Pending(x) : call'[d].row = call[d].row
  BY DEF Pending, Start, TypeOK, Call
<1> QED
  BY <1>1, <1>2, <1>3 DEF Claims

(* When a handler passes its check, the claims on what it is about to use  *)
(* are those of handlers at work.                                          *)
LEMMA CheckedClaims ==
  ASSUME TypeOK, NEW x \in Drivers \cup Vehicles, NEW c \in Calls,
         CheckConflicts(c)
  PROVE  \/ Claims(x)' = Claims(x)
         \/ Claims(x)' \subseteq {call[d].row : d \in InFlight}
<1>0. /\ rows \in [Calls -> Row]
      /\ call \in [Calls -> Call]
      /\ call[c].driver \in Drivers
      /\ call[c].vehicle \in Vehicles
      /\ call[c].pc = "started"
      /\ Conflicts(c) = {}
  BY DEF TypeOK, Call, CheckConflicts
<1>1. /\ \A d \in Calls : /\ call'[d].row = call[d].row
                          /\ call'[d].status = call[d].status
                          /\ call'[d].driver = call[d].driver
                          /\ call'[d].vehicle = call[d].vehicle
                          /\ d # c => call'[d].pc = call[d].pc
      /\ call'[c].pc = "checked"
      /\ rows' = rows
  BY <1>0 DEF CheckConflicts, Call
<1>2. InForceFor(x)' = InForceFor(x)
  BY <1>1 DEF InForceFor, InForce
<1>3. /\ Pending(x) \subseteq Pending(x)'
      /\ Pending(x)' \subseteq Pending(x) \cup {c}
  BY <1>0, <1>1 DEF Pending
<1>4. CASE c \in Pending(x)'
  <2>1. x \in {call[c].driver, call[c].vehicle}
    BY <1>1, <1>4 DEF Pending
  <2>2. InForceFor(x) \subseteq {call[c].row}
    <3> SUFFICES ASSUME NEW r \in Calls, InForce(r), r # call[c].row,
                        x \in {rows[r].driver, rows[r].vehicle}
                 PROVE  FALSE
      BY DEF InForceFor
    <3>1. rows[r].driver \in Drivers /\ rows[r].vehicle \in Vehicles
      BY <1>0 DEF Row
    <3>2. rows[r].driver = call[c].driver \/ rows[r].vehicle = call[c].vehicle
      BY <1>0, <2>1, <3>1, DispatchAssumption
    <3> QED
      BY <1>0, <3>2 DEF Conflicts
  <2>3. Pending(x)' \subseteq InFlight /\ c \in InFlight
    BY <1>0, <1>3 DEF Pending, InFlight
  <2>4. \A d \in InFlight : call'[d].row = call[d].row
    BY <1>1 DEF InFlight
  <2>5. {call'[d].row : d \in Pending(x)'} \subseteq
          {call[d].row : d \in InFlight}
    BY <2>3, <2>4
  <2>6. InForceFor(x)' \subseteq {call[d].row : d \in InFlight}
    BY <1>2, <2>2, <2>3
  <2> QED
    BY <2>5, <2>6 DEF Claims
<1>5. CASE c \notin Pending(x)'
  <2>1. Pending(x)' = Pending(x)
    BY <1>3, <1>5, <1>0 DEF Pending
  <2> QED
    BY <1>1, <1>2, <2>1 DEF Claims, Pending
<1> QED
  BY <1>4, <1>5

(* Every step keeps the number of handlers at work within the width, and   *)
(* with it the number of claims.                                           *)
LEMMA BoundedStep ==
  TypeOK /\ TypeOK' /\ Owned /\ Bounded /\ [Next]_vars => Bounded'
<1> SUFFICES ASSUME TypeOK, TypeOK', Owned, Bounded, [Next]_vars
             PROVE  Bounded'
  OBVIOUS
<1>0. /\ call \in [Calls -> Call]
      /\ rows \in [Calls -> Row]
      /\ width \in Nat
      /\ width' = width
      /\ IsFiniteSet(InFlight) /\ InFlight \subseteq Calls
      /\ Cardinality(InFlight) \in Nat
  <2>1. InFlight \subseteq Calls
    BY DEF InFlight
  <2>2. IsFiniteSet(InFlight)
    BY <2>1, FS_Subset, DispatchAssumption
  <2>3. width' = width
    BY DEF Next, vars, StartCreate, StartUpdate, StartRelease, Start,
           CheckConflicts, Refuse, Insert, Write, WriteNothing
  <2> QED
    BY <2>1, <2>2, <2>3, FS_CardinalityType, DispatchAssumption DEF TypeOK
\* It is enough that each step keeps the handlers, or takes one on within the
\* width, and gives up claims, or leaves only claims of handlers at work.
<1> DEFINE Few == \/ InFlight' \subseteq InFlight
                  \/ /\ Cardinality(InFlight) < width
                     /\ \E c \in Calls : InFlight' = InFlight \cup {c}
           Kept(x) == \/ Claims(x)' \subseteq Claims(x)
                      \/ Claims(x)' \subseteq {call[d].row : d \in InFlight}
<1>1. ASSUME Few PROVE Cardinality(InFlight') <= width
  <2>1. CASE InFlight' \subseteq InFlight
    <3>1. Cardinality(InFlight') <= Cardinality(InFlight)
      BY <1>0, <2>1, FS_Subset
    <3>2. Cardinality(InFlight') \in Nat
      BY <1>0, <2>1, FS_Subset, FS_CardinalityType
    <3> QED
      BY <1>0, <3>1, <3>2 DEF Bounded
  <2>2. ASSUME Cardinality(InFlight) < width, NEW c \in Calls,
               InFlight' = InFlight \cup {c}
        PROVE  Cardinality(InFlight') <= width
    <3>1. Cardinality(InFlight \cup {c}) =
            IF c \in InFlight THEN Cardinality(InFlight)
                              ELSE Cardinality(InFlight) + 1
      BY <1>0, FS_AddElement
    <3> QED
      BY <1>0, <2>2, <3>1
  <2> QED
    BY <1>1, <2>1, <2>2
<1>2. ASSUME NEW x \in Drivers \cup Vehicles, Kept(x)
      PROVE  Cardinality(Claims(x)') <= width
  <2>0. /\ IsFiniteSet(Claims(x)) /\ Cardinality(Claims(x)) \in Nat
        /\ Cardinality(Claims(x)) <= width
    BY ClaimsAreFinite DEF Bounded
  <2>1. CASE Claims(x)' \subseteq Claims(x)
    <3>1. /\ IsFiniteSet(Claims(x)')
          /\ Cardinality(Claims(x)') <= Cardinality(Claims(x))
      BY <2>0, <2>1, FS_Subset
    <3>2. Cardinality(Claims(x)') \in Nat
      BY <3>1, FS_CardinalityType
    <3> QED
      BY <1>0, <2>0, <3>1, <3>2
  <2>2. CASE Claims(x)' \subseteq {call[d].row : d \in InFlight}
    <3> DEFINE T == {call[d].row : d \in InFlight}
    <3>1. IsFiniteSet(T) /\ Cardinality(T) <= Cardinality(InFlight)
      BY <1>0, RowsOfHandlers
    <3>2. Claims(x)' \subseteq T
      BY <2>2
    <3> HIDE DEF T
    <3>3. IsFiniteSet(Claims(x)') /\ Cardinality(Claims(x)') <= Cardinality(T)
      BY <3>1, <3>2, FS_Subset
    <3>4. Cardinality(T) \in Nat /\ Cardinality(Claims(x)') \in Nat
      BY <3>1, <3>3, FS_CardinalityType
    <3> QED
      BY <1>0, <3>1, <3>3, <3>4 DEF Bounded
  <2> QED
    BY <1>2, <2>1, <2>2
<1>3. ASSUME NEW c \in Calls, NEW local \in Call, Start(c, local),
             local.pc = "started" \/ local.status \notin Conflicting
      PROVE  Few /\ \A x \in Drivers \cup Vehicles : Kept(x)
  <2>1. InFlight' = InFlight \/ InFlight' = InFlight \cup {c}
    BY <1>0, <1>3 DEF Start, InFlight
  <2>2. Cardinality(InFlight) < width
    BY <1>3 DEF Start
  <2>3. \A x \in Drivers \cup Vehicles : Claims(x)' = Claims(x)
    BY <1>3, StartClaimsNothing
  <2> QED
    BY <2>1, <2>2, <2>3
<1>4. ASSUME NEW c \in Calls, NEW d \in Drivers, NEW v \in Vehicles,
             NEW status \in Status, StartCreate(c, d, v, status)
      PROVE  Few /\ \A x \in Drivers \cup Vehicles : Kept(x)
  <2> DEFINE local == [pc |-> "started", row |-> c, driver |-> d,
                       vehicle |-> v, status |-> status]
  <2>1. local \in Call /\ local.pc = "started" /\ Start(c, local)
    BY <1>4 DEF StartCreate, Call
  <2> HIDE DEF local
  <2> QED
    BY <1>3, <2>1
<1>5. ASSUME NEW c \in Calls, NEW r \in Calls,
             NEW status \in Status \cup {"KEEP"}, StartUpdate(c, r, status)
      PROVE  Few /\ \A x \in Drivers \cup Vehicles : Kept(x)
  <2> DEFINE next == IF status = "KEEP" THEN rows[r].status ELSE status
             local == [pc |-> IF next \in Conflicting THEN "started"
                                                      ELSE "checked",
                       row |-> r, driver |-> rows[r].driver,
                       vehicle |-> rows[r].vehicle, status |-> status]
  <2>1. local \in Call /\ Start(c, local)
    BY <1>0, <1>5 DEF StartUpdate, Call, Row
  <2>2. local.pc = "started" \/ local.status \notin Conflicting
    BY DEF Conflicting
  <2> HIDE DEF local
  <2> QED
    BY <1>3, <2>1, <2>2
<1>6. ASSUME NEW c \in Calls, NEW r \in Calls, StartRelease(c, r)
      PROVE  Few /\ \A x \in Drivers \cup Vehicles : Kept(x)
  <2> DEFINE local == [pc |-> "checked", row |-> r, driver |-> rows[r].driver,
                       vehicle |-> rows[r].vehicle, status |-> "RELEASED"]
  <2>1. local \in Call /\ Start(c, local)
    BY <1>0, <1>6 DEF StartRelease, Call, Row, Status
  <2>2. local.status \notin Conflicting
    BY DEF Conflicting
  <2> HIDE DEF local
  <2> QED
    BY <1>3, <2>1, <2>2
<1>7. ASSUME NEW c \in Calls, CheckConflicts(c)
      PROVE  Few /\ \A x \in Drivers \cup Vehicles : Kept(x)
  <2>1. InFlight' = InFlight
    BY <1>0, <1>7 DEF CheckConflicts, InFlight, Call
  <2>2. \A x \in Drivers \cup Vehicles : Kept(x)
    BY <1>7, CheckedClaims
  <2> QED
    BY <2>1, <2>2
<1>8. ASSUME NEW c \in Calls, Insert(c) \/ Write(c)
      PROVE  Few /\ \A x \in Drivers \cup Vehicles : Kept(x)
  <2>1. InFlight' \subseteq InFlight
    BY <1>0, <1>8 DEF Insert, Write, InFlight, Resting
  <2>2. \A x \in Drivers \cup Vehicles : Claims(x)' \subseteq Claims(x)
    BY <1>8, WriteClaimsNothing
  <2> QED
    BY <2>1, <2>2
<1>9. ASSUME NEW c \in Calls, Refuse(c) \/ WriteNothing(c)
      PROVE  Few /\ \A x \in Drivers \cup Vehicles : Kept(x)
  <2>1. call' = [call EXCEPT ![c] = Resting(c, "done")] /\ rows' = rows
    BY <1>9 DEF Refuse, WriteNothing
  <2>2. InFlight' \subseteq InFlight
    BY <1>0, <2>1 DEF InFlight, Resting
  <2>3. ASSUME NEW x PROVE Claims(x)' \subseteq Claims(x)
    <3>1. /\ Pending(x)' \subseteq Pending(x)
          /\ \A d \in Pending(x)' : call'[d].row = call[d].row
      BY <1>0, <2>1 DEF Pending, Resting
    <3>2. InForceFor(x)' = InForceFor(x)
      BY <2>1 DEF InForceFor, InForce
    <3> QED
      BY <3>1, <3>2 DEF Claims
  <2> QED
    BY <2>2, <2>3
<1>10. ASSUME UNCHANGED vars
       PROVE  Few /\ \A x \in Drivers \cup Vehicles : Kept(x)
  <2>1. Few
    BY <1>10 DEF vars, InFlight
  <2>2. \A x \in Drivers \cup Vehicles : Claims(x)' = Claims(x)
    BY <1>10 DEF vars, Claims, Pending, InForceFor, InForce
  <2> QED
    BY <2>1, <2>2
<1>11. Few /\ \A x \in Drivers \cup Vehicles : Kept(x)
  <2> HIDE DEF Few, Kept
  <2> QED
    BY <1>4, <1>5, <1>6, <1>7, <1>8, <1>9, <1>10 DEF Next
<1> QED
  <2>1. Cardinality(InFlight') <= width
    BY <1>1, <1>11
  <2>2. \A x \in Drivers \cup Vehicles : Cardinality(Claims(x)') <= width
    BY <1>2, <1>11
  <2> QED
    BY <1>0, <2>1, <2>2 DEF Bounded

(***************************************************************************)
(* Theorems                                                                *)
(***************************************************************************)

(* Before the first call nothing is in force and nobody is at work. *)
LEMMA InitIInv == Init => IInv
<1> SUFFICES ASSUME Init PROVE IInv
  OBVIOUS
<1>1. TypeOK
  BY RestingTyped DEF Init, TypeOK
<1>2. Owned
  BY DEF Init, Owned, Held, InFlight, Resting, NoRow
<1>3. InFlight = {} /\ \A x : Claims(x) = {}
  BY DEF Init, InFlight, Claims, InForceFor, InForce, Pending, Resting, NoRow
<1>4. Cardinality({}) = 0 /\ width \in Nat
  BY FS_EmptySet, DispatchAssumption DEF Init
<1>5. Bounded
  BY <1>3, <1>4 DEF Bounded
<1> QED
  BY <1>1, <1>2, <1>5 DEF IInv

(* Every step keeps the invariant. *)
LEMMA StepIInv == IInv /\ [Next]_vars => IInv'
BY TypeStep, OwnedStep, BoundedStep DEF IInv

(* Every reachable state is typed. *)
THEOREM TypeCorrect == Spec => []TypeOK
<1>1. IInv => TypeOK
  BY DEF IInv
<1> QED
  BY <1>1, InitIInv, StepIInv, PTL DEF Spec

(* However the handlers race past ensureNoConflictingAssignments, a driver  *)
(* or a vehicle never has more assignments in force than there are handlers *)
(* at work at once; one, if they work one at a time.                        *)
THEOREM RaceBounded == Spec => []RaceIsBounded
<1>1. IInv => RaceIsBounded
  <2> SUFFICES ASSUME IInv, NEW x \in Drivers \cup Vehicles
               PROVE  Cardinality(InForceFor(x)) <= width
    BY DEF RaceIsBounded
  <2>1. /\ IsFiniteSet(Claims(x)) /\ Cardinality(Claims(x)) \in Nat
        /\ Cardinality(Claims(x)) <= width /\ width \in Nat
    BY ClaimsAreFinite, DispatchAssumption DEF IInv, Bounded, TypeOK
  <2>2. InForceFor(x) \subseteq Claims(x)
    BY DEF Claims
  <2>3. /\ IsFiniteSet(InForceFor(x))
        /\ Cardinality(InForceFor(x)) <= Cardinality(Claims(x))
    BY <2>1, <2>2, FS_Subset
  <2>4. Cardinality(InForceFor(x)) \in Nat
    BY <2>3, FS_CardinalityType
  <2> QED
    BY <2>1, <2>3, <2>4
<1> QED
  BY <1>1, InitIInv, StepIInv, PTL DEF Spec

(* With one handler at work, what it puts in force nobody else has: another *)
(* assignment of the driver or the vehicle would be a second claim.         *)
LEMMA NobodyElse ==
  ASSUME IInv, width = 1, NEW c \in Calls, Insert(c) \/ Write(c),
         call[c].status \in Conflicting,
         NEW g \in Calls \ {call[c].row}
  PROVE  Use[g] \cap {call[c].driver, call[c].vehicle} = {}
<1> SUFFICES ASSUME NEW x \in {call[c].driver, call[c].vehicle}, x \in Use[g]
             PROVE  FALSE
  OBVIOUS
<1>1. g \in Claims(x)
  BY DEF Use, Claims, InForceFor
<1>2. call[c].row \in Claims(x)
  BY DEF Claims, Pending, Insert, Write
<1>3. x \in Drivers \cup Vehicles
  BY DEF IInv, TypeOK, Call
<1>4. IsFiniteSet(Claims(x)) /\ Cardinality(Claims(x)) <= 1
  BY <1>3, ClaimsAreFinite DEF IInv, Bounded
<1>5. g = call[c].row
  BY <1>1, <1>2, <1>4, OneClaim
<1> QED
  BY <1>5

(* A step of one handler at a time takes a driver and a vehicle that nobody *)
(* has, gives them back, or leaves everything to whom it belongs.           *)
LEMMA UseStep ==
  IInv /\ [Next]_vars => (width = 1 => [ExclusiveUse!Next]_Use)
<1> SUFFICES ASSUME IInv, [Next]_vars, width = 1
             PROVE  [ExclusiveUse!Next]_Use
  OBVIOUS
<1>0. /\ rows \in [Calls -> Row]
      /\ call \in [Calls -> Call]
  BY DEF IInv, TypeOK
<1>1. ASSUME rows' = rows PROVE Use' = Use
  BY <1>1 DEF Use, InForce
<1>2. ASSUME NEW c \in Calls, Insert(c) \/ Write(c) PROVE ExclusiveUse!Next
  <2> DEFINE row == call[c].row
             both == {call[c].driver, call[c].vehicle}
             S == IF call[c].status \in Conflicting THEN both ELSE {}
  <2>1. Held(c) /\ row \in Calls /\ call[c].pc = "checked"
    BY <1>0, <1>2 DEF IInv, Owned, Call, Insert, Write
  <2>2. both \subseteq Drivers \cup Vehicles
    BY <1>0 DEF Call
  <2>3. /\ \A r \in Calls \ {row} : rows'[r] = rows[r]
        /\ rows'[row].exists
        /\ rows'[row].status = call[c].status
        /\ rows'[row].driver = call[c].driver
        /\ rows'[row].vehicle = call[c].vehicle
    BY <1>0, <1>2, <2>1 DEF Insert, Write, Held, InFlight, Row
  <2>4. Use' = [Use EXCEPT ![row] = S]
    <3>1. Use'[row] = S
      BY <2>1, <2>3 DEF Use, InForce
    <3>2. \A r \in Calls \ {row} : Use'[r] = Use[r]
      BY <2>3 DEF Use, InForce
    <3>3. Use = [r \in Calls |-> Use[r]] /\ Use' = [r \in Calls |-> Use'[r]]
      BY DEF Use
    <3> HIDE DEF S, row
    <3> QED
      BY <2>1, <3>1, <3>2, <3>3
  <2>5. \A g \in Calls \ {row} : Use[g] \cap S = {}
    BY <1>2, NobodyElse
  <2>6. ExclusiveUse!Take(row, S)
    BY <2>4, <2>5 DEF ExclusiveUse!Take
  <2>7. S \in SUBSET (Drivers \cup Vehicles)
    BY <2>2
  <2> HIDE DEF S, row
  <2> QED
    BY <2>1, <2>6, <2>7 DEF ExclusiveUse!Next
<1>3. ASSUME NEW c \in Calls,
             \/ CheckConflicts(c) \/ Refuse(c) \/ WriteNothing(c)
             \/ \E local : Start(c, local)
      PROVE  rows' = rows
  BY <1>3 DEF CheckConflicts, Refuse, WriteNothing, Start
<1>4. CASE UNCHANGED vars
  BY <1>1, <1>4 DEF vars
<1>5. CASE Next
  <2> PICK c \in Calls :
        \/ CheckConflicts(c) \/ Refuse(c) \/ WriteNothing(c)
        \/ \E local : Start(c, local)
        \/ Insert(c) \/ Write(c)
    BY <1>5 DEF Next, StartCreate, StartUpdate, StartRelease
  <2> QED
    BY <1>1, <1>2, <1>3
<1> QED
  BY <1>4, <1>5

(* One handler at a time hands out drivers and vehicles exclusively. *)
THEOREM HandsOutExclusively == Spec => ImplementsExclusiveUse
<1>1. Init => ExclusiveUse!Init
  BY DEF Init, ExclusiveUse!Init, Use, InForce, NoRow
<1> QED
  BY <1>1, InitIInv, StepIInv, UseStep, PTL DEF Spec, ImplementsExclusiveUse

(***************************************************************************)
(* Domain events: what a step does to the stack of a request               *)
(***************************************************************************)

FrameType == [event : 1..MaxEvents, pc : Pcs, rule : 0..MaxRules]
EventType == [type : Types, aggregate : Aggregates \cup 1..MaxRules,
              cause : 0..MaxEvents,
              status : {"PENDING", "PROCESSED", "FAILED"}]

Depth(q) == Len(stack[q])

\* No stack but that of q changes.
OthersWait(q) ==
  /\ stack' \in [Requests -> Seq(FrameType)]
  /\ \A p \in Requests \ {q} : stack'[p] = stack[p]

\* The top of the stack goes on at pc, with rule.
Moved(q, pc, rule) ==
  /\ stack[q] # <<>> /\ OthersWait(q)
  /\ stack'[q] \in Seq(FrameType) /\ Len(stack'[q]) = Depth(q)
  /\ \A i \in 1..Depth(q) : i # Depth(q) => stack'[q][i] = stack[q][i]
  /\ stack'[q][Depth(q)] = [event |-> Top(q).event, pc |-> pc, rule |-> rule]

\* The top of the stack is taken off.
Popped(q) ==
  /\ stack[q] # <<>> /\ OthersWait(q)
  /\ stack'[q] \in Seq(FrameType) /\ Len(stack'[q]) = Depth(q) - 1
  /\ \A i \in 1..Depth(q) : i # Depth(q) => stack'[q][i] = stack[q][i]

\* A frame is put upon what is there, which goes on at back.
Pushed(q, back, frame) ==
  /\ OthersWait(q)
  /\ stack'[q] \in Seq(FrameType) /\ Len(stack'[q]) = Depth(q) + 1
  /\ \A i \in 1..Depth(q) : i # Depth(q) => stack'[q][i] = stack[q][i]
  /\ stack[q] # <<>> =>
       stack'[q][Depth(q)] =
         [event |-> Top(q).event, pc |-> back, rule |-> Top(q).rule]
  /\ stack'[q][Depth(q) + 1] = frame

\* What is known of a stack and its top.
LEMMA StackTypes ==
  ASSUME EventsTypeOK, NEW q \in Requests
  PROVE  /\ stack[q] \in Seq(FrameType) /\ Depth(q) \in Nat
         /\ stack[q] # <<>> <=> Depth(q) \in 1..Depth(q)
         /\ \A i \in 1..Depth(q) : stack[q][i] \in FrameType
         /\ stack[q] # <<>> => Top(q) \in FrameType
<1>1. stack[q] \in Seq(FrameType)
  BY DEF EventsTypeOK, FrameType
<1>2. stack[q] # <<>> <=> Len(stack[q]) \in 1..Len(stack[q])
  BY <1>1
<1>3. \A i \in 1..Len(stack[q]) : stack[q][i] \in FrameType
  BY <1>1
<1>4. QED
  BY <1>1, <1>2, <1>3 DEF Depth, Top

\* A frame whose pc is replaced.
LEMMA SetTop ==
  ASSUME NEW s \in Seq(FrameType), s # <<>>, NEW pc \in Pcs
  PROVE  LET t == [s EXCEPT ![Len(s)].pc = pc] IN
         /\ t \in Seq(FrameType) /\ Len(t) = Len(s)
         /\ \A i \in 1..Len(s) : i # Len(s) => t[i] = s[i]
         /\ t[Len(s)] = [event |-> s[Len(s)].event, pc |-> pc,
                         rule |-> s[Len(s)].rule]
<1>1. Len(s) \in 1..Len(s) /\ s[Len(s)] \in FrameType
  OBVIOUS
<1>2. PICK f : f = [s[Len(s)] EXCEPT !.pc = pc]
  OBVIOUS
<1>3. /\ f \in FrameType
      /\ f = [event |-> s[Len(s)].event, pc |-> pc, rule |-> s[Len(s)].rule]
  BY <1>1, <1>2 DEF FrameType
<1>4. [s EXCEPT ![Len(s)].pc = pc] = [s EXCEPT ![Len(s)] = f]
  BY <1>2
<1>5. /\ [s EXCEPT ![Len(s)] = f] \in Seq(FrameType)
      /\ Len([s EXCEPT ![Len(s)] = f]) = Len(s)
      /\ [s EXCEPT ![Len(s)] = f][Len(s)] = f
      /\ \A i \in 1..Len(s) : i # Len(s) => [s EXCEPT ![Len(s)] = f][i] = s[i]
  BY <1>1, <1>3
<1>6. QED
  BY <1>3, <1>4, <1>5

\* A step of a request to another pc moves the top of its stack.
LEMMA GotoMoves ==
  ASSUME EventsTypeOK, NEW q \in Requests, stack[q] # <<>>, NEW pc \in Pcs,
         Goto(q, pc)
  PROVE  Moved(q, pc, Top(q).rule)
<1>1. stack[q] \in Seq(FrameType) /\ stack \in [Requests -> Seq(FrameType)]
  BY StackTypes DEF EventsTypeOK, FrameType
<1>2. PICK t : t = [stack[q] EXCEPT ![Len(stack[q])].pc = pc]
  OBVIOUS
<1>3. stack' = [stack EXCEPT ![q] = t]
  BY <1>2 DEF Goto
<1>4. stack'[q] = t /\ OthersWait(q)
  <2>1. t \in Seq(FrameType)
    BY <1>1, <1>2, SetTop
  <2>2. QED
    BY <1>1, <1>3, <2>1 DEF OthersWait
<1>5. QED
  BY <1>1, <1>2, <1>4, SetTop DEF Moved, Top, Depth

\* The next rule is taken up.
LEMMA EvaluateMoves ==
  ASSUME EventsTypeOK, NEW q \in Requests, stack[q] # <<>>, NEW pc \in Pcs,
         NEW r \in 0..MaxRules,
         stack' = [stack EXCEPT ![q][Len(stack[q])].rule = r,
                                ![q][Len(stack[q])].pc = pc]
  PROVE  Moved(q, pc, r)
<1>1. stack[q] \in Seq(FrameType) /\ stack \in [Requests -> Seq(FrameType)]
  BY StackTypes DEF EventsTypeOK, FrameType
<1>2. PICK n : n = Len(stack[q])
  OBVIOUS
<1>3. n \in 1..Len(stack[q]) /\ stack[q][n] \in FrameType
  BY <1>1, <1>2
<1>4. PICK f : f = [[stack[q][n] EXCEPT !.rule = r] EXCEPT !.pc = pc]
  OBVIOUS
<1>5. /\ f \in FrameType
      /\ f = [event |-> stack[q][n].event, pc |-> pc, rule |-> r]
  BY <1>3, <1>4 DEF FrameType
<1>6. PICK t : t = [stack[q] EXCEPT ![n] = f]
  OBVIOUS
<1>7. /\ t \in Seq(FrameType) /\ Len(t) = Len(stack[q]) /\ t[n] = f
      /\ \A i \in 1..Len(stack[q]) : i # n => t[i] = stack[q][i]
  BY <1>1, <1>3, <1>5, <1>6
<1>8. PICK u : u = [stack[q] EXCEPT ![n] = [stack[q][n] EXCEPT !.rule = r]]
  OBVIOUS
<1>9. u[n] = [stack[q][n] EXCEPT !.rule = r] /\ [u EXCEPT ![n].pc = pc] = t
  <2>1. u[n] = [stack[q][n] EXCEPT !.rule = r]
    BY <1>1, <1>3, <1>8
  <2>2. [u EXCEPT ![n].pc = pc] = [u EXCEPT ![n] = f]
    BY <1>4, <2>1
  <2>3. QED
    BY <1>1, <1>3, <1>6, <1>8, <2>1, <2>2
<1>10. stack' = [[stack EXCEPT ![q] = u] EXCEPT ![q][n].pc = pc]
  BY <1>2, <1>8
<1>11. [stack EXCEPT ![q] = u][q] = u
  BY <1>1
<1>12. stack' = [[stack EXCEPT ![q] = u] EXCEPT ![q] = t]
  BY <1>9, <1>10, <1>11
<1>13. stack'[q] = t /\ OthersWait(q)
  BY <1>1, <1>7, <1>12 DEF OthersWait
<1>14. QED
  BY <1>1, <1>2, <1>5, <1>7, <1>13 DEF Moved, Top, Depth

\* The end of the handling of an event takes the top off.
LEMMA ReturnPops ==
  ASSUME EventsTypeOK, NEW q \in Requests, stack[q] # <<>>, Return(q)
  PROVE  Popped(q)
<1>1. stack[q] \in Seq(FrameType) /\ stack \in [Requests -> Seq(FrameType)]
  BY StackTypes DEF EventsTypeOK, FrameType
<1>2. PICK t : t = SubSeq(stack[q], 1, Len(stack[q]) - 1)
  OBVIOUS
<1>3. stack' = [stack EXCEPT ![q] = t]
  BY <1>2 DEF Return
<1>4. /\ t \in Seq(FrameType) /\ Len(t) = Len(stack[q]) - 1
      /\ \A i \in 1..Len(stack[q]) : i # Len(stack[q]) => t[i] = stack[q][i]
  <2>1. PICK n \in Nat : n = Len(stack[q]) - 1
    BY <1>1
  <2>2. \A i \in 1..n : stack[q][i] \in FrameType
    BY <1>1, <2>1
  <2>3. /\ t \in Seq(FrameType) /\ Len(t) = IF 1 <= n THEN n - 1 + 1 ELSE 0
        /\ \A i \in 1 .. n - 1 + 1 : t[i] = stack[q][1 + i - 1]
    BY <1>2, <2>1, <2>2, SubSeqProperties
  <2>4. \A i \in 1..Len(stack[q]) : i # Len(stack[q]) => i \in 1 .. n - 1 + 1
    BY <1>1, <2>1
  <2>5. QED
    BY <1>1, <2>1, <2>3, <2>4
<1>5. stack'[q] = t /\ OthersWait(q)
  BY <1>1, <1>3, <1>4 DEF OthersWait
<1>6. QED
  BY <1>1, <1>4, <1>5 DEF Popped, Depth

\* An event is put behind those there are.
Born(type, aggregate, cause) ==
  /\ events' \in Seq(EventType) /\ Len(events) \in Nat
  /\ Len(events') = Len(events) + 1 /\ Len(events') <= setting.events
  /\ Len(events') \in 1..MaxEvents
  /\ \A d \in 1..Len(events) : events'[d] = events[d]
  /\ events'[Len(events) + 1] = [type |-> type, aggregate |-> aggregate,
                                 cause |-> cause, status |-> "PENDING"]

\* The insert of an event puts the frame that handles it upon those given.
LEMMA InsertPushes ==
  ASSUME EventsTypeOK, UNCHANGED setting, NEW q \in Requests,
         NEW frames \in Seq(FrameType), Len(frames) = Depth(q),
         NEW back,
         \A i \in 1..Depth(q) : i # Depth(q) => frames[i] = stack[q][i],
         stack[q] # <<>> => frames[Depth(q)] =
           [event |-> Top(q).event, pc |-> back, rule |-> Top(q).rule],
         NEW type \in Types, NEW aggregate \in Aggregates \cup 1..MaxRules,
         NEW cause \in 0..MaxEvents,
         InsertEvent(q, frames, type, aggregate, cause)
  PROVE  /\ Born(type, aggregate, cause)
         /\ Pushed(q, back, [event |-> Len(events) + 1, rule |-> 0, pc |->
                     IF type = "business" THEN "notifying" ELSE "rules"])
<1>1. /\ stack[q] \in Seq(FrameType) /\ stack \in [Requests -> Seq(FrameType)]
      /\ events \in Seq(EventType) /\ setting.events \in 0..MaxEvents
      /\ MaxEvents \in Nat /\ MaxRules \in Nat
  BY StackTypes, EventsAssumption DEF EventsTypeOK, FrameType, EventType
<1>2. PICK e \in EventType : e = [type |-> type, aggregate |-> aggregate,
                                  cause |-> cause, status |-> "PENDING"]
  BY DEF EventType
<1>3. events' = Append(events, e) /\ Len(events) < setting.events
  BY <1>2 DEF InsertEvent
<1>4. Born(type, aggregate, cause)
  <2>1. /\ events' \in Seq(EventType) /\ Len(events') = Len(events) + 1
        /\ Len(events) \in Nat
        /\ \A d \in 1..Len(events) : events'[d] = events[d]
        /\ events'[Len(events) + 1] = e
    BY <1>1, <1>3
  <2>2. Len(events') <= setting.events /\ Len(events') \in 1..MaxEvents
    BY <1>1, <1>3, <2>1
  <2>3. QED
    BY <1>2, <2>1, <2>2 DEF Born
<1>5. PICK f : f = [event |-> Len(events) + 1, rule |-> 0, pc |->
                     IF type = "business" THEN "notifying" ELSE "rules"]
  OBVIOUS
<1>6. f \in FrameType
  BY <1>1, <1>3, <1>4, <1>5 DEF Born, FrameType, Pcs
<1>7. Frame(Len(events) + 1) = f
  BY <1>4, <1>5 DEF Frame, Born
<1>8. stack' = [stack EXCEPT ![q] = Append(frames, f)]
  BY <1>7 DEF InsertEvent
<1>9. stack'[q] = Append(frames, f) /\ OthersWait(q)
  <2>1. Append(frames, f) \in Seq(FrameType)
    BY <1>6
  <2>2. QED
    BY <1>1, <1>8, <2>1 DEF OthersWait
<1>10. Depth(q) \in Nat
  BY StackTypes
<1>11. /\ stack'[q] \in Seq(FrameType) /\ Len(stack'[q]) = Depth(q) + 1
       /\ \A i \in 1..Depth(q) : stack'[q][i] = frames[i]
       /\ stack'[q][Depth(q) + 1] = f
  BY <1>6, <1>9, <1>10
<1>12. stack[q] # <<>> => Depth(q) \in 1..Depth(q)
  BY StackTypes
<1>13. Pushed(q, back, f)
  BY <1>9, <1>11, <1>12 DEF Pushed
<1>14. QED
  BY <1>4, <1>5, <1>13

\* A rule publishes: an event is born and handled, or the insert throws.
LEMMA PublishPushes ==
  ASSUME EventsTypeOK, UNCHANGED setting, NEW q \in Requests, stack[q] # <<>>,
         Top(q).rule \in 1..MaxRules, NEW type \in Types, type # "business",
         NEW back \in Pcs, Publish(q, type, back)
  PROVE  \/ /\ Born(type, Top(q).rule, Top(q).event)
            /\ Pushed(q, back,
                      [event |-> Len(events) + 1, rule |-> 0, pc |-> "rules"])
         \/ /\ "publishing" \in setting.faults /\ UNCHANGED events
            /\ Moved(q, back, Top(q).rule)
<1>1. /\ stack[q] \in Seq(FrameType) /\ stack \in [Requests -> Seq(FrameType)]
      /\ Top(q) \in FrameType /\ Depth(q) \in 1..Depth(q)
  BY StackTypes DEF EventsTypeOK, FrameType
<1>2. PICK frames : frames = [stack[q] EXCEPT ![Len(stack[q])].pc = back]
  OBVIOUS
<1>3. /\ frames \in Seq(FrameType) /\ Len(frames) = Depth(q)
      /\ \A i \in 1..Depth(q) : i # Depth(q) => frames[i] = stack[q][i]
      /\ frames[Depth(q)] =
           [event |-> Top(q).event, pc |-> back, rule |-> Top(q).rule]
  BY <1>1, <1>2, SetTop DEF Top, Depth
<1>4. CASE InsertEvent(q, frames, type, Top(q).rule, Top(q).event)
  <2>1. Top(q).event \in 0..MaxEvents
    BY <1>1 DEF FrameType
  <2>2. QED
    BY <1>3, <1>4, <2>1, InsertPushes
<1>5. CASE /\ "publishing" \in setting.faults
           /\ stack' = [stack EXCEPT ![q] = frames]
           /\ UNCHANGED events
  <2>1. stack'[q] = frames /\ OthersWait(q)
    BY <1>1, <1>3, <1>5 DEF OthersWait
  <2>2. QED
    BY <1>3, <1>5, <2>1 DEF Moved
<1>6. QED
  BY <1>2, <1>4, <1>5 DEF Publish

(***************************************************************************)
(* Domain events: who handles which event, and which logs there are        *)
(***************************************************************************)

\* An event that is handled is there; no rule it has yet to come to has a log;
\* and the rule it is at runs under an open log.
FrameFits(f) ==
  /\ f.event \in 1..Len(events)
  /\ f.pc \notin {"notifying", "rules", "closing", "failing"} =>
       f.rule \in Rules
  /\ \A r \in 1..MaxRules :
       (r > f.rule \/ (r = f.rule /\ f.pc \in {"blocking", "logging"}))
         => logs[<<r, f.event>>] = "NONE"
  /\ f.pc \in {"starting", "acting", "recording"} =>
       logs[<<f.rule, f.event>>] \in Open

\* An event is handled once, and a frame below the top waits for what it
\* published.
StacksFit ==
  \A q \in Requests : \A i \in 1..Depth(q) :
    /\ FrameFits(stack[q][i])
    /\ i # Depth(q) => stack[q][i].pc \in {"rules", "recording"}
    /\ \A p \in Requests : \A j \in 1..Depth(p) :
         stack[p][j].event = stack[q][i].event => p = q /\ j = i

LogsFit == \A l \in LogIds : logs[l] # "NONE" => l[2] \in 1..Len(events)

\* What is known of the rules and the counts.
LEMMA RulesTypes ==
  ASSUME EventsTypeOK
  PROVE  /\ Rules = 1..Len(setting.listens) /\ Rules \subseteq 1..MaxRules
         /\ Len(setting.listens) \in 0..MaxRules
         /\ setting.listens \in Seq(Types)
         /\ Len(events) \in Nat /\ MaxEvents \in Nat /\ MaxRules \in Nat
         /\ events \in Seq(EventType) /\ logs \in [LogIds -> LogStatus]
         /\ recent \in Seq(LogIds) /\ setting \in Settings
<1>1. setting \in Settings
  BY DEF EventsTypeOK
<1>2. /\ setting.listens \in Seq(Types) /\ Len(setting.listens) <= MaxRules
      /\ MaxEvents \in Nat /\ MaxRules \in Nat
  BY <1>1, EventsAssumption
<1>3. QED
  BY <1>1, <1>2 DEF EventsTypeOK, EventType, Rules

\* A frame goes on fitting when the logs of its event are left alone.
LEMMA FrameKept ==
  ASSUME EventsTypeOK, UNCHANGED setting, Len(events') \in Nat,
         Len(events) <= Len(events'), NEW f \in FrameType, FrameFits(f),
         \A l \in LogIds : l[2] = f.event => logs'[l] = logs[l]
  PROVE  FrameFits(f)'
<1>1. /\ f.event \in 1..MaxEvents
      /\ Rules' = Rules /\ Rules \subseteq 1..MaxRules
      /\ Len(events) \in Nat
  BY RulesTypes DEF FrameType, Rules
<1>2. f.event \in 1..Len(events')
  BY <1>1 DEF FrameFits
<1>3. \A r \in 1..MaxRules : logs'[<<r, f.event>>] = logs[<<r, f.event>>]
  BY <1>1 DEF LogIds
<1>4. f.rule \in Rules =>
        logs'[<<f.rule, f.event>>] = logs[<<f.rule, f.event>>]
  BY <1>1, <1>3
<1>5. f.pc \in {"starting", "acting", "recording"} => f.rule \in Rules
  BY DEF FrameFits
<1>6. QED
  BY <1>1, <1>2, <1>3, <1>4, <1>5 DEF FrameFits

\* A step within a frame: the frame has to fit where it goes on.
LEMMA MoveFits ==
  ASSUME EventsTypeOK, StacksFit, LogsFit, UNCHANGED setting,
         NEW q \in Requests, NEW pc, NEW rule, Moved(q, pc, rule),
         Len(events') = Len(events),
         \A l \in LogIds : l[2] # Top(q).event => logs'[l] = logs[l],
         NEW f, f = [event |-> Top(q).event, pc |-> pc, rule |-> rule],
         FrameFits(f)'
  PROVE  StacksFit' /\ LogsFit'
<1>1. /\ Len(events) \in Nat /\ Depth(q) \in 1..Depth(q) /\ Depth(q) \in Nat
      /\ stack[q] # <<>>
  BY StackTypes, RulesTypes DEF Moved
<1>2. Depth(q)' = Depth(q) /\ \A p \in Requests \ {q} : Depth(p)' = Depth(p)
  BY DEF Moved, OthersWait, Depth
<1>3. \A p \in Requests : \A j \in 1..Depth(p) :
        stack'[p][j].event = stack[p][j].event
  BY <1>1 DEF Moved, OthersWait, Depth, Top
<1>4. \A p \in Requests : \A j \in 1..Depth(p) :
        p # q \/ j # Depth(q) => /\ stack'[p][j] = stack[p][j]
                                 /\ stack[p][j].event # Top(q).event
  BY <1>1 DEF Moved, OthersWait, StacksFit, Top, Depth
<1>5. ASSUME NEW p \in Requests, NEW j \in 1..Depth(p)
      PROVE  /\ FrameFits(stack[p][j])'
             /\ j # Depth(p) => stack'[p][j].pc \in {"rules", "recording"}
  <2>1. CASE p = q /\ j = Depth(q)
    <3>1. stack'[p][j] = f
      BY <2>1 DEF Moved
    <3>2. QED
      BY <2>1, <3>1
  <2>2. CASE p # q \/ j # Depth(q)
    <3>1. PICK g : g = stack[p][j]
      OBVIOUS
    <3>2. g \in FrameType /\ g.event # Top(q).event /\ g = stack'[p][j]
      BY <1>4, <2>2, <3>1, StackTypes
    <3>3. FrameFits(g)
      BY <3>1 DEF StacksFit
    <3>4. FrameFits(g)'
      BY <1>1, <3>2, <3>3, FrameKept
    <3>5. QED
      BY <3>1, <3>2, <3>4 DEF StacksFit
  <2>3. QED
    BY <2>1, <2>2
<1>6. StacksFit'
  BY <1>2, <1>3, <1>5 DEF StacksFit
<1>7. LogsFit'
  <2>1. Top(q).event \in 1..Len(events)
    BY <1>1 DEF StacksFit, FrameFits, Top, Depth
  <2>2. QED
    BY <2>1 DEF LogsFit
<1>8. QED
  BY <1>6, <1>7

\* Frames are taken off.
LEMMA PopFits ==
  ASSUME EventsTypeOK, StacksFit, LogsFit, UNCHANGED <<setting, logs>>,
         NEW q \in Requests, Popped(q) \/ (OthersWait(q) /\ stack'[q] = <<>>),
         Len(events') = Len(events)
  PROVE  StacksFit' /\ LogsFit'
<1>1. Len(events) \in Nat /\ Depth(q) \in Nat
  BY StackTypes, RulesTypes
<1>2. /\ Depth(q)' \in 0..Depth(q)
      /\ \A i \in 1..Depth(q)' : /\ i \in 1..Depth(q) /\ i # Depth(q)
                                 /\ stack'[q][i] = stack[q][i]
  BY <1>1 DEF Popped, Depth
<1>3. \A p \in Requests \ {q} :
        stack'[p] = stack[p] /\ Depth(p)' = Depth(p)
  BY DEF Popped, OthersWait, Depth
<1>4. ASSUME NEW p \in Requests, NEW j \in 1..Depth(p)'
      PROVE  /\ j \in 1..Depth(p) /\ stack'[p][j] = stack[p][j]
             /\ FrameFits(stack[p][j])'
             /\ j # Depth(p)' => stack'[p][j].pc \in {"rules", "recording"}
  <2>1. j \in 1..Depth(p) /\ stack'[p][j] = stack[p][j]
        /\ (j # Depth(p)' => j # Depth(p))
    BY <1>2, <1>3
  <2>2. PICK f : f = stack[p][j]
    OBVIOUS
  <2>3. f \in FrameType /\ FrameFits(f) /\ f = stack'[p][j]
    BY <2>1, <2>2, StackTypes DEF StacksFit
  <2>4. FrameFits(f)'
    BY <1>1, <2>3, FrameKept
  <2>5. QED
    BY <2>1, <2>2, <2>3, <2>4 DEF StacksFit
<1>5. StacksFit'
  BY <1>4 DEF StacksFit
<1>6. QED
  BY <1>5 DEF LogsFit

\* A frame is put on: its event is new.
LEMMA PushFits ==
  ASSUME EventsTypeOK, StacksFit, LogsFit, UNCHANGED <<setting, logs>>,
         NEW q \in Requests, NEW back \in {"rules", "recording"},
         NEW pc \in {"notifying", "rules"},
         Pushed(q, back, [event |-> Len(events) + 1, rule |-> 0, pc |-> pc]),
         Len(events') = Len(events) + 1,
         stack[q] # <<>> => FrameFits([event |-> Top(q).event, pc |-> back,
                                       rule |-> Top(q).rule])
  PROVE  StacksFit' /\ LogsFit'
<1>1. /\ Len(events) \in Nat /\ Depth(q) \in Nat
      /\ stack[q] # <<>> <=> Depth(q) # 0
  BY StackTypes, RulesTypes
<1>2. /\ Depth(q)' = Depth(q) + 1
      /\ \A p \in Requests \ {q} :
           stack'[p] = stack[p] /\ Depth(p)' = Depth(p)
  BY DEF Pushed, OthersWait, Depth
<1>3. PICK new : new = [event |-> Len(events) + 1, rule |-> 0, pc |-> pc]
  OBVIOUS
<1>4. stack'[q][Depth(q) + 1] = new
  BY <1>3 DEF Pushed
<1>5. FrameFits(new)'
  <2>1. \A r \in 1..MaxRules : logs'[<<r, Len(events) + 1>>] = "NONE"
    <3>1. ASSUME NEW r \in 1..MaxRules
          PROVE  logs[<<r, Len(events) + 1>>] = "NONE"
      <4>1. Len(events) + 1 \in 1..MaxEvents
        <5>1. stack'[q][Depth(q) + 1] \in FrameType
          BY <1>1 DEF Pushed, Depth
        <5>2. QED
          BY <1>3, <1>4, <5>1 DEF FrameType
      <4>2. <<r, Len(events) + 1>> \in LogIds
        BY <4>1 DEF LogIds
      <4>3. <<r, Len(events) + 1>>[2] \notin 1..Len(events)
        BY <1>1
      <4>4. QED
        BY <4>2, <4>3 DEF LogsFit
    <3>2. QED
      BY <3>1
  <2>2. new.event = Len(events) + 1 /\ new.rule = 0 /\ new.pc = pc
    BY <1>3
  <2>3. QED
    BY <1>1, <2>1, <2>2 DEF FrameFits
<1>6. ASSUME NEW p \in Requests, NEW j \in 1..Depth(p)
      PROVE  /\ stack'[p][j].event = stack[p][j].event
             /\ stack'[p][j].event # Len(events) + 1
             /\ FrameFits(stack[p][j])'
             /\ p = q \/ j # Depth(p) =>
                  stack'[p][j].pc \in {"rules", "recording"}
  <2>1. PICK f : f = stack'[p][j]
    OBVIOUS
  <2>2. CASE p = q /\ j = Depth(q)
    <3>1. f = [event |-> Top(q).event, pc |-> back, rule |-> Top(q).rule]
      BY <1>1, <2>1, <2>2 DEF Pushed
    <3>2. f \in FrameType /\ FrameFits(f) /\ f.pc = back
          /\ f.event = stack[p][j].event
      <4>1. f \in FrameType
        BY <1>1, <2>1, <2>2 DEF Pushed
      <4>2. QED
        BY <1>1, <2>2, <3>1, <4>1 DEF Top, Depth
    <3>3. FrameFits(f)'
      BY <1>1, <3>2, FrameKept
    <3>4. f.event # Len(events) + 1
      BY <1>1, <3>2 DEF FrameFits
    <3>5. QED
      BY <2>1, <3>2, <3>3, <3>4
  <2>3. CASE p # q \/ j # Depth(q)
    <3>1. f = stack[p][j] /\ f \in FrameType
      BY <1>1, <2>1, <2>3, StackTypes DEF Pushed, OthersWait
    <3>2. FrameFits(f)
      BY <3>1 DEF StacksFit
    <3>3. FrameFits(f)'
      BY <1>1, <3>1, <3>2, FrameKept
    <3>4. f.event # Len(events) + 1
      BY <1>1, <3>2 DEF FrameFits
    <3>5. QED
      BY <2>1, <2>3, <3>1, <3>3, <3>4 DEF StacksFit
  <2>4. QED
    BY <2>2, <2>3
<1>7. new.event = Len(events) + 1
  BY <1>3
<1>8. \A p \in Requests : \A j \in 1..Depth(p)' :
        \/ /\ j \in 1..Depth(p)
           /\ p = q \/ j # Depth(p)' => j # Depth(p) \/ p = q
        \/ p = q /\ j = Depth(q) + 1 /\ j = Depth(p)'
  BY <1>1, <1>2
<1>9. StacksFit'
  <2> SUFFICES ASSUME NEW p \in Requests, NEW i \in 1..Depth(p)'
               PROVE  /\ FrameFits(stack[p][i])'
                      /\ i # Depth(p)' =>
                           stack'[p][i].pc \in {"rules", "recording"}
                      /\ \A r \in Requests : \A j \in 1..Depth(r)' :
                           stack'[r][j].event = stack'[p][i].event =>
                             r = p /\ j = i
    BY DEF StacksFit
  <2>1. CASE i \in 1..Depth(p)
    <3>1. FrameFits(stack[p][i])'
      BY <1>6, <2>1
    <3>2. i # Depth(p)' => stack'[p][i].pc \in {"rules", "recording"}
      BY <1>2, <1>6, <2>1
    <3>3. ASSUME NEW r \in Requests, NEW j \in 1..Depth(r)',
                 stack'[r][j].event = stack'[p][i].event
          PROVE  r = p /\ j = i
      <4>1. j \in 1..Depth(r)
        BY <1>4, <1>6, <1>7, <1>8, <2>1, <3>3
      <4>2. stack[r][j].event = stack[p][i].event
        BY <1>6, <2>1, <3>3, <4>1
      <4>3. QED
        BY <2>1, <4>1, <4>2 DEF StacksFit
    <3>4. QED
      BY <3>1, <3>2, <3>3
  <2>2. CASE p = q /\ i = Depth(q) + 1
    <3>1. FrameFits(stack[p][i])' /\ i = Depth(p)'
      BY <1>2, <1>4, <1>5, <2>2
    <3>2. ASSUME NEW r \in Requests, NEW j \in 1..Depth(r)',
                 stack'[r][j].event = stack'[p][i].event
          PROVE  r = p /\ j = i
      BY <1>4, <1>6, <1>7, <1>8, <2>2, <3>2
    <3>3. QED
      BY <3>1, <3>2
  <2>3. QED
    BY <1>8, <2>1, <2>2
<1>10. LogsFit'
  BY <1>1 DEF LogsFit
<1>11. QED
  BY <1>9, <1>10

(***************************************************************************)
(* Domain events: the steps                                                *)
(***************************************************************************)

\* The rule of a frame that runs one.
LEMMA RuleOfTop ==
  ASSUME EventsTypeOK, StacksFit, NEW q \in Requests, stack[q] # <<>>
  PROVE  /\ Top(q) \in FrameType /\ FrameFits(Top(q))
         /\ Top(q).pc \in Pcs /\ Top(q).event \in 1..Len(events)
         /\ Top(q).event \in 1..MaxEvents
         /\ Top(q).pc \notin {"notifying", "rules", "closing", "failing"} =>
              /\ Top(q).rule \in Rules /\ Top(q).rule \in 1..MaxRules
              /\ Log(q) \in LogIds
<1>1. Top(q) \in FrameType /\ Depth(q) \in 1..Depth(q)
  BY StackTypes
<1>2. FrameFits(Top(q))
  BY <1>1 DEF StacksFit, Top, Depth
<1>3. /\ Top(q).pc \in Pcs /\ Top(q).event \in 1..Len(events)
      /\ Top(q).event \in 1..MaxEvents
      /\ Top(q).pc \notin {"notifying", "rules", "closing", "failing"} =>
           Top(q).rule \in Rules
  BY <1>1, <1>2 DEF FrameFits, FrameType
<1>4. Rules \subseteq 1..MaxRules
  BY RulesTypes
<1>5. QED
  BY <1>1, <1>2, <1>3, <1>4 DEF Log, LogIds

\* A step that moves a frame without writing a log.
Passes(q, pc, rule) ==
  /\ Moved(q, pc, rule) /\ UNCHANGED <<events, logs, recent, setting>>
  /\ \/ /\ rule = Top(q).rule
        /\ \/ At(q, "notifying") /\ pc = "rules"
           \/ At(q, "rules") /\ pc = "closing" /\ Left(q) = {}
           \/ At(q, "acting") /\ pc = "recording"
           \/ /\ Top(q).pc \in setting.faults /\ pc = Caught(Top(q).pc)
              /\ Top(q).pc \notin {"skipping", "announcing", "lamenting",
                                   "failing"}
           \/ /\ "publishing" \in setting.faults
              /\ Top(q).pc \in {"skipping", "announcing", "lamenting"}
              /\ pc = "rules"
     \/ /\ At(q, "rules") /\ rule \in Left(q)
        /\ \A r \in Left(q) : rule <= r
        /\ pc \in {"rules", "blocking", "logging"}
        /\ pc = "logging" => ~CooldownActive(rule, Top(q).event)

\* A step that writes the log of the rule.
Writes(q, pc, status) ==
  /\ Moved(q, pc, Top(q).rule) /\ UNCHANGED <<events, setting>>
  /\ logs' = [logs EXCEPT ![Log(q)] = status]
  /\ \/ /\ UNCHANGED recent
        /\ \/ /\ At(q, "blocking") /\ pc = "skipping"
              /\ status = "COOLDOWN_BLOCKED"
           \/ At(q, "starting") /\ pc = "acting" /\ status = "RUNNING"
           \/ /\ At(q, "recording") /\ pc = "announcing"
              /\ status \in {"SKIPPED", "SUCCEEDED"}
              /\ setting.does[Top(q).rule] # "nothing" =>
                   status = "SUCCEEDED"
           \/ /\ At(q, "rulefailing") /\ pc = "lamenting"
              /\ status = "FAILED"
     \/ /\ recent' = Append(recent, Log(q))
        /\ At(q, "logging") /\ pc = "starting" /\ status = "PENDING"

\* What a rule publishes at which of its steps.
Publishes(q, type) ==
  \/ type = "requested" /\ At(q, "acting")
  \/ type = "succeeded" /\ At(q, "announcing")
  \/ type \in {"skipped", "failed"}

\* A step in which a rule publishes.
Tells(q, back) ==
  /\ stack[q] # <<>> /\ UNCHANGED <<logs, recent, setting>>
  /\ Pushed(q, back, [event |-> Len(events) + 1, rule |-> 0, pc |-> "rules"])
  /\ \E type \in Types : /\ Born(type, Top(q).rule, Top(q).event)
                         /\ Publishes(q, type)
  /\ \/ Top(q).pc \in {"skipping", "announcing", "lamenting"} /\ back = "rules"
     \/ At(q, "acting") /\ back = "recording"

\* A step that ends the handling of an event.
Ends(q) ==
  /\ Popped(q) /\ UNCHANGED <<logs, recent, setting>>
  /\ \/ /\ UNCHANGED events
        /\ At(q, "failing") /\ "failing" \in setting.faults
     \/ At(q, "closing") /\ SetEvent(q, "PROCESSED")
     \/ At(q, "failing") /\ SetEvent(q, "FAILED")

\* A step that begins a request.
Begins(q) ==
  /\ stack[q] = <<>> /\ UNCHANGED <<logs, recent, setting>>
  /\ Cardinality({p \in Requests : stack[p] # <<>>}) < setting.requests
  /\ Pushed(q, "rules",
            [event |-> Len(events) + 1, rule |-> 0, pc |-> "notifying"])
  /\ \E a \in Aggregates : Born("business", a, 0)

\* The handling of an event takes one of these steps.
LEMMA HandleSteps ==
  ASSUME EventsTypeOK, StacksFit, NEW q \in Requests, Handle(q)
  PROVE  \/ \E pc \in Pcs, rule \in 0..MaxRules : Passes(q, pc, rule)
         \/ \E pc \in Pcs, status \in LogStatus : Writes(q, pc, status)
         \/ \E back \in {"rules", "recording"} : Tells(q, back)
         \/ Ends(q)
<1>1. stack[q] # <<>>
  BY DEF Handle, Notify, Close, CloseFailed, Evaluate, NoRuleLeft, Block,
         TellSkipped, CreateLog, StartRule, Act, Record, TellSucceeded,
         RuleFailed, TellFailed, At
<1>2. /\ Top(q) \in FrameType /\ Top(q).rule \in 0..MaxRules
      /\ Rules \subseteq 1..MaxRules /\ MaxRules \in Nat
  BY <1>1, RuleOfTop, RulesTypes DEF FrameType
<1>3. \A pc \in Pcs : Goto(q, pc) => Moved(q, pc, Top(q).rule)
  BY <1>1, GotoMoves
<1>4. CASE Notify(q)
  <2>1. Passes(q, "rules", Top(q).rule)
    BY <1>3, <1>4 DEF Notify, Passes, Pcs
  <2>2. QED
    BY <1>2, <2>1 DEF Pcs
<1>5. CASE Close(q) \/ CloseFailed(q)
  <2>1. Popped(q)
    BY <1>1, <1>5, ReturnPops DEF Close, CloseFailed
  <2>2. QED
    BY <1>5, <2>1 DEF Close, CloseFailed, Ends
<1>6. CASE Evaluate(q)
  <2>1. PICK r \in Left(q), pc \in {"rules", "blocking", "logging"} :
          /\ \A other \in Left(q) : r <= other
          /\ pc = "logging" => ~CooldownActive(r, Top(q).event)
          /\ stack' = [stack EXCEPT ![q][Len(stack[q])].rule = r,
                                    ![q][Len(stack[q])].pc = pc]
    BY <1>6 DEF Evaluate
  <2>2. r \in 0..MaxRules /\ pc \in Pcs
    BY <1>2, <2>1 DEF Left, Pcs
  <2>3. Moved(q, pc, r)
    BY <1>1, <2>1, <2>2, EvaluateMoves
  <2>4. Passes(q, pc, r)
    BY <1>6, <2>1, <2>3 DEF Evaluate, Passes
  <2>5. QED
    BY <2>2, <2>4
<1>7. CASE NoRuleLeft(q)
  <2>1. Passes(q, "closing", Top(q).rule)
    BY <1>3, <1>7 DEF NoRuleLeft, Passes, Pcs
  <2>2. QED
    BY <1>2, <2>1 DEF Pcs
<1>8. CASE Block(q) \/ CreateLog(q) \/ StartRule(q) \/ Record(q)
           \/ RuleFailed(q)
  <2>1. CASE Block(q)
    <3>1. Writes(q, "skipping", "COOLDOWN_BLOCKED")
      BY <1>3, <2>1 DEF Block, Writes, SetLog, Pcs
    <3>2. QED
      BY <3>1 DEF Pcs, LogStatus
  <2>2. CASE CreateLog(q)
    <3>1. Writes(q, "starting", "PENDING")
      BY <1>3, <2>2 DEF CreateLog, Writes, SetLog, Pcs
    <3>2. QED
      BY <3>1 DEF Pcs, LogStatus
  <2>3. CASE StartRule(q)
    <3>1. Writes(q, "acting", "RUNNING")
      BY <1>3, <2>3 DEF StartRule, Writes, SetLog, Pcs
    <3>2. QED
      BY <3>1 DEF Pcs, LogStatus
  <2>4. CASE Record(q)
    <3>1. PICK status \in {"SKIPPED", "SUCCEEDED"} :
            /\ SetLog(q, status)
            /\ setting.does[Top(q).rule] # "nothing" => status = "SUCCEEDED"
      BY <2>4 DEF Record
    <3>2. Writes(q, "announcing", status)
      BY <1>3, <2>4, <3>1 DEF Record, Writes, SetLog, Pcs
    <3>3. QED
      BY <3>2 DEF Pcs, LogStatus
  <2>5. CASE RuleFailed(q)
    <3>1. Writes(q, "lamenting", "FAILED")
      BY <1>3, <2>5 DEF RuleFailed, Writes, SetLog, Pcs
    <3>2. QED
      BY <3>1 DEF Pcs, LogStatus
  <2>6. QED
    BY <1>8, <2>1, <2>2, <2>3, <2>4, <2>5
<1>9. ASSUME NEW type \in Types \ {"business"}, NEW back \in Pcs,
             Publish(q, type, back), UNCHANGED <<logs, recent, setting>>,
             Publishes(q, type),
             \/ /\ Top(q).pc \in {"skipping", "announcing", "lamenting"}
                /\ back = "rules"
             \/ At(q, "acting") /\ back = "recording"
      PROVE  Tells(q, back) \/ Passes(q, back, Top(q).rule)
  <2>1. Top(q).rule \in 1..MaxRules
    BY <1>1, <1>9, RuleOfTop DEF At
  <2>2. CASE /\ Born(type, Top(q).rule, Top(q).event)
             /\ Pushed(q, back, [event |-> Len(events) + 1, rule |-> 0,
                                 pc |-> "rules"])
    BY <1>1, <1>9, <2>2 DEF Tells
  <2>3. CASE /\ "publishing" \in setting.faults /\ UNCHANGED events
             /\ Moved(q, back, Top(q).rule)
    BY <1>9, <2>3 DEF Passes
  <2>4. QED
    BY <1>1, <1>9, <2>1, <2>2, <2>3, PublishPushes
<1>10. CASE TellSkipped(q) \/ TellSucceeded(q) \/ TellFailed(q)
  <2>1. \E type \in Types \ {"business"} :
          Publish(q, type, "rules") /\ Publishes(q, type)
    BY <1>10 DEF TellSkipped, TellSucceeded, TellFailed, Types, Publishes
  <2>2. Top(q).pc \in {"skipping", "announcing", "lamenting"}
        /\ UNCHANGED <<logs, recent, setting>>
    BY <1>10 DEF TellSkipped, TellSucceeded, TellFailed, At
  <2>3. Tells(q, "rules") \/ Passes(q, "rules", Top(q).rule)
    BY <1>9, <2>1, <2>2 DEF Pcs
  <2>4. QED
    BY <1>2, <2>3 DEF Pcs
<1>11. CASE Act(q)
  <2>1. CASE Publish(q, "requested", "recording")
    <3>1. Tells(q, "recording") \/ Passes(q, "recording", Top(q).rule)
      BY <1>9, <1>11, <2>1 DEF Act, Pcs, Types, Publishes
    <3>2. QED
      BY <1>2, <3>1 DEF Pcs
  <2>2. CASE Goto(q, "recording") /\ UNCHANGED events
    <3>1. Passes(q, "recording", Top(q).rule)
      BY <1>3, <1>11, <2>2 DEF Act, Passes, Pcs
    <3>2. QED
      BY <1>2, <3>1 DEF Pcs
  <2>3. QED
    BY <1>11, <2>1, <2>2 DEF Act
<1>12. QED
  BY <1>4, <1>5, <1>6, <1>7, <1>8, <1>10, <1>11 DEF Handle

\* A step in which the process of a request ends.
Dies(q) ==
  /\ stack[q] # <<>> /\ OthersWait(q) /\ stack'[q] = <<>>
  /\ "crashed" \in setting.faults
  /\ UNCHANGED <<events, logs, recent, setting>>

\* Whoever handles an event, or a request that begins or ends.
RequestSteps(q) ==
  \/ \E pc \in Pcs, rule \in 0..MaxRules : Passes(q, pc, rule)
  \/ \E pc \in Pcs, status \in LogStatus : Writes(q, pc, status)
  \/ \E back \in {"rules", "recording"} : Tells(q, back)
  \/ Ends(q) \/ Begins(q) \/ Dies(q)

\* An error moves the frame to where it is caught, or ends the handling.
LEMMA ThrowSteps ==
  ASSUME EventsTypeOK, StacksFit, NEW q \in Requests, Throw(q)
  PROVE  RequestSteps(q)
<1>1. stack[q] # <<>> /\ Top(q) \in FrameType
  BY StackTypes DEF Throw
<1>2. CASE Top(q).pc = "failing"
  <2>1. Popped(q)
    BY <1>1, <1>2, ReturnPops DEF Throw
  <2>2. Ends(q)
    BY <1>1, <1>2, <2>1 DEF Throw, Ends, At
  <2>3. QED
    BY <2>2 DEF RequestSteps
<1>3. CASE Top(q).pc # "failing"
  <2>1. PICK pc : pc = Caught(Top(q).pc)
    OBVIOUS
  <2>2. pc \in Pcs
    BY <2>1 DEF Caught, Pcs
  <2>3. Moved(q, pc, Top(q).rule)
    BY <1>1, <1>3, <2>1, <2>2, GotoMoves DEF Throw
  <2>4. Passes(q, pc, Top(q).rule)
    BY <1>3, <2>1, <2>3 DEF Throw, Passes
  <2>5. QED
    BY <1>1, <2>2, <2>4 DEF RequestSteps, FrameType
<1>4. QED
  BY <1>2, <1>3

\* A module publishes, and a request begins.
LEMMA PublishRootSteps ==
  ASSUME EventsTypeOK, NEW q \in Requests, NEW a \in Aggregates,
         PublishRoot(q, a)
  PROVE  RequestSteps(q)
<1>1. stack[q] = <<>> /\ Depth(q) = 0
  BY DEF PublishRoot, Depth
<1>2. PICK frames : frames = <<>>
  OBVIOUS
<1>3. frames \in Seq(FrameType) /\ Len(frames) = Depth(q)
  BY <1>1, <1>2
<1>4. 0 \in 0..MaxEvents /\ "business" \in Types
  BY EventsAssumption DEF Types
<1>5. /\ Born("business", a, 0)
      /\ Pushed(q, "rules",
           [event |-> Len(events) + 1, rule |-> 0, pc |-> "notifying"])
  <2>1. InsertEvent(q, frames, "business", a, 0)
    BY <1>2 DEF PublishRoot
  <2>2. UNCHANGED setting
    BY DEF PublishRoot
  <2>3. \A i \in 1..Depth(q) : i # Depth(q) => frames[i] = stack[q][i]
    BY <1>1
  <2>4. stack[q] # <<>> => frames[Depth(q)] =
          [event |-> Top(q).event, pc |-> "rules", rule |-> Top(q).rule]
    BY <1>1
  <2>5. a \in Aggregates \cup 1..MaxRules
    OBVIOUS
  <2>6. /\ Born("business", a, 0)
        /\ Pushed(q, "rules", [event |-> Len(events) + 1, rule |-> 0, pc |->
                     IF "business" = "business" THEN "notifying" ELSE "rules"])
    BY <1>3, <1>4, <2>1, <2>2, <2>3, <2>4, <2>5, InsertPushes
  <2>7. QED
    BY <2>6
<1>6. Begins(q)
  BY <1>1, <1>5 DEF Begins, PublishRoot
<1>7. QED
  BY <1>6 DEF RequestSteps

\* Every step is of one of these kinds.
LEMMA NextSteps ==
  ASSUME EventsTypeOK, StacksFit, EventsNext
  PROVE  (\E q \in Requests : RequestSteps(q)) \/ Elapse
<1>1. CASE Elapse
  BY <1>1
<1>2. ASSUME NEW q \in Requests, NEW a \in Aggregates, PublishRoot(q, a)
      PROVE  RequestSteps(q)
  BY <1>2, PublishRootSteps
<1>3. ASSUME NEW q \in Requests, Handle(q)
      PROVE  RequestSteps(q)
  BY <1>3, HandleSteps DEF RequestSteps
<1>4. ASSUME NEW q \in Requests, Throw(q)
      PROVE  RequestSteps(q)
  BY <1>4, ThrowSteps
<1>5. ASSUME NEW q \in Requests, Crash(q)
      PROVE  RequestSteps(q)
  <2>1. stack \in [Requests -> Seq(FrameType)]
    BY DEF EventsTypeOK, FrameType
  <2>2. PICK none \in Seq(FrameType) : none = <<>>
    BY EmptySeq
  <2>3. stack' = [stack EXCEPT ![q] = none] /\ stack[q] # <<>>
    BY <1>5, <2>2 DEF Crash
  <2>4. OthersWait(q) /\ stack'[q] = none
    BY <2>1, <2>3 DEF OthersWait
  <2>5. /\ "crashed" \in setting.faults
        /\ UNCHANGED <<events, logs, recent, setting>>
    BY <1>5 DEF Crash
  <2>6. stack'[q] = <<>>
    BY <2>2, <2>4
  <2>7. Dies(q)
    BY <2>3, <2>4, <2>5, <2>6 DEF Dies
  <2>8. QED
    BY <2>7 DEF RequestSteps
<1>6. QED
  BY <1>1, <1>2, <1>3, <1>4, <1>5 DEF EventsNext

\* Where a frame goes on without a write, it fits.
LEMMA PassesFit ==
  ASSUME EventsTypeOK, StacksFit, LogsFit, NEW q \in Requests,
         NEW pc \in Pcs, NEW rule \in 0..MaxRules, Passes(q, pc, rule)
  PROVE  StacksFit' /\ LogsFit'
<1>1. /\ stack[q] # <<>> /\ UNCHANGED setting /\ UNCHANGED events
      /\ UNCHANGED logs
  BY DEF Passes, Moved
<1>2. /\ FrameFits(Top(q)) /\ Top(q) \in FrameType /\ Top(q).pc \in Pcs
      /\ Top(q).rule \in 0..MaxRules
  BY <1>1, RuleOfTop DEF FrameType
<1>3. /\ Rules \subseteq 1..MaxRules /\ MaxRules \in Nat
      /\ Len(events') = Len(events)
  BY <1>1, RulesTypes
<1>4. PICK f : f = [event |-> Top(q).event, pc |-> pc, rule |-> rule]
  OBVIOUS
<1>5. f.event = Top(q).event /\ f.pc = pc /\ f.rule = rule
  BY <1>4
<1>6. FrameFits(f)
  <2>1. CASE rule = Top(q).rule /\ pc \in {"rules", "closing", "failing"}
    BY <1>2, <1>5, <2>1 DEF FrameFits
  <2>2. CASE rule = Top(q).rule /\ pc \in {"recording", "rulefailing"}
             /\ Top(q).pc \in {"acting", "recording"}
    BY <1>2, <1>5, <2>2 DEF FrameFits
  <2>3. CASE /\ rule \in Left(q) /\ pc \in {"rules", "blocking", "logging"}
    <3>1. rule \in Rules /\ rule > Top(q).rule
      BY <2>3 DEF Left
    <3>2. \A r \in 1..MaxRules : r >= rule => r > Top(q).rule
      BY <1>2, <1>3, <3>1
    <3>3. \A r \in 1..MaxRules : r >= rule => logs[<<r, f.event>>] = "NONE"
      BY <1>2, <1>5, <3>2 DEF FrameFits
    <3>4. \A r \in 1..MaxRules : r > rule \/ r = rule => r >= rule
      BY <1>3, <3>1
    <3>5. f.event \in 1..Len(events)
      BY <1>2, <1>5 DEF FrameFits
    <3>6. QED
      BY <1>5, <2>3, <3>1, <3>3, <3>4, <3>5 DEF FrameFits
  <2>4. \/ rule = Top(q).rule /\ pc \in {"rules", "closing", "failing"}
        \/ /\ rule = Top(q).rule /\ pc \in {"recording", "rulefailing"}
           /\ Top(q).pc \in {"acting", "recording"}
        \/ rule \in Left(q) /\ pc \in {"rules", "blocking", "logging"}
    BY <1>2 DEF Passes, At, Caught, Pcs
  <2>5. QED
    BY <2>1, <2>2, <2>3, <2>4
<1>7. FrameFits(f)'
  BY <1>1, <1>6 DEF FrameFits, Rules
<1>8. Moved(q, pc, rule) /\ \A l \in LogIds : logs'[l] = logs[l]
  BY <1>1 DEF Passes
<1>9. QED
  BY <1>1, <1>3, <1>4, <1>7, <1>8, MoveFits

\* Where a frame goes on after the write of its log, it fits.
LEMMA WritesFit ==
  ASSUME EventsTypeOK, StacksFit, LogsFit, NEW q \in Requests,
         NEW pc \in Pcs, NEW status \in LogStatus, Writes(q, pc, status)
  PROVE  /\ StacksFit' /\ LogsFit' /\ Log(q) \in LogIds
         /\ Top(q).rule \in Rules /\ Top(q).event \in 1..Len(events)
<1>1. /\ stack[q] # <<>> /\ UNCHANGED setting /\ UNCHANGED events
      /\ logs' = [logs EXCEPT ![Log(q)] = status]
  BY DEF Writes, Moved
<1>2. /\ FrameFits(Top(q)) /\ Top(q) \in FrameType
      /\ Top(q).event \in 1..Len(events)
      /\ Top(q).rule \in Rules /\ Top(q).rule \in 1..MaxRules
      /\ Log(q) \in LogIds
  BY <1>1, RuleOfTop DEF Writes, At
<1>3. /\ Rules \subseteq 1..MaxRules /\ MaxRules \in Nat
      /\ Len(events') = Len(events) /\ logs \in [LogIds -> LogStatus]
  BY <1>1, RulesTypes
<1>4. PICK f : f = [event |-> Top(q).event, pc |-> pc, rule |-> Top(q).rule]
  OBVIOUS
<1>5. f.event = Top(q).event /\ f.pc = pc /\ f.rule = Top(q).rule
  BY <1>4
<1>6. /\ \A l \in LogIds : l # Log(q) => logs'[l] = logs[l]
      /\ logs'[Log(q)] = status
  BY <1>1, <1>2, <1>3
<1>7. \A l \in LogIds : l[2] # Top(q).event => logs'[l] = logs[l]
  BY <1>6 DEF Log
<1>8. /\ pc \notin {"blocking", "logging", "recording"}
      /\ pc \in {"starting", "acting"} => status \in Open
  BY DEF Writes, Open
<1>9. \A r \in 1..MaxRules : r > f.rule => logs'[<<r, f.event>>] = "NONE"
  <2> SUFFICES ASSUME NEW r \in 1..MaxRules, r > f.rule
               PROVE  logs'[<<r, f.event>>] = "NONE"
    OBVIOUS
  <2>1. <<r, f.event>> \in LogIds
    BY <1>2, <1>5, StackTypes, <1>1 DEF LogIds, FrameType
  <2>2. <<r, f.event>> # Log(q)
    BY <1>2, <1>3, <1>5 DEF Log
  <2>3. logs[<<r, f.event>>] = "NONE"
    BY <1>2, <1>5 DEF FrameFits
  <2>4. QED
    BY <1>6, <2>1, <2>2, <2>3
<1>10. FrameFits(f)'
  <2>1. f.event \in 1..Len(events') /\ f.rule \in Rules'
    BY <1>1, <1>2, <1>3, <1>5 DEF Rules
  <2>2. pc \in {"starting", "acting"} => logs'[<<f.rule, f.event>>] \in Open
    BY <1>5, <1>6, <1>8 DEF Log
  <2>3. QED
    BY <1>5, <1>8, <1>9, <2>1, <2>2 DEF FrameFits
<1>11. Moved(q, pc, Top(q).rule)
  BY DEF Writes
<1>12. QED
  BY <1>1, <1>2, <1>3, <1>4, <1>7, <1>10, <1>11, MoveFits

\* Where a frame waits for what it published, it fits.
LEMMA TellsFit ==
  ASSUME EventsTypeOK, StacksFit, LogsFit, NEW q \in Requests,
         NEW back \in {"rules", "recording"}, Tells(q, back)
  PROVE  StacksFit' /\ LogsFit'
<1>1. /\ stack[q] # <<>> /\ UNCHANGED setting /\ UNCHANGED logs
      /\ Pushed(q, back,
                [event |-> Len(events) + 1, rule |-> 0, pc |-> "rules"])
      /\ Len(events') = Len(events) + 1
  BY DEF Tells, Born
<1>2. FrameFits(Top(q))
  BY <1>1, RuleOfTop
<1>3. PICK f : f = [event |-> Top(q).event, pc |-> back, rule |-> Top(q).rule]
  OBVIOUS
<1>4. FrameFits(f)
  <2>1. f.event = Top(q).event /\ f.pc = back /\ f.rule = Top(q).rule
    BY <1>3
  <2>2. CASE back = "rules"
    BY <1>2, <2>1, <2>2 DEF FrameFits
  <2>3. CASE back = "recording" /\ Top(q).pc = "acting"
    BY <1>2, <2>1, <2>3 DEF FrameFits
  <2>4. QED
    BY <2>2, <2>3 DEF Tells, At
<1>5. QED
  BY <1>1, <1>3, <1>4, PushFits

\* The close of an event changes its status and nothing else.
LEMMA SetEventKeeps ==
  ASSUME EventsTypeOK, StacksFit, NEW q \in Requests, stack[q] # <<>>,
         NEW status \in {"PROCESSED", "FAILED"}, SetEvent(q, status)
  PROVE  /\ events' \in Seq(EventType) /\ Len(events') = Len(events)
         /\ \A d \in 1..Len(events) :
              /\ events'[d].type = events[d].type
              /\ events'[d].aggregate = events[d].aggregate
              /\ events'[d].cause = events[d].cause
              /\ d # Top(q).event => events'[d].status = events[d].status
         /\ events'[Top(q).event].status = status
<1>1. events \in Seq(EventType) /\ Top(q).event \in 1..Len(events)
  BY RulesTypes, RuleOfTop
<1>2. PICK e : e = Top(q).event
  OBVIOUS
<1>3. e \in 1..Len(events) /\ events[e] \in EventType
  BY <1>1, <1>2
<1>4. PICK row : row = [events[e] EXCEPT !.status = status]
  OBVIOUS
<1>5. /\ row \in EventType /\ row.type = events[e].type
      /\ row.aggregate = events[e].aggregate /\ row.cause = events[e].cause
      /\ row.status = status
  BY <1>3, <1>4 DEF EventType
<1>6. events' = [events EXCEPT ![e] = row]
  BY <1>2, <1>4 DEF SetEvent
<1>7. /\ events' \in Seq(EventType) /\ Len(events') = Len(events)
      /\ events'[e] = row
      /\ \A d \in 1..Len(events) : d # e => events'[d] = events[d]
  BY <1>1, <1>3, <1>5, <1>6
<1>8. QED
  BY <1>2, <1>5, <1>7

\* The rows a step leaves.
LEMMA StepEvents ==
  ASSUME EventsTypeOK, StacksFit, NEW q \in Requests, RequestSteps(q)
  PROVE  /\ UNCHANGED setting /\ OthersWait(q)
         /\ events' \in Seq(EventType) /\ Len(events') <= setting.events
         /\ Len(events) <= Len(events')
         /\ \A d \in 1..Len(events) :
              /\ events'[d].type = events[d].type
              /\ events'[d].aggregate = events[d].aggregate
              /\ events'[d].cause = events[d].cause
<1>1. /\ events \in Seq(EventType) /\ Len(events) <= setting.events
      /\ Len(events) \in Nat
  BY RulesTypes DEF EventsTypeOK
<1>2. UNCHANGED setting
  BY DEF RequestSteps, Passes, Writes, Tells, Ends, Begins, Dies
<1>3. OthersWait(q)
  BY DEF RequestSteps, Passes, Writes, Tells, Ends, Begins, Dies, Moved,
         Popped, Pushed
<1>4. CASE UNCHANGED events
  BY <1>1, <1>2, <1>3, <1>4
<1>5. CASE \E type, aggregate, cause : Born(type, aggregate, cause)
  BY <1>1, <1>2, <1>3, <1>5 DEF Born
<1>6. CASE /\ stack[q] # <<>>
           /\ \E status \in {"PROCESSED", "FAILED"} : SetEvent(q, status)
  BY <1>1, <1>2, <1>3, <1>6, SetEventKeeps
<1>7. QED
  <2>1. \A pc, rule : Passes(q, pc, rule) => UNCHANGED events
    BY DEF Passes
  <2>2. \A pc, status : Writes(q, pc, status) => UNCHANGED events
    BY DEF Writes
  <2>3. \A back : Tells(q, back) =>
          \E type, aggregate, cause : Born(type, aggregate, cause)
    BY DEF Tells
  <2>4. Begins(q) => \E type, aggregate, cause : Born(type, aggregate, cause)
    BY DEF Begins
  <2>5. Dies(q) => UNCHANGED events
    BY DEF Dies
  <2>6. Ends(q) => \/ UNCHANGED events
                   \/ /\ stack[q] # <<>>
                      /\ \E status \in {"PROCESSED", "FAILED"} :
                           SetEvent(q, status)
    BY DEF Ends, Popped
  <2>7. QED
    BY <1>4, <1>5, <1>6, <2>1, <2>2, <2>3, <2>4, <2>5, <2>6 DEF RequestSteps

\* Everything stays of its type, and every frame fits.
LEMMA StepTyped ==
  ASSUME EventsTypeOK, StacksFit, LogsFit, [EventsNext]_eventsVars
  PROVE  EventsTypeOK' /\ StacksFit' /\ LogsFit'
<1>0. ASSUME UNCHANGED <<events, logs, stack, setting>>,
             recent' \in Seq(LogIds)
      PROVE  EventsTypeOK' /\ StacksFit' /\ LogsFit'
  <2>1. EventsTypeOK'
    BY <1>0 DEF EventsTypeOK
  <2>2. \A f : FrameFits(f)' <=> FrameFits(f)
    BY <1>0 DEF FrameFits, Rules
  <2>3. StacksFit'
    BY <1>0, <2>2 DEF StacksFit, Depth
  <2>4. LogsFit'
    BY <1>0 DEF LogsFit
  <2>5. QED
    BY <2>1, <2>3, <2>4
<1>1. CASE UNCHANGED eventsVars
  BY <1>0, <1>1, RulesTypes DEF eventsVars
<1>2. CASE Elapse
  <2>1. UNCHANGED <<events, logs, stack, setting>>
    BY <1>2 DEF Elapse
  <2>2. recent \in Seq(LogIds) /\ recent # <<>> /\ recent' = Tail(recent)
    BY <1>2, RulesTypes DEF Elapse
  <2>3. recent' \in Seq(LogIds)
    BY <2>2
  <2>4. QED
    BY <1>0, <2>1, <2>3
<1>3. ASSUME NEW q \in Requests, RequestSteps(q)
      PROVE  EventsTypeOK' /\ StacksFit' /\ LogsFit'
  <2>1. /\ UNCHANGED setting /\ OthersWait(q)
        /\ events' \in Seq(EventType) /\ Len(events') <= setting.events
    BY <1>3, StepEvents
  <2>2. /\ logs \in [LogIds -> LogStatus] /\ recent \in Seq(LogIds)
        /\ setting \in Settings
    BY RulesTypes
  <2>3. ASSUME logs' \in [LogIds -> LogStatus], recent' \in Seq(LogIds)
        PROVE  EventsTypeOK'
    BY <2>1, <2>2, <2>3 DEF EventsTypeOK, OthersWait, FrameType, EventType
  <2>4. CASE \E pc \in Pcs, rule \in 0..MaxRules : Passes(q, pc, rule)
    <3>1. UNCHANGED <<logs, recent>>
      BY <2>4 DEF Passes
    <3>2. QED
      BY <2>2, <2>3, <2>4, <3>1, PassesFit
  <2>5. CASE \E pc \in Pcs, status \in LogStatus : Writes(q, pc, status)
    <3>1. PICK pc \in Pcs, status \in LogStatus : Writes(q, pc, status)
      BY <2>5
    <3>2. /\ logs' = [logs EXCEPT ![Log(q)] = status]
          /\ recent' \in {recent, Append(recent, Log(q))}
      BY <3>1 DEF Writes
    <3>3. StacksFit' /\ LogsFit' /\ Log(q) \in LogIds
      BY <3>1, WritesFit
    <3>4. logs' \in [LogIds -> LogStatus]
      BY <2>2, <3>2
    <3>5. recent' \in Seq(LogIds)
      BY <2>2, <3>2, <3>3
    <3>6. QED
      BY <2>3, <3>3, <3>4, <3>5
  <2>6. CASE \E back \in {"rules", "recording"} : Tells(q, back)
    <3>1. UNCHANGED <<logs, recent>>
      BY <2>6 DEF Tells
    <3>2. QED
      BY <2>2, <2>3, <2>6, <3>1, TellsFit
  <2>7. CASE Ends(q) \/ Dies(q)
    <3>1. UNCHANGED <<logs, recent>>
      BY <2>7 DEF Ends, Dies
    <3>2. Popped(q) \/ (OthersWait(q) /\ stack'[q] = <<>>)
      BY <2>7 DEF Ends, Dies
    <3>3. Len(events') = Len(events)
      <4>1. CASE UNCHANGED events
        BY <4>1
      <4>2. CASE /\ stack[q] # <<>>
                 /\ \E status \in {"PROCESSED", "FAILED"} :
                      SetEvent(q, status)
        BY <4>2, SetEventKeeps
      <4>3. QED
        BY <2>7, <4>1, <4>2 DEF Ends, Dies, Popped
    <3>4. StacksFit' /\ LogsFit'
      BY <2>1, <3>1, <3>2, <3>3, PopFits
    <3>5. QED
      BY <2>2, <2>3, <3>1, <3>4
  <2>8. CASE Begins(q)
    <3>1. UNCHANGED <<logs, recent>> /\ stack[q] = <<>>
      BY <2>8 DEF Begins
    <3>2. /\ Pushed(q, "rules", [event |-> Len(events) + 1, rule |-> 0,
                                 pc |-> "notifying"])
          /\ Len(events') = Len(events) + 1
      BY <2>8 DEF Begins, Born
    <3>3. StacksFit' /\ LogsFit'
      BY <2>1, <3>1, <3>2, PushFits
    <3>4. QED
      BY <2>2, <2>3, <3>1, <3>3
  <2>9. QED
    BY <1>3, <2>4, <2>5, <2>6, <2>7, <2>8 DEF RequestSteps
<1>4. QED
  BY <1>1, <1>2, <1>3, NextSteps

\* At the start there is nothing.
LEMMA InitTyped ==
  ASSUME EventsInit
  PROVE  EventsTypeOK /\ StacksFit /\ LogsFit
<1>1. /\ setting \in Settings /\ events = <<>> /\ recent = <<>>
      /\ logs = [l \in LogIds |-> "NONE"]
      /\ stack = [q \in Requests |-> <<>>]
  BY DEF EventsInit
<1>2. <<>> \in Seq(EventType) /\ <<>> \in Seq(LogIds)
      /\ <<>> \in Seq(FrameType) /\ Len(events) = 0
  BY <1>1, EmptySeq
<1>3. setting.events \in Nat
  BY <1>1, EventsAssumption
<1>4. stack \in [Requests -> Seq(FrameType)]
  BY <1>1, <1>2
<1>5. logs \in [LogIds -> LogStatus]
  BY <1>1 DEF LogStatus
<1>6. EventsTypeOK
  BY <1>1, <1>2, <1>3, <1>4, <1>5 DEF EventsTypeOK, EventType, FrameType
<1>7. \A q \in Requests : Depth(q) = 0
  BY <1>1, <1>2 DEF Depth
<1>8. StacksFit
  BY <1>7 DEF StacksFit
<1>9. LogsFit
  BY <1>1 DEF LogsFit
<1>10. QED
  BY <1>6, <1>8, <1>9

\* The events, the logs and the stacks of the requests are of their types:
\* a frame is of an event there is, and runs a rule there is
\* (DomainEventsService.publish, TriggerExecutionService.execute).
THEOREM EventsTypeCorrect == EventsSpec => []EventsTypeOK
<1> DEFINE Inv == EventsTypeOK /\ StacksFit /\ LogsFit
<1>1. EventsInit => Inv
  BY InitTyped
<1>2. Inv /\ [EventsNext]_eventsVars => Inv'
  BY StepTyped
<1>3. Inv => EventsTypeOK
  OBVIOUS
<1>4. QED
  BY <1>1, <1>2, <1>3, PTL DEF EventsSpec

(***************************************************************************)
(* Domain events: a processed event is settled                             *)
(***************************************************************************)

\* Nothing but a notification or the action of a rule throws.
Calm == setting.faults \subseteq {"notifying", "acting", "recording"}

\* The event e set off an event about the rule r.
Told(r, e) ==
  \E d \in 1..Len(events) : events[d].cause = e /\ events[d].aggregate = r

\* What the rule r had to do with the event e is done, and told.
Over(r, e) ==
  /\ logs[<<r, e>>] \notin Open
  /\ logs[<<r, e>>] # "NONE" <=> Told(r, e)

\* The rules are over one by one; the one a frame is at has a closed log when
\* what became of it is being told.
FrameSettles(f) ==
  /\ events[f.event].status = "PENDING"
  /\ \A r \in Rules : r < f.rule => Over(r, f.event)
  /\ \A r \in Rules : r > f.rule => ~Told(r, f.event)
  /\ f.rule \in Rules /\ f.pc \in {"notifying", "rules", "closing"} =>
       Over(f.rule, f.event)
  /\ f.pc \in {"skipping", "announcing", "lamenting"} =>
       logs[<<f.rule, f.event>>] \notin Open \cup {"NONE"}

FramesSettle ==
  \A q \in Requests : \A i \in 1..Depth(q) : FrameSettles(stack[q][i])

\* An event a handled one set off is pending only while it is handled itself,
\* directly above.
ChildrenPend ==
  \A q \in Requests : \A i \in 1..Depth(q) : \A d \in 1..Len(events) :
    events[d].cause = stack[q][i].event /\ events[d].status = "PENDING" =>
      i < Depth(q) /\ stack[q][i + 1].event = d

CausesFit == \A d \in 1..Len(events) : events[d].cause \in 0..Len(events)

RowsSettle ==
  \A e \in 1..Len(events) : events[e].status = "PROCESSED" =>
    /\ \A d \in 1..Len(events) :
         events[d].cause = e => events[d].status # "PENDING"
    /\ \A r \in Rules : Over(r, e)

SettledInv == FramesSettle /\ ChildrenPend /\ CausesFit /\ RowsSettle

\* A frame whose event, logs and children are left alone stays settled.
LEMMA FrameStays ==
  ASSUME UNCHANGED setting, NEW f, FrameSettles(f), f.pc \in {"skipping",
           "announcing", "lamenting"} => f.rule \in Rules,
         events'[f.event].status = events[f.event].status,
         \A r \in Rules : logs'[<<r, f.event>>] = logs[<<r, f.event>>],
         \A r \in Rules : Told(r, f.event)' <=> Told(r, f.event)
  PROVE  FrameSettles(f)'
<1>1. Rules' = Rules
  BY DEF Rules
<1>2. \A r \in Rules : Over(r, f.event)' <=> Over(r, f.event)
  BY DEF Over
<1>3. QED
  BY <1>1, <1>2 DEF FrameSettles

\* A frame that is not the top of q is of another event.
LEMMA OtherFrames ==
  ASSUME EventsTypeOK, StacksFit, NEW q \in Requests, stack[q] # <<>>,
         NEW p \in Requests, NEW j \in 1..Depth(p), p # q \/ j # Depth(q)
  PROVE  stack[p][j].event # Top(q).event
<1>1. Depth(q) \in 1..Depth(q)
  BY StackTypes
<1>2. QED
  BY <1>1 DEF StacksFit, Top, Depth

\* What is known of a frame of a stack.
LEMMA FramesFit ==
  ASSUME EventsTypeOK, StacksFit, NEW p \in Requests, NEW j \in 1..Depth(p)
  PROVE  /\ stack[p][j] \in FrameType /\ FrameFits(stack[p][j])
         /\ stack[p][j].event \in 1..Len(events)
         /\ stack[p][j].pc \in {"skipping", "announcing", "lamenting"} =>
              stack[p][j].rule \in Rules
<1>1. stack[p][j] \in FrameType /\ FrameFits(stack[p][j])
  BY StackTypes DEF StacksFit
<1>2. QED
  BY <1>1 DEF FrameFits

\* A step within a frame.
LEMMA MoveSettles ==
  ASSUME EventsTypeOK, StacksFit, SettledInv, UNCHANGED <<setting, events>>,
         NEW q \in Requests, NEW pc, NEW rule, Moved(q, pc, rule),
         \A l \in LogIds : l[2] # Top(q).event => logs'[l] = logs[l],
         NEW f, f = [event |-> Top(q).event, pc |-> pc, rule |-> rule],
         FrameSettles(f)'
  PROVE  SettledInv'
<1>1. /\ Depth(q) \in 1..Depth(q) /\ stack[q] # <<>>
      /\ Rules' = Rules /\ Rules \subseteq 1..MaxRules
      /\ events[Top(q).event].status = "PENDING"
  BY StackTypes, RulesTypes DEF Moved, Rules, SettledInv, FramesSettle,
                                FrameSettles, Top, Depth
<1>2. /\ \A p \in Requests : Depth(p)' = Depth(p)
      /\ \A p \in Requests : \A j \in 1..Depth(p) :
           /\ p # q \/ j # Depth(q) => stack'[p][j] = stack[p][j]
           /\ stack'[p][j].event = stack[p][j].event
  <2>1. \A p \in Requests :
          Depth(p)' = Depth(p) /\ (p # q => stack'[p] = stack[p])
    BY DEF Moved, OthersWait, Depth
  <2>2. \A j \in 1..Depth(q) : j # Depth(q) => stack'[q][j] = stack[q][j]
    BY DEF Moved
  <2>3. stack'[q][Depth(q)].event = stack[q][Depth(q)].event
    BY DEF Moved, Top, Depth
  <2>4. QED
    BY <2>1, <2>2, <2>3
<1>3. \A r, e : Told(r, e)' <=> Told(r, e)
  BY DEF Told
<1>4. \A e \in 1..Len(events), r \in Rules :
        e # Top(q).event => logs'[<<r, e>>] = logs[<<r, e>>]
  <2>1. \A e \in 1..Len(events), r \in Rules : <<r, e>> \in LogIds
    <3>1. Len(events) \in Nat /\ MaxEvents \in Nat /\ Len(events) <= MaxEvents
      BY RulesTypes, EventsAssumption DEF EventsTypeOK
    <3>2. QED
      BY <1>1, <3>1 DEF LogIds
  <2>2. QED
    BY <2>1
<1>5. FramesSettle'
  <2> SUFFICES ASSUME NEW p \in Requests, NEW j \in 1..Depth(p)
               PROVE  FrameSettles(stack[p][j])'
    BY <1>2 DEF FramesSettle
  <2>1. CASE p = q /\ j = Depth(q)
    BY <2>1 DEF Moved
  <2>2. CASE p # q \/ j # Depth(q)
    <3>1. PICK g : g = stack[p][j]
      OBVIOUS
    <3>2. /\ FrameSettles(g) /\ g.event \in 1..Len(events)
          /\ g.event # Top(q).event
          /\ g.pc \in {"skipping", "announcing", "lamenting"} =>
               g.rule \in Rules
      BY <1>1, <2>2, <3>1, FramesFit, OtherFrames
         DEF SettledInv, FramesSettle
    <3>3. FrameSettles(g)'
      BY <1>3, <1>4, <3>2, FrameStays
    <3>4. QED
      BY <1>2, <2>2, <3>1, <3>3
  <2>3. QED
    BY <2>1, <2>2
<1>6. ChildrenPend'
  <2> SUFFICES ASSUME NEW p \in Requests, NEW j \in 1..Depth(p),
                      NEW d \in 1..Len(events),
                      events[d].cause = stack[p][j].event,
                      events[d].status = "PENDING"
               PROVE  j < Depth(p) /\ stack'[p][j + 1].event = d
    BY <1>2 DEF ChildrenPend
  <2>1. j < Depth(p) /\ stack[p][j + 1].event = d
    BY DEF SettledInv, ChildrenPend
  <2>2. j + 1 \in 1..Depth(p)
    BY <2>1, StackTypes
  <2>3. QED
    BY <1>2, <2>1, <2>2
<1>7. CausesFit'
  BY DEF CausesFit, SettledInv
<1>8. RowsSettle'
  <2> SUFFICES ASSUME NEW e \in 1..Len(events),
                      events[e].status = "PROCESSED"
               PROVE  /\ \A d \in 1..Len(events) : events[d].cause = e =>
                           events[d].status # "PENDING"
                      /\ \A r \in Rules : Over(r, e)'
    BY <1>1 DEF RowsSettle
  <2>1. e # Top(q).event
    BY <1>1
  <2>2. \A r \in Rules : Over(r, e)' <=> Over(r, e)
    BY <1>3, <1>4, <2>1 DEF Over
  <2>3. QED
    BY <2>2 DEF SettledInv, RowsSettle
<1>9. QED
  BY <1>5, <1>6, <1>7, <1>8 DEF SettledInv

\* A step that puts an event upon a stack, set off by the event below if there
\* is one.
LEMMA PushSettles ==
  ASSUME EventsTypeOK, StacksFit, SettledInv, UNCHANGED <<setting, logs>>,
         NEW q \in Requests, NEW back, NEW pc \in {"notifying", "rules"},
         Pushed(q, back, [event |-> Len(events) + 1, rule |-> 0, pc |-> pc]),
         NEW type, NEW aggregate, NEW cause, Born(type, aggregate, cause),
         NEW f, f = [event |-> Top(q).event, pc |-> back,
                     rule |-> Top(q).rule],
         IF stack[q] = <<>> THEN cause = 0
         ELSE /\ cause = Top(q).event /\ aggregate = Top(q).rule
              /\ FrameSettles(f)'
  PROVE  SettledInv'
<1>1. /\ Len(events) \in Nat /\ Depth(q) \in Nat
      /\ stack[q] # <<>> <=> Depth(q) # 0
      /\ Rules' = Rules /\ Rules \subseteq 1..MaxRules /\ MaxRules \in Nat
  BY StackTypes, RulesTypes DEF Rules
<1>2. PICK n \in 1..MaxEvents : n = Len(events) + 1
  BY DEF Born
<1>3. /\ Len(events') = n /\ events'[n].status = "PENDING"
      /\ events'[n].cause = cause /\ events'[n].aggregate = aggregate
      /\ \A d \in 1..Len(events) : events'[d] = events[d]
      /\ \A d \in 1..n : d \in 1..Len(events) \/ d = n
      /\ n \notin 1..Len(events)
      /\ \A d \in 1..Len(events) : d \in 1..n
  BY <1>1, <1>2 DEF Born
<1>4. /\ stack[q] # <<>> => /\ Top(q).event \in 1..Len(events)
                            /\ events[Top(q).event].status = "PENDING"
                            /\ Depth(q) \in 1..Depth(q)
      /\ cause \in 0..Len(events)
  <2>1. CASE stack[q] # <<>>
    <3>1. Depth(q) \in 1..Depth(q) /\ Top(q).event \in 1..Len(events)
      BY <2>1, StackTypes, RuleOfTop
    <3>2. FrameSettles(Top(q))
      BY <3>1 DEF SettledInv, FramesSettle, Top, Depth
    <3>3. QED
      BY <1>1, <2>1, <3>1, <3>2 DEF FrameSettles
  <2>2. CASE stack[q] = <<>>
    BY <1>1, <2>2
  <2>3. QED
    BY <2>1, <2>2
<1>5. \A e \in 1..n : \A r : Told(r, e)' <=>
        Told(r, e) \/ (e = cause /\ r = aggregate)
  BY <1>3 DEF Told
<1>6. \A e \in 1..Len(events) : \A r :
        e # cause => (Told(r, e)' <=> Told(r, e))
  BY <1>3, <1>5
<1>7. \A r : ~Told(r, n)'
  BY <1>1, <1>3, <1>4 DEF Told, SettledInv, CausesFit
<1>8. /\ Depth(q)' = Depth(q) + 1
      /\ \A p \in Requests \ {q} : stack'[p] = stack[p] /\ Depth(p)' = Depth(p)
      /\ \A j \in 1..Depth(q) : j # Depth(q) => stack'[q][j] = stack[q][j]
      /\ stack'[q][Depth(q) + 1].event = n
      /\ \A p \in Requests : Depth(p) \in Nat
  BY <1>2, StackTypes DEF Pushed, OthersWait, Depth
<1>9. \A p \in Requests : \A j \in 1..Depth(p) :
        /\ stack'[p][j].event = stack[p][j].event
        /\ stack[p][j].event \in 1..Len(events)
        /\ p # q \/ j # Depth(q) => stack'[p][j] = stack[p][j]
        /\ stack[p][j].event = cause => p = q /\ j = Depth(q)
  <2> SUFFICES ASSUME NEW p \in Requests, NEW j \in 1..Depth(p)
               PROVE  /\ stack'[p][j].event = stack[p][j].event
                      /\ stack[p][j].event \in 1..Len(events)
                      /\ p # q \/ j # Depth(q) => stack'[p][j] = stack[p][j]
                      /\ stack[p][j].event = cause => p = q /\ j = Depth(q)
    OBVIOUS
  <2>1. stack[p][j].event \in 1..Len(events)
    BY FramesFit
  <2>2. p # q \/ j # Depth(q) => stack'[p][j] = stack[p][j]
    BY <1>8
  <2>3. stack'[p][j].event = stack[p][j].event
    <3>1. CASE p # q \/ j # Depth(q)
      BY <2>2, <3>1
    <3>2. CASE p = q /\ j = Depth(q)
      <4>1. stack[q] # <<>>
        BY <1>1, <3>2
      <4>2. QED
        BY <3>2, <4>1 DEF Pushed, Top, Depth
    <3>3. QED
      BY <3>1, <3>2
  <2>4. stack[p][j].event = cause => p = q /\ j = Depth(q)
    <3>1. CASE stack[q] # <<>>
      BY <3>1, OtherFrames
    <3>2. CASE stack[q] = <<>>
      BY <2>1, <3>2
    <3>3. QED
      BY <3>1, <3>2
  <2>5. QED
    BY <2>1, <2>2, <2>3, <2>4
<1>10. \A p \in Requests : \A j \in 1..Depth(p)' :
         j \in 1..Depth(p) \/ (p = q /\ j = Depth(q) + 1)
  BY <1>1, <1>8
<1>11. FramesSettle'
  <2> SUFFICES ASSUME NEW p \in Requests, NEW j \in 1..Depth(p)'
               PROVE  FrameSettles(stack[p][j])'
    BY DEF FramesSettle
  <2>1. CASE p = q /\ j = Depth(q) + 1
    <3>1. PICK new : new = [event |-> n, rule |-> 0, pc |-> pc]
      OBVIOUS
    <3>2. stack'[p][j] = new
      BY <1>2, <2>1, <3>1 DEF Pushed
    <3>3. new.event = n /\ new.rule = 0 /\ new.pc = pc
      BY <3>1
    <3>4. 0 \notin Rules /\ \A r \in Rules : ~(r < 0)
      BY <1>1
    <3>5. FrameSettles(new)'
      BY <1>1, <1>3, <1>7, <3>3, <3>4 DEF FrameSettles
    <3>6. QED
      BY <3>2, <3>5
  <2>2. CASE p = q /\ j = Depth(q) /\ j \in 1..Depth(p)
    <3>1. stack[q] # <<>>
      BY <1>1, <2>2
    <3>2. stack'[p][j] = f
      BY <2>2, <3>1 DEF Pushed
    <3>3. QED
      BY <3>1, <3>2
  <2>3. CASE (p # q \/ j # Depth(q)) /\ j \in 1..Depth(p)
    <3>1. PICK g : g = stack[p][j]
      OBVIOUS
    <3>2. /\ FrameSettles(g) /\ g.event \in 1..Len(events)
          /\ g.event # cause /\ stack'[p][j] = g
          /\ g.pc \in {"skipping", "announcing", "lamenting"} =>
               g.rule \in Rules
      BY <1>9, <2>3, <3>1, FramesFit DEF SettledInv, FramesSettle
    <3>3. \A r \in Rules : Told(r, g.event)' <=> Told(r, g.event)
      BY <1>6, <3>2
    <3>4. FrameSettles(g)'
      BY <1>3, <3>2, <3>3, FrameStays
    <3>5. QED
      BY <3>2, <3>4
  <2>4. QED
    BY <1>10, <2>1, <2>2, <2>3
<1>12. ChildrenPend'
  <2> SUFFICES ASSUME NEW p \in Requests, NEW j \in 1..Depth(p)',
                      NEW d \in 1..n, events'[d].cause = stack'[p][j].event,
                      events'[d].status = "PENDING"
               PROVE  j < Depth(p)' /\ stack'[p][j + 1].event = d
    BY <1>3 DEF ChildrenPend
  <2>1. CASE j \notin 1..Depth(p)
    <3>1. events'[d].cause = n
      BY <1>8, <1>10, <2>1
    <3>2. events'[d].cause \in 0..Len(events)
      BY <1>3, <1>4 DEF SettledInv, CausesFit
    <3>3. QED
      BY <1>1, <1>2, <3>1, <3>2
  <2>2. CASE j \in 1..Depth(p) /\ d = n
    <3>1. p = q /\ j = Depth(q)
      BY <1>3, <1>9, <2>2
    <3>2. QED
      BY <1>1, <1>8, <2>2, <3>1
  <2>3. CASE j \in 1..Depth(p) /\ d \in 1..Len(events)
    <3>1. j < Depth(p) /\ stack[p][j + 1].event = d
      BY <1>3, <1>9, <2>3 DEF SettledInv, ChildrenPend
    <3>2. j + 1 \in 1..Depth(p) /\ j < Depth(p)'
      BY <1>8, <2>3, <3>1
    <3>3. QED
      BY <1>9, <3>1, <3>2
  <2>4. QED
    BY <1>3, <2>1, <2>2, <2>3
<1>13. CausesFit'
  <2>1. \A d \in 1..Len(events) : events[d].cause \in 0..n
    BY <1>1, <1>2 DEF SettledInv, CausesFit
  <2>2. cause \in 0..n
    BY <1>1, <1>2, <1>4
  <2>3. QED
    BY <1>3, <2>1, <2>2 DEF CausesFit
<1>14. RowsSettle'
  <2> SUFFICES ASSUME NEW e \in 1..n, events'[e].status = "PROCESSED"
               PROVE  /\ \A d \in 1..n : events'[d].cause = e =>
                           events'[d].status # "PENDING"
                      /\ \A r \in Rules : Over(r, e)'
    BY <1>1, <1>3 DEF RowsSettle
  <2>1. e \in 1..Len(events) /\ events[e].status = "PROCESSED"
    BY <1>3
  <2>2. e # cause
    BY <1>4, <2>1
  <2>3. \A r \in Rules : Over(r, e)' <=> Over(r, e)
    BY <1>6, <2>1, <2>2 DEF Over
  <2>4. QED
    BY <1>3, <2>1, <2>2, <2>3 DEF SettledInv, RowsSettle
<1>15. QED
  BY <1>11, <1>12, <1>13, <1>14 DEF SettledInv

\* A step that closes the event of the top of a stack: it is over when it is
\* closed as processed.
LEMMA PopSettles ==
  ASSUME EventsTypeOK, StacksFit, SettledInv, UNCHANGED <<setting, logs>>,
         NEW q \in Requests, Popped(q),
         NEW status \in {"PROCESSED", "FAILED"}, SetEvent(q, status),
         status = "PROCESSED" => Top(q).pc = "closing"
  PROVE  SettledInv'
<1>1. /\ stack[q] # <<>> /\ Depth(q) \in 1..Depth(q) /\ Depth(q) \in Nat
      /\ Rules' = Rules /\ Rules \subseteq 1..MaxRules /\ MaxRules \in Nat
      /\ \A p \in Requests : Depth(p) \in Nat
  BY StackTypes, RulesTypes DEF Rules, Popped
<1>2. /\ Len(events') = Len(events)
      /\ \A d \in 1..Len(events) :
           /\ events'[d].aggregate = events[d].aggregate
           /\ events'[d].cause = events[d].cause
           /\ d # Top(q).event => events'[d].status = events[d].status
      /\ events'[Top(q).event].status = status
      /\ Top(q) \in FrameType /\ Top(q).event \in 1..Len(events)
      /\ FrameFits(Top(q))
  BY <1>1, SetEventKeeps, RuleOfTop
<1>3. FrameSettles(Top(q))
  BY <1>1 DEF SettledInv, FramesSettle, Top, Depth
<1>4. \A r, e : Told(r, e)' <=> Told(r, e)
  BY <1>2 DEF Told
<1>5. \A p \in Requests : \A j \in 1..Depth(p)' :
        /\ j \in 1..Depth(p) /\ (p # q \/ j # Depth(q))
        /\ stack'[p][j] = stack[p][j]
  BY <1>1 DEF Popped, OthersWait, Depth
<1>6. FramesSettle'
  <2> SUFFICES ASSUME NEW p \in Requests, NEW j \in 1..Depth(p)'
               PROVE  FrameSettles(stack[p][j])'
    BY DEF FramesSettle
  <2>1. PICK g : g = stack[p][j]
    OBVIOUS
  <2>2. /\ FrameSettles(g) /\ g.event \in 1..Len(events)
        /\ g.event # Top(q).event /\ stack'[p][j] = g
        /\ g.pc \in {"skipping", "announcing", "lamenting"} =>
             g.rule \in Rules
    BY <1>1, <1>5, <2>1, FramesFit, OtherFrames DEF SettledInv, FramesSettle
  <2>3. FrameSettles(g)'
    BY <1>2, <1>4, <2>2, FrameStays
  <2>4. QED
    BY <2>2, <2>3
<1>7. ChildrenPend'
  <2> SUFFICES ASSUME NEW p \in Requests, NEW j \in 1..Depth(p)',
                      NEW d \in 1..Len(events),
                      events'[d].cause = stack'[p][j].event,
                      events'[d].status = "PENDING"
               PROVE  j < Depth(p)' /\ stack'[p][j + 1].event = d
    BY <1>2 DEF ChildrenPend
  <2>1. d # Top(q).event
    BY <1>2
  <2>2. j < Depth(p) /\ stack[p][j + 1].event = d
    BY <1>2, <1>5, <2>1 DEF SettledInv, ChildrenPend
  <2>3. p = q => j + 1 # Depth(q)
    BY <2>1, <2>2 DEF Top, Depth
  <2>4. j < Depth(p)'
    BY <1>1, <1>5, <2>2, <2>3 DEF Popped, OthersWait, Depth
  <2>5. j + 1 \in 1..Depth(p)'
    <3>1. Depth(p)' \in Nat
      BY <1>1 DEF Popped, OthersWait, Depth
    <3>2. QED
      BY <2>4, <3>1
  <2>6. QED
    BY <1>5, <2>2, <2>4, <2>5
<1>8. CausesFit'
  BY <1>2 DEF CausesFit, SettledInv
<1>9. RowsSettle'
  <2> SUFFICES ASSUME NEW e \in 1..Len(events),
                      events'[e].status = "PROCESSED"
               PROVE  /\ \A d \in 1..Len(events) : events'[d].cause = e =>
                           events'[d].status # "PENDING"
                      /\ \A r \in Rules : Over(r, e)'
    BY <1>1, <1>2 DEF RowsSettle
  <2>1. \A r \in Rules : Over(r, e)' <=> Over(r, e)
    BY <1>4 DEF Over
  <2>2. \A d \in 1..Len(events) : events'[d].status = "PENDING" =>
          events[d].status = "PENDING"
    BY <1>2
  <2>3. CASE e # Top(q).event
    BY <1>2, <2>1, <2>2, <2>3 DEF SettledInv, RowsSettle
  <2>4. CASE e = Top(q).event
    <3>1. Top(q).pc = "closing" /\ stack[q][Depth(q)].event = e
      BY <1>2, <2>4 DEF Top, Depth
    <3>2. \A d \in 1..Len(events) :
            events[d].cause = e => events[d].status # "PENDING"
      BY <1>1, <3>1 DEF SettledInv, ChildrenPend
    <3>3. ASSUME NEW r \in Rules
          PROVE  Over(r, e)
      <4>1. CASE r < Top(q).rule
        BY <1>3, <2>4, <4>1 DEF FrameSettles
      <4>2. CASE r = Top(q).rule
        BY <1>3, <2>4, <3>1, <4>2 DEF FrameSettles
      <4>3. CASE r > Top(q).rule
        BY <1>1, <1>2, <1>3, <2>4, <4>3
           DEF FrameSettles, FrameFits, Over, Open
      <4>4. QED
        BY <1>1, <1>2, <4>1, <4>2, <4>3 DEF FrameType
    <3>4. QED
      BY <1>2, <2>1, <2>2, <3>2, <3>3
  <2>5. QED
    BY <2>3, <2>4
<1>10. QED
  BY <1>6, <1>7, <1>8, <1>9 DEF SettledInv

\* A frame that goes on without a write leaves its rules settled.
LEMMA PassesSettle ==
  ASSUME EventsTypeOK, StacksFit, SettledInv, Calm, NEW q \in Requests,
         NEW pc \in Pcs, NEW rule \in 0..MaxRules, Passes(q, pc, rule)
  PROVE  SettledInv'
<1>1. /\ stack[q] # <<>> /\ UNCHANGED setting /\ UNCHANGED events
      /\ UNCHANGED logs /\ Moved(q, pc, rule)
  BY DEF Passes, Moved
<1>2. /\ FrameFits(Top(q)) /\ Top(q) \in FrameType /\ Top(q).pc \in Pcs
      /\ Rules \subseteq 1..MaxRules /\ MaxRules \in Nat
  BY <1>1, RuleOfTop, RulesTypes
<1>3. FrameSettles(Top(q))
  <2>1. Depth(q) \in 1..Depth(q)
    BY <1>1, StackTypes
  <2>2. QED
    BY <2>1 DEF SettledInv, FramesSettle, Top, Depth
<1>4. PICK f : f = [event |-> Top(q).event, pc |-> pc, rule |-> rule]
  OBVIOUS
<1>5. f.event = Top(q).event /\ f.pc = pc /\ f.rule = rule
  BY <1>4
<1>6. FrameSettles(f)
  <2>1. CASE rule = Top(q).rule /\ pc \in {"recording", "rulefailing",
                                           "failing"}
    BY <1>3, <1>5, <2>1 DEF FrameSettles
  <2>2. CASE rule = Top(q).rule /\ pc \in {"rules", "closing"}
             /\ Top(q).pc \in {"notifying", "rules"}
    BY <1>3, <1>5, <2>2 DEF FrameSettles
  <2>3. CASE rule \in Left(q) /\ pc \in {"rules", "blocking", "logging"}
             /\ Top(q).pc = "rules"
    <3>1. rule \in Rules /\ rule > Top(q).rule
      BY <2>3 DEF Left
    <3>2. ASSUME NEW r \in Rules, r <= rule
          PROVE  Over(r, f.event) \/ r = Top(q).rule \/ r < Top(q).rule
      <4>1. CASE r > Top(q).rule
        <5>1. logs[<<r, f.event>>] = "NONE" /\ ~Told(r, f.event)
          BY <1>2, <1>3, <1>5, <4>1 DEF FrameFits, FrameSettles
        <5>2. QED
          BY <5>1 DEF Over, Open
      <4>2. QED
        BY <1>2, <4>1 DEF FrameType
    <3>3. \A r \in Rules : r <= rule => Over(r, f.event)
      BY <1>3, <1>5, <2>3, <3>2 DEF FrameSettles
    <3>4. \A r \in Rules : r > rule => r > Top(q).rule
      BY <1>2, <3>1 DEF FrameType
    <3>5. \A r \in Rules : r < rule => r <= rule
      BY <1>2
    <3>6. rule <= rule
      BY <1>2
    <3>7. QED
      BY <1>3, <1>5, <2>3, <3>1, <3>3, <3>4, <3>5, <3>6 DEF FrameSettles
  <2>4. \/ rule = Top(q).rule /\ pc \in {"recording", "rulefailing",
                                         "failing"}
        \/ /\ rule = Top(q).rule /\ pc \in {"rules", "closing"}
           /\ Top(q).pc \in {"notifying", "rules"}
        \/ /\ rule \in Left(q) /\ pc \in {"rules", "blocking", "logging"}
           /\ Top(q).pc = "rules"
    BY <1>2 DEF Passes, At, Caught, Pcs, Calm
  <2>5. QED
    BY <2>1, <2>2, <2>3, <2>4
<1>7. FrameSettles(f)'
  BY <1>1, <1>6 DEF FrameSettles, Over, Told, Rules
<1>8. QED
  BY <1>1, <1>4, <1>7, MoveSettles

\* A write of a log leaves the rules before settled, and the one written with
\* what is to be told.
LEMMA WritesSettle ==
  ASSUME EventsTypeOK, StacksFit, LogsFit, SettledInv, NEW q \in Requests,
         NEW pc \in Pcs, NEW status \in LogStatus, Writes(q, pc, status)
  PROVE  SettledInv'
<1>1. /\ stack[q] # <<>> /\ UNCHANGED setting /\ UNCHANGED events
      /\ logs' = [logs EXCEPT ![Log(q)] = status]
      /\ Moved(q, pc, Top(q).rule)
  BY DEF Writes, Moved
<1>2. /\ Top(q) \in FrameType /\ Top(q).event \in 1..MaxEvents
      /\ Log(q) \in LogIds /\ Top(q).rule \in 1..MaxRules
      /\ Rules \subseteq 1..MaxRules /\ MaxRules \in Nat
      /\ logs \in [LogIds -> LogStatus]
  BY <1>1, RuleOfTop, RulesTypes DEF Writes, At
<1>3. FrameSettles(Top(q))
  <2>1. Depth(q) \in 1..Depth(q)
    BY <1>1, StackTypes
  <2>2. QED
    BY <2>1 DEF SettledInv, FramesSettle, Top, Depth
<1>4. PICK f : f = [event |-> Top(q).event, pc |-> pc, rule |-> Top(q).rule]
  OBVIOUS
<1>5. f.event = Top(q).event /\ f.pc = pc /\ f.rule = Top(q).rule
  BY <1>4
<1>6. /\ \A l \in LogIds : l # Log(q) => logs'[l] = logs[l]
      /\ logs'[Log(q)] = status
  BY <1>1, <1>2
<1>7. \A l \in LogIds : l[2] # Top(q).event => logs'[l] = logs[l]
  BY <1>6 DEF Log
<1>8. FrameSettles(f)'
  <2>1. \A r \in Rules : r < f.rule =>
          logs'[<<r, f.event>>] = logs[<<r, f.event>>]
    <3> SUFFICES ASSUME NEW r \in Rules, r < f.rule
                 PROVE  logs'[<<r, f.event>>] = logs[<<r, f.event>>]
      OBVIOUS
    <3>1. <<r, f.event>> \in LogIds /\ <<r, f.event>> # Log(q)
      BY <1>2, <1>5 DEF LogIds, Log
    <3>2. QED
      BY <1>6, <3>1
  <2>2. \A r : Told(r, f.event)' <=> Told(r, f.event)
    BY <1>1 DEF Told
  <2>3. \A r \in Rules : r < f.rule => Over(r, f.event)'
    BY <1>3, <1>5, <2>1, <2>2 DEF FrameSettles, Over
  <2>4. Rules' = Rules
    BY <1>1 DEF Rules
  <2>5. /\ pc \notin {"notifying", "rules", "closing"}
        /\ pc \in {"skipping", "announcing", "lamenting"} =>
             status \notin Open \cup {"NONE"}
    BY DEF Writes, Open
  <2>6. logs'[<<f.rule, f.event>>] = status
    BY <1>5, <1>6 DEF Log
  <2>7. /\ events'[f.event].status = "PENDING"
        /\ \A r \in Rules : r > f.rule => ~Told(r, f.event)
    BY <1>1, <1>3, <1>5 DEF FrameSettles
  <2>8. QED
    BY <1>5, <2>2, <2>3, <2>4, <2>5, <2>6, <2>7 DEF FrameSettles
<1>9. QED
  BY <1>1, <1>4, <1>7, <1>8, MoveSettles

\* A rule that tells what became of it is over; one that asks for something
\* goes on.
LEMMA TellsSettle ==
  ASSUME EventsTypeOK, StacksFit, LogsFit, SettledInv, NEW q \in Requests,
         NEW back \in {"rules", "recording"}, Tells(q, back)
  PROVE  SettledInv'
<1>1. /\ stack[q] # <<>> /\ UNCHANGED setting /\ UNCHANGED logs
      /\ Pushed(q, back,
                [event |-> Len(events) + 1, rule |-> 0, pc |-> "rules"])
  BY DEF Tells
<1>2. PICK type \in Types : Born(type, Top(q).rule, Top(q).event)
  BY DEF Tells
<1>3. /\ Top(q) \in FrameType /\ Top(q).event \in 1..Len(events)
      /\ Rules' = Rules /\ Rules \subseteq 1..MaxRules /\ MaxRules \in Nat
      /\ Len(events) \in Nat
  BY <1>1, RuleOfTop, RulesTypes DEF Rules
<1>4. FrameSettles(Top(q))
  <2>1. Depth(q) \in 1..Depth(q)
    BY <1>1, StackTypes
  <2>2. QED
    BY <2>1 DEF SettledInv, FramesSettle, Top, Depth
<1>5. PICK f : f = [event |-> Top(q).event, pc |-> back, rule |-> Top(q).rule]
  OBVIOUS
<1>6. f.event = Top(q).event /\ f.pc = back /\ f.rule = Top(q).rule
  BY <1>5
<1>7. \A r : Told(r, f.event)' <=> Told(r, f.event) \/ r = f.rule
  <2>1. /\ Len(events') = Len(events) + 1
        /\ \A d \in 1..Len(events) : events'[d] = events[d]
        /\ events'[Len(events) + 1].cause = f.event
        /\ events'[Len(events) + 1].aggregate = f.rule
    BY <1>2, <1>6 DEF Born
  <2>2. \A d \in 1 .. Len(events) + 1 :
          d \in 1..Len(events) \/ d = Len(events) + 1
    BY <1>3
  <2>3. /\ Len(events) + 1 \in 1 .. Len(events) + 1
        /\ \A d \in 1..Len(events) : d \in 1 .. Len(events) + 1
    BY <1>3
  <2>4. QED
    BY <2>1, <2>2, <2>3 DEF Told
<1>8. FrameSettles(f)'
  <2>1. events'[f.event].status = "PENDING"
    BY <1>2, <1>3, <1>4, <1>6 DEF FrameSettles, Born
  <2>2. \A r \in Rules : r < f.rule => Over(r, f.event)'
    <3>1. \A r \in Rules : r < f.rule => r # f.rule
      BY <1>3, <1>6 DEF FrameType
    <3>2. QED
      BY <1>1, <1>4, <1>6, <1>7, <3>1 DEF FrameSettles, Over
  <2>3. \A r \in Rules : r > f.rule => ~Told(r, f.event)'
    <3>1. \A r \in Rules : r > f.rule => r # f.rule
      BY <1>3, <1>6 DEF FrameType
    <3>2. QED
      BY <1>4, <1>6, <1>7, <3>1 DEF FrameSettles
  <2>4. f.pc = "rules" => Over(f.rule, f.event)'
    BY <1>1, <1>4, <1>6, <1>7 DEF FrameSettles, Over, Tells, At
  <2>5. QED
    BY <1>3, <1>6, <2>1, <2>2, <2>3, <2>4 DEF FrameSettles
<1>9. QED
  BY <1>1, <1>2, <1>5, <1>8, PushSettles

\* Every step keeps what is processed settled, as long as nothing but what a
\* rule does throws.
LEMMA StepSettles ==
  ASSUME EventsTypeOK, StacksFit, LogsFit, SettledInv, Calm,
         [EventsNext]_eventsVars
  PROVE  SettledInv'
<1>0. ASSUME UNCHANGED <<events, logs, stack, setting>>
      PROVE  SettledInv'
  <2>1. /\ \A r, e : Told(r, e)' <=> Told(r, e)
        /\ Rules' = Rules
    BY <1>0 DEF Told, Rules
  <2>2. \A r, e : Over(r, e)' <=> Over(r, e)
    BY <1>0, <2>1 DEF Over
  <2>3. \A f : FrameSettles(f)' <=> FrameSettles(f)
    BY <1>0, <2>1, <2>2 DEF FrameSettles
  <2>4. FramesSettle'
    BY <1>0, <2>3 DEF FramesSettle, Depth, SettledInv
  <2>5. ChildrenPend' /\ CausesFit'
    BY <1>0 DEF ChildrenPend, CausesFit, Depth, SettledInv
  <2>6. RowsSettle'
    BY <1>0, <2>1, <2>2 DEF RowsSettle, SettledInv
  <2>7. QED
    BY <2>4, <2>5, <2>6 DEF SettledInv
<1>1. CASE UNCHANGED eventsVars
  BY <1>0, <1>1 DEF eventsVars
<1>2. CASE Elapse
  BY <1>0, <1>2 DEF Elapse
<1>3. ASSUME NEW q \in Requests, RequestSteps(q)
      PROVE  SettledInv'
  <2>1. CASE \E pc \in Pcs, rule \in 0..MaxRules : Passes(q, pc, rule)
    BY <2>1, PassesSettle
  <2>2. CASE \E pc \in Pcs, status \in LogStatus : Writes(q, pc, status)
    BY <2>2, WritesSettle
  <2>3. CASE \E back \in {"rules", "recording"} : Tells(q, back)
    BY <2>3, TellsSettle
  <2>4. CASE Ends(q)
    <3>1. UNCHANGED <<setting, logs>> /\ Popped(q)
      BY <2>4 DEF Ends
    <3>2. \E status \in {"PROCESSED", "FAILED"} :
            /\ SetEvent(q, status)
            /\ status = "PROCESSED" => Top(q).pc = "closing"
      BY <2>4 DEF Ends, Calm, At
    <3>3. QED
      BY <3>1, <3>2, PopSettles
  <2>5. CASE Begins(q)
    <3>1. /\ UNCHANGED <<setting, logs>> /\ stack[q] = <<>>
          /\ Pushed(q, "rules", [event |-> Len(events) + 1, rule |-> 0,
                                 pc |-> "notifying"])
      BY <2>5 DEF Begins
    <3>2. PICK a \in Aggregates : Born("business", a, 0)
      BY <2>5 DEF Begins
    <3>3. PICK f : f = [event |-> Top(q).event, pc |-> "rules",
                        rule |-> Top(q).rule]
      OBVIOUS
    <3>4. QED
      BY <3>1, <3>2, <3>3, PushSettles
  <2>6. CASE Dies(q)
    BY <2>6 DEF Dies, Calm
  <2>7. QED
    BY <1>3, <2>1, <2>2, <2>3, <2>4, <2>5, <2>6 DEF RequestSteps
<1>4. QED
  BY <1>1, <1>2, <1>3, NextSteps

\* When an event is processed, all that it set off is over, and each of its
\* rules that was not left aside has a closed log that was told, whatever the
\* rules answer to and however the requests interleave
\* (TriggerExecutionService.execute, DomainEventsService.publish).
THEOREM RulesSettle == EventsSpec => []RulesAreSettled
<1> DEFINE Inv == EventsTypeOK /\ StacksFit /\ LogsFit /\
                  (Calm => SettledInv)
<1>1. EventsInit => Inv
  <2> SUFFICES ASSUME EventsInit
               PROVE  Inv
    OBVIOUS
  <2>1. EventsTypeOK /\ StacksFit /\ LogsFit
    BY InitTyped
  <2>2. Len(events) = 0 /\ \A q \in Requests : Depth(q) = 0
    BY EmptySeq DEF EventsInit, Depth
  <2>3. SettledInv
    BY <2>2 DEF SettledInv, FramesSettle, ChildrenPend, CausesFit, RowsSettle
  <2>4. QED
    BY <2>1, <2>3
<1>2. Inv /\ [EventsNext]_eventsVars => Inv'
  <2> SUFFICES ASSUME Inv, [EventsNext]_eventsVars
               PROVE  Inv'
    OBVIOUS
  <2>1. EventsTypeOK' /\ StacksFit' /\ LogsFit'
    BY StepTyped
  <2>2. UNCHANGED setting
    <3>1. CASE UNCHANGED eventsVars
      BY <3>1 DEF eventsVars
    <3>2. CASE EventsNext
      BY <3>2, NextSteps, StepEvents DEF Elapse
    <3>3. QED
      BY <3>1, <3>2
  <2>3. Calm' => SettledInv'
    BY <2>2, StepSettles DEF Calm
  <2>4. QED
    BY <2>1, <2>3
<1>3. Inv => RulesAreSettled
  <2> SUFFICES ASSUME Inv, Calm, NEW e \in DOMAIN events,
                      events[e].status = "PROCESSED"
               PROVE  /\ \A d \in DOMAIN events : events[d].cause = e =>
                           events[d].status # "PENDING"
                      /\ \A r \in Rules :
                           /\ logs[<<r, e>>] \notin Open
                           /\ logs[<<r, e>>] # "NONE" <=>
                                \E d \in DOMAIN events :
                                  events[d].cause = e /\ events[d].aggregate = r
    BY DEF RulesAreSettled, Calm
  <2>1. DOMAIN events = 1..Len(events)
    BY RulesTypes
  <2>2. /\ \A d \in 1..Len(events) : events[d].cause = e =>
             events[d].status # "PENDING"
        /\ \A r \in Rules : Over(r, e)
    BY <2>1 DEF SettledInv, RowsSettle
  <2>3. QED
    BY <2>1, <2>2 DEF Over, Told
<1>4. QED
  BY <1>1, <1>2, <1>3, PTL DEF EventsSpec

(***************************************************************************)
(* Domain events: a cooldown is kept                                       *)
(***************************************************************************)

\* The logs by which a rule holds its cooldown for an aggregate: those started
\* within it that count, and those about to be created.
CooldownClaims(r, a) ==
  {l \in LogIds : /\ l[1] = r /\ l[2] \in 1..Len(events)
                  /\ events[l[2]].aggregate = a
                  /\ \/ /\ \E i \in 1..Len(recent) : recent[i] = l
                        /\ logs[l] \in Counted
                     \/ \E q \in Requests : At(q, "logging") /\ Log(q) = l}

ClaimsFew ==
  \A r \in setting.cooling \cap setting.byAggregate,
     a \in Aggregates \cup Rules :
    Cardinality(CooldownClaims(r, a)) <= setting.requests

\* A log is started once.
RecentFit ==
  /\ \A i, j \in 1..Len(recent) : recent[i] = recent[j] => i = j
  /\ \A i \in 1..Len(recent) : logs[recent[i]] # "NONE"

Busy == {q \in Requests : stack[q] # <<>>}
BusyFew == IsFiniteSet(Busy) /\ Cardinality(Busy) <= setting.requests

\* What is claimed by one each of A is no more than A.
LEMMA ClaimantsCount ==
  ASSUME NEW A, IsFiniteSet(A), NEW C, NEW D, NEW g \in [A -> D],
         \A c \in C : \E p \in A : g[p] = c
  PROVE  IsFiniteSet(C) /\ Cardinality(C) <= Cardinality(A)
<1>1. PICK B : B = {p \in A : g[p] \in C}
  OBVIOUS
<1>2. B \in SUBSET A
  BY <1>1
<1>3. IsFiniteSet(B) /\ Cardinality(B) <= Cardinality(A)
  BY <1>2, FS_Subset
<1>4. PICK h : h = [p \in B |-> g[p]]
  OBVIOUS
<1>5. h \in [B -> C]
  BY <1>1, <1>4
<1>6. \A c \in C : \E p \in B : h[p] = c
  BY <1>1, <1>4
<1>7. h \in Surjection(B, C)
  BY <1>5, <1>6 DEF Surjection
<1>8. /\ IsFiniteSet(C) /\ Cardinality(C) <= Cardinality(B)
      /\ Cardinality(C) \in Nat /\ Cardinality(B) \in Nat
      /\ Cardinality(A) \in Nat
  BY <1>3, <1>7, FS_Surjection, FS_CardinalityType
<1>9. QED
  BY <1>3, <1>8

\* There are finitely many logs.
LEMMA LogIdsFinite == IsFiniteSet(LogIds)
<1>1. MaxRules \in Int /\ MaxEvents \in Int
  BY EventsAssumption
<1>2. IsFiniteSet(1..MaxRules) /\ IsFiniteSet(1..MaxEvents)
  BY <1>1, FS_Interval
<1>3. QED
  BY <1>2, FS_Product DEF LogIds

\* A set of claims within one that is small is small.
LEMMA FewerClaims ==
  ASSUME NEW S, NEW T, S \subseteq LogIds, T \subseteq S, NEW n \in Nat,
         Cardinality(S) <= n
  PROVE  Cardinality(T) <= n
<1>1. S \in SUBSET LogIds /\ T \in SUBSET S
  OBVIOUS
<1>2. IsFiniteSet(S)
  BY <1>1, LogIdsFinite, FS_Subset
<1>3. IsFiniteSet(T) /\ Cardinality(T) <= Cardinality(S)
  BY <1>1, <1>2, FS_Subset
<1>4. Cardinality(S) \in Nat /\ Cardinality(T) \in Nat
  BY <1>2, <1>3, FS_CardinalityType
<1>5. QED
  BY <1>3, <1>4

\* No more requests are busy than are handled at a time.
LEMMA StepBusy ==
  ASSUME EventsTypeOK, BusyFew, NEW q \in Requests, RequestSteps(q)
  PROVE  BusyFew'
<1>1. /\ UNCHANGED setting /\ OthersWait(q)
      /\ Begins(q) \/ stack[q] # <<>>
  BY DEF RequestSteps, Passes, Writes, Tells, Ends, Dies, Begins, Moved,
         Popped, Pushed
<1>2. setting.requests \in Nat
  BY RulesTypes, EventsAssumption
<1>3. CASE stack[q] # <<>>
  <2>1. Busy' \in SUBSET Busy
    BY <1>1, <1>3 DEF OthersWait, Busy
  <2>2. PICK B : B = Busy'
    OBVIOUS
  <2>3. PICK A : A = Busy
    OBVIOUS
  <2>4. /\ IsFiniteSet(B) /\ Cardinality(B) <= Cardinality(A)
        /\ Cardinality(A) \in Nat /\ Cardinality(B) \in Nat
    BY <2>1, <2>2, <2>3, FS_Subset, FS_CardinalityType DEF BusyFew
  <2>5. Cardinality(B) <= setting.requests
    BY <1>2, <2>3, <2>4 DEF BusyFew
  <2>6. QED
    BY <1>1, <2>2, <2>4, <2>5 DEF BusyFew
<1>4. CASE Begins(q)
  <2>1. PICK B : B = Busy \cup {q}
    OBVIOUS
  <2>2. Cardinality(Busy) \in Nat /\ Cardinality(Busy) < setting.requests
    BY <1>4, FS_CardinalityType DEF Begins, BusyFew, Busy
  <2>3. /\ IsFiniteSet(B) /\ Cardinality(B) \in Nat
        /\ Cardinality(B) <= Cardinality(Busy) + 1
    <3>1. IsFiniteSet(Busy)
      BY DEF BusyFew
    <3>2. /\ IsFiniteSet(B)
          /\ Cardinality(B) = IF q \in Busy THEN Cardinality(Busy)
                              ELSE Cardinality(Busy) + 1
      BY <2>1, <3>1, FS_AddElement
    <3>3. QED
      BY <2>2, <3>2
  <2>4. Busy' \in SUBSET B
    BY <1>1, <2>1 DEF OthersWait, Busy
  <2>5. PICK C : C = Busy'
    OBVIOUS
  <2>6. IsFiniteSet(C) /\ Cardinality(C) <= Cardinality(B)
        /\ Cardinality(C) \in Nat
    BY <2>3, <2>4, <2>5, FS_Subset, FS_CardinalityType
  <2>7. Cardinality(C) <= setting.requests
    BY <1>2, <2>2, <2>3, <2>6
  <2>8. QED
    BY <1>1, <2>5, <2>6, <2>7 DEF BusyFew
<1>5. QED
  BY <1>1, <1>3, <1>4

\* A log that is started had none before.
LEMMA StepRecent ==
  ASSUME EventsTypeOK, StacksFit, RecentFit, NEW q \in Requests,
         RequestSteps(q)
  PROVE  RecentFit'
<1>1. logs \in [LogIds -> LogStatus] /\ recent \in Seq(LogIds)
  BY RulesTypes
<1>2. CASE UNCHANGED <<logs, recent>>
  BY <1>2 DEF RecentFit
<1>3. ASSUME NEW pc \in Pcs, NEW status \in LogStatus, Writes(q, pc, status)
      PROVE  RecentFit'
  <2>1. stack[q] # <<>> /\ logs' = [logs EXCEPT ![Log(q)] = status]
        /\ status # "NONE"
    BY <1>3 DEF Writes, Moved
  <2>2. Log(q) \in LogIds
    BY <1>3, <2>1, RuleOfTop DEF Writes, At
  <2>3. \A l \in LogIds : logs[l] # "NONE" => logs'[l] # "NONE"
    BY <1>1, <2>1, <2>2
  <2>4. \A i \in 1..Len(recent) : recent[i] \in LogIds
    BY <1>1
  <2>5. CASE UNCHANGED recent
    BY <2>3, <2>4, <2>5 DEF RecentFit
  <2>6. CASE recent' = Append(recent, Log(q)) /\ At(q, "logging")
    <3>1. /\ Len(recent') = Len(recent) + 1 /\ Len(recent) \in Nat
          /\ recent'[Len(recent) + 1] = Log(q)
          /\ \A i \in 1..Len(recent) : recent'[i] = recent[i]
      BY <1>1, <2>2, <2>6
    <3>2. \A i \in 1..Len(recent') :
            i \in 1..Len(recent) \/ i = Len(recent) + 1
      BY <3>1
    <3>3. logs[Log(q)] = "NONE"
      <4>1. FrameFits(Top(q)) /\ Top(q).rule \in 1..MaxRules
        BY <2>1, <2>6, RuleOfTop DEF At
      <4>2. QED
        BY <2>6, <4>1 DEF FrameFits, At, Log
    <3>4. \A i \in 1..Len(recent) : recent[i] # Log(q)
      BY <3>3 DEF RecentFit
    <3>5. logs'[Log(q)] # "NONE"
      BY <1>1, <2>1, <2>2
    <3>6. QED
      BY <2>3, <2>4, <3>1, <3>2, <3>4, <3>5 DEF RecentFit
  <2>7. QED
    BY <1>3, <2>5, <2>6 DEF Writes
<1>4. QED
  <2>1. UNCHANGED <<logs, recent>>
        \/ \E pc \in Pcs, status \in LogStatus : Writes(q, pc, status)
    BY DEF RequestSteps, Passes, Tells, Ends, Begins, Dies
  <2>2. QED
    BY <1>2, <1>3, <2>1

\* A frame comes to the creation of a log by the evaluation of its rule only.
LEMMA NoNewLogging ==
  ASSUME EventsTypeOK, StacksFit, NEW q \in Requests, RequestSteps(q),
         \A rule \in 0..MaxRules : ~Passes(q, "logging", rule)
  PROVE  ~At(q, "logging")'
<1>1. Depth(q) \in Nat
  BY StackTypes
<1>2. ASSUME NEW pc, pc # "logging", NEW rule, Moved(q, pc, rule)
      PROVE  ~At(q, "logging")'
  BY <1>2 DEF Moved, At, Top, Depth
<1>3. CASE \E pc \in Pcs, rule \in 0..MaxRules : Passes(q, pc, rule)
  BY <1>2, <1>3 DEF Passes
<1>4. CASE \E pc \in Pcs, status \in LogStatus : Writes(q, pc, status)
  BY <1>2, <1>4 DEF Writes
<1>5. ASSUME NEW back, NEW pc, pc # "logging",
             Pushed(q, back,
                    [event |-> Len(events) + 1, rule |-> 0, pc |-> pc])
      PROVE  ~At(q, "logging")'
  BY <1>5 DEF Pushed, At, Top, Depth
<1>6. CASE \E back \in {"rules", "recording"} : Tells(q, back)
  BY <1>5, <1>6 DEF Tells
<1>7. CASE Begins(q)
  BY <1>5, <1>7 DEF Begins
<1>8. CASE Ends(q)
  <2>1. Popped(q)
    BY <1>8 DEF Ends
  <2>2. CASE stack'[q] # <<>>
    <3>1. PICK i : i = Len(stack'[q])
      OBVIOUS
    <3>2. stack'[q] \in Seq(FrameType) /\ i = Depth(q) - 1
      BY <2>1, <3>1 DEF Popped
    <3>3. i \in 1..Depth(q) /\ i # Depth(q)
      <4>1. PICK s \in Seq(FrameType) : s = stack'[q]
        BY <3>2
      <4>2. s # <<>> => Len(s) \in 1..Len(s)
        OBVIOUS
      <4>3. i \in 1..i
        BY <2>2, <3>1, <4>1, <4>2
      <4>4. QED
        BY <1>1, <3>2, <4>3
    <3>4. stack'[q][i] = stack[q][i]
          /\ stack[q][i].pc \in {"rules", "recording"}
      BY <2>1, <3>3 DEF Popped, StacksFit
    <3>5. QED
      BY <3>1, <3>4 DEF At, Top
  <2>3. QED
    BY <2>2 DEF At
<1>9. CASE Dies(q)
  BY <1>9 DEF Dies, At
<1>10. QED
  BY <1>3, <1>4, <1>6, <1>7, <1>8, <1>9 DEF RequestSteps

\* Nothing is claimed anew but by the evaluation of a rule.
LEMMA ClaimsKept ==
  ASSUME EventsTypeOK, StacksFit, LogsFit, NEW q \in Requests,
         RequestSteps(q),
         \A rule \in 0..MaxRules : ~Passes(q, "logging", rule),
         NEW r, NEW a
  PROVE  CooldownClaims(r, a)' \subseteq CooldownClaims(r, a)
<1> SUFFICES ASSUME NEW l, l \in CooldownClaims(r, a)'
             PROVE  l \in CooldownClaims(r, a)
  OBVIOUS
<1>1. /\ l \in LogIds /\ l[1] = r /\ events'[l[2]].aggregate = a
      /\ \/ /\ \E i \in 1..Len(recent') : recent'[i] = l
            /\ logs'[l] \in Counted
         \/ \E p \in Requests : (At(p, "logging") /\ Log(p) = l)'
  BY DEF CooldownClaims
<1>2. /\ OthersWait(q) /\ logs \in [LogIds -> LogStatus]
      /\ recent \in Seq(LogIds)
      /\ \A d \in 1..Len(events) : events'[d].aggregate = events[d].aggregate
  BY StepEvents, RulesTypes
<1>3. ASSUME l[2] \in 1..Len(events),
             \/ /\ \E i \in 1..Len(recent) : recent[i] = l
                /\ logs[l] \in Counted
             \/ \E p \in Requests : At(p, "logging") /\ Log(p) = l
      PROVE  l \in CooldownClaims(r, a)
  BY <1>1, <1>2, <1>3 DEF CooldownClaims
<1>4. ASSUME \E i \in 1..Len(recent) : recent[i] = l, logs[l] \in Counted
      PROVE  l \in CooldownClaims(r, a)
  BY <1>1, <1>3, <1>4 DEF LogsFit, Counted, Open
<1>5. ASSUME NEW p \in Requests, At(p, "logging"), Log(p) = l
      PROVE  l \in CooldownClaims(r, a)
  <2>1. Top(p).event \in 1..Len(events)
    BY <1>5, RuleOfTop DEF At
  <2>2. l[2] \in 1..Len(events)
    BY <1>5, <2>1 DEF Log
  <2>3. QED
    BY <1>3, <1>5, <2>2
<1>6. CASE \E p \in Requests : (At(p, "logging") /\ Log(p) = l)'
  <2>1. PICK p \in Requests : (At(p, "logging") /\ Log(p) = l)'
    BY <1>6
  <2>2. p # q
    BY <2>1, NoNewLogging
  <2>3. At(p, "logging") /\ Log(p) = l
    BY <1>2, <2>1, <2>2 DEF OthersWait, At, Log, Top
  <2>4. QED
    BY <1>5, <2>3
<1>7. CASE /\ \E i \in 1..Len(recent') : recent'[i] = l
           /\ logs'[l] \in Counted
  <2>1. CASE UNCHANGED <<logs, recent>>
    BY <1>4, <1>7, <2>1
  <2>2. ASSUME NEW pc \in Pcs, NEW status \in LogStatus,
               Writes(q, pc, status)
        PROVE  l \in CooldownClaims(r, a)
    <3>1. stack[q] # <<>> /\ logs' = [logs EXCEPT ![Log(q)] = status]
      BY <2>2 DEF Writes, Moved
    <3>2. Log(q) \in LogIds /\ FrameFits(Top(q))
      BY <2>2, <3>1, RuleOfTop DEF Writes, At
    <3>3. CASE At(q, "logging") /\ l = Log(q)
      BY <1>5, <3>3
    <3>4. CASE recent' = Append(recent, Log(q)) /\ l # Log(q)
      <4>1. /\ Len(recent') = Len(recent) + 1 /\ Len(recent) \in Nat
            /\ recent'[Len(recent) + 1] = Log(q)
            /\ \A i \in 1..Len(recent) : recent'[i] = recent[i]
        BY <1>2, <3>2, <3>4
      <4>2. \A i \in 1..Len(recent') :
              i \in 1..Len(recent) \/ i = Len(recent) + 1
        BY <4>1
      <4>3. \E i \in 1..Len(recent) : recent[i] = l
        BY <1>7, <3>4, <4>1, <4>2
      <4>4. logs[l] = logs'[l]
        BY <1>1, <1>2, <3>1, <3>4
      <4>5. QED
        BY <1>4, <1>7, <4>3, <4>4
    <3>5. CASE UNCHANGED recent
      <4>1. CASE l # Log(q)
        <5>1. logs[l] = logs'[l]
          BY <1>1, <1>2, <3>1, <4>1
        <5>2. QED
          BY <1>4, <1>7, <3>5, <5>1
      <4>2. CASE l = Log(q)
        <5>1. status \in Counted
          BY <1>2, <1>7, <3>1, <3>2, <4>2
        <5>2. Top(q).pc \in {"starting", "recording"} \/ At(q, "logging")
          BY <2>2, <5>1 DEF Writes, At, Counted, Open
        <5>3. Top(q).pc \in {"starting", "recording"} => logs[l] \in Open
          BY <3>2, <4>2 DEF FrameFits, Log
        <5>4. QED
          BY <1>4, <1>5, <1>7, <3>5, <4>2, <5>2, <5>3 DEF Counted
      <4>3. QED
        BY <4>1, <4>2
    <3>6. QED
      BY <2>2, <3>3, <3>4, <3>5 DEF Writes
  <2>3. QED
    <3>1. UNCHANGED <<logs, recent>>
          \/ \E pc \in Pcs, status \in LogStatus : Writes(q, pc, status)
      BY DEF RequestSteps, Passes, Tells, Ends, Begins, Dies
    <3>2. QED
      BY <2>1, <2>2, <3>1
<1>8. QED
  BY <1>1, <1>6, <1>7

\* A rule that is evaluated outside its cooldown: whoever holds it for the
\* aggregate of the event is a request about to create its log.
LEMMA EvaluateClaims ==
  ASSUME EventsTypeOK, StacksFit, LogsFit, BusyFew', ClaimsFew,
         NEW q \in Requests, NEW rule \in 0..MaxRules,
         Passes(q, "logging", rule),
         NEW r \in setting.cooling \cap setting.byAggregate,
         NEW a \in Aggregates \cup Rules
  PROVE  Cardinality(CooldownClaims(r, a)') <= setting.requests
<1>1. /\ UNCHANGED <<events, logs, recent, setting>> /\ OthersWait(q)
      /\ Moved(q, "logging", rule) /\ stack[q] # <<>>
      /\ ~CooldownActive(rule, Top(q).event)
      /\ Depth(q) \in 1..Depth(q)
  BY StackTypes, RuleOfTop DEF Passes, Moved, Caught, Pcs
<1>2. PICK e : e = Top(q).event
  OBVIOUS
<1>3. /\ recent \in Seq(LogIds) /\ setting.requests \in Nat
      /\ DOMAIN recent = 1..Len(recent)
  BY RulesTypes, EventsAssumption
<1>4. Log(q)' = <<rule, e>>
  BY <1>1, <1>2 DEF Moved, Log, Top, Depth
<1>5. \A p \in Requests \ {q} :
        /\ At(p, "logging")' <=> At(p, "logging")
        /\ Log(p)' = Log(p)
        /\ At(p, "logging") => Top(p).event \in 1..Len(events)
  BY <1>1, RuleOfTop DEF OthersWait, At, Log, Top
<1>6. CASE r = rule /\ events[e].aggregate = a
  <2>1. PICK A : A = Busy'
    OBVIOUS
  <2>2. IsFiniteSet(A) /\ Cardinality(A) <= setting.requests
    BY <1>1, <2>1 DEF BusyFew
  <2>3. PICK g : g = [p \in A |-> Log(p)']
    OBVIOUS
  <2>4. PICK D : D = {Log(p)' : p \in A}
    OBVIOUS
  <2>5. g \in [A -> D]
    BY <2>3, <2>4
  <2>6. PICK C : C = CooldownClaims(r, a)'
    OBVIOUS
  <2>7. ASSUME NEW l \in C
        PROVE  \E p \in A : g[p] = l
    <3>1. /\ l[1] = r /\ events[l[2]].aggregate = a
          /\ \/ /\ \E i \in 1..Len(recent) : recent[i] = l
                /\ logs[l] \in Counted
             \/ \E p \in Requests : (At(p, "logging") /\ Log(p) = l)'
      BY <1>1, <2>6, <2>7 DEF CooldownClaims
    <3>2. ASSUME NEW i \in 1..Len(recent), recent[i] = l,
                 logs[l] \in Counted
          PROVE  FALSE
      BY <1>1, <1>2, <1>3, <1>6, <3>1, <3>2 DEF CooldownActive, SameKey
    <3>3. PICK p \in Requests : (At(p, "logging") /\ Log(p) = l)'
      BY <3>1, <3>2
    <3>4. p \in A
      BY <2>1, <3>3 DEF Busy, At
    <3>5. QED
      BY <2>3, <3>3, <3>4
  <2>8. IsFiniteSet(C) /\ Cardinality(C) <= Cardinality(A)
    BY <2>2, <2>5, <2>7, ClaimantsCount
  <2>9. Cardinality(C) \in Nat /\ Cardinality(A) \in Nat
    BY <2>2, <2>8, FS_CardinalityType
  <2>10. QED
    BY <1>3, <2>2, <2>6, <2>8, <2>9
<1>7. CASE ~(r = rule /\ events[e].aggregate = a)
  <2>1. PICK C : C = CooldownClaims(r, a)'
    OBVIOUS
  <2>2. ASSUME NEW l \in C
        PROVE  l \in CooldownClaims(r, a)
    <3>1. /\ l \in LogIds /\ l[1] = r /\ events[l[2]].aggregate = a
          /\ l[2] \in 1..Len(events)
          /\ \/ /\ \E i \in 1..Len(recent) : recent[i] = l
                /\ logs[l] \in Counted
             \/ \E p \in Requests : (At(p, "logging") /\ Log(p) = l)'
      BY <1>1, <2>1, <2>2 DEF CooldownClaims
    <3>2. l # <<rule, e>>
      BY <1>7, <3>1
    <3>3. ASSUME NEW p \in Requests, (At(p, "logging") /\ Log(p) = l)'
          PROVE  At(p, "logging") /\ Log(p) = l
      BY <1>4, <1>5, <3>2, <3>3
    <3>4. QED
      BY <3>1, <3>3 DEF CooldownClaims
  <2>3. /\ C \subseteq CooldownClaims(r, a)
        /\ CooldownClaims(r, a) \subseteq LogIds
    BY <2>2 DEF CooldownClaims
  <2>4. Cardinality(CooldownClaims(r, a)) <= setting.requests
    BY DEF ClaimsFew
  <2>5. QED
    BY <1>3, <2>1, <2>3, <2>4, FewerClaims
<1>8. QED
  BY <1>6, <1>7

\* The claims on a cooldown stay as few as the requests.
LEMMA StepClaims ==
  ASSUME EventsTypeOK, StacksFit, LogsFit, BusyFew', ClaimsFew,
         NEW q \in Requests, RequestSteps(q)
  PROVE  ClaimsFew'
<1>1. UNCHANGED setting /\ Rules' = Rules
  BY StepEvents DEF Rules
<1>2. setting.requests \in Nat
  BY RulesTypes, EventsAssumption
<1>3. ASSUME NEW r \in setting.cooling \cap setting.byAggregate,
             NEW a \in Aggregates \cup Rules
      PROVE  Cardinality(CooldownClaims(r, a)') <= setting.requests
  <2>1. CASE \E rule \in 0..MaxRules : Passes(q, "logging", rule)
    BY <2>1, EvaluateClaims
  <2>2. CASE \A rule \in 0..MaxRules : ~Passes(q, "logging", rule)
    <3>1. PICK C : C = CooldownClaims(r, a)'
      OBVIOUS
    <3>2. /\ C \subseteq CooldownClaims(r, a)
          /\ CooldownClaims(r, a) \subseteq LogIds
      BY <2>2, <3>1, ClaimsKept DEF CooldownClaims
    <3>3. Cardinality(CooldownClaims(r, a)) <= setting.requests
      BY DEF ClaimsFew
    <3>4. QED
      BY <1>2, <3>1, <3>2, <3>3, FewerClaims
  <2>3. QED
    BY <2>1, <2>2
<1>4. QED
  BY <1>1, <1>3 DEF ClaimsFew

\* When the oldest log leaves the cooldown there is a claim less.
LEMMA ElapseClaims ==
  ASSUME EventsTypeOK, RecentFit, BusyFew, ClaimsFew, Elapse
  PROVE  RecentFit' /\ BusyFew' /\ ClaimsFew'
<1>1. /\ UNCHANGED <<events, logs, stack, setting>>
      /\ recent # <<>> /\ recent' = Tail(recent)
  BY DEF Elapse
<1>2. recent \in Seq(LogIds) /\ setting.requests \in Nat
  BY RulesTypes, EventsAssumption
<1>3. /\ Len(recent') = Len(recent) - 1 /\ Len(recent) \in Nat
      /\ \A i \in 1..Len(recent') :
           /\ recent'[i] = recent[i + 1] /\ i + 1 \in 1..Len(recent)
           /\ i \in Int
  <2>1. /\ Len(Tail(recent)) = Len(recent) - 1 /\ Len(recent) \in Nat
        /\ \A i \in 1..Len(Tail(recent)) : Tail(recent)[i] = recent[i + 1]
    BY <1>1, <1>2, HeadTailProperties
  <2>2. QED
    BY <1>1, <2>1
<1>4. RecentFit'
  BY <1>1, <1>3 DEF RecentFit
<1>5. BusyFew'
  BY <1>1 DEF BusyFew, Busy
<1>6. ASSUME NEW r \in setting.cooling \cap setting.byAggregate,
             NEW a \in Aggregates \cup Rules
      PROVE  Cardinality(CooldownClaims(r, a)') <= setting.requests
  <2>1. PICK C : C = CooldownClaims(r, a)'
    OBVIOUS
  <2>2. /\ C \subseteq CooldownClaims(r, a)
        /\ CooldownClaims(r, a) \subseteq LogIds
    BY <1>1, <1>3, <2>1 DEF CooldownClaims, At, Log, Top
  <2>3. Cardinality(CooldownClaims(r, a)) <= setting.requests
    BY DEF ClaimsFew
  <2>4. QED
    BY <1>2, <2>1, <2>2, <2>3, FewerClaims
<1>7. ClaimsFew'
  BY <1>1, <1>6 DEF ClaimsFew, Rules
<1>8. QED
  BY <1>4, <1>5, <1>7

\* The logs within the cooldown are claims on it.
LEMMA ClaimsCount ==
  ASSUME EventsTypeOK, LogsFit, RecentFit, ClaimsFew
  PROVE  CooldownIsKept
<1> SUFFICES
      ASSUME NEW r \in setting.cooling \cap setting.byAggregate,
             NEW a \in Aggregates \cup Rules
      PROVE  Cardinality({i \in DOMAIN recent :
               /\ recent[i][1] = r
               /\ logs[recent[i]] \in {"PENDING", "RUNNING", "SUCCEEDED"}
               /\ events[recent[i][2]].aggregate = a}) <= setting.requests
  BY DEF CooldownIsKept
<1>1. PICK I : I = {i \in DOMAIN recent :
               /\ recent[i][1] = r
               /\ logs[recent[i]] \in {"PENDING", "RUNNING", "SUCCEEDED"}
               /\ events[recent[i][2]].aggregate = a}
  OBVIOUS
<1>2. PICK C : C = CooldownClaims(r, a)
  OBVIOUS
<1>3. /\ recent \in Seq(LogIds) /\ DOMAIN recent = 1..Len(recent)
      /\ setting.requests \in Nat
  BY RulesTypes, EventsAssumption
<1>4. PICK h : h = [i \in I |-> recent[i]]
  OBVIOUS
<1>5. \A i \in I : recent[i] \in C /\ i \in 1..Len(recent)
  <2> SUFFICES ASSUME NEW i \in I
               PROVE  recent[i] \in C /\ i \in 1..Len(recent)
    OBVIOUS
  <2>1. i \in 1..Len(recent) /\ recent[i] \in LogIds
    BY <1>1, <1>3
  <2>2. recent[i][2] \in 1..Len(events)
    BY <2>1 DEF RecentFit, LogsFit
  <2>3. /\ recent[i][1] = r /\ logs[recent[i]] \in Counted
        /\ events[recent[i][2]].aggregate = a
    BY <1>1 DEF Counted, Open
  <2>4. \E j \in 1..Len(recent) : recent[j] = recent[i]
    BY <2>1
  <2>5. QED
    BY <1>2, <2>1, <2>2, <2>3, <2>4 DEF CooldownClaims
<1>6. h \in [I -> C] /\ DOMAIN h = I
  BY <1>4, <1>5
<1>7. \A i, j \in I : h[i] = h[j] => i = j
  BY <1>4, <1>5 DEF RecentFit
<1>8. h \in Injection(I, C)
  BY <1>6, <1>7 DEF Injection, IsInjective
<1>9. IsFiniteSet(C) /\ Cardinality(C) <= setting.requests
  <2>1. C \in SUBSET LogIds
    BY <1>2 DEF CooldownClaims
  <2>2. IsFiniteSet(C)
    BY <2>1, LogIdsFinite, FS_Subset
  <2>3. QED
    BY <1>2, <2>2 DEF ClaimsFew
<1>10. IsFiniteSet(I) /\ Cardinality(I) <= Cardinality(C)
  BY <1>8, <1>9, FS_Injection
<1>11. Cardinality(I) \in Nat /\ Cardinality(C) \in Nat
  BY <1>9, <1>10, FS_CardinalityType
<1>12. QED
  BY <1>1, <1>3, <1>9, <1>10, <1>11

\* At the start nothing is claimed.
LEMMA InitClaims ==
  ASSUME EventsInit
  PROVE  RecentFit /\ BusyFew /\ ClaimsFew
<1>1. /\ setting.requests \in Nat /\ recent = <<>> /\ events = <<>>
      /\ \A q \in Requests : stack[q] = <<>>
  BY EventsAssumption DEF EventsInit
<1>2. Len(recent) = 0 /\ Len(events) = 0
  BY <1>1, EmptySeq
<1>3. RecentFit
  BY <1>2 DEF RecentFit
<1>4. Busy = {}
  BY <1>1 DEF Busy
<1>5. BusyFew
  BY <1>1, <1>4, FS_EmptySet DEF BusyFew
<1>6. \A r, a : CooldownClaims(r, a) = {}
  BY <1>2 DEF CooldownClaims
<1>7. ClaimsFew
  <2>1. Cardinality({}) = 0 /\ 0 <= setting.requests
    BY <1>1, FS_EmptySet
  <2>2. \A r, a : Cardinality(CooldownClaims(r, a)) <= setting.requests
    BY <1>6, <2>1
  <2>3. QED
    BY <2>2 DEF ClaimsFew
<1>8. QED
  BY <1>3, <1>5, <1>7

\* Within its cooldown a rule runs for a key once per request that is handled
\* at the time, for any rules and any number of requests: the check and the
\* insert of the log are two steps, and every request can be between them
\* (TriggerEvaluatorService.evaluate, createExecutionLog).
THEOREM CooldownKept == EventsSpec => []CooldownIsKept
<1> DEFINE Inv == /\ EventsTypeOK /\ StacksFit /\ LogsFit
                  /\ RecentFit /\ BusyFew /\ ClaimsFew
<1>1. EventsInit => Inv
  BY InitTyped, InitClaims
<1>2. Inv /\ [EventsNext]_eventsVars => Inv'
  <2> SUFFICES ASSUME Inv, [EventsNext]_eventsVars
               PROVE  Inv'
    OBVIOUS
  <2>1. EventsTypeOK' /\ StacksFit' /\ LogsFit'
    BY StepTyped
  <2>2. CASE UNCHANGED eventsVars
    <3>1. RecentFit'
      BY <2>2 DEF RecentFit, eventsVars
    <3>2. BusyFew'
      BY <2>2 DEF BusyFew, Busy, eventsVars
    <3>3. ClaimsFew'
      <4>1. \A r, a : CooldownClaims(r, a)' = CooldownClaims(r, a)
        BY <2>2 DEF CooldownClaims, At, Log, Top, eventsVars
      <4>2. QED
        BY <2>2, <4>1 DEF ClaimsFew, Rules, eventsVars
    <3>4. QED
      BY <2>1, <3>1, <3>2, <3>3
  <2>3. CASE Elapse
    BY <2>1, <2>3, ElapseClaims
  <2>4. ASSUME NEW q \in Requests, RequestSteps(q)
        PROVE  RecentFit' /\ BusyFew' /\ ClaimsFew'
    BY <2>4, StepRecent, StepBusy, StepClaims
  <2>5. QED
    BY <2>1, <2>2, <2>3, <2>4, NextSteps
<1>3. Inv => CooldownIsKept
  BY ClaimsCount
<1>4. QED
  BY <1>1, <1>2, <1>3, PTL DEF EventsSpec

(***************************************************************************)
(* Domain events: a cascade comes to an end                                *)
(***************************************************************************)

\* A frame that holds a cooldown: its rule answers to rules, and is about to be
\* logged, or has a log that counts.
Claiming(f) ==
  /\ f.rule \in Answering
  /\ f.pc = "logging" \/ logs[<<f.rule, f.event>>] \in Counted

\* A frame runs a rule that listens to its event; what it announces has
\* succeeded; and a log that counts is within the cooldown.
FrameRuns(f) ==
  /\ f.rule # 0 =>
       /\ f.rule \in Rules
       /\ setting.listens[f.rule] = events[f.event].type
       /\ ~setting.slow /\ logs[<<f.rule, f.event>>] \in Counted =>
            \E j \in 1..Len(recent) : recent[j] = <<f.rule, f.event>>
  /\ f.pc = "announcing" /\ setting.does[f.rule] # "nothing" =>
       logs[<<f.rule, f.event>>] = "SUCCEEDED"

\* The event d was published by the rule that f is at.
ChildFits(f, d) ==
  /\ f.rule \in Rules
  /\ events[d].type # "business" /\ events[d].aggregate = f.rule
  /\ events[d].type \in {"requested", "succeeded"}
       /\ setting.does[f.rule] # "nothing" =>
         logs[<<f.rule, f.event>>] \in Counted

\* Two frames do not hold the same cooldown.
Differ(f, g) ==
  Claiming(f) /\ Claiming(g) =>
    \/ f.rule # g.rule
    \/ events[f.event].aggregate # events[g.event].aggregate

StackRuns(q) ==
  /\ \A i \in 1..Depth(q) : FrameRuns(stack[q][i])
  /\ \A i \in 1..Depth(q) :
       i < Depth(q) => ChildFits(stack[q][i], stack[q][i + 1].event)
  /\ CooldownsGuard =>
       \A i, j \in 1..Depth(q) : i < j => Differ(stack[q][i], stack[q][j])

CascadeInv == \A q \in Requests : StackRuns(q)

\* What a step leaves alone: the events there are, the logs of the events that
\* are not at the top of q, and the logs within the cooldown.
Spares(q) ==
  /\ UNCHANGED setting
  /\ \A d \in 1..Len(events) : /\ events'[d].type = events[d].type
                               /\ events'[d].aggregate = events[d].aggregate
  /\ \A l \in LogIds :
       stack[q] = <<>> \/ l[2] # Top(q).event => logs'[l] = logs[l]
  /\ \A i \in 1..Len(recent) :
       i \in 1..Len(recent') /\ recent'[i] = recent[i]

\* Every step of a request leaves that alone.
LEMMA StepSpares ==
  ASSUME EventsTypeOK, StacksFit, NEW q \in Requests, RequestSteps(q)
  PROVE  Spares(q)
<1>1. /\ logs \in [LogIds -> LogStatus] /\ recent \in Seq(LogIds)
      /\ Len(recent) \in Nat
  BY RulesTypes
<1>2. /\ UNCHANGED setting
      /\ \A d \in 1..Len(events) :
           /\ events'[d].type = events[d].type
           /\ events'[d].aggregate = events[d].aggregate
  BY StepEvents
<1>3. CASE UNCHANGED <<logs, recent>>
  BY <1>2, <1>3 DEF Spares
<1>4. ASSUME NEW pc \in Pcs, NEW status \in LogStatus, Writes(q, pc, status)
      PROVE  Spares(q)
  <2>1. stack[q] # <<>> /\ logs' = [logs EXCEPT ![Log(q)] = status]
    BY <1>4 DEF Writes, Moved
  <2>2. Log(q) \in LogIds
    BY <1>4, <2>1, RuleOfTop DEF Writes, At
  <2>3. \A l \in LogIds : l[2] # Top(q).event => logs'[l] = logs[l]
    BY <1>1, <2>1 DEF Log
  <2>4. \A i \in 1..Len(recent) :
          i \in 1..Len(recent') /\ recent'[i] = recent[i]
    <3>1. CASE UNCHANGED recent
      BY <3>1
    <3>2. CASE recent' = Append(recent, Log(q))
      BY <1>1, <2>2, <3>2
    <3>3. QED
      BY <1>4, <3>1, <3>2 DEF Writes
  <2>5. QED
    BY <1>2, <2>1, <2>3, <2>4 DEF Spares
<1>5. QED
  <2>1. UNCHANGED <<logs, recent>>
        \/ \E pc \in Pcs, status \in LogStatus : Writes(q, pc, status)
    BY DEF RequestSteps, Passes, Tells, Ends, Begins, Dies
  <2>2. QED
    BY <1>3, <1>4, <2>1

\* A frame that is not the top of q holds what it held, and its child is as it
\* was.
LEMMA FrameSpared ==
  ASSUME EventsTypeOK, StacksFit, NEW q \in Requests, Spares(q),
         NEW p \in Requests, NEW j \in 1..Depth(p),
         stack[q] = <<>> \/ p # q \/ j # Depth(q),
         NEW f, f = stack[p][j], FrameRuns(f)
  PROVE  /\ FrameRuns(f)' /\ (Claiming(f)' <=> Claiming(f))
         /\ events'[f.event].aggregate = events[f.event].aggregate
         /\ \A d \in 1..Len(events) : ChildFits(f, d) => ChildFits(f, d)'
<1>1. /\ f \in FrameType /\ f.event \in 1..Len(events)
      /\ Rules \subseteq 1..MaxRules /\ f.event \in 1..MaxEvents
      /\ f.pc = "announcing" => f.rule \in Rules
  BY FramesFit, RulesTypes DEF FrameType
<1>2. stack[q] = <<>> \/ f.event # Top(q).event
  BY OtherFrames
<1>3. \A r \in Rules : logs'[<<r, f.event>>] = logs[<<r, f.event>>]
  BY <1>1, <1>2 DEF Spares, LogIds
<1>4. Rules' = Rules /\ Answering' = Answering /\ Answering \subseteq Rules
  BY DEF Spares, Rules, Answering
<1>5. FrameRuns(f)'
  BY <1>1, <1>3, <1>4 DEF FrameRuns, Spares
<1>6. Claiming(f)' <=> Claiming(f)
  BY <1>3, <1>4 DEF Claiming
<1>7. \A d \in 1..Len(events) : ChildFits(f, d) => ChildFits(f, d)'
  BY <1>3, <1>4 DEF ChildFits, Spares
<1>8. QED
  BY <1>1, <1>5, <1>6, <1>7 DEF Spares

\* Below the top of q everything goes on as it was, for as many frames as are
\* left; so do the stacks of the others, with their tops.
LEMMA FramesSpared ==
  ASSUME EventsTypeOK, StacksFit, CascadeInv, NEW q \in Requests, Spares(q),
         NEW p \in Requests, NEW n \in 0..Depth(p),
         stack[q] = <<>> \/ p # q \/ n < Depth(q),
         Depth(p)' = n, \A i \in 1..n : stack'[p][i] = stack[p][i]
  PROVE  StackRuns(p)'
<1>1. Depth(p) \in Nat /\ n \in Nat /\ StackRuns(p)
  BY StackTypes DEF CascadeInv
<1>2. CooldownsGuard' <=> CooldownsGuard
  BY DEF Spares, CooldownsGuard, Answering, Rules
<1>3. ASSUME NEW i \in 1..n
      PROVE  /\ i \in 1..Depth(p) /\ FrameRuns(stack[p][i])
             /\ stack[q] = <<>> \/ p # q \/ i # Depth(q)
  BY <1>1, <1>3 DEF StackRuns, Depth
<1>4. ASSUME NEW i \in 1..n
      PROVE  FrameRuns(stack[p][i])'
  <2>1. PICK f : f = stack[p][i]
    OBVIOUS
  <2>2. FrameRuns(f)'
    BY <1>3, <2>1, FrameSpared
  <2>3. f = stack'[p][i]
    BY <2>1
  <2>4. QED
    BY <2>2, <2>3
<1>5. ASSUME NEW i \in 1..n, i < n
      PROVE  ChildFits(stack[p][i], stack[p][i + 1].event)'
  <2>1. i + 1 \in 1..n
    BY <1>1, <1>5
  <2>2. PICK f, d : f = stack[p][i] /\ d = stack[p][i + 1].event
    OBVIOUS
  <2>3. d \in 1..Len(events)
    BY <1>3, <2>1, <2>2, FramesFit
  <2>4. ChildFits(f, d)
    BY <1>1, <1>5, <2>2 DEF StackRuns
  <2>5. ChildFits(f, d)'
    BY <1>3, <2>2, <2>3, <2>4, FrameSpared
  <2>6. f = stack'[p][i] /\ d = stack'[p][i + 1].event
    BY <2>1, <2>2
  <2>7. QED
    BY <2>5, <2>6
<1>6. ASSUME CooldownsGuard, NEW i \in 1..n, NEW j \in 1..n, i < j
      PROVE  Differ(stack[p][i], stack[p][j])'
  <2>1. PICK f, g : f = stack[p][i] /\ g = stack[p][j]
    OBVIOUS
  <2>2. Differ(f, g)
    BY <1>1, <1>3, <1>6, <2>1 DEF StackRuns
  <2>3. /\ Claiming(f)' <=> Claiming(f)
        /\ Claiming(g)' <=> Claiming(g)
        /\ events'[f.event].aggregate = events[f.event].aggregate
        /\ events'[g.event].aggregate = events[g.event].aggregate
    BY <1>3, <2>1, FrameSpared
  <2>4. Differ(f, g)'
    BY <2>2, <2>3 DEF Differ
  <2>5. f = stack'[p][i] /\ g = stack'[p][j]
    BY <2>1
  <2>6. QED
    BY <2>4, <2>5
<1>7. QED
  BY <1>2, <1>4, <1>5, <1>6 DEF StackRuns

\* The top of q goes on, with an event of its own put upon it or not: it runs as
\* it should, and holds no cooldown that a frame below holds.
LEMMA TopRuns ==
  ASSUME EventsTypeOK, StacksFit, CascadeInv, NEW q \in Requests, Spares(q),
         stack[q] # <<>>,
         \A i \in 1..Depth(q) : i # Depth(q) => stack'[q][i] = stack[q][i],
         NEW f, stack'[q][Depth(q)] = f, f.event = Top(q).event,
         FrameRuns(f)',
         CooldownsGuard /\ Claiming(f)' =>
           \A i \in 1..Depth(q) : i # Depth(q) => Differ(stack[q][i], f)',
         \/ Depth(q)' = Depth(q)
         \/ /\ Depth(q)' = Depth(q) + 1
            /\ stack'[q][Depth(q) + 1].rule = 0
            /\ stack'[q][Depth(q) + 1].pc = "rules"
            /\ \E d : stack'[q][Depth(q) + 1].event = d /\ ChildFits(f, d)'
  PROVE  StackRuns(q)'
<1>1. /\ Depth(q) \in Nat /\ Depth(q) \in 1..Depth(q) /\ StackRuns(q)
      /\ Top(q) = stack[q][Depth(q)] /\ Depth(q)' \in Nat
  BY StackTypes DEF CascadeInv, Top, Depth
<1>2. PICK n : n = Depth(q)
  OBVIOUS
<1>3. n \in Nat /\ n \in 1..n /\ Depth(q)' \in {n, n + 1}
  BY <1>1, <1>2
<1>4. CooldownsGuard' <=> CooldownsGuard
  BY DEF Spares, CooldownsGuard, Answering, Rules
<1>5. ASSUME NEW i \in 1..n, i # n
      PROVE  /\ FrameRuns(stack[q][i])'
             /\ (Claiming(stack[q][i])' <=> Claiming(stack[q][i]))
             /\ events'[stack[q][i].event].aggregate
                  = events[stack[q][i].event].aggregate
             /\ stack'[q][i] = stack[q][i]
             /\ \A d \in 1..Len(events) : ChildFits(stack[q][i], d) =>
                                          ChildFits(stack[q][i], d)'
  <2>1. PICK g : g = stack[q][i]
    OBVIOUS
  <2>2. g = stack'[q][i] /\ FrameRuns(g)
    BY <1>1, <1>2, <1>5, <2>1 DEF StackRuns
  <2>3. /\ FrameRuns(g)' /\ (Claiming(g)' <=> Claiming(g))
        /\ events'[g.event].aggregate = events[g.event].aggregate
        /\ \A d \in 1..Len(events) : ChildFits(g, d) => ChildFits(g, d)'
    BY <1>2, <1>5, <2>1, <2>2, FrameSpared
  <2>4. QED
    BY <2>1, <2>2, <2>3
<1>6. ASSUME NEW i \in 1..Depth(q)'
      PROVE  FrameRuns(stack[q][i])'
  <2>1. CASE i = n + 1
    <3>1. stack'[q][i].rule = 0 /\ stack'[q][i].pc = "rules"
      BY <1>2, <1>3, <1>6, <2>1
    <3>2. QED
      BY <3>1 DEF FrameRuns
  <2>2. CASE i = n
    BY <1>2, <2>2
  <2>3. CASE i \in 1..n /\ i # n
    BY <1>5, <2>3
  <2>4. QED
    BY <1>3, <1>6, <2>1, <2>2, <2>3
<1>7. ASSUME NEW i \in 1..Depth(q)', i < Depth(q)'
      PROVE  ChildFits(stack[q][i], stack[q][i + 1].event)'
  <2>1. CASE i = n
    <3>1. PICK d : stack'[q][n + 1].event = d /\ ChildFits(f, d)'
      BY <1>2, <1>3, <1>7, <2>1
    <3>2. f = stack'[q][i] /\ d = stack'[q][i + 1].event
      BY <1>2, <2>1, <3>1
    <3>3. QED
      BY <3>1, <3>2
  <2>2. CASE i \in 1..n /\ i # n
    <3>1. i + 1 \in 1..n /\ i < n
      BY <1>3, <2>2
    <3>2. PICK d : d = stack[q][i + 1].event
      OBVIOUS
    <3>3. d \in 1..Len(events) /\ ChildFits(stack[q][i], d)
      BY <1>1, <1>2, <2>2, <3>1, <3>2, FramesFit DEF StackRuns
    <3>4. d = stack'[q][i + 1].event
      BY <1>1, <1>2, <3>1, <3>2
    <3>5. PICK g : g = stack[q][i]
      OBVIOUS
    <3>6. ChildFits(g, d)' /\ g = stack'[q][i]
      BY <1>5, <2>2, <3>3, <3>5
    <3>7. QED
      BY <3>4, <3>6
  <2>3. QED
    BY <1>3, <1>7, <2>1, <2>2
<1>8. ASSUME CooldownsGuard, NEW i \in 1..Depth(q)', NEW j \in 1..Depth(q)',
             i < j
      PROVE  Differ(stack[q][i], stack[q][j])'
  <2>1. CASE j = n + 1
    <3>1. stack'[q][j].rule = 0
      BY <1>2, <1>3, <1>8, <2>1
    <3>2. 0 \notin Answering'
      BY RulesTypes DEF Spares, Answering, Rules
    <3>3. QED
      BY <3>1, <3>2 DEF Differ, Claiming
  <2>2. CASE j = n
    <3>1. i \in 1..Depth(q) /\ i # Depth(q) /\ stack'[q][j] = f
      BY <1>2, <1>3, <1>8, <2>2
    <3>2. QED
      BY <1>8, <3>1 DEF Differ
  <2>3. CASE j \in 1..n /\ j # n
    <3>1. i \in 1..n /\ i # n
      BY <1>3, <1>8, <2>3
    <3>2. PICK g, h : g = stack[q][i] /\ h = stack[q][j]
      OBVIOUS
    <3>3. Differ(g, h)
      BY <1>1, <1>2, <1>8, <2>3, <3>1, <3>2 DEF StackRuns
    <3>4. /\ Claiming(g)' <=> Claiming(g)
          /\ Claiming(h)' <=> Claiming(h)
          /\ events'[g.event].aggregate = events[g.event].aggregate
          /\ events'[h.event].aggregate = events[h.event].aggregate
          /\ g = stack'[q][i] /\ h = stack'[q][j]
      BY <1>5, <2>3, <3>1, <3>2
    <3>5. Differ(g, h)'
      BY <3>3, <3>4 DEF Differ
    <3>6. QED
      BY <3>4, <3>5
  <2>4. QED
    BY <1>3, <1>8, <2>1, <2>2, <2>3
<1>9. QED
  BY <1>4, <1>6, <1>7, <1>8 DEF StackRuns

\* What differed from the top of q differs from it when it goes on with its
\* rule.
LEMMA StaysDifferent ==
  ASSUME EventsTypeOK, StacksFit, CascadeInv, NEW q \in Requests, Spares(q),
         stack[q] # <<>>, CooldownsGuard, Claiming(Top(q)),
         NEW f, f.event = Top(q).event, f.rule = Top(q).rule,
         NEW i \in 1..Depth(q), i # Depth(q), stack'[q][i] = stack[q][i]
  PROVE  Differ(stack[q][i], f)'
<1>1. /\ Depth(q) \in Nat /\ Depth(q) \in 1..Depth(q) /\ StackRuns(q)
      /\ Top(q) = stack[q][Depth(q)] /\ i < Depth(q)
      /\ Top(q).event \in 1..Len(events)
  BY StackTypes, RuleOfTop DEF CascadeInv, Top, Depth
<1>2. PICK g : g = stack[q][i]
  OBVIOUS
<1>3. Differ(g, Top(q)) /\ FrameRuns(g)
  BY <1>1, <1>2 DEF StackRuns
<1>4. /\ Claiming(g)' <=> Claiming(g)
      /\ events'[g.event].aggregate = events[g.event].aggregate
  BY <1>2, <1>3, FrameSpared
<1>5. events'[f.event].aggregate = events[Top(q).event].aggregate
  BY <1>1 DEF Spares
<1>6. Differ(g, f)'
  BY <1>3, <1>4, <1>5 DEF Differ
<1>7. g = stack'[q][i]
  BY <1>2
<1>8. QED
  BY <1>6, <1>7

\* A rule that is evaluated outside its cooldown holds none that a frame below
\* holds.
LEMMA EvaluateDiffers ==
  ASSUME EventsTypeOK, StacksFit, CascadeInv, NEW q \in Requests, Spares(q),
         stack[q] # <<>>, CooldownsGuard, UNCHANGED <<events, logs, recent>>,
         NEW f, f.event = Top(q).event, f.rule \in Answering,
         ~CooldownActive(f.rule, f.event),
         NEW i \in 1..Depth(q), i # Depth(q), stack'[q][i] = stack[q][i]
  PROVE  Differ(stack[q][i], f)'
<1>1. f.rule \in setting.cooling \cap setting.byAggregate /\ ~setting.slow
  BY DEF CooldownsGuard
<1>2. PICK g : g = stack[q][i]
  OBVIOUS
<1>3. g = stack'[q][i] /\ FrameRuns(g) /\ g.pc \in {"rules", "recording"}
  BY <1>2 DEF CascadeInv, StackRuns, StacksFit
<1>4. Claiming(g)' <=> Claiming(g)
  BY <1>2, <1>3, FrameSpared
<1>5. ASSUME Claiming(g), g.rule = f.rule,
             events[g.event].aggregate = events[f.event].aggregate
      PROVE  FALSE
  <2>1. g.rule \in Rules /\ g.rule # 0 /\ logs[<<g.rule, g.event>>] \in Counted
    BY <1>3, <1>5, RulesTypes DEF Claiming, Answering
  <2>2. PICK j \in 1..Len(recent) : recent[j] = <<g.rule, g.event>>
    BY <1>1, <1>3, <2>1 DEF FrameRuns
  <2>3. j \in DOMAIN recent
    BY RulesTypes
  <2>4. SameKey(recent[j], f.rule, f.event)
    BY <1>1, <1>5, <2>2 DEF SameKey
  <2>5. QED
    BY <1>1, <2>1, <2>2, <2>3, <2>4 DEF CooldownActive
<1>6. Differ(g, f)'
  BY <1>4, <1>5 DEF Differ
<1>7. QED
  BY <1>3, <1>6

\* A step within a frame that writes no log.
LEMMA PassesRun ==
  ASSUME EventsTypeOK, StacksFit, CascadeInv, NEW q \in Requests, Spares(q),
         NEW pc \in Pcs, NEW rule \in 0..MaxRules, Passes(q, pc, rule)
  PROVE  StackRuns(q)'
<1>1. /\ stack[q] # <<>> /\ UNCHANGED <<events, logs, recent, setting>>
      /\ Depth(q)' = Depth(q) /\ Moved(q, pc, rule)
      /\ \A i \in 1..Depth(q) : i # Depth(q) => stack'[q][i] = stack[q][i]
      /\ Depth(q) \in 1..Depth(q)
  BY StackTypes DEF Passes, Moved, Depth
<1>2. PICK f : f = [event |-> Top(q).event, pc |-> pc, rule |-> rule]
  OBVIOUS
<1>3. /\ f.event = Top(q).event /\ f.pc = pc /\ f.rule = rule
      /\ stack'[q][Depth(q)] = f
  BY <1>1, <1>2 DEF Moved
<1>4. /\ FrameRuns(Top(q)) /\ Top(q).pc \in Pcs /\ FrameFits(Top(q))
  BY <1>1, RuleOfTop DEF CascadeInv, StackRuns, Top, Depth
<1>5. CASE /\ rule = Top(q).rule
           /\ pc \in {"rules", "closing", "recording", "rulefailing",
                      "failing"}
  <2>1. FrameRuns(f)'
    BY <1>1, <1>3, <1>4, <1>5 DEF FrameRuns, Rules
  <2>2. Claiming(f)' => Claiming(Top(q))
    BY <1>1, <1>3, <1>5 DEF Claiming, Answering, Rules
  <2>3. CooldownsGuard /\ Claiming(f)' =>
          \A i \in 1..Depth(q) : i # Depth(q) => Differ(stack[q][i], f)'
    BY <1>1, <1>3, <1>5, <2>2, StaysDifferent
  <2>4. QED
    BY <1>1, <1>3, <2>1, <2>3, TopRuns
<1>6. CASE /\ rule \in Left(q) /\ pc \in {"rules", "blocking", "logging"}
           /\ pc = "logging" => ~CooldownActive(rule, Top(q).event)
  <2>1. /\ rule \in Rules /\ rule > Top(q).rule /\ rule \in 1..MaxRules
        /\ setting.listens[rule] = events[Top(q).event].type
    BY <1>6, RulesTypes DEF Left
  <2>2. logs[<<rule, Top(q).event>>] = "NONE"
    BY <1>4, <2>1 DEF FrameFits
  <2>3. FrameRuns(f)'
    BY <1>1, <1>3, <1>6, <2>1, <2>2 DEF FrameRuns, Rules, Counted, Open
  <2>4. Claiming(f)' => f.rule \in Answering /\ pc = "logging"
    BY <1>1, <1>3, <2>2 DEF Claiming, Answering, Rules, Counted, Open
  <2>5. CooldownsGuard /\ Claiming(f)' =>
          \A i \in 1..Depth(q) : i # Depth(q) => Differ(stack[q][i], f)'
    BY <1>1, <1>3, <1>6, <2>4, EvaluateDiffers
  <2>6. QED
    BY <1>1, <1>3, <2>3, <2>5, TopRuns
<1>7. QED
  BY <1>4, <1>5, <1>6 DEF Passes, At, Caught, Pcs

\* A step within a frame that writes the log of its rule.
LEMMA WritesRun ==
  ASSUME EventsTypeOK, StacksFit, CascadeInv, NEW q \in Requests, Spares(q),
         NEW pc \in Pcs, NEW status \in LogStatus, Writes(q, pc, status)
  PROVE  StackRuns(q)'
<1>1. /\ stack[q] # <<>> /\ UNCHANGED <<events, setting>>
      /\ Depth(q)' = Depth(q) /\ Moved(q, pc, Top(q).rule)
      /\ \A i \in 1..Depth(q) : i # Depth(q) => stack'[q][i] = stack[q][i]
      /\ Depth(q) \in 1..Depth(q)
      /\ logs' = [logs EXCEPT ![Log(q)] = status]
  BY StackTypes DEF Writes, Moved, Depth
<1>2. PICK f : f = [event |-> Top(q).event, pc |-> pc, rule |-> Top(q).rule]
  OBVIOUS
<1>3. /\ f.event = Top(q).event /\ f.pc = pc /\ f.rule = Top(q).rule
      /\ stack'[q][Depth(q)] = f
  BY <1>1, <1>2 DEF Moved
<1>4. /\ FrameRuns(Top(q)) /\ FrameFits(Top(q))
      /\ Top(q).rule \in Rules /\ Log(q) \in LogIds
      /\ logs \in [LogIds -> LogStatus] /\ recent \in Seq(LogIds)
      /\ Rules' = Rules /\ Answering' = Answering /\ 0 \notin Rules
  <2>1. FrameRuns(Top(q))
    BY <1>1 DEF CascadeInv, StackRuns, Top, Depth
  <2>2. Top(q).pc \notin {"notifying", "rules", "closing", "failing"}
    BY DEF Writes, At
  <2>3. FrameFits(Top(q)) /\ Top(q).rule \in Rules /\ Log(q) \in LogIds
    BY <1>1, <2>2, RuleOfTop
  <2>4. Rules' = Rules /\ Answering' = Answering
    BY <1>1 DEF Rules, Answering
  <2>5. QED
    BY <2>1, <2>3, <2>4, RulesTypes
<1>5. logs'[Log(q)] = status /\ Log(q) = <<f.rule, f.event>>
  BY <1>1, <1>3, <1>4 DEF Log
<1>6. status \in Counted =>
        \/ /\ At(q, "logging") /\ pc # "announcing"
           /\ recent' = Append(recent, Log(q))
        \/ logs[Log(q)] \in Open /\ UNCHANGED recent
  BY <1>3, <1>4, <1>5 DEF Writes, At, Counted, Open, FrameFits
<1>7. ~setting.slow /\ status \in Counted =>
        \E j \in 1..Len(recent') : recent'[j] = Log(q)
  <2>1. CASE recent' = Append(recent, Log(q))
    <3>1. /\ Len(recent') = Len(recent) + 1 /\ Len(recent) \in Nat
          /\ recent'[Len(recent) + 1] = Log(q)
      BY <1>4, <2>1
    <3>2. QED
      BY <3>1
  <2>2. CASE logs[Log(q)] \in Open /\ UNCHANGED recent
    BY <1>3, <1>4, <1>5, <2>2 DEF FrameRuns, Counted
  <2>3. QED
    BY <1>6, <2>1, <2>2
<1>8. pc = "announcing" /\ setting.does[f.rule] # "nothing" =>
        status = "SUCCEEDED"
  BY <1>3 DEF Writes
<1>9. FrameRuns(f)'
  BY <1>1, <1>3, <1>4, <1>5, <1>7, <1>8 DEF FrameRuns
<1>10. Claiming(f)' => Claiming(Top(q))
  <2>1. pc # "logging"
    BY DEF Writes
  <2>2. QED
    BY <1>3, <1>4, <1>5, <1>6, <2>1 DEF Claiming, At, Counted
<1>11. CooldownsGuard /\ Claiming(f)' =>
         \A i \in 1..Depth(q) : i # Depth(q) => Differ(stack[q][i], f)'
  BY <1>1, <1>3, <1>10, StaysDifferent
<1>12. QED
  BY <1>1, <1>3, <1>9, <1>11, TopRuns

\* A rule that publishes: the frame put upon it is of an event of its own.
LEMMA TellsRun ==
  ASSUME EventsTypeOK, StacksFit, CascadeInv, NEW q \in Requests, Spares(q),
         NEW back \in {"rules", "recording"}, Tells(q, back)
  PROVE  StackRuns(q)'
<1>1. PICK e : e = Len(events) + 1
  OBVIOUS
<1>2. /\ stack[q] # <<>> /\ UNCHANGED <<logs, recent, setting>>
      /\ Pushed(q, back, [event |-> e, rule |-> 0, pc |-> "rules"])
      /\ Depth(q) \in 1..Depth(q)
  BY <1>1, StackTypes DEF Tells
<1>3. PICK f : f = [event |-> Top(q).event, pc |-> back, rule |-> Top(q).rule]
  OBVIOUS
<1>4. /\ f.event = Top(q).event /\ f.pc = back /\ f.rule = Top(q).rule
      /\ stack'[q][Depth(q)] = f /\ Depth(q)' = Depth(q) + 1
      /\ \A i \in 1..Depth(q) : i # Depth(q) => stack'[q][i] = stack[q][i]
      /\ stack'[q][Depth(q) + 1] = [event |-> e, rule |-> 0, pc |-> "rules"]
  BY <1>2, <1>3 DEF Pushed, Depth
<1>5. /\ FrameRuns(Top(q)) /\ FrameFits(Top(q))
      /\ Top(q).rule \in Rules /\ Top(q).event \in 1..Len(events)
      /\ Rules' = Rules /\ Answering' = Answering
  <2>1. FrameRuns(Top(q))
    BY <1>2 DEF CascadeInv, StackRuns, Top, Depth
  <2>2. Top(q).pc \notin {"notifying", "rules", "closing", "failing"}
    BY DEF Tells, At
  <2>3. /\ FrameFits(Top(q)) /\ Top(q).rule \in Rules
        /\ Top(q).event \in 1..Len(events)
    BY <1>2, <2>2, RuleOfTop
  <2>4. Rules' = Rules /\ Answering' = Answering
    BY <1>2 DEF Rules, Answering
  <2>5. QED
    BY <2>1, <2>3, <2>4
<1>6. PICK type \in Types : /\ Born(type, Top(q).rule, Top(q).event)
                            /\ Publishes(q, type)
  BY DEF Tells
<1>7. FrameRuns(f)'
  BY <1>2, <1>4, <1>5 DEF FrameRuns, Spares
<1>8. Claiming(f)' => Claiming(Top(q))
  BY <1>2, <1>4, <1>5 DEF Claiming
<1>9. CooldownsGuard /\ Claiming(f)' =>
        \A i \in 1..Depth(q) : i # Depth(q) => Differ(stack[q][i], f)'
  BY <1>2, <1>4, <1>8, StaysDifferent
<1>10. ChildFits(f, e)'
  <2>1. events'[e].type = type /\ events'[e].aggregate = f.rule
    BY <1>1, <1>4, <1>6 DEF Born
  <2>2. type # "business"
    BY <1>6 DEF Publishes
  <2>3. type = "requested" => logs[<<f.rule, f.event>>] \in Counted
    BY <1>4, <1>5, <1>6 DEF Publishes, At, FrameFits, Counted
  <2>4. type = "succeeded" /\ setting.does[f.rule] # "nothing" =>
          logs[<<f.rule, f.event>>] \in Counted
    BY <1>4, <1>5, <1>6 DEF Publishes, At, FrameRuns, Counted
  <2>5. QED
    BY <1>2, <1>4, <1>5, <2>1, <2>2, <2>3, <2>4 DEF ChildFits
<1>11. /\ stack'[q][Depth(q) + 1].rule = 0
       /\ stack'[q][Depth(q) + 1].pc = "rules"
       /\ stack'[q][Depth(q) + 1].event = e
  BY <1>4
<1>12. QED
  BY <1>2, <1>4, <1>7, <1>9, <1>10, <1>11, TopRuns

\* Every step keeps the frames in order.
LEMMA StepCascades ==
  ASSUME EventsTypeOK, StacksFit, CascadeInv, [EventsNext]_eventsVars
  PROVE  CascadeInv'
<1>1. ASSUME UNCHANGED <<events, logs, stack, setting>>,
             \/ UNCHANGED recent \/ setting.slow
             \/ \A q \in Requests : stack[q] = <<>>
      PROVE  CascadeInv'
  <2>1. /\ Rules' = Rules /\ Answering' = Answering
        /\ CooldownsGuard' <=> CooldownsGuard
        /\ \A q \in Requests : Depth(q)' = Depth(q)
    BY <1>1 DEF Rules, Answering, CooldownsGuard, Depth
  <2>2. CASE \A q \in Requests : stack[q] = <<>>
    <3>1. \A q \in Requests : Depth(q)' = 0
      BY <2>1, <2>2 DEF Depth
    <3>2. QED
      BY <3>1 DEF CascadeInv, StackRuns
  <2>3. CASE UNCHANGED recent \/ setting.slow
    <3>1. \A f : FrameRuns(f) => FrameRuns(f)'
      BY <1>1, <2>1, <2>3 DEF FrameRuns
    <3>2. \A f, d : ChildFits(f, d) => ChildFits(f, d)'
      BY <1>1, <2>1 DEF ChildFits
    <3>3. \A f, g : Differ(f, g) => Differ(f, g)'
      BY <1>1, <2>1 DEF Differ, Claiming
    <3>4. QED
      BY <1>1, <2>1, <3>1, <3>2, <3>3 DEF CascadeInv, StackRuns
  <2>4. QED
    BY <1>1, <2>2, <2>3
<1>2. CASE UNCHANGED eventsVars
  BY <1>1, <1>2 DEF eventsVars
<1>3. CASE Elapse
  BY <1>1, <1>3 DEF Elapse
<1>4. ASSUME NEW q \in Requests, RequestSteps(q)
      PROVE  CascadeInv'
  <2>1. Spares(q) /\ OthersWait(q)
    BY <1>4, StepSpares, StepEvents
  <2>2. ASSUME NEW p \in Requests, p # q
        PROVE  StackRuns(p)'
    <3>1. PICK n : n = Depth(p)
      OBVIOUS
    <3>2. /\ n \in 0..Depth(p) /\ Depth(p)' = n
          /\ \A i \in 1..n : stack'[p][i] = stack[p][i]
      BY <2>1, <2>2, <3>1, StackTypes DEF OthersWait, Depth
    <3>3. QED
      BY <2>1, <2>2, <3>2, FramesSpared
  <2>3. CASE \E pc \in Pcs, rule \in 0..MaxRules : Passes(q, pc, rule)
    BY <2>1, <2>2, <2>3, PassesRun DEF CascadeInv
  <2>4. CASE \E pc \in Pcs, status \in LogStatus : Writes(q, pc, status)
    BY <2>1, <2>2, <2>4, WritesRun DEF CascadeInv
  <2>5. CASE \E back \in {"rules", "recording"} : Tells(q, back)
    BY <2>1, <2>2, <2>5, TellsRun DEF CascadeInv
  <2>6. CASE Ends(q)
    <3>1. PICK n : n = Depth(q) - 1
      OBVIOUS
    <3>2. /\ Popped(q) /\ Depth(q) \in 1..Depth(q) /\ Depth(q) \in Nat
      BY <2>6, StackTypes DEF Ends, Popped
    <3>3. /\ n \in 0..Depth(q) /\ n < Depth(q) /\ Depth(q)' = n
          /\ \A i \in 1..n : stack'[q][i] = stack[q][i]
      BY <3>1, <3>2 DEF Popped, Depth
    <3>4. StackRuns(q)'
      BY <2>1, <3>3, FramesSpared
    <3>5. QED
      BY <2>2, <3>4 DEF CascadeInv
  <2>7. CASE Begins(q)
    <3>1. Depth(q) = 0
      BY <2>7 DEF Begins, Depth
    <3>2. Pushed(q, "rules", [event |-> Len(events) + 1, rule |-> 0,
                              pc |-> "notifying"])
      BY <2>7 DEF Begins
    <3>3. /\ Depth(q)' = 1
          /\ stack'[q][1].rule = 0 /\ stack'[q][1].pc = "notifying"
      BY <3>1, <3>2 DEF Pushed, Depth
    <3>4. StackRuns(q)'
      <4>1. \A i \in 1..Depth(q)' : i = 1
        BY <3>3
      <4>2. FrameRuns(stack[q][1])'
        BY <3>3 DEF FrameRuns
      <4>3. QED
        BY <3>3, <4>1, <4>2 DEF StackRuns
    <3>5. QED
      BY <2>2, <3>4 DEF CascadeInv
  <2>8. CASE Dies(q)
    <3>1. Depth(q)' = 0
      BY <2>8 DEF Dies, Depth
    <3>2. StackRuns(q)'
      BY <3>1 DEF StackRuns
    <3>3. QED
      BY <2>2, <3>2 DEF CascadeInv
  <2>9. QED
    BY <1>4, <2>3, <2>4, <2>5, <2>6, <2>7, <2>8 DEF RequestSteps
<1>5. QED
  BY <1>2, <1>3, <1>4, NextSteps

\* The frames of a stack but the outermost and the two innermost each hold a
\* cooldown, of an answering rule for a rule.
LEMMA FramesClaim ==
  ASSUME EventsTypeOK, StacksFit, CascadeInv, CooldownsGuard,
         NEW q \in Requests, NEW i \in 2..Depth(q) - 2
  PROVE  /\ i \in 1..Depth(q) /\ Claiming(stack[q][i])
         /\ events[stack[q][i].event].aggregate \in Rules
<1>1. Depth(q) \in Nat /\ StackRuns(q)
  BY StackTypes DEF CascadeInv
<1>2. ASSUME NEW k \in 2..Depth(q) - 1
      PROVE  /\ k \in 1..Depth(q) /\ stack[q][k].rule \in Answering
             /\ ChildFits(stack[q][k], stack[q][k + 1].event)
             /\ events[stack[q][k].event].type \in {"requested", "succeeded"}
             /\ events[stack[q][k].event].aggregate \in Rules
  <2>1. PICK j : j = k - 1
    OBVIOUS
  <2>2. /\ j \in 1..Depth(q) /\ j < Depth(q) /\ k = j + 1
        /\ k \in 1..Depth(q) /\ k < Depth(q)
    BY <1>1, <2>1
  <2>3. ChildFits(stack[q][j], stack[q][j + 1].event)
    BY <1>1, <2>2 DEF StackRuns
  <2>4. /\ events[stack[q][k].event].type # "business"
        /\ events[stack[q][k].event].aggregate \in Rules
    BY <2>2, <2>3 DEF ChildFits
  <2>5. ChildFits(stack[q][k], stack[q][k + 1].event) /\ FrameRuns(stack[q][k])
    BY <1>1, <2>2 DEF StackRuns
  <2>6. /\ stack[q][k].rule \in Rules
        /\ setting.listens[stack[q][k].rule] = events[stack[q][k].event].type
    BY <2>5, RulesTypes DEF ChildFits, FrameRuns
  <2>7. stack[q][k].rule \in Answering
    BY <2>4, <2>6 DEF Answering
  <2>8. QED
    BY <2>2, <2>4, <2>5, <2>6, <2>7 DEF CooldownsGuard
<1>3. i \in 2..Depth(q) - 1 /\ i + 1 \in 2..Depth(q) - 1
  BY <1>1
<1>4. /\ stack[q][i].rule \in Answering
      /\ ChildFits(stack[q][i], stack[q][i + 1].event)
      /\ events[stack[q][i + 1].event].type \in {"requested", "succeeded"}
  BY <1>2, <1>3
<1>5. setting.does[stack[q][i].rule] # "nothing"
  BY <1>4 DEF CooldownsGuard
<1>6. Claiming(stack[q][i])
  BY <1>4, <1>5 DEF Claiming, ChildFits
<1>7. QED
  BY <1>2, <1>3, <1>6

\* There are no more cooldowns to hold than that.
LEMMA DepthBounded ==
  ASSUME EventsTypeOK, StacksFit, CascadeInv
  PROVE  CascadeIsBounded
<1> SUFFICES ASSUME CooldownsGuard, NEW q \in Requests
             PROVE  Depth(q) <= Cardinality(Answering) * Cardinality(Rules) + 3
  BY DEF CascadeIsBounded, Depth
<1>1. PICK n \in Nat : n = Depth(q)
  BY StackTypes
<1>2. /\ IsFiniteSet(Rules) /\ IsFiniteSet(Answering)
      /\ Cardinality(Rules) \in Nat /\ Cardinality(Answering) \in Nat
  <2>1. 1 \in Int /\ Len(setting.listens) \in Int
        /\ Rules = 1..Len(setting.listens)
    BY RulesTypes
  <2>2. IsFiniteSet(Rules)
    BY <2>1, FS_Interval
  <2>3. Answering \in SUBSET Rules
    BY DEF Answering
  <2>4. IsFiniteSet(Answering)
    BY <2>2, <2>3, FS_Subset
  <2>5. QED
    BY <2>2, <2>4, FS_CardinalityType
<1>3. PICK m \in Nat : m = Cardinality(Answering) * Cardinality(Rules)
  <2>1. \A x, y \in Nat : x * y \in Nat
    OBVIOUS
  <2>2. QED
    BY <1>2, <2>1
<1>4. PICK K : K = Answering \X Rules
  OBVIOUS
<1>5. IsFiniteSet(K) /\ Cardinality(K) = m
  BY <1>2, <1>3, <1>4, FS_Product
<1>6. PICK I : I = 2..n - 2
  OBVIOUS
<1>7. PICK h : h = [i \in I |-> <<stack[q][i].rule,
                                  events[stack[q][i].event].aggregate>>]
  OBVIOUS
<1>8. \A i \in I : /\ i \in 1..Depth(q) /\ Claiming(stack[q][i])
                   /\ events[stack[q][i].event].aggregate \in Rules
  BY <1>1, <1>6, FramesClaim
<1>9. h \in [I -> K] /\ DOMAIN h = I
  BY <1>4, <1>7, <1>8 DEF Claiming
<1>10. ASSUME NEW i \in I, NEW j \in I, i < j
       PROVE  h[i] # h[j]
  <2>1. Differ(stack[q][i], stack[q][j])
    BY <1>8, <1>10 DEF CascadeInv, StackRuns
  <2>2. QED
    BY <1>7, <1>8, <2>1 DEF Differ
<1>11. \A i, j \in I : h[i] = h[j] => i = j
  <2>1. \A i, j \in I : i < j \/ j < i \/ i = j
    BY <1>1, <1>6
  <2>2. QED
    BY <1>10, <2>1
<1>12. h \in Injection(I, K)
  BY <1>9, <1>11 DEF Injection, IsInjective
<1>13. IsFiniteSet(I) /\ Cardinality(I) <= m
  BY <1>5, <1>12, FS_Injection
<1>14. Cardinality(I) = IF 2 > n - 2 THEN 0 ELSE n - 2 - 2 + 1
  <2>1. 2 \in Int /\ n - 2 \in Int
    BY <1>1
  <2>2. QED
    BY <1>6, <2>1, FS_Interval
<1>15. n <= m + 3
  BY <1>1, <1>3, <1>13, <1>14
<1>16. QED
  BY <1>1, <1>3, <1>15

\* Rules that answer to one another come to an end when each has a cooldown by
\* what the event is about, however many there are and however the requests
\* interleave: no event is handled deeper within others than there are things an
\* answering rule may be set off by (processDomainEvent,
\* TriggerEvaluatorService.evaluate).
THEOREM CascadeEnds == EventsSpec => []CascadeIsBounded
<1> DEFINE Inv == EventsTypeOK /\ StacksFit /\ LogsFit /\ CascadeInv
<1>1. EventsInit => Inv
  <2> SUFFICES ASSUME EventsInit
               PROVE  Inv
    OBVIOUS
  <2>1. EventsTypeOK /\ StacksFit /\ LogsFit
    BY InitTyped
  <2>2. \A q \in Requests : Depth(q) = 0
    BY EmptySeq DEF EventsInit, Depth
  <2>3. CascadeInv
    BY <2>2 DEF CascadeInv, StackRuns
  <2>4. QED
    BY <2>1, <2>3
<1>2. Inv /\ [EventsNext]_eventsVars => Inv'
  BY StepTyped, StepCascades
<1>3. Inv => CascadeIsBounded
  BY DepthBounded
<1>4. QED
  BY <1>1, <1>2, <1>3, PTL DEF EventsSpec

==============================================================================
