--------------------------- MODULE ApprovalsProofs ---------------------------
(***************************************************************************)
(* Theorems about Approvals for any number of steps, users and calls, with *)
(* calls that overlap in any way and handlers that die anywhere.           *)
(***************************************************************************)
EXTENDS Approvals, FiniteSetTheorems, TLAPS

(***************************************************************************)
(* Type correctness                                                        *)
(***************************************************************************)

\* The initial rows and calls have their types.
LEMMA InitTypeOK == Init => TypeOK
  BY ApprovalsAssumption
  DEF Init, TypeOK, IdleCall, Row, RequestStatus, StepStatus, Call, CallPc,
      DecisionType, Creator, Steps, NoStep, MaxCrashes

\* FirstPending returns one of the steps it is given, or NoStep.
LEMMA FirstPendingType ==
  ASSUME NEW S \in SUBSET Steps
  PROVE  FirstPending(S) \in Steps \cup {NoStep}
  BY DEF FirstPending

\* What a decision writes has the types of the rows.
LEMMA ApplyType ==
  ASSUME TypeOK, NEW s \in Steps, NEW d \in DecisionType, Apply(s, d)
  PROVE  /\ request' \in Row(RequestStatus)
         /\ steps' \in [Steps -> Row(StepStatus)]
<1>1. ASSUME NEW r \in {"APPROVED", "REJECTED", "CANCELLED"}, Resolve(s, r)
      PROVE  /\ request' \in Row(RequestStatus)
             /\ steps' \in [Steps -> Row(StepStatus)]
  BY <1>1 DEF Resolve, TypeOK, Row, RequestStatus, StepStatus
<1>2. CASE d = "COMMENT"
  BY <1>2 DEF Apply, TypeOK
<1>3. CASE d \in {"REJECT", "SEND_BACK"}
  BY <1>1, <1>3 DEF Apply
<1>4. CASE d = "CANCEL"
  BY <1>1, <1>4 DEF Apply
<1>5. CASE d = "APPROVE" /\ s < N
  <2>1. s + 1 \in Steps /\ s + 1 # s
    BY <1>5, ApprovalsAssumption DEF Steps
  <2>2. /\ steps' = [steps EXCEPT ![s] = [status |-> "APPROVED",
                                         resolvedAt |-> TRUE],
                                 ![s + 1].status = "PENDING"]
        /\ request' = [request EXCEPT !.status = "IN_PROGRESS"]
    BY <1>5 DEF Apply, Advance
  <2>3. request' \in Row(RequestStatus)
    BY <2>2 DEF TypeOK, Row, RequestStatus
  <2>4. [steps EXCEPT ![s] = [status |-> "APPROVED", resolvedAt |-> TRUE]]
          \in [Steps -> Row(StepStatus)]
    BY DEF TypeOK, Row, StepStatus
  <2>5. steps' \in [Steps -> Row(StepStatus)]
    BY <2>1, <2>2, <2>4 DEF Row, StepStatus
  <2>6. QED
    BY <2>3, <2>5
<1>6. CASE d = "APPROVE" /\ ~(s < N)
  BY <1>1, <1>6 DEF Apply, Advance
<1>7. QED
  BY <1>2, <1>3, <1>4, <1>5, <1>6 DEF DecisionType

\* Every step of the specification preserves the types.
LEMMA StepTypeOK == TypeOK /\ [Next]_vars => TypeOK'
<1> SUFFICES ASSUME TypeOK, [Next]_vars PROVE TypeOK'
  OBVIOUS
<1> USE ApprovalsAssumption DEF TypeOK, MaxCrashes
<1>1. CASE CreateRequest
  BY <1>1 DEF CreateRequest, Row, RequestStatus, StepStatus, Creator
<1>2. CASE LoadRequest
  BY <1>2, FirstPendingType DEF LoadRequest, Creator
<1>3. CASE AnnounceRequest
  BY <1>3 DEF AnnounceRequest, Creator
<1>4. ASSUME NEW c \in Calls, NEW s \in Steps, NEW u \in Users,
             NEW d \in DecisionType, ReadStep(c, s, u, d)
      PROVE  TypeOK'
  BY <1>4 DEF ReadStep, Call, CallPc
<1>5. ASSUME NEW c \in Calls, Continue(c)
      PROVE  TypeOK'
  <2>1. CASE UserFound(c)
    BY <2>1 DEF UserFound, Call, CallPc
  <2>2. CASE UserMissing(c)
    BY <2>2 DEF UserMissing, Call, CallPc
  <2>3. CASE Commit(c)
    <3>1. call[c].step \in Steps /\ call[c].decision \in DecisionType
      BY DEF Call
    <3>2. /\ request' \in Row(RequestStatus)
          /\ steps' \in [Steps -> Row(StepStatus)]
      BY <2>3, <3>1, ApplyType DEF Commit
    <3>3. QED
      BY <2>3, <3>2 DEF Commit, Call, CallPc
  <2>4. CASE ReadNextPending(c)
    BY <2>4, FirstPendingType DEF ReadNextPending, Call, CallPc
  <2>5. CASE PublishAssigned(c)
    BY <2>5 DEF PublishAssigned, Call, CallPc
  <2>6. QED
    BY <1>5, <2>1, <2>2, <2>3, <2>4, <2>5 DEF Continue
<1>6. CASE Crash
  BY <1>6 DEF Crash, Call, CallPc, Creator
<1>7. CASE UNCHANGED vars
  BY <1>7 DEF vars
<1>8. QED
  BY <1>1, <1>2, <1>3, <1>4, <1>5, <1>6, <1>7 DEF Next

\* The rows and the handlers' local states always have their types.
THEOREM TypeCorrect == Spec => []TypeOK
  BY InitTypeOK, StepTypeOK, PTL DEF Spec

(***************************************************************************)
(* NeverStranded is inductive: the only branch that takes the PENDING      *)
(* status away from a step of an open request gives it to the next step.   *)
(***************************************************************************)

\* An open request has a pending step, whatever calls overlap or die.
THEOREM OpenIsPending == Spec => []NeverStranded
<1>1. Init => NeverStranded
  BY DEF Init, NeverStranded
<1>2. TypeOK /\ NeverStranded /\ [Next]_vars => NeverStranded'
  <2> SUFFICES ASSUME TypeOK, NeverStranded, [Next]_vars
               PROVE  NeverStranded'
    OBVIOUS
  <2>1. CASE CreateRequest
    <3>1. 1 \in Steps
      BY ApprovalsAssumption DEF Steps
    <3>2. steps'[1].status = "PENDING"
      BY <2>1, <3>1 DEF CreateRequest
    <3>3. QED
      BY <3>1, <3>2 DEF NeverStranded
  <2>2. ASSUME NEW c \in Calls, Commit(c)
        PROVE  NeverStranded'
    <3> DEFINE s == call[c].step
    <3>1. s \in Steps
      BY DEF TypeOK, Call
    <3>2. CASE call[c].decision = "APPROVE" /\ s < N
      <4>1. s + 1 \in Steps /\ s + 1 # s
        BY <3>1, <3>2, ApprovalsAssumption DEF Steps
      <4>2. steps' = [steps EXCEPT ![s] = [status |-> "APPROVED",
                                           resolvedAt |-> TRUE],
                                   ![s + 1].status = "PENDING"]
        BY <2>2, <3>2 DEF Commit, Apply, Advance
      <4>3. steps'[s + 1].status = "PENDING"
        BY <4>1, <4>2 DEF TypeOK, Row
      <4>4. QED
        BY <4>1, <4>3 DEF NeverStranded
    <3>3. CASE call[c].decision = "COMMENT"
      BY <2>2, <3>3 DEF Commit, Apply, NeverStranded
    <3>4. CASE ~(call[c].decision = "APPROVE" /\ s < N)
               /\ call[c].decision # "COMMENT"
      <4>1. request'.status # "IN_PROGRESS"
        BY <2>2, <3>4 DEF Commit, Apply, Advance, Resolve
      <4>2. QED
        BY <4>1 DEF NeverStranded
    <3>5. QED
      BY <3>2, <3>3, <3>4
  <2>3. CASE UNCHANGED <<request, steps>>
    BY <2>3 DEF NeverStranded
  <2>4. QED
    BY <2>1, <2>2, <2>3
    DEF Next, Continue, LoadRequest, AnnounceRequest, ReadStep, UserFound,
        UserMissing, ReadNextPending, PublishAssigned, Crash, vars
<1>3. QED
  BY <1>1, <1>2, TypeCorrect, PTL DEF Spec

(***************************************************************************)
(* The inductive invariant behind ApprovedByAll.  A call keeps, across its *)
(* awaits, a step that was PENDING when it was read, so what is known of   *)
(* that step has to be remembered with the call: every earlier step has    *)
(* been approved.  Approvals never disappear, hence the knowledge cannot   *)
(* become stale even though the status it came from can.                   *)
(***************************************************************************)

\* Every step before s carries an approval.
ApprovedBefore(s) == \A t \in 1 .. s - 1 : HasApproval(t)

ReachedInOrder ==
  \A s \in Steps : steps[s].status # "SKIPPED" => ApprovedBefore(s)

CallsReachedInOrder ==
  \A c \in Calls : InFlight(c) =>
    /\ call[c].actor \in Approvers[call[c].step]
    /\ ApprovedBefore(call[c].step)

DecidedCallsStarted == \A c \in decisions : call[c].pc # "idle"

OrderInv ==
  ReachedInOrder /\ CallsReachedInOrder /\ DecidedCallsStarted /\ ApprovedByAll

\* An approval that has been recorded stays.
LEMMA ApprovalsStay ==
  ASSUME TypeOK, DecidedCallsStarted, [Next]_vars, NEW s, HasApproval(s)
  PROVE  HasApproval(s)'
<1>1. PICK c \in decisions : /\ call[c].step = s
                             /\ call[c].decision = "APPROVE"
                             /\ call[c].actor \in Approvers[s]
  BY DEF HasApproval
<1>2. c \in Calls /\ call[c].pc # "idle"
  BY <1>1 DEF TypeOK, DecidedCallsStarted
<1>3. c \in decisions'
  BY <1>1 DEF Next, Continue, CreateRequest, LoadRequest, AnnounceRequest,
      ReadStep, UserFound, UserMissing, Commit, ReadNextPending,
      PublishAssigned, Crash, vars
<1>4. /\ call'[c].step = call[c].step
      /\ call'[c].decision = call[c].decision
      /\ call'[c].actor = call[c].actor
  <2>1. ASSUME NEW e \in Calls, Continue(e)
        PROVE  /\ call'[c].step = call[c].step
               /\ call'[c].decision = call[c].decision
               /\ call'[c].actor = call[c].actor
    BY <1>2, <2>1 DEF Continue, UserFound, UserMissing, Commit,
        ReadNextPending, PublishAssigned, TypeOK, Call
  <2>2. QED
    BY <1>2, <2>1 DEF Next, CreateRequest, LoadRequest, AnnounceRequest,
        ReadStep, Crash, vars, TypeOK, Call
<1>5. QED
  BY <1>1, <1>3, <1>4 DEF HasApproval

\* What was approved before a step stays approved before it.
LEMMA ApprovedBeforeStays ==
  ASSUME TypeOK, DecidedCallsStarted, [Next]_vars, NEW s, ApprovedBefore(s)
  PROVE  ApprovedBefore(s)'
  BY ApprovalsStay DEF ApprovedBefore

\* Every step of the specification preserves OrderInv.
LEMMA StepOrderInv == TypeOK /\ OrderInv /\ [Next]_vars => OrderInv'
<1> SUFFICES ASSUME TypeOK, OrderInv, [Next]_vars PROVE OrderInv'
  OBVIOUS
<1> USE DEF OrderInv
<1>1. ASSUME UNCHANGED <<request, steps, decisions>>,
             \A c \in Calls :
               /\ InFlight(c)' => InFlight(c) /\ call'[c].step = call[c].step
                                             /\ call'[c].actor = call[c].actor
               /\ call[c].pc # "idle" => call'[c].pc # "idle"
      PROVE  OrderInv'
  <2>1. ReachedInOrder'
    BY <1>1, ApprovedBeforeStays DEF ReachedInOrder
  <2>2. CallsReachedInOrder'
    BY <1>1, ApprovedBeforeStays DEF CallsReachedInOrder
  <2>3. DecidedCallsStarted'
    BY <1>1 DEF DecidedCallsStarted, TypeOK
  <2>4. ApprovedByAll'
    BY <1>1, ApprovalsStay DEF ApprovedByAll
  <2>5. QED
    BY <2>1, <2>2, <2>3, <2>4
<1>2. CASE CreateRequest
  <2>1. ReachedInOrder'
    <3> SUFFICES ASSUME NEW s \in Steps, steps'[s].status # "SKIPPED"
                 PROVE  ApprovedBefore(s)'
      BY DEF ReachedInOrder
    <3>1. s = 1
      BY <1>2 DEF CreateRequest
    <3>2. QED
      BY <3>1 DEF ApprovedBefore
  <2>2. CallsReachedInOrder'
    BY <1>2, ApprovedBeforeStays
    DEF CreateRequest, CallsReachedInOrder, InFlight
  <2>3. DecidedCallsStarted' /\ ApprovedByAll'
    BY <1>2 DEF CreateRequest, DecidedCallsStarted, ApprovedByAll
  <2>4. QED
    BY <2>1, <2>2, <2>3
<1>3. CASE LoadRequest \/ AnnounceRequest \/ UNCHANGED vars
  BY <1>1, <1>3 DEF LoadRequest, AnnounceRequest, vars, InFlight
<1>4. CASE Crash
  BY <1>1, <1>4 DEF Crash, InFlight, TypeOK, Call
<1>5. ASSUME NEW c \in Calls, NEW s \in Steps, NEW u \in Users,
             NEW d \in DecisionType, ReadStep(c, s, u, d)
      PROVE  OrderInv'
  <2>1. ApprovedBefore(s)
    BY <1>5 DEF ReadStep, ReachedInOrder
  <2>2. ReachedInOrder'
    BY <1>5, ApprovedBeforeStays DEF ReadStep, ReachedInOrder
  <2>3. ASSUME NEW e \in Calls, InFlight(e)'
        PROVE  (/\ call[e].actor \in Approvers[call[e].step]
                /\ ApprovedBefore(call[e].step))'
    <3>1. CASE e = c
      <4>1. call'[e].step = s /\ call'[e].actor = u /\ u \in Approvers[s]
        BY <1>5, <3>1 DEF ReadStep, TypeOK
      <4>2. QED
        BY <2>1, <4>1, ApprovedBeforeStays
    <3>2. CASE e # c
      <4>1. call'[e] = call[e] /\ InFlight(e)
        BY <1>5, <2>3, <3>2 DEF ReadStep, InFlight, TypeOK
      <4>2. QED
        BY <4>1, ApprovedBeforeStays DEF CallsReachedInOrder
    <3>3. QED
      BY <3>1, <3>2
  <2>4. CallsReachedInOrder'
    BY <2>3 DEF CallsReachedInOrder
  <2>5. DecidedCallsStarted'
    BY <1>5 DEF ReadStep, DecidedCallsStarted, TypeOK
  <2>6. ApprovedByAll'
    BY <1>5, ApprovalsStay DEF ReadStep, ApprovedByAll
  <2>7. QED
    BY <2>2, <2>4, <2>5, <2>6
<1>6. ASSUME NEW c \in Calls,
             UserFound(c) \/ UserMissing(c) \/ ReadNextPending(c)
               \/ PublishAssigned(c)
      PROVE  OrderInv'
  BY <1>1, <1>6 DEF UserFound, UserMissing, ReadNextPending, PublishAssigned,
      InFlight, TypeOK, Call
<1>7. ASSUME NEW c \in Calls, Commit(c)
      PROVE  OrderInv'
  <2>0. PICK s \in Steps : s = call[c].step
    BY DEF TypeOK, Call
  <2>1. ApprovedBefore(s) /\ call[c].actor \in Approvers[s]
    BY <1>7, <2>0 DEF Commit, InFlight, CallsReachedInOrder, TypeOK, Call
  <2>2. /\ c \in decisions' /\ decisions' = decisions \cup {c}
        /\ \A e \in Calls : /\ call'[e].step = call[e].step
                            /\ call'[e].actor = call[e].actor
                            /\ call'[e].decision = call[e].decision
                            /\ InFlight(e)' => InFlight(e)
                            /\ call[e].pc # "idle" => call'[e].pc # "idle"
        /\ call'[c].pc # "idle"
    BY <1>7 DEF Commit, TypeOK, Call, InFlight
  <2>3. CallsReachedInOrder'
    BY <2>2, ApprovedBeforeStays DEF CallsReachedInOrder
  <2>4. DecidedCallsStarted'
    BY <2>2 DEF DecidedCallsStarted, TypeOK
  <2>5. ApprovedBefore(s)'
    BY <2>1, ApprovedBeforeStays
  <2>6. call[c].decision = "APPROVE" => HasApproval(s)'
    BY <2>0, <2>1, <2>2 DEF HasApproval
  <2>7. ASSUME NEW r \in {"APPROVED", "REJECTED", "CANCELLED"}, Resolve(s, r),
               r = "APPROVED" => s = N /\ call[c].decision = "APPROVE"
        PROVE  ReachedInOrder' /\ ApprovedByAll'
    <3>1. ReachedInOrder'
      BY <2>5, <2>7, ApprovedBeforeStays
      DEF Resolve, ReachedInOrder, TypeOK
    <3>2. ApprovedByAll'
      <4> SUFFICES ASSUME request'.status = "APPROVED", NEW t \in Steps
                   PROVE  HasApproval(t)'
        BY DEF ApprovedByAll
      <4>1. s = N /\ HasApproval(s)'
        BY <2>6, <2>7 DEF Resolve
      <4>2. t = N \/ t \in 1 .. N - 1
        BY ApprovalsAssumption DEF Steps
      <4>3. QED
        BY <4>1, <4>2, <2>5 DEF ApprovedBefore
    <3>3. QED
      BY <3>1, <3>2
  <2>8. CASE call[c].decision = "COMMENT"
    <3>1. UNCHANGED <<request, steps>>
      BY <1>7, <2>0, <2>8 DEF Commit, Apply
    <3>2. ReachedInOrder' /\ ApprovedByAll'
      BY <3>1, ApprovedBeforeStays, ApprovalsStay
      DEF ReachedInOrder, ApprovedByAll
    <3>3. QED
      BY <2>3, <2>4, <3>2
  <2>9. CASE call[c].decision = "APPROVE" /\ s < N
    <3>1. s + 1 \in Steps /\ s + 1 # s
      BY <2>9, ApprovalsAssumption DEF Steps
    <3>2. /\ steps' = [steps EXCEPT ![s] = [status |-> "APPROVED",
                                           resolvedAt |-> TRUE],
                                   ![s + 1].status = "PENDING"]
          /\ request'.status # "APPROVED"
      BY <1>7, <2>0, <2>9 DEF Commit, Apply, Advance, TypeOK, Row
    <3>3. ApprovedBefore(s + 1)'
      <4>1. \A t \in 1 .. (s + 1) - 1 : t = s \/ t \in 1 .. s - 1
        BY ApprovalsAssumption DEF Steps
      <4>2. \A t \in 1 .. s - 1 : HasApproval(t)'
        BY <2>5 DEF ApprovedBefore
      <4>3. \A t \in 1 .. (s + 1) - 1 : HasApproval(t)'
        BY <4>1, <4>2, <2>6, <2>9
      <4>4. QED
        BY <4>3 DEF ApprovedBefore
    <3>4. ASSUME NEW t \in Steps, steps'[t].status # "SKIPPED"
          PROVE  ApprovedBefore(t)'
      <4>1. CASE t = s
        BY <4>1, <2>5
      <4>2. CASE t = s + 1
        BY <4>2, <3>3
      <4>3. CASE t # s /\ t # s + 1
        <5>1. steps'[t] = steps[t]
          BY <3>2, <4>3 DEF TypeOK
        <5>2. QED
          BY <3>4, <5>1, ApprovedBeforeStays DEF ReachedInOrder
      <4>4. QED
        BY <4>1, <4>2, <4>3
    <3>5. ReachedInOrder' /\ ApprovedByAll'
      BY <3>2, <3>4 DEF ReachedInOrder, ApprovedByAll
    <3>6. QED
      BY <2>3, <2>4, <3>5
  <2>10. CASE ~(call[c].decision = "APPROVE" /\ s < N)
              /\ call[c].decision # "COMMENT"
    <3>1. PICK r \in {"APPROVED", "REJECTED", "CANCELLED"} :
            /\ Resolve(s, r)
            /\ r = "APPROVED" => s = N /\ call[c].decision = "APPROVE"
      BY <1>7, <2>0, <2>10, ApprovalsAssumption
      DEF Commit, Apply, Advance, Steps
    <3>2. QED
      BY <2>3, <2>4, <2>7, <3>1
  <2>11. QED
    BY <2>8, <2>9, <2>10
<1>8. QED
  BY <1>2, <1>3, <1>4, <1>5, <1>6, <1>7 DEF Next, Continue

\* Whatever calls overlap or die, no step of an approved request was jumped
\* over.
THEOREM ApprovedInOrder == Spec => []ApprovedByAll
<1>1. Init => OrderInv
  BY DEF Init, OrderInv, ReachedInOrder, CallsReachedInOrder, InFlight,
      IdleCall, DecidedCallsStarted, ApprovedByAll
<1>2. OrderInv => ApprovedByAll
  BY DEF OrderInv
<1>3. QED
  BY <1>1, <1>2, StepOrderInv, TypeCorrect, PTL DEF Spec

(***************************************************************************)
(* Calls that do not overlap.  Then the rows are always those of a chain   *)
(* (SerialRows), and a call between its read and its commit is the only    *)
(* one there, with its step still PENDING: what it has read is what is     *)
(* true when it writes.                                                    *)
(***************************************************************************)

\* The steps before k are approved, those after it wait.
Around(k) ==
  /\ \A s \in Steps :
       s < k => steps[s] = [status |-> "APPROVED", resolvedAt |-> TRUE]
  /\ \A s \in Steps :
       s > k => steps[s] = [status |-> "SKIPPED", resolvedAt |-> FALSE]

\* Nothing is written yet.
RowsOfNone ==
  /\ request = [status |-> "NONE", resolvedAt |-> FALSE]
  /\ \A s \in Steps : steps[s] = [status |-> "SKIPPED", resolvedAt |-> FALSE]

\* Step k is waited for.
RowsOfOpen(k) ==
  /\ request = [status |-> "IN_PROGRESS", resolvedAt |-> FALSE]
  /\ steps[k] = [status |-> "PENDING", resolvedAt |-> FALSE]
  /\ Around(k)

\* Step k has refused.
RowsOfRefused(k) ==
  \E r \in {"REJECTED", "CANCELLED"} :
    /\ request = [status |-> r, resolvedAt |-> TRUE]
    /\ steps[k] = [status |-> r, resolvedAt |-> TRUE]
    /\ Around(k)

\* Every step is approved.
RowsOfApproved ==
  /\ request = [status |-> "APPROVED", resolvedAt |-> TRUE]
  /\ \A s \in Steps : steps[s] = [status |-> "APPROVED", resolvedAt |-> TRUE]

SerialRows ==
  \/ RowsOfNone
  \/ \E k \in Steps : RowsOfOpen(k)
  \/ \E k \in Steps : RowsOfRefused(k)
  \/ RowsOfApproved

SerialInv ==
  ~Overlap =>
    /\ SerialRows
    /\ creator.pc = "idle" => RowsOfNone
    /\ \A c, d \in Calls : InFlight(c) /\ InFlight(d) => c = d
    /\ \A c \in Calls : InFlight(c) =>
         /\ request.status = "IN_PROGRESS"
         /\ steps[call[c].step].status = "PENDING"

\* What a commit does to the rows of an open request, its step being the one
\* that is waited for: nothing, a refusal, or an approval.
LEMMA SerialCommit ==
  ASSUME TypeOK, SerialInv, ~Overlap, NEW c \in Calls, Commit(c)
  PROVE  \E k \in Steps :
           /\ call[c].step = k
           /\ RowsOfOpen(k)
           /\ \/ call[c].decision # "APPROVE" /\ UNCHANGED <<request, steps>>
              \/ call[c].decision # "APPROVE" /\ RowsOfRefused(k)'
              \/ k < N /\ RowsOfOpen(k + 1)'
              \/ k = N /\ RowsOfApproved'
<1>0. /\ call[c].step \in Steps /\ call[c].decision \in DecisionType
      /\ request.status = "IN_PROGRESS"
      /\ steps[call[c].step].status = "PENDING"
  BY DEF TypeOK, Call, SerialInv, Commit, InFlight
<1>1. PICK k \in Steps : RowsOfOpen(k)
  BY <1>0 DEF SerialInv, SerialRows, RowsOfNone, RowsOfRefused, RowsOfApproved
<1>2. PICK s \in Steps : s = call[c].step
  BY <1>0
<1>3. s = k
  <2>1. \A t \in Steps : t < k \/ t = k \/ t > k
    BY ApprovalsAssumption DEF Steps
  <2>2. \A t \in Steps : t # k => steps[t].status # "PENDING"
    BY <1>1, <2>1 DEF RowsOfOpen, Around
  <2> QED
    BY <1>0, <1>2, <2>2
<1>4. steps \in [Steps -> Row(StepStatus)] /\ request \in Row(RequestStatus)
  BY DEF TypeOK
<1>5. CASE call[c].decision = "COMMENT"
  BY <1>1, <1>2, <1>3, <1>5 DEF Commit, Apply
<1>6. ASSUME NEW r \in {"REJECTED", "CANCELLED"}, Resolve(k, r)
      PROVE  RowsOfRefused(k)'
  <2>1. /\ steps'[k] = [status |-> r, resolvedAt |-> TRUE]
        /\ \A t \in Steps : t # k => steps'[t] = steps[t]
        /\ request' = [status |-> r, resolvedAt |-> TRUE]
    BY <1>4, <1>6 DEF Resolve
  <2>2. \A t \in Steps : (t < k => t # k) /\ (t > k => t # k)
    BY ApprovalsAssumption DEF Steps
  <2> QED
    BY <1>1, <2>1, <2>2 DEF RowsOfRefused, RowsOfOpen, Around
<1>7. CASE call[c].decision \in {"REJECT", "SEND_BACK", "CANCEL"}
  <2>1. \E r \in {"REJECTED", "CANCELLED"} : Resolve(k, r)
    BY <1>2, <1>3, <1>7 DEF Commit, Apply
  <2> QED
    BY <1>1, <1>2, <1>3, <1>6, <1>7, <2>1
<1>8. CASE call[c].decision = "APPROVE" /\ k < N
  <2>1. k + 1 \in Steps /\ k + 1 # k
    BY <1>8, ApprovalsAssumption DEF Steps
  <2>2. /\ steps' = [steps EXCEPT ![k] = [status |-> "APPROVED",
                                         resolvedAt |-> TRUE],
                                 ![k + 1].status = "PENDING"]
        /\ request' = [request EXCEPT !.status = "IN_PROGRESS"]
    BY <1>2, <1>3, <1>8 DEF Commit, Apply, Advance
  <2>3. steps[k + 1] = [status |-> "SKIPPED", resolvedAt |-> FALSE]
    BY <1>1, <2>1, ApprovalsAssumption DEF RowsOfOpen, Around, Steps
  <2>4. /\ steps'[k] = [status |-> "APPROVED", resolvedAt |-> TRUE]
        /\ steps'[k + 1] = [status |-> "PENDING", resolvedAt |-> FALSE]
        /\ \A t \in Steps : t # k /\ t # k + 1 => steps'[t] = steps[t]
    <3> DEFINE mid == [steps EXCEPT ![k] = [status |-> "APPROVED",
                                            resolvedAt |-> TRUE]]
    <3>1. /\ mid \in [Steps -> Row(StepStatus)]
          /\ mid[k] = [status |-> "APPROVED", resolvedAt |-> TRUE]
          /\ mid[k + 1] = [status |-> "SKIPPED", resolvedAt |-> FALSE]
          /\ \A t \in Steps : t # k => mid[t] = steps[t]
      BY <1>4, <2>1, <2>3 DEF Row, StepStatus
    <3>2. steps' = [mid EXCEPT ![k + 1].status = "PENDING"]
      BY <2>2
    <3> HIDE DEF mid
    <3>3. /\ steps'[k] = mid[k]
          /\ steps'[k + 1] \in Row(StepStatus)
          /\ steps'[k + 1].status = "PENDING"
          /\ steps'[k + 1].resolvedAt = mid[k + 1].resolvedAt
          /\ \A t \in Steps : t # k + 1 => steps'[t] = mid[t]
      BY <2>1, <3>1, <3>2 DEF Row, StepStatus
    <3>4. \A row \in Row(StepStatus) :
            row = [status |-> row.status, resolvedAt |-> row.resolvedAt]
      BY DEF Row
    <3>5. steps'[k + 1].resolvedAt = FALSE
      BY <3>1, <3>3
    <3>6. steps'[k + 1] = [status |-> "PENDING", resolvedAt |-> FALSE]
      BY <3>3, <3>4, <3>5
    <3>7. steps'[k] = [status |-> "APPROVED", resolvedAt |-> TRUE]
      BY <3>1, <3>3
    <3>8. \A t \in Steps : t # k /\ t # k + 1 => steps'[t] = steps[t]
      BY <3>1, <3>3
    <3> QED
      BY <3>6, <3>7, <3>8
  <2>5. request' = [status |-> "IN_PROGRESS", resolvedAt |-> FALSE]
    BY <1>1, <2>2 DEF RowsOfOpen
  <2>6. \A t \in Steps :
          /\ t < k + 1 => t < k \/ t = k
          /\ t < k => t # k /\ t # k + 1
          /\ t > k + 1 => t > k /\ t # k /\ t # k + 1
    BY ApprovalsAssumption DEF Steps
  <2>7. Around(k + 1)'
    <3>1. \A t \in Steps : t < k + 1 =>
            steps'[t] = [status |-> "APPROVED", resolvedAt |-> TRUE]
      BY <1>1, <2>4, <2>6 DEF RowsOfOpen, Around
    <3>2. \A t \in Steps : t > k + 1 =>
            steps'[t] = [status |-> "SKIPPED", resolvedAt |-> FALSE]
      BY <1>1, <2>4, <2>6 DEF RowsOfOpen, Around
    <3> QED
      BY <3>1, <3>2 DEF Around
  <2> QED
    BY <1>1, <1>2, <1>3, <1>8, <2>4, <2>5, <2>7 DEF RowsOfOpen
<1>9. CASE call[c].decision = "APPROVE" /\ ~(k < N)
  <2>1. k = N
    BY <1>9, ApprovalsAssumption DEF Steps
  <2>2. Resolve(k, "APPROVED")
    BY <1>2, <1>3, <1>9 DEF Commit, Apply, Advance
  <2>3. /\ steps'[k] = [status |-> "APPROVED", resolvedAt |-> TRUE]
        /\ \A t \in Steps : t # k => steps'[t] = steps[t]
        /\ request' = [status |-> "APPROVED", resolvedAt |-> TRUE]
    BY <1>4, <2>2 DEF Resolve
  <2>4. \A t \in Steps : t # k => t < k
    BY <2>1, ApprovalsAssumption DEF Steps
  <2>5. RowsOfApproved'
    BY <1>1, <2>3, <2>4 DEF RowsOfApproved, RowsOfOpen, Around
  <2> QED
    BY <1>1, <1>2, <1>3, <2>1, <2>5
<1> QED
  BY <1>0, <1>5, <1>7, <1>8, <1>9 DEF DecisionType

\* Creation writes the rows of a chain whose first step is waited for.
LEMMA SerialCreation == CreateRequest => 1 \in Steps /\ RowsOfOpen(1)'
<1> SUFFICES ASSUME CreateRequest PROVE 1 \in Steps /\ RowsOfOpen(1)'
  OBVIOUS
<1>1. 1 \in Steps /\ \A s \in Steps : ~(s < 1) /\ (s > 1 => s # 1)
  BY ApprovalsAssumption DEF Steps
<1> QED
  BY <1>1 DEF CreateRequest, RowsOfOpen, Around

\* The rows stay those of a chain when neither they nor the calls in flight
\* change, but for calls that leave.
LEMMA SerialFrame ==
  ASSUME SerialInv, UNCHANGED <<request, steps, setting>>,
         creator'.pc = "idle" => creator.pc = "idle",
         \A c \in Calls :
           InFlight(c)' => InFlight(c) /\ call'[c].step = call[c].step
  PROVE  SerialInv'
<1> SUFFICES ASSUME ~Overlap PROVE SerialInv'
  BY DEF SerialInv, Overlap
<1>1. SerialRows' <=> SerialRows
  BY DEF SerialRows, RowsOfNone, RowsOfOpen, RowsOfRefused, RowsOfApproved,
         Around
<1>2. RowsOfNone' <=> RowsOfNone
  BY DEF RowsOfNone
<1> QED
  BY <1>1, <1>2 DEF SerialInv

\* Every step of the specification preserves SerialInv.
LEMMA StepSerialInv == TypeOK /\ SerialInv /\ [Next]_vars => SerialInv'
<1> SUFFICES ASSUME TypeOK, SerialInv, [Next]_vars PROVE SerialInv'
  OBVIOUS
<1>0. call \in [Calls -> Call] /\ creator \in Creator
  BY DEF TypeOK
<1>1. CASE CreateRequest
  <2>1. 1 \in Steps /\ RowsOfOpen(1)'
    BY <1>1, SerialCreation
  <2>2. ~Overlap => \A c \in Calls : ~InFlight(c)
    BY <1>1 DEF CreateRequest, SerialInv, RowsOfNone
  <2>3. creator'.pc = "created" /\ call' = call /\ setting' = setting
    BY <1>0, <1>1 DEF CreateRequest, Creator
  <2> QED
    BY <2>1, <2>2, <2>3 DEF SerialInv, SerialRows, Overlap, InFlight
<1>2. CASE LoadRequest \/ AnnounceRequest \/ UNCHANGED vars
  BY <1>0, <1>2, SerialFrame
  DEF LoadRequest, AnnounceRequest, vars, InFlight, Creator
<1>3. CASE Crash
  BY <1>0, <1>3, SerialFrame DEF Crash, InFlight, Call, Creator
<1>4. ASSUME NEW c \in Calls, NEW s \in Steps, NEW u \in Users,
             NEW d \in DecisionType, ReadStep(c, s, u, d)
      PROVE  SerialInv'
  <2> SUFFICES ASSUME ~Overlap PROVE SerialInv'
    BY <1>4 DEF SerialInv, Overlap, ReadStep
  <2>1. /\ UNCHANGED <<request, steps, setting, creator>>
        /\ call'[c].step = s
        /\ \A e \in Calls : e # c => call'[e] = call[e]
        /\ \A e \in Calls : ~InFlight(e)
        /\ steps[s].status = "PENDING"
        /\ request.status \notin Resolved \cup {"NONE"}
    BY <1>0, <1>4 DEF ReadStep
  <2>2. request.status = "IN_PROGRESS"
    BY <2>1 DEF TypeOK, Row, RequestStatus, Resolved
  <2>3. SerialRows' /\ (creator.pc = "idle" => RowsOfNone')
    BY <2>1 DEF SerialInv, SerialRows, RowsOfNone, RowsOfOpen, RowsOfRefused,
                RowsOfApproved, Around
  <2>4. \A e \in Calls : InFlight(e)' => e = c
    BY <2>1 DEF InFlight
  <2> QED
    BY <2>1, <2>2, <2>3, <2>4 DEF SerialInv
<1>5. ASSUME NEW c \in Calls,
             UserFound(c) \/ UserMissing(c) \/ ReadNextPending(c)
               \/ PublishAssigned(c)
      PROVE  SerialInv'
  <2>1. UNCHANGED <<request, steps, setting, creator>>
    BY <1>5 DEF UserFound, UserMissing, ReadNextPending, PublishAssigned
  <2>2. \A e \in Calls :
          InFlight(e)' => InFlight(e) /\ call'[e].step = call[e].step
    BY <1>0, <1>5
    DEF UserFound, UserMissing, ReadNextPending, PublishAssigned, InFlight, Call
  <2> QED
    BY <2>1, <2>2, SerialFrame
<1>6. ASSUME NEW c \in Calls, Commit(c)
      PROVE  SerialInv'
  <2> SUFFICES ASSUME ~Overlap PROVE SerialInv'
    BY <1>6 DEF SerialInv, Overlap, Commit
  <2>1. PICK k \in Steps :
          /\ RowsOfOpen(k)
          /\ \/ UNCHANGED <<request, steps>>
             \/ RowsOfRefused(k)'
             \/ k < N /\ RowsOfOpen(k + 1)'
             \/ k = N /\ RowsOfApproved'
    BY <1>6, SerialCommit
  <2>2. \A e \in Calls : ~InFlight(e)'
    BY <1>0, <1>6 DEF Commit, InFlight, SerialInv
  <2>3. creator.pc # "idle" /\ creator' = creator
    BY <1>6, <2>1 DEF Commit, SerialInv, RowsOfNone, RowsOfOpen
  <2>4. SerialRows'
    <3>1. CASE UNCHANGED <<request, steps>>
      BY <2>1, <3>1 DEF SerialRows, RowsOfOpen, Around
    <3>2. CASE k < N /\ RowsOfOpen(k + 1)'
      <4>1. k + 1 \in Steps
        BY <3>2, ApprovalsAssumption DEF Steps
      <4> QED
        BY <3>2, <4>1 DEF SerialRows
    <3> QED
      BY <2>1, <3>1, <3>2 DEF SerialRows
  <2> QED
    BY <2>2, <2>3, <2>4 DEF SerialInv
<1>7. QED
  BY <1>1, <1>2, <1>3, <1>4, <1>5, <1>6 DEF Next, Continue

\* Before anything is written there is nothing but idle calls.
LEMMA InitSerialInv == Init => SerialInv
  BY DEF Init, SerialInv, SerialRows, RowsOfNone, InFlight, IdleCall

\* On the rows of a chain FirstPending finds the step that is waited for.
LEMMA FirstPendingFound ==
  ASSUME NEW k \in Steps, RowsOfOpen(k), NEW S \in SUBSET Steps, k \in S
  PROVE  FirstPending(S) = k
<1>1. \A t \in Steps : t <= t /\ (t < k \/ t = k \/ t > k)
  BY ApprovalsAssumption DEF Steps
<1>2. \A t \in Steps : steps[t].status = "PENDING" <=> t = k
  BY <1>1 DEF RowsOfOpen, Around
<1>3. {s \in S : steps[s].status = "PENDING"} = {k}
  BY <1>2
<1>4. {s \in {k} : \A t \in {k} : s <= t} = {k}
  BY <1>1
<1> QED
  BY <1>3, <1>4 DEF FirstPending

\* The approvers of the step that is waited for have been told, or a handler
\* that is still on its way will tell them.
AnnouncedInv ==
  ~Overlap /\ crashes = 0 =>
    \A k \in Steps : RowsOfOpen(k) =>
      \/ k \in assignedEvents
      \/ creator.pc = "created"
      \/ creator.pc = "loaded" /\ creator.next = k
      \/ \E c \in Calls :
           /\ call[c].decision = "APPROVE"
           /\ \/ call[c].pc = "committed"
                 /\ steps[call[c].step].status = "APPROVED"
              \/ call[c].pc = "loaded" /\ call[c].next = k

\* Every step of the specification preserves AnnouncedInv.
LEMMA StepAnnouncedInv ==
  TypeOK /\ SerialInv /\ AnnouncedInv /\ [Next]_vars => AnnouncedInv'
<1> SUFFICES ASSUME TypeOK, SerialInv, AnnouncedInv, [Next]_vars,
                    ~Overlap', crashes' = 0,
                    NEW k \in Steps, RowsOfOpen(k)'
             PROVE  \/ k \in assignedEvents'
                    \/ creator'.pc = "created"
                    \/ creator'.pc = "loaded" /\ creator'.next = k
                    \/ \E c \in Calls :
                         /\ call'[c].decision = "APPROVE"
                         /\ \/ /\ call'[c].pc = "committed"
                               /\ steps'[call'[c].step].status = "APPROVED"
                            \/ call'[c].pc = "loaded" /\ call'[c].next = k
  BY DEF AnnouncedInv
<1> DEFINE Told == \/ k \in assignedEvents'
                   \/ creator'.pc = "created"
                   \/ creator'.pc = "loaded" /\ creator'.next = k
                   \/ \E c \in Calls :
                        /\ call'[c].decision = "APPROVE"
                        /\ \/ /\ call'[c].pc = "committed"
                              /\ steps'[call'[c].step].status = "APPROVED"
                           \/ call'[c].pc = "loaded" /\ call'[c].next = k
<1>0. call \in [Calls -> Call] /\ creator \in Creator /\ crashes \in Nat
      /\ k # NoStep
  BY ApprovalsAssumption DEF TypeOK, Steps, NoStep, MaxCrashes
<1>1. ~Crash
  BY <1>0 DEF Crash
<1>2. ~Overlap
  BY <1>1 DEF Next, Continue, CreateRequest, LoadRequest, AnnounceRequest,
      ReadStep, UserFound, UserMissing, Commit, ReadNextPending,
      PublishAssigned, vars, Overlap
<1>3. crashes = 0
  BY <1>1 DEF Next, Continue, CreateRequest, LoadRequest, AnnounceRequest,
      ReadStep, UserFound, UserMissing, Commit, ReadNextPending,
      PublishAssigned, vars
<1>a. ASSUME UNCHANGED <<request, steps>>
      PROVE  /\ RowsOfOpen(k)
             /\ \/ k \in assignedEvents
                \/ creator.pc = "created"
                \/ creator.pc = "loaded" /\ creator.next = k
                \/ \E c \in Calls :
                     /\ call[c].decision = "APPROVE"
                     /\ \/ call[c].pc = "committed"
                           /\ steps[call[c].step].status = "APPROVED"
                        \/ call[c].pc = "loaded" /\ call[c].next = k
  <2>1. RowsOfOpen(k)
    BY <1>a DEF RowsOfOpen, Around
  <2> QED
    BY <1>2, <1>3, <2>1 DEF AnnouncedInv
<1>b. ASSUME UNCHANGED <<request, steps, creator, assignedEvents>>,
             NEW c \in Calls,
             \A e \in Calls : e # c => call'[e] = call[e],
             call[c].pc \notin {"committed", "loaded"} \/ call' = call
      PROVE  Told
  <2>1. CASE \E e \in Calls :
               /\ call[e].decision = "APPROVE"
               /\ \/ call[e].pc = "committed"
                     /\ steps[call[e].step].status = "APPROVED"
                  \/ call[e].pc = "loaded" /\ call[e].next = k
    <3>1. PICK e \in Calls :
            /\ call[e].decision = "APPROVE"
            /\ \/ call[e].pc = "committed"
                  /\ steps[call[e].step].status = "APPROVED"
               \/ call[e].pc = "loaded" /\ call[e].next = k
      BY <2>1
    <3>2. call'[e] = call[e]
      BY <1>b, <3>1
    <3> QED
      BY <1>b, <3>1, <3>2
  <2> QED
    BY <1>a, <1>b, <2>1
<1>4. CASE CreateRequest
  BY <1>0, <1>4 DEF CreateRequest, Creator
<1>5. CASE LoadRequest
  <2>1. RowsOfOpen(k)
    BY <1>5, <1>a DEF LoadRequest
  <2>2. FirstPending(Steps) = k
    BY <2>1, FirstPendingFound
  <2> QED
    BY <1>5, <2>2 DEF LoadRequest
<1>6. CASE AnnounceRequest
  <2>1. /\ UNCHANGED <<request, steps, call>>
        /\ creator.pc = "loaded"
        /\ assignedEvents \subseteq assignedEvents'
        /\ creator.next # NoStep => creator.next \in assignedEvents'
    BY <1>6 DEF AnnounceRequest
  <2> QED
    BY <1>0, <1>a, <2>1
<1>7. ASSUME NEW c \in Calls, NEW s \in Steps, NEW u \in Users,
             NEW d \in DecisionType, ReadStep(c, s, u, d)
      PROVE  Told
  BY <1>0, <1>7, <1>b DEF ReadStep
<1>8. ASSUME NEW c \in Calls, UserFound(c) \/ UserMissing(c)
      PROVE  Told
  BY <1>0, <1>8, <1>b DEF UserFound, UserMissing
<1>9. ASSUME NEW c \in Calls, Commit(c)
      PROVE  Told
  <2>1. PICK j \in Steps :
          /\ call[c].step = j
          /\ RowsOfOpen(j)
          /\ \/ call[c].decision # "APPROVE" /\ UNCHANGED <<request, steps>>
             \/ call[c].decision # "APPROVE" /\ RowsOfRefused(j)'
             \/ j < N /\ RowsOfOpen(j + 1)'
             \/ j = N /\ RowsOfApproved'
    BY <1>2, <1>9, SerialCommit
  <2>2. ~RowsOfRefused(j)' /\ ~RowsOfApproved'
    BY DEF RowsOfRefused, RowsOfApproved, RowsOfOpen
  <2>3. CASE UNCHANGED <<request, steps>>
    <3>1. /\ UNCHANGED <<creator, assignedEvents>>
          /\ \A e \in Calls : e # c => call'[e] = call[e]
          /\ call[c].pc = "checked"
      BY <1>0, <1>9 DEF Commit
    <3> QED
      BY <2>3, <3>1, <1>b
  <2>4. CASE call[c].decision = "APPROVE"
    <3>1. /\ call'[c].pc = "committed" /\ call'[c].decision = "APPROVE"
          /\ call'[c].step = j
      BY <1>0, <1>9, <2>1, <2>4 DEF Commit, Call
    <3>2. CASE j < N /\ RowsOfOpen(j + 1)'
      <4>1. j < j + 1
        BY ApprovalsAssumption DEF Steps
      <4>2. steps'[j].status = "APPROVED"
        BY <3>2, <4>1 DEF RowsOfOpen, Around
      <4> QED
        BY <3>1, <4>2
    <3> QED
      BY <2>1, <2>2, <2>3, <2>4, <3>2
  <2>5. CASE call[c].decision # "APPROVE" /\ RowsOfOpen(j + 1)' /\ j < N
    <3>1. UNCHANGED request
      BY <1>9, <2>1, <2>5 DEF Commit, Apply, Resolve, RowsOfOpen
    <3>2. UNCHANGED steps
      BY <1>9, <2>1, <2>5 DEF Commit, Apply, Resolve, RowsOfOpen
    <3> QED
      BY <2>3, <3>1, <3>2
  <2> QED
    BY <2>1, <2>2, <2>3, <2>4, <2>5
<1>10. ASSUME NEW c \in Calls, ReadNextPending(c)
       PROVE  Told
  <2>1. /\ UNCHANGED <<request, steps, creator, assignedEvents>>
        /\ \A e \in Calls : e # c => call'[e] = call[e]
        /\ call[c].pc = "committed"
        /\ call'[c].pc = "loaded" /\ call'[c].decision = call[c].decision
    BY <1>0, <1>10 DEF ReadNextPending, Call
  <2>2. CASE /\ call[c].decision = "APPROVE"
             /\ steps[call[c].step].status = "APPROVED"
    <3>1. RowsOfOpen(k)
      BY <1>a, <2>1
    <3>2. k \in Steps \ {call[c].step}
      BY <2>2, <3>1 DEF RowsOfOpen
    <3>3. FirstPending(Steps \ {call[c].step}) = k
      BY <3>1, <3>2, FirstPendingFound
    <3>4. call'[c].next = k
      BY <1>0, <1>10, <2>2, <3>3 DEF ReadNextPending, Call
    <3> QED
      BY <2>1, <2>2, <3>4
  <2>3. CASE ~ /\ call[c].decision = "APPROVE"
               /\ steps[call[c].step].status = "APPROVED"
    <3>1. CASE \E e \in Calls :
                 /\ call[e].decision = "APPROVE"
                 /\ \/ call[e].pc = "committed"
                       /\ steps[call[e].step].status = "APPROVED"
                    \/ call[e].pc = "loaded" /\ call[e].next = k
      <4>1. PICK e \in Calls :
              /\ call[e].decision = "APPROVE"
              /\ \/ call[e].pc = "committed"
                    /\ steps[call[e].step].status = "APPROVED"
                 \/ call[e].pc = "loaded" /\ call[e].next = k
        BY <3>1
      <4>2. e # c
        BY <2>1, <2>3, <4>1
      <4> QED
        BY <2>1, <4>1, <4>2
    <3> QED
      BY <1>a, <2>1, <3>1
  <2> QED
    BY <2>2, <2>3
<1>11. ASSUME NEW c \in Calls, PublishAssigned(c)
       PROVE  Told
  <2>1. /\ UNCHANGED <<request, steps, creator>>
        /\ \A e \in Calls : e # c => call'[e] = call[e]
        /\ call[c].pc = "loaded"
        /\ assignedEvents \subseteq assignedEvents'
        /\ call[c].next # NoStep => call[c].next \in assignedEvents'
    BY <1>0, <1>11 DEF PublishAssigned
  <2>2. CASE \E e \in Calls :
               /\ call[e].decision = "APPROVE"
               /\ \/ call[e].pc = "committed"
                     /\ steps[call[e].step].status = "APPROVED"
                  \/ call[e].pc = "loaded" /\ call[e].next = k
    <3>1. PICK e \in Calls :
            /\ call[e].decision = "APPROVE"
            /\ \/ call[e].pc = "committed"
                  /\ steps[call[e].step].status = "APPROVED"
               \/ call[e].pc = "loaded" /\ call[e].next = k
      BY <2>2
    <3>2. CASE e = c
      BY <1>0, <2>1, <3>1, <3>2
    <3>3. CASE e # c
      BY <2>1, <3>1, <3>3
    <3> QED
      BY <3>2, <3>3
  <2> QED
    BY <1>a, <2>1, <2>2
<1>12. CASE UNCHANGED vars
  BY <1>12, <1>a DEF vars
<1>13. QED
  BY <1>1, <1>4, <1>5, <1>6, <1>7, <1>8, <1>9, <1>10, <1>11, <1>12
  DEF Next, Continue

\* When calls do not overlap, the stamps of the rows agree with their
\* statuses, and the approvers of a pending step have been told of it when
\* every handler has answered and none has died.
THEOREM SerialRowsReliable == Spec => []RowsAreReliable
<1>1. Init => AnnouncedInv
  BY DEF Init, AnnouncedInv, RowsOfOpen
<1>2. SerialInv => StampsAgree
  <2> SUFFICES ASSUME ~Overlap, SerialRows PROVE StampsAgree
    BY DEF SerialInv, StampsAgree
  <2>1. \A k, s \in Steps : s < k \/ s = k \/ s > k
    BY ApprovalsAssumption DEF Steps
  <2>2. CASE RowsOfNone
    BY <2>2 DEF RowsOfNone, StampsAgree, Resolved
  <2>3. ASSUME NEW k \in Steps, RowsOfOpen(k) PROVE StampsAgree
    BY <2>1, <2>3 DEF RowsOfOpen, Around, StampsAgree, Resolved
  <2>4. ASSUME NEW k \in Steps, RowsOfRefused(k) PROVE StampsAgree
    BY <2>1, <2>4 DEF RowsOfRefused, Around, StampsAgree, Resolved
  <2>5. CASE RowsOfApproved
    BY <2>5 DEF RowsOfApproved, StampsAgree, Resolved
  <2> QED
    BY <2>2, <2>3, <2>4, <2>5 DEF SerialRows
<1>3. SerialInv /\ AnnouncedInv /\ TypeOK => PendingIsAnnounced
  <2> SUFFICES ASSUME SerialRows, AnnouncedInv, ~Overlap, crashes = 0, Quiet,
                      creator \in Creator,
                      NEW s \in Steps, steps[s].status = "PENDING"
               PROVE  s \in assignedEvents
    BY DEF SerialInv, PendingIsAnnounced, TypeOK
  <2>1. \A k \in Steps : s < k \/ s = k \/ s > k
    BY ApprovalsAssumption DEF Steps
  <2>2. RowsOfOpen(s)
    BY <2>1 DEF SerialRows, RowsOfNone, RowsOfOpen, RowsOfRefused,
                RowsOfApproved, Around
  <2> QED
    BY <2>2 DEF AnnouncedInv, Quiet
<1>4. QED
  BY <1>1, <1>2, <1>3, InitSerialInv, StepSerialInv, StepAnnouncedInv,
     TypeCorrect, PTL DEF Spec, RowsAreReliable

(***************************************************************************)
(* The refinement: the rows of a chain whose step k is waited for stand    *)
(* for a frontier of k - 1 approved steps.                                 *)
(***************************************************************************)

\* How many steps the rows show as approved.
LEMMA FrontierOfRows ==
  /\ RowsOfNone => ChainFrontier = 0
  /\ \A k \in Steps : RowsOfOpen(k) \/ RowsOfRefused(k)
                        => ChainFrontier = k - 1
  /\ RowsOfApproved => ChainFrontier = N
<1> DEFINE Approved == {s \in Steps : steps[s].status = "APPROVED"}
<1>1. ASSUME RowsOfNone PROVE ChainFrontier = 0
  <2>1. Approved = {}
    BY <1>1 DEF RowsOfNone
  <2> QED
    BY <2>1, FS_EmptySet DEF ChainFrontier
<1>2. ASSUME NEW k \in Steps, RowsOfOpen(k) \/ RowsOfRefused(k)
      PROVE  ChainFrontier = k - 1
  <2>1. \A s \in Steps : steps[s].status = "APPROVED" <=> s < k
    <3>1. \A s \in Steps : s < k \/ s = k \/ s > k
      BY ApprovalsAssumption DEF Steps
    <3>2. ~(k < k) /\ \A s \in Steps : s > k => ~(s < k)
      BY ApprovalsAssumption DEF Steps
    <3> QED
      BY <1>2, <3>1, <3>2 DEF RowsOfOpen, RowsOfRefused, Around
  <2>2. Approved = 1 .. k - 1
    BY <2>1, ApprovalsAssumption DEF Steps
  <2>3. Cardinality(1 .. k - 1) = k - 1
    BY FS_Interval, ApprovalsAssumption DEF Steps
  <2> QED
    BY <2>2, <2>3 DEF ChainFrontier
<1>3. ASSUME RowsOfApproved PROVE ChainFrontier = N
  <2>1. Approved = 1 .. N
    BY <1>3 DEF RowsOfApproved, Steps
  <2>2. Cardinality(1 .. N) = N
    BY FS_Interval, ApprovalsAssumption
  <2> QED
    BY <2>1, <2>2 DEF ChainFrontier
<1> QED
  BY <1>1, <1>2, <1>3

\* Which outcome the status of the request stands for.
LEMMA OutcomeOfRows ==
  /\ RowsOfNone => ChainOutcome = "none"
  /\ \A k \in Steps : RowsOfOpen(k) => ChainOutcome = "open"
  /\ \A k \in Steps : RowsOfRefused(k)
                        => ChainOutcome \in {"rejected", "cancelled"}
  /\ RowsOfApproved => ChainOutcome = "approved"
  BY DEF RowsOfNone, RowsOfOpen, RowsOfRefused, RowsOfApproved, ChainOutcome

\* What rows stand for.
RowsStandForChain ==
  /\ RowsOfNone => ChainOutcome = "none" /\ ChainFrontier = 0
  /\ \A k \in Steps : RowsOfOpen(k)
       => ChainOutcome = "open" /\ ChainFrontier = k - 1
  /\ \A k \in Steps : RowsOfRefused(k)
       => ChainOutcome \in {"rejected", "cancelled"} /\ ChainFrontier = k - 1
  /\ RowsOfApproved => ChainOutcome = "approved" /\ ChainFrontier = N

\* What rows stand for, of the rows before a step and of those it leaves.
LEMMA RowsBeforeAndAfter == RowsStandForChain /\ RowsStandForChain'
<1>1. RowsStandForChain
  BY FrontierOfRows, OutcomeOfRows DEF RowsStandForChain
<1>2. RowsStandForChain'
  BY <1>1, PTL
<1> QED
  BY <1>1, <1>2

\* Neither the chain nor its frontier moves when the rows do not.
LEMMA ChainFrame ==
  UNCHANGED <<request, steps>> => UNCHANGED Chain!vars
  BY DEF Chain!vars, ChainOutcome, ChainFrontier

\* A step of the handlers is a step of the chain, or none.
LEMMA ChainStep ==
  ASSUME TypeOK, SerialInv, [Next]_vars, ~Overlap
  PROVE  [Chain!Next]_Chain!vars
<1>1. CASE CreateRequest
  <2>1. RowsOfNone
    BY <1>1 DEF SerialInv, CreateRequest
  <2>2. ChainOutcome = "none" /\ ChainFrontier = 0
    BY <2>1, RowsBeforeAndAfter DEF RowsStandForChain
  <2>3. 1 \in Steps /\ RowsOfOpen(1)'
    BY <1>1, SerialCreation
  <2>4. ChainOutcome' = "open" /\ ChainFrontier' = 1 - 1
    BY <2>3, RowsBeforeAndAfter DEF RowsStandForChain
  <2> QED
    BY <2>2, <2>4 DEF Chain!Next, Chain!Open
<1>2. ASSUME NEW c \in Calls, Commit(c)
      PROVE  [Chain!Next]_Chain!vars
  <2>1. PICK k \in Steps :
          /\ RowsOfOpen(k)
          /\ \/ UNCHANGED <<request, steps>>
             \/ RowsOfRefused(k)'
             \/ k < N /\ RowsOfOpen(k + 1)'
             \/ k = N /\ RowsOfApproved'
    BY <1>2, SerialCommit
  <2>2. ChainOutcome = "open" /\ ChainFrontier = k - 1
    BY <2>1, RowsBeforeAndAfter DEF RowsStandForChain
  <2>3. CASE UNCHANGED <<request, steps>>
    BY <2>3, ChainFrame
  <2>4. CASE RowsOfRefused(k)'
    <3>1. ChainOutcome' \in {"rejected", "cancelled"}
      BY <2>4, RowsBeforeAndAfter DEF RowsStandForChain
    <3>2. ChainFrontier' = k - 1
      BY <2>4, RowsBeforeAndAfter DEF RowsStandForChain
    <3> QED
      BY <2>2, <3>1, <3>2 DEF Chain!Next, Chain!Refuse
  <2>5. CASE k < N /\ RowsOfOpen(k + 1)'
    <3>1. k + 1 \in Steps
      BY <2>5, ApprovalsAssumption DEF Steps
    <3>2. ChainOutcome' = "open"
      BY <2>5, <3>1, RowsBeforeAndAfter DEF RowsStandForChain
    <3>3. ChainFrontier' = (k + 1) - 1
      BY <2>5, <3>1, RowsBeforeAndAfter DEF RowsStandForChain
    <3>4. ChainFrontier' = ChainFrontier + 1 /\ ChainFrontier' # N
      BY <2>2, <2>5, <3>3, ApprovalsAssumption DEF Steps
    <3> QED
      BY <2>2, <3>2, <3>4 DEF Chain!Next, Chain!Approve
  <2>6. CASE k = N /\ RowsOfApproved'
    <3>1. ChainOutcome' = "approved"
      BY <2>6, RowsBeforeAndAfter DEF RowsStandForChain
    <3>2. ChainFrontier' = N
      BY <2>6, RowsBeforeAndAfter DEF RowsStandForChain
    <3>3. ChainFrontier' = ChainFrontier + 1
      BY <2>2, <2>6, <3>2, ApprovalsAssumption DEF Steps
    <3> QED
      BY <2>2, <3>1, <3>2, <3>3 DEF Chain!Next, Chain!Approve
  <2> QED
    BY <2>1, <2>3, <2>4, <2>5, <2>6
<1>3. CASE UNCHANGED <<request, steps>>
  BY <1>3, ChainFrame
<1>4. QED
  BY <1>1, <1>2, <1>3
  DEF Next, Continue, LoadRequest, AnnounceRequest, ReadStep, UserFound,
      UserMissing, ReadNextPending, PublishAssigned, Crash, vars

\* When calls do not overlap, whichever handlers die, the handlers implement
\* the chain.
THEOREM RefinesChain == Spec => ImplementsChain
<1>1. Init => (~Overlap => Chain!Init)
  <2> SUFFICES ASSUME Init PROVE Chain!Init
    OBVIOUS
  <2>1. RowsOfNone
    BY DEF Init, RowsOfNone
  <2> QED
    BY <2>1, FrontierOfRows, OutcomeOfRows DEF Chain!Init
<1>2. TypeOK /\ SerialInv /\ [Next]_vars
        => [~Overlap => [Chain!Next]_Chain!vars]_vars
  BY ChainStep
<1>3. QED
  BY <1>1, <1>2, InitSerialInv, StepSerialInv, TypeCorrect, PTL
  DEF Spec, ImplementsChain
==============================================================================
