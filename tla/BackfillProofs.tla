---------------------------- MODULE BackfillProofs ----------------------------
(***************************************************************************)
(* Proofs about the records of a driver and the backfill, for any requests,*)
(* any number of them at a time, and scripts that run where and as often   *)
(* as the setting has it, whatever is broken off:                          *)
(*                                                                         *)
(*   - the types;                                                          *)
(*   - that driver and member are archived together (AloneInv);            *)
(*   - that a run of the script reconciles the two (StageInv, by stages);  *)
(*   - that a driver that can be read stays readable (TurnInv);            *)
(*   - that licences are bounded by those who look for one at a time       *)
(*     (LicenceInv, which counts them with those about to be made);        *)
(*   - that the histories of the status join up (HistoryInv).              *)
(***************************************************************************)
EXTENDS Backfill, FiniteSetTheorems, TLAPS

------------------------------------------------------------------------------
(* Types                                                                   *)

USE DEF At, Want, Goto, Finish, ScriptAt, GotoScript

\* What a request that has come so far is about.
RequestsFit ==
  \A c \in Calls :
    /\ call[c].pc = "creating" => call[c].want.op = "create"
    /\ call[c].pc \in {"canonical", "member", "writing", "legacy"} =>
         call[c].want.op \in {"update", "archive", "status", "add", "edit"}
    /\ call[c].pc = "credential" => call[c].want.op = "edit"
    /\ call[c].pc = "filing" => call[c].want.op \in {"add", "edit"}
    /\ call[c].pc \in {"aligning", "extending", "committing"} =>
         call[c].want.op \in {"create", "update"}

TypeInv == TypeOK /\ RequestsFit /\ script.history <= Len(driverHistory)

\* The fields of a request.
LEMMA RequestTypes ==
  ASSUME NEW want \in Requests \cup {NoRequest}
  PROVE  /\ want.op = "create" => /\ want.joined \in Values \ {Missing}
                                  /\ want.licence \in Values \ {Missing}
         /\ want.op = "update" => /\ want.joined \in Values
                                  /\ want.licence \in Values
                                  /\ want.identity
                                       \in {"kept", "code", "linked"}
                                  /\ want.status \in Operational \cup {""}
         /\ want.op = "status" =>
              \/ /\ want.category = "OPERATIONAL_STATUS"
                 /\ want.value \in Operational
              \/ /\ want.category = "COMPLIANCE_STATUS"
                 /\ want.value \in Compliance
              \/ /\ want.category = "ONBOARDING_STATUS"
                 /\ want.value \in Onboarding
         /\ want.op \in {"add", "edit"} => want.content \in Verification
         /\ want.op = "edit" => want.document \in Calls
<1>1. \/ want \in [op : {"create"}, joined : Values \ {Missing},
                   licence : Values \ {Missing}]
      \/ want \in [op : {"update"}, identity : {"kept", "code", "linked"},
                   joined : Values, licence : Values,
                   status : Operational \cup {""}]
      \/ want \in [op : {"archive"}]
      \/ want \in [op : {"status"}, category : {"OPERATIONAL_STATUS"},
                   value : Operational]
      \/ want \in [op : {"status"}, category : {"COMPLIANCE_STATUS"},
                   value : Compliance]
      \/ want \in [op : {"status"}, category : {"ONBOARDING_STATUS"},
                   value : Onboarding]
      \/ want \in [op : {"add"}, content : Verification]
      \/ want \in [op : {"edit"}, document : Calls, content : Verification]
      \/ want = NoRequest
  BY DEF Requests
<1>2. want = NoRequest => want.op = "none"
  BY DEF NoRequest
<1>3. QED
  BY <1>1, <1>2

\* The rows there are before anything has happened.
LEMMA BlankTypes ==
  /\ NoDriver \in Driver /\ NoMember \in Member /\ NoProfile \in Profile
  /\ \A pc \in Pcs : Resting(pc) \in Call
  /\ \A n \in Nat : NotRunning(n) \in
       [pc : ScriptPcs, runs : Nat, driver : Driver, member : Member,
        profile : Profile, licences : SUBSET Licence,
        documents : [Calls -> Verification \cup {NoDocument}], history : Nat]
<1>1. NewStatus \in Status
  BY DEF NewStatus, Status, Operational, Compliance, Onboarding
<1>2. NoDriver \in Driver
  BY <1>1 DEF NoDriver, Driver, RowState, Values, Missing
<1>3. NoMember \in Member
  BY <1>1
  DEF NoMember, Member, RowState, Values, Missing, NoMetadata, Metadata
<1>4. NoProfile \in Profile
  BY DEF NoProfile, Profile, Values, Missing
<1>5. \A pc \in Pcs : Resting(pc) \in Call
  BY <1>2, <1>3, <1>4 DEF Resting, Call
<1>6. \A n \in Nat : NotRunning(n) \in
        [pc : ScriptPcs, runs : Nat, driver : Driver, member : Member,
         profile : Profile, licences : SUBSET Licence,
         documents : [Calls -> Verification \cup {NoDocument}], history : Nat]
  BY <1>2, <1>3, <1>4 DEF NotRunning, ScriptPcs
<1>7. QED
  BY <1>2, <1>3, <1>4, <1>5, <1>6

\* The initial rows, requests and script have their types.
LEMMA InitTypeInv == Init => TypeInv
<1> SUFFICES ASSUME Init PROVE TypeInv
  OBVIOUS
<1>1. driver \in Driver
  <2>1. {1} \subseteq Values /\ "active" \in RowState
    BY DEF Values, RowState
  <2>2. QED
    BY BlankTypes, <2>1 DEF Init, RecordsInit, Driver
<1>2. RecordsTypeOK
  BY <1>1, BlankTypes DEF Init, RecordsInit, RecordsTypeOK, Pcs
<1>3. script.history = 0 /\ Len(driverHistory) = 0
  BY DEF Init, RecordsInit, NotRunning
<1>4. RequestsFit
  BY DEF Init, RecordsInit, RequestsFit, Resting
<1>5. TypeOK
  <2>1. script = NotRunning(0) /\ 0 \in Nat
    BY DEF Init
  <2>2. QED
    BY <1>2, <2>1, BlankTypes DEF TypeOK
<1>6. QED
  BY <1>3, <1>4, <1>5 DEF TypeInv

\* Goto and Finish change one request.
LEMMA Moves ==
  ASSUME call \in [Calls -> Call], NEW c \in Calls,
         \/ Finish(c)
         \/ \E p \in Pcs : Goto(c, p)
  PROVE  /\ call' \in [Calls -> Call]
         /\ \A e \in Calls \ {c} : call'[e] = call[e]
         /\ call'[c] \in {Resting("done")}
              \cup {[call[c] EXCEPT !.pc = p] : p \in Pcs}
<1>1. Resting("done") \in Call
  BY BlankTypes DEF Pcs
<1>2. \A p \in Pcs : [call[c] EXCEPT !.pc = p] \in Call
  BY DEF Call
<1>3. QED
  BY <1>1, <1>2

\* A request at an end is about nothing.
LEMMA DoneFits ==
  /\ Resting("done").pc = "done" /\ Resting("done").want = NoRequest
BY DEF Resting

\* What one request does is what fits it, if it fits that request.
LEMMA OneFits ==
  ASSUME RequestsFit, NEW c \in Calls,
         \A e \in Calls \ {c} : call'[e] = call[e],
         /\ call'[c].pc = "creating" => call'[c].want.op = "create"
         /\ call'[c].pc \in {"canonical", "member", "writing", "legacy"} =>
              call'[c].want.op
                \in {"update", "archive", "status", "add", "edit"}
         /\ call'[c].pc = "credential" => call'[c].want.op = "edit"
         /\ call'[c].pc = "filing" => call'[c].want.op \in {"add", "edit"}
         /\ call'[c].pc \in {"aligning", "extending", "committing"} =>
              call'[c].want.op \in {"create", "update"}
  PROVE  RequestsFit'
BY DEF RequestsFit

\* The licence that is selected is one.
LEMMA SelectedType ==
  ASSUME NEW rows \in SUBSET Licence
  PROVE  Selected(rows) \in Licence
<1>1. CASE Cardinality(rows) = 1
  <2>1. rows # {}
    BY <1>1, FS_EmptySet
  <2>2. QED
    BY <1>1, <2>1 DEF Selected
<1>2. CASE Cardinality(rows) # 1
  BY <1>2 DEF Selected, Licence, Values
<1>3. QED
  BY <1>1, <1>2

\* What of the types a request may disturb.
LEMMA ServedTypes ==
  ASSUME TypeInv, UNCHANGED <<script, setting>>,
         driver' \in Driver, member' \in Member, profile' \in Profile,
         licences' \subseteq Licence, UNCHANGED copied,
         documents' \in [Calls -> Verification \cup {NoDocument}],
         credentials' \in [Calls -> Verification \cup {NoDocument}],
         driverHistory' \in Seq(Change), memberHistory' \in Seq(Change),
         Len(driverHistory) <= Len(driverHistory'),
         call' \in [Calls -> Call], RequestsFit'
  PROVE  TypeInv'
<1>1. copied \in 0 .. Len(driverHistory) /\ Len(driverHistory') \in Nat
  BY DEF TypeInv, TypeOK, RecordsTypeOK
<1>2. copied' \in 0 .. Len(driverHistory')
  BY <1>1
<1>3. RecordsTypeOK'
  BY <1>2 DEF TypeInv, TypeOK, RecordsTypeOK
<1>4. script.history \in Nat /\ script.history <= Len(driverHistory)
  BY DEF TypeInv, TypeOK
<1>5. (script.history <= Len(driverHistory))'
  BY <1>1, <1>4 DEF TypeInv, TypeOK, RecordsTypeOK
<1>6. TypeOK'
  BY <1>3 DEF TypeInv, TypeOK
<1>7. QED
  BY <1>5, <1>6 DEF TypeInv

\* A request that only reads leaves the types of the rows alone.
LEMMA ReadingTypes ==
  ASSUME TypeInv, UNCHANGED <<records, script, setting>>,
         call' \in [Calls -> Call], RequestsFit'
  PROVE  TypeInv'
<1>1. Len(driverHistory) \in Nat /\ RecordsTypeOK
  BY DEF TypeInv, TypeOK, RecordsTypeOK
<1>2. QED
  BY <1>1, ServedTypes
  DEF RecordsTypeOK, records, extensions, papers, histories

\* A request that begins keeps the types.
LEMMA BeginTypes ==
  ASSUME TypeInv, NEW c \in Calls, NEW want \in setting.requests,
         Begin(c, want), UNCHANGED script
  PROVE  TypeInv'
<1>1. want \in Requests
  BY RecordsAssumption DEF TypeInv, TypeOK, RecordsTypeOK
<1>2. /\ call \in [Calls -> Call] /\ driver \in Driver /\ RequestsFit
      /\ setting \in Settings
  BY DEF TypeInv, TypeOK, RecordsTypeOK
<1>3. UNCHANGED <<records, setting>>
  BY DEF Begin, CheckNew, Start
<1>4. CASE CheckNew(c, want)
  <2>1. call' = [call EXCEPT ![c] = [@ EXCEPT !.pc = "creating", !.want = want]]
    BY <1>4, <1>2 DEF CheckNew, Call
  <2>2. call' \in [Calls -> Call]
    BY <2>1, <1>1, <1>2 DEF Call, Pcs
  <2>3. RequestsFit'
    BY <2>1, <1>2, <1>4, OneFits DEF CheckNew, Call
  <2>4. QED
    BY <2>2, <2>3, <1>3, ReadingTypes
<1>5. CASE Start(c, want)
  <2>1. call' = [call EXCEPT ![c] = [@ EXCEPT !.pc = "canonical",
                   !.want = want, !.driver = driver]]
    BY <1>5, <1>2 DEF Start, Call
  <2>2. call' \in [Calls -> Call]
    BY <2>1, <1>1, <1>2 DEF Call, Pcs
  <2>3. want.op \in {"update", "archive", "status", "add", "edit"}
    BY <1>1, <1>5 DEF Requests, Start
  <2>4. RequestsFit'
    BY <2>1, <2>3, <1>2, OneFits DEF Call
  <2>5. QED
    BY <2>2, <2>4, <1>3, ReadingTypes
<1>6. QED
  BY <1>4, <1>5 DEF Begin

\* A request that ends.
LEMMA FinishTypes ==
  ASSUME TypeInv, NEW c \in Calls, Finish(c)
  PROVE  call' \in [Calls -> Call] /\ RequestsFit'
<1>1. call \in [Calls -> Call] /\ RequestsFit
  BY DEF TypeInv, TypeOK, RecordsTypeOK
<1>2. Resting("done") \in Call
  BY BlankTypes DEF Pcs
<1>3. call'[c].pc = "done" /\ \A e \in Calls \ {c} : call'[e] = call[e]
  BY <1>1, DoneFits
<1>4. RequestsFit'
  BY <1>1, <1>3, OneFits
<1>5. QED
  BY <1>1, <1>2, <1>4

\* May a request that is about op be at pc?
Fits(op, pc) ==
  /\ pc = "creating" => op = "create"
  /\ pc \in {"canonical", "member", "writing", "legacy"} =>
       op \in {"update", "archive", "status", "add", "edit"}
  /\ pc = "credential" => op = "edit"
  /\ pc = "filing" => op \in {"add", "edit"}
  /\ pc \in {"aligning", "extending", "committing"} =>
       op \in {"create", "update"}

\* A request that goes on with what it has become.
LEMMA GoesOnTypes ==
  ASSUME TypeInv, NEW c \in Calls, NEW local \in Call,
         local.want = call[c].want, Fits(local.want.op, local.pc),
         call' = [call EXCEPT ![c] = local]
  PROVE  call' \in [Calls -> Call] /\ RequestsFit'
<1>1. call \in [Calls -> Call] /\ RequestsFit
  BY DEF TypeInv, TypeOK, RecordsTypeOK
<1>2. call'[c] = local /\ \A e \in Calls \ {c} : call'[e] = call[e]
  BY <1>1
<1>3. RequestsFit'
  BY <1>1, <1>2, OneFits DEF Fits
<1>4. QED
  BY <1>1, <1>3

\* A request that only moves.
LEMMA GotoTypes ==
  ASSUME TypeInv, NEW c \in Calls, NEW p \in Pcs, Goto(c, p),
         Fits(call[c].want.op, p)
  PROVE  call' \in [Calls -> Call] /\ RequestsFit'
<1>1. call \in [Calls -> Call]
  BY DEF TypeInv, TypeOK, RecordsTypeOK
<1>2. /\ [call[c] EXCEPT !.pc = p] \in Call
      /\ [call[c] EXCEPT !.pc = p].pc = p
      /\ [call[c] EXCEPT !.pc = p].want = call[c].want
  BY <1>1 DEF Call
<1>3. call' = [call EXCEPT ![c] = [call[c] EXCEPT !.pc = p]]
  OBVIOUS
<1>4. QED
  BY <1>2, <1>3, GoesOnTypes

\* The rows and what a request knows.
LEMMA KnownTypes ==
  ASSUME TypeInv, NEW c \in Calls
  PROVE  /\ driver \in Driver /\ member \in Member /\ profile \in Profile
         /\ licences \in SUBSET Licence /\ call \in [Calls -> Call]
         /\ documents \in [Calls -> Verification \cup {NoDocument}]
         /\ credentials \in [Calls -> Verification \cup {NoDocument}]
         /\ driverHistory \in Seq(Change) /\ memberHistory \in Seq(Change)
         /\ Len(driverHistory) \in Nat
         /\ call[c].pc \in Pcs /\ call[c].want \in Requests \cup {NoRequest}
         /\ call[c].driver \in Driver /\ call[c].member \in Member
         /\ call[c].profile \in Profile /\ call[c].licences \in SUBSET Licence
         /\ call[c].compliance \in Compliance \cup {Same}
         /\ Fits(call[c].want.op, call[c].pc)
<1>1. call[c] \in Call
  BY DEF TypeInv, TypeOK, RecordsTypeOK
<1>2. Fits(call[c].want.op, call[c].pc)
  BY DEF TypeInv, RequestsFit, Fits
<1>3. QED
  BY <1>1, <1>2 DEF TypeInv, TypeOK, RecordsTypeOK, Call

\* The steps of a request that read keep the types.
LEMMA ReadTypes ==
  ASSUME TypeInv, NEW c \in Calls, UNCHANGED script,
         \/ FindCanonical(c) \/ FindCredential(c) \/ FindMember(c)
         \/ Recalculate(c) \/ FindForAlignment(c) \/ ReadExtensions(c)
         \/ StopCall(c)
  PROVE  TypeInv'
<1>1. UNCHANGED <<records, setting>>
  BY DEF FindCanonical, FindCredential, FindMember, Recalculate,
         FindForAlignment, ReadExtensions, StopCall
<1>2. CASE Finish(c)
  BY <1>1, <1>2, FinishTypes, ReadingTypes
<1>3. CASE FindCanonical(c) /\ ~Finish(c)
  <2>1. PICK p \in {"credential", "member", "legacy"} :
          /\ p = "credential" => call[c].want.op = "edit"
          /\ call' = [call EXCEPT ![c] = [@ EXCEPT !.member = member, !.pc = p]]
    BY <1>3, KnownTypes DEF FindCanonical, Call
  <2>2. Fits(call[c].want.op, p)
    BY <1>3, <2>1, KnownTypes DEF FindCanonical, Fits
  <2>3. [call[c] EXCEPT !.member = member, !.pc = p] \in Call
    BY <2>1, KnownTypes DEF Call, Pcs
  <2>4. call' \in [Calls -> Call] /\ RequestsFit'
    BY <2>1, <2>2, <2>3, KnownTypes, GoesOnTypes DEF Call
  <2>5. QED
    BY <1>1, <2>4, ReadingTypes
<1>4. CASE FindCredential(c) /\ ~Finish(c)
  <2>1. PICK p \in {"writing", "legacy"} : Goto(c, p)
    BY <1>4 DEF FindCredential
  <2>2. Fits(call[c].want.op, p) /\ p \in Pcs
    BY <1>4, KnownTypes DEF FindCredential, Fits, Pcs
  <2>3. QED
    BY <1>1, <2>1, <2>2, GotoTypes, ReadingTypes
<1>5. CASE FindMember(c) /\ ~Finish(c)
  <2>1. PICK m \in Member :
          call' = [call EXCEPT ![c] = [@ EXCEPT !.pc = "writing", !.member = m]]
    BY <1>5, KnownTypes DEF FindMember, Call
  <2>2. Fits(call[c].want.op, "writing")
    BY <1>5, KnownTypes DEF FindMember, Fits
  <2>3. [call[c] EXCEPT !.pc = "writing", !.member = m] \in Call
    BY <2>1, KnownTypes DEF Call, Pcs
  <2>4. call' \in [Calls -> Call] /\ RequestsFit'
    BY <2>1, <2>2, <2>3, KnownTypes, GoesOnTypes DEF Call
  <2>5. QED
    BY <1>1, <2>4, ReadingTypes
<1>6. CASE Recalculate(c) /\ ~Finish(c)
  <2>1. PICK k \in Compliance \cup {Same} : call' =
          [call EXCEPT ![c] = [@ EXCEPT !.pc = "filing", !.compliance = k]]
    <3>1. \A rows : recalculateComplianceStatus(rows) \in Compliance
      BY DEF recalculateComplianceStatus, Compliance
    <3>2. QED
      BY <1>6, <3>1, KnownTypes DEF Recalculate, Call
  <2>2. Fits(call[c].want.op, "filing")
    BY <1>6, KnownTypes DEF Recalculate, Fits
  <2>3. [call[c] EXCEPT !.pc = "filing", !.compliance = k] \in Call
    BY <2>1, KnownTypes DEF Call, Pcs
  <2>4. call' \in [Calls -> Call] /\ RequestsFit'
    BY <2>1, <2>2, <2>3, KnownTypes, GoesOnTypes DEF Call
  <2>5. QED
    BY <1>1, <2>4, ReadingTypes
<1>7. CASE FindForAlignment(c) /\ ~Finish(c)
  <2>1. call' = [call EXCEPT ![c] =
                   [@ EXCEPT !.pc = "extending", !.member = member]]
    BY <1>7, KnownTypes DEF FindForAlignment, Call
  <2>2. Fits(call[c].want.op, "extending")
    BY <1>7, KnownTypes DEF FindForAlignment, Fits
  <2>3. [call[c] EXCEPT !.pc = "extending", !.member = member] \in Call
    BY KnownTypes DEF Call, Pcs
  <2>4. call' \in [Calls -> Call] /\ RequestsFit'
    BY <2>1, <2>2, <2>3, KnownTypes, GoesOnTypes DEF Call
  <2>5. QED
    BY <1>1, <2>4, ReadingTypes
<1>8. CASE ReadExtensions(c) /\ ~Finish(c)
  <2>1. call' = [call EXCEPT ![c] = [@ EXCEPT !.pc = "committing",
                   !.profile = profile, !.licences = licences]]
    BY <1>8, KnownTypes DEF ReadExtensions, Call
  <2>2. Fits(call[c].want.op, "committing")
    BY <1>8, KnownTypes DEF ReadExtensions, Fits
  <2>3. [call[c] EXCEPT !.pc = "committing", !.profile = profile,
                        !.licences = licences] \in Call
    BY KnownTypes DEF Call, Pcs
  <2>4. call' \in [Calls -> Call] /\ RequestsFit'
    BY <2>1, <2>2, <2>3, KnownTypes, GoesOnTypes DEF Call
  <2>5. QED
    BY <1>1, <2>4, ReadingTypes
<1>9. StopCall(c) => Finish(c)
  BY DEF StopCall
<1>10. QED
  BY <1>2, <1>3, <1>4, <1>5, <1>6, <1>7, <1>8, <1>9

\* A status that is written is one of its category.
LEMMA StatusTypes ==
  ASSUME TypeInv, NEW c \in Calls, call[c].want.op = "status"
  PROVE  /\ call[c].want.category \in Category
         /\ call[c].want.value \in AnyStatus
         /\ \A s \in Status :
              /\ [s EXCEPT ![call[c].want.category] = call[c].want.value]
                   \in Status
              /\ s[call[c].want.category] \in AnyStatus
<1>1. PICK want \in Requests \cup {NoRequest} : want = call[c].want
  BY KnownTypes
<1>2. \/ /\ want.category = "OPERATIONAL_STATUS"
         /\ want.value \in Operational
      \/ /\ want.category = "COMPLIANCE_STATUS"
         /\ want.value \in Compliance
      \/ /\ want.category = "ONBOARDING_STATUS"
         /\ want.value \in Onboarding
  BY <1>1, RequestTypes
<1>3. QED
  BY <1>1, <1>2 DEF Status, Category, AnyStatus

\* An entry of a history is one.
LEMMA EntryTypes ==
  ASSUME TypeInv, NEW c \in Calls, call[c].want.op = "status",
         NEW row, row.status \in Status
  PROVE  Entry(c, row) \in Change
BY StatusTypes DEF Entry, Change

\* Creating a driver keeps the types.
LEMMA CreateTypes ==
  ASSUME TypeInv, NEW c \in Calls, UNCHANGED script, CreateRows(c)
  PROVE  TypeInv'
<1>1. UNCHANGED <<profile, licences, documents, credentials, driverHistory,
                  memberHistory, copied, setting>>
  BY DEF CreateRows, extensions, papers, histories
<1>2. call[c].want.joined \in Values /\ call[c].want.licence \in Values
  <2>1. PICK want \in Requests \cup {NoRequest} : want = call[c].want
    BY KnownTypes
  <2>2. want.op = "create"
    BY <2>1, KnownTypes DEF CreateRows, Fits
  <2>3. QED
    BY <2>1, <2>2, RequestTypes
<1>3. driver' \in Driver /\ member' \in Member
  BY <1>2, KnownTypes, BlankTypes
  DEF CreateRows, Driver, Member, RowState
<1>4. CASE Finish(c)
  <2>1. call' \in [Calls -> Call] /\ RequestsFit'
    BY <1>4, FinishTypes
  <2>2. QED
    BY <1>1, <1>3, <2>1, ServedTypes, KnownTypes
<1>5. CASE Goto(c, "aligning")
  <2>1. "aligning" \in Pcs /\ Fits(call[c].want.op, "aligning")
    BY KnownTypes DEF CreateRows, Fits, Pcs
  <2>2. call' \in [Calls -> Call] /\ RequestsFit'
    BY <1>5, <2>1, GotoTypes
  <2>3. QED
    BY <1>1, <1>3, <2>2, ServedTypes, KnownTypes
<1>6. QED
  BY <1>4, <1>5 DEF CreateRows

\* Writing the member row keeps the types.
LEMMA MemberTypes ==
  ASSUME TypeInv, NEW c \in Calls, UNCHANGED script,
         \/ UpdateMember(c) \/ ArchiveMember(c) \/ ChangeMember(c)
         \/ WriteCredential(c)
  PROVE  TypeInv'
<1>1. UNCHANGED <<profile, licences, documents, driverHistory, copied, setting>>
  BY DEF UpdateMember, ArchiveMember, ChangeMember, WriteCredential,
         extensions, papers, histories
<1>2. PICK want \in Requests \cup {NoRequest} : want = call[c].want
  BY KnownTypes
<1>3. CASE UpdateMember(c)
  <2>1. want.status \in Operational \cup {""}
    BY <1>2, <1>3, RequestTypes DEF UpdateMember
  <2>2. member.status \in Status /\ call[c].member.status \in Status
    BY KnownTypes DEF Member
  <2>3. [member.status EXCEPT !.ONBOARDING_STATUS =
            call[c].member.status.ONBOARDING_STATUS,
          !.OPERATIONAL_STATUS = IF want.status # "" THEN want.status ELSE @]
        \in Status
    BY <2>1, <2>2 DEF Status
  <2>4. member' = [member EXCEPT !.meta = call[c].member.meta,
          !.status = [member.status EXCEPT !.ONBOARDING_STATUS =
            call[c].member.status.ONBOARDING_STATUS,
          !.OPERATIONAL_STATUS = IF want.status # "" THEN want.status ELSE @]]
    BY <1>2, <1>3, <2>2, KnownTypes DEF UpdateMember, Member, Status
  <2>5. member' \in Member
    BY <2>3, <2>4, KnownTypes DEF Member
  <2>6. "aligning" \in Pcs /\ Fits(call[c].want.op, "aligning")
    BY <1>3 DEF UpdateMember, Fits, Pcs
  <2>7. call' \in [Calls -> Call] /\ RequestsFit'
    BY <1>3, <2>6, GotoTypes DEF UpdateMember
  <2>8. UNCHANGED <<driver, credentials, memberHistory>>
    BY <1>3 DEF UpdateMember, papers, histories
  <2>9. QED
    BY <1>1, <2>5, <2>7, <2>8, ServedTypes, KnownTypes
<1>4. CASE ArchiveMember(c)
  <2>1. driver' \in Driver /\ member' \in Member
    BY <1>4, KnownTypes
    DEF ArchiveMember, Driver, Member, Status, RowState, Operational
  <2>2. UNCHANGED <<credentials, memberHistory>>
    BY <1>4 DEF ArchiveMember, papers, histories
  <2>3. Finish(c)
    BY <1>4 DEF ArchiveMember
  <2>4. call' \in [Calls -> Call] /\ RequestsFit'
    BY <2>3, FinishTypes
  <2>5. QED
    BY <1>1, <2>1, <2>2, <2>3, <2>4, ServedTypes, KnownTypes
<1>5. CASE ChangeMember(c)
  <2>1. call[c].want.op = "status"
    BY <1>5 DEF ChangeMember
  <2>2. member' = [member EXCEPT !.status =
          [@ EXCEPT ![call[c].want.category] = call[c].want.value]]
    BY <1>5 DEF ChangeMember
  <2>3. member' \in Member
    BY <2>1, <2>2, StatusTypes, KnownTypes DEF Member
  <2>4. Entry(c, call[c].member) \in Change
    BY <2>1, EntryTypes, KnownTypes DEF Member
  <2>5. memberHistory' \in Seq(Change)
    BY <1>5, <2>4, KnownTypes DEF ChangeMember
  <2>6. UNCHANGED <<driver, credentials>> /\ Finish(c)
    BY <1>5 DEF ChangeMember, papers
  <2>7. call' \in [Calls -> Call] /\ RequestsFit'
    BY <2>6, FinishTypes
  <2>8. QED
    BY <1>1, <2>3, <2>5, <2>6, <2>7, ServedTypes, KnownTypes
<1>6. CASE WriteCredential(c)
  <2>1. want.content \in Verification
    BY <1>2, <1>6, RequestTypes DEF WriteCredential
  <2>2. credentials' \in [Calls -> Verification \cup {NoDocument}]
    BY <1>2, <1>6, <2>1, KnownTypes DEF WriteCredential
  <2>3. UNCHANGED <<driver, member, memberHistory>> /\ Finish(c)
    BY <1>6 DEF WriteCredential, histories
  <2>4. call' \in [Calls -> Call] /\ RequestsFit'
    BY <2>3, FinishTypes
  <2>5. QED
    BY <1>1, <2>2, <2>3, <2>4, ServedTypes, KnownTypes
<1>7. QED
  BY <1>3, <1>4, <1>5, <1>6

\* Writing the driver row keeps the types.
LEMMA DriverTypes ==
  ASSUME TypeInv, NEW c \in Calls, UNCHANGED script,
         \/ UpdateDriver(c) \/ ArchiveDriver(c) \/ ChangeDriver(c)
         \/ WriteDocument(c)
  PROVE  TypeInv'
<1>1. /\ UNCHANGED <<member, profile, licences, credentials, memberHistory,
                     copied, setting>>
      /\ Finish(c)
  BY DEF UpdateDriver, ArchiveDriver, ChangeDriver, WriteDocument,
         extensions, papers, histories
<1>2. PICK want \in Requests \cup {NoRequest} : want = call[c].want
  BY KnownTypes
<1>3. CASE UpdateDriver(c)
  <2>1. /\ want.status \in Operational \cup {""}
        /\ want.joined \in Values /\ want.licence \in Values
    BY <1>2, <1>3, RequestTypes DEF UpdateDriver
  <2>2. driver' \in Driver
    BY <1>2, <1>3, <2>1, KnownTypes
    DEF UpdateDriver, Driver, Status, Read, Values
  <2>3. UNCHANGED <<documents, driverHistory>>
    BY <1>3 DEF UpdateDriver, papers, histories
  <2>4. call' \in [Calls -> Call] /\ RequestsFit'
    BY <1>1, FinishTypes
  <2>5. QED
    BY <1>1, <2>2, <2>3, <2>4, ServedTypes, KnownTypes
<1>4. CASE ArchiveDriver(c)
  <2>1. driver' \in Driver
    BY <1>4, KnownTypes
    DEF ArchiveDriver, Driver, Status, RowState, Operational
  <2>2. UNCHANGED <<documents, driverHistory>>
    BY <1>4 DEF ArchiveDriver, papers, histories
  <2>3. call' \in [Calls -> Call] /\ RequestsFit'
    BY <1>1, FinishTypes
  <2>4. QED
    BY <1>1, <2>1, <2>2, <2>3, ServedTypes, KnownTypes
<1>5. CASE ChangeDriver(c)
  <2>1. call[c].want.op = "status"
    BY <1>5 DEF ChangeDriver
  <2>2. driver' = [driver EXCEPT !.status =
          [@ EXCEPT ![call[c].want.category] = call[c].want.value]]
    BY <1>5 DEF ChangeDriver
  <2>3. driver' \in Driver
    BY <2>1, <2>2, StatusTypes, KnownTypes DEF Driver
  <2>4. Entry(c, call[c].driver) \in Change
    BY <2>1, EntryTypes, KnownTypes DEF Driver
  <2>5. /\ driverHistory' \in Seq(Change)
        /\ Len(driverHistory) <= Len(driverHistory')
    BY <1>5, <2>4, KnownTypes DEF ChangeDriver
  <2>6. UNCHANGED documents
    BY <1>5 DEF ChangeDriver, papers
  <2>7. call' \in [Calls -> Call] /\ RequestsFit'
    BY <1>1, FinishTypes
  <2>8. QED
    BY <1>1, <2>3, <2>5, <2>6, <2>7, ServedTypes, KnownTypes
<1>6. CASE WriteDocument(c)
  <2>1. call[c].want.op \in {"add", "edit"}
    BY <1>6, KnownTypes DEF WriteDocument, Fits
  <2>2. want.content \in Verification
    BY <1>2, <2>1, RequestTypes
  <2>3. documents' \in [Calls -> Verification \cup {NoDocument}]
    BY <1>2, <1>6, <2>2, KnownTypes DEF WriteDocument
  <2>4. driver' \in Driver
    BY <1>6, KnownTypes DEF WriteDocument, Driver, Status
  <2>5. UNCHANGED driverHistory
    BY <1>6 DEF WriteDocument, histories
  <2>6. call' \in [Calls -> Call] /\ RequestsFit'
    BY <1>1, FinishTypes
  <2>7. QED
    BY <1>1, <2>3, <2>4, <2>5, <2>6, ServedTypes, KnownTypes
<1>7. QED
  BY <1>3, <1>4, <1>5, <1>6

\* What an alignment asks for.
LEMMA AskedTypes ==
  ASSUME TypeInv, NEW c \in Calls, At(c, "committing"),
         NEW field \in {"joined", "licence"}
  PROVE  Asked(c, field) \in Values
<1>1. PICK want \in Requests \cup {NoRequest} : want = call[c].want
  BY KnownTypes
<1>2. want.op \in {"create", "update"}
  BY <1>1, KnownTypes DEF Fits
<1>3. want.op = "update" => want.joined \in Values /\ want.licence \in Values
  BY RequestTypes
<1>4. QED
  BY <1>1, <1>2, <1>3 DEF Asked, Values

\* The licences after an alignment are licences.
LEMMA AlignedLicencesType ==
  ASSUME TypeInv, NEW c \in Calls, At(c, "committing")
  PROVE  AlignedLicences(c) \in SUBSET Licence
<1> DEFINE found == Selected(call[c].licences)
           number == Read(Asked(c, "licence"),
                          Read(found.number, call[c].member.meta.licence))
<1>1. found \in Licence
  BY SelectedType, KnownTypes
<1>2. number \in Values
  BY <1>1, AskedTypes, KnownTypes DEF Licence, Read, Member, Metadata
<1>3. \A l \in licences : /\ l \in Licence
                          /\ [l EXCEPT !.number = number, !.first = TRUE]
                               \in Licence
  BY <1>2, KnownTypes DEF Licence
<1>4. [by |-> c, number |-> number, first |-> TRUE] \in Licence
  BY <1>2 DEF Licence
<1> HIDE DEF found, number
<1>5. AlignedLicences(c) =
        IF "licence" \notin Touches(c) THEN licences
        ELSE IF call[c].licences # {}
        THEN {IF l.by = found.by
              THEN [l EXCEPT !.number = number, !.first = TRUE]
              ELSE l : l \in licences}
        ELSE IF number # Missing
        THEN licences \cup {[by |-> c, number |-> number, first |-> TRUE]}
        ELSE licences
  BY DEF AlignedLicences, found, number
<1>6. {IF l.by = found.by THEN [l EXCEPT !.number = number, !.first = TRUE]
       ELSE l : l \in licences} \in SUBSET Licence
  BY <1>3
<1>7. QED
  BY <1>3, <1>4, <1>5, <1>6

\* Aligning the extensions keeps the types.
LEMMA CommitTypes ==
  ASSUME TypeInv, NEW c \in Calls, UNCHANGED script, CommitExtensions(c)
  PROVE  TypeInv'
<1>1. UNCHANGED <<driver, documents, credentials, driverHistory, memberHistory,
                  copied, setting>>
  BY DEF CommitExtensions, papers, histories
<1>2. call' \in [Calls -> Call] /\ RequestsFit'
  BY FinishTypes DEF CommitExtensions
<1>3. CASE UNCHANGED <<member, extensions>>
  BY <1>1, <1>2, <1>3, ServedTypes, KnownTypes DEF extensions
<1>4. CASE ~UNCHANGED <<member, extensions>>
  <2>1. profile' = IF Asked(c, "joined") = Missing THEN profile
                   ELSE [joined |-> Asked(c, "joined"), first |-> TRUE]
    BY <1>4 DEF CommitExtensions
  <2>2. profile' \in Profile
    BY <2>1, AskedTypes, KnownTypes DEF CommitExtensions, Profile
  <2>3. licences' \in SUBSET Licence
    BY <1>4, AlignedLicencesType DEF CommitExtensions
  <2>4. Selected(licences') \in Licence
    BY <2>3, SelectedType
  <2>5. PICK meta \in Metadata, onboarding \in Onboarding :
          member' = [member EXCEPT !.status.ONBOARDING_STATUS = onboarding,
                                   !.meta = meta]
    <3>1. /\ call[c].member.meta \in Metadata
          /\ call[c].member.status.ONBOARDING_STATUS \in Onboarding
      BY KnownTypes DEF Member, Status
    <3>2. [joined |-> Read(profile'.joined, call[c].member.meta.joined),
           licence |-> Read(Selected(licences').number,
                            call[c].member.meta.licence),
           owned |-> TRUE] \in Metadata
      BY <2>2, <2>4, <3>1 DEF Profile, Licence, Read, Metadata
    <3>3. QED
      BY <1>4, <3>1, <3>2 DEF CommitExtensions
  <2>6. [member.status EXCEPT !.ONBOARDING_STATUS = onboarding] \in Status
    BY KnownTypes DEF Member, Status
  <2>7. member' \in Member
    BY <2>5, <2>6, KnownTypes DEF Member
  <2>8. QED
    BY <1>1, <1>2, <2>2, <2>3, <2>7, ServedTypes, KnownTypes
<1>5. QED
  BY <1>3, <1>4

\* The rows and what the script knows.
LEMMA ScriptKnows ==
  ASSUME TypeInv
  PROVE  /\ script \in
              [pc : ScriptPcs, runs : Nat, driver : Driver, member : Member,
               profile : Profile, licences : SUBSET Licence,
               documents : [Calls -> Verification \cup {NoDocument}],
               history : Nat]
         /\ script.history <= Len(driverHistory)
         /\ driver \in Driver /\ member \in Member /\ profile \in Profile
         /\ licences \in SUBSET Licence /\ Len(driverHistory) \in Nat
         /\ documents \in [Calls -> Verification \cup {NoDocument}]
         /\ credentials \in [Calls -> Verification \cup {NoDocument}]
         /\ copied \in 0 .. Len(driverHistory)
BY DEF TypeInv, TypeOK, RecordsTypeOK

\* What the script may disturb of the types.
LEMMA ScriptTypes ==
  ASSUME TypeInv, UNCHANGED <<driver, documents, driverHistory, memberHistory,
                              call, setting>>,
         member' \in Member, profile' \in Profile,
         licences' \in SUBSET Licence, copied' \in 0 .. Len(driverHistory),
         credentials' \in [Calls -> Verification \cup {NoDocument}],
         script' \in
           [pc : ScriptPcs, runs : Nat, driver : Driver, member : Member,
            profile : Profile, licences : SUBSET Licence,
            documents : [Calls -> Verification \cup {NoDocument}],
            history : Nat],
         script'.history <= Len(driverHistory)
  PROVE  TypeInv'
<1>1. RecordsTypeOK'
  BY DEF TypeInv, TypeOK, RecordsTypeOK
<1>2. RequestsFit'
  BY DEF TypeInv, RequestsFit
<1>3. QED
  BY <1>1, <1>2 DEF TypeInv, TypeOK

\* The steps of the script keep the types.
LEMMA RunTypes == TypeInv /\ RunScript => TypeInv'
<1> SUFFICES ASSUME TypeInv, RunScript PROVE TypeInv'
  OBVIOUS
<1> DEFINE ScriptSet ==
      [pc : ScriptPcs, runs : Nat, driver : Driver, member : Member,
       profile : Profile, licences : SUBSET Licence,
       documents : [Calls -> Verification \cup {NoDocument}], history : Nat]
<1>1. \A pc \in ScriptPcs : [script EXCEPT !.pc = pc] \in ScriptSet
  BY ScriptKnows
<1>2. CASE \/ ReadDrivers \/ ReadDocuments \/ ReadHistory \/ ReadMember
           \/ Report \/ StopScript
  <2>1. /\ UNCHANGED <<driver, documents, driverHistory, memberHistory, call,
                       setting>>
        /\ UNCHANGED <<member, profile, licences, credentials, copied>>
    BY <1>2
    DEF ReadDrivers, ReadDocuments, ReadHistory, ReadMember, Report, StopScript,
        records, extensions, papers, histories
  <2>2. script' \in ScriptSet /\ script'.history <= Len(driverHistory)
    <3>1. CASE ReadDrivers
      <4>1. PICK d \in Driver : script' =
              [script EXCEPT !.pc = "members", !.runs = @ + 1, !.driver = d]
        BY <3>1, ScriptKnows DEF ReadDrivers
      <4>2. "members" \in ScriptPcs /\ script.runs + 1 \in Nat
        BY ScriptKnows DEF ScriptPcs
      <4>3. script'.history = script.history
        BY <4>1, ScriptKnows
      <4>4. QED
        BY <4>1, <4>2, <4>3, ScriptKnows
    <3>2. CASE ReadDocuments
      BY <3>2, ScriptKnows DEF ReadDocuments, ScriptPcs
    <3>3. CASE ReadHistory
      <4> DEFINE n == IF Ours THEN Len(driverHistory) ELSE 0
      <4>1. script' = [script EXCEPT !.pc = "histories", !.history = n]
        BY <3>3 DEF ReadHistory
      <4>2. "histories" \in ScriptPcs /\ n \in Nat
        BY ScriptKnows DEF ScriptPcs
      <4>3. n <= Len(driverHistory)
        BY ScriptKnows
      <4> HIDE DEF n
      <4>4. script'.history = n
        BY <4>1, ScriptKnows
      <4>5. script' \in ScriptSet
        BY <4>1, <4>2, ScriptKnows
      <4>6. QED
        BY <4>3, <4>4, <4>5
    <3>4. CASE ReadMember
      BY <3>4, ScriptKnows DEF ReadMember, ScriptPcs
    <3>5. CASE Report \/ StopScript
      <4>1. script' = NotRunning(script.runs) /\ script.runs \in Nat
        BY <3>5, ScriptKnows DEF Report, StopScript
      <4>2. NotRunning(script.runs).history = 0
        BY DEF NotRunning
      <4>3. NotRunning(script.runs) \in ScriptSet
        BY <4>1, BlankTypes
      <4>4. script'.history = 0 /\ 0 <= Len(driverHistory)
        BY <4>1, <4>2, ScriptKnows
      <4>5. QED
        BY <4>1, <4>3, <4>4
    <3>6. QED
      BY <1>2, <3>1, <3>2, <3>3, <3>4, <3>5
  <2>3. QED
    BY <2>1, <2>2, ScriptTypes, ScriptKnows
<1>3. CASE UpsertMember
  <2>1. UNCHANGED <<driver, documents, driverHistory, memberHistory, call,
                    setting, profile, licences, credentials, copied>>
    BY <1>3 DEF UpsertMember, extensions, papers, histories
  <2>2. member' \in Member
    BY <1>3, ScriptKnows
    DEF UpsertMember, Member, Driver, Metadata, RowState
  <2>3. script' \in ScriptSet /\ script'.history <= Len(driverHistory)
    BY <1>3, ScriptKnows DEF UpsertMember, ScriptPcs
  <2>4. QED
    BY <2>1, <2>2, <2>3, ScriptTypes, ScriptKnows
<1>4. CASE \E d \in Calls : CopyDocument(d)
  <2>1. UNCHANGED <<driver, documents, driverHistory, memberHistory, call,
                    setting, member, profile, licences, copied>>
    BY <1>4 DEF CopyDocument, extensions, histories
  <2>2. PICK d \in Calls :
          /\ credentials' = [credentials EXCEPT ![d] = script.documents[d]]
          /\ script' = [script EXCEPT !.documents =
                          [@ EXCEPT ![d] = NoDocument]]
    BY <1>4 DEF CopyDocument
  <2>3. credentials' \in [Calls -> Verification \cup {NoDocument}]
    BY <2>2, ScriptKnows
  <2>4. script' \in ScriptSet /\ script'.history <= Len(driverHistory)
    BY <2>2, ScriptKnows
  <2>5. QED
    BY <2>1, <2>3, <2>4, ScriptTypes, ScriptKnows
<1>5. CASE CopyHistory
  <2>1. UNCHANGED <<driver, documents, driverHistory, memberHistory, call,
                    setting, member, profile, licences, credentials, script>>
    BY <1>5 DEF CopyHistory, extensions, papers
  <2>2. copied' \in 0 .. Len(driverHistory)
    BY <1>5, ScriptKnows DEF CopyHistory
  <2>3. QED
    BY <2>1, <2>2, ScriptTypes, ScriptKnows
<1>6. CASE PopulateProfile
  <2>1. UNCHANGED <<driver, documents, driverHistory, memberHistory, call,
                    setting, member, licences, credentials, copied>>
    BY <1>6 DEF PopulateProfile, papers, histories
  <2>2. profile' \in Profile
    BY <1>6, ScriptKnows DEF PopulateProfile, Profile, Member, Metadata
  <2>3. script' \in ScriptSet /\ script'.history <= Len(driverHistory)
    BY <1>6, ScriptKnows DEF PopulateProfile, ScriptPcs
  <2>4. QED
    BY <2>1, <2>2, <2>3, ScriptTypes, ScriptKnows
<1>7. CASE PopulateLicence
  <2>1. UNCHANGED <<driver, documents, driverHistory, memberHistory, call,
                    setting, member, profile, credentials, copied>>
    BY <1>7 DEF PopulateLicence, papers, histories
  <2>2. licences' \in SUBSET Licence
    <3>1. [by |-> Script, first |-> FALSE,
           number |-> script.member.meta.licence] \in Licence
      BY ScriptKnows DEF Licence, Member, Metadata
    <3>2. QED
      BY <1>7, <3>1, ScriptKnows DEF PopulateLicence
  <2>3. script' \in ScriptSet /\ script'.history <= Len(driverHistory)
    BY <1>7, ScriptKnows DEF PopulateLicence, ScriptPcs
  <2>4. QED
    BY <2>1, <2>2, <2>3, ScriptTypes, ScriptKnows
<1>8. QED
  BY <1>2, <1>3, <1>4, <1>5, <1>6, <1>7 DEF RunScript

\* Every step of the specification preserves the types.
LEMMA StepTypeInv == TypeInv /\ [Next]_vars => TypeInv'
<1> SUFFICES ASSUME TypeInv, [Next]_vars PROVE TypeInv'
  OBVIOUS
<1>1. CASE Serve /\ UNCHANGED script
  BY <1>1, BeginTypes, ReadTypes, CreateTypes, MemberTypes, DriverTypes,
     CommitTypes
  DEF Serve, Continue
<1>2. CASE RunScript
  BY <1>2, RunTypes
<1>3. CASE UNCHANGED vars
  BY <1>3
  DEF vars, records, extensions, papers, histories, TypeInv, TypeOK,
      RecordsTypeOK, RequestsFit
<1>4. QED
  BY <1>1, <1>2, <1>3 DEF Next

\* The types always hold, and what fits the requests.
LEMMA TypeInvAlways == Spec => []TypeInv
BY InitTypeInv, StepTypeInv, PTL DEF Spec

\* Whatever requests and script do to one another, the rows of a driver and
\* what they have read always have their types.
THEOREM TypeCorrect == Spec => []TypeOK
<1>1. TypeInv => TypeOK
  BY DEF TypeInv
<1>2. QED
  BY <1>1, TypeInvAlways, PTL

------------------------------------------------------------------------------
(* Driver and member                                                       *)

\* Where the script runs alone, it finds no request under way, and what it
\* holds to be the driver is the driver; a request goes on for a driver there
\* is; and an archive writes to the driver when there is no member, and to the
\* member when there is one.
AloneInv ==
  ~setting.overlaps =>
    /\ ~ScriptAt("off") =>
         /\ InFlight = {}
         /\ driver.state = "active" => script.driver = driver
         /\ Ours => driver.state = "active"
    /\ ScriptAt("off") => script.driver = NoDriver
    /\ member.state \in {"none", driver.state}
    /\ \A c \in Calls :
         /\ call[c].pc \notin {"idle", "done", "creating"} =>
              driver.state # "none"
         /\ At(c, "legacy") /\ Want(c).op = "archive" => member.state = "none"
         /\ At(c, "writing") /\ Want(c).op = "archive" =>
              member.state # "none"

\* A driver has its date and its licence.
FieldsKnown ==
  driver.state = "active" =>
    driver.joined # Missing /\ driver.licence # Missing

\* A step of a request is one of a request under way, and its own.
LEMMA ContinuesInFlight ==
  ASSUME NEW c \in Calls, Continue(c)
  PROVE  c \in InFlight
BY DEF Continue, CreateRows, FindCanonical, FindCredential, FindMember,
       UpdateMember, ArchiveMember, ChangeMember, WriteCredential,
       UpdateDriver, ArchiveDriver, ChangeDriver, Recalculate, WriteDocument,
       FindForAlignment, ReadExtensions, CommitExtensions, StopCall,
       InFlight

\* A step of a request changes no other request.
LEMMA ContinuesAlone ==
  ASSUME TypeInv, NEW c \in Calls, Continue(c)
  PROVE  \A e \in Calls \ {c} : call'[e] = call[e]
<1>1. call \in [Calls -> Call]
  BY DEF TypeInv, TypeOK, RecordsTypeOK
<1>2. QED
  BY <1>1
  DEF Continue, CreateRows, FindCanonical, FindCredential, FindMember,
      UpdateMember, ArchiveMember, ChangeMember, WriteCredential,
      UpdateDriver, ArchiveDriver, ChangeDriver, Recalculate, WriteDocument,
      FindForAlignment, ReadExtensions, CommitExtensions, StopCall

\* Where the script runs alone, no request takes a step beside it.
LEMMA ServesAlone ==
  ASSUME AloneInv, ~setting.overlaps, Serve
  PROVE  ScriptAt("off")
BY ContinuesInFlight DEF AloneInv, Serve, Begin

\* What a request may do to the states of the rows, and where it goes then.
LEMMA ContinuesStates ==
  ASSUME TypeInv, AloneInv, ~setting.overlaps, NEW c \in Calls, Continue(c)
  PROVE  /\ UNCHANGED setting
         /\ driver'.state # driver.state =>
              \/ driver.state = "none" /\ driver'.state = "active"
              \/ driver.state = "active" /\ driver'.state = "archived"
         /\ member'.state \in {"none", driver'.state}
         /\ member'.state # member.state =>
              \/ driver.state = "none"
              \/ member'.state = "archived" /\ member.state # "none"
         /\ call'[c].pc \notin {"idle", "done", "creating"} =>
              driver'.state # "none"
         /\ At(c, "legacy")' /\ Want(c)'.op = "archive" =>
              member'.state = "none"
         /\ At(c, "writing")' /\ Want(c)'.op = "archive" =>
              member'.state # "none"
<1>1. /\ member.state \in {"none", driver.state}
      /\ call[c].pc \notin {"idle", "done", "creating"} =>
           driver.state # "none"
      /\ At(c, "legacy") /\ Want(c).op = "archive" => member.state = "none"
      /\ At(c, "writing") /\ Want(c).op = "archive" => member.state # "none"
  BY DEF AloneInv
<1>2. CASE \/ FindCanonical(c) \/ FindCredential(c) \/ FindMember(c)
           \/ Recalculate(c) \/ FindForAlignment(c) \/ ReadExtensions(c)
           \/ StopCall(c)
  <2>1. UNCHANGED <<driver, member, setting>>
    BY <1>2
    DEF FindCanonical, FindCredential, FindMember, Recalculate,
        FindForAlignment, ReadExtensions, StopCall, records
  <2>2. CASE Finish(c)
    BY <1>1, <2>1, <2>2, KnownTypes, DoneFits
  <2>3. CASE ~Finish(c)
    <3>1. call[c].pc \notin {"idle", "done", "creating"}
      BY <1>2, <2>3
      DEF FindCanonical, FindCredential, FindMember, Recalculate,
          FindForAlignment, ReadExtensions, StopCall
    <3>2. At(c, "legacy")' /\ Want(c)'.op = "archive" => member.state = "none"
      <4>1. CASE FindCanonical(c)
        <5>1. Want(c)' = Want(c)
          BY <4>1, <2>3, KnownTypes DEF FindCanonical, Call
        <5>2. At(c, "legacy")' /\ Want(c).op = "archive" =>
                member.state # "active"
          BY <4>1, <2>3, KnownTypes DEF FindCanonical, Canonical, Call
        <5>3. Want(c).op = "archive" => member.state # "archived"
          BY <4>1, <2>3 DEF FindCanonical, Conflict
        <5>4. member.state \in {"none", "active", "archived"}
          BY KnownTypes DEF Member, RowState
        <5>5. QED
          BY <5>1, <5>2, <5>3, <5>4
      <4>2. CASE FindCredential(c)
        BY <4>2, <2>3, KnownTypes DEF FindCredential, Fits, Call
      <4>3. CASE FindMember(c) \/ Recalculate(c) \/ FindForAlignment(c)
                 \/ ReadExtensions(c)
        <5>1. call'[c].pc # "legacy"
          BY <4>3, <2>3, KnownTypes
          DEF FindMember, Recalculate, FindForAlignment, ReadExtensions, Call
        <5>2. QED
          BY <5>1
      <4>4. QED
        BY <1>2, <2>3, <4>1, <4>2, <4>3 DEF StopCall
    <3>3. At(c, "writing")' /\ Want(c)'.op = "archive" => member.state # "none"
      <4>1. CASE FindMember(c)
        BY <4>1, <2>3 DEF FindMember
      <4>2. CASE FindCredential(c)
        BY <4>2, <2>3, KnownTypes DEF FindCredential, Fits, Call
      <4>3. CASE FindCanonical(c) \/ Recalculate(c) \/ FindForAlignment(c)
                 \/ ReadExtensions(c)
        <5>1. call'[c].pc # "writing"
          BY <4>3, <2>3, KnownTypes
          DEF FindCanonical, Recalculate, FindForAlignment, ReadExtensions, Call
        <5>2. QED
          BY <5>1
      <4>4. QED
        BY <1>2, <2>3, <4>1, <4>2, <4>3 DEF StopCall
    <3>4. QED
      BY <1>1, <2>1, <3>1, <3>2, <3>3
  <2>4. QED
    BY <2>2, <2>3
<1>3. CASE CreateRows(c)
  <2>1. /\ call'[c].pc \in {"aligning", "done"} /\ UNCHANGED setting
        /\ driver.state = "none" => /\ driver'.state = "active"
                                    /\ member'.state = "active"
        /\ driver.state # "none" => /\ UNCHANGED <<driver, member>>
                                    /\ call'[c].pc = "done"
    <3>1. /\ driver \in Driver /\ NoMember \in Member
          /\ call \in [Calls -> Call] /\ UNCHANGED setting
      BY <1>3, KnownTypes, BlankTypes DEF CreateRows
    <3>2. CASE driver.state = "none"
      <4>1. /\ Goto(c, "aligning")
            /\ member' = [NoMember EXCEPT !.state = "active"]
            /\ driver' = [driver EXCEPT !.state = "active",
                 !.joined = Want(c).joined, !.licence = Want(c).licence]
        BY <1>3, <3>2 DEF CreateRows
      <4>2. driver'.state = "active"
        BY <3>1, <4>1 DEF Driver
      <4>3. member'.state = "active"
        BY <3>1, <4>1 DEF Member
      <4>4. call'[c].pc = "aligning"
        BY <3>1, <4>1 DEF Call
      <4>5. QED
        BY <3>1, <3>2, <4>2, <4>3, <4>4
    <3>3. CASE driver.state # "none"
      BY <1>3, <3>1, <3>3, DoneFits DEF CreateRows
    <3>4. QED
      BY <3>1, <3>2, <3>3
  <2>2. QED
    BY <1>1, <2>1
<1>4. CASE ArchiveMember(c)
  <2>1. /\ call'[c].pc = "done" /\ UNCHANGED setting
        /\ member'.state = "archived"
        /\ driver.state = "active" => driver'.state = "archived"
        /\ driver.state # "active" => UNCHANGED driver
    BY <1>4, KnownTypes, DoneFits DEF ArchiveMember, Driver, Member
  <2>2. driver.state \in {"active", "archived"} /\ member.state # "none"
    BY <1>1, <1>4, KnownTypes DEF ArchiveMember, Driver, RowState
  <2>3. QED
    BY <2>1, <2>2
<1>5. CASE ArchiveDriver(c)
  <2>1. /\ call'[c].pc = "done" /\ UNCHANGED <<member, setting>>
        /\ driver'.state = "archived"
    BY <1>5, KnownTypes, DoneFits DEF ArchiveDriver, Driver
  <2>2. driver.state \in {"active", "archived"} /\ member.state = "none"
    BY <1>1, <1>5, KnownTypes DEF ArchiveDriver, Driver, RowState
  <2>3. QED
    BY <2>1, <2>2
<1>6. CASE \/ UpdateMember(c) \/ ChangeMember(c) \/ WriteCredential(c)
           \/ UpdateDriver(c) \/ ChangeDriver(c) \/ WriteDocument(c)
           \/ CommitExtensions(c)
  <2>1. call'[c].pc \in {"aligning", "done"} /\ UNCHANGED setting
    BY <1>6, KnownTypes, DoneFits
    DEF UpdateMember, ChangeMember, WriteCredential, UpdateDriver, ChangeDriver,
        WriteDocument, CommitExtensions, Call
  <2>2. UNCHANGED <<driver.state, member.state>>
    <3>1. driver \in Driver /\ member \in Member
      BY KnownTypes
    <3>2. CASE WriteCredential(c) \/ ChangeMember(c)
      BY <3>1, <3>2 DEF WriteCredential, ChangeMember, Member
    <3>3. CASE UpdateMember(c)
      BY <3>1, <3>3 DEF UpdateMember, Member
    <3>4. CASE UpdateDriver(c) \/ ChangeDriver(c) \/ WriteDocument(c)
      BY <3>1, <3>4 DEF UpdateDriver, ChangeDriver, WriteDocument, Driver
    <3>5. CASE CommitExtensions(c)
      BY <3>1, <3>5 DEF CommitExtensions, Member
    <3>6. QED
      BY <1>6, <3>2, <3>3, <3>4, <3>5
  <2>3. call[c].pc \notin {"idle", "done", "creating"}
    BY <1>6
    DEF UpdateMember, ChangeMember, WriteCredential, UpdateDriver, ChangeDriver,
        WriteDocument, CommitExtensions
  <2>4. QED
    BY <1>1, <2>1, <2>2, <2>3
<1>7. QED
  BY <1>2, <1>3, <1>4, <1>5, <1>6 DEF Continue

\* What the script does to the states of the rows.
LEMMA RunStates ==
  ASSUME TypeInv, AloneInv, ~setting.overlaps, RunScript
  PROVE  /\ UNCHANGED <<driver, call, setting>>
         /\ InFlight = {}
         /\ member'.state # member.state =>
              member'.state = "active" /\ driver.state = "active"
         /\ ~ScriptAt("off")' =>
              /\ driver.state = "active" => script'.driver = driver
              /\ Ours' => driver.state = "active"
         /\ ScriptAt("off")' => script'.driver = NoDriver
<1>1. /\ ~ScriptAt("off") =>
           /\ InFlight = {}
           /\ driver.state = "active" => script.driver = driver
           /\ Ours => driver.state = "active"
      /\ ScriptAt("off") => script.driver = NoDriver
  BY DEF AloneInv
<1>2. CASE ReadDrivers
  <2>1. /\ UNCHANGED <<driver, call, setting, member>> /\ InFlight = {}
        /\ script.driver.state = "none" /\ script'.pc = "members"
        /\ script'.driver = IF driver.state = "active" THEN driver
                            ELSE script.driver
    BY <1>1, <1>2, ScriptKnows DEF ReadDrivers, records, NoDriver
  <2>2. QED
    BY <2>1 DEF Ours
<1>3. CASE UpsertMember
  <2>1. /\ UNCHANGED <<driver, call, setting>>
        /\ script'.pc = "documents" /\ script'.driver = script.driver
    BY <1>3, ScriptKnows DEF UpsertMember
  <2>2. member'.state # member.state => member'.state = "active" /\ Ours
    BY <1>3 DEF UpsertMember
  <2>3. ~ScriptAt("off")
    BY <1>3 DEF UpsertMember
  <2>4. QED
    BY <1>1, <2>1, <2>2, <2>3 DEF Ours
<1>4. CASE \/ ReadDocuments \/ (\E d \in Calls : CopyDocument(d))
           \/ ReadHistory \/ CopyHistory
           \/ ReadMember \/ PopulateProfile \/ PopulateLicence
  <2>1. UNCHANGED <<driver, call, setting, member>> /\ ~ScriptAt("off")
    BY <1>4
    DEF ReadDocuments, CopyDocument, ReadHistory, CopyHistory, ReadMember,
        PopulateProfile, PopulateLicence, records
  <2>2. script'.pc # "off" /\ script'.driver = script.driver
    BY <1>4, ScriptKnows
    DEF ReadDocuments, CopyDocument, ReadHistory, CopyHistory, ReadMember,
        PopulateProfile, PopulateLicence
  <2>3. QED
    BY <1>1, <2>1, <2>2 DEF Ours
<1>5. CASE Report \/ StopScript
  <2>1. /\ UNCHANGED <<driver, call, setting, member>> /\ ~ScriptAt("off")
        /\ script' = NotRunning(script.runs)
    BY <1>5 DEF Report, StopScript, records
  <2>2. script'.pc = "off" /\ script'.driver = NoDriver
    BY <2>1 DEF NotRunning
  <2>3. QED
    BY <1>1, <2>1, <2>2
<1>6. QED
  BY <1>2, <1>3, <1>4, <1>5 DEF RunScript

\* Every step of the specification preserves AloneInv.
LEMMA StepAlone == TypeInv /\ AloneInv /\ [Next]_vars => AloneInv'
<1> SUFFICES ASSUME TypeInv, AloneInv, [Next]_vars PROVE AloneInv'
  OBVIOUS
<1>1. UNCHANGED setting
  BY DEF Next, Serve, Begin, CheckNew, Start, Continue, CreateRows,
         FindCanonical, FindCredential, FindMember, UpdateMember,
         ArchiveMember, ChangeMember, WriteCredential, UpdateDriver,
         ArchiveDriver, ChangeDriver, Recalculate, WriteDocument,
         FindForAlignment, ReadExtensions, CommitExtensions, StopCall,
         RunScript, ReadDrivers, UpsertMember, ReadDocuments, CopyDocument,
         ReadHistory, CopyHistory, ReadMember, PopulateProfile,
         PopulateLicence, Report, StopScript, vars
<1> SUFFICES ASSUME ~setting.overlaps PROVE AloneInv'
  BY <1>1 DEF AloneInv
<1>2. ASSUME NEW c \in Calls, NEW want \in setting.requests,
             Begin(c, want), UNCHANGED script
      PROVE  AloneInv'
  <2>1. ScriptAt("off") /\ UNCHANGED <<driver, member, setting>>
    BY <1>2 DEF Begin, CheckNew, Start, records
  <2>2. \A e \in Calls \ {c} : call'[e] = call[e]
    BY <1>2, KnownTypes DEF Begin, CheckNew, Start
  <2>3. \/ call'[c].pc = "creating"
        \/ call'[c].pc = "canonical" /\ driver.state = "active"
    BY <1>2, KnownTypes DEF Begin, CheckNew, Start, Call
  <2>4. \A e \in Calls :
          /\ call'[e].pc \notin {"idle", "done", "creating"} =>
               driver.state # "none"
          /\ At(e, "legacy")' /\ Want(e)'.op = "archive" =>
               member.state = "none"
          /\ At(e, "writing")' /\ Want(e)'.op = "archive" =>
               member.state # "none"
    BY <2>2, <2>3 DEF AloneInv
  <2>5. QED
    BY <1>2, <2>1, <2>4 DEF AloneInv, Ours
<1>3. ASSUME NEW c \in Calls, Continue(c), UNCHANGED script
      PROVE  AloneInv'
  <2>1. ScriptAt("off")
    BY <1>3, ServesAlone DEF Serve
  <2>2. \A e \in Calls \ {c} : call'[e] = call[e]
    BY <1>3, ContinuesAlone
  <2>3. \A e \in Calls \ {c} :
          /\ call'[e].pc \notin {"idle", "done", "creating"} =>
               driver'.state # "none"
          /\ At(e, "legacy")' /\ Want(e)'.op = "archive" =>
               member'.state = "none"
          /\ At(e, "writing")' /\ Want(e)'.op = "archive" =>
               member'.state # "none"
    <3>1. \A e \in Calls \ {c} :
            /\ call[e].pc \notin {"idle", "done", "creating"} =>
                 driver.state # "none"
            /\ At(e, "legacy") /\ Want(e).op = "archive" =>
                 member.state = "none"
            /\ At(e, "writing") /\ Want(e).op = "archive" =>
                 member.state # "none"
      BY DEF AloneInv
    <3>2. driver.state # "none" => /\ driver'.state # "none"
                                   /\ (member'.state = "none") =
                                        (member.state = "none")
      BY <1>3, ContinuesStates
    <3>3. QED
      BY <2>2, <3>1, <3>2
  <2>4. QED
    BY <1>3, <2>1, <2>3, ContinuesStates DEF AloneInv
<1>4. CASE RunScript
  <2>1. \A c \in Calls : call[c].pc \in {"idle", "done"}
    BY <1>4, RunStates DEF InFlight
  <2>2. InFlight' = {} /\ UNCHANGED <<driver, call>>
    BY <1>4, RunStates DEF InFlight
  <2>3. member'.state \in {"none", driver.state}
    BY <1>4, RunStates DEF AloneInv
  <2>4. QED
    BY <1>4, <2>1, <2>2, <2>3, RunStates DEF AloneInv
<1>5. CASE UNCHANGED vars
  BY <1>5 DEF vars, records, AloneInv, InFlight, Ours
<1>6. QED
  BY <1>2, <1>3, <1>4, <1>5 DEF Next, Serve

\* Init establishes AloneInv and FieldsKnown.
LEMMA InitAlone == Init => AloneInv /\ FieldsKnown
BY DEF Init, RecordsInit, AloneInv, FieldsKnown, InFlight, Resting, NotRunning,
       NoMember, NoDriver, Missing

\* Every step keeps the date and the licence of a driver there is.
LEMMA StepFields == TypeInv /\ FieldsKnown /\ [Next]_vars => FieldsKnown'
<1> SUFFICES ASSUME TypeInv, FieldsKnown, [Next]_vars PROVE FieldsKnown'
  OBVIOUS
<1>1. ASSUME NEW c \in Calls, CreateRows(c)
      PROVE  FieldsKnown'
  <2>1. PICK want \in Requests \cup {NoRequest} : want = call[c].want
    BY KnownTypes
  <2>2. want.op = "create"
    BY <1>1, <2>1, KnownTypes DEF CreateRows, Fits
  <2>3. want.joined # Missing /\ want.licence # Missing
    BY <2>2, RequestTypes
  <2>4. CASE driver.state = "none"
    <3>1. driver' = [driver EXCEPT !.state = "active", !.joined = want.joined,
                                   !.licence = want.licence]
      BY <1>1, <2>1, <2>4 DEF CreateRows
    <3>2. QED
      BY <2>3, <3>1, KnownTypes DEF FieldsKnown, Driver
  <2>5. CASE driver.state # "none"
    BY <1>1, <2>5 DEF CreateRows, FieldsKnown
  <2>6. QED
    BY <2>4, <2>5
<1>2. ASSUME NEW c \in Calls, UpdateDriver(c)
      PROVE  FieldsKnown'
  <2>1. PICK link \in Values, status \in Operational :
          driver' = [driver EXCEPT !.link = link,
            !.joined = Read(Want(c).joined, @),
            !.licence = Read(Want(c).licence, @),
            !.status.OPERATIONAL_STATUS = status]
    <3>1. PICK want \in Requests \cup {NoRequest} : want = call[c].want
      BY KnownTypes
    <3>2. want.status \in Operational \cup {""}
      BY <1>2, <3>1, RequestTypes DEF UpdateDriver
    <3>3. /\ driver.link \in Values /\ 2 \in Values
          /\ driver.status.OPERATIONAL_STATUS \in Operational
      BY KnownTypes DEF Driver, Status, Values
    <3>4. QED
      BY <1>2, <3>1, <3>2, <3>3 DEF UpdateDriver
  <2>2. /\ driver'.state = driver.state
        /\ driver'.joined = Read(Want(c).joined, driver.joined)
        /\ driver'.licence = Read(Want(c).licence, driver.licence)
    BY <2>1, KnownTypes DEF Driver
  <2>3. QED
    BY <2>2 DEF FieldsKnown, Read
<1>3. ASSUME NEW c \in Calls,
             \/ ArchiveMember(c) \/ ArchiveDriver(c) \/ ChangeDriver(c)
             \/ WriteDocument(c)
      PROVE  FieldsKnown'
  <2>1. /\ driver'.joined = driver.joined /\ driver'.licence = driver.licence
        /\ driver'.state \in {driver.state, "archived"}
    BY <1>3, KnownTypes
    DEF ArchiveMember, ArchiveDriver, ChangeDriver, WriteDocument, Driver
  <2>2. QED
    BY <2>1 DEF FieldsKnown
<1>4. ASSUME UNCHANGED driver
      PROVE  FieldsKnown'
  BY <1>4 DEF FieldsKnown
<1>5. CASE Serve
  <2>1. ASSUME NEW c \in Calls, NEW want \in setting.requests, Begin(c, want)
        PROVE  UNCHANGED driver
    BY <2>1 DEF Begin, CheckNew, Start, records
  <2>2. ASSUME NEW c \in Calls, Continue(c)
        PROVE  \/ UNCHANGED driver
               \/ CreateRows(c) \/ UpdateDriver(c) \/ ArchiveMember(c)
               \/ ArchiveDriver(c) \/ ChangeDriver(c) \/ WriteDocument(c)
    BY <2>2
    DEF Continue, FindCanonical, FindCredential, FindMember, UpdateMember,
        ChangeMember, WriteCredential, Recalculate, FindForAlignment,
        ReadExtensions, CommitExtensions, StopCall, records
  <2>3. QED
    BY <1>1, <1>2, <1>3, <1>4, <1>5, <2>1, <2>2 DEF Serve
<1>6. CASE RunScript
  BY <1>4, <1>6
  DEF RunScript, ReadDrivers, UpsertMember, ReadDocuments, CopyDocument,
      ReadHistory, CopyHistory, ReadMember, PopulateProfile, PopulateLicence,
      Report, StopScript, records
<1>7. QED
  BY <1>4, <1>5, <1>6 DEF Next, vars, records

\* Where the script runs alone, driver and member are archived together, and
\* there is no member without a driver, however requests overlap and wherever
\* requests and script are broken off (archive of both services).
THEOREM ArchivedTogether == Spec => []LifecyclesAgree
<1>1. TypeInv /\ AloneInv /\ [Next]_vars => AloneInv'
  BY StepAlone
<1>2. AloneInv => LifecyclesAgree
  BY DEF AloneInv, LifecyclesAgree
<1>3. QED
  BY <1>1, <1>2, InitAlone, TypeInvAlways, PTL DEF Spec

------------------------------------------------------------------------------
(* What a run of the script achieves                                       *)

Copied(d) == documents[d] # NoDocument => credentials[d] = documents[d]

\* What has been written agrees with the driver from the stage on at which it
\* is written.
StageInv ==
  ~setting.overlaps /\ driver.state = "active" =>
    /\ script.pc \notin {"off", "members"} =>
         /\ member.state = "active" /\ member.link = driver.link
         /\ member.status = driver.status
         /\ member.meta = [joined |-> driver.joined,
                           licence |-> driver.licence, owned |-> FALSE]
    /\ script.pc = "credentials" =>
         \A d \in Calls : \/ script.documents[d] = documents[d]
                          \/ script.documents[d] = NoDocument /\ Copied(d)
    /\ script.pc \in {"histories", "profile", "licence", "reporting"} =>
         \A d \in Calls : Copied(d)
    /\ script.pc = "histories" => script.history = Len(driverHistory)
    /\ script.pc \in {"profile", "licence", "reporting"} =>
         copied = Len(driverHistory)

\* Every step of the script takes the stages in order.
LEMMA RunStages ==
  ASSUME TypeInv, AloneInv, StageInv, RunScript
  PROVE  StageInv'
<1>1. UNCHANGED <<driver, documents, driverHistory, setting>>
  BY DEF RunScript, ReadDrivers, UpsertMember, ReadDocuments, CopyDocument,
         ReadHistory, CopyHistory, ReadMember, PopulateProfile,
         PopulateLicence, Report, StopScript, records, papers, histories
<1> SUFFICES ASSUME ~setting.overlaps, driver.state = "active" PROVE StageInv'
  BY <1>1 DEF StageInv
<1>2. ~ScriptAt("off") => script.driver = driver /\ Ours
  BY DEF AloneInv, Ours
<1>3. CASE ReadDrivers
  <2>1. script'.pc = "members"
    BY <1>3, ScriptKnows DEF ReadDrivers
  <2>2. QED
    BY <2>1 DEF StageInv
<1>4. CASE UpsertMember
  <2>1. script'.pc = "documents"
    BY <1>4, ScriptKnows DEF UpsertMember
  <2>2. member' = [state |-> "active", link |-> driver.link,
                   status |-> driver.status,
                   meta |-> [joined |-> driver.joined,
                             licence |-> driver.licence, owned |-> FALSE]]
    BY <1>2, <1>4 DEF UpsertMember
  <2>3. QED
    BY <1>1, <2>1, <2>2 DEF StageInv
<1>5. CASE ReadDocuments
  <2>1. script'.pc = "credentials" /\ script'.documents = documents
    BY <1>2, <1>5, ScriptKnows DEF ReadDocuments
  <2>2. UNCHANGED member /\ ScriptAt("documents")
    BY <1>5 DEF ReadDocuments, records
  <2>3. QED
    BY <1>1, <2>1, <2>2 DEF StageInv
<1>6. ASSUME NEW d \in Calls, CopyDocument(d)
      PROVE  StageInv'
  <2>1. /\ script'.pc = "credentials" /\ ScriptAt("credentials")
        /\ script'.documents = [script.documents EXCEPT ![d] = NoDocument]
        /\ credentials' = [credentials EXCEPT ![d] = script.documents[d]]
        /\ script.documents[d] # NoDocument /\ UNCHANGED member
    BY <1>6, ScriptKnows DEF CopyDocument
  <2>2. \A e \in Calls : \/ script.documents[e] = documents[e]
                         \/ script.documents[e] = NoDocument /\ Copied(e)
    BY <2>1 DEF StageInv
  <2>3. \A e \in Calls : \/ script'.documents[e] = documents[e]
                         \/ script'.documents[e] = NoDocument /\ Copied(e)'
    BY <1>1, <2>1, <2>2, ScriptKnows DEF Copied
  <2>4. QED
    BY <1>1, <2>1, <2>3 DEF StageInv
<1>7. CASE ReadHistory
  <2>1. /\ script'.pc = "histories" /\ ScriptAt("credentials")
        /\ script'.history = Len(driverHistory)
        /\ UNCHANGED <<member, credentials>>
        /\ \A d \in Calls : script.documents[d] = NoDocument
    BY <1>2, <1>7, ScriptKnows DEF ReadHistory, records, papers
  <2>2. \A d \in Calls : Copied(d)
    BY <2>1 DEF StageInv, Copied
  <2>3. QED
    BY <1>1, <2>1, <2>2 DEF StageInv, Copied
<1>8. CASE CopyHistory
  <2>1. /\ UNCHANGED <<script, member, credentials>> /\ ScriptAt("histories")
    BY <1>8 DEF CopyHistory, papers
  <2>2. QED
    BY <1>1, <2>1 DEF StageInv, Copied
<1>9. CASE ReadMember
  <2>1. /\ script'.pc = "profile" /\ ScriptAt("histories")
        /\ UNCHANGED <<member, credentials, copied>> /\ copied >= script.history
    BY <1>9, ScriptKnows DEF ReadMember, records, papers, histories
  <2>2. copied = Len(driverHistory)
    <3>1. script.history = Len(driverHistory)
      BY <2>1 DEF StageInv
    <3>2. QED
      BY <2>1, <3>1, ScriptKnows
  <2>3. QED
    BY <1>1, <2>1, <2>2 DEF StageInv, Copied
<1>10. CASE PopulateProfile \/ PopulateLicence
  <2>1. /\ script'.pc \in {"licence", "reporting"}
        /\ script.pc \in {"profile", "licence"}
        /\ UNCHANGED <<member, credentials, copied>>
    BY <1>10, ScriptKnows
    DEF PopulateProfile, PopulateLicence, papers, histories
  <2>2. QED
    BY <1>1, <2>1 DEF StageInv, Copied
<1>11. CASE Report \/ StopScript
  <2>1. script'.pc = "off"
    BY <1>11 DEF Report, StopScript, NotRunning
  <2>2. QED
    BY <2>1 DEF StageInv
<1>12. QED
  BY <1>3, <1>4, <1>5, <1>6, <1>7, <1>8, <1>9, <1>10, <1>11 DEF RunScript

\* Every step of the specification preserves StageInv.
LEMMA StepStages ==
  TypeInv /\ AloneInv /\ StageInv /\ [Next]_vars => StageInv'
<1> SUFFICES ASSUME TypeInv, AloneInv, StageInv, [Next]_vars PROVE StageInv'
  OBVIOUS
<1>1. CASE Serve /\ UNCHANGED script
  <2>1. UNCHANGED setting
    BY <1>1
    DEF Serve, Begin, CheckNew, Start, Continue, CreateRows,
        FindCanonical, FindCredential, FindMember, UpdateMember,
        ArchiveMember, ChangeMember, WriteCredential, UpdateDriver,
        ArchiveDriver, ChangeDriver, Recalculate, WriteDocument,
        FindForAlignment, ReadExtensions, CommitExtensions, StopCall
  <2>2. ~setting.overlaps => script'.pc = "off"
    BY <1>1, ServesAlone
  <2>3. QED
    BY <2>1, <2>2 DEF StageInv
<1>2. CASE UNCHANGED vars
  BY <1>2 DEF vars, records, papers, histories, StageInv, Copied
<1>3. QED
  BY <1>1, <1>2, RunStages DEF Next

\* There are finitely many licences.
LicencesFinite == IsFiniteSet(licences)

\* An alignment leaves finitely many licences: one more if it has found none.
LEMMA AlignedFinite ==
  ASSUME LicencesFinite, NEW c \in Calls
  PROVE  /\ IsFiniteSet(AlignedLicences(c))
         /\ Cardinality(AlignedLicences(c)) <=
              Cardinality(licences)
                + (IF call[c].licences = {} THEN 1 ELSE 0)
<1>0. Cardinality(licences) \in Nat
  BY FS_CardinalityType DEF LicencesFinite
<1>1. ASSUME NEW l
      PROVE  /\ IsFiniteSet(licences \cup {l})
             /\ Cardinality(licences \cup {l}) <= Cardinality(licences) + 1
  <2>1. /\ IsFiniteSet(licences \cup {l})
        /\ Cardinality(licences \cup {l}) = IF l \in licences
              THEN Cardinality(licences) ELSE Cardinality(licences) + 1
    BY FS_AddElement DEF LicencesFinite
  <2>2. QED
    BY <1>0, <2>1
<1> DEFINE found == Selected(call[c].licences)
           number == Read(Asked(c, "licence"),
                          Read(found.number, call[c].member.meta.licence))
           Written(l) == IF l.by = found.by
                         THEN [l EXCEPT !.number = number, !.first = TRUE]
                         ELSE l
           written == {Written(l) : l \in licences}
<1>2. IsFiniteSet(written) /\ Cardinality(written) <= Cardinality(licences)
  <2> DEFINE f == [l \in licences |-> Written(l)]
  <2>1. f \in Surjection(licences, written)
    BY DEF Surjection
  <2> HIDE DEF f, written
  <2>2. QED
    BY <2>1, FS_Surjection DEF LicencesFinite
<1>3. AlignedLicences(c) =
        IF "licence" \notin Touches(c) THEN licences
        ELSE IF call[c].licences # {} THEN written
        ELSE IF number # Missing
        THEN licences \cup {[by |-> c, number |-> number, first |-> TRUE]}
        ELSE licences
  BY DEF AlignedLicences
<1> HIDE DEF found, number, written
<1>4. Cardinality(written) \in Nat
  BY <1>2, FS_CardinalityType
<1>5. QED
  <2>1. CASE AlignedLicences(c) = licences
    BY <1>0, <2>1 DEF LicencesFinite
  <2>2. CASE call[c].licences # {} /\ AlignedLicences(c) = written
    BY <1>0, <1>2, <1>4, <2>2
  <2>3. ASSUME call[c].licences = {},
               NEW l, AlignedLicences(c) = licences \cup {l}
        PROVE  /\ IsFiniteSet(AlignedLicences(c))
               /\ Cardinality(AlignedLicences(c)) <= Cardinality(licences) + 1
    BY <1>1, <2>3
  <2>4. \/ AlignedLicences(c) = licences
        \/ call[c].licences # {} /\ AlignedLicences(c) = written
        \/ /\ call[c].licences = {}
           /\ \E l : AlignedLicences(c) = licences \cup {l}
    BY <1>3
  <2>5. QED
    BY <2>1, <2>2, <2>3, <2>4

\* There always are finitely many licences.
LEMMA FiniteAlways == Spec => []LicencesFinite
<1>1. Init => LicencesFinite
  BY FS_EmptySet DEF Init, RecordsInit, LicencesFinite
<1>2. LicencesFinite /\ [Next]_vars => LicencesFinite'
  <2> SUFFICES ASSUME LicencesFinite, [Next]_vars PROVE LicencesFinite'
    OBVIOUS
  <2>1. ASSUME NEW c \in Calls, CommitExtensions(c)
        PROVE  LicencesFinite'
    <3>1. licences' = licences \/ licences' = AlignedLicences(c)
      BY <2>1 DEF CommitExtensions, extensions
    <3>2. QED
      BY <3>1, AlignedFinite DEF LicencesFinite
  <2>2. ASSUME PopulateLicence
        PROVE  LicencesFinite'
    <3>1. PICK l : licences' = licences \/ licences' = licences \cup {l}
      BY <2>2 DEF PopulateLicence
    <3>2. QED
      BY <3>1, FS_AddElement DEF LicencesFinite
  <2>3. \/ UNCHANGED licences
        \/ PopulateLicence
        \/ \E c \in Calls : CommitExtensions(c)
    BY DEF Next, Serve, Begin, CheckNew, Start, Continue, CreateRows,
           FindCanonical, FindCredential, FindMember, UpdateMember,
           ArchiveMember, ChangeMember, WriteCredential, UpdateDriver,
           ArchiveDriver, ChangeDriver, Recalculate, WriteDocument,
           FindForAlignment, ReadExtensions, StopCall,
           RunScript, ReadDrivers, UpsertMember, ReadDocuments, CopyDocument,
           ReadHistory, CopyHistory, ReadMember, PopulateProfile,
           Report, StopScript, vars, records, extensions
  <2>4. QED
    BY <2>1, <2>2, <2>3 DEF LicencesFinite
<1>3. QED
  BY <1>1, <1>2, PTL DEF Spec

\* A driver whose member says what it says can be read, unless its extensions
\* hold other values.
LEMMA ReadableThen ==
  ASSUME FieldsKnown, LicencesFinite, driver.state = "active", ~Contradicted,
         member.state = "active", member.link = driver.link,
         member.meta = [joined |-> driver.joined, licence |-> driver.licence,
                        owned |-> FALSE]
  PROVE  Readable
<1>1. /\ member.meta.joined = driver.joined
      /\ member.meta.licence = driver.licence /\ ~member.meta.owned
  OBVIOUS
<1>2. /\ Cardinality(licences) <= 1
      /\ profile.first => profile.joined = driver.joined
  <2>1. Cardinality(licences) \in Nat
    BY FS_CardinalityType DEF LicencesFinite
  <2>2. QED
    BY <2>1 DEF Contradicted
<1>3. Selected(licences).first => Selected(licences).number = driver.licence
  <2>1. CASE Cardinality(licences) = 1
    <3>1. licences # {}
      BY <2>1, FS_EmptySet
    <3>2. Selected(licences) \in licences
      BY <2>1, <3>1 DEF Selected
    <3>3. QED
      BY <3>2 DEF Contradicted
  <2>2. CASE Cardinality(licences) # 1
    BY <2>2 DEF Selected
  <2>3. QED
    BY <2>1, <2>2
<1>4. /\ ~Drifts(profile.joined, profile.first, member.meta.joined)
      /\ ~Drifts(Selected(licences).number, Selected(licences).first,
                 member.meta.licence)
  BY <1>1, <1>2, <1>3 DEF Drifts
<1>5. /\ Read(profile.joined, member.meta.joined) # Missing
      /\ Read(Selected(licences).number, member.meta.licence) # Missing
  BY <1>1 DEF FieldsKnown, Read
<1>6. QED
  BY <1>2, <1>4, <1>5 DEF Readable, Aligned

\* When the script reports, having run alone, the member says what the driver
\* says, documents and history are copied, and the driver can be read unless
\* its extensions hold other values, whatever earlier runs were broken off
\* (backfillWorkforce).
THEOREM Reconciles == Spec => []BackfillReconciles
<1>1. Init => StageInv
  BY DEF Init, NotRunning, StageInv
<1>2. FieldsKnown /\ LicencesFinite /\ StageInv => BackfillReconciles
  <2> SUFFICES ASSUME FieldsKnown, LicencesFinite, StageInv,
                      ScriptAt("reporting"),
                      ~setting.overlaps, driver.state = "active"
               PROVE  /\ member.state = "active" /\ member.link = driver.link
                      /\ member.status = driver.status
                      /\ \A d \in Calls : documents[d] # NoDocument =>
                           credentials[d] = documents[d]
                      /\ copied = Len(driverHistory)
                      /\ ~Contradicted => Readable
    BY DEF BackfillReconciles
  <2>1. /\ member.state = "active" /\ member.link = driver.link
        /\ member.status = driver.status
        /\ member.meta = [joined |-> driver.joined,
                          licence |-> driver.licence, owned |-> FALSE]
        /\ \A d \in Calls : Copied(d)
        /\ copied = Len(driverHistory)
    BY DEF StageInv
  <2>2. QED
    BY <2>1, ReadableThen DEF Copied
<1>3. QED
  BY <1>1, <1>2, InitAlone, StepAlone, StepFields, StepStages, TypeInvAlways,
     FiniteAlways, PTL
  DEF Spec

------------------------------------------------------------------------------
(* Requests that come one at a time                                        *)

\* The request that is served alone holds what the rows still are.
TurnInv ==
  setting.width = 1 /\ ~setting.overlaps =>
    \A c \in InFlight :
      /\ \A e \in InFlight : e = c
      /\ call[c].pc \in {"credential", "member", "writing", "extending",
                        "committing"}
         => call[c].member = member
      /\ At(c, "committing") =>
           call[c].profile = profile /\ call[c].licences = licences

\* Nobody is under way where fewer than one are.
LEMMA NobodyElse ==
  ASSUME \A c, e \in InFlight : c = e, Cardinality(InFlight) < 1
  PROVE  InFlight = {}
<1>1. SUFFICES ASSUME NEW c \in InFlight PROVE FALSE
  OBVIOUS
<1>2. InFlight = {c}
  OBVIOUS
<1>3. IsFiniteSet({}) /\ Cardinality({}) = 0 /\ {} \cup {c} = {c}
  BY FS_EmptySet
<1>4. Cardinality({} \cup {c}) = IF c \in {} THEN Cardinality({})
                                 ELSE Cardinality({}) + 1
  BY <1>3, FS_AddElement
<1>5. Cardinality(InFlight) = 1
  BY <1>2, <1>3, <1>4
<1>6. QED
  BY <1>5

\* Every step of the specification preserves TurnInv.
LEMMA StepTurn == TypeInv /\ AloneInv /\ TurnInv /\ [Next]_vars => TurnInv'
<1> SUFFICES ASSUME TypeInv, AloneInv, TurnInv, [Next]_vars PROVE TurnInv'
  OBVIOUS
<1>1. ASSUME NEW c \in Calls, NEW want \in setting.requests, Begin(c, want)
      PROVE  TurnInv'
  <2> SUFFICES ASSUME setting.width = 1, ~setting.overlaps PROVE TurnInv'
    BY <1>1 DEF TurnInv, Begin, CheckNew, Start
  <2>1. InFlight = {}
    BY <1>1, NobodyElse DEF TurnInv, Begin
  <2>2. /\ \A e \in Calls \ {c} : call'[e] = call[e]
        /\ call'[c].pc \in {"creating", "canonical"}
    BY <1>1, KnownTypes DEF Begin, CheckNew, Start, Call
  <2>3. InFlight' \subseteq {c}
    BY <2>1, <2>2 DEF InFlight
  <2>4. QED
    BY <2>2, <2>3 DEF TurnInv
<1>2. ASSUME NEW c \in Calls, Continue(c), UNCHANGED script
      PROVE  TurnInv'
  <2>1. UNCHANGED setting
    BY <1>2
    DEF Continue, CreateRows, FindCanonical, FindCredential, FindMember,
        UpdateMember, ArchiveMember, ChangeMember, WriteCredential,
        UpdateDriver, ArchiveDriver, ChangeDriver, Recalculate, WriteDocument,
        FindForAlignment, ReadExtensions, CommitExtensions, StopCall
  <2> SUFFICES ASSUME setting.width = 1, ~setting.overlaps PROVE TurnInv'
    BY <2>1 DEF TurnInv
  <2>2. c \in InFlight /\ \A e \in Calls \ {c} : call'[e] = call[e]
    BY <1>2, ContinuesInFlight, ContinuesAlone
  <2>3. InFlight \subseteq {c}
    BY <2>2 DEF TurnInv
  <2>4. InFlight' \subseteq {c}
    BY <2>2, <2>3 DEF InFlight
  <2>5. /\ call'[c].pc \in {"credential", "member", "writing", "extending",
                           "committing"}
           => call'[c].member = member'
        /\ At(c, "committing")' =>
             call'[c].profile = profile' /\ call'[c].licences = licences'
    <3>1. CASE FindCanonical(c)
      BY <3>1, KnownTypes, DoneFits DEF FindCanonical, Call, records
    <3>2. CASE FindCredential(c)
      <4>1. call[c].member = member
        BY <3>2, <2>2 DEF FindCredential, TurnInv
      <4>2. call'[c].pc \in {"done", "writing", "legacy"} /\ UNCHANGED member
        BY <3>2, KnownTypes, DoneFits DEF FindCredential, Call, records
      <4>3. call'[c].pc = "writing" => call'[c].member = member
        BY <3>2, <4>1, KnownTypes, DoneFits DEF FindCredential, Call
      <4>4. QED
        BY <4>2, <4>3
    <3>3. CASE FindMember(c)
      <4>1. call[c].member = member
        BY <3>3, <2>2 DEF FindMember, TurnInv
      <4>2. call'[c].pc \in {"done", "writing"} /\ UNCHANGED member
        BY <3>3, KnownTypes, DoneFits DEF FindMember, Call, records
      <4>3. call'[c].pc = "writing" => call'[c].member = member
        BY <3>3, <4>1, KnownTypes, DoneFits DEF FindMember, Call
      <4>4. QED
        BY <4>2, <4>3
    <3>4. CASE FindForAlignment(c)
      BY <3>4, KnownTypes, DoneFits DEF FindForAlignment, Call, records
    <3>5. CASE ReadExtensions(c)
      <4>1. call[c].member = member
        BY <3>5, <2>2 DEF ReadExtensions, TurnInv
      <4>2. QED
        BY <3>5, <4>1, KnownTypes, DoneFits
        DEF ReadExtensions, Call, records, extensions
    <3>6. CASE \/ CreateRows(c) \/ UpdateMember(c) \/ ArchiveMember(c)
               \/ ChangeMember(c) \/ WriteCredential(c) \/ UpdateDriver(c)
               \/ ArchiveDriver(c) \/ ChangeDriver(c) \/ WriteDocument(c)
               \/ CommitExtensions(c) \/ StopCall(c)
      <4>1. call'[c].pc \in {"done", "aligning"}
        BY <3>6, KnownTypes, DoneFits
        DEF CreateRows, UpdateMember, ArchiveMember, ChangeMember,
            WriteCredential, UpdateDriver, ArchiveDriver, ChangeDriver,
            WriteDocument, CommitExtensions, StopCall, Call
      <4>2. QED
        BY <4>1
    <3>7. CASE Recalculate(c)
      <4>1. call'[c].pc = "filing"
        BY <3>7, KnownTypes DEF Recalculate, Call
      <4>2. QED
        BY <4>1
    <3>8. QED
      BY <1>2, <3>1, <3>2, <3>3, <3>4, <3>5, <3>6, <3>7 DEF Continue
  <2>6. QED
    BY <2>4, <2>5 DEF TurnInv
<1>3. CASE RunScript
  <2>1. ~setting.overlaps => InFlight = {} /\ UNCHANGED <<call, setting>>
    BY <1>3, RunStates
  <2>2. UNCHANGED setting
    BY <1>3
    DEF RunScript, ReadDrivers, UpsertMember, ReadDocuments, CopyDocument,
        ReadHistory, CopyHistory, ReadMember, PopulateProfile,
        PopulateLicence, Report, StopScript
  <2>3. QED
    BY <2>1, <2>2 DEF TurnInv, InFlight
<1>4. CASE UNCHANGED vars
  BY <1>4 DEF vars, records, extensions, TurnInv, InFlight
<1>5. QED
  BY <1>1, <1>2, <1>3, <1>4 DEF Next, Serve

\* One licence at most is none or one.
LEMMA OneOrNone ==
  ASSUME LicencesFinite, Cardinality(licences) <= 1, licences # {}
  PROVE  \E l : licences = {l}
<1>1. PICK l \in licences : TRUE
  OBVIOUS
<1>2. IsFiniteSet(licences \ {l})
  BY FS_Subset DEF LicencesFinite
<1>3. (licences \ {l}) \cup {l} = licences
  OBVIOUS
<1>4. Cardinality((licences \ {l}) \cup {l}) =
        IF l \in licences \ {l} THEN Cardinality(licences \ {l})
        ELSE Cardinality(licences \ {l}) + 1
  BY <1>2, FS_AddElement
<1>5. Cardinality(licences \ {l}) \in Nat
  BY <1>2, FS_CardinalityType
<1>6. Cardinality(licences \ {l}) = 0
  <2>1. Cardinality(licences) = Cardinality(licences \ {l}) + 1
    BY <1>3, <1>4
  <2>2. QED
    BY <1>5, <2>1
<1>7. licences \ {l} = {}
  BY <1>2, <1>6, FS_EmptySet
<1>8. QED
  BY <1>7

\* The licence of one licence.
LEMMA SelectedOne ==
  ASSUME NEW l
  PROVE  Cardinality({l}) = 1 /\ Selected({l}) = l
<1>1. IsFiniteSet({}) /\ Cardinality({}) = 0 /\ {} \cup {l} = {l}
  BY FS_EmptySet
<1>2. Cardinality({} \cup {l}) =
        IF l \in {} THEN Cardinality({}) ELSE Cardinality({}) + 1
  BY <1>1, FS_AddElement
<1>3. Cardinality({l}) = 1
  BY <1>1, <1>2
<1>4. QED
  BY <1>3 DEF Selected

\* An alignment that has read the licences there are leaves one at most, and
\* leaves a driver with one with a number, or with that of its metadata.
LEMMA AlignedLicencesAlone ==
  ASSUME TypeInv, LicencesFinite, NEW c \in Calls, At(c, "committing"),
         call[c].member = member, call[c].licences = licences,
         Cardinality(licences) <= 1,
         Read(Selected(licences).number, member.meta.licence) # Missing
  PROVE  LET after == AlignedLicences(c)
         IN  /\ Cardinality(after) <= 1
             /\ \/ Selected(after).number # Missing
                \/ member.meta.licence # Missing
<1> DEFINE found == Selected(licences)
           number == Read(Asked(c, "licence"),
                          Read(found.number, member.meta.licence))
           after == AlignedLicences(c)
<1>1. after =
        IF "licence" \notin Touches(c) THEN licences
        ELSE IF licences # {}
        THEN {IF l.by = found.by
              THEN [l EXCEPT !.number = number, !.first = TRUE]
              ELSE l : l \in licences}
        ELSE IF number # Missing
        THEN licences \cup {[by |-> c, number |-> number, first |-> TRUE]}
        ELSE licences
  BY DEF AlignedLicences
<1>2. CASE after = licences
  BY <1>2 DEF Read
<1>3. CASE after # licences /\ licences # {}
  <2>1. PICK l : licences = {l}
    BY <1>3, OneOrNone
  <2>2. found = l /\ number # Missing /\ l \in Licence
    BY <2>1, SelectedOne, KnownTypes DEF Read
  <2>3. after = {[l EXCEPT !.number = number, !.first = TRUE]}
    BY <1>1, <1>3, <2>1, <2>2
  <2> HIDE DEF number, after, found
  <2>4. PICK row : row = [l EXCEPT !.number = number, !.first = TRUE]
    OBVIOUS
  <2>5. row.number = number
    BY <2>2, <2>4 DEF Licence
  <2>6. Cardinality(after) = 1 /\ Selected(after).number = number
    BY <2>3, <2>4, <2>5, SelectedOne
  <2>7. QED
    BY <2>2, <2>6 DEF after
<1>4. CASE after # licences /\ licences = {}
  <2>1. after = {[by |-> c, number |-> number, first |-> TRUE]}
        /\ number # Missing
    BY <1>1, <1>4
  <2> HIDE DEF number, after
  <2>2. PICK row : row = [by |-> c, number |-> number, first |-> TRUE]
    OBVIOUS
  <2>3. row.number = number /\ after = {row}
    BY <2>1, <2>2
  <2>4. Cardinality(after) = 1 /\ Selected(after).number = number
    BY <2>3, SelectedOne
  <2>5. QED
    BY <2>1, <2>4 DEF after
<1>5. QED
  BY <1>2, <1>3, <1>4

\* An alignment that knows the rows leaves the driver readable.
LEMMA CommitStaysReadable ==
  ASSUME TypeInv, LicencesFinite, NEW c \in Calls, CommitExtensions(c),
         call[c].member = member, call[c].licences = licences, Readable
  PROVE  Readable'
<1>1. UNCHANGED driver /\ At(c, "committing")
  BY DEF CommitExtensions
<1>2. CASE UNCHANGED <<member, extensions>>
  BY <1>1, <1>2 DEF extensions, Readable, Aligned, Drifts
<1>3. CASE ~UNCHANGED <<member, extensions>>
  <2>1. /\ member.state = "active"
        /\ profile' = IF Asked(c, "joined") = Missing THEN profile
                      ELSE [joined |-> Asked(c, "joined"), first |-> TRUE]
        /\ licences' = AlignedLicences(c)
        /\ member' = [member EXCEPT !.status.ONBOARDING_STATUS =
               call[c].member.status.ONBOARDING_STATUS, !.meta =
               [joined |-> Read(profile'.joined, member.meta.joined),
                licence |-> Read(Selected(licences').number,
                                 member.meta.licence),
                owned |-> TRUE]]
    BY <1>3 DEF CommitExtensions
  <2>2. Aligned
    BY <2>1 DEF Readable
  <2>3. /\ member'.state = "active" /\ member'.link = member.link
        /\ member'.meta.joined = Read(profile'.joined, member.meta.joined)
        /\ member'.meta.licence = Read(Selected(licences').number,
                                       member.meta.licence)
    <3>1. PICK meta : meta =
            [joined |-> Read(profile'.joined, member.meta.joined),
             licence |-> Read(Selected(licences').number, member.meta.licence),
             owned |-> TRUE]
      OBVIOUS
    <3>2. member'.state = member.state /\ member'.link = member.link
          /\ member'.meta = meta
      BY <2>1, <3>1, KnownTypes DEF Member
    <3>3. /\ meta.joined = Read(profile'.joined, member.meta.joined)
          /\ meta.licence = Read(Selected(licences').number,
                                 member.meta.licence)
      BY <3>1
    <3>4. QED
      BY <2>1, <3>2, <3>3
  <2>4. /\ Cardinality(licences') <= 1
        /\ \/ Selected(licences').number # Missing
           \/ member.meta.licence # Missing
    BY <1>1, <2>1, <2>2, AlignedLicencesAlone DEF Aligned
  <2>5. profile'.joined # Missing \/ member.meta.joined # Missing
    BY <2>1, <2>2 DEF Aligned, Read
  <2>6. /\ ~Drifts(profile.joined, profile.first, member.meta.joined)'
        /\ ~Drifts(Selected(licences).number, Selected(licences).first,
                   member.meta.licence)'
    BY <2>3 DEF Drifts, Read
  <2>7. /\ Read(profile'.joined, member'.meta.joined) # Missing
        /\ Read(Selected(licences').number, member'.meta.licence) # Missing
    BY <2>3, <2>4, <2>5 DEF Read
  <2>8. driver'.link = member'.link /\ driver'.state = "active"
    BY <1>1, <2>2, <2>3 DEF Aligned, Readable
  <2>9. QED
    BY <2>3, <2>4, <2>6, <2>7, <2>8 DEF Readable, Aligned
<1>4. QED
  BY <1>2, <1>3

\* A request that writes the rows of a driver leaves it readable, unless it
\* archives or links it.
LEMMA StaysReadable ==
  ASSUME TypeInv, LicencesFinite, TurnInv, NEW c \in Calls, Continue(c),
         setting.width = 1, ~setting.overlaps, Readable,
         driver'.state = "active", driver'.link = driver.link
  PROVE  Readable'
<1>1. c \in InFlight
  BY ContinuesInFlight
<1>2. CASE CommitExtensions(c)
  BY <1>1, <1>2, CommitStaysReadable DEF TurnInv, CommitExtensions
<1>3. ASSUME UNCHANGED <<profile, licences>>, member'.state = member.state,
             member'.link = member.link, member'.meta = member.meta
      PROVE  Readable'
  BY <1>3 DEF Readable, Aligned, Drifts
<1>4. CASE UpdateMember(c)
  <2>1. call[c].member.meta = member.meta
    BY <1>1, <1>4 DEF TurnInv, UpdateMember
  <2>2. /\ UNCHANGED <<profile, licences>> /\ member'.state = member.state
        /\ member'.link = member.link /\ member'.meta = member.meta
    BY <1>4, <2>1, KnownTypes DEF UpdateMember, Member, extensions
  <2>3. QED
    BY <1>3, <2>2
<1>5. CASE ChangeMember(c)
  BY <1>3, <1>5, KnownTypes DEF ChangeMember, Member, extensions
<1>6. CASE CreateRows(c)
  BY <1>3, <1>6 DEF CreateRows, extensions, Readable
<1>7. CASE ArchiveMember(c)
  <2>1. driver'.state = "archived"
    BY <1>7, KnownTypes DEF ArchiveMember, Readable, Driver
  <2>2. QED
    BY <2>1
<1>8. CASE \/ FindCanonical(c) \/ FindCredential(c) \/ FindMember(c)
           \/ Recalculate(c) \/ FindForAlignment(c) \/ ReadExtensions(c)
           \/ StopCall(c) \/ WriteCredential(c) \/ UpdateDriver(c)
           \/ ArchiveDriver(c) \/ ChangeDriver(c) \/ WriteDocument(c)
  BY <1>3, <1>8
  DEF FindCanonical, FindCredential, FindMember, Recalculate, FindForAlignment,
      ReadExtensions, StopCall, WriteCredential, UpdateDriver, ArchiveDriver,
      ChangeDriver, WriteDocument, records, extensions
<1>9. QED
  BY <1>2, <1>4, <1>5, <1>6, <1>7, <1>8 DEF Continue

\* No step of a request, requests coming one at a time and the script alone,
\* makes a driver unreadable that stays active with the links it has
\* (syncDriverCompatibilityExtensions).
THEOREM StaysAligned == Spec => AlignedStaysReadable
<1>1. Init => TurnInv
  BY DEF Init, RecordsInit, TurnInv, InFlight, Resting
<1>2. TypeInv /\ LicencesFinite /\ TurnInv /\ [Next]_vars =>
        [ (/\ Readable /\ setting.width = 1 /\ ~setting.overlaps
           /\ UNCHANGED script
           /\ driver'.state = "active" /\ driver'.link = driver.link)
          => Readable' ]_vars
  <2> SUFFICES ASSUME TypeInv, LicencesFinite, TurnInv, [Next]_vars,
                      Readable, setting.width = 1, ~setting.overlaps,
                      UNCHANGED script,
                      driver'.state = "active", driver'.link = driver.link
               PROVE  Readable' \/ UNCHANGED vars
    OBVIOUS
  <2>1. ASSUME NEW c \in Calls, NEW want \in setting.requests, Begin(c, want)
        PROVE  Readable'
    BY <2>1 DEF Begin, CheckNew, Start, records, extensions, Readable, Aligned,
                Drifts
  <2>2. ASSUME NEW c \in Calls, Continue(c)
        PROVE  Readable'
    BY <2>2, StaysReadable
  <2>3. ASSUME RunScript
        PROVE  Readable'
    <3>1. \/ UNCHANGED <<driver, member, profile, licences>>
          \/ UpsertMember \/ PopulateProfile \/ PopulateLicence
      BY <2>3
      DEF RunScript, ReadDrivers, ReadDocuments, CopyDocument, ReadHistory,
          CopyHistory, ReadMember, Report, StopScript, records, extensions
    <3>2. ~UpsertMember /\ ~PopulateProfile /\ ~PopulateLicence
      BY ScriptKnows DEF UpsertMember, PopulateProfile, PopulateLicence
    <3>3. QED
      BY <3>1, <3>2 DEF Readable, Aligned, Drifts
  <2>4. QED
    BY <2>1, <2>2, <2>3 DEF Next, Serve
<1>3. QED
  BY <1>1, <1>2, InitAlone, StepAlone, StepTurn, TypeInvAlways, FiniteAlways,
     PTL
  DEF Spec, AlignedStaysReadable

------------------------------------------------------------------------------
(* How many licences there are                                             *)

\* Who is about to make a licence: requests, and the script.
Adding ==
  {c \in Calls : At(c, "committing") /\ call[c].licences = {}}
    \cup {s \in {Script} : /\ script.pc \in {"profile", "licence"}
                         /\ script.licences = {}}

Allowed == setting.width + (IF setting.overlaps THEN 1 ELSE 0)

\* Whoever is about to make a licence has found none, and then all who are
\* about to are being served; so licences and those who make them are counted
\* together.
LicenceInv ==
  /\ IsFiniteSet(InFlight) /\ Cardinality(InFlight) <= setting.width
  /\ Cardinality(licences) + Cardinality(Adding) <= Allowed

\* What is counted are numbers.
LEMMA LicenceNumbers ==
  ASSUME TypeInv, LicencesFinite, IsFiniteSet(InFlight)
  PROVE  /\ setting.width \in Nat \ {0} /\ Allowed \in Nat
         /\ Script \notin Calls
         /\ Adding \subseteq InFlight \cup {Script}
         /\ IsFiniteSet(Adding) /\ Cardinality(Adding) \in Nat
         /\ Cardinality(InFlight) \in Nat /\ Cardinality(licences) \in Nat
<1>1. setting \in Settings
  BY DEF TypeInv, TypeOK, RecordsTypeOK
<1>2. /\ setting.width \in Nat \ {0} /\ setting.overlaps \in BOOLEAN
      /\ Script \notin Calls
  BY <1>1, RecordsAssumption, BackfillAssumption
<1>3. Adding \subseteq InFlight \cup {Script}
  BY DEF Adding, InFlight
<1>4. IsFiniteSet(InFlight \cup {Script})
  BY FS_AddElement
<1>5. IsFiniteSet(Adding)
  BY <1>3, <1>4, FS_Subset
<1>6. QED
  BY <1>2, <1>3, <1>5, FS_CardinalityType DEF LicencesFinite, Allowed

\* Where nobody is left who was not counted, and there are no more licences,
\* the bound is kept.
LEMMA NoneAdds ==
  ASSUME TypeInv, LicencesFinite, LicenceInv, UNCHANGED setting,
         InFlight' \subseteq InFlight, IsFiniteSet(licences'),
         Cardinality(licences') <= Cardinality(licences),
         Adding' \subseteq Adding
  PROVE  LicenceInv'
<1>1. /\ IsFiniteSet(InFlight') /\ Cardinality(InFlight') \in Nat
      /\ Cardinality(InFlight') <= Cardinality(InFlight)
  BY FS_Subset, FS_CardinalityType DEF LicenceInv
<1>2. /\ IsFiniteSet(Adding') /\ Cardinality(Adding') <= Cardinality(Adding)
      /\ Cardinality(Adding') \in Nat
  BY LicenceNumbers, FS_Subset, FS_CardinalityType DEF LicenceInv
<1>3. /\ setting.width \in Nat /\ Allowed \in Nat /\ Allowed' = Allowed
      /\ Cardinality(InFlight) \in Nat /\ Cardinality(Adding) \in Nat
      /\ Cardinality(licences) \in Nat /\ Cardinality(licences') \in Nat
      /\ Cardinality(InFlight) <= setting.width
      /\ Cardinality(licences) + Cardinality(Adding) <= Allowed
  BY LicenceNumbers, FS_CardinalityType DEF LicenceInv, Allowed
<1>4. /\ Cardinality(InFlight') <= setting'.width
      /\ Cardinality(licences') + Cardinality(Adding') <= Allowed'
  BY <1>1, <1>2, <1>3
<1>5. QED
  BY <1>1, <1>4 DEF LicenceInv

\* So it is where there are the same licences.
LEMMA FewerAdd ==
  ASSUME TypeInv, LicencesFinite, LicenceInv, UNCHANGED setting,
         InFlight' \subseteq InFlight, UNCHANGED licences,
         Adding' \subseteq Adding
  PROVE  LicenceInv'
<1>1. /\ Cardinality(licences) \in Nat
      /\ Cardinality(licences') = Cardinality(licences)
  BY FS_CardinalityType DEF LicencesFinite
<1>2. IsFiniteSet(licences') /\ Cardinality(licences') <= Cardinality(licences)
  BY <1>1 DEF LicencesFinite
<1>3. QED
  BY <1>2, NoneAdds

\* Where somebody looks and there is no licence, all who are about to make one
\* are being served.
LEMMA NoneYet ==
  ASSUME TypeInv, LicencesFinite, LicenceInv, UNCHANGED setting,
         InFlight' \subseteq InFlight, licences = {}, UNCHANGED licences,
         \/ Adding' \subseteq InFlight
         \/ Adding' \subseteq InFlight \cup {Script} /\ setting.overlaps
         \/ Adding' \subseteq {Script}
  PROVE  LicenceInv'
<1>1. /\ setting.width \in Nat \ {0} /\ Allowed' = Allowed
      /\ Cardinality(InFlight) \in Nat /\ IsFiniteSet(InFlight)
      /\ Cardinality(InFlight) <= setting.width
      /\ Script \notin Calls
      /\ setting.overlaps \in BOOLEAN
  <2>1. setting \in Settings
    BY DEF TypeInv, TypeOK, RecordsTypeOK
  <2>2. QED
    BY <2>1, BackfillAssumption, LicenceNumbers DEF LicenceInv, Allowed
<1>2. /\ IsFiniteSet(InFlight') /\ Cardinality(InFlight') \in Nat
      /\ Cardinality(InFlight') <= Cardinality(InFlight)
  BY <1>1, FS_Subset, FS_CardinalityType
<1>3. Cardinality(licences') = 0
  BY FS_EmptySet
<1>4. /\ IsFiniteSet(InFlight \cup {Script})
      /\ Cardinality(InFlight \cup {Script}) = Cardinality(InFlight) + 1
  <2>1. Script \notin InFlight
    BY <1>1 DEF InFlight
  <2>2. QED
    BY <1>1, <2>1, FS_AddElement
<1>5. Cardinality(Adding') \in Nat /\ Cardinality(Adding') <= Allowed
  <2>1. CASE Adding' \subseteq InFlight
    <3>1. Cardinality(Adding') \in Nat
          /\ Cardinality(Adding') <= Cardinality(InFlight)
      BY <1>1, <2>1, FS_Subset, FS_CardinalityType
    <3>2. QED
      BY <1>1, <3>1 DEF Allowed
  <2>2. CASE Adding' \subseteq InFlight \cup {Script} /\ setting.overlaps
    <3>1. Cardinality(Adding') \in Nat
          /\ Cardinality(Adding') <= Cardinality(InFlight) + 1
      BY <1>4, <2>2, FS_Subset, FS_CardinalityType
    <3>2. QED
      BY <1>1, <2>2, <3>1 DEF Allowed
  <2>3. CASE Adding' \subseteq {Script}
    <3>1. IsFiniteSet({Script}) /\ Cardinality({Script}) = 1
      BY FS_Singleton
    <3>2. Cardinality(Adding') \in Nat /\ Cardinality(Adding') <= 1
      BY <2>3, <3>1, FS_Subset, FS_CardinalityType
    <3>3. QED
      BY <1>1, <3>2 DEF Allowed
  <2>4. QED
    BY <2>1, <2>2, <2>3
<1>6. /\ Cardinality(InFlight') <= setting'.width
      /\ Cardinality(licences') + Cardinality(Adding') <= Allowed'
  BY <1>1, <1>2, <1>3, <1>5
<1>7. QED
  BY <1>2, <1>6 DEF LicenceInv

\* Where one who has been counted makes a licence, the bound is kept.
LEMMA OneAdds ==
  ASSUME TypeInv, LicencesFinite, LicenceInv, UNCHANGED setting,
         InFlight' \subseteq InFlight, NEW s \in Adding,
         Adding' \subseteq Adding \ {s}, IsFiniteSet(licences'),
         Cardinality(licences') <= Cardinality(licences) + 1
  PROVE  LicenceInv'
<1>1. /\ IsFiniteSet(InFlight') /\ Cardinality(InFlight') \in Nat
      /\ Cardinality(InFlight') <= Cardinality(InFlight)
  BY FS_Subset, FS_CardinalityType DEF LicenceInv
<1>2. /\ setting.width \in Nat /\ Allowed \in Nat /\ Allowed' = Allowed
      /\ Cardinality(InFlight) \in Nat /\ Cardinality(Adding) \in Nat
      /\ IsFiniteSet(Adding) /\ Cardinality(licences) \in Nat
      /\ Cardinality(InFlight) <= setting.width
      /\ Cardinality(licences) + Cardinality(Adding) <= Allowed
  BY LicenceNumbers DEF LicenceInv, Allowed
<1>3. /\ IsFiniteSet(Adding \ {s})
      /\ Cardinality(Adding \ {s}) = Cardinality(Adding) - 1
  BY <1>2, FS_RemoveElement
<1>4. /\ Cardinality(Adding') \in Nat
      /\ Cardinality(Adding') <= Cardinality(Adding \ {s})
  BY <1>3, FS_Subset, FS_CardinalityType
<1>5. Cardinality(licences') \in Nat
  BY FS_CardinalityType
<1>6. /\ Cardinality(InFlight') <= setting'.width
      /\ Cardinality(licences') + Cardinality(Adding') <= Allowed'
  BY <1>1, <1>2, <1>3, <1>4, <1>5
<1>7. QED
  BY <1>1, <1>6 DEF LicenceInv

\* Requests begin while there is room for one more.
LEMMA BeginLicences ==
  ASSUME TypeInv, LicencesFinite, LicenceInv,
         NEW c \in Calls, NEW want \in setting.requests, Begin(c, want),
         UNCHANGED script
  PROVE  LicenceInv'
<1>1. /\ UNCHANGED <<licences, setting>>
      /\ Cardinality(InFlight) < setting.width
  BY DEF Begin, CheckNew, Start, records, extensions
<1>2. /\ \A e \in Calls \ {c} : call'[e] = call[e]
      /\ call'[c].pc \in {"creating", "canonical"} /\ call[c].pc = "idle"
  BY KnownTypes DEF Begin, CheckNew, Start, Call
<1>3. InFlight' = InFlight \cup {c} /\ c \notin InFlight
  BY <1>2 DEF InFlight
<1>4. Adding' \subseteq Adding
  BY <1>2 DEF Adding
<1>5. /\ IsFiniteSet(InFlight')
      /\ Cardinality(InFlight') = Cardinality(InFlight) + 1
  BY <1>3, FS_AddElement DEF LicenceInv
<1>6. /\ IsFiniteSet(Adding') /\ Cardinality(Adding') \in Nat
      /\ Cardinality(Adding') <= Cardinality(Adding)
  BY <1>4, LicenceNumbers, FS_Subset, FS_CardinalityType DEF LicenceInv
<1>7. /\ setting.width \in Nat /\ Allowed \in Nat /\ Allowed' = Allowed
      /\ Cardinality(InFlight) \in Nat /\ Cardinality(Adding) \in Nat
      /\ Cardinality(licences) \in Nat
      /\ Cardinality(licences) + Cardinality(Adding) <= Allowed
  BY <1>1, LicenceNumbers DEF LicenceInv, Allowed
<1>8. /\ Cardinality(InFlight') <= setting'.width
      /\ Cardinality(licences') + Cardinality(Adding') <= Allowed'
  BY <1>1, <1>5, <1>6, <1>7
<1>9. QED
  BY <1>5, <1>8 DEF LicenceInv

\* A request that goes on makes a licence only when it has been counted, and is
\* counted only when it has found none.
LEMMA ContinueLicences ==
  ASSUME TypeInv, AloneInv, LicencesFinite, LicenceInv,
         NEW c \in Calls, Continue(c), UNCHANGED script
  PROVE  LicenceInv'
<1>1. UNCHANGED setting
  BY DEF Continue, CreateRows, FindCanonical, FindCredential, FindMember,
         UpdateMember, ArchiveMember, ChangeMember, WriteCredential,
         UpdateDriver, ArchiveDriver, ChangeDriver, Recalculate, WriteDocument,
         FindForAlignment, ReadExtensions, CommitExtensions, StopCall
<1>2. /\ \A e \in Calls \ {c} : call'[e] = call[e]
      /\ c \in InFlight
  BY ContinuesAlone, ContinuesInFlight
<1>3. InFlight' \subseteq InFlight
  BY <1>2 DEF InFlight
<1>4. ASSUME UNCHANGED licences, call'[c].pc # "committing"
      PROVE  LicenceInv'
  <2>1. Adding' \subseteq Adding
    BY <1>2, <1>4 DEF Adding
  <2>2. QED
    BY <1>1, <1>3, <1>4, <2>1, FewerAdd
<1>5. CASE ReadExtensions(c)
  <2>1. UNCHANGED licences
    BY <1>5 DEF ReadExtensions, records, extensions
  <2>2. CASE licences = {}
    <3>1. Adding' \subseteq InFlight \cup {s \in {Script} : ~ScriptAt("off")}
      BY <1>2 DEF Adding, InFlight
    <3>2. ~setting.overlaps => ScriptAt("off")
      BY <1>2, ServesAlone DEF Serve
    <3>3. \/ Adding' \subseteq InFlight
          \/ Adding' \subseteq InFlight \cup {Script} /\ setting.overlaps
      BY <3>1, <3>2
    <3>4. QED
      BY <1>1, <1>3, <2>1, <2>2, <3>3, NoneYet
  <2>3. CASE licences # {}
    <3>1. call'[c].pc = "committing" => call'[c].licences # {}
      BY <1>5, <2>3, KnownTypes, DoneFits DEF ReadExtensions, Call
    <3>2. Adding' \subseteq Adding
      BY <1>2, <3>1 DEF Adding
    <3>3. QED
      BY <1>1, <1>3, <2>1, <3>2, FewerAdd
  <2>4. QED
    BY <2>2, <2>3
<1>6. CASE CommitExtensions(c)
  <2>1. call'[c].pc = "done"
    BY <1>6, KnownTypes, DoneFits DEF CommitExtensions
  <2>2. CASE UNCHANGED licences
    BY <1>4, <2>1, <2>2
  <2>3. CASE ~UNCHANGED licences
    <3>1. licences' = AlignedLicences(c) /\ At(c, "committing")
      BY <1>6, <2>3 DEF CommitExtensions, extensions
    <3>2. CASE call[c].licences = {}
      <4>1. c \in Adding
        BY <3>1, <3>2 DEF Adding
      <4>2. Adding' \subseteq Adding \ {c}
        <5>1. Script \notin Calls
          BY RecordsAssumption
        <5>2. QED
          BY <1>2, <2>1, <5>1 DEF Adding
      <4>3. IsFiniteSet(licences')
            /\ Cardinality(licences') <= Cardinality(licences) + 1
        BY <3>1, <3>2, AlignedFinite
      <4>4. QED
        BY <1>1, <1>3, <4>1, <4>2, <4>3, OneAdds
    <3>3. CASE call[c].licences # {}
      <4>1. Adding' \subseteq Adding
        BY <1>2, <2>1 DEF Adding
      <4>2. IsFiniteSet(licences')
            /\ Cardinality(licences') <= Cardinality(licences) + 0
        BY <3>1, <3>3, AlignedFinite
      <4>3. Cardinality(licences') <= Cardinality(licences)
        BY <4>2, FS_CardinalityType DEF LicencesFinite
      <4>4. QED
        BY <1>1, <1>3, <4>1, <4>2, <4>3, NoneAdds
    <3>4. QED
      BY <3>2, <3>3
  <2>4. QED
    BY <2>2, <2>3
<1>7. CASE \/ FindCanonical(c) \/ FindCredential(c) \/ FindMember(c)
           \/ Recalculate(c) \/ FindForAlignment(c) \/ StopCall(c)
  <2>1. UNCHANGED licences
    BY <1>7 DEF FindCanonical, FindCredential, FindMember, Recalculate,
                FindForAlignment, StopCall, records, extensions
  <2>2. call'[c].pc # "committing"
    BY <1>7, KnownTypes, DoneFits
    DEF FindCanonical, FindCredential, FindMember, Recalculate,
        FindForAlignment, StopCall, Call
  <2>3. QED
    BY <1>4, <2>1, <2>2
<1>8. CASE \/ CreateRows(c) \/ UpdateMember(c) \/ ArchiveMember(c)
           \/ ChangeMember(c) \/ WriteCredential(c) \/ UpdateDriver(c)
           \/ ArchiveDriver(c) \/ ChangeDriver(c) \/ WriteDocument(c)
  <2>1. UNCHANGED licences
    BY <1>8 DEF CreateRows, UpdateMember, ArchiveMember, ChangeMember,
                WriteCredential, UpdateDriver, ArchiveDriver, ChangeDriver,
                WriteDocument, extensions
  <2>2. call'[c].pc # "committing"
    BY <1>8, KnownTypes, DoneFits
    DEF CreateRows, UpdateMember, ArchiveMember, ChangeMember, WriteCredential,
        UpdateDriver, ArchiveDriver, ChangeDriver, WriteDocument, Call
  <2>3. QED
    BY <1>4, <2>1, <2>2
<1>9. QED
  BY <1>5, <1>6, <1>7, <1>8 DEF Continue

\* So does the script.
LEMMA ScriptLicences ==
  ASSUME TypeInv, AloneInv, LicencesFinite, LicenceInv, RunScript
  PROVE  LicenceInv'
<1>1. UNCHANGED <<call, setting>>
  BY DEF RunScript, ReadDrivers, UpsertMember, ReadDocuments, CopyDocument,
         ReadHistory, CopyHistory, ReadMember, PopulateProfile,
         PopulateLicence, Report, StopScript
<1>2. InFlight' = InFlight
  BY <1>1 DEF InFlight
<1>3. CASE ReadMember
  <2>1. UNCHANGED licences /\ script'.licences = licences
    BY <1>3, ScriptKnows DEF ReadMember, records, extensions
  <2>2. CASE licences = {}
    <3>1. Adding' \subseteq InFlight \cup {Script}
      BY <1>1 DEF Adding, InFlight
    <3>2. ~setting.overlaps => InFlight = {}
      BY RunStates
    <3>3. setting.overlaps \/ Adding' \subseteq {Script}
      BY <3>1, <3>2
    <3>4. QED
      BY <1>1, <1>2, <2>1, <2>2, <3>1, <3>3, NoneYet
  <2>3. CASE licences # {}
    <3>1. Adding' \subseteq Adding
      BY <1>1, <2>1, <2>3 DEF Adding
    <3>2. QED
      BY <1>1, <1>2, <2>1, <3>1, FewerAdd
  <2>4. QED
    BY <2>2, <2>3
<1>4. CASE PopulateLicence
  <2>1. script'.pc = "reporting" /\ ScriptAt("licence")
    BY <1>4, ScriptKnows DEF PopulateLicence
  <2>2. Script \notin Adding'
    <3>1. Script \notin Calls
      BY RecordsAssumption
    <3>2. QED
      BY <2>1, <3>1 DEF Adding
  <2>3. Adding' \subseteq Adding \ {Script}
    BY <1>1, <2>1, <2>2 DEF Adding
  <2>4. CASE UNCHANGED licences
    BY <1>1, <1>2, <2>3, <2>4, FewerAdd
  <2>5. CASE ~UNCHANGED licences
    <3>1. Script \in Adding
      BY <1>4, <2>1, <2>5 DEF PopulateLicence, Adding
    <3>2. PICK l : licences' = licences \cup {l}
      BY <1>4, <2>5 DEF PopulateLicence
    <3>3. /\ IsFiniteSet(licences')
          /\ Cardinality(licences') = IF l \in licences
               THEN Cardinality(licences) ELSE Cardinality(licences) + 1
      BY <3>2, FS_AddElement DEF LicencesFinite
    <3>4. Cardinality(licences') <= Cardinality(licences) + 1
      BY <3>3, FS_CardinalityType DEF LicencesFinite
    <3>5. QED
      BY <1>1, <1>2, <2>3, <3>1, <3>3, <3>4, OneAdds
  <2>6. QED
    BY <2>4, <2>5
<1>5. CASE PopulateProfile
  <2>1. /\ UNCHANGED licences /\ ScriptAt("profile")
        /\ script'.licences = script.licences
    BY <1>5, ScriptKnows DEF PopulateProfile
  <2>2. Adding' \subseteq Adding
    BY <1>1, <2>1 DEF Adding
  <2>3. QED
    BY <1>1, <1>2, <2>1, <2>2, FewerAdd
<1>6. CASE \/ ReadDrivers \/ UpsertMember \/ ReadDocuments
           \/ (\E d \in Calls : CopyDocument(d))
           \/ ReadHistory \/ CopyHistory \/ Report \/ StopScript
  <2>1. UNCHANGED licences
    BY <1>6 DEF ReadDrivers, UpsertMember, ReadDocuments, CopyDocument,
                ReadHistory, CopyHistory, Report, StopScript, records,
                extensions
  <2>2. script'.pc \notin {"profile", "licence"}
    <3>1. CopyHistory => script'.pc = "histories"
      BY DEF CopyHistory
    <3>2. Report \/ StopScript => script'.pc = "off"
      BY DEF Report, StopScript, NotRunning
    <3>3. ReadDrivers \/ UpsertMember \/ ReadDocuments \/ ReadHistory
            => script'.pc \notin {"profile", "licence"}
      BY ScriptKnows DEF ReadDrivers, UpsertMember, ReadDocuments, ReadHistory
    <3>4. \A d \in Calls :
            CopyDocument(d) => script'.pc \notin {"profile", "licence"}
      BY ScriptKnows DEF CopyDocument
    <3>5. QED
      BY <1>6, <3>1, <3>2, <3>3, <3>4
  <2>3. Adding' \subseteq Adding
    BY <1>1, <2>2 DEF Adding
  <2>4. QED
    BY <1>1, <1>2, <2>1, <2>3, FewerAdd
<1>7. QED
  BY <1>3, <1>4, <1>5, <1>6 DEF RunScript

\* The bound holds from the beginning.
LEMMA InitLicences == Init => LicenceInv
<1> SUFFICES ASSUME Init PROVE LicenceInv
  OBVIOUS
<1>1. TypeInv /\ LicencesFinite /\ licences = {}
  BY InitTypeInv, FS_EmptySet DEF Init, RecordsInit, LicencesFinite
<1>2. InFlight = {}
  BY DEF Init, RecordsInit, InFlight, Resting
<1>3. Adding = {}
  BY DEF Init, RecordsInit, Adding, Resting, NotRunning
<1>4. IsFiniteSet(InFlight) /\ Cardinality(InFlight) = 0
      /\ Cardinality(licences) = 0 /\ Cardinality(Adding) = 0
  BY <1>1, <1>2, <1>3, FS_EmptySet
<1>5. setting.width \in Nat /\ Allowed \in Nat
  BY <1>1, <1>4, LicenceNumbers
<1>6. QED
  BY <1>4, <1>5 DEF LicenceInv

\* Every step of the specification preserves the bound.
LEMMA StepLicences ==
  TypeInv /\ AloneInv /\ LicencesFinite /\ LicenceInv /\ [Next]_vars
    => LicenceInv'
<1> SUFFICES ASSUME TypeInv, AloneInv, LicencesFinite, LicenceInv, [Next]_vars
             PROVE  LicenceInv'
  OBVIOUS
<1>1. CASE UNCHANGED vars
  <2>1. UNCHANGED <<licences, setting, call, script>>
    BY <1>1 DEF vars, records, extensions
  <2>2. QED
    BY <2>1 DEF LicenceInv, InFlight, Adding, Allowed
<1>2. QED
  BY <1>1, BeginLicences, ContinueLicences, ScriptLicences DEF Next, Serve

\* Alignment makes a licence only when it has found none, so there is never
\* more than one for each request that looks at the same time, and the script's,
\* whatever is broken off (alignExtensions, populateWorkforceExtensions).
THEOREM LicencesBounded == Spec => []LicencesAreBounded
<1>1. TypeInv /\ LicencesFinite /\ LicenceInv => LicencesAreBounded
  <2> SUFFICES ASSUME TypeInv, LicencesFinite, LicenceInv
               PROVE  LicencesAreBounded
    OBVIOUS
  <2>1. /\ Cardinality(licences) \in Nat /\ Cardinality(Adding) \in Nat
        /\ Allowed \in Nat
        /\ Cardinality(licences) + Cardinality(Adding) <= Allowed
    BY LicenceNumbers DEF LicenceInv
  <2>2. Cardinality(licences) <= Allowed
    BY <2>1
  <2>3. QED
    BY <2>2 DEF LicencesAreBounded, Allowed
<1>2. QED
  BY <1>1, InitLicences, StepLicences, InitAlone, StepAlone, TypeInvAlways,
     FiniteAlways, PTL
  DEF Spec

------------------------------------------------------------------------------
(* The history of the status                                               *)

\* A history without entries leads from a status to itself, ...
LEMMA LeadsNowhere ==
  ASSUME NEW first \in Operational, NEW last
  PROVE  Leads(<<>>, first, last) <=> last = first
<1>1. Len(<<>>) = 0
  OBVIOUS
<1>2. [i \in 0 .. 0 |-> first] \in [0 .. 0 -> Operational]
  OBVIOUS
<1>3. Leads(<<>>, first, first)
  <2>1. PICK at : at = [i \in 0 .. 0 |-> first]
    OBVIOUS
  <2>2. at \in [0 .. 0 -> Operational] /\ 0 \in 0 .. 0
    BY <1>2, <2>1
  <2>3. at[0] = first
    BY <2>1, <2>2
  <2>4. \A i \in 1 .. 0 : FALSE
    OBVIOUS
  <2>5. QED
    BY <1>1, <2>2, <2>3, <2>4 DEF Leads
<1>4. Leads(<<>>, first, last) => last = first
  BY <1>1 DEF Leads
<1>5. QED
  BY <1>3, <1>4

\* ... an entry of another category leads nowhere, ...
LEMMA LeadsOn ==
  ASSUME NEW history \in Seq(Change), NEW entry \in Change,
         NEW first, NEW last, NEW next \in Operational,
         Leads(history, first, last),
         IF entry.category = "OPERATIONAL_STATUS"
         THEN entry.from = last /\ entry.to = next
         ELSE next = last
  PROVE  Leads(Append(history, entry), first, next)
<1> DEFINE n == Len(history)
           longer == Append(history, entry)
<1>1. PICK at \in [0 .. n -> Operational] :
        /\ at[0] = first /\ at[n] = last
        /\ \A i \in 1 .. n :
             IF history[i].category = "OPERATIONAL_STATUS"
             THEN at[i - 1] = history[i].from /\ at[i] = history[i].to
             ELSE at[i] = at[i - 1]
  BY DEF Leads
<1>2. /\ n \in Nat /\ Len(longer) = n + 1 /\ longer[n + 1] = entry
      /\ \A i \in 1 .. n : longer[i] = history[i]
  OBVIOUS
<1> HIDE DEF n, longer
<1>3. PICK then :
        then = [i \in 0 .. n + 1 |-> IF i = n + 1 THEN next ELSE at[i]]
  OBVIOUS
<1>4. /\ then \in [0 .. n + 1 -> Operational]
      /\ then[n + 1] = next
      /\ \A i \in 0 .. n : then[i] = at[i]
  <2>1. \A i \in 0 .. n + 1 :
          (IF i = n + 1 THEN next ELSE at[i]) \in Operational
    <3>1. \A i \in 0 .. n + 1 : i # n + 1 => i \in 0 .. n
      BY <1>2
    <3>2. QED
      BY <1>1, <3>1
  <2>2. then \in [0 .. n + 1 -> Operational]
    BY <1>3, <2>1
  <2>3. n + 1 \in 0 .. n + 1
        /\ \A i \in 0 .. n : i \in 0 .. n + 1 /\ i # n + 1
    BY <1>2
  <2>4. QED
    BY <1>3, <2>2, <2>3
<1>5. then[0] = first /\ then[n] = last
  BY <1>1, <1>2, <1>4
<1>6. \A i \in 1 .. n + 1 :
        IF longer[i].category = "OPERATIONAL_STATUS"
        THEN then[i - 1] = longer[i].from /\ then[i] = longer[i].to
        ELSE then[i] = then[i - 1]
  <2> SUFFICES ASSUME NEW i \in 1 .. n + 1
               PROVE  IF longer[i].category = "OPERATIONAL_STATUS"
                      THEN /\ then[i - 1] = longer[i].from
                           /\ then[i] = longer[i].to
                      ELSE then[i] = then[i - 1]
    OBVIOUS
  <2>1. CASE i = n + 1
    <3>1. longer[i] = entry /\ then[i] = next /\ then[i - 1] = last
      BY <1>2, <1>4, <1>5, <2>1
    <3>2. QED
      BY <3>1
  <2>2. CASE i \in 1 .. n
    <3>1. /\ longer[i] = history[i] /\ i \in 0 .. n /\ i - 1 \in 0 .. n
          /\ then[i] = at[i] /\ then[i - 1] = at[i - 1]
      BY <1>2, <1>4, <2>2
    <3>2. QED
      BY <1>1, <2>2, <3>1
  <2>3. QED
    BY <1>2, <2>1, <2>2
<1>7. QED
  BY <1>2, <1>4, <1>5, <1>6 DEF Leads, longer

\* Where statuses are changed in turn, the script runs once at most, and then
\* upon a driver that has no member yet.
OnceInv ==
  StatusesAreChangedInTurn =>
    /\ script.runs <= setting.scripts
    /\ script.runs = 0 => ScriptAt("off")
    /\ setting.migrated =>
         /\ driver.state # "none"
         /\ script.runs = 0 \/ ScriptAt("members") => member.state = "none"

\* A request under way was asked for, and one that changes a status holds the
\* row it writes to.
StatusInv ==
  StatusesAreChangedInTurn =>
    \A c \in InFlight :
      /\ Want(c) \in setting.requests
      /\ call[c].pc \in {"canonical", "credential", "legacy"} =>
           call[c].driver.status = driver.status
      /\ Want(c).op = "status" =>
           /\ At(c, "legacy") /\ Want(c).category = "OPERATIONAL_STATUS" =>
                member.state # "active"
           /\ call[c].pc = "writing" => member.state = "active"

\* The history there is leads to the status that is read.
HistoryInv ==
  StatusesAreChangedInTurn =>
    /\ driver.state = "none" => driverHistory = <<>>
    /\ member.state = "none" => memberHistory = <<>>
    /\ driver.state = "active" =>
         \E first, moved \in Operational :
           /\ Leads(driverHistory, first, moved)
           /\ Leads(memberHistory, moved, CurrentStatus)

\* What a request in turn does to the statuses and their history.
LEMMA ContinuesStatuses ==
  ASSUME TypeInv, AloneInv, TurnInv, StatusInv, StatusesAreChangedInTurn,
         NEW c \in Calls, Continue(c)
  PROVE  \/ /\ UNCHANGED histories
            /\ driver'.state = driver.state /\ member'.state = member.state
            /\ driver'.status.OPERATIONAL_STATUS
                 = driver.status.OPERATIONAL_STATUS
            /\ member'.status.OPERATIONAL_STATUS
                 = member.status.OPERATIONAL_STATUS
         \/ /\ UNCHANGED histories
            /\ driver.state = "none" /\ driver'.state = "active"
            /\ member'.state = "active"
            /\ member'.status.OPERATIONAL_STATUS \in Operational
         \/ /\ UNCHANGED histories
            /\ driver'.state = "archived"
            /\ member'.state # member.state => member.state # "none"
         \/ ChangeMember(c)
         \/ ChangeDriver(c)
<1>1. c \in InFlight /\ setting.width = 1 /\ ~setting.overlaps
  BY ContinuesInFlight DEF StatusesAreChangedInTurn
<1>2. Want(c).op = "update" => Want(c).status = ""
  BY <1>1 DEF StatusInv, StatusesAreChangedInTurn
<1>3. CASE \/ FindCanonical(c) \/ FindCredential(c) \/ FindMember(c)
           \/ Recalculate(c) \/ FindForAlignment(c) \/ ReadExtensions(c)
           \/ StopCall(c) \/ WriteCredential(c)
  BY <1>3 DEF FindCanonical, FindCredential, FindMember, Recalculate,
              FindForAlignment, ReadExtensions, StopCall, WriteCredential,
              records, histories
<1>4. CASE CreateRows(c)
  <2>1. NewStatus.OPERATIONAL_STATUS \in Operational
    BY DEF NewStatus, Operational
  <2>2. CASE driver.state = "none"
    <3>1. driver'.state = "active"
      BY <1>4, <2>2, KnownTypes DEF CreateRows, Driver
    <3>2. member' = [NoMember EXCEPT !.state = "active"]
      BY <1>4, <2>2 DEF CreateRows
    <3>3. member'.state = "active" /\ member'.status = NewStatus
      BY <3>2 DEF NoMember
    <3>4. QED
      BY <1>4, <2>1, <2>2, <3>1, <3>3 DEF CreateRows
  <2>3. CASE driver.state # "none"
    BY <1>4, <2>3 DEF CreateRows
  <2>4. QED
    BY <2>2, <2>3
<1>5. CASE UpdateMember(c)
  <2>1. PICK meta, onboarding : member' = [member EXCEPT !.meta = meta,
             !.status.ONBOARDING_STATUS = onboarding,
             !.status.OPERATIONAL_STATUS =
               IF Want(c).status # "" THEN Want(c).status ELSE @]
    BY <1>5 DEF UpdateMember
  <2>2. Want(c).status = ""
    BY <1>2, <1>5 DEF UpdateMember
  <2>3. member'.state = member.state
        /\ member'.status.OPERATIONAL_STATUS = member.status.OPERATIONAL_STATUS
    BY <2>1, <2>2, KnownTypes DEF Member, Status
  <2>4. QED
    BY <1>5, <2>3 DEF UpdateMember
<1>6. CASE CommitExtensions(c)
  <2>1. UNCHANGED <<driver, histories>>
    BY <1>6 DEF CommitExtensions
  <2>2. CASE UNCHANGED member
    BY <2>1, <2>2
  <2>3. CASE ~UNCHANGED member
    <3>1. PICK status, meta : /\ member' = [member EXCEPT
                                  !.status.ONBOARDING_STATUS = status,
                                  !.meta = meta]
      BY <1>6, <2>3 DEF CommitExtensions, extensions
    <3>2. member'.state = member.state
          /\ member'.status.OPERATIONAL_STATUS
               = member.status.OPERATIONAL_STATUS
      BY <3>1, KnownTypes DEF Member, Status
    <3>3. QED
      BY <2>1, <3>2
  <2>4. QED
    BY <2>2, <2>3
<1>7. CASE UpdateDriver(c)
  <2>1. /\ UNCHANGED <<member, histories>> /\ Want(c).status = ""
        /\ driver'.state = driver.state
        /\ driver'.status.OPERATIONAL_STATUS = driver.status.OPERATIONAL_STATUS
    <3>1. PICK link, joined, licence : driver' = [driver EXCEPT
             !.link = link, !.joined = joined, !.licence = licence,
             !.status.OPERATIONAL_STATUS =
               IF Want(c).status # "" THEN Want(c).status ELSE @]
      BY <1>7 DEF UpdateDriver
    <3>2. Want(c).status = ""
      BY <1>2, <1>7 DEF UpdateDriver
    <3>3. driver'.state = driver.state
          /\ driver'.status.OPERATIONAL_STATUS
               = driver.status.OPERATIONAL_STATUS
      BY <3>1, <3>2, KnownTypes DEF Driver, Status
    <3>4. QED
      BY <1>7, <3>2, <3>3 DEF UpdateDriver
  <2>2. QED
    BY <2>1
<1>8. CASE WriteDocument(c)
  <2>1. PICK compliance : driver' = [driver EXCEPT
                            !.status.COMPLIANCE_STATUS = compliance]
    BY <1>8 DEF WriteDocument
  <2>2. driver'.state = driver.state
        /\ driver'.status.OPERATIONAL_STATUS = driver.status.OPERATIONAL_STATUS
    BY <2>1, KnownTypes DEF Driver, Status
  <2>3. QED
    BY <1>8, <2>2 DEF WriteDocument
<1>9. CASE ArchiveDriver(c)
  BY <1>9, KnownTypes DEF ArchiveDriver, Driver
<1>10. CASE ArchiveMember(c)
  <2>1. member.state # "none" /\ member.state \in {"none", driver.state}
    BY <1>1, <1>10 DEF AloneInv, ArchiveMember
  <2>2. driver.state \in {"active", "archived"}
    <3>1. driver.state \in RowState /\ driver.state # "none"
      BY <2>1, KnownTypes DEF Driver
    <3>2. QED
      BY <3>1 DEF RowState
  <2>3. driver'.state = "archived"
    BY <1>10, <2>2, KnownTypes DEF ArchiveMember, Driver
  <2>4. QED
    BY <1>10, <2>1, <2>3 DEF ArchiveMember
<1>11. QED
  BY <1>3, <1>4, <1>5, <1>6, <1>7, <1>8, <1>9, <1>10 DEF Continue

\* Every step of the specification leaves the setting alone.
LEMMA SameSetting == [Next]_vars => UNCHANGED setting
BY DEF Next, Serve, Begin, CheckNew, Start, Continue, CreateRows,
       FindCanonical, FindCredential, FindMember, UpdateMember,
       ArchiveMember, ChangeMember, WriteCredential, UpdateDriver,
       ArchiveDriver, ChangeDriver, Recalculate, WriteDocument,
       FindForAlignment, ReadExtensions, CommitExtensions, StopCall,
       RunScript, ReadDrivers, UpsertMember, ReadDocuments, CopyDocument,
       ReadHistory, CopyHistory, ReadMember, PopulateProfile,
       PopulateLicence, Report, StopScript, vars

\* Every step of the specification preserves OnceInv.
LEMMA StepOnce == TypeInv /\ AloneInv /\ OnceInv /\ [Next]_vars => OnceInv'
<1> SUFFICES ASSUME TypeInv, AloneInv, OnceInv, [Next]_vars,
                    StatusesAreChangedInTurn
             PROVE  OnceInv'
  BY SameSetting DEF OnceInv, StatusesAreChangedInTurn
<1>1. UNCHANGED setting /\ ~setting.overlaps /\ setting.scripts \in {0, 1}
  BY SameSetting DEF StatusesAreChangedInTurn
<1>2. /\ script.runs \in Nat /\ script.runs <= setting.scripts
      /\ script.runs = 0 => ScriptAt("off")
      /\ setting.migrated =>
           /\ driver.state # "none"
           /\ script.runs = 0 \/ ScriptAt("members") => member.state = "none"
  BY ScriptKnows DEF OnceInv
<1>3. ASSUME UNCHANGED <<driver, member, script>>
      PROVE  OnceInv'
  BY <1>1, <1>2, <1>3 DEF OnceInv
<1>4. ASSUME NEW c \in Calls, NEW want \in setting.requests, Begin(c, want),
             UNCHANGED script
      PROVE  OnceInv'
  BY <1>3, <1>4 DEF Begin, CheckNew, Start, records
<1>5. ASSUME NEW c \in Calls, Continue(c), UNCHANGED script
      PROVE  OnceInv'
  <2>1. /\ driver.state # "none" => driver'.state # "none"
        /\ driver.state # "none" /\ member.state = "none" =>
             member'.state = "none"
    BY <1>1, <1>5, ContinuesStates
  <2>2. QED
    BY <1>1, <1>2, <1>5, <2>1 DEF OnceInv
<1>6. CASE RunScript
  <2>1. UNCHANGED driver
    BY <1>1, <1>6, RunStates
  <2>2. CASE ReadDrivers
    <3>1. script'.pc = "members" /\ script'.runs = script.runs + 1
          /\ script.runs < setting.scripts /\ UNCHANGED member
      BY <2>2, ScriptKnows DEF ReadDrivers, records
    <3>2. script.runs = 0 /\ script'.runs = 1
      BY <1>1, <1>2, <3>1
    <3>3. QED
      BY <1>1, <1>2, <2>1, <3>1, <3>2 DEF OnceInv
  <2>3. CASE UpsertMember
    <3>1. script'.pc = "documents" /\ script'.runs = script.runs
          /\ ~ScriptAt("off")
      BY <2>3, ScriptKnows DEF UpsertMember
    <3>2. QED
      BY <1>1, <1>2, <2>1, <3>1 DEF OnceInv
  <2>4. CASE \/ ReadDocuments \/ (\E d \in Calls : CopyDocument(d))
             \/ ReadHistory \/ CopyHistory
             \/ ReadMember \/ PopulateProfile \/ PopulateLicence
    <3>1. /\ script'.pc # "members" /\ script'.runs = script.runs
          /\ ~ScriptAt("off")
      BY <2>4, ScriptKnows
      DEF ReadDocuments, CopyDocument, ReadHistory, CopyHistory, ReadMember,
          PopulateProfile, PopulateLicence
    <3>2. QED
      BY <1>1, <1>2, <2>1, <3>1 DEF OnceInv
  <2>5. CASE Report \/ StopScript
    <3>1. ~ScriptAt("off") /\ script'.pc = "off" /\ script'.runs = script.runs
      BY <2>5 DEF Report, StopScript, NotRunning
    <3>2. QED
      BY <1>1, <1>2, <2>1, <3>1 DEF OnceInv
  <2>6. QED
    BY <1>6, <2>2, <2>3, <2>4, <2>5 DEF RunScript
<1>7. CASE UNCHANGED vars
  BY <1>3, <1>7 DEF vars, records
<1>8. QED
  BY <1>4, <1>5, <1>6, <1>7 DEF Next, Serve

\* Every step of the specification preserves StatusInv.
LEMMA StepStatus ==
  TypeInv /\ AloneInv /\ TurnInv /\ StatusInv /\ [Next]_vars => StatusInv'
<1> SUFFICES ASSUME TypeInv, AloneInv, TurnInv, StatusInv, [Next]_vars,
                    StatusesAreChangedInTurn
             PROVE  StatusInv'
  BY SameSetting DEF StatusInv, StatusesAreChangedInTurn
<1>1. UNCHANGED setting /\ setting.width = 1 /\ ~setting.overlaps
  BY SameSetting DEF StatusesAreChangedInTurn
<1>2. ASSUME NEW c \in Calls, InFlight' \subseteq {c},
             Want(c)' \in setting.requests,
             call'[c].pc \in {"canonical", "credential", "legacy"} =>
               call'[c].driver.status = driver'.status,
             Want(c)'.op = "status" =>
               /\ At(c, "legacy")' /\ Want(c)'.category = "OPERATIONAL_STATUS"
                    => member'.state # "active"
               /\ call'[c].pc = "writing" => member'.state = "active"
      PROVE  StatusInv'
  BY <1>1, <1>2 DEF StatusInv
<1>3. ASSUME NEW c \in Calls, NEW want \in setting.requests, Begin(c, want)
      PROVE  StatusInv'
  <2>1. InFlight = {}
    BY <1>1, <1>3, NobodyElse DEF TurnInv, Begin
  <2>2. /\ \A e \in Calls \ {c} : call'[e] = call[e]
        /\ call'[c].pc \in {"creating", "canonical"} /\ Want(c)' = want
        /\ call'[c].pc = "canonical" => call'[c].driver = driver'
    BY <1>3, KnownTypes DEF Begin, CheckNew, Start, Call, records
  <2>3. InFlight' \subseteq {c}
    BY <2>1, <2>2 DEF InFlight
  <2>4. QED
    BY <1>2, <2>2, <2>3
<1>4. ASSUME NEW c \in Calls, Continue(c)
      PROVE  StatusInv'
  <2>1. c \in InFlight /\ \A e \in Calls \ {c} : call'[e] = call[e]
    BY <1>4, ContinuesInFlight, ContinuesAlone
  <2>2. InFlight' \subseteq {c}
    BY <1>1, <2>1 DEF TurnInv, InFlight
  <2>3. /\ Want(c) \in setting.requests
        /\ call[c].pc \in {"canonical", "credential", "legacy"} =>
             call[c].driver.status = driver.status
    BY <2>1 DEF StatusInv
  <2>4. CASE Finish(c)
    <3>1. c \notin InFlight'
      BY <2>4, KnownTypes, DoneFits DEF InFlight
    <3>2. InFlight' = {}
      BY <2>2, <3>1
    <3>3. QED
      BY <3>2 DEF StatusInv
  <2>5. CASE FindCanonical(c) /\ ~Finish(c)
    <3>1. /\ UNCHANGED <<driver, member>> /\ Want(c)' = Want(c)
          /\ call'[c].driver = call[c].driver
          /\ call'[c].pc \in {"credential", "member", "legacy"}
          /\ At(c, "canonical")
      BY <2>5, KnownTypes DEF FindCanonical, Call, records
    <3>2. Want(c).op = "status" /\ Want(c).category = "OPERATIONAL_STATUS"
            /\ At(c, "legacy")' => member.state # "active"
      BY <2>5, KnownTypes DEF FindCanonical, Canonical, Call
    <3>3. QED
      BY <1>2, <2>2, <2>3, <3>1, <3>2
  <2>6. CASE FindCredential(c) /\ ~Finish(c)
    <3>1. /\ UNCHANGED <<driver, member>> /\ Want(c)' = Want(c)
          /\ call'[c].driver = call[c].driver
          /\ At(c, "credential") /\ Want(c).op = "edit"
      BY <2>6, KnownTypes DEF FindCredential, Call, Fits, records
    <3>2. QED
      BY <1>2, <2>2, <2>3, <3>1
  <2>7. CASE FindMember(c) /\ ~Finish(c)
    <3>1. /\ UNCHANGED <<driver, member>> /\ Want(c)' = Want(c)
          /\ call'[c].pc = "writing" /\ member.state = "active"
      BY <2>7, KnownTypes DEF FindMember, Call, records
    <3>2. QED
      BY <1>2, <2>2, <2>3, <3>1
  <2>8. CASE \/ CreateRows(c) \/ UpdateMember(c) \/ Recalculate(c)
             \/ FindForAlignment(c) \/ ReadExtensions(c)
    <3>1. \/ Finish(c)
          \/ /\ call'[c].pc \in {"aligning", "filing", "extending",
                                 "committing"}
             /\ Want(c)' = Want(c)
      BY <2>8, KnownTypes
      DEF CreateRows, UpdateMember, Recalculate, FindForAlignment,
          ReadExtensions, Call
    <3>2. QED
      BY <1>2, <2>2, <2>3, <2>4, <3>1
  <2>9. \/ Finish(c) \/ FindCanonical(c) \/ FindCredential(c)
        \/ FindMember(c) \/ CreateRows(c) \/ UpdateMember(c)
        \/ Recalculate(c) \/ FindForAlignment(c) \/ ReadExtensions(c)
    BY <1>4
    DEF Continue, ArchiveMember, ChangeMember, WriteCredential, UpdateDriver,
        ArchiveDriver, ChangeDriver, WriteDocument, CommitExtensions, StopCall
  <2>10. QED
    BY <2>4, <2>5, <2>6, <2>7, <2>8, <2>9
<1>5. CASE RunScript
  <2>1. InFlight' = {}
    BY <1>1, <1>5, RunStates DEF InFlight
  <2>2. QED
    BY <2>1 DEF StatusInv
<1>6. CASE UNCHANGED vars
  BY <1>6 DEF vars, records, StatusInv, InFlight
<1>7. QED
  BY <1>3, <1>4, <1>5, <1>6 DEF Next, Serve

\* The entry of a change of a status goes from what the request has read to
\* what it wants.
LEMMA EntryLeads ==
  ASSUME TypeInv, NEW c \in Calls, Want(c).op = "status", NEW row,
         row.status \in Status, NEW history \in Seq(Change),
         NEW first \in Operational,
         Leads(history, first, row.status.OPERATIONAL_STATUS)
  PROVE  Leads(Append(history, Entry(c, row)), first,
               [row.status EXCEPT ![Want(c).category] = Want(c).value]
                 .OPERATIONAL_STATUS)
<1>1. /\ Want(c).category \in Category /\ Want(c).value \in AnyStatus
      /\ row.status[Want(c).category] \in AnyStatus
      /\ [row.status EXCEPT ![Want(c).category] = Want(c).value] \in Status
  BY StatusTypes
<1>2. PICK entry \in Change : entry = Entry(c, row)
  BY <1>1 DEF Entry, Change
<1>3. /\ entry.category = Want(c).category /\ entry.to = Want(c).value
      /\ entry.from = row.status[Want(c).category]
  BY <1>2 DEF Entry
<1>4. PICK next \in Operational : next =
        [row.status EXCEPT ![Want(c).category] = Want(c).value]
          .OPERATIONAL_STATUS
  BY <1>1 DEF Status
<1>5. IF entry.category = "OPERATIONAL_STATUS"
      THEN /\ entry.from = row.status.OPERATIONAL_STATUS /\ entry.to = next
      ELSE next = row.status.OPERATIONAL_STATUS
  BY <1>1, <1>3, <1>4 DEF Status, Category
<1>6. Leads(Append(history, entry), first, next)
  BY <1>5, LeadsOn
<1>7. QED
  BY <1>2, <1>4, <1>6

\* The history reads on as before where no status and no entry changes.
LEMMA SameHistory ==
  ASSUME HistoryInv, UNCHANGED <<setting, histories>>,
         driver'.state = driver.state, member'.state = member.state,
         driver'.status.OPERATIONAL_STATUS = driver.status.OPERATIONAL_STATUS,
         member'.status.OPERATIONAL_STATUS = member.status.OPERATIONAL_STATUS
  PROVE  HistoryInv'
<1>1. UNCHANGED <<driverHistory, memberHistory>>
      /\ CurrentStatus' = CurrentStatus
  BY DEF histories, CurrentStatus
<1>2. StatusesAreChangedInTurn' = StatusesAreChangedInTurn
  BY DEF StatusesAreChangedInTurn
<1>3. SUFFICES ASSUME StatusesAreChangedInTurn, driver.state = "active"
               PROVE  \E first, moved \in Operational :
                        /\ Leads(driverHistory, first, moved)'
                        /\ Leads(memberHistory, moved, CurrentStatus)'
  BY <1>1, <1>2 DEF HistoryInv
<1>4. PICK first, moved \in Operational :
        /\ Leads(driverHistory, first, moved)
        /\ Leads(memberHistory, moved, CurrentStatus)
  BY <1>3 DEF HistoryInv
<1>5. Leads(driverHistory, first, moved)'
      /\ Leads(memberHistory, moved, CurrentStatus)'
  BY <1>1, <1>4 DEF Leads
<1>6. QED
  BY <1>5

\* A change of the status of the member is entered where the history ended.
LEMMA MemberHistory ==
  ASSUME TypeInv, AloneInv, TurnInv, StatusInv, HistoryInv,
         StatusesAreChangedInTurn, NEW c \in Calls, ChangeMember(c)
  PROVE  HistoryInv'
<1>1. /\ c \in InFlight /\ setting.width = 1 /\ ~setting.overlaps
      /\ Want(c).op = "status" /\ UNCHANGED <<driver, driverHistory>>
  BY ContinuesInFlight
  DEF Continue, StatusesAreChangedInTurn, ChangeMember
<1>2. /\ member.state = "active" /\ driver.state = "active"
      /\ call[c].member = member
  BY <1>1 DEF StatusInv, TurnInv, AloneInv, ChangeMember
<1>3. PICK first, moved \in Operational :
        /\ Leads(driverHistory, first, moved)
        /\ Leads(memberHistory, moved, member.status.OPERATIONAL_STATUS)
  BY <1>2 DEF HistoryInv, CurrentStatus
<1>4. member.status \in Status /\ memberHistory \in Seq(Change)
  BY KnownTypes DEF Member
<1>5. memberHistory' = Append(memberHistory, Entry(c, member))
  BY <1>2 DEF ChangeMember
<1>6. Leads(memberHistory', moved,
            [member.status EXCEPT ![Want(c).category] = Want(c).value]
              .OPERATIONAL_STATUS)
  BY <1>1, <1>3, <1>4, <1>5, EntryLeads
<1>7. member'.state = "active" /\ member'.status =
        [member.status EXCEPT ![Want(c).category] = Want(c).value]
  <2>1. PICK category, value : category = Want(c).category
                               /\ value = Want(c).value
    OBVIOUS
  <2>2. member' = [member EXCEPT !.status[category] = value]
    BY <2>1 DEF ChangeMember
  <2>3. QED
    BY <1>2, <2>1, <2>2, KnownTypes DEF Member
<1>8. CurrentStatus' = member'.status.OPERATIONAL_STATUS
  BY <1>7 DEF CurrentStatus
<1>9. Leads(memberHistory, moved, CurrentStatus)'
  <2>1. Leads(memberHistory', moved, CurrentStatus')
    BY <1>6, <1>7, <1>8
  <2>2. QED
    BY <2>1 DEF Leads
<1>10. Leads(driverHistory, first, moved)'
  BY <1>1, <1>3 DEF Leads
<1>11. QED
  BY <1>1, <1>2, <1>7, <1>9, <1>10 DEF HistoryInv

\* So is a change of the status of the driver, which only a driver without a
\* member makes to its operational status.
LEMMA DriverHistory ==
  ASSUME TypeInv, AloneInv, TurnInv, StatusInv, HistoryInv,
         StatusesAreChangedInTurn, NEW c \in Calls, ChangeDriver(c)
  PROVE  HistoryInv'
<1>1. /\ c \in InFlight /\ setting.width = 1 /\ ~setting.overlaps
      /\ Want(c).op = "status" /\ UNCHANGED <<member, memberHistory>>
  BY ContinuesInFlight
  DEF Continue, StatusesAreChangedInTurn, ChangeDriver
<1>2. /\ driver.state # "none" /\ call[c].driver.status = driver.status
      /\ Want(c).category = "OPERATIONAL_STATUS" => member.state # "active"
      /\ member.state \in {"none", driver.state}
  BY <1>1 DEF StatusInv, AloneInv, ChangeDriver
<1>3. driver.status \in Status /\ driverHistory \in Seq(Change)
      /\ call[c].driver.status \in Status
  BY KnownTypes DEF Driver, Call
<1>4. driver'.state = driver.state /\ driver'.status =
        [driver.status EXCEPT ![Want(c).category] = Want(c).value]
  <2>1. PICK category, value : category = Want(c).category
                               /\ value = Want(c).value
    OBVIOUS
  <2>2. driver' = [driver EXCEPT !.status[category] = value]
    BY <2>1 DEF ChangeDriver
  <2>3. QED
    BY <2>1, <2>2, KnownTypes DEF Driver
<1>5. CASE driver.state # "active"
  BY <1>1, <1>2, <1>4, <1>5 DEF HistoryInv
<1>6. CASE driver.state = "active"
  <2>1. PICK first, moved \in Operational :
          /\ Leads(driverHistory, first, moved)
          /\ Leads(memberHistory, moved, CurrentStatus)
    BY <1>6 DEF HistoryInv
  <2>2. driverHistory' = Append(driverHistory, Entry(c, call[c].driver))
    BY DEF ChangeDriver
  <2>3. CASE member.state = "none"
    <3>1. memberHistory = <<>>
      BY <2>3 DEF HistoryInv
    <3>2. CurrentStatus = driver.status.OPERATIONAL_STATUS
          /\ CurrentStatus' = driver'.status.OPERATIONAL_STATUS
      BY <1>1, <2>3 DEF CurrentStatus
    <3>3. moved = call[c].driver.status.OPERATIONAL_STATUS
      BY <1>2, <2>1, <3>1, <3>2, LeadsNowhere
    <3>4. Leads(driverHistory', first,
            [call[c].driver.status EXCEPT ![Want(c).category] = Want(c).value]
              .OPERATIONAL_STATUS)
      BY <1>1, <1>3, <2>1, <2>2, <3>3, EntryLeads
    <3>5. [call[c].driver.status EXCEPT ![Want(c).category] = Want(c).value]
            = driver'.status
      BY <1>2, <1>4
    <3>6. PICK next \in Operational :
            next = driver'.status.OPERATIONAL_STATUS
      BY <1>1, <1>3, <1>4, StatusTypes DEF Status
    <3>7. Leads(driverHistory', first, next)
      BY <3>4, <3>5, <3>6
    <3>8. Leads(memberHistory', next, CurrentStatus')
      BY <1>1, <3>1, <3>2, <3>6, LeadsNowhere
    <3>9. Leads(driverHistory, first, next)' /\ Leads(memberHistory, next,
                                                      CurrentStatus)'
      BY <3>7, <3>8 DEF Leads
    <3>10. QED
      BY <1>1, <1>4, <1>6, <2>3, <3>1, <3>9 DEF HistoryInv
  <2>4. CASE member.state = "active"
    <3>1. /\ Want(c).category # "OPERATIONAL_STATUS"
          /\ Want(c).category \in Category
      BY <1>1, <1>2, <1>3, <2>4, StatusTypes
    <3>2. driver'.status.OPERATIONAL_STATUS = driver.status.OPERATIONAL_STATUS
      BY <1>3, <1>4, <3>1 DEF Status, Category
    <3>3. CurrentStatus' = CurrentStatus
      BY <1>1, <2>4 DEF CurrentStatus
    <3>4. PICK entry \in Change : entry = Entry(c, call[c].driver)
      BY <1>1, <1>3, StatusTypes DEF Entry, Change
    <3>5. entry.category # "OPERATIONAL_STATUS"
      BY <3>1, <3>4 DEF Entry
    <3>6. Leads(driverHistory', first, moved)
      BY <1>3, <2>1, <2>2, <3>4, <3>5, LeadsOn
    <3>7. Leads(driverHistory, first, moved)'
          /\ Leads(memberHistory, moved, CurrentStatus)'
      BY <1>1, <2>1, <3>3, <3>6 DEF Leads
    <3>8. QED
      BY <1>1, <1>4, <1>6, <2>4, <3>7 DEF HistoryInv
  <2>5. QED
    BY <1>2, <1>6, <2>3, <2>4
<1>7. QED
  BY <1>5, <1>6

\* Every step of the specification preserves HistoryInv.
LEMMA StepHistory ==
  TypeInv /\ AloneInv /\ TurnInv /\ OnceInv /\ StatusInv /\ HistoryInv
    /\ [Next]_vars => HistoryInv'
<1> SUFFICES ASSUME TypeInv, AloneInv, TurnInv, OnceInv, StatusInv, HistoryInv,
                    [Next]_vars, StatusesAreChangedInTurn
             PROVE  HistoryInv'
  BY SameSetting DEF HistoryInv, StatusesAreChangedInTurn
<1>1. /\ UNCHANGED setting /\ setting.width = 1 /\ ~setting.overlaps
      /\ setting.scripts = 0 \/ (setting.scripts = 1 /\ setting.migrated)
  BY SameSetting DEF StatusesAreChangedInTurn
<1>2. ASSUME UNCHANGED <<driver, member, histories>>
      PROVE  HistoryInv'
  BY <1>1, <1>2, SameHistory
<1>3. ASSUME NEW c \in Calls, NEW want \in setting.requests, Begin(c, want)
      PROVE  HistoryInv'
  BY <1>2, <1>3 DEF Begin, CheckNew, Start, records
<1>4. ASSUME NEW c \in Calls, Continue(c)
      PROVE  HistoryInv'
  <2>1. CASE /\ UNCHANGED histories
             /\ driver'.state = driver.state /\ member'.state = member.state
             /\ driver'.status.OPERATIONAL_STATUS
                  = driver.status.OPERATIONAL_STATUS
             /\ member'.status.OPERATIONAL_STATUS
                  = member.status.OPERATIONAL_STATUS
    BY <1>1, <2>1, SameHistory
  <2>2. CASE /\ UNCHANGED histories
             /\ driver.state = "none" /\ driver'.state = "active"
             /\ member'.state = "active"
             /\ member'.status.OPERATIONAL_STATUS \in Operational
    <3>1. member.state = "none"
      BY <1>1, <2>2 DEF AloneInv
    <3>2. driverHistory' = <<>> /\ memberHistory' = <<>>
      BY <2>2, <3>1 DEF HistoryInv, histories
    <3>3. PICK first \in Operational : first = CurrentStatus'
      BY <2>2 DEF CurrentStatus
    <3>4. Leads(driverHistory', first, first)
          /\ Leads(memberHistory', first, CurrentStatus')
      BY <3>2, <3>3, LeadsNowhere
    <3>5. Leads(driverHistory, first, first)'
          /\ Leads(memberHistory, first, CurrentStatus)'
      BY <3>4 DEF Leads
    <3>6. QED
      BY <2>2, <3>5 DEF HistoryInv
  <2>3. CASE /\ UNCHANGED histories
             /\ driver'.state = "archived"
             /\ member'.state # member.state => member.state # "none"
    <3>1. member'.state = "none" => memberHistory' = <<>>
      <4>1. CASE member.state = "none"
        BY <2>3, <4>1 DEF HistoryInv, histories
      <4>2. CASE member.state # "none" /\ member'.state = "none"
        <5>1. driver.state # "none"
          BY <1>1, <4>2 DEF AloneInv
        <5>2. QED
          BY <1>1, <1>4, <4>2, <5>1, ContinuesStates
      <4>3. QED
        BY <4>1, <4>2
    <3>2. QED
      BY <2>3, <3>1 DEF HistoryInv
  <2>4. QED
    BY <1>4, <2>1, <2>2, <2>3, ContinuesStatuses, MemberHistory, DriverHistory
<1>5. CASE RunScript
  <2>1. UNCHANGED driver
    BY <1>1, <1>5, RunStates
  <2>2. CASE UpsertMember /\ Ours
    <3>1. ~ScriptAt("off") /\ ScriptAt("members")
          /\ UNCHANGED <<driverHistory, memberHistory>>
      BY <2>2 DEF UpsertMember, histories
    <3>2. driver.state = "active" /\ script.driver = driver
      BY <1>1, <2>2, <3>1 DEF AloneInv
    <3>3. setting.migrated
      <4>1. script.runs \in Nat /\ script.runs <= setting.scripts
            /\ script.runs # 0
        BY <3>1, ScriptKnows DEF OnceInv
      <4>2. QED
        BY <1>1, <4>1
    <3>4. member.state = "none"
      BY <3>1, <3>3 DEF OnceInv
    <3>5. member'.state = "active" /\ member'.status = driver.status
      BY <2>2, <3>2 DEF UpsertMember
    <3>6. CurrentStatus' = CurrentStatus
      BY <3>4, <3>5 DEF CurrentStatus
    <3>7. PICK first, moved \in Operational :
            /\ Leads(driverHistory, first, moved)
            /\ Leads(memberHistory, moved, CurrentStatus)
      BY <3>2 DEF HistoryInv
    <3>8. Leads(driverHistory, first, moved)'
          /\ Leads(memberHistory, moved, CurrentStatus)'
      BY <3>1, <3>6, <3>7 DEF Leads
    <3>9. QED
      BY <2>1, <3>2, <3>5, <3>8 DEF HistoryInv
  <2>3. CASE ~(UpsertMember /\ Ours)
    <3>1. UNCHANGED <<member, driverHistory, memberHistory>>
      BY <1>5, <2>3
      DEF RunScript, ReadDrivers, UpsertMember, ReadDocuments, CopyDocument,
          ReadHistory, CopyHistory, ReadMember, PopulateProfile,
          PopulateLicence, Report, StopScript, records, extensions, papers,
          histories
    <3>2. UNCHANGED CurrentStatus
      BY <2>1, <3>1 DEF CurrentStatus
    <3>3. QED
      BY <1>1, <2>1, <3>1, <3>2 DEF HistoryInv, Leads
  <2>4. QED
    BY <2>2, <2>3
<1>6. CASE UNCHANGED vars
  BY <1>2, <1>6 DEF vars, records
<1>7. QED
  BY <1>3, <1>4, <1>5, <1>6 DEF Next, Serve

\* Init establishes the invariants of the history.
LEMMA InitHistory == Init => TurnInv /\ OnceInv /\ StatusInv /\ HistoryInv
<1> SUFFICES ASSUME Init PROVE TurnInv /\ OnceInv /\ StatusInv /\ HistoryInv
  OBVIOUS
<1>1. InFlight = {}
  BY DEF Init, RecordsInit, InFlight, Resting
<1>2. TurnInv /\ StatusInv
  BY <1>1 DEF TurnInv, StatusInv
<1>3. setting \in Settings /\ script.pc = "off" /\ script.runs = 0
      /\ member.state = "none"
  BY DEF Init, RecordsInit, NotRunning, NoMember
<1>4. setting.scripts \in Nat
  BY <1>3, BackfillAssumption
<1>5. setting.migrated => driver.state = "active"
  BY DEF Init, RecordsInit, NoDriver
<1>6. OnceInv
  BY <1>3, <1>4, <1>5 DEF OnceInv
<1>7. HistoryInv
  <2>1. driverHistory = <<>> /\ memberHistory = <<>>
    BY DEF Init, RecordsInit
  <2>2. PICK first \in Operational : first = CurrentStatus
    <3>1. driver \in Driver
      BY InitTypeInv DEF TypeInv, TypeOK, RecordsTypeOK
    <3>2. QED
      BY <1>3, <3>1 DEF CurrentStatus, Driver, Status
  <2>3. Leads(driverHistory, first, first)
        /\ Leads(memberHistory, first, CurrentStatus)
    BY <2>1, <2>2, LeadsNowhere
  <2>4. QED
    BY <2>1, <2>3 DEF HistoryInv
<1>8. QED
  BY <1>2, <1>6, <1>7

\* Where statuses are changed in turn, each change of the operational status
\* starts where the one before it ended, across the move from the driver to the
\* member, and the last one ends where the driver stands, whatever requests and
\* script are broken off (updateStatus of both services).
THEOREM HistoryJoined == Spec => []HistoryJoins
<1>1. HistoryInv => HistoryJoins
  BY DEF HistoryInv, HistoryJoins
<1>2. QED
  BY <1>1, InitAlone, StepAlone, InitHistory, StepTurn, StepOnce, StepStatus,
     StepHistory, TypeInvAlways, PTL
  DEF Spec

\* The records of a driver agree on whether there is a driver, how many
\* licences it has and what its status has been, whatever requests and script
\* do and wherever they are broken off.
THEOREM RowsAgree == Spec => []RowsGoTogether
<1>1. LifecyclesAgree /\ LicencesAreBounded /\ HistoryJoins => RowsGoTogether
  BY DEF RowsGoTogether
<1>2. QED
  BY <1>1, ArchivedTogether, LicencesBounded, HistoryJoined, PTL

==============================================================================
