---------------------------- MODULE DriverRecords -----------------------------
(***************************************************************************)
(* The records of one driver while the platform moves from drivers to      *)
(* workforce members (modules/drivers/drivers.service.ts, modules/workforce*)
(* /workforce.service.ts, workforce-status.service.ts and                  *)
(* workforce-credential.service.ts).                                       *)
(*                                                                         *)
(* The driver row is the older record.  A member row with the same id is   *)
(* the newer one; beside it stand a profile, which has the date of joining,*)
(* and authorizations, which have the licence, and both values are copied  *)
(* into the metadata of the member as well.  A request reads the driver,   *)
(* then the member, and writes to the one or the other by what it has read;*)
(* a driver whose two records contradict one another cannot be read.       *)
(*                                                                         *)
(* The transaction that aligns profile and authorizations is two actions:  *)
(* it looks for rows (ReadExtensions) and then writes (CommitExtensions),  *)
(* and at READ COMMITTED another may have written in between.              *)
(***************************************************************************)
EXTENDS Naturals, Sequences, FiniteSets

CONSTANTS
  Calls,    \* the requests there may ever be; a document has its creator's name
  Settings  \* how the system may be run: see setting

Missing == 0
Values == {Missing, 1, 2}
Category == {"OPERATIONAL_STATUS", "COMPLIANCE_STATUS", "ONBOARDING_STATUS"}
Operational == {"INACTIVE", "ACTIVE", "SUSPENDED"}
Compliance == {"PENDING", "UNDER_REVIEW", "COMPLIANT", "NON_COMPLIANT"}
Onboarding == {"PENDING", "APPROVED"}
Verification == {"PENDING", "VERIFIED", "REJECTED"}
NoDocument == "NONE"
Same == "SAME"
Script == "script"
Pcs == {"idle", "creating", "canonical", "credential", "member", "writing",
        "legacy", "filing", "aligning", "extending", "committing",
        "done"}

\* The requests, as they are validated.
Requests ==
  [op : {"create"}, joined : Values \ {Missing}, licence : Values \ {Missing}]
    \cup [op : {"update"}, identity : {"kept", "code", "linked"},
          joined : Values, licence : Values, status : Operational \cup {""}]
    \cup [op : {"archive"}]
    \cup [op : {"status"}, category : {"OPERATIONAL_STATUS"},
          value : Operational]
    \cup [op : {"status"}, category : {"COMPLIANCE_STATUS"}, value : Compliance]
    \cup [op : {"status"}, category : {"ONBOARDING_STATUS"}, value : Onboarding]
    \cup [op : {"add"}, content : Verification]
    \cup [op : {"edit"}, document : Calls, content : Verification]
NoRequest == [op |-> "none"]

ASSUME RecordsAssumption ==
  /\ Script \notin Calls
  /\ \A s \in Settings : /\ s.migrated \in BOOLEAN /\ s.stops \in BOOLEAN
                         /\ s.requests \subseteq Requests
                         /\ s.calls \in Nat /\ s.width \in Nat \ {0}

VARIABLES
  driver,         \* the Driver row
  member,         \* the WorkforceMember row
  profile,        \* the WorkforceProfileExtension row
  licences,       \* the WorkforceAuthorization rows of type LICENSE
  documents,      \* the DriverDocument rows
  credentials,    \* the CredentialDocument rows
  driverHistory,  \* the DriverStatusHistory rows, oldest first
  memberHistory,  \* the WorkforceStatusHistory rows of changes to the member
  copied,         \* so many rows of driverHistory have a copy among those
  call,           \* the requests
  setting         \* chosen once: is there a driver row from before; the
                  \* requests that come, how many, how many at a time (bounds);
                  \* may they stop; the script (module Backfill)

extensions == <<profile, licences>>
papers == <<documents, credentials>>
histories == <<driverHistory, memberHistory, copied>>
records == <<driver, member, extensions, papers, histories>>

Status == [OPERATIONAL_STATUS : Operational, COMPLIANCE_STATUS : Compliance,
           ONBOARDING_STATUS : Onboarding]
RowState == {"none", "active", "archived"}
Driver == [state : RowState, link : Values, joined : Values, licence : Values,
           status : Status]
Metadata == [joined : Values, licence : Values, owned : BOOLEAN]
Member == [state : RowState, link : Values, status : Status, meta : Metadata]
Profile == [joined : Values, first : BOOLEAN]
Licence == [by : Calls \cup {Script}, number : Values, first : BOOLEAN]
AnyStatus == Operational \cup Compliance \cup Onboarding
Change == [category : Category, from : AnyStatus, to : AnyStatus]
Call == [pc : Pcs, want : Requests \cup {NoRequest}, driver : Driver,
         member : Member, profile : Profile, licences : SUBSET Licence,
         compliance : Compliance \cup {Same}]

RecordsTypeOK ==
  /\ driver \in Driver
  /\ member \in Member
  /\ profile \in Profile
  /\ licences \subseteq Licence
  /\ documents \in [Calls -> Verification \cup {NoDocument}]
  /\ credentials \in [Calls -> Verification \cup {NoDocument}]
  /\ driverHistory \in Seq(Change) /\ memberHistory \in Seq(Change)
  /\ copied \in 0 .. Len(driverHistory)
  /\ call \in [Calls -> Call]
  /\ setting \in Settings

NewStatus == [OPERATIONAL_STATUS |-> "INACTIVE",
              COMPLIANCE_STATUS |-> "PENDING", ONBOARDING_STATUS |-> "PENDING"]
NoDriver == [state |-> "none", link |-> 1, joined |-> Missing,
             licence |-> Missing, status |-> NewStatus]
NoMetadata == [joined |-> Missing, licence |-> Missing, owned |-> FALSE]
NoMember == [state |-> "none", link |-> 1, status |-> NewStatus,
             meta |-> NoMetadata]
NoProfile == [joined |-> Missing, first |-> FALSE]
Resting(pc) == [pc |-> pc, want |-> NoRequest, driver |-> NoDriver,
                member |-> NoMember, profile |-> NoProfile, licences |-> {},
                compliance |-> Same]

RecordsInit ==
  /\ setting \in Settings
  /\ driver = IF setting.migrated
              THEN [NoDriver EXCEPT !.state = "active",
                                    !.joined = 1, !.licence = 1]
              ELSE NoDriver
  /\ member = NoMember /\ profile = NoProfile /\ licences = {}
  /\ documents = [c \in Calls |-> NoDocument] /\ credentials = documents
  /\ driverHistory = <<>> /\ memberHistory = <<>> /\ copied = 0
  /\ call = [c \in Calls |-> Resting("idle")]

At(c, pc) == call[c].pc = pc
Want(c) == call[c].want
Goto(c, pc) == call' = [call EXCEPT ![c].pc = pc]
Finish(c) == call' = [call EXCEPT ![c] = Resting("done")]
InFlight == {c \in Calls : call[c].pc \notin {"idle", "done"}}
Begun == {c \in Calls : call[c].pc # "idle"}

------------------------------------------------------------------------------
(* What a reader makes of the two records                                  *)

\* The value a field is read with: the extension's, or the metadata's.
Read(extension, metadata) == IF extension # Missing THEN extension ELSE metadata

\* The authorization there is, unless there are several.
Selected(rows) ==
  IF Cardinality(rows) = 1 THEN CHOOSE l \in rows : TRUE
  ELSE [by |-> Script, number |-> Missing, first |-> FALSE]

\* A field belongs to its extension when a write of the API put it there, and
\* then the copy in the metadata has to say the same.
Drifts(extension, first, metadata) ==
  /\ extension # Missing /\ (first \/ member.meta.owned)
  /\ metadata # Missing /\ metadata # extension

Aligned ==
  /\ driver.link = member.link
  /\ Cardinality(licences) <= 1
  /\ ~Drifts(profile.joined, profile.first, member.meta.joined)
  /\ ~Drifts(Selected(licences).number, Selected(licences).first,
             member.meta.licence)
  /\ Read(profile.joined, member.meta.joined) # Missing
  /\ Read(Selected(licences).number, member.meta.licence) # Missing

\* The driver is listed and can be read.
Readable ==
  /\ driver.state = "active"
  /\ member.state = "none" \/ (member.state = "active" /\ Aligned)

------------------------------------------------------------------------------
(* Creating a driver                                                       *)

\* The organization, the code, the licence and the links are checked.
CheckNew(c, want) ==
  /\ call[c].pc = "idle" /\ want.op = "create" /\ driver.state = "none"
  /\ call' = [call EXCEPT ![c].pc = "creating", ![c].want = want]
  /\ UNCHANGED <<records, setting>>

\* Both rows in one transaction; the codes are unique.
CreateRows(c) ==
  /\ At(c, "creating")
  /\ IF driver.state = "none"
     THEN /\ driver' = [driver EXCEPT !.state = "active",
                                     !.joined = Want(c).joined,
                                     !.licence = Want(c).licence]
          /\ member' = [NoMember EXCEPT !.state = "active"]
          /\ Goto(c, "aligning")
     ELSE Finish(c) /\ UNCHANGED <<driver, member>>
  /\ UNCHANGED <<extensions, papers, histories, setting>>

------------------------------------------------------------------------------
(* Requests about a driver there is                                        *)

\* The request reads the driver row; without an active one it is answered 404.
Start(c, want) ==
  /\ call[c].pc = "idle" /\ want.op # "create" /\ driver.state = "active"
  /\ want.op = "edit" => want.document \in Calls
  /\ call' = [call EXCEPT ![c].pc = "canonical", ![c].want = want,
                          ![c].driver = driver]
  /\ UNCHANGED <<records, setting>>

\* Is this a request the member row takes, if there is one?  An update is when
\* it names no organization, employee, user or code; a change of status when
\* the member has that status.
Canonical(want) ==
  CASE want.op = "update" -> want.identity = "kept"
    [] want.op = "status" -> want.category # "ONBOARDING_STATUS"
    [] OTHER -> TRUE

\* What is refused when the member has been read.
Conflict(c) ==
  LET want == Want(c) IN
  \/ want.op = "archive" /\ member.state = "archived"
  \/ /\ want.op = "update" /\ member.state = "active" /\ Canonical(want)
     /\ want.licence # Missing /\ Cardinality(licences) > 1
  \/ /\ want.op = "status" /\ ~(member.state = "active" /\ Canonical(want))
     /\ call[c].driver.status[want.category] = want.value

FindCanonical(c) ==
  /\ At(c, "canonical")
  /\ IF Conflict(c) THEN Finish(c)
     ELSE call' = [call EXCEPT ![c].member = member, ![c].pc =
            IF Want(c).op = "edit" THEN "credential"
            ELSE IF member.state = "active" /\ Canonical(Want(c)) THEN "member"
            ELSE "legacy"]
  /\ UNCHANGED <<records, setting>>

\* An edited document is looked for among the credentials, then among the
\* documents.
FindCredential(c) ==
  /\ At(c, "credential")
  /\ LET linked == /\ call[c].member.state = "active"
                   /\ credentials[Want(c).document] # NoDocument
     IN  IF linked THEN Goto(c, "writing")
         ELSE IF documents[Want(c).document] # NoDocument THEN Goto(c, "legacy")
         ELSE Finish(c)
  /\ UNCHANGED <<records, setting>>

\* The service of the member reads it again: 404 when it has been archived,
\* and a change of status keeps what it reads here as the previous value.
FindMember(c) ==
  /\ At(c, "member")
  /\ IF member.state # "active" THEN Finish(c)
     ELSE call' = [call EXCEPT ![c].pc = "writing", ![c].member =
                     IF Want(c).op = "status" THEN member ELSE @]
  /\ UNCHANGED <<records, setting>>

------------------------------------------------------------------------------
(* Writing the member row                                                  *)

\* The update replaces the metadata of the member by those that were read with
\* it, the onboarding status among them.
UpdateMember(c) ==
  /\ At(c, "writing") /\ Want(c).op = "update"
  /\ member' = [member EXCEPT !.meta = call[c].member.meta,
                  !.status.ONBOARDING_STATUS =
                    call[c].member.status.ONBOARDING_STATUS,
                  !.status.OPERATIONAL_STATUS =
                    IF Want(c).status # "" THEN Want(c).status ELSE @]
  /\ Goto(c, "aligning")
  /\ UNCHANGED <<driver, extensions, papers, histories, setting>>

\* Mutant: the driver row is left to itself.
ArchiveMemberAlone(c) ==
  /\ At(c, "writing") /\ Want(c).op = "archive"
  /\ member' = [member EXCEPT !.state = "archived",
                              !.status.OPERATIONAL_STATUS = "INACTIVE"]
  /\ Finish(c)
  /\ UNCHANGED <<driver, extensions, papers, histories, setting>>

\* One transaction; the driver row is archived with the member, if it is there.
ArchiveMember(c) ==
  /\ At(c, "writing") /\ Want(c).op = "archive"
  /\ member' = [member EXCEPT !.state = "archived",
                              !.status.OPERATIONAL_STATUS = "INACTIVE"]
  /\ driver' = IF driver.state = "active"
               THEN [driver EXCEPT !.state = "archived",
                                   !.status.OPERATIONAL_STATUS = "INACTIVE"]
               ELSE driver
  /\ Finish(c)
  /\ UNCHANGED <<extensions, papers, histories, setting>>

\* The entry of a change: the previous value is the one that was read.
Entry(c, row) == [category |-> Want(c).category,
                  from |-> row.status[Want(c).category], to |-> Want(c).value]

ChangeMember(c) ==
  /\ At(c, "writing") /\ Want(c).op = "status"
  /\ member' = [member EXCEPT !.status[Want(c).category] = Want(c).value]
  /\ memberHistory' = Append(memberHistory, Entry(c, call[c].member))
  /\ Finish(c)
  /\ UNCHANGED <<driver, extensions, papers, driverHistory, copied, setting>>

\* A new document has the name of the request that makes it.
Document(c) == IF Want(c).op = "add" THEN c ELSE Want(c).document

WriteCredential(c) ==
  /\ At(c, "writing") /\ Want(c).op \in {"add", "edit"}
  /\ credentials' = [credentials EXCEPT ![Document(c)] = Want(c).content]
  /\ Finish(c)
  /\ UNCHANGED <<driver, member, extensions, documents, histories, setting>>

------------------------------------------------------------------------------
(* Writing the driver row                                                  *)

\* A link that is named is changed in the driver row alone.
UpdateDriver(c) ==
  /\ At(c, "legacy") /\ Want(c).op = "update"
  /\ LET want == Want(c) IN
     driver' = [driver EXCEPT
       !.link = IF want.identity = "linked" THEN 2 ELSE @,
       !.joined = Read(want.joined, @), !.licence = Read(want.licence, @),
       !.status.OPERATIONAL_STATUS =
         IF want.status # "" THEN want.status ELSE @]
  /\ Finish(c)
  /\ UNCHANGED <<member, extensions, papers, histories, setting>>

ArchiveDriver(c) ==
  /\ At(c, "legacy") /\ Want(c).op = "archive"
  /\ driver' = [driver EXCEPT !.state = "archived",
                              !.status.OPERATIONAL_STATUS = "INACTIVE"]
  /\ Finish(c)
  /\ UNCHANGED <<member, extensions, papers, histories, setting>>

ChangeDriver(c) ==
  /\ At(c, "legacy") /\ Want(c).op = "status"
  /\ driver' = [driver EXCEPT !.status[Want(c).category] = Want(c).value]
  /\ driverHistory' = Append(driverHistory, Entry(c, call[c].driver))
  /\ Finish(c)
  /\ UNCHANGED <<member, extensions, papers, memberHistory, copied, setting>>

\* The compliance of the driver after its documents, dates left aside.
recalculateComplianceStatus(rows) ==
  LET contents == {rows[d] : d \in Calls} \ {NoDocument}
  IN  CASE "REJECTED" \in contents -> "NON_COMPLIANT"
        [] "REJECTED" \notin contents
           /\ ("PENDING" \in contents \/ contents = {}) -> "UNDER_REVIEW"
        [] OTHER -> "COMPLIANT"

\* The transaction that writes a document sees it beside those that have been
\* committed when it computes the compliance.
Recalculate(c) ==
  /\ At(c, "legacy") /\ Want(c).op \in {"add", "edit"}
  /\ LET compliance == recalculateComplianceStatus(
                         [documents EXCEPT ![Document(c)] = Want(c).content])
     IN  call' = [call EXCEPT ![c].pc = "filing", ![c].compliance =
                    IF compliance = driver.status.COMPLIANCE_STATUS THEN Same
                    ELSE compliance]
  /\ UNCHANGED <<records, setting>>

WriteDocument(c) ==
  /\ At(c, "filing")
  /\ documents' = [documents EXCEPT ![Document(c)] = Want(c).content]
  /\ driver' = [driver EXCEPT !.status.COMPLIANCE_STATUS =
                  IF call[c].compliance = Same THEN @ ELSE call[c].compliance]
  /\ Finish(c)
  /\ UNCHANGED <<member, extensions, credentials, histories, setting>>

------------------------------------------------------------------------------
(* Aligning the extensions of the member                                   *)

\* A creation asks for both fields, and has no value for either: the member it
\* has made does not hold them.
Touches(c) ==
  IF Want(c).op = "create" THEN {"joined", "licence"}
  ELSE {f \in {"joined", "licence"} : Want(c)[f] # Missing}
Asked(c, field) == IF Want(c).op = "create" THEN Missing ELSE Want(c)[field]

\* The member is read once more, and its metadata with it.
FindForAlignment(c) ==
  /\ At(c, "aligning")
  /\ IF member.state # "active" \/ Touches(c) = {} THEN Finish(c)
     ELSE call' = [call EXCEPT ![c].pc = "extending", ![c].member = member]
  /\ UNCHANGED <<records, setting>>

ReadExtensions(c) ==
  /\ At(c, "extending")
  /\ IF "licence" \in Touches(c) /\ Cardinality(licences) > 1 THEN Finish(c)
     ELSE call' = [call EXCEPT ![c].pc = "committing", ![c].profile = profile,
                               ![c].licences = licences]
  /\ UNCHANGED <<records, setting>>

\* The licences after the commit: the one that was found is written, or one
\* is made if there is a number for it.
AlignedLicences(c) ==
  LET found == Selected(call[c].licences)
      number == Read(Asked(c, "licence"),
                     Read(found.number, call[c].member.meta.licence))
  IN  IF "licence" \notin Touches(c) THEN licences
      ELSE IF call[c].licences # {}
      THEN {IF l.by = found.by THEN [l EXCEPT !.number = number, !.first = TRUE]
            ELSE l : l \in licences}
      ELSE IF number # Missing
      THEN licences \cup {[by |-> c, number |-> number, first |-> TRUE]}
      ELSE licences

\* Mutant: the values are not copied into the metadata.
CommitUncopied(c) ==
  /\ At(c, "committing")
  /\ LET joined == Asked(c, "joined")
         meta == call[c].member.meta
     IN  /\ profile' = IF joined = Missing THEN profile
                       ELSE [joined |-> joined, first |-> TRUE]
         /\ licences' = AlignedLicences(c)
         /\ member' = [member EXCEPT !.meta =
              [joined |-> meta.joined, licence |-> meta.licence,
               owned |-> TRUE]]
  /\ Finish(c)
  /\ UNCHANGED <<driver, papers, histories, setting>>

\* A profile that somebody else has made meanwhile violates the unique key, and
\* an archived member is not found again: the transaction is rolled back.
CommitExtensions(c) ==
  /\ At(c, "committing")
  /\ LET joined == Asked(c, "joined")
         clash == /\ joined # Missing /\ call[c].profile = NoProfile
                  /\ profile # NoProfile
         meta == call[c].member.meta
     IN  IF clash \/ member.state # "active"
         THEN UNCHANGED <<member, extensions>>
         ELSE /\ profile' = IF joined = Missing THEN profile
                            ELSE [joined |-> joined, first |-> TRUE]
              /\ licences' = AlignedLicences(c)
              /\ member' = [member EXCEPT !.status.ONBOARDING_STATUS =
                   call[c].member.status.ONBOARDING_STATUS, !.meta =
                   [joined |-> Read(profile'.joined, meta.joined),
                    licence |-> Read(Selected(licences').number, meta.licence),
                    owned |-> TRUE]]
  /\ Finish(c)
  /\ UNCHANGED <<driver, papers, histories, setting>>

\* The process stops, or a statement throws, between two statements.
StopCall(c) ==
  /\ setting.stops /\ c \in InFlight
  /\ Finish(c)
  /\ UNCHANGED <<records, setting>>

Continue(c) ==
  \/ CreateRows(c) \/ FindCanonical(c) \/ FindCredential(c) \/ FindMember(c)
  \/ UpdateMember(c) \/ ArchiveMember(c) \/ ChangeMember(c)
  \/ WriteCredential(c)
  \/ UpdateDriver(c) \/ ArchiveDriver(c) \/ ChangeDriver(c)
  \/ Recalculate(c) \/ WriteDocument(c)
  \/ FindForAlignment(c) \/ ReadExtensions(c) \/ CommitExtensions(c)
  \/ StopCall(c)
==============================================================================
