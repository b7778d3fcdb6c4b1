------------------------------- MODULE Backfill -------------------------------
(***************************************************************************)
(* The script that fills the workforce records from those of the driver    *)
(* (scripts/migrations/manual/backfill-universal-operational-layer.ts and  *)
(* workforce-extension-population.ts), and the requests of DriverRecords   *)
(* beside it.                                                              *)
(*                                                                         *)
(* A run has no transaction around it: it reads the drivers, writes their  *)
(* members one statement after another, reads the documents, copies them,  *)
(* and so on.  It may stop anywhere and be run again.                      *)
(***************************************************************************)
EXTENDS DriverRecords

VARIABLE script  \* the run of the script: what it has read, and how many
                 \* runs there have been

vars == <<records, call, setting, script>>

ScriptPcs == {"off", "members", "documents", "credentials", "histories",
              "profile", "licence", "reporting"}

ASSUME BackfillAssumption ==
  \A s \in Settings : /\ s.scripts \in Nat /\ s.overlaps \in BOOLEAN

TypeOK ==
  /\ RecordsTypeOK
  /\ script \in [pc : ScriptPcs, runs : Nat, driver : Driver, member : Member,
                 profile : Profile, licences : SUBSET Licence,
                 documents : [Calls -> Verification \cup {NoDocument}],
                 history : Nat]

\* A script that is not running remembers nothing.
NotRunning(runs) == [pc |-> "off", runs |-> runs, driver |-> NoDriver,
  member |-> NoMember, profile |-> NoProfile, licences |-> {},
  documents |-> [c \in Calls |-> NoDocument], history |-> 0]

Init == RecordsInit /\ script = NotRunning(0)

ScriptAt(pc) == script.pc = pc
GotoScript(pc) == script' = [script EXCEPT !.pc = pc]

------------------------------------------------------------------------------
(* Members                                                                 *)

\* Only drivers that have not been archived are read.
ReadDrivers ==
  /\ ScriptAt("off") /\ script.runs < setting.scripts
  /\ setting.overlaps \/ InFlight = {}
  /\ script' = [script EXCEPT !.pc = "members", !.runs = @ + 1,
                  !.driver = IF driver.state = "active" THEN driver ELSE @]
  /\ UNCHANGED <<records, call, setting>>

\* The driver has been read: what belongs to others is passed over.
Ours == script.driver.state = "active"

\* Mutant: a member there is is left as it is.
InsertMember ==
  /\ ScriptAt("members")
  /\ member' = IF Ours /\ member.state = "none"
               THEN [state |-> "active", link |-> script.driver.link,
                     status |-> script.driver.status,
                     meta |-> [joined |-> script.driver.joined,
                               licence |-> script.driver.licence,
                               owned |-> FALSE]]
               ELSE member
  /\ GotoScript("documents")
  /\ UNCHANGED <<driver, extensions, papers, histories, call, setting>>

\* The member is made, or all of it written over: with the statuses of the
\* driver, with metadata of the values of the driver, and not archived.
UpsertMember ==
  /\ ScriptAt("members")
  /\ member' = IF Ours
               THEN [state |-> "active", link |-> script.driver.link,
                     status |-> script.driver.status,
                     meta |-> [joined |-> script.driver.joined,
                               licence |-> script.driver.licence,
                               owned |-> FALSE]]
               ELSE member
  /\ GotoScript("documents")
  /\ UNCHANGED <<driver, extensions, papers, histories, call, setting>>

------------------------------------------------------------------------------
(* Documents and history                                                   *)

ReadDocuments ==
  /\ ScriptAt("documents")
  /\ script' = [script EXCEPT !.pc = "credentials",
                  !.documents = IF Ours THEN documents ELSE @]
  /\ UNCHANGED <<records, call, setting>>

\* A document that has been copied is struck off the list.
CopyDocument(d) ==
  /\ ScriptAt("credentials") /\ script.documents[d] # NoDocument
  /\ credentials' = [credentials EXCEPT ![d] = script.documents[d]]
  /\ script' = [script EXCEPT !.documents[d] = NoDocument]
  /\ UNCHANGED <<driver, member, extensions, documents, histories, call,
                 setting>>

ReadHistory ==
  /\ ScriptAt("credentials")
  /\ \A d \in Calls : script.documents[d] = NoDocument
  /\ script' = [script EXCEPT !.pc = "histories",
                  !.history = IF Ours THEN Len(driverHistory) ELSE 0]
  /\ UNCHANGED <<records, call, setting>>

\* Mutant: one row too many.
CopyHistoryPast ==
  /\ ScriptAt("histories") /\ copied <= script.history
  /\ copied' = copied + 1
  /\ UNCHANGED <<driver, member, extensions, papers, driverHistory,
                 memberHistory, call, setting, script>>

\* The oldest row that has no copy gets one; a copy there is is left as it is,
\* for the rows do not change.
CopyHistory ==
  /\ ScriptAt("histories") /\ copied < script.history
  /\ copied' = copied + 1
  /\ UNCHANGED <<driver, member, extensions, papers, driverHistory,
                 memberHistory, call, setting, script>>

------------------------------------------------------------------------------
(* Profile and licence                                                     *)

\* The members are read again with their extensions, the archived ones too.
ReadMember ==
  /\ ScriptAt("histories") /\ copied >= script.history
  /\ script' = [script EXCEPT !.pc = "profile", !.member = member,
                  !.profile = profile, !.licences = licences]
  /\ UNCHANGED <<records, call, setting>>

\* An upsert, when no profile was found: it writes the date into one that has
\* been made meanwhile.
PopulateProfile ==
  /\ ScriptAt("profile")
  /\ profile' = IF /\ script.member.meta.joined # Missing
                   /\ script.profile = NoProfile
                THEN [profile EXCEPT !.joined = script.member.meta.joined,
                                     !.first = FALSE]
                ELSE profile
  /\ GotoScript("licence")
  /\ UNCHANGED <<driver, member, licences, papers, histories, call, setting>>

\* With several licences the member is deferred; one keeps its number.
PopulateLicence ==
  /\ ScriptAt("licence")
  /\ licences' = IF /\ script.member.meta.licence # Missing
                    /\ script.licences = {}
                 THEN licences \cup {[by |-> Script, first |-> FALSE,
                                      number |-> script.member.meta.licence]}
                 ELSE licences
  /\ GotoScript("reporting")
  /\ UNCHANGED <<driver, member, profile, papers, histories, call, setting>>

------------------------------------------------------------------------------
(* The run ends                                                            *)

Report ==
  /\ ScriptAt("reporting")
  /\ script' = NotRunning(script.runs)
  /\ UNCHANGED <<records, call, setting>>

\* The script is broken off, or a statement of it fails.
StopScript ==
  /\ setting.stops /\ ~ScriptAt("off")
  /\ script' = NotRunning(script.runs)
  /\ UNCHANGED <<records, call, setting>>

RunScript ==
  \/ ReadDrivers \/ UpsertMember
  \/ ReadDocuments \/ (\E d \in Calls : CopyDocument(d))
  \/ ReadHistory \/ CopyHistory
  \/ ReadMember \/ PopulateProfile \/ PopulateLicence
  \/ Report \/ StopScript

\* Requests come while fewer than width are being served, and unless the
\* setting has them overlap the script, while it is not running.
Begin(c, want) ==
  /\ Cardinality(Begun) < setting.calls
  /\ Cardinality(InFlight) < setting.width
  /\ setting.overlaps \/ ScriptAt("off")
  /\ CheckNew(c, want) \/ Start(c, want)

Serve ==
  \/ \E c \in Calls, want \in setting.requests : Begin(c, want)
  \/ \E c \in Calls : Continue(c)

Next == (Serve /\ UNCHANGED script) \/ RunScript

Spec == Init /\ [][Next]_vars

------------------------------------------------------------------------------
(* What the records owe to one another                                     *)

\* A driver and its member are archived together (archive, D 305).
LifecyclesAgree ==
  ~setting.overlaps => member.state \in {"none", driver.state}

\* Alignment makes a licence only when it has found none: there is never more
\* than one for each request that looks at the same time, and the script's.
LicencesAreBounded ==
  Cardinality(licences) <=
    setting.width + (IF setting.overlaps THEN 1 ELSE 0)

\* The changes of the operational status in a history, one after another, lead
\* from one value to another: at[i] is the value after the first i entries.
Leads(history, first, last) ==
  \E at \in [0 .. Len(history) -> Operational] :
    /\ at[0] = first /\ at[Len(history)] = last
    /\ \A i \in 1 .. Len(history) :
         IF history[i].category = "OPERATIONAL_STATUS"
         THEN at[i - 1] = history[i].from /\ at[i] = history[i].to
         ELSE at[i] = at[i - 1]

\* The operational status requests are read with.
CurrentStatus ==
  IF member.state = "active" THEN member.status.OPERATIONAL_STATUS
  ELSE driver.status.OPERATIONAL_STATUS

\* No profile update sets a status, requests are served one at a time, and the
\* script runs at most once, alone, upon a driver from before: it writes the
\* status of the driver row over that of a member there is.
StatusesAreChangedInTurn ==
  /\ setting.width = 1 /\ ~setting.overlaps
  /\ setting.scripts = 0 \/ (setting.scripts = 1 /\ setting.migrated)
  /\ \A want \in setting.requests : want.op = "update" => want.status = ""

\* Across the move from the driver to the member, each change of the
\* operational status starts where the one before it ended, and the last one
\* ends where the driver stands (updateStatus of both services).
HistoryJoins ==
  StatusesAreChangedInTurn /\ driver.state = "active" =>
    \E first, moved \in Operational :
      /\ Leads(driverHistory, first, moved)
      /\ Leads(memberHistory, moved, CurrentStatus)

\* The records of a driver never contradict one another in what requests take
\* them to agree on: whether there is a driver, how many licences it has, and
\* what its status has been.
RowsGoTogether == LifecyclesAgree /\ LicencesAreBounded /\ HistoryJoins

\* No step of a request, requests coming one at a time and the script alone,
\* makes a driver unreadable that stays active with the links it has: whatever
\* a request has written when it stops, profile, licence and metadata agree.
AlignedStaysReadable ==
  [][ (/\ Readable /\ setting.width = 1 /\ ~setting.overlaps
       /\ UNCHANGED script
       /\ driver'.state = "active" /\ driver'.link = driver.link)
      => Readable' ]_vars

\* An API write that differs from what the driver row says outlives the script.
Contradicted ==
  \/ Cardinality(licences) > 1
  \/ profile.first /\ profile.joined # driver.joined
  \/ \E l \in licences : l.first /\ l.number # driver.licence

\* When the script reports, having run alone, the member says what the driver
\* says, every document and every change of a status has its copy, and the
\* driver can be read unless its extensions hold other values, whatever earlier
\* runs were broken off.
BackfillReconciles ==
  ScriptAt("reporting") /\ ~setting.overlaps /\ driver.state = "active" =>
    /\ member.state = "active" /\ member.link = driver.link
    /\ member.status = driver.status
    /\ \A d \in Calls :
         documents[d] # NoDocument => credentials[d] = documents[d]
    /\ copied = Len(driverHistory)
    /\ ~Contradicted => Readable
==============================================================================
