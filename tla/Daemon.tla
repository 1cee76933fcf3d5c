------------------------------- MODULE Daemon -------------------------------
(***************************************************************************)
(* Start-up, recovery and restart of the daemon, and the enroll command,   *)
(* around the config file of ConfigState.                                  *)
(*                                                                         *)
(* At start the daemon takes the file when it is usable, else the revision *)
(* that is marked active in the database, else it runs in config mode.  In *)
(* cloud mode it needs the credential file that enroll writes after it has *)
(* spent the one time token and before it switches the config to cloud.    *)
(***************************************************************************)
EXTENDS ConfigState

CONSTANTS MaxStarts   \* bound

VARIABLES
    enroll,       \* the enroll command: [pc, doc, db]
    credential,   \* the credential file: "none", "cut" (a write that stopped) or "whole"
    tokensSpent,
    starts

daemonVars == <<configVars, enroll, credential, tokensSpent, starts>>

NoEnroll == [pc |-> "idle", doc |-> NoFile, db |-> DefaultDb]

DaemonInit ==
    /\ disk \in Docs \union {NoFile} /\ diskBy = "hand"
    /\ revisions = [db \in Databases |-> <<>>]
    /\ running = "down" /\ active = None /\ activeDb = DefaultDb
    /\ view = NoView
    /\ save = [p \in Savers |-> Idle] /\ tick = None
    /\ lastStarted = [db \in Databases |-> None] /\ savedSince = [db \in Databases |-> 0]
    /\ ordered = InOrder(disk) /\ writes = 0
    /\ enroll = NoEnroll /\ credential = "none" /\ tokensSpent = 0 /\ starts = 0

-----------------------------------------------------------------------------
(* The daemon.                                                             *)

\* prepareStartup: a file that Load refuses tells nothing about its database.
StartDb == IF Usable(disk) THEN disk.db ELSE DefaultDb
StartDoc == IF Usable(disk) THEN disk ELSE LastActive(revisions[StartDb])

ModeOf(doc) == IF doc = None THEN "config" ELSE IF doc.cloud THEN "cloud" ELSE "standalone"

\* LoadCredential parses the whole file.
CredentialLoads == credential = "whole"

\* startJobSource: without a credential the daemon exits before it records anything.
JobSourceStarts(doc) == ModeOf(doc) = "cloud" => CredentialLoads

\* configstate.New records the document as started; the error is dropped.
RecordStarted(db, doc) ==
    \/ /\ doc # None
       /\ revisions' = [revisions EXCEPT ![db] = Recorded(@, doc, TRUE)]
       /\ lastStarted' = [lastStarted EXCEPT ![db] = doc]
       /\ savedSince' = [savedSince EXCEPT ![db] = 0]
    \/ UNCHANGED <<revisions, lastStarted, savedSince>>

StartDaemon ==
    /\ running = "down" /\ starts < MaxStarts
    /\ JobSourceStarts(StartDoc)
    /\ starts' = starts + 1
    /\ running' = ModeOf(StartDoc)
    /\ active' = StartDoc
    /\ activeDb' = StartDb
    /\ RecordStarted(StartDb, StartDoc)
    /\ view' = [state |-> IF ~Usable(disk) THEN "disk_invalid" ELSE "in_sync", doc |-> disk]
    /\ UNCHANGED <<disk, diskBy, save, tick, ordered, writes, enroll, credential,
                   tokensSpent>>

\* The process ends, by a signal, a restart from the console, or a crash in the middle of
\* a save.
StopDaemon ==
    /\ Watching
    /\ running' = "down" /\ active' = None /\ tick' = None
    /\ view' = NoView /\ activeDb' = DefaultDb
    /\ save' = [p \in Savers |-> IF p = EnrollCommand THEN save[p] ELSE Idle]
    /\ UNCHANGED <<disk, diskBy, revisions, lastStarted, savedSince, ordered, writes,
                   enroll, credential, tokensSpent, starts>>

-----------------------------------------------------------------------------
(* The enroll command.                                                     *)

WithCloudBlock(doc) ==
    [form |-> IF doc.form = "missing" THEN "good" ELSE doc.form, orgs |-> doc.orgs,
     cloud |-> TRUE, db |-> doc.db]

\* Everything that is checked before the cloud is called.
PrepareEnroll ==
    /\ enroll.pc = "idle" /\ writes < MaxWrites
    /\ disk.form # "malformed" /\ disk.orgs = <<>>
    /\ Usable(WithCloudBlock(disk))
    /\ enroll' = [pc |-> "prepared", doc |-> WithCloudBlock(disk), db |-> disk.db]
    /\ writes' = writes + 1
    /\ UNCHANGED <<disk, diskBy, revisions, running, active, activeDb, view, save, tick,
                   lastStarted, savedSince, ordered, credential, tokensSpent, starts>>

\* The cloud takes the token; the answer comes back, or is lost or incomplete.
SpendToken ==
    /\ enroll.pc = "prepared"
    /\ tokensSpent' = tokensSpent + 1
    /\ enroll' \in {[enroll EXCEPT !.pc = "enrolled"], NoEnroll}
    /\ UNCHANGED <<configVars, credential, starts>>

\* WriteFile truncates the file and then writes it.
BeginCredential ==
    /\ enroll.pc = "enrolled"
    /\ credential' = "cut"
    /\ enroll' = [enroll EXCEPT !.pc = "writing"]
    /\ UNCHANGED <<configVars, tokensSpent, starts>>

EndCredential ==
    /\ enroll.pc = "writing"
    /\ credential' = "whole"
    /\ enroll' = [enroll EXCEPT !.pc = "stored"]
    /\ UNCHANGED <<configVars, tokensSpent, starts>>

\* A plausible bug: the config is switched to cloud before the credential is stored.
SwitchConfigBeforeCredential ==
    /\ enroll.pc = "enrolled"
    /\ BeginSave(EnrollCommand, enroll.doc, enroll.db)
    /\ UNCHANGED <<disk, diskBy, revisions, running, active, activeDb, view, tick, lastStarted,
                   savedSince, ordered, writes, enroll, credential, tokensSpent, starts>>

\* saveCloudConfig saves the document made before the call to the cloud.
SwitchConfigToCloud ==
    /\ enroll.pc = "stored"
    /\ BeginSave(EnrollCommand, enroll.doc, enroll.db)
    /\ enroll' = NoEnroll
    /\ UNCHANGED <<disk, diskBy, revisions, running, active, activeDb, view, tick, lastStarted,
                   savedSince, ordered, writes, credential, tokensSpent, starts>>

\* An error or a signal ends the command.
EnrollFails ==
    /\ enroll.pc # "idle"
    /\ enroll' = NoEnroll
    /\ UNCHANGED <<configVars, credential, tokensSpent, starts>>

-----------------------------------------------------------------------------

SaveNext ==
    \E p \in Savers :
        \/ SaveConfig(p) \/ RestoreRevision(p) \/ ReplaceFile(p) \/ RecordSaved(p)
        \/ SaveFails(p) \/ SaveReads(p) \/ SavePublishes(p)

EnrollNext ==
    \/ PrepareEnroll \/ SpendToken \/ BeginCredential \/ EndCredential
    \/ SwitchConfigToCloud \/ EnrollFails

DaemonNext ==
    \/ StartDaemon
    \/ StopDaemon
    \/ EnrollNext
    \/ /\ SaveNext \/ TickReads \/ TickPublishes \/ EditDisk
       /\ UNCHANGED <<enroll, credential, tokensSpent, starts>>

DaemonSpec == DaemonInit /\ [][DaemonNext]_daemonVars

\* The ticker of configstate.Start runs as long as the daemon does.
WatcherFairness == WF_daemonVars(TickReads /\ UNCHANGED <<enroll, credential, tokensSpent, starts>>)
                   /\ WF_daemonVars(TickPublishes /\ UNCHANGED <<enroll, credential, tokensSpent, starts>>)

-----------------------------------------------------------------------------
(* What recovery would find in a database is exactly the document that the *)
(* daemon last recorded as started there, until as many documents have     *)
(* been saved since as revisions are kept: then TrimConfigRevisions        *)
(* (queries.sql) has deleted it, and recovery finds nothing.  A document   *)
(* that was only saved or restored is never taken for one that started     *)
(* (configstate/storage.go:152).                                           *)
RecoveryFindsLastStarted ==
    \A db \in Databases :
        LastActive(revisions[db]) =
            IF savedSince[db] >= RevisionsKept THEN None ELSE lastStarted[db]

(* No save, restore or enrollment gives an org the token of another: a     *)
(* token on disk is one that was typed for its org, or the mask itself.    *)
(* edit-config.md:44 tells the admin to leave a masked secret alone unless *)
(* it is to change, and storage.go:46 says that masked secrets are filled  *)
(* from the disk file.                                                     *)
TokensStayWithTheirOrg == OwnTokens(disk)

(* As long as every document that was typed by hand or in the editor lists *)
(* the orgs in one order, and drops and adds them only at the end, each    *)
(* org keeps its own token, whatever the file has become since the console *)
(* showed it and whichever saves and restores run side by side             *)
(* (configstate/storage.go:237).                                           *)
OrderedTokensStay == ordered => OwnTokens(disk)

(* A config that enroll switched to cloud mode finds a credential: the     *)
(* file is written first, and only a second enrollment can leave it cut    *)
(* short, since it is not replaced in one step (credential.go:78).         *)
CloudConfigHasCredential ==
    (disk.cloud /\ diskBy = EnrollCommand) =>
        credential = "whole" \/ (credential = "cut" /\ tokensSpent > 1)

(* The console tells the truth about the file in the end: whatever two     *)
(* refreshes overwrite each other with, the view comes back to the         *)
(* document on disk (service.go:114).                                      *)
ViewCatchesUp ==
    (Watching /\ view # ViewOf(disk)) ~> (~Watching \/ view = ViewOf(disk))

(* recover-config.md:8 says that with an invalid disk config the daemon    *)
(* tries the last active revision: a daemon that has started normally once *)
(* does not fall into config mode because its file broke.                  *)
BrokenFileIsRecovered ==
    [][running' = "config" =>
         \A db \in Databases : lastStarted[db] = None \/ savedSince[db] >= RevisionsKept]_daemonVars
=============================================================================
