---------------------------- MODULE ConfigState ----------------------------
(***************************************************************************)
(* The config file, its revisions in the database, and the service of the  *)
(* running daemon that watches the one and writes both (configstate).      *)
(*                                                                         *)
(* A document is its list of orgs, each with its token, a cloud block or   *)
(* none, and the database it names.  The service holds no lock across a    *)
(* save: it reads the file, fills the masked tokens of the draft from what *)
(* it read, renames a temporary file over the file, records a revision,    *)
(* and refreshes the view the console shows.  A save may stop after each   *)
(* of these steps, and the ticker refreshes the same view beside it.       *)
(***************************************************************************)
EXTENDS Integers, Sequences, SequencesExt, FiniteSets

CONSTANTS
    Docs,           \* documents that somebody may write by hand
    Owners,         \* the orgs, in the order in which an admin means to list them
    Retyped,        \* orgs with their token, as an admin types them in the editor
    Databases,      \* paths a document may name
    DefaultDb,      \* the path used by a document that names none
    Savers,         \* console handlers, and the enroll command
    EnrollCommand,  \* the saver that is a process of its own
    RevisionsKept,  \* ten in the code (TrimConfigRevisions)
    Masked,         \* "********"
    None,
    MaxWrites       \* bound: saves, restores, edits by hand and enrollments, in all

Entries == [owner : Range(Owners), token : {r.token : r \in Retyped} \cup {Masked}]

\* Any list of orgs, each with some token or the mask.
Documents ==
    [form : {"good", "malformed", "missing"}, orgs : Seq(Entries), cloud : BOOLEAN, db : Databases]

\* The documents in which the orgs stand in the order of Owners, with none left out before
\* another.
InOrder(doc) ==
    /\ Len(doc.orgs) <= Len(Owners)
    /\ \A i \in DOMAIN doc.orgs : doc.orgs[i].owner = Owners[i]

\* Each token is the mask, or one that was typed for the org it stands with.
OwnTokens(doc) == \A i \in DOMAIN doc.orgs : doc.orgs[i].token = Masked \/ doc.orgs[i] \in Retyped

ASSUME ConfigAssumption ==
    /\ Owners \in Seq(Range(Owners))
    /\ Retyped \subseteq [owner : Range(Owners), token : {r.token : r \in Retyped}]
    /\ Docs \subseteq Documents
    /\ \A doc \in Docs : OwnTokens(doc)
    /\ DefaultDb \in Databases
    /\ EnrollCommand \in Savers /\ "hand" \notin Savers
    /\ RevisionsKept \in Nat \ {0}

VARIABLES
    disk,        \* the document in the file
    diskBy,      \* who wrote it last: "hand" or a saver
    revisions,   \* revisions[db]: what that database holds, oldest first
    running,     \* the daemon: "down", "config", "standalone" or "cloud"
    active,      \* the document the daemon started with, None in config mode
    activeDb,    \* the database the daemon opened
    view,        \* the snapshot the console shows: [state, doc]
    save,        \* save[p]: where a save is, and the merged document
    tick,        \* what the ticker's refresh has read and not yet published
    lastStarted, \* history: lastStarted[db] was last recorded as started
    savedSince,  \* history: revisions recorded in db since then, up to RevisionsKept
    ordered,     \* history: nobody has yet written or drafted a document out of order
    writes       \* how many have begun

configVars == <<disk, diskBy, revisions, running, active, activeDb, view, save, tick,
                lastStarted, savedSince, ordered, writes>>

NoFile == [form |-> "missing", orgs |-> <<>>, cloud |-> FALSE, db |-> DefaultDb]

\* ValidateYAML, for the documents of this module (see ConfigCheck for its rules).
Usable(doc) == doc.form = "good" /\ (doc.cloud # (doc.orgs # <<>>))

WithOrgs(doc, orgs) ==
    [form |-> doc.form, orgs |-> orgs, cloud |-> doc.cloud, db |-> doc.db]

Redact(doc) ==
    WithOrgs(doc, [i \in DOMAIN doc.orgs |-> [owner |-> doc.orgs[i].owner, token |-> Masked]])

\* A plausible bug: the k-th masked token of the draft gets the k-th token of the file.
MergeInOrderOfMasks(draft, current) ==
    LET maskedUpTo(i) == Cardinality({j \in 1..i : draft.orgs[j].token = Masked})
    IN  [draft EXCEPT !.orgs =
            [i \in DOMAIN @ |->
                IF @[i].token = Masked /\ maskedUpTo(i) \in DOMAIN current.orgs
                THEN [@[i] EXCEPT !.token = current.orgs[maskedUpTo(i)].token] ELSE @[i]]]

\* A masked token takes the token at its place in the file.  The merge by lines, for a
\* file that does not parse, counts places too.
Merge(draft, current) ==
    LET token(i) == IF draft.orgs[i].token = Masked /\ i \in DOMAIN current.orgs
                    THEN current.orgs[i].token ELSE draft.orgs[i].token
    IN  WithOrgs(draft, [i \in DOMAIN draft.orgs |->
                           [owner |-> draft.orgs[i].owner, token |-> token(i)]])

-----------------------------------------------------------------------------
(* Revisions: one transaction each.                                        *)

ClearActive(revs) == [i \in DOMAIN revs |-> [doc |-> revs[i].doc, active |-> FALSE]]

InsertConfigRevision(revs, doc, started) == Append(revs, [doc |-> doc, active |-> started])

\* Only the newest are kept.
TrimConfigRevisions(revs) ==
    IF Len(revs) <= RevisionsKept THEN revs
    ELSE SubSeq(revs, 1 + Len(revs) - RevisionsKept, Len(revs))

\* What the console lists.
ListRecentConfigRevisions(revs) == {i \in DOMAIN revs : i > Len(revs) - RevisionsKept}

GetConfigRevisionYAML(revs, i) == revs[i].doc

\* saveRevision
Recorded(revs, doc, started) ==
    LET before == IF started THEN ClearActive(revs) ELSE revs
    IN  TrimConfigRevisions(InsertConfigRevision(before, doc, started))

\* GetLastActiveConfigYAML: the newest revision marked active, None when there is none.
LastActive(revs) ==
    LET marked == {i \in DOMAIN revs : revs[i].active}
    IN  IF marked = {} THEN None ELSE revs[Max(marked)].doc

-----------------------------------------------------------------------------
(* The view.                                                               *)

SyncState(doc) ==
    IF ~Usable(doc) THEN "disk_invalid" ELSE IF doc = active THEN "in_sync" ELSE "restart_required"

NoView == [state |-> "disk_invalid", doc |-> NoFile]

ViewOf(doc) == [state |-> SyncState(doc), doc |-> doc]

Watching == running # "down"

\* A plausible bug: the watcher stops at a file it cannot use.
TickReadsWhileUsable ==
    /\ Watching /\ tick = None /\ view.state # "disk_invalid"
    /\ tick' = disk
    /\ UNCHANGED <<disk, diskBy, revisions, running, active, activeDb, view, save,
                   lastStarted, savedSince, ordered, writes>>

\* refresh of the two second ticker: it reads the file ...
TickReads ==
    /\ Watching /\ tick = None
    /\ tick' = disk
    /\ UNCHANGED <<disk, diskBy, revisions, running, active, activeDb, view, save,
                   lastStarted, savedSince, ordered, writes>>

\* ... and publishes what it made of it.
TickPublishes ==
    /\ tick # None
    /\ view' = ViewOf(tick)
    /\ tick' = None
    /\ UNCHANGED <<disk, diskBy, revisions, running, active, activeDb, save,
                   lastStarted, savedSince, ordered, writes>>

-----------------------------------------------------------------------------
(* Save.                                                                   *)

Idle == [pc |-> "idle", doc |-> NoFile, db |-> DefaultDb]

\* What an admin makes of the document the console shows: types a token again, adds an
\* org anywhere in the list, deletes one, or lets two change places.
Drafts(shown) ==
    LET orgs == Redact(shown).orgs
        retyped == UNION {{[orgs EXCEPT ![i] = o] : o \in {r \in Retyped : r.owner = orgs[i].owner}} :
                             i \in DOMAIN orgs}
        absent == {r \in Retyped : \A i \in DOMAIN orgs : orgs[i].owner # r.owner}
        longer == UNION {{InsertAt(orgs, i, o) : o \in absent} : i \in 1..(Len(orgs) + 1)}
        shorter == {RemoveAt(orgs, i) : i \in DOMAIN orgs}
        swapped == UNION {{[orgs EXCEPT ![i] = orgs[j], ![j] = orgs[i]] : j \in DOMAIN orgs} :
                             i \in DOMAIN orgs}
    IN  {[form |-> "good", orgs |-> list, cloud |-> shown.cloud, db |-> shown.db] :
            list \in {orgs} \union retyped \union longer \union shorter \union swapped}

\* Save up to its validation.  A draft that does not parse or is not valid is sent back.
BeginSave(p, draft, db) ==
    LET merged == IF disk.form = "missing" THEN draft ELSE Merge(draft, disk)
    IN  /\ save[p].pc = "idle"
        /\ Usable(merged)
        /\ save' = [save EXCEPT ![p] = [pc |-> "merged", doc |-> merged, db |-> db]]

SaveConfig(p) ==
    /\ p # EnrollCommand /\ Watching /\ writes < MaxWrites
    /\ \E draft \in Drafts(view.doc) :
           /\ BeginSave(p, draft, activeDb)
           /\ ordered' = (ordered /\ InOrder(draft))
    /\ writes' = writes + 1
    /\ UNCHANGED <<disk, diskBy, revisions, running, active, activeDb, view, tick,
                   lastStarted, savedSince>>

\* Restore saves the full document of a revision, one of those the console lists.
RestoreRevision(p) ==
    /\ p # EnrollCommand /\ Watching /\ writes < MaxWrites
    /\ \E i \in ListRecentConfigRevisions(revisions[activeDb]) :
           BeginSave(p, GetConfigRevisionYAML(revisions[activeDb], i), activeDb)
    /\ writes' = writes + 1
    /\ UNCHANGED <<disk, diskBy, revisions, running, active, activeDb, view, tick,
                   lastStarted, savedSince, ordered>>

\* The temporary file is complete and synced before it is renamed over the config file.
ReplaceFile(p) ==
    /\ save[p].pc = "merged"
    /\ disk' = save[p].doc
    /\ diskBy' = p
    /\ save' = [save EXCEPT ![p] = [@ EXCEPT !.pc = "replaced"]]
    /\ UNCHANGED <<revisions, running, active, activeDb, view, tick, lastStarted, savedSince,
                   ordered, writes>>

\* A plausible bug: a saved revision is marked active although nothing started with it.
RecordSavedAsActive(p) ==
    /\ save[p].pc = "replaced"
    /\ revisions' = [revisions EXCEPT ![save[p].db] = Recorded(@, save[p].doc, TRUE)]
    /\ savedSince' = [savedSince EXCEPT ![save[p].db] = IF @ < RevisionsKept THEN @ + 1 ELSE @]
    /\ save' = [save EXCEPT ![p] = [@ EXCEPT !.pc = "recorded"]]
    /\ UNCHANGED <<disk, diskBy, running, active, activeDb, view, tick, lastStarted, ordered, writes>>

RecordSaved(p) ==
    /\ save[p].pc = "replaced"
    /\ revisions' = [revisions EXCEPT ![save[p].db] = Recorded(@, save[p].doc, FALSE)]
    /\ savedSince' = [savedSince EXCEPT ![save[p].db] = IF @ < RevisionsKept THEN @ + 1 ELSE @]
    /\ save' = [save EXCEPT ![p] = [@ EXCEPT !.pc = "recorded"]]
    /\ UNCHANGED <<disk, diskBy, running, active, activeDb, view, tick, lastStarted, ordered, writes>>

\* Any call before the rename, the chmod after it, or the transaction fails: Save returns.
SaveFails(p) ==
    /\ save[p].pc \in {"merged", "replaced"}
    /\ save' = [save EXCEPT ![p] = Idle]
    /\ UNCHANGED <<disk, diskBy, revisions, running, active, activeDb, view, tick,
                   lastStarted, savedSince, ordered, writes>>

\* The refresh at the end of Save, in two steps as well.
SaveReads(p) ==
    /\ save[p].pc = "recorded"
    /\ save' = [save EXCEPT ![p] = [@ EXCEPT !.pc = "read", !.doc = disk]]
    /\ UNCHANGED <<disk, diskBy, revisions, running, active, activeDb, view, tick,
                   lastStarted, savedSince, ordered, writes>>

\* The enroll command refreshes a service of its own that nobody looks at.
SavePublishes(p) ==
    /\ save[p].pc = "read"
    /\ view' = IF p = EnrollCommand THEN view ELSE ViewOf(save[p].doc)
    /\ save' = [save EXCEPT ![p] = Idle]
    /\ UNCHANGED <<disk, diskBy, revisions, running, active, activeDb, tick,
                   lastStarted, savedSince, ordered, writes>>

\* Somebody edits, breaks or removes the file.
EditDisk ==
    /\ writes < MaxWrites
    /\ disk' \in (Docs \union {NoFile}) \ {disk}
    /\ diskBy' = "hand"
    /\ ordered' = (ordered /\ InOrder(disk'))
    /\ writes' = writes + 1
    /\ UNCHANGED <<revisions, running, active, activeDb, view, save, tick, lastStarted,
                   savedSince>>
=============================================================================
