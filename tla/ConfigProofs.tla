---------------------------- MODULE ConfigProofs ----------------------------
(***************************************************************************)
(* What holds of ConfigState and Daemon for every set of documents, orgs,  *)
(* tokens, databases and savers, and every number of revisions kept; and   *)
(* of the two validators of ConfigCheck for every document.                *)
(***************************************************************************)
EXTENDS Daemon, ConfigCheck, TLAPS

-----------------------------------------------------------------------------
(* Documents *)

\* Lists of orgs in the order of Owners, each with a token of its own or the mask.
Listings ==
    {orgs \in Seq(Entries) :
        /\ Len(orgs) <= Len(Owners)
        /\ \A i \in 1..Len(orgs) :
             /\ orgs[i].owner = Owners[i]
             /\ orgs[i].token = Masked \/ orgs[i] \in Retyped}

\* The documents whose orgs are listed so.
Proper == [form : {"good", "malformed", "missing"}, orgs : Listings, cloud : BOOLEAN,
           db : Databases]

\* All documents, or the proper ones: neither is left by what the code does to a document.
Kinds == {Documents, Proper}

\* A list made place by place (Redact, Merge) is a sequence of that length.
LEMMA SequenceOf ==
    ASSUME NEW S, NEW n \in Nat, NEW f \in [1..n -> S]
    PROVE  f \in Seq(S) /\ Len(f) = n
  OBVIOUS

\* Whichever of the two kinds a document is of, its orgs are a sequence of entries.
LEMMA KindOfLists ==
    ASSUME NEW D \in Kinds
    PROVE  \E L \in {Seq(Entries), Listings} :
              D = [form : {"good", "malformed", "missing"}, orgs : L, cloud : BOOLEAN,
                   db : Databases]
  BY DEF Kinds, Documents, Proper

\* A proper document is a document.
LEMMA ProperDocuments == Proper \subseteq Documents
  <1>1. Listings \subseteq Seq(Entries)
    BY DEF Listings
  <1>2. QED
    BY <1>1 DEF Proper, Documents

\* Both kinds hold nothing but documents.
LEMMA KindsAreDocuments == \A D \in Kinds : D \subseteq Documents
  BY ProperDocuments DEF Kinds

\* A document in order whose tokens belong to their orgs is proper.
LEMMA OrderedIsProper ==
    ASSUME NEW doc \in Documents, InOrder(doc), OwnTokens(doc)
    PROVE  doc \in Proper
  <1>1. /\ doc.orgs \in Seq(Entries) /\ DOMAIN doc.orgs = 1..Len(doc.orgs)
        /\ doc = [form |-> doc.form, orgs |-> doc.orgs, cloud |-> doc.cloud, db |-> doc.db]
        /\ doc.form \in {"good", "malformed", "missing"} /\ doc.cloud \in BOOLEAN
        /\ doc.db \in Databases
    BY DEF Documents
  <1>2. doc.orgs \in Listings
    BY <1>1 DEF Listings, InOrder, OwnTokens
  <1>3. QED
    BY <1>1, <1>2 DEF Proper

\* No file is a proper document without orgs.
LEMMA NoFileIsProper == \A D \in Kinds : NoFile \in D
  <1>1. <<>> \in Listings
    <2>1. <<>> \in Seq(Entries) /\ Len(<<>>) = 0
      OBVIOUS
    <2>2. Len(Owners) \in Nat
      BY ConfigAssumption
    <2>3. QED
      BY <2>1, <2>2 DEF Listings
  <1>2. NoFile \in Proper
    BY <1>1, ConfigAssumption DEF NoFile, Proper
  <1>3. QED
    BY <1>2, ProperDocuments DEF Kinds

\* What the daemon may find: no file, or what somebody wrote.
LEMMA FoundDocuments ==
    /\ Docs \cup {NoFile} \subseteq Documents
    /\ \A doc \in Docs \cup {NoFile} : InOrder(doc) => doc \in Proper
  <1>1. NoFile \in Documents /\ NoFile \in Proper
    BY NoFileIsProper DEF Kinds
  <1>2. Docs \subseteq Documents /\ \A doc \in Docs : OwnTokens(doc)
    BY ConfigAssumption
  <1>3. QED
    BY <1>1, <1>2, OrderedIsProper

\* Redact masks every token, and moves no org.
LEMMA RedactMasks ==
    ASSUME NEW doc \in Documents
    PROVE  /\ Redact(doc).orgs \in Seq(Entries)
           /\ \A i \in DOMAIN Redact(doc).orgs : Redact(doc).orgs[i].token = Masked
  <1> DEFINE orgs == [i \in DOMAIN doc.orgs |->
                        [owner |-> doc.orgs[i].owner, token |-> Masked]]
  <1>1. doc.orgs \in Seq(Entries)
    BY DEF Documents
  <1>2. /\ Len(doc.orgs) \in Nat /\ DOMAIN doc.orgs = 1..Len(doc.orgs)
        /\ \A i \in 1..Len(doc.orgs) : doc.orgs[i] \in Entries
    BY <1>1
  <1>3. orgs \in [1..Len(doc.orgs) -> Entries]
    BY <1>2 DEF Entries
  <1>4. orgs \in Seq(Entries)
    BY <1>2, <1>3, SequenceOf
  <1>5. \A i \in DOMAIN orgs : orgs[i].token = Masked
    OBVIOUS
  <1>6. Redact(doc).orgs = orgs
    BY DEF Redact, WithOrgs
  <1> HIDE DEF orgs
  <1>7. QED
    BY <1>4, <1>5, <1>6

\* The merge gives a masked token the token of the same place in the file, which is the
\* same org's when both list the orgs in the same order.
LEMMA MergeKeepsKind ==
    ASSUME NEW D \in Kinds, NEW edited \in D, NEW current \in D
    PROVE  Merge(edited, current) \in D
  <1> DEFINE token(i) == IF edited.orgs[i].token = Masked /\ i \in DOMAIN current.orgs
                         THEN current.orgs[i].token ELSE edited.orgs[i].token
             orgs == [i \in DOMAIN edited.orgs |->
                        [owner |-> edited.orgs[i].owner, token |-> token(i)]]
  <1>1. PICK L \in {Seq(Entries), Listings} :
           D = [form : {"good", "malformed", "missing"}, orgs : L, cloud : BOOLEAN,
                db : Databases]
    BY KindOfLists
  <1>2. edited.orgs \in L /\ current.orgs \in L
    BY <1>1
  <1>3. \A list \in {edited.orgs, current.orgs} :
           /\ list \in Seq(Entries) /\ Len(list) \in Nat /\ DOMAIN list = 1..Len(list)
           /\ \A i \in 1..Len(list) : list[i] \in Entries
    <2>1. Listings \subseteq Seq(Entries)
      BY DEF Listings
    <2>2. edited.orgs \in Seq(Entries) /\ current.orgs \in Seq(Entries)
      BY <1>2, <2>1
    <2>3. QED
      BY <2>2
  <1>4. ASSUME NEW i \in 1..Len(edited.orgs)
        PROVE  /\ orgs[i] \in Entries
               /\ orgs[i] = edited.orgs[i]
                  \/ /\ i \in 1..Len(current.orgs)
                     /\ orgs[i] = [owner |-> edited.orgs[i].owner,
                                   token |-> current.orgs[i].token]
    <2>1. orgs[i] = [owner |-> edited.orgs[i].owner, token |-> token(i)]
      BY <1>3
    <2>2. edited.orgs[i] \in Entries
      BY <1>3
    <2>3. CASE edited.orgs[i].token = Masked /\ i \in DOMAIN current.orgs
      <3>1. i \in 1..Len(current.orgs) /\ current.orgs[i] \in Entries
        BY <1>3, <2>3
      <3>2. QED
        BY <2>1, <2>2, <2>3, <3>1 DEF Entries
    <2>4. CASE ~(edited.orgs[i].token = Masked /\ i \in DOMAIN current.orgs)
      <3>1. orgs[i] = edited.orgs[i]
        BY <2>1, <2>2, <2>4 DEF Entries
      <3>2. QED
        BY <2>2, <3>1
    <2>5. QED
      BY <2>3, <2>4
  <1>5. orgs \in Seq(Entries) /\ Len(orgs) = Len(edited.orgs)
    <2>1. Len(edited.orgs) \in Nat /\ DOMAIN edited.orgs = 1..Len(edited.orgs)
      BY <1>3
    <2>2. orgs \in [1..Len(edited.orgs) -> Entries]
      BY <1>4, <2>1
    <2>3. QED
      BY <2>1, <2>2, SequenceOf
  <1>6. Merge(edited, current)
           = [form |-> edited.form, orgs |-> orgs, cloud |-> edited.cloud, db |-> edited.db]
    BY DEF Merge, WithOrgs
  <1> HIDE DEF orgs
  <1>7. orgs \in L
    <2>1. CASE L = Seq(Entries)
      BY <1>5, <2>1
    <2>2. CASE L = Listings
      <3>1. /\ Len(edited.orgs) <= Len(Owners)
            /\ \A i \in 1..Len(edited.orgs) :
                 /\ edited.orgs[i].owner = Owners[i]
                 /\ edited.orgs[i].token = Masked \/ edited.orgs[i] \in Retyped
            /\ \A i \in 1..Len(current.orgs) :
                 /\ current.orgs[i].owner = Owners[i]
                 /\ current.orgs[i].token = Masked \/ current.orgs[i] \in Retyped
        BY <1>2, <2>2 DEF Listings
      <3>2. ASSUME NEW i \in 1..Len(orgs)
            PROVE  /\ orgs[i].owner = Owners[i]
                   /\ orgs[i].token = Masked \/ orgs[i] \in Retyped
        <4>1. i \in 1..Len(edited.orgs)
          BY <1>5
        <4>2. CASE orgs[i] = edited.orgs[i]
          BY <3>1, <4>1, <4>2
        <4>3. CASE /\ i \in 1..Len(current.orgs)
                   /\ orgs[i] = [owner |-> edited.orgs[i].owner,
                                 token |-> current.orgs[i].token]
          <5>1. orgs[i] = current.orgs[i]
            <6>1. current.orgs[i] \in Entries
              BY <1>3, <4>3
            <6>2. QED
              BY <3>1, <4>1, <4>3, <6>1 DEF Entries
          <5>2. QED
            BY <3>1, <4>3, <5>1
        <4>4. QED
          BY <1>4, <4>1, <4>2, <4>3
      <3>3. QED
        BY <1>5, <2>2, <3>1, <3>2 DEF Listings
    <2>3. QED
      BY <2>1, <2>2
  <1>8. QED
    BY <1>1, <1>6, <1>7

\* What an admin makes of any document is a document, and the tokens in it are masks, or
\* were typed for the orgs they stand with.
LEMMA DraftsAreDocuments ==
    ASSUME NEW shown \in Documents, NEW edited \in Drafts(shown)
    PROVE  edited \in Documents /\ OwnTokens(edited)
  <1> DEFINE orgs == Redact(shown).orgs
             Own == {o \in Entries : o.token = Masked \/ o \in Retyped}
  <1>1. orgs \in Seq(Own)
    <2>1. orgs \in Seq(Entries) /\ \A i \in DOMAIN orgs : orgs[i].token = Masked
      BY RedactMasks
    <2> HIDE DEF orgs
    <2>2. /\ Len(orgs) \in Nat /\ DOMAIN orgs = 1..Len(orgs)
          /\ \A i \in 1..Len(orgs) : orgs[i] \in Own
      BY <2>1
    <2> HIDE DEF Own
    <2>3. orgs \in [1..Len(orgs) -> Own]
      BY <2>1, <2>2
    <2>4. QED
      BY <2>2, <2>3, SequenceOf
  <1>2. Retyped \subseteq Own
    BY ConfigAssumption DEF Entries
  <1>3. Own \subseteq Entries /\ \A o \in Own : o.token = Masked \/ o \in Retyped
    OBVIOUS
  <1> HIDE DEF orgs, Own
  <1>4. /\ Len(orgs) \in Nat /\ DOMAIN orgs = 1..Len(orgs)
        /\ \A i \in 1..Len(orgs) : orgs[i] \in Own
    BY <1>1
  <1>5. ASSUME NEW i \in DOMAIN orgs, NEW o \in Retyped
        PROVE  [orgs EXCEPT ![i] = o] \in Seq(Own)
    BY <1>1, <1>2, <1>4
  <1>6. ASSUME NEW i \in 1..(Len(orgs) + 1), NEW o \in Retyped
        PROVE  InsertAt(orgs, i, o) \in Seq(Own)
    <2>1. SubSeq(orgs, 1, i - 1) \in Seq(Own) /\ SubSeq(orgs, i, Len(orgs)) \in Seq(Own)
      BY <1>1, <1>4
    <2>2. <<o>> \in Seq(Own)
      BY <1>2
    <2>3. QED
      BY <2>1, <2>2 DEF InsertAt
  <1>7. ASSUME NEW i \in DOMAIN orgs
        PROVE  RemoveAt(orgs, i) \in Seq(Own)
    <2>1. SubSeq(orgs, 1, i - 1) \in Seq(Own) /\ SubSeq(orgs, i + 1, Len(orgs)) \in Seq(Own)
      BY <1>1, <1>4
    <2>2. QED
      BY <2>1 DEF RemoveAt
  <1>8. ASSUME NEW i \in DOMAIN orgs, NEW j \in DOMAIN orgs
        PROVE  [orgs EXCEPT ![i] = orgs[j], ![j] = orgs[i]] \in Seq(Own)
    <2>1. [orgs EXCEPT ![i] = orgs[j]] \in Seq(Own)
      BY <1>1, <1>4
    <2>2. QED
      BY <1>1, <1>4, <2>1
  <1>9. PICK list \in Seq(Own) :
           edited = [form |-> "good", orgs |-> list, cloud |-> shown.cloud, db |-> shown.db]
    <2> DEFINE D(list) == [form |-> "good", orgs |-> list,
                           cloud |-> shown.cloud, db |-> shown.db]
    <2>1. \/ edited = D(orgs)
          \/ \E i \in DOMAIN orgs, o \in Retyped : edited = D([orgs EXCEPT ![i] = o])
          \/ \E i \in 1..(Len(orgs) + 1), o \in Retyped : edited = D(InsertAt(orgs, i, o))
          \/ \E i \in DOMAIN orgs : edited = D(RemoveAt(orgs, i))
          \/ \E i \in DOMAIN orgs, j \in DOMAIN orgs :
                edited = D([orgs EXCEPT ![i] = orgs[j], ![j] = orgs[i]])
      BY DEF Drafts, orgs
    <2>2. QED
      BY <1>1, <1>5, <1>6, <1>7, <1>8, <2>1
  <1>10. list \in Seq(Entries)
    BY <1>3
  <1>11. edited \in Documents
    BY <1>9, <1>10 DEF Documents
  <1>12. OwnTokens(edited)
    <2>1. edited.orgs = list /\ \A i \in DOMAIN list : list[i] \in Own
      BY <1>9
    <2>2. QED
      BY <1>3, <2>1 DEF OwnTokens
  <1>13. QED
    BY <1>11, <1>12

\* The cloud block that enroll writes changes no org (enroll.go:63).
LEMMA CloudBlockKeepsKind ==
    ASSUME NEW D \in Kinds, NEW doc \in D
    PROVE  WithCloudBlock(doc) \in D
  BY KindOfLists DEF WithCloudBlock

-----------------------------------------------------------------------------
(* Revisions *)

\* Histories of documents of D, no longer than is kept.
Revision(D) == [doc : D, active : BOOLEAN]
Histories(D) == {revs \in Seq(Revision(D)) : Len(revs) <= RevisionsKept}

\* What saveRevision makes of a history.
RecordedAs(new, revs, doc, started) ==
    /\ Len(new) = IF Len(revs) < RevisionsKept THEN Len(revs) + 1 ELSE RevisionsKept
    /\ new[Len(new)] = [doc |-> doc, active |-> started]
    /\ \A i \in 1..(Len(new) - 1) :
         LET j == i + Len(revs) + 1 - Len(new)
         IN  /\ j \in 1..Len(revs)
             /\ new[i].doc = revs[j].doc
             /\ new[i].active <=> (~started /\ revs[j].active)

\* saveRevision adds one revision at the end, takes the mark of all others when the new
\* one has it, and drops the oldest when there are too many.
LEMMA RecordedRevisions ==
    ASSUME NEW D, NEW revs \in Histories(D), NEW doc \in D, NEW started \in BOOLEAN,
           NEW new, new = Recorded(revs, doc, started)
    PROVE  new \in Histories(D) /\ RecordedAs(new, revs, doc, started)
  <1> DEFINE before == IF started THEN ClearActive(revs) ELSE revs
             longer == Append(before, [doc |-> doc, active |-> started])
  <1>1. /\ revs \in Seq(Revision(D)) /\ Len(revs) <= RevisionsKept
        /\ RevisionsKept \in Nat /\ RevisionsKept > 0
        /\ Len(revs) \in Nat /\ DOMAIN revs = 1..Len(revs)
        /\ \A i \in 1..Len(revs) : revs[i] \in Revision(D)
    BY ConfigAssumption DEF Histories
  <1>2. /\ before \in Seq(Revision(D)) /\ Len(before) = Len(revs)
        /\ \A i \in 1..Len(revs) :
             /\ before[i].doc = revs[i].doc
             /\ before[i].active <=> (~started /\ revs[i].active)
    <2>1. CASE ~started
      BY <1>1, <2>1
    <2>2. CASE started
      <3>1. before = [i \in 1..Len(revs) |-> [doc |-> revs[i].doc, active |-> FALSE]]
        BY <1>1, <2>2 DEF ClearActive
      <3>2. before \in [1..Len(revs) -> Revision(D)]
        <4>1. \A i \in 1..Len(revs) : [doc |-> revs[i].doc, active |-> FALSE] \in Revision(D)
          BY <1>1 DEF Revision
        <4> HIDE DEF before
        <4>2. QED
          BY <3>1, <4>1
      <3>3. before \in Seq(Revision(D)) /\ Len(before) = Len(revs)
        BY <1>1, <3>2, SequenceOf
      <3>4. QED
        BY <2>2, <3>1, <3>3
    <2>3. QED
      BY <2>1, <2>2
  <1> HIDE DEF before
  <1>3. /\ longer \in Seq(Revision(D)) /\ Len(longer) = Len(revs) + 1
        /\ longer[Len(revs) + 1] = [doc |-> doc, active |-> started]
        /\ \A i \in 1..Len(revs) : longer[i] = before[i]
    BY <1>1, <1>2 DEF Revision
  <1>4. new = IF Len(longer) <= RevisionsKept THEN longer
              ELSE SubSeq(longer, 1 + Len(longer) - RevisionsKept, Len(longer))
    BY DEF Recorded, TrimConfigRevisions, InsertConfigRevision, before
  <1> HIDE DEF longer
  <1>5. CASE Len(revs) < RevisionsKept
    <2>1. new = longer
      BY <1>1, <1>3, <1>4, <1>5
    <2>2. Len(new) = Len(revs) + 1 /\ new \in Histories(D)
      BY <1>1, <1>3, <1>5, <2>1 DEF Histories
    <2>3. ASSUME NEW i \in 1..(Len(new) - 1)
          PROVE  /\ i + Len(revs) + 1 - Len(new) = i /\ i \in 1..Len(revs)
                 /\ new[i] = before[i]
      BY <1>1, <1>3, <2>1, <2>2
    <2>4. new[Len(new)] = [doc |-> doc, active |-> started]
      BY <1>3, <2>1, <2>2
    <2>5. QED
      BY <1>1, <1>2, <1>5, <2>2, <2>3, <2>4 DEF RecordedAs
  <1>6. CASE Len(revs) = RevisionsKept
    <2>1. new = SubSeq(longer, 2, RevisionsKept + 1)
      BY <1>1, <1>3, <1>4, <1>6
    <2>2. /\ new \in Seq(Revision(D)) /\ Len(new) = RevisionsKept
          /\ \A i \in 1..RevisionsKept : new[i] = longer[i + 1]
      BY <1>1, <1>3, <1>6, <2>1
    <2>3. /\ new \in Histories(D)
          /\ new[Len(new)] = [doc |-> doc, active |-> started]
      BY <1>1, <1>3, <1>6, <2>2 DEF Histories
    <2>4. ASSUME NEW i \in 1..(Len(new) - 1)
          PROVE  /\ i + Len(revs) + 1 - Len(new) = i + 1 /\ i + 1 \in 1..Len(revs)
                 /\ new[i] = before[i + 1]
      BY <1>1, <1>3, <1>6, <2>2, <2>4
    <2>5. QED
      BY <1>1, <1>2, <1>6, <2>2, <2>3, <2>4 DEF RecordedAs
  <1>7. Len(revs) < RevisionsKept \/ Len(revs) = RevisionsKept
    <2>1. /\ Len(revs) \in Nat /\ RevisionsKept \in Nat
          /\ Len(revs) <= RevisionsKept
      BY <1>1
    <2> HIDE DEF Histories
    <2>2. QED
      BY <2>1
  <1>8. QED
    BY <1>5, <1>6, <1>7

\* Recording a revision leaves a history of documents, no longer than is kept.
LEMMA RecordedHistories ==
    ASSUME NEW D, NEW revs \in Histories(D), NEW doc \in D, NEW started \in BOOLEAN
    PROVE  Recorded(revs, doc, started) \in Histories(D)
  <1> DEFINE new == Recorded(revs, doc, started)
  <1>1. new = Recorded(revs, doc, started)
    OBVIOUS
  <1> HIDE DEF new
  <1>2. new \in Histories(D)
    BY <1>1, RecordedRevisions
  <1>3. QED
    BY <1>2 DEF new

-----------------------------------------------------------------------------
(* Types, and the one revision that is marked active *)

\* What the daemon, the savers and the enroll command hold, with documents of D only.
Views(D) == [state : {"disk_invalid", "in_sync", "restart_required"}, doc : D]
Saves(D) == [pc : {"idle", "merged", "replaced", "recorded", "read"},
             doc : D, db : Databases]
Enrollments(D) == [pc : {"idle", "prepared", "enrolled", "writing", "stored"},
                   doc : D, db : Databases]

HoldsOnly(D) ==
    /\ disk \in D
    /\ diskBy \in Savers \cup {"hand"}
    /\ revisions \in [Databases -> Histories(D)]
    /\ activeDb \in Databases
    /\ view \in Views(D)
    /\ save \in [Savers -> Saves(D)]
    /\ tick \in D \cup {None}
    /\ lastStarted \in [Databases -> D \cup {None}]
    /\ savedSince \in [Databases -> 0..RevisionsKept]
    /\ enroll \in Enrollments(D)
    /\ credential \in {"none", "cut", "whole"}
    /\ tokensSpent \in Nat
    /\ ordered \in BOOLEAN

DaemonTypeOK == HoldsOnly(Documents)

\* The revision of the document that last started is the only one marked active, and is
\* as far from the end as documents were saved since; when that is further than
\* revisions are kept, none is marked.
OnlyStartedIsActive(revs, doc, age) ==
    /\ \A i \in 1..Len(revs) :
         revs[i].active <=> (doc # None /\ age < RevisionsKept /\ i = Len(revs) - age)
    /\ doc # None /\ age < RevisionsKept =>
         age < Len(revs) /\ revs[Len(revs) - age].doc = doc

ActiveRevisions ==
    \A db \in Databases :
        OnlyStartedIsActive(revisions[db], lastStarted[db], savedSince[db])

\* GetLastActiveConfigYAML then returns that document, or nothing.
LEMMA LastActiveIsStarted ==
    ASSUME NEW D, NEW revs \in Histories(D), NEW doc, NEW age \in Nat,
           OnlyStartedIsActive(revs, doc, age)
    PROVE  LastActive(revs) = IF age >= RevisionsKept THEN None ELSE doc
  <1> DEFINE marked == {i \in DOMAIN revs : revs[i].active}
  <1>1. /\ DOMAIN revs = 1..Len(revs) /\ Len(revs) \in Nat
        /\ RevisionsKept \in Nat
    BY ConfigAssumption DEF Histories
  <1>2. LastActive(revs) = IF marked = {} THEN None ELSE revs[Max(marked)].doc
    BY DEF LastActive
  <1>3. CASE doc # None /\ age < RevisionsKept
    <2>1. /\ age < Len(revs) /\ revs[Len(revs) - age].doc = doc
          /\ Len(revs) - age \in 1..Len(revs)
      <3>1. age < Len(revs) /\ revs[Len(revs) - age].doc = doc
        BY <1>3 DEF OnlyStartedIsActive
      <3>2. QED
        BY <1>1, <3>1
    <2>2. marked = {Len(revs) - age}
      BY <1>1, <1>3, <2>1 DEF OnlyStartedIsActive
    <2> HIDE DEF marked
    <2>3. Max(marked) = Len(revs) - age
      BY <2>1, <2>2 DEF Max
    <2>4. QED
      BY <1>1, <1>2, <1>3, <2>1, <2>2, <2>3
  <1>4. CASE ~(doc # None /\ age < RevisionsKept)
    <2>1. marked = {}
      BY <1>1, <1>4 DEF OnlyStartedIsActive
    <2> HIDE DEF marked
    <2>2. QED
      BY <1>1, <1>2, <1>4, <2>1
  <1>5. QED
    BY <1>3, <1>4

\* RecordStarted marks the document that starts, and no other.
LEMMA StartedIsActive ==
    ASSUME NEW D, NEW revs \in Histories(D), NEW doc \in D, doc # None
    PROVE  OnlyStartedIsActive(Recorded(revs, doc, TRUE), doc, 0)
  <1> DEFINE new == Recorded(revs, doc, TRUE)
  <1>1. /\ new \in Histories(D) /\ Len(new) \in Nat /\ Len(new) > 0
        /\ new[Len(new)].doc = doc /\ new[Len(new)].active
        /\ \A i \in 1..(Len(new) - 1) : ~new[i].active
    <2>1. Len(revs) \in Nat /\ RevisionsKept \in Nat \ {0}
      BY ConfigAssumption DEF Histories
    <2>2. new = Recorded(revs, doc, TRUE)
      OBVIOUS
    <2> HIDE DEF new
    <2>3. /\ new \in Histories(D)
          /\ Len(new) = IF Len(revs) < RevisionsKept THEN Len(revs) + 1 ELSE RevisionsKept
          /\ new[Len(new)] = [doc |-> doc, active |-> TRUE]
          /\ \A i \in 1..(Len(new) - 1) :
               LET j == i + Len(revs) + 1 - Len(new)
               IN  /\ j \in 1..Len(revs)
                   /\ new[i].doc = revs[j].doc
                   /\ new[i].active <=> (~TRUE /\ revs[j].active)
      <3>1. new \in Histories(D) /\ RecordedAs(new, revs, doc, TRUE)
        BY <2>2, RecordedRevisions
      <3>2. QED
        BY <3>1 DEF RecordedAs
    <2>4. \A i \in 1..(Len(new) - 1) : ~new[i].active
      BY <2>3
    <2>5. Len(new) \in Nat /\ Len(new) > 0
      BY <2>1, <2>3
    <2>6. new[Len(new)].doc = doc /\ new[Len(new)].active
      BY <2>3
    <2>7. QED
      BY <2>3, <2>4, <2>5, <2>6
  <1>2. RevisionsKept > 0 /\ RevisionsKept \in Nat
    BY ConfigAssumption
  <1> HIDE DEF new
  <1>3. OnlyStartedIsActive(new, doc, 0)
    BY <1>1, <1>2 DEF OnlyStartedIsActive
  <1>4. QED
    BY <1>3 DEF new

\* RecordSaved moves the mark one place further from the end, until it falls off.
LEMMA SavedIsNotActive ==
    ASSUME NEW D, NEW revs \in Histories(D), NEW doc \in D,
           NEW last, NEW age \in 0..RevisionsKept, NEW next,
           next = IF age < RevisionsKept THEN age + 1 ELSE age,
           OnlyStartedIsActive(revs, last, age)
    PROVE  OnlyStartedIsActive(Recorded(revs, doc, FALSE), last, next)
  <1> DEFINE new == Recorded(revs, doc, FALSE)
             L == Len(revs)
             N == Len(new)
  <1> SUFFICES OnlyStartedIsActive(new, last, next)
    OBVIOUS
  <1>1. /\ L \in Nat /\ L <= RevisionsKept /\ RevisionsKept \in Nat \ {0}
    BY ConfigAssumption DEF Histories
  <1>2. /\ N = IF L < RevisionsKept THEN L + 1 ELSE RevisionsKept
        /\ ~new[N].active
        /\ \A i \in 1..(N - 1) :
             /\ i + L + 1 - N \in 1..L
             /\ new[i].doc = revs[i + L + 1 - N].doc
             /\ new[i].active <=> revs[i + L + 1 - N].active
    <2>1. new = Recorded(revs, doc, FALSE)
      OBVIOUS
    <2> HIDE DEF new
    <2>2. /\ new \in Histories(D)
          /\ Len(new) = IF Len(revs) < RevisionsKept THEN Len(revs) + 1 ELSE RevisionsKept
          /\ new[Len(new)] = [doc |-> doc, active |-> FALSE]
          /\ \A i \in 1..(Len(new) - 1) :
               LET j == i + Len(revs) + 1 - Len(new)
               IN  /\ j \in 1..Len(revs)
                   /\ new[i].doc = revs[j].doc
                   /\ new[i].active <=> (~FALSE /\ revs[j].active)
      <3>1. new \in Histories(D) /\ RecordedAs(new, revs, doc, FALSE)
        BY <2>1, RecordedRevisions
      <3>2. QED
        BY <3>1 DEF RecordedAs
    <2>3. QED
      BY <2>2
  <1> HIDE DEF new, L, N
  <1>3. N \in Nat /\ N > 0
    BY <1>1, <1>2
  <1>4. CASE last # None /\ next < RevisionsKept
    <2>1. age < RevisionsKept /\ next = age + 1 /\ age < L /\ revs[L - age].doc = last
      BY <1>1, <1>4 DEF OnlyStartedIsActive, L
    <2>2. N - next \in 1..(N - 1) /\ N - next + L + 1 - N = L - age
      BY <1>1, <1>2, <1>4, <2>1
    <2>3. new[N - next].doc = last
      BY <1>2, <2>1, <2>2
    <2>4. ASSUME NEW i \in 1..N PROVE new[i].active <=> i = N - next
      <3>1. CASE i = N
        BY <1>2, <1>3, <2>2, <3>1
      <3>2. CASE i \in 1..(N - 1)
        <4>1. new[i].active <=> revs[i + L + 1 - N].active
          BY <1>2, <3>2
        <4>2. revs[i + L + 1 - N].active <=> i + L + 1 - N = L - age
          BY <1>1, <1>2, <1>4, <2>1, <3>2 DEF OnlyStartedIsActive, L
        <4>3. QED
          BY <1>1, <1>3, <2>1, <4>1, <4>2
      <3>3. QED
        BY <1>3, <3>1, <3>2
    <2>5. next < N /\ 1..Len(new) = 1..N /\ Len(new) - next = N - next
      BY <1>1, <1>3, <1>4, <2>1, <2>2 DEF N
    <2>6. /\ \A i \in 1..Len(new) :
               new[i].active <=> (last # None /\ next < RevisionsKept /\ i = Len(new) - next)
          /\ next < Len(new) /\ new[Len(new) - next].doc = last
      BY <1>4, <2>3, <2>4, <2>5 DEF N
    <2>7. QED
      BY <2>6 DEF OnlyStartedIsActive
  <1>5. CASE ~(last # None /\ next < RevisionsKept)
    <2>1. ASSUME NEW i \in 1..N PROVE ~new[i].active
      <3>1. CASE i = N
        BY <1>2, <3>1
      <3>2. CASE i \in 1..(N - 1)
        <4>1. i + L + 1 - N \in 1..L /\ (new[i].active <=> revs[i + L + 1 - N].active)
          BY <1>2, <3>2
        <4>2. revs[i + L + 1 - N].active
                 <=> (last # None /\ age < RevisionsKept /\ i + L + 1 - N = L - age)
          BY <4>1 DEF OnlyStartedIsActive, L
        <4>3. ASSUME last # None, age < RevisionsKept PROVE i + L + 1 - N # L - age
          <5>1. age + 1 = RevisionsKept /\ age < L
            BY <1>1, <1>5, <4>3 DEF OnlyStartedIsActive, L
          <5>2. L = RevisionsKept /\ N = RevisionsKept
            BY <1>1, <1>2, <5>1
          <5>3. QED
            BY <1>1, <5>1, <5>2
        <4>4. QED
          BY <4>1, <4>2, <4>3
      <3>3. QED
        BY <1>3, <3>1, <3>2
    <2>2. QED
      BY <1>5, <2>1 DEF OnlyStartedIsActive, N
  <1>6. QED
    BY <1>4, <1>5

\* A save that begins with a document of the kind of the others has one after the merge.
LEMMA BegunIsOfKind ==
    ASSUME NEW D \in Kinds, HoldsOnly(D), NEW p \in Savers, NEW edited \in D,
           NEW db \in Databases, BeginSave(p, edited, db)
    PROVE  save' \in [Savers -> Saves(D)]
  <1> DEFINE merged == IF disk.form = "missing" THEN edited ELSE Merge(edited, disk)
  <1>1. merged \in D
    BY MergeKeepsKind DEF HoldsOnly
  <1>2. save' = [save EXCEPT ![p] = [pc |-> "merged", doc |-> merged, db |-> db]]
    BY DEF BeginSave
  <1> HIDE DEF merged
  <1>3. [pc |-> "merged", doc |-> merged, db |-> db] \in Saves(D)
    BY <1>1 DEF Saves
  <1>4. QED
    BY <1>2, <1>3 DEF HoldsOnly

\* The daemon starts with a document of that kind, or with none.
LEMMA StartedIsOfKind ==
    ASSUME NEW D \in Kinds, HoldsOnly(D), ActiveRevisions
    PROVE  StartDb \in Databases /\ StartDoc \in D \cup {None}
  <1>1. StartDb \in Databases
    <2>1. disk \in Documents
      BY KindsAreDocuments DEF HoldsOnly
    <2>2. QED
      BY <2>1, ConfigAssumption DEF Documents, StartDb
  <1>2. CASE Usable(disk)
    BY <1>1, <1>2 DEF StartDoc, HoldsOnly
  <1>3. CASE ~Usable(disk)
    <2> DEFINE db == StartDb
    <2>1. db \in Databases /\ StartDoc = LastActive(revisions[db])
      BY <1>1, <1>3 DEF StartDoc
    <2> HIDE DEF db
    <2>2. /\ revisions[db] \in Histories(D) /\ savedSince[db] \in Nat
          /\ OnlyStartedIsActive(revisions[db], lastStarted[db], savedSince[db])
          /\ lastStarted[db] \in D \cup {None}
      BY <2>1, ConfigAssumption DEF HoldsOnly, ActiveRevisions
    <2>3. LastActive(revisions[db])
             = IF savedSince[db] >= RevisionsKept THEN None ELSE lastStarted[db]
      BY <2>2, LastActiveIsStarted
    <2>4. QED
      BY <1>1, <2>1, <2>2, <2>3
  <1>4. QED
    BY <1>2, <1>3

-----------------------------------------------------------------------------
(* The daemon *)

\* No step takes the documents, the revisions or the enrollment out of their types; and
\* where all documents are proper, they stay so until one is typed out of order.
LEMMA KindIsKept ==
    ASSUME NEW D \in Kinds, HoldsOnly(D), ActiveRevisions, [DaemonNext]_daemonVars,
           D = Documents \/ ordered'
    PROVE  HoldsOnly(D)'
  <1>1. ASSUME StartDaemon
        PROVE  HoldsOnly(D)'
    <2>1. StartDb \in Databases /\ StartDoc \in D \cup {None}
      BY StartedIsOfKind
    <2>2. /\ revisions' \in [Databases -> Histories(D)]
          /\ lastStarted' \in [Databases -> D \cup {None}]
          /\ savedSince' \in [Databases -> 0..RevisionsKept]
      <3>1. CASE UNCHANGED <<revisions, lastStarted, savedSince>>
        BY <3>1 DEF HoldsOnly
      <3>2. CASE /\ StartDoc # None
                 /\ revisions' = [revisions EXCEPT ![StartDb] = Recorded(@, StartDoc, TRUE)]
                 /\ lastStarted' = [lastStarted EXCEPT ![StartDb] = StartDoc]
                 /\ savedSince' = [savedSince EXCEPT ![StartDb] = 0]
        <4>1. revisions[StartDb] \in Histories(D) /\ StartDoc \in D
          BY <2>1, <3>2 DEF HoldsOnly
        <4>2. Recorded(revisions[StartDb], StartDoc, TRUE) \in Histories(D)
          BY <4>1, RecordedHistories, Zenon
        <4>3. QED
          <5>1. 0 \in 0..RevisionsKept
            BY ConfigAssumption
          <5>2. QED
            BY <2>1, <3>2, <4>1, <4>2, <5>1 DEF HoldsOnly
      <3>3. QED
        BY <3>1, <3>2, <1>1 DEF StartDaemon, RecordStarted
    <2>3. /\ activeDb' \in Databases /\ view' \in Views(D)
      BY <1>1, <2>1 DEF StartDaemon, Views, HoldsOnly
    <2>4. QED
      BY <1>1, <2>2, <2>3 DEF StartDaemon, HoldsOnly
  <1>2. ASSUME StopDaemon
        PROVE  HoldsOnly(D)'
    <2>1. NoView \in Views(D) /\ Idle \in Saves(D)
      BY NoFileIsProper, ConfigAssumption DEF NoView, Views, Idle, Saves
    <2>2. save' \in [Savers -> Saves(D)]
      BY <1>2, <2>1 DEF StopDaemon, HoldsOnly
    <2>3. QED
      BY <1>2, <2>1, <2>2, ConfigAssumption DEF StopDaemon, HoldsOnly
  <1>3. ASSUME PrepareEnroll
        PROVE  HoldsOnly(D)'
    <2>1. disk \in D /\ disk.db \in Databases
      BY KindsAreDocuments DEF HoldsOnly, Documents
    <2>2. WithCloudBlock(disk) \in D
      BY <2>1, CloudBlockKeepsKind
    <2>3. enroll' \in Enrollments(D)
      BY <1>3, <2>1, <2>2 DEF PrepareEnroll, Enrollments
    <2>4. QED
      BY <1>3, <2>3 DEF PrepareEnroll, HoldsOnly
  <1>4. ASSUME SpendToken
        PROVE  HoldsOnly(D)'
    <2>1. [enroll EXCEPT !.pc = "enrolled"] \in Enrollments(D)
      BY DEF HoldsOnly, Enrollments
    <2>2. NoEnroll \in Enrollments(D)
      BY NoFileIsProper, ConfigAssumption DEF NoEnroll, Enrollments
    <2>3. enroll' \in Enrollments(D)
      BY <1>4, <2>1, <2>2 DEF SpendToken
    <2>4. tokensSpent' \in Nat
      BY <1>4 DEF SpendToken, HoldsOnly
    <2>5. QED
      BY <1>4, <2>3, <2>4 DEF SpendToken, HoldsOnly, configVars
  <1>5. ASSUME BeginCredential
        PROVE  HoldsOnly(D)'
    <2>1. enroll' \in Enrollments(D)
      BY <1>5, NoFileIsProper, ConfigAssumption
      DEF BeginCredential, Enrollments, NoEnroll, HoldsOnly
    <2>2. QED
      BY <1>5, <2>1 DEF BeginCredential, HoldsOnly, configVars
  <1>6. ASSUME EndCredential
        PROVE  HoldsOnly(D)'
    <2>1. enroll' \in Enrollments(D)
      BY <1>6, NoFileIsProper, ConfigAssumption
      DEF EndCredential, Enrollments, NoEnroll, HoldsOnly
    <2>2. QED
      BY <1>6, <2>1 DEF EndCredential, HoldsOnly, configVars
  <1>7. ASSUME SwitchConfigToCloud
        PROVE  HoldsOnly(D)'
    <2>1. enroll.doc \in D /\ enroll.db \in Databases
      BY DEF HoldsOnly, Enrollments
    <2>2. save' \in [Savers -> Saves(D)]
      BY <1>7, <2>1, BegunIsOfKind, ConfigAssumption DEF SwitchConfigToCloud
    <2>3. enroll' \in Enrollments(D)
      BY <1>7, NoFileIsProper, ConfigAssumption
      DEF SwitchConfigToCloud, Enrollments, NoEnroll
    <2>4. QED
      BY <1>7, <2>2, <2>3 DEF SwitchConfigToCloud, HoldsOnly
  <1>8. ASSUME EnrollFails
        PROVE  HoldsOnly(D)'
    <2>1. enroll' \in Enrollments(D)
      BY <1>8, NoFileIsProper, ConfigAssumption
      DEF EnrollFails, Enrollments, NoEnroll, HoldsOnly
    <2>2. QED
      BY <1>8, <2>1 DEF EnrollFails, HoldsOnly, configVars
  <1>9. ASSUME NEW p \in Savers, SaveConfig(p),
               UNCHANGED <<enroll, credential, tokensSpent, starts>>
        PROVE  HoldsOnly(D)'
    <2>1. PICK edited \in Drafts(view.doc) :
             BeginSave(p, edited, activeDb) /\ ordered' = (ordered /\ InOrder(edited))
      BY <1>9 DEF SaveConfig
    <2>2. view.doc \in Documents /\ activeDb \in Databases
      BY KindsAreDocuments DEF HoldsOnly, Views
    <2>3. edited \in Documents /\ OwnTokens(edited)
      BY <2>1, <2>2, DraftsAreDocuments
    <2>4. edited \in D
      <3>1. CASE D = Documents
        BY <2>3, <3>1
      <3>2. CASE ordered'
        <4>1. edited \in Documents /\ edited \in Proper
          BY <2>1, <2>3, <3>2, OrderedIsProper
        <4>2. QED
          BY <4>1 DEF Kinds
      <3>3. QED
        BY <3>1, <3>2
    <2>5. save' \in [Savers -> Saves(D)]
      BY <2>1, <2>2, <2>4, BegunIsOfKind
    <2>6. ordered' \in BOOLEAN
      BY <2>1 DEF HoldsOnly, InOrder
    <2>7. QED
      BY <1>9, <2>5, <2>6 DEF SaveConfig, HoldsOnly
  <1>10. ASSUME NEW p \in Savers, RestoreRevision(p),
                UNCHANGED <<enroll, credential, tokensSpent, starts>>
         PROVE  HoldsOnly(D)'
    <2>1. PICK i \in ListRecentConfigRevisions(revisions[activeDb]) :
             BeginSave(p, GetConfigRevisionYAML(revisions[activeDb], i), activeDb)
      BY <1>10 DEF RestoreRevision
    <2>2. revisions[activeDb] \in Histories(D) /\ i \in DOMAIN revisions[activeDb]
      BY <2>1 DEF HoldsOnly, ListRecentConfigRevisions
    <2>3. GetConfigRevisionYAML(revisions[activeDb], i) \in D /\ activeDb \in Databases
      <3>1. revisions[activeDb][i] \in Revision(D)
        BY <2>2 DEF Histories
      <3>2. QED
        BY <3>1 DEF GetConfigRevisionYAML, Revision, HoldsOnly
    <2>4. save' \in [Savers -> Saves(D)]
      BY <2>1, <2>3, BegunIsOfKind
    <2>5. QED
      BY <1>10, <2>4 DEF RestoreRevision, HoldsOnly
  <1>11. ASSUME NEW p \in Savers, ReplaceFile(p),
                UNCHANGED <<enroll, credential, tokensSpent, starts>>
         PROVE  HoldsOnly(D)'
    <2>1. save[p].doc \in D /\ save' \in [Savers -> Saves(D)]
      BY <1>11 DEF ReplaceFile, HoldsOnly, Saves
    <2>2. QED
      BY <1>11, <2>1 DEF ReplaceFile, HoldsOnly
  <1>12. ASSUME NEW p \in Savers, RecordSaved(p),
                UNCHANGED <<enroll, credential, tokensSpent, starts>>
         PROVE  HoldsOnly(D)'
    <2>1. /\ save' \in [Savers -> Saves(D)]
          /\ save[p].doc \in D /\ save[p].db \in Databases
      BY <1>12 DEF RecordSaved, HoldsOnly, Saves
    <2>2. revisions[save[p].db] \in Histories(D)
      BY <2>1 DEF HoldsOnly
    <2>3. Recorded(revisions[save[p].db], save[p].doc, FALSE) \in Histories(D)
      BY <2>1, <2>2, RecordedHistories, Zenon
    <2>4. revisions' \in [Databases -> Histories(D)]
      BY <1>12, <2>1, <2>3 DEF RecordSaved, HoldsOnly
    <2>5. savedSince' \in [Databases -> 0..RevisionsKept]
      BY <1>12, <2>1, ConfigAssumption DEF RecordSaved, HoldsOnly
    <2>6. QED
      BY <1>12, <2>1, <2>4, <2>5 DEF RecordSaved, HoldsOnly
  <1>13. ASSUME NEW p \in Savers, SaveFails(p),
                UNCHANGED <<enroll, credential, tokensSpent, starts>>
         PROVE  HoldsOnly(D)'
    <2>1. Idle \in Saves(D)
      BY NoFileIsProper, ConfigAssumption DEF Idle, Saves
    <2>2. QED
      BY <1>13, <2>1 DEF SaveFails, HoldsOnly
  <1>14. ASSUME NEW p \in Savers, SaveReads(p),
                UNCHANGED <<enroll, credential, tokensSpent, starts>>
         PROVE  HoldsOnly(D)'
    <2>1. save' \in [Savers -> Saves(D)]
      BY <1>14 DEF SaveReads, HoldsOnly, Saves
    <2>2. QED
      BY <1>14, <2>1 DEF SaveReads, HoldsOnly
  <1>15. ASSUME NEW p \in Savers, SavePublishes(p),
                UNCHANGED <<enroll, credential, tokensSpent, starts>>
         PROVE  HoldsOnly(D)'
    <2>1. Idle \in Saves(D)
      BY NoFileIsProper, ConfigAssumption DEF Idle, Saves
    <2>2. view' \in Views(D)
      BY <1>15 DEF SavePublishes, HoldsOnly, Saves, Views, ViewOf, SyncState
    <2>3. QED
      BY <1>15, <2>1, <2>2 DEF SavePublishes, HoldsOnly
  <1>16. ASSUME TickReads,
                UNCHANGED <<enroll, credential, tokensSpent, starts>>
         PROVE  HoldsOnly(D)'
    BY <1>16
    DEF TickReads, HoldsOnly
  <1>17. ASSUME TickPublishes,
                UNCHANGED <<enroll, credential, tokensSpent, starts>>
         PROVE  HoldsOnly(D)'
    <2>1. view' \in Views(D)
      BY <1>17 DEF TickPublishes, HoldsOnly, Views, ViewOf, SyncState
    <2>2. QED
      BY <1>17, <2>1 DEF TickPublishes, HoldsOnly
  <1>18. ASSUME EditDisk,
                UNCHANGED <<enroll, credential, tokensSpent, starts>>
         PROVE  HoldsOnly(D)'
    <2>1. disk' \in Docs \cup {NoFile} /\ ordered' = (ordered /\ InOrder(disk'))
      BY <1>18 DEF EditDisk
    <2>2. disk' \in D
      <3>1. disk' \in Documents /\ (ordered' => disk' \in Proper)
        BY <2>1, FoundDocuments
      <3>2. QED
        BY <3>1 DEF Kinds
    <2>3. ordered' \in BOOLEAN
      BY <2>1 DEF HoldsOnly, InOrder
    <2>4. QED
      BY <1>18, <2>2, <2>3 DEF EditDisk, HoldsOnly
  <1>19. CASE UNCHANGED daemonVars
    BY <1>19
    DEF daemonVars, configVars, HoldsOnly
  <1>20. QED
    BY <1>1, <1>2, <1>3, <1>4, <1>5, <1>6, <1>7, <1>8, <1>9, <1>10, <1>11, <1>12,
       <1>13, <1>14, <1>15, <1>16, <1>17, <1>18, <1>19
    DEF DaemonNext, EnrollNext, SaveNext

\* Only the start of the daemon and the save of a document touch the mark.
LEMMA MarksAreKept ==
    ASSUME DaemonTypeOK, ActiveRevisions, [DaemonNext]_daemonVars
    PROVE  ActiveRevisions'
  <1>1. ASSUME StartDaemon
        PROVE  ActiveRevisions'
    <2> DEFINE db == StartDb  doc == StartDoc
    <2>1. db \in Databases /\ doc \in Documents \cup {None}
      BY StartedIsOfKind DEF DaemonTypeOK, Kinds
    <2>2. CASE UNCHANGED <<revisions, lastStarted, savedSince>>
      BY <2>2 DEF ActiveRevisions
    <2>3. CASE /\ doc # None
               /\ revisions' = [revisions EXCEPT ![db] = Recorded(@, doc, TRUE)]
               /\ lastStarted' = [lastStarted EXCEPT ![db] = doc]
               /\ savedSince' = [savedSince EXCEPT ![db] = 0]
      <3>1. revisions[db] \in Histories(Documents) /\ doc \in Documents
        BY <2>1, <2>3 DEF DaemonTypeOK, HoldsOnly
      <3> HIDE DEF db, doc
      <3>2. OnlyStartedIsActive(Recorded(revisions[db], doc, TRUE), doc, 0)
        BY <2>3, <3>1, StartedIsActive
      <3>3. /\ revisions'[db] = Recorded(revisions[db], doc, TRUE)
            /\ lastStarted'[db] = doc /\ savedSince'[db] = 0
            /\ \A other \in Databases \ {db} :
                 /\ revisions'[other] = revisions[other]
                 /\ lastStarted'[other] = lastStarted[other]
                 /\ savedSince'[other] = savedSince[other]
        BY <2>1, <2>3 DEF DaemonTypeOK, HoldsOnly
      <3>4. QED
        BY <2>1, <3>2, <3>3 DEF ActiveRevisions
    <2>4. QED
      BY <2>2, <2>3, <1>1 DEF StartDaemon, RecordStarted
  <1>2. ASSUME StopDaemon
        PROVE  ActiveRevisions'
    BY <1>2
    DEF StopDaemon, ActiveRevisions
  <1>3. ASSUME PrepareEnroll
        PROVE  ActiveRevisions'
    BY <1>3
    DEF PrepareEnroll, ActiveRevisions
  <1>4. ASSUME SpendToken
        PROVE  ActiveRevisions'
    BY <1>4
    DEF SpendToken, configVars, ActiveRevisions
  <1>5. ASSUME BeginCredential
        PROVE  ActiveRevisions'
    BY <1>5
    DEF BeginCredential, configVars, ActiveRevisions
  <1>6. ASSUME EndCredential
        PROVE  ActiveRevisions'
    BY <1>6
    DEF EndCredential, configVars, ActiveRevisions
  <1>7. ASSUME SwitchConfigToCloud
        PROVE  ActiveRevisions'
    BY <1>7
    DEF SwitchConfigToCloud, ActiveRevisions
  <1>8. ASSUME EnrollFails
        PROVE  ActiveRevisions'
    BY <1>8
    DEF EnrollFails, configVars, ActiveRevisions
  <1>9. ASSUME NEW p \in Savers, SaveConfig(p),
               UNCHANGED <<enroll, credential, tokensSpent, starts>>
        PROVE  ActiveRevisions'
    BY <1>9
    DEF SaveConfig, ActiveRevisions
  <1>10. ASSUME NEW p \in Savers, RestoreRevision(p),
                UNCHANGED <<enroll, credential, tokensSpent, starts>>
         PROVE  ActiveRevisions'
    BY <1>10
    DEF RestoreRevision, ActiveRevisions
  <1>11. ASSUME NEW p \in Savers, ReplaceFile(p),
                UNCHANGED <<enroll, credential, tokensSpent, starts>>
         PROVE  ActiveRevisions'
    BY <1>11
    DEF ReplaceFile, ActiveRevisions
  <1>12. ASSUME NEW p \in Savers, RecordSaved(p),
                UNCHANGED <<enroll, credential, tokensSpent, starts>>
         PROVE  ActiveRevisions'
    <2> DEFINE db == save[p].db  doc == save[p].doc
               next == IF savedSince[db] < RevisionsKept THEN savedSince[db] + 1
                       ELSE savedSince[db]
    <2>1. db \in Databases /\ doc \in Documents
      BY DEF DaemonTypeOK, HoldsOnly, Saves
    <2>2. /\ revisions' = [revisions EXCEPT ![db] = Recorded(@, doc, FALSE)]
          /\ savedSince' = [savedSince EXCEPT ![db] = next]
          /\ UNCHANGED lastStarted
      BY <1>12 DEF RecordSaved
    <2> HIDE DEF db, doc
    <2>3. /\ revisions[db] \in Histories(Documents) /\ savedSince[db] \in 0..RevisionsKept
          /\ OnlyStartedIsActive(revisions[db], lastStarted[db], savedSince[db])
      BY <2>1 DEF DaemonTypeOK, HoldsOnly, ActiveRevisions
    <2>4. OnlyStartedIsActive(Recorded(revisions[db], doc, FALSE), lastStarted[db], next)
      BY <2>1, <2>3, SavedIsNotActive
    <2> HIDE DEF next
    <2>5. /\ revisions'[db] = Recorded(revisions[db], doc, FALSE)
          /\ lastStarted'[db] = lastStarted[db] /\ savedSince'[db] = next
          /\ \A other \in Databases \ {db} :
               /\ revisions'[other] = revisions[other]
               /\ lastStarted'[other] = lastStarted[other]
               /\ savedSince'[other] = savedSince[other]
      BY <2>1, <2>2 DEF DaemonTypeOK, HoldsOnly
    <2>6. QED
      BY <2>1, <2>4, <2>5 DEF ActiveRevisions
  <1>13. ASSUME NEW p \in Savers, SaveFails(p),
                UNCHANGED <<enroll, credential, tokensSpent, starts>>
         PROVE  ActiveRevisions'
    BY <1>13
    DEF SaveFails, ActiveRevisions
  <1>14. ASSUME NEW p \in Savers, SaveReads(p),
                UNCHANGED <<enroll, credential, tokensSpent, starts>>
         PROVE  ActiveRevisions'
    BY <1>14
    DEF SaveReads, ActiveRevisions
  <1>15. ASSUME NEW p \in Savers, SavePublishes(p),
                UNCHANGED <<enroll, credential, tokensSpent, starts>>
         PROVE  ActiveRevisions'
    BY <1>15
    DEF SavePublishes, ActiveRevisions
  <1>16. ASSUME TickReads,
                UNCHANGED <<enroll, credential, tokensSpent, starts>>
         PROVE  ActiveRevisions'
    BY <1>16
    DEF TickReads, ActiveRevisions
  <1>17. ASSUME TickPublishes,
                UNCHANGED <<enroll, credential, tokensSpent, starts>>
         PROVE  ActiveRevisions'
    BY <1>17
    DEF TickPublishes, ActiveRevisions
  <1>18. ASSUME EditDisk,
                UNCHANGED <<enroll, credential, tokensSpent, starts>>
         PROVE  ActiveRevisions'
    BY <1>18
    DEF EditDisk, ActiveRevisions
  <1>19. CASE UNCHANGED daemonVars
    BY <1>19
    DEF daemonVars, configVars, ActiveRevisions
  <1>20. QED
    BY <1>1, <1>2, <1>3, <1>4, <1>5, <1>6, <1>7, <1>8, <1>9, <1>10, <1>11, <1>12,
       <1>13, <1>14, <1>15, <1>16, <1>17, <1>18, <1>19
    DEF DaemonNext, EnrollNext, SaveNext

\* A new daemon finds an empty database and a file in order, or none.
LEMMA DaemonStarts == DaemonInit => DaemonTypeOK /\ ActiveRevisions
  <1> SUFFICES ASSUME DaemonInit PROVE DaemonTypeOK /\ ActiveRevisions
    OBVIOUS
  <1>1. /\ NoFile \in Documents /\ Docs \cup {NoFile} \subseteq Documents
        /\ DefaultDb \in Databases /\ RevisionsKept \in Nat
    BY FoundDocuments, ConfigAssumption
  <1>2. /\ NoView \in Views(Documents) /\ Idle \in Saves(Documents) /\ NoEnroll \in Enrollments(Documents)
        /\ <<>> \in Histories(Documents) /\ 0 \in 0..RevisionsKept
    BY <1>1 DEF NoView, Views, Idle, Saves, NoEnroll, Enrollments, Histories
  <1>3. DaemonTypeOK
    BY <1>1, <1>2 DEF DaemonInit, DaemonTypeOK, HoldsOnly, InOrder
  <1>4. OnlyStartedIsActive(<<>>, None, 0)
    BY DEF OnlyStartedIsActive
  <1>5. ActiveRevisions
    BY <1>4 DEF DaemonInit, ActiveRevisions
  <1>6. QED
    BY <1>3, <1>5

(* Every state has its types, and of the revisions of a database at most   *)
(* one is marked active: the one whose document last started.              *)
THEOREM DaemonTypes == DaemonSpec => [](DaemonTypeOK /\ ActiveRevisions)
  <1>1. DaemonTypeOK /\ ActiveRevisions /\ [DaemonNext]_daemonVars
          => (DaemonTypeOK /\ ActiveRevisions)'
    BY KindIsKept, MarksAreKept DEF DaemonTypeOK, Kinds
  <1>2. QED
    BY <1>1, DaemonStarts, PTL DEF DaemonSpec

(* What recovery finds in a database is the document last recorded as      *)
(* started there, until that many documents were saved since as revisions  *)
(* are kept; a document that was only saved is never recovered.            *)
THEOREM RecoveryIsExact == DaemonSpec => []RecoveryFindsLastStarted
  <1>1. DaemonTypeOK /\ ActiveRevisions => RecoveryFindsLastStarted
    <2> SUFFICES ASSUME DaemonTypeOK, ActiveRevisions, NEW db \in Databases
                 PROVE  LastActive(revisions[db]) =
                          IF savedSince[db] >= RevisionsKept THEN None ELSE lastStarted[db]
      BY DEF RecoveryFindsLastStarted
    <2>1. /\ revisions[db] \in Histories(Documents) /\ savedSince[db] \in Nat
          /\ OnlyStartedIsActive(revisions[db], lastStarted[db], savedSince[db])
      BY ConfigAssumption DEF DaemonTypeOK, HoldsOnly, ActiveRevisions
    <2>2. QED
      BY <2>1, LastActiveIsStarted
  <1>2. QED
    BY <1>1, DaemonTypes, PTL

\* Once a document was typed out of order, the history remembers it.
LEMMA OrderIsLostForGood ==
    ASSUME [DaemonNext]_daemonVars, ordered'
    PROVE  ordered
  <1>1. ASSUME NEW p \in Savers, SaveConfig(p) \/ RestoreRevision(p)
        PROVE  ordered
    BY <1>1 DEF SaveConfig, RestoreRevision
  <1>2. ASSUME NEW p \in Savers,
               ReplaceFile(p) \/ RecordSaved(p) \/ SaveFails(p) \/ SaveReads(p) \/ SavePublishes(p)
        PROVE  ordered
    BY <1>2 DEF ReplaceFile, RecordSaved, SaveFails, SaveReads, SavePublishes
  <1>3. ASSUME EnrollNext PROVE ordered
    BY <1>3
    DEF EnrollNext, PrepareEnroll, SpendToken, BeginCredential, EndCredential,
        SwitchConfigToCloud, EnrollFails, configVars
  <1>4. ASSUME StartDaemon \/ StopDaemon \/ TickReads \/ TickPublishes \/ EditDisk
        PROVE  ordered
    BY <1>4 DEF StartDaemon, StopDaemon, TickReads, TickPublishes, EditDisk
  <1>5. CASE UNCHANGED daemonVars
    BY <1>5 DEF daemonVars, configVars
  <1>6. QED
    BY <1>1, <1>2, <1>3, <1>4, <1>5 DEF DaemonNext, SaveNext

(* As long as every document that is typed by hand or in the editor lists  *)
(* the orgs in the one order, no save, restore, edit or enrollment gives   *)
(* an org the token of another: all the documents that the file, the       *)
(* revisions, the savers, the ticker, the view and enroll hold are proper, *)
(* and the merge by place keeps them so.                                   *)
THEOREM OrderedTokensAreKept == DaemonSpec => []OrderedTokensStay
  <1> DEFINE Inv == ordered => HoldsOnly(Proper)
  <1>1. DaemonInit => Inv
    <2> SUFFICES ASSUME DaemonInit, ordered PROVE HoldsOnly(Proper)
      OBVIOUS
    <2>1. /\ disk \in Proper /\ NoFile \in Proper
          /\ DefaultDb \in Databases /\ RevisionsKept \in Nat
      BY NoFileIsProper, FoundDocuments, ConfigAssumption DEF DaemonInit, Kinds
    <2>2. /\ NoView \in Views(Proper) /\ Idle \in Saves(Proper)
          /\ NoEnroll \in Enrollments(Proper)
          /\ <<>> \in Histories(Proper) /\ 0 \in 0..RevisionsKept
      BY <2>1 DEF NoView, Views, Idle, Saves, NoEnroll, Enrollments, Histories
    <2>3. QED
      BY <2>1, <2>2 DEF DaemonInit, HoldsOnly, InOrder
  <1>2. Inv /\ DaemonTypeOK /\ ActiveRevisions /\ [DaemonNext]_daemonVars => Inv'
    <2> SUFFICES ASSUME Inv, DaemonTypeOK, ActiveRevisions, [DaemonNext]_daemonVars, ordered'
                 PROVE  HoldsOnly(Proper)'
      OBVIOUS
    <2>1. ordered
      BY OrderIsLostForGood
    <2>2. HoldsOnly(Proper) /\ Proper \in Kinds
      BY <2>1 DEF Kinds
    <2>3. QED
      BY <2>2, KindIsKept
  <1>3. Inv => OrderedTokensStay
    <2> SUFFICES ASSUME disk \in Proper PROVE OwnTokens(disk)
      BY DEF HoldsOnly, OrderedTokensStay
    <2>1. disk.orgs \in Listings
      BY DEF Proper
    <2>2. QED
      BY <2>1 DEF Listings, OwnTokens
  <1> HIDE DEF Inv
  <1>4. QED
    BY <1>1, <1>2, <1>3, DaemonTypes, PTL DEF DaemonSpec

-----------------------------------------------------------------------------
(* The credential of an enrollment *)

\* What an enrollment has to show for the tokens it spent.
CredentialStands == credential = "whole" \/ (credential = "cut" /\ tokensSpent > 1)

\* A token is spent before a credential is written, a second one before it is written
\* again, and the config is switched only with the credential on disk.
EnrollmentIsInOrder ==
    /\ credential # "none" => tokensSpent >= 1
    /\ enroll.pc \in {"enrolled", "writing", "stored"} => tokensSpent >= 1
    /\ enroll.pc = "enrolled" /\ credential # "none" => tokensSpent >= 2
    /\ enroll.pc = "writing" => credential = "cut"
    /\ enroll.pc = "stored" => credential = "whole"
    /\ save[EnrollCommand].pc # "idle" => CredentialStands

\* Every step of enroll, of the savers and of the daemon keeps the order of an enrollment:
\* token, credential, config.
LEMMA OrderIsKept ==
    ASSUME DaemonTypeOK, EnrollmentIsInOrder, CloudConfigHasCredential,
           [DaemonNext]_daemonVars
    PROVE  (EnrollmentIsInOrder /\ CloudConfigHasCredential)'
  <1>1. ASSUME StartDaemon
        PROVE  (EnrollmentIsInOrder /\ CloudConfigHasCredential)'
    BY <1>1, ConfigAssumption
    DEF StartDaemon, EnrollmentIsInOrder, CloudConfigHasCredential, CredentialStands,
        DaemonTypeOK, HoldsOnly
  <1>2. ASSUME StopDaemon
        PROVE  (EnrollmentIsInOrder /\ CloudConfigHasCredential)'
    <2>1. save'[EnrollCommand] = save[EnrollCommand]
      BY <1>2, ConfigAssumption DEF StopDaemon
    <2>2. QED
      BY <1>2, <2>1 DEF StopDaemon, EnrollmentIsInOrder, CloudConfigHasCredential,
                      CredentialStands
  <1>3. ASSUME PrepareEnroll
        PROVE  (EnrollmentIsInOrder /\ CloudConfigHasCredential)'
    BY <1>3, ConfigAssumption
    DEF PrepareEnroll, EnrollmentIsInOrder, CloudConfigHasCredential,
        CredentialStands, DaemonTypeOK, HoldsOnly
  <1>4. ASSUME SpendToken
        PROVE  (EnrollmentIsInOrder /\ CloudConfigHasCredential)'
    BY <1>4, ConfigAssumption
    DEF SpendToken, configVars, NoEnroll, Enrollments, EnrollmentIsInOrder,
        CloudConfigHasCredential, CredentialStands, DaemonTypeOK, HoldsOnly
  <1>5. ASSUME BeginCredential
        PROVE  (EnrollmentIsInOrder /\ CloudConfigHasCredential)'
    BY <1>5, ConfigAssumption
    DEF BeginCredential, configVars, NoEnroll, Enrollments, EnrollmentIsInOrder,
        CloudConfigHasCredential, CredentialStands, DaemonTypeOK, HoldsOnly
  <1>6. ASSUME EndCredential
        PROVE  (EnrollmentIsInOrder /\ CloudConfigHasCredential)'
    BY <1>6, ConfigAssumption
    DEF EndCredential, configVars, NoEnroll, Enrollments, EnrollmentIsInOrder,
        CloudConfigHasCredential, CredentialStands, DaemonTypeOK, HoldsOnly
  <1>7. ASSUME SwitchConfigToCloud
        PROVE  (EnrollmentIsInOrder /\ CloudConfigHasCredential)'
    BY <1>7, ConfigAssumption
    DEF SwitchConfigToCloud, BeginSave, NoEnroll, EnrollmentIsInOrder,
        CloudConfigHasCredential, CredentialStands, DaemonTypeOK, HoldsOnly
  <1>8. ASSUME EnrollFails
        PROVE  (EnrollmentIsInOrder /\ CloudConfigHasCredential)'
    BY <1>8, ConfigAssumption
    DEF EnrollFails, configVars, NoEnroll, EnrollmentIsInOrder,
        CloudConfigHasCredential, CredentialStands, DaemonTypeOK, HoldsOnly
  <1>9. ASSUME NEW p \in Savers, SaveConfig(p),
               UNCHANGED <<enroll, credential, tokensSpent, starts>>
        PROVE  (EnrollmentIsInOrder /\ CloudConfigHasCredential)'
    <2>1. PICK edited : BeginSave(p, edited, activeDb)
      BY <1>9 DEF SaveConfig
    <2>2. save'[EnrollCommand] = save[EnrollCommand]
      BY <1>9, <2>1, ConfigAssumption DEF SaveConfig, BeginSave, DaemonTypeOK, HoldsOnly
    <2>3. QED
      BY <1>9, <2>2 DEF SaveConfig, EnrollmentIsInOrder, CloudConfigHasCredential,
                      CredentialStands
  <1>10. ASSUME NEW p \in Savers, RestoreRevision(p),
                UNCHANGED <<enroll, credential, tokensSpent, starts>>
         PROVE  (EnrollmentIsInOrder /\ CloudConfigHasCredential)'
    <2>1. PICK i : BeginSave(p, GetConfigRevisionYAML(revisions[activeDb], i), activeDb)
      BY <1>10 DEF RestoreRevision
    <2>2. save'[EnrollCommand] = save[EnrollCommand]
      BY <1>10, <2>1, ConfigAssumption DEF RestoreRevision, BeginSave, DaemonTypeOK, HoldsOnly
    <2>3. QED
      BY <1>10, <2>2 DEF RestoreRevision, EnrollmentIsInOrder, CloudConfigHasCredential,
                      CredentialStands
  <1>11. ASSUME NEW p \in Savers, ReplaceFile(p),
                UNCHANGED <<enroll, credential, tokensSpent, starts>>
         PROVE  (EnrollmentIsInOrder /\ CloudConfigHasCredential)'
    <2>1. save[EnrollCommand].pc = "idle" => save'[EnrollCommand].pc = "idle"
      BY <1>11, ConfigAssumption DEF ReplaceFile, DaemonTypeOK, HoldsOnly
    <2>2. diskBy' = EnrollCommand => CredentialStands
      BY <1>11 DEF ReplaceFile, EnrollmentIsInOrder
    <2>3. QED
      BY <1>11, <2>1, <2>2 DEF ReplaceFile, EnrollmentIsInOrder, CloudConfigHasCredential,
                            CredentialStands
  <1>12. ASSUME NEW p \in Savers, RecordSaved(p),
                UNCHANGED <<enroll, credential, tokensSpent, starts>>
         PROVE  (EnrollmentIsInOrder /\ CloudConfigHasCredential)'
    <2>1. save[EnrollCommand].pc = "idle" => save'[EnrollCommand].pc = "idle"
      BY <1>12, ConfigAssumption DEF RecordSaved, DaemonTypeOK, HoldsOnly
    <2>2. QED
      BY <1>12, <2>1 DEF RecordSaved, EnrollmentIsInOrder, CloudConfigHasCredential,
                      CredentialStands
  <1>13. ASSUME NEW p \in Savers, SaveFails(p),
                UNCHANGED <<enroll, credential, tokensSpent, starts>>
         PROVE  (EnrollmentIsInOrder /\ CloudConfigHasCredential)'
    <2>1. save[EnrollCommand].pc = "idle" => save'[EnrollCommand].pc = "idle"
      BY <1>13, ConfigAssumption DEF SaveFails, Idle, DaemonTypeOK, HoldsOnly
    <2>2. QED
      BY <1>13, <2>1 DEF SaveFails, EnrollmentIsInOrder, CloudConfigHasCredential,
                      CredentialStands
  <1>14. ASSUME NEW p \in Savers, SaveReads(p),
                UNCHANGED <<enroll, credential, tokensSpent, starts>>
         PROVE  (EnrollmentIsInOrder /\ CloudConfigHasCredential)'
    <2>1. save[EnrollCommand].pc = "idle" => save'[EnrollCommand].pc = "idle"
      BY <1>14, ConfigAssumption DEF SaveReads, DaemonTypeOK, HoldsOnly
    <2>2. QED
      BY <1>14, <2>1 DEF SaveReads, EnrollmentIsInOrder, CloudConfigHasCredential,
                      CredentialStands
  <1>15. ASSUME NEW p \in Savers, SavePublishes(p),
                UNCHANGED <<enroll, credential, tokensSpent, starts>>
         PROVE  (EnrollmentIsInOrder /\ CloudConfigHasCredential)'
    <2>1. save[EnrollCommand].pc = "idle" => save'[EnrollCommand].pc = "idle"
      BY <1>15, ConfigAssumption DEF SavePublishes, Idle, DaemonTypeOK, HoldsOnly
    <2>2. QED
      BY <1>15, <2>1 DEF SavePublishes, EnrollmentIsInOrder, CloudConfigHasCredential,
                      CredentialStands
  <1>16. ASSUME TickReads,
                UNCHANGED <<enroll, credential, tokensSpent, starts>>
         PROVE  (EnrollmentIsInOrder /\ CloudConfigHasCredential)'
    BY <1>16, ConfigAssumption
    DEF TickReads, EnrollmentIsInOrder, CloudConfigHasCredential, CredentialStands,
        DaemonTypeOK, HoldsOnly
  <1>17. ASSUME TickPublishes,
                UNCHANGED <<enroll, credential, tokensSpent, starts>>
         PROVE  (EnrollmentIsInOrder /\ CloudConfigHasCredential)'
    BY <1>17, ConfigAssumption
    DEF TickPublishes, EnrollmentIsInOrder, CloudConfigHasCredential,
        CredentialStands, DaemonTypeOK, HoldsOnly
  <1>18. ASSUME EditDisk,
                UNCHANGED <<enroll, credential, tokensSpent, starts>>
         PROVE  (EnrollmentIsInOrder /\ CloudConfigHasCredential)'
    <2>1. diskBy' # EnrollCommand
      BY <1>18, ConfigAssumption DEF EditDisk
    <2>2. QED
      BY <1>18, <2>1 DEF EditDisk, EnrollmentIsInOrder, CloudConfigHasCredential,
                      CredentialStands
  <1>19. CASE UNCHANGED daemonVars
    BY <1>19
    DEF daemonVars, configVars, EnrollmentIsInOrder, CloudConfigHasCredential,
        CredentialStands, DaemonTypeOK, HoldsOnly
  <1>20. QED
    BY <1>1, <1>2, <1>3, <1>4, <1>5, <1>6, <1>7, <1>8, <1>9, <1>10, <1>11, <1>12,
       <1>13, <1>14, <1>15, <1>16, <1>17, <1>18, <1>19
    DEF DaemonNext, EnrollNext, SaveNext

(* A config that enroll switched to cloud finds its credential: whole, or  *)
(* cut short by the second of two enrollments.                             *)
THEOREM CloudFindsCredential == DaemonSpec => []CloudConfigHasCredential
  <1> DEFINE Inv == EnrollmentIsInOrder /\ CloudConfigHasCredential
  <1>1. DaemonInit => Inv
    BY ConfigAssumption
    DEF DaemonInit, EnrollmentIsInOrder, CloudConfigHasCredential, NoEnroll, Idle
  <1>2. Inv /\ DaemonTypeOK /\ [DaemonNext]_daemonVars => Inv'
    BY OrderIsKept
  <1>3. Inv => CloudConfigHasCredential
    OBVIOUS
  <1> HIDE DEF Inv
  <1>4. QED
    BY <1>1, <1>2, <1>3, DaemonTypes, PTL DEF DaemonSpec

-----------------------------------------------------------------------------
(* The two validators (ConfigCheck) *)

Fields == {"orgs", "repos", "cloud", "idle", "level", "addr", "origin", "credentials",
           "methods", "headers", "maxAge", "dbPath", "logPath"}

\* The editor changes the fields of a document and adds none.
IsDraft(c) == c = [f \in Fields |-> c[f]]

\* Load fills in the reap time and the level, LOG_LEVEL replaces the level, and nothing else
\* changes.
LEMMA LoadChangesTwoFields ==
    ASSUME NEW c, IsDraft(c), NEW env
    PROVE  LET d == WithDefaults(c)
               r == Loaded(c, env)
           IN  /\ r.orgs = d.orgs /\ r.repos = d.repos /\ r.cloud = d.cloud
               /\ r.idle = d.idle /\ r.origin = d.origin /\ r.credentials = d.credentials
               /\ r.level = IF env = "" THEN d.level ELSE env
  <1> DEFINE d == WithDefaults(c)
             r == Loaded(c, env)
             level == IF env = "" THEN d.level ELSE env
  <1>1. d = [f \in Fields |-> d[f]]
    BY DEF IsDraft, WithDefaults, Fields
  <1>2. r = [d EXCEPT !.level = level]
    BY DEF Loaded
  <1> HIDE DEF d, r, level
  <1>3. r.orgs = d.orgs /\ r.repos = d.repos /\ r.cloud = d.cloud
    BY <1>1, <1>2 DEF Fields
  <1>4. r.idle = d.idle /\ r.origin = d.origin /\ r.credentials = d.credentials
    BY <1>1, <1>2 DEF Fields
  <1>5. r.level = level
    BY <1>1, <1>2 DEF Fields
  <1>6. QED
    BY <1>3, <1>4, <1>5 DEF d, r, level

\* The rules of Config.Validate for an organization or a repository are among those of
\* ValidateYAML, which are stricter on names, empty words and numbers.
LEMMA AcceptedTargetIsValid ==
    ASSUME NEW target, TargetAccepted(target), NEW words, "good" \in words
    PROVE  TargetValid(target, words)
  <1>1. AuthValid(target.auth)
    BY DEF TargetAccepted, AuthAccepted, AuthValid
  <1>2. ASSUME NEW i \in DOMAIN target.sets
        PROVE  SetValid(target.sets[i])
    <2>1. SetAccepted(target.sets[i])
      BY DEF TargetAccepted
    <2>2. /\ target.sets[i].name # "" /\ target.sets[i].backend \in {"docker", "tart"}
          /\ target.sets[i].max \in 1..1000 /\ RuntimeFits(target.sets[i])
      BY <2>1, Zenon DEF SetAccepted
    <2>3. target.sets[i].max > 0
      <3>1. target.sets[i].max \in 1..1000
        BY <2>2
      <3>2. \A n \in 1..1000 : n > 0
        OBVIOUS
      <3>3. QED
        BY <3>1, <3>2, ZenonT(30)
    <2>4. QED
      BY <2>2, <2>3, Zenon DEF SetValid
  <1>3. QED
    BY <1>1, <1>2 DEF TargetAccepted, TargetValid

\* What ValidateYAML lets through, Config.Validate lets through (validation.go:67,
\* config.go:179).
LEMMA AcceptedIsValid ==
    ASSUME NEW c, IsDraft(c), NEW env, env # "noise", AcceptedYAML(c)
    PROVE  Valid(Loaded(c, env))
  <1> DEFINE d == WithDefaults(c)
             r == Loaded(c, env)
  <1>1. Accepted(d)
    BY DEF AcceptedYAML
  <1>2. /\ r.orgs = d.orgs /\ r.repos = d.repos /\ r.cloud = d.cloud /\ r.idle = d.idle
        /\ r.origin = d.origin /\ r.credentials = d.credentials
        /\ r.level = IF env = "" THEN d.level ELSE env
    BY LoadChangesTwoFields, ZenonT(30)
  <1> HIDE DEF d, r
  <1>3. d.idle \in 1..LongestIdle /\ d.level # "noise"
    BY <1>1, Zenon DEF Accepted
  <1>4. /\ ModeChosenOnce(d) /\ CorsAccepted(d) /\ NamesUnique(d)
        /\ \A i \in DOMAIN d.orgs : TargetAccepted(d.orgs[i])
        /\ \A i \in DOMAIN d.repos : TargetAccepted(d.repos[i])
    BY <1>1, Zenon DEF Accepted
  <1>5. ModeChosenOnce(r)
    <2>1. r.orgs = d.orgs /\ r.repos = d.repos /\ r.cloud = d.cloud
      BY <1>2, Zenon
    <2>2. ModeChosenOnce(d)
      BY <1>4, Zenon
    <2>3. QED
      BY <2>1, <2>2 DEF ModeChosenOnce, HasTargets
  <1>6. r.idle > 0 /\ r.level # "noise"
    <2>1. d.idle \in 1..LongestIdle /\ r.idle = d.idle
      BY <1>2, <1>3, Zenon
    <2>2. \A n \in 1..LongestIdle : n > 0
      BY DEF LongestIdle
    <2>3. r.idle > 0
      BY <2>1, <2>2, Zenon
    <2>4. r.level # "noise"
      <3>1. d.level # "noise" /\ r.level = IF env = "" THEN d.level ELSE env
        BY <1>2, <1>3, Zenon
      <3>2. QED
        BY <3>1
    <2>5. QED
      BY <2>3, <2>4
  <1>7. CredentialsNeedOrigin(r)
    <2>1. CredentialsNeedOrigin(d)
      <3>1. CorsAccepted(d)
        BY <1>4, Zenon
      <3>2. QED
        BY <3>1, Zenon DEF CorsAccepted
    <2>2. r.credentials = d.credentials /\ r.origin = d.origin
      BY <1>2, Zenon
    <2>3. QED
      BY <2>1, <2>2 DEF CredentialsNeedOrigin, Credentials
  <1>8. /\ \A i \in DOMAIN r.orgs : TargetValid(r.orgs[i], {"good", "odd", "noSlash"})
        /\ \A i \in DOMAIN r.repos : TargetValid(r.repos[i], {"good", "odd"})
    <2>1. "good" \in {"good", "odd", "noSlash"} /\ "good" \in {"good", "odd"}
      OBVIOUS
    <2>2. \A i \in DOMAIN d.orgs : TargetValid(d.orgs[i], {"good", "odd", "noSlash"})
      BY <1>4, <2>1, AcceptedTargetIsValid, Zenon
    <2>3. \A i \in DOMAIN d.repos : TargetValid(d.repos[i], {"good", "odd"})
      BY <1>4, <2>1, AcceptedTargetIsValid, Zenon
    <2>4. QED
      BY <1>2, <2>2, <2>3, Zenon
  <1>9. IsInjective(SetNames(r))
    <2>1. SetNames(r) = SetNames(d)
      BY <1>2 DEF SetNames
    <2>2. QED
      BY <1>4, <2>1, Zenon DEF NamesUnique
  <1>10. Valid(r)
    BY <1>5, <1>6, <1>7, <1>8, <1>9, Zenon DEF Valid
  <1>11. QED
    BY <1>10 DEF r

\* Editing a field leaves a document with the same fields.
LEMMA EditKeepsFields ==
    ASSUME NEW c, IsDraft(c)
    PROVE  /\ \A d \in ScalarEdits(c) : IsDraft(d)
           /\ \A v : IsDraft([c EXCEPT !.orgs = v]) /\ IsDraft([c EXCEPT !.repos = v])
           /\ \A v : IsDraft([c EXCEPT !.cloud = v])
  <1>1. ASSUME NEW f \in Fields, NEW v
        PROVE  IsDraft([c EXCEPT ![f] = v])
    BY DEF IsDraft, Fields
  <1>2. DOMAIN FieldWords \subseteq Fields
    BY DEF FieldWords, Fields
  <1>3. \A d \in ScalarEdits(c) : IsDraft(d)
    <2> SUFFICES ASSUME NEW d \in ScalarEdits(c)
                 PROVE  IsDraft(d)
      OBVIOUS
    <2>1. PICK f \in DOMAIN FieldWords : \E v \in FieldWords[f] : d = [c EXCEPT ![f] = v]
      BY Zenon DEF ScalarEdits
    <2>2. QED
      BY <1>1, <1>2, <2>1, Zenon
  <1>4. ASSUME NEW v
        PROVE  IsDraft([c EXCEPT !.orgs = v]) /\ IsDraft([c EXCEPT !.repos = v])
    BY DEF IsDraft, Fields
  <1>5. ASSUME NEW v
        PROVE  IsDraft([c EXCEPT !.cloud = v])
    BY DEF IsDraft, Fields
  <1>6. QED
    BY <1>3, <1>4, <1>5

\* Whatever an admin edits, and however many fields: a document that may be saved, and that
\* viper decodes as yaml.v3 does, is one the daemon starts on, as long as LOG_LEVEL is a log
\* level (config.go:179).
THEOREM DecodableConfigsStart == CheckSpec => []DecodableConfigStarts
  <1>1. CheckInit => IsDraft(draft)
    <2>1. IsDraft(Blank)
      BY DEF IsDraft, Blank, Fields
    <2>2. IsDraft([Blank EXCEPT !.cloud = {CloudBlock}])
      BY <2>1, EditKeepsFields, Zenon
    <2>3. IsDraft([Blank EXCEPT !.orgs = <<OneTarget("a")>>])
      BY <2>1, EditKeepsFields, Zenon
    <2>4. QED
      BY <2>1, <2>2, <2>3, Zenon DEF CheckInit
  <1>2. IsDraft(draft) /\ [CheckNext]_checkVars => IsDraft(draft)'
    <2> SUFFICES ASSUME IsDraft(draft), [CheckNext]_checkVars
                 PROVE  IsDraft(draft')
      OBVIOUS
    <2>1. CASE UNCHANGED checkVars
      BY <2>1 DEF checkVars
    <2>2. CASE CheckNext
      BY <2>2, EditKeepsFields, ZenonT(30) DEF CheckNext, EditField
    <2>3. QED
      BY <2>1, <2>2
  <1>3. IsDraft(draft) => DecodableConfigStarts
    BY AcceptedIsValid DEF DecodableConfigStarts, StartsOn
  <1>4. QED
    BY <1>1, <1>2, <1>3, PTL DEF CheckSpec
=============================================================================
