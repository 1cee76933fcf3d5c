------------------------- MODULE HostHistoryProofs -------------------------
(***************************************************************************)
(* What holds of the host's samples for every length of a minute, every    *)
(* retention and every run of the clock.                                   *)
(***************************************************************************)
EXTENDS HostHistory, TLAPS

-----------------------------------------------------------------------------
(* What MinutesAreComplete rests on *)

HostTypeOK ==
    /\ slot \in Nat
    /\ raw \subseteq recorded
    /\ recorded \subseteq 0..(slot - 1)
    /\ minutes \subseteq [minute : Int, of : SUBSET Nat]

\* Every sample still within the retention is there.
YoungRawKept == \A s \in recorded : s >= RawCutoff => s \in raw

\* A minute is summed up when it is over.
MinutesAreOver == \A m \in minutes : m.minute * PerMinute + PerMinute <= slot

HostInv == HostTypeOK /\ YoungRawKept /\ MinutesAreOver /\ MinutesAreComplete

-----------------------------------------------------------------------------

\* The clock stands in its minute.
LEMMA MinuteOfSlot ==
    ASSUME NEW s \in Nat
    PROVE  /\ MinuteOf(s) \in Nat
           /\ MinuteOf(s) * PerMinute <= s
           /\ s < MinuteOf(s) * PerMinute + PerMinute
  BY HostAssumption DEF MinuteOf

\* The minute before the clock's is over, and all of its slots are within the
\* retention.
LEMMA LastMinute ==
    ASSUME NEW s \in Nat
    PROVE  LET m == MinuteOf(s) - 1
           IN  /\ m \in Int
               /\ m * PerMinute + PerMinute <= s
               /\ m * PerMinute > s - RawKept
               /\ m * PerMinute \in Int
  <1> DEFINE k == MinuteOf(s) * PerMinute
  <1>1. k \in Nat /\ k <= s /\ s < k + PerMinute
    BY MinuteOfSlot, HostAssumption
  <1>2. (MinuteOf(s) - 1) * PerMinute = k - PerMinute
    BY MinuteOfSlot, HostAssumption
  <1>3. QED
    BY <1>1, <1>2, MinuteOfSlot, HostAssumption

\* What RollupHostMinute makes of the rows, when all young ones are there.
LEMMA RollupIsComplete ==
    ASSUME HostInv, slot' = slot + 1, recorded' = recorded \union {slot}
    PROVE  LET rolled == RollupHostMinute(raw \union {slot})
           IN  /\ rolled \subseteq [minute : Int, of : SUBSET Nat]
               /\ \A m \in rolled : /\ m.minute * PerMinute + PerMinute <= slot
                                    /\ m.of = recorded' \intersect SlotsOf(m.minute)
  <1> DEFINE last == MinuteOf(slot) - 1
             of == (raw \union {slot}) \intersect SlotsOf(last)
  <1>1. /\ slot \in Nat /\ last \in Int /\ last * PerMinute \in Int
        /\ last * PerMinute + PerMinute <= slot
        /\ last * PerMinute > slot - RawKept
    BY LastMinute DEF HostInv, HostTypeOK
  <1>2. of = recorded' \intersect SlotsOf(last)
    <2>1. \A s \in SlotsOf(last) : s \in Int /\ s > slot - RawKept
      BY <1>1, HostAssumption DEF SlotsOf
    <2>2. \A s \in recorded \intersect SlotsOf(last) : s \in raw
      BY <1>1, <2>1, HostAssumption DEF HostInv, YoungRawKept, RawCutoff
    <2>3. QED
      BY <2>2 DEF HostInv, HostTypeOK
  <1>3. of \in SUBSET Nat
    <2>1. slot \in Nat /\ raw \subseteq 0..(slot - 1)
      BY DEF HostInv, HostTypeOK
    <2>2. raw \union {slot} \subseteq Nat
      BY <2>1
    <2>3. QED
      BY <2>2
  <1>4. \A m \in minutes : m.of = recorded' \intersect SlotsOf(m.minute)
    <2> TAKE m \in minutes
    <2>1. m.minute \in Int /\ m.minute * PerMinute + PerMinute <= slot
      BY DEF HostInv, HostTypeOK, MinutesAreOver
    <2>2. slot \notin SlotsOf(m.minute)
      <3>1. m.minute * PerMinute \in Int
        BY <2>1, HostAssumption
      <3>2. QED
        BY <1>1, <2>1, <3>1, HostAssumption DEF SlotsOf
    <2>3. QED
      BY <2>2 DEF HostInv, MinutesAreComplete
  <1>5. CASE of = {}
    BY <1>4, <1>5 DEF RollupHostMinute, RollupMinute, HostInv, HostTypeOK, MinutesAreOver
  <1>6. CASE of # {}
    <2>1. RollupHostMinute(raw \union {slot})
              = {m \in minutes : m.minute # last} \union {[minute |-> last, of |-> of]}
      BY <1>6 DEF RollupHostMinute, RollupMinute
    <2> HIDE DEF last, of
    <2>2. [minute |-> last, of |-> of] \in [minute : Int, of : SUBSET Nat]
      BY <1>1, <1>3
    <2> DEFINE kept == {m \in minutes : m.minute # last}
               row == [minute |-> last, of |-> of]
    <2>3. /\ kept \subseteq [minute : Int, of : SUBSET Nat]
          /\ \A m \in kept : /\ m.minute * PerMinute + PerMinute <= slot
                             /\ m.of = recorded' \intersect SlotsOf(m.minute)
      BY <1>4 DEF HostInv, HostTypeOK, MinutesAreOver
    <2>4. /\ row.minute * PerMinute + PerMinute <= slot
          /\ row.of = recorded' \intersect SlotsOf(row.minute)
      BY <1>1, <1>2
    <2> HIDE DEF kept, row
    <2>5. RollupHostMinute(raw \union {slot}) = kept \union {row}
      BY <2>1 DEF kept, row
    <2>6. row \in [minute : Int, of : SUBSET Nat]
      BY <2>2 DEF row
    <2>7. QED
      BY <2>3, <2>4, <2>5, <2>6
  <1>7. QED
    BY <1>5, <1>6

\* However count and clock have drifted apart, what has been summed up was over, and all
\* of it was there.
LEMMA HostInvariant == HostSpec => []HostInv
  <1>1. HostInit => HostInv
    BY HostAssumption
    DEF HostInit, HostInv, HostTypeOK, YoungRawKept, MinutesAreOver, MinutesAreComplete
  <1>2. HostInv /\ [HostNext]_hostVars => HostInv'
    <2> SUFFICES ASSUME HostInv, [HostNext]_hostVars PROVE HostInv'
      OBVIOUS
    <2>1. CASE RecordHostVitals
      <3> DEFINE stored == raw \union {slot}
                 rolled == RollupHostMinute(stored)
      <3>1. slot' = slot + 1 /\ recorded' = recorded \union {slot}
        BY <2>1 DEF RecordHostVitals
      <3>2. /\ minutes' \subseteq minutes \union rolled
            /\ raw' \in {stored, KeptRaw(stored, RawCutoff)}
        BY <2>1
        DEF RecordHostVitals, InsertRawHostSample, KeptMinutes
      <3>3. HostTypeOK'
        <4>1. raw' \subseteq stored
          BY <3>2 DEF KeptRaw
        <4>2. slot' \in Nat /\ raw' \subseteq recorded' /\ recorded' \subseteq 0..(slot' - 1)
          BY <3>1, <4>1 DEF HostInv, HostTypeOK
        <4>3. rolled \subseteq [minute : Int, of : SUBSET Nat]
          BY <3>1, RollupIsComplete
        <4>4. minutes' \subseteq [minute : Int, of : SUBSET Nat]
          BY <3>2, <4>3 DEF HostInv, HostTypeOK
        <4>5. QED
          BY <4>2, <4>4 DEF HostTypeOK
      <3>4. YoungRawKept'
        BY <3>1, <3>2, HostAssumption
        DEF HostInv, HostTypeOK, YoungRawKept, RawCutoff, KeptRaw
      <3>5. MinutesAreOver' /\ MinutesAreComplete'
        <4>1. \A m \in minutes' : /\ m.minute \in Int
                                  /\ m.minute * PerMinute + PerMinute <= slot
                                  /\ m.of = recorded' \intersect SlotsOf(m.minute)
          <5>1. \A m \in rolled : /\ m.minute \in Int
                                  /\ m.minute * PerMinute + PerMinute <= slot
                                  /\ m.of = recorded' \intersect SlotsOf(m.minute)
            BY <3>1, RollupIsComplete
          <5>2. \A m \in minutes : /\ m.minute \in Int
                                   /\ m.minute * PerMinute + PerMinute <= slot
            BY DEF HostInv, HostTypeOK, MinutesAreOver
          <5>3. \A m \in minutes : m.of = recorded' \intersect SlotsOf(m.minute)
            <6> TAKE m \in minutes
            <6>1. slot \notin SlotsOf(m.minute)
              <7>1. m.minute * PerMinute \in Int /\ slot \in Nat
                BY <5>2, HostAssumption DEF HostInv, HostTypeOK
              <7>2. QED
                BY <5>2, <7>1, HostAssumption DEF SlotsOf
            <6>2. QED
              BY <3>1, <6>1 DEF HostInv, MinutesAreComplete
          <5>4. QED
            BY <3>2, <5>1, <5>2, <5>3
        <4>2. \A m \in minutes' : m.minute * PerMinute + PerMinute <= slot + 1
          <5> TAKE m \in minutes'
          <5>1. m.minute * PerMinute \in Int /\ slot \in Nat
            BY <4>1, HostAssumption DEF HostInv, HostTypeOK
          <5>2. QED
            BY <4>1, <5>1, HostAssumption
        <4>3. QED
          BY <3>1, <4>1, <4>2 DEF MinutesAreOver, MinutesAreComplete, SlotsOf
      <3>6. QED
        BY <3>3, <3>4, <3>5 DEF HostInv
    <2>2. CASE MissSample
      <3>1. slot' = slot + 1 /\ UNCHANGED <<raw, minutes, recorded>> /\ slot \in Nat
        BY <2>2 DEF MissSample, HostInv, HostTypeOK
      <3>2. HostTypeOK' /\ YoungRawKept'
        BY <3>1, HostAssumption DEF HostInv, HostTypeOK, YoungRawKept, RawCutoff
      <3>3. MinutesAreOver'
        <4>1. \A m \in minutes : m.minute * PerMinute + PerMinute <= slot + 1
          <5> TAKE m \in minutes
          <5>1. m.minute * PerMinute \in Int
            BY HostAssumption DEF HostInv, HostTypeOK
          <5>2. QED
            BY <3>1, <5>1, HostAssumption DEF HostInv, MinutesAreOver
        <4>2. QED
          BY <3>1, <4>1 DEF MinutesAreOver
      <3>4. QED
        BY <3>1, <3>2, <3>3 DEF HostInv, MinutesAreComplete, SlotsOf
    <2>3. CASE RestartCollection \/ UNCHANGED hostVars
      BY <2>3
      DEF RestartCollection, hostVars, HostInv, HostTypeOK, YoungRawKept, RawCutoff,
          MinutesAreOver, MinutesAreComplete, SlotsOf
    <2>4. QED
      BY <2>1, <2>2, <2>3 DEF HostNext
  <1>3. QED
    BY <1>1, <1>2, PTL DEF HostSpec

\* A minute row sums up all of its minute, whatever the lengths of a minute and of the
\* retentions, and however count and clock have drifted apart (host.go:80).
THEOREM MinutesStayComplete == HostSpec => []MinutesAreComplete
  <1>1. HostInv => MinutesAreComplete
    BY DEF HostInv
  <1>2. QED
    BY <1>1, HostInvariant, PTL

-----------------------------------------------------------------------------
(* Charts *)

\* Minutes do not overlap.
LEMMA MinutesDoNotOverlap ==
    ASSUME NEW a \in Int, NEW b \in Int, a < b
    PROVE  SlotsOf(a) \intersect SlotsOf(b) = {}
  <1> DEFINE p == a * PerMinute
             q == b * PerMinute
  <1>1. p \in Int /\ q \in Int /\ PerMinute \in Nat \ {0}
    BY HostAssumption
  <1>2. (a + 1) * PerMinute = p + PerMinute
    BY HostAssumption
  <1>3. (a + 1) * PerMinute <= q
    BY HostAssumption
  <1>4. QED
    <2>1. SlotsOf(a) = p..(p + PerMinute - 1) /\ SlotsOf(b) = q..(q + PerMinute - 1)
      BY DEF SlotsOf
    <2> HIDE DEF p, q
    <2>2. QED
      BY <1>1, <1>2, <1>3, <2>1

\* A chart that begins while raw rows are kept shows exactly what was recorded in its
\* range, and an older one nothing that was not, and nothing twice (host.go:130).
THEOREM ChartsAreFaithful == HostSpec => []ChartIsFaithful
  <1>1. HostInv => ChartIsFaithful
    <2> SUFFICES ASSUME HostInv, NEW from \in 0..slot, NEW to \in from..slot
                 PROVE  LET shown == Drawn(from, to)
                        IN  /\ ReadsRaw(from) => shown = recorded \intersect (from..to)
                            /\ ~ReadsRaw(from) =>
                                 /\ shown \subseteq
                                      recorded \intersect (from..(to + PerMinute - 1))
                                 /\ \A m, n \in ListMinutes(from, to) :
                                      m # n => m.of \intersect n.of = {}
      BY DEF ChartIsFaithful
    <2>1. slot \in Nat /\ from \in Nat /\ to \in Nat
      BY DEF HostInv, HostTypeOK
    <2>2. ASSUME ReadsRaw(from) PROVE ListRaw(from, to) = recorded \intersect (from..to)
      <3>1. \A s \in from..to : s \in recorded => s \in raw
        BY <2>1, <2>2, HostAssumption DEF ReadsRaw, RawCutoff, HostInv, YoungRawKept
      <3>2. QED
        BY <3>1 DEF ListRaw, HostInv, HostTypeOK
    <2>3. ASSUME NEW m \in ListMinutes(from, to)
          PROVE  m.of \subseteq recorded \intersect (from..(to + PerMinute - 1))
      <3>1. m \in minutes /\ m.minute * PerMinute \in from..to
        BY DEF ListMinutes
      <3>2. m.of = recorded \intersect SlotsOf(m.minute)
        BY <3>1 DEF HostInv, MinutesAreComplete
      <3>3. SlotsOf(m.minute) \subseteq from..(to + PerMinute - 1)
        BY <2>1, <3>1, HostAssumption DEF SlotsOf
      <3>4. QED
        BY <3>2, <3>3
    <2>4. ASSUME NEW m \in ListMinutes(from, to), NEW n \in ListMinutes(from, to), m # n
          PROVE  m.of \intersect n.of = {}
      <3>1. m \in minutes /\ n \in minutes
        BY DEF ListMinutes
      <3>2. /\ m.minute \in Int /\ n.minute \in Int
            /\ m = [minute |-> m.minute, of |-> m.of] /\ n = [minute |-> n.minute, of |-> n.of]
        BY <3>1 DEF HostInv, HostTypeOK
      <3>3. m.of = recorded \intersect SlotsOf(m.minute) /\ n.of = recorded \intersect SlotsOf(n.minute)
        BY <3>1 DEF HostInv, MinutesAreComplete
      <3>4. m.minute # n.minute
        BY <2>4, <3>2, <3>3
      <3>5. ASSUME NEW a \in Int, NEW b \in Int, a < b PROVE SlotsOf(a) \intersect SlotsOf(b) = {}
        BY <3>5, MinutesDoNotOverlap
      <3>6. QED
        BY <3>2, <3>3, <3>4, <3>5
    <2>5. QED
      BY <2>2, <2>3, <2>4 DEF Drawn
  <1>2. QED
    BY <1>1, HostInvariant, PTL

-----------------------------------------------------------------------------
(* Minutes that are still to be summed up *)

\* How far the count is in its twelve, and the slot whose sample ends them if none is
\* missed.
Phase == sampleCount % PerMinute
NextRollup == slot + (PerMinute - 1) - Phase

CountTypeOK == sampleCount \in Nat /\ since \in Nat /\ since <= slot

\* No sample has been missed since the last gap.
RecordedSince == \A s \in since..(slot - 1) : s \in recorded

\* A full minute within the history has its row, or is over for less than a minute when
\* the next one is summed up.
RowsInTime ==
    \A m \in Int :
        (m * PerMinute >= since /\ m * PerMinute + PerMinute <= slot
           /\ m * PerMinute >= slot - HistoryKept) =>
            \/ \E row \in minutes : row.minute = m
            \/ NextRollup < m * PerMinute + 2 * PerMinute

CountInv == CountTypeOK /\ RecordedSince /\ RowsInTime

\* The count goes round: after the last of its twelve it begins again.
LEMMA PhaseGoesOn ==
    ASSUME NEW c \in Nat
    PROVE  /\ c % PerMinute \in 0..(PerMinute - 1)
           /\ (c + 1) % PerMinute =
                IF c % PerMinute = PerMinute - 1 THEN 0 ELSE (c % PerMinute) + 1
  <1>1. PICK q \in Nat : q * PerMinute <= c /\ c < q * PerMinute + PerMinute
    BY MinuteOfSlot
  <1> DEFINE r == c - q * PerMinute
  <1>2. q * PerMinute \in Nat /\ r \in 0..(PerMinute - 1) /\ c = q * PerMinute + r
    BY <1>1, HostAssumption
  <1>3. ASSUME NEW a \in Nat, NEW p \in Nat, NEW b \in 0..(PerMinute - 1),
               a = p * PerMinute + b
        PROVE  a % PerMinute = b
    <2>1. PerMinute \in Nat \ {0}
      BY HostAssumption
    <2>2. QED
      BY <1>3, <2>1
  <1> HIDE DEF r
  <1>4. c % PerMinute = r
    BY <1>2, <1>3
  <1>5. CASE r = PerMinute - 1
    <2>1. c + 1 = (q + 1) * PerMinute + 0
      BY <1>2, <1>5, HostAssumption
    <2>2. (c + 1) % PerMinute = 0
      <3>1. q + 1 \in Nat /\ c + 1 \in Nat /\ 0 \in 0..(PerMinute - 1)
        BY HostAssumption
      <3>2. QED
        BY <1>3, <2>1, <3>1
    <2>3. QED
      BY <1>2, <1>4, <1>5, <2>2
  <1>6. CASE r # PerMinute - 1
    <2>1. c + 1 = q * PerMinute + (r + 1) /\ r + 1 \in 0..(PerMinute - 1)
      BY <1>2, <1>6, HostAssumption
    <2>2. (c + 1) % PerMinute = r + 1
      BY <1>3, <2>1
    <2>3. QED
      BY <1>2, <1>4, <1>6, <2>2
  <1>7. QED
    BY <1>5, <1>6

\* A slot is in one minute only.
LEMMA MinuteIsUnique ==
    ASSUME NEW s \in Int, NEW p \in Int, NEW q \in Int,
           p * PerMinute <= s, s < p * PerMinute + PerMinute,
           q * PerMinute <= s, s < q * PerMinute + PerMinute
    PROVE  p = q
  BY HostAssumption

\* The sample that ends the twelve sums up the minute before the clock's, and leaves the
\* rows of other minutes alone.
LEMMA RollupAddsRow ==
    ASSUME HostInv, CountInv, NEW m \in Int,
           m * PerMinute >= since, m * PerMinute + PerMinute <= slot,
           slot < m * PerMinute + 2 * PerMinute
    PROVE  \E row \in RollupHostMinute(raw \union {slot}) : row.minute = m
  <1> DEFINE of == (raw \union {slot}) \intersect SlotsOf(m)
             k == m * PerMinute
  <1>1. /\ k \in Int /\ k >= since /\ k + PerMinute <= slot /\ slot < k + 2 * PerMinute
        /\ slot \in Nat /\ since \in Nat
    BY HostAssumption DEF HostInv, HostTypeOK, CountInv, CountTypeOK
  <1>2. MinuteOf(slot) - 1 = m
    <2>1. /\ MinuteOf(slot) \in Nat /\ MinuteOf(slot) * PerMinute <= slot
          /\ slot < MinuteOf(slot) * PerMinute + PerMinute
      BY <1>1, MinuteOfSlot
    <2>2. (m + 1) * PerMinute = k + PerMinute
      BY HostAssumption
    <2>3. (m + 1) * PerMinute <= slot /\ slot < (m + 1) * PerMinute + PerMinute
      BY <1>1, <2>2, HostAssumption
    <2>4. m + 1 = MinuteOf(slot)
      BY <1>1, <2>1, <2>3, MinuteIsUnique
    <2>5. QED
      BY <2>1, <2>4
  <1>3. k \in of
    <2>1. k \in recorded
      BY <1>1, HostAssumption DEF CountInv, RecordedSince
    <2>2. k \in raw
      BY <1>1, <2>1, HostAssumption DEF HostInv, YoungRawKept, RawCutoff
    <2>3. k \in SlotsOf(m)
      BY <1>1, HostAssumption DEF SlotsOf
    <2>4. QED
      BY <2>2, <2>3
  <1> HIDE DEF of, k
  <1>4. RollupHostMinute(raw \union {slot})
           = {row \in minutes : row.minute # m} \union {[minute |-> m, of |-> of]}
    BY <1>2, <1>3 DEF RollupHostMinute, RollupMinute, of
  <1>5. [minute |-> m, of |-> of].minute = m
    OBVIOUS
  <1>6. QED
    BY <1>4, <1>5

\* A roll-up replaces the row of its own minute and leaves the others.
LEMMA RollupKeepsRows ==
    ASSUME NEW rows, NEW row \in minutes
    PROVE  \E other \in RollupHostMinute(rows) : other.minute = row.minute
  <1> DEFINE last == MinuteOf(slot) - 1
             of == rows \intersect SlotsOf(last)
             new == [minute |-> last, of |-> of]
  <1>1. RollupHostMinute(rows) = IF of = {} THEN minutes
                                 ELSE {m \in minutes : m.minute # last} \union {new}
    BY DEF RollupHostMinute, RollupMinute
  <1>2. new.minute = last
    OBVIOUS
  <1> HIDE DEF last, of, new
  <1>3. QED
    BY <1>1, <1>2

\* The clean-up of a sample leaves the rows of minutes that stay within the history.
LEMMA RowsAreInTime ==
    ASSUME HostInv, CountInv, RecordHostVitals
    PROVE  CountInv'
  <1>1. /\ slot \in Nat /\ sampleCount \in Nat /\ since \in Nat /\ since <= slot
        /\ PerMinute \in Nat /\ PerMinute > 0 /\ HistoryKept \in Nat
    BY HostAssumption DEF HostInv, HostTypeOK, CountInv, CountTypeOK
  <1>2. /\ slot' = slot + 1 /\ sampleCount' = sampleCount + 1
        /\ recorded' = recorded \union {slot}
    BY DEF RecordHostVitals
  <1>3. PICK rolls \in BOOLEAN, cleans \in BOOLEAN :
           LET stored == raw \union {slot}
               rolled == IF RollupDue /\ rolls THEN RollupHostMinute(stored) ELSE minutes
           IN  /\ minutes' = IF RollupDue /\ cleans THEN KeptMinutes(rolled, MinutesCutoff)
                             ELSE rolled
               /\ since' = IF RollupDue /\ ~rolls THEN slot + 1 ELSE since
    BY DEF RecordHostVitals, InsertRawHostSample
  <1>4. CountTypeOK'
    BY <1>1, <1>2, <1>3 DEF CountTypeOK
  <1>5. RecordedSince'
    BY <1>1, <1>2, <1>3 DEF RecordedSince, CountInv
  <1>6. /\ Phase \in 0..(PerMinute - 1)
        /\ Phase' = IF Phase = PerMinute - 1 THEN 0 ELSE Phase + 1
        /\ RollupDue <=> Phase = PerMinute - 1
    BY <1>1, <1>2, PhaseGoesOn DEF Phase, RollupDue
  <1>7. RowsInTime'
    <2> SUFFICES ASSUME NEW m \in Int,
                        m * PerMinute >= since', m * PerMinute + PerMinute <= slot',
                        m * PerMinute >= slot' - HistoryKept
                 PROVE  \/ \E row \in minutes' : row.minute = m
                        \/ NextRollup' < m * PerMinute + 2 * PerMinute
      BY DEF RowsInTime
    <2> DEFINE k == m * PerMinute
    <2>1. k \in Int /\ k >= since' /\ k + PerMinute <= slot + 1 /\ k > slot - HistoryKept
      BY <1>1, <1>2
    <2>2. NextRollup' = slot + 1 + (PerMinute - 1) - Phase'
      BY <1>2 DEF NextRollup
    <2>3. since' = since /\ ~(RollupDue /\ ~rolls)
      BY <1>1, <1>3, <2>1
    <2>4. CASE k + PerMinute = slot + 1
      BY <1>1, <1>6, <2>1, <2>2, <2>4
    <2>5. CASE k + PerMinute <= slot
      <3>1. \/ \E row \in minutes : row.minute = m
            \/ NextRollup < k + 2 * PerMinute
        BY <1>1, <2>1, <2>3, <2>5 DEF CountInv, RowsInTime
      <3>2. CASE ~RollupDue
        <4>1. minutes' = minutes
          BY <1>3, <3>2
        <4>2. NextRollup' = NextRollup
          BY <1>1, <1>2, <1>6, <2>2, <3>2 DEF NextRollup
        <4>3. QED
          BY <3>1, <4>1, <4>2
      <3>3. CASE RollupDue
        <4>1. PICK row \in RollupHostMinute(raw \union {slot}) : row.minute = m
          <5>1. CASE \E row \in minutes : row.minute = m
            BY <5>1, RollupKeepsRows
          <5>2. CASE NextRollup < k + 2 * PerMinute
            <6>1. NextRollup = slot
              BY <1>1, <1>6, <3>3 DEF NextRollup
            <6>2. QED
              BY <2>1, <2>3, <2>5, <5>2, <6>1, RollupAddsRow
          <5>3. QED
            BY <3>1, <5>1, <5>2
        <4>2. row \in minutes'
          <5>1. minutes' \in {RollupHostMinute(raw \union {slot}),
                              KeptMinutes(RollupHostMinute(raw \union {slot}), MinutesCutoff)}
            BY <1>3, <2>3, <3>3
          <5>2. row.minute * PerMinute >= MinutesCutoff
            BY <1>1, <2>1, <4>1 DEF MinutesCutoff
          <5>3. QED
            BY <4>1, <5>1, <5>2 DEF KeptMinutes
        <4>3. QED
          BY <4>1, <4>2
      <3>4. QED
        BY <3>2, <3>3
    <2>6. QED
      BY <1>1, <2>1, <2>4, <2>5
  <1>8. QED
    BY <1>4, <1>5, <1>7 DEF CountInv

(* As long as nothing fails and no sample is missed, no minute is skipped, *)
(* wherever in a minute the collection started: each full minute is        *)
(* within twelve samples of being summed up, and then has its row as long  *)
(* as the history reaches back (host.go:69).                               *)
THEOREM NoMinuteIsSkipped == HostSpec => []NoMinuteSkipped
  <1>1. HostInit => CountInv
    <2> SUFFICES ASSUME HostInit PROVE CountInv
      OBVIOUS
    <2>1. slot \in Nat /\ since = slot /\ sampleCount = 0
      BY HostAssumption DEF HostInit
    <2>2. CountTypeOK /\ RecordedSince
      BY <2>1 DEF CountTypeOK, RecordedSince
    <2>3. RowsInTime
      <3> SUFFICES ASSUME NEW m \in Int, m * PerMinute >= since,
                          m * PerMinute + PerMinute <= slot
                   PROVE  FALSE
        BY DEF RowsInTime
      <3>1. m * PerMinute \in Int
        BY HostAssumption
      <3>2. QED
        BY <2>1, <3>1, HostAssumption
    <2>4. QED
      BY <2>2, <2>3 DEF CountInv
  <1>2. HostInv /\ CountInv /\ [HostNext]_hostVars => CountInv'
    <2> SUFFICES ASSUME HostInv, CountInv, [HostNext]_hostVars PROVE CountInv'
      OBVIOUS
    <2>1. CASE RecordHostVitals
      BY <2>1, RowsAreInTime
    <2>2. ASSUME MissSample \/ RestartCollection PROVE CountInv'
      <3>1. PICK n \in Nat : slot' = n /\ since' = n /\ sampleCount' \in Nat
        BY <2>2
        DEF MissSample, RestartCollection, HostInv, HostTypeOK, CountInv, CountTypeOK
      <3>2. CountTypeOK' /\ RecordedSince'
        BY <3>1 DEF CountTypeOK, RecordedSince
      <3>3. RowsInTime'
        <4> SUFFICES ASSUME NEW m \in Int, m * PerMinute >= since',
                            m * PerMinute + PerMinute <= slot'
                     PROVE  FALSE
          BY DEF RowsInTime
        <4>1. m * PerMinute \in Int
          BY HostAssumption
        <4>2. QED
          BY <3>1, <4>1, HostAssumption
      <3>4. QED
        BY <3>2, <3>3 DEF CountInv
    <2>3. CASE UNCHANGED hostVars
      BY <2>3
      DEF hostVars, CountInv, CountTypeOK, RecordedSince, RowsInTime, NextRollup, Phase
    <2>4. QED
      BY <2>1, <2>2, <2>3 DEF HostNext
  <1>3. HostInv /\ CountInv => NoMinuteSkipped
    <2> SUFFICES ASSUME HostInv, CountInv,
                        NEW m \in MinuteOf(since)..(MinuteOf(slot) - 2),
                        m * PerMinute >= since, m * PerMinute >= slot - HistoryKept
                 PROVE  \E row \in minutes : row.minute = m
      BY DEF NoMinuteSkipped
    <2> DEFINE k == m * PerMinute
               q == MinuteOf(slot)
    <2>1. /\ slot \in Nat /\ sampleCount \in Nat /\ since \in Nat
          /\ PerMinute \in Nat /\ PerMinute > 0
      BY HostAssumption DEF HostInv, HostTypeOK, CountInv, CountTypeOK
    <2>2. MinuteOf(since) \in Nat /\ q \in Nat /\ q * PerMinute <= slot
      BY <2>1, MinuteOfSlot
    <2>3. m \in Int /\ m + 2 <= q
      BY <2>2
    <2>4. k \in Int /\ k + 2 * PerMinute <= q * PerMinute
      <3> HIDE DEF q
      <3>1. (m + 2) * PerMinute <= q * PerMinute
        <4>1. q - (m + 2) \in Nat
          BY <2>2, <2>3
        <4>2. (q - (m + 2)) * PerMinute \in Nat
          BY <2>1, <4>1
        <4>3. q * PerMinute = (q - (m + 2)) * PerMinute + (m + 2) * PerMinute
          BY <2>1, <2>2, <2>3
        <4>4. (m + 2) * PerMinute \in Int
          BY <2>1, <2>3
        <4>5. QED
          BY <4>2, <4>3, <4>4
      <3>2. QED
        BY <2>1, <2>3, <3>1
    <2>5. k + 2 * PerMinute <= slot
      BY <2>1, <2>2, <2>4
    <2>6. NextRollup \in Int /\ NextRollup >= slot
      BY <2>1, PhaseGoesOn DEF NextRollup, Phase
    <2>7. QED
      BY <2>1, <2>3, <2>4, <2>5, <2>6 DEF CountInv, RowsInTime
  <1>4. QED
    BY <1>1, <1>2, <1>3, HostInvariant, PTL DEF HostSpec
=============================================================================
