---------------------------- MODULE HostHistory ----------------------------
(***************************************************************************)
(* The host's resource samples (management/host.go): one raw row every     *)
(* five seconds, one row per minute that sums up its raw rows, and their   *)
(* retention.                                                              *)
(*                                                                         *)
(* The minute that is summed up follows from two things kept apart: after  *)
(* every twelfth row that was stored, the minute before the clock's.  Both *)
(* drift apart when a sample is missed, its insert fails or the daemon     *)
(* starts again.  A slot stands for five seconds of the clock, and the     *)
(* clock does not go back.                                                 *)
(***************************************************************************)
EXTENDS Integers, FiniteSets, FiniteSetsExt

CONSTANTS
    PerMinute,    \* 12
    RawKept,      \* slots: 24 hours
    HistoryKept,  \* slots: 30 days
    MaxSlot       \* bound

ASSUME HostAssumption ==
    /\ PerMinute \in Nat \ {0}
    /\ RawKept \in Nat /\ HistoryKept \in Nat
    /\ 2 * PerMinute <= RawKept /\ RawKept < HistoryKept

VARIABLES
    slot,           \* the clock
    sampleCount,    \* hostSampleCount
    raw,            \* raw rows: the slots they were recorded in
    minutes,        \* minute rows: [minute, of], of the raw rows it sums up
    recorded,       \* history: every raw row ever stored
    since           \* history: the first slot after the last gap or start

hostVars == <<slot, sampleCount, raw, minutes, recorded, since>>

HostInit ==
    /\ slot \in 0..(PerMinute - 1)
    /\ sampleCount = 0
    /\ raw = {} /\ minutes = {} /\ recorded = {}
    /\ since = slot

MinuteOf(s) == s \div PerMinute
SlotsOf(m) == (m * PerMinute)..(m * PerMinute + PerMinute - 1)

-----------------------------------------------------------------------------
(* The statements (queries.sql.go).                                        *)

InsertRawHostSample == raw \union {slot}

\* RollupHostMinute: INSERT OR REPLACE.  Without raw rows the averages are NULL, which
\* the columns refuse, and no row is stored.
RollupMinute(minute, rows) ==
    LET of == rows \intersect SlotsOf(minute)
    IN  IF of = {} THEN minutes
        ELSE {m \in minutes : m.minute # minute} \union {[minute |-> minute, of |-> of]}

\* DeleteExpiredHostSamples, on both kinds of rows.
KeptRaw(rows, cutoff) == {s \in rows : s >= cutoff}
KeptMinutes(rows, cutoff) == {m \in rows : m.minute * PerMinute >= cutoff}

\* ListHostSamples, on both kinds of rows.
ListRaw(from, to) == {s \in raw : s \in from..to}
ListMinutes(from, to) == {m \in minutes : m.minute * PerMinute \in from..to}

-----------------------------------------------------------------------------
(* HostStore.                                                              *)

\* A plausible bug: the minute that is still running is summed up.
RollupThisMinute(rows) == RollupMinute(MinuteOf(slot), rows)

RollupHostMinute(rows) == RollupMinute(MinuteOf(slot) - 1, rows)

\* A plausible bug: minute rows go when raw rows do.
MinutesCutoffAsRaw == slot - RawKept

RawCutoff == slot - RawKept
MinutesCutoff == slot - HistoryKept

\* A plausible bug: raw rows are read for as long as the history goes back.
ReadsRawOfHistory(from) == from > MinutesCutoff

\* HostSamples reads raw rows for a range that begins while they are kept, minutes for one
\* that begins earlier.
ReadsRaw(from) == from > RawCutoff

RollupDue == (sampleCount + 1) % PerMinute = 0

\* RecordHostVitals.  Rollup and deletion may fail, and neither is repeated; the clean-up
\* of the jobs, which follows, is in JobHistory.
RecordHostVitals ==
    LET stored == InsertRawHostSample
    IN  /\ slot < MaxSlot
        /\ sampleCount' = sampleCount + 1
        /\ recorded' = recorded \union {slot}
        /\ slot' = slot + 1
        /\ \E rolls, cleans \in BOOLEAN :
               LET rolled == IF RollupDue /\ rolls THEN RollupHostMinute(stored) ELSE minutes
               IN  /\ minutes' = IF RollupDue /\ cleans THEN KeptMinutes(rolled, MinutesCutoff) ELSE rolled
                   /\ raw' = IF RollupDue /\ cleans THEN KeptRaw(stored, RawCutoff) ELSE stored
                   /\ since' = IF RollupDue /\ ~rolls THEN slot + 1 ELSE since

\* The sample is late or lost, or its insert fails: nothing is counted.
MissSample ==
    /\ slot < MaxSlot
    /\ slot' = slot + 1
    /\ since' = slot + 1
    /\ UNCHANGED <<sampleCount, raw, minutes, recorded>>

RestartCollection ==
    /\ slot > since
    /\ sampleCount' = 0
    /\ since' = slot
    /\ UNCHANGED <<slot, raw, minutes, recorded>>

\* HostSamples, for the slots from `from` to `to`: what the console can draw of them.
Drawn(from, to) ==
    IF ReadsRaw(from) THEN ListRaw(from, to) ELSE UNION {m.of : m \in ListMinutes(from, to)}

HostNext == RecordHostVitals \/ MissSample \/ RestartCollection

HostSpec == HostInit /\ [][HostNext]_hostVars

-----------------------------------------------------------------------------
(* A minute row sums up all of its minute: no raw row is stored for it     *)
(* afterwards, and none had been deleted, however the count and the clock  *)
(* have drifted apart (host.go:80).                                        *)
MinutesAreComplete ==
    \A m \in minutes : m.of = recorded \intersect SlotsOf(m.minute)

(* As long as nothing fails and no sample is missed, no minute is skipped, *)
(* wherever in a minute the collection has started: a minute later every   *)
(* full minute has its row, which stays as long as the history does        *)
(* (host.go:69).                                                           *)
NoMinuteSkipped ==
    \A m \in MinuteOf(since)..(MinuteOf(slot) - 2) :
        (m * PerMinute >= since /\ m * PerMinute >= slot - HistoryKept) =>
            \E row \in minutes : row.minute = m

(* A chart that begins within the last day shows every sample recorded in  *)
(* its range.  An older one shows none of another range but the rest of    *)
(* its last minute, and no sample counts in two of the rows it is drawn    *)
(* from, although a minute may be summed up again (host.go:130).           *)
ChartIsFaithful ==
    \A from \in 0..slot : \A to \in from..slot :
        LET shown == Drawn(from, to)
        IN  /\ ReadsRaw(from) => shown = recorded \intersect (from..to)
            /\ ~ReadsRaw(from) =>
                 /\ shown \subseteq recorded \intersect (from..(to + PerMinute - 1))
                 /\ \A m, n \in ListMinutes(from, to) : m # n => m.of \intersect n.of = {}
=============================================================================
