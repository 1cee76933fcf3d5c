--------------------------- MODULE RunnerTracker ---------------------------
(***************************************************************************)
(* The phase book of one runner set: internal/controller/runnerstate.go.   *)
(*                                                                         *)
(* A tracker is a record of four sets of runner names.  `preparing`,       *)
(* `idle` and `busy` are the key sets of the three maps.  Of the time an   *)
(* idle entry carries the program only ever asks whether it is older than  *)
(* the idle timeout: `aged` holds the idle names that are.  Each operator  *)
(* is one method, which holds the tracker's mutex from its first statement *)
(* to its last, so it is one atomic step of the caller.                    *)
(*                                                                         *)
(* Both controllers of the program use this type: the scale set controller *)
(* of standalone mode and the cloud agent.                                 *)
(***************************************************************************)
EXTENDS Integers, FiniteSets

Trackers(Names) ==
    [preparing : SUBSET Names, idle : SUBSET Names,
     aged : SUBSET Names, busy : SUBSET Names]

NewRunnerTracker == [preparing |-> {}, idle |-> {}, aged |-> {}, busy |-> {}]

Tracked(t) == t.preparing \cup t.idle \cup t.busy

\* RunnerCounts.Total: a name that two maps hold is counted twice.
Total(t) == Cardinality(t.preparing) + Cardinality(t.idle) + Cardinality(t.busy)

-----------------------------------------------------------------------------

MarkStarting(t, name) ==
    [preparing |-> t.preparing \cup {name},
     idle      |-> t.idle,
     aged      |-> t.aged,
     busy      |-> t.busy]

\* Mutant of MarkIdle: the preparing entry is not dropped.
MarkIdleKeepingPreparing(t, name) ==
    [preparing |-> t.preparing,
     idle      |-> t.idle \cup {name},
     aged      |-> t.aged \ {name},
     busy      |-> t.busy \ {name}]

\* From whichever phase it is in; the entry gets a new time stamp.
MarkIdle(t, name) ==
    [preparing |-> t.preparing \ {name},
     idle      |-> t.idle \cup {name},
     aged      |-> t.aged \ {name},
     busy      |-> t.busy \ {name}]

\* Mutant of MarkBusy: the idle entry is not dropped.
MarkBusyKeepingIdle(t, name) ==
    [preparing |-> t.preparing,
     idle      |-> t.idle,
     aged      |-> t.aged,
     busy      |-> t.busy \cup {name}]

\* From idle: a preparing entry of the same name stays.
MarkBusy(t, name) ==
    [preparing |-> t.preparing,
     idle      |-> t.idle \ {name},
     aged      |-> t.aged \ {name},
     busy      |-> t.busy \cup {name}]

Remove(t, name) ==
    [preparing |-> t.preparing \ {name},
     idle      |-> t.idle \ {name},
     aged      |-> t.aged \ {name},
     busy      |-> t.busy \ {name}]

\* removeAll forgets every runner; these are the names it returns.
NamesToCleanUp(t) == t.idle \cup t.busy

\* removeIdleOlderThan drops the idle entries past the timeout, and returns
\* their names, the set t.aged.
RemoveIdleOlderThan(t) ==
    [preparing |-> t.preparing,
     idle      |-> t.idle \ t.aged,
     aged      |-> {},
     busy      |-> t.busy]

\* The clock passes the idle timeout of one idle entry.
Age(t, name) ==
    [preparing |-> t.preparing,
     idle      |-> t.idle,
     aged      |-> t.aged \cup {name},
     busy      |-> t.busy]

=============================================================================
