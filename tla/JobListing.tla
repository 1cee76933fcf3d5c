----------------------------- MODULE JobListing -----------------------------
(***************************************************************************)
(* The job list of the console, read page by page while the jobs go on     *)
(* (JobStore.List, management/jobs.go).                                    *)
(*                                                                         *)
(* The cursor of a page is an offset into the records that match the       *)
(* filter at that moment, newest first.  Nothing holds the list still      *)
(* between two pages: a job that starts enters it at its start time, which *)
(* GitHub or the cloud has set and need not be the newest; one that starts *)
(* again is running again; one that completes may stop matching; a         *)
(* provisional record is given the id of its job, and the clean-up deletes *)
(* rows.                                                                   *)
(***************************************************************************)
EXTENDS Integers, FiniteSets

CONSTANTS
    Records,         \* ids of jobs
    MaxTime,         \* bound: start times.  Records of one time are told apart by their row.
    ListLimit,       \* 2000 (ListJobsNewestFirst)
    LargestPage,     \* 200
    DefaultPage,     \* 50
    MaxChanges       \* bound: changes of the table

ASSUME ListingAssumption ==
    /\ IsFiniteSet(Records)
    /\ MaxTime \in Nat
    /\ ListLimit \in Nat \ {0}
    /\ DefaultPage \in 1..LargestPage /\ LargestPage \in Nat

VARIABLES
    result,    \* of each job, "none" when it has no row
    startedAt, \* of each job, 0 when it has no row
    reader,    \* one reading: [status, size, cursor, seen, repeats], cursor 0 before and after it
    steady,    \* history: what has been in the list since the reading began
    departed,  \* history: how often a record has left the list since then
    arrived,   \* history: how often one has entered it since then
    changes

listVars == <<result, startedAt, reader, steady, departed, arrived, changes>>

-----------------------------------------------------------------------------
(* JobStore.                                                               *)

\* The place of a record among some, newest first.
Place(id, ids, times) == Cardinality({other \in ids : times[other] >= times[id]})

\* ORDER BY started_at DESC LIMIT 2000: the limit comes before the filter.
ListJobsNewestFirst(results, times) ==
    LET present == {id \in Records : results[id] # "none"}
    IN  {id \in present : Place(id, present, times) <= ListLimit}

Statuses == {"", "running", "done"}

\* "" is no filter.  The other filters (runner set, repository, workflow, times) work
\* alike: records come to match and cease to.
MatchesJob(outcome, status) == status = "" \/ outcome = status

Matching(results, times, status) ==
    {id \in ListJobsNewestFirst(results, times) : MatchesJob(results[id], status)}

PageSizeOf(size) == IF size \in 1..LargestPage THEN size ELSE DefaultPage

\* A plausible bug: the next page starts behind the first record that was not shown.
NextCursorBehind(records, start, size) ==
    IF start + size < Cardinality(records) THEN start + size + 1 ELSE 0

\* None, for which 0 stands, when the page has reached the end.
NextCursor(records, start, size) ==
    IF start + size < Cardinality(records) THEN start + size ELSE 0

\* An empty page beyond the end, without a next one.
List(status, start, size) ==
    LET records == Matching(result, startedAt, status)
    IN  [records |-> {id \in records : Place(id, records, startedAt) \in (start + 1)..(start + size)},
         next |-> NextCursor(records, start, size)]

-----------------------------------------------------------------------------

NoReading == [status |-> "", size |-> 0, cursor |-> 0, seen |-> {}, repeats |-> 0]

\* No two records are at one place.
Ordered(results, times) ==
    \A id, other \in Records :
        results[id] # "none" /\ results[other] # "none" /\ times[id] = times[other] => id = other

ListInit ==
    /\ result \in [Records -> {"none", "running", "done"}]
    /\ startedAt \in [Records -> 0..MaxTime]
    /\ \A id \in Records : result[id] = "none" => startedAt[id] = 0
    /\ Ordered(result, startedAt)
    /\ reader = NoReading
    /\ steady = {} /\ departed = 0 /\ arrived = 0 /\ changes = 0

Reading == reader.cursor > 0

\* ListJobRecords of the API server, without a cursor.
ReadFirstPage ==
    /\ ~Reading
    /\ \E status \in Statuses, size \in 0..(LargestPage + 1) :
           LET page == List(status, 0, PageSizeOf(size))
           IN  /\ reader' = [status |-> status, size |-> PageSizeOf(size), cursor |-> page.next,
                             seen |-> page.records, repeats |-> 0]
               /\ steady' = Matching(result, startedAt, status)
    /\ departed' = 0 /\ arrived' = 0
    /\ UNCHANGED <<result, startedAt, changes>>

ReadNextPage ==
    /\ Reading
    /\ LET page == List(reader.status, reader.cursor, reader.size)
       IN  reader' = [reader EXCEPT
                        !.cursor = page.next,
                        !.seen = @ \union page.records,
                        !.repeats = @ + Cardinality(page.records \intersect reader.seen)]
    /\ UNCHANGED <<result, startedAt, steady, departed, arrived, changes>>

\* What a change of the table does to the list that is being read.
Change ==
    LET before == Matching(result, startedAt, reader.status)
        now == Matching(result', startedAt', reader.status)
    IN  /\ changes < MaxChanges /\ changes' = changes + 1
        /\ steady' = steady \intersect now
        /\ departed' = departed + Cardinality(before \ now)
        /\ arrived' = arrived + Cardinality(now \ before)
        /\ UNCHANGED reader

\* A new row is at the time of its message, a row that is there stays at its own.
PutRow(id, outcome) ==
    /\ result' = [result EXCEPT ![id] = outcome]
    /\ \E time \in IF result[id] = "none" THEN 0..MaxTime ELSE {startedAt[id]} :
           startedAt' = [startedAt EXCEPT ![id] = time]
    /\ Ordered(result', startedAt')
    /\ Change

\* UpsertStartedJob: a new record, or one that runs again.
RowStarted(id) == PutRow(id, "running")

\* UpdateJobCompleted, or InsertCompletedJob when there is no row.
RowCompleted(id) == PutRow(id, "done")

\* AttachJobMetadata: the row of a running job is found under another id from now on.
RowRenamed(id, other) ==
    /\ result[id] = "running" /\ result[other] = "none"
    /\ result' = [result EXCEPT ![id] = "none", ![other] = "running"]
    /\ startedAt' = [startedAt EXCEPT ![id] = 0, ![other] = startedAt[id]]
    /\ Change

\* DeleteExpiredJobs and DeleteCompletedJob.
RowDeleted(id) ==
    /\ result[id] = "done"
    /\ result' = [result EXCEPT ![id] = "none"]
    /\ startedAt' = [startedAt EXCEPT ![id] = 0]
    /\ Change

ListNext ==
    \/ ReadFirstPage \/ ReadNextPage
    \/ \E id \in Records : RowStarted(id) \/ RowCompleted(id) \/ RowDeleted(id)
    \/ \E id, other \in Records : RowRenamed(id, other)

ListSpec == ListInit /\ [][ListNext]_listVars

-----------------------------------------------------------------------------
(* Reading page by page is off by no more than the list has changed: of    *)
(* the records that stayed in it, the pages so far leave out no more than  *)
(* have left it, and show again no more than have entered it.  Between two *)
(* changes the pages are exact (jobs.go:320).                              *)
PagesAddUp ==
    LET records == Matching(result, startedAt, reader.status)
        passed == {id \in records : Reading => Place(id, records, startedAt) <= reader.cursor}
    IN  reader # NoReading =>
            /\ Cardinality((passed \intersect steady) \ reader.seen) <= departed
            /\ reader.repeats <= arrived
=============================================================================
