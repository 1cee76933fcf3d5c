---------------------------- MODULE JobHistory -----------------------------
(***************************************************************************)
(* The rows of the job history in standalone mode: what the messages of    *)
(* GitHub, the capture goroutines, the clean-up and a console that follows *)
(* a log do to them at the same time (management/jobs.go and host.go).     *)
(*                                                                         *)
(* GitHub's messages may come twice or late, so a job may start again      *)
(* after it has completed.  Every statement is a step of its own: the      *)
(* clean-up deletes a job's logs and then its row, and a message, a        *)
(* goroutine or a crash may come in between.  A log row stands for log and *)
(* sample rows alike; a row of any table counts as one byte.  The clean-up *)
(* runs after every twelfth host sample (see HostHistory), which is at any *)
(* time here, and the cutoff of its retention is any time in the past.     *)
(***************************************************************************)
EXTENDS Integers, FiniteSets

CONSTANTS
    Jobs,
    Writers,      \* bound: capture goroutines alive at one time
    Nothing,      \* no job, no goroutine
    PageSize,     \* of the console, 1..500
    MaxBytes,     \* 10 GB
    TargetBytes,  \* 9 GB
    MaxLogs,      \* bound: log rows ever written
    MaxMessages   \* bound: messages of GitHub

ASSUME HistoryAssumption ==
    /\ IsFiniteSet(Jobs) /\ Jobs # {}
    /\ Nothing \notin Jobs \union Writers
    /\ PageSize \in Nat \ {0}
    /\ TargetBytes \in Nat /\ MaxBytes \in Nat /\ TargetBytes < MaxBytes

VARIABLES
    row,         \* the jobs table: result of each job, "none" without a row
    logs,        \* the job_logs table: rows [seq, job, stray], seq their key
    lastSequence,\* AUTOINCREMENT never gives a number again
    writer,      \* the capture goroutines: [job, cancelled, stray]
    captures,    \* the map of the store
    completing,  \* the job whose completion waits for its capture to end
    cleaner,     \* the size-bounded clean-up: [pc, job, freed, toFree]; lost: it has left logs
    fileBytes,   \* FileSize: only Compact makes it smaller
    follower,    \* a console that polls one log: [job, after, seen]
    messages     \* messages handled so far

historyVars == <<row, logs, lastSequence, writer, captures, completing, cleaner, fileBytes,
                 follower, messages>>

\* stray: the store has lost the goroutine, or given up waiting for it.
NoWriter == [job |-> Nothing, cancelled |-> FALSE, stray |-> FALSE]
IdleCleaner == [pc |-> "idle", job |-> Nothing, freed |-> 0, toFree |-> 0, lost |-> FALSE]

\* A job may be left from before.  Which one is followed does not matter: ids are only
\* compared.
HistoryInit ==
    /\ \E old \in {{}} \union {{j} : j \in Jobs} :
           /\ row = [j \in Jobs |-> IF j \in old THEN "done" ELSE "none"]
           /\ fileBytes = Cardinality(old)
    /\ logs = {} /\ lastSequence = 0
    /\ writer = [w \in Writers |-> NoWriter]
    /\ captures = [j \in Jobs |-> Nothing]
    /\ completing = Nothing
    /\ cleaner = IdleCleaner /\ messages = 0
    /\ follower = [job |-> CHOOSE j \in Jobs : TRUE, after |-> 0, seen |-> {}]

LogsOf(j) == {l \in logs : l.job = j}
LiveBytes(rows, ls) == Cardinality({j \in Jobs : rows[j] # "none"}) + Cardinality(ls)
Grown(bytes) == IF bytes > fileBytes THEN bytes ELSE fileBytes
Live(w) == writer[w].job # Nothing

-----------------------------------------------------------------------------
(* The statements (queries.sql.go).                                        *)

\* ON CONFLICT the result is running again.
UpsertStartedJob(j) == [row EXCEPT ![j] = "running"]

UpdateJobCompleted(j) == [row EXCEPT ![j] = IF @ = "none" THEN @ ELSE "done"]
InsertCompletedJob(j) == [row EXCEPT ![j] = IF @ = "none" THEN "done" ELSE @]

InsertJobRow(entry) == logs \union {entry}

\* Rows older than the cutoff, and the rows of the jobs that are deleted with it.
DeleteExpiredJobRows(cutoff, old) == {l \in logs : l.seq > cutoff /\ l.job \notin old}
DeleteExpiredJobs(old) == [j \in Jobs |-> IF j \in old THEN "none" ELSE row[j]]

\* One byte for the job and one for each of its rows.
SizeOfCompletedJob(j) == 1 + Cardinality(LogsOf(j))
DeleteJobRows(j) == {l \in logs : l.job # j}

\* A plausible bug: the row is deleted by its id alone.
DeleteJobById(j) == [row EXCEPT ![j] = "none"]

\* WHERE id = ? AND result != 'running'.
DeleteCompletedJobRow(j) == [row EXCEPT ![j] = IF @ = "running" THEN @ ELSE "none"]

\* ORDER BY sequence LIMIT: the first rows of those that are newer.
ListJobLogsAfterSequence(j, after, limit) ==
    LET newer == {l \in LogsOf(j) : l.seq > after}
    IN  {l \in newer : Cardinality({k \in newer : k.seq <= l.seq}) <= limit}

-----------------------------------------------------------------------------
(* The messages of GitHub, handled one after the other.                    *)

\* RecordJobMessageStarted: the upsert sets the job running whatever it was, and
\* startCapture overwrites the entry of the map.
JobStarted(j) ==
    /\ completing = Nothing /\ messages < MaxMessages
    /\ messages' = messages + 1
    /\ row' = UpsertStartedJob(j)
    /\ fileBytes' = Grown(LiveBytes(row', logs))
    /\ \E w \in Writers :
           /\ ~Live(w)
           /\ writer' = [v \in Writers |->
                           IF v = w THEN [NoWriter EXCEPT !.job = j]
                           ELSE [writer[v] EXCEPT !.stray = @ \/ captures[j] = v]]
           /\ captures' = [captures EXCEPT ![j] = w]
    /\ cleaner' = [cleaner EXCEPT !.lost = @ \/ (cleaner.pc \in {"logs", "row"} /\ cleaner.job = j)]
    /\ UNCHANGED <<logs, lastSequence, completing, follower>>

\* RecordJobMessageCompleted up to the wait in stopCapture.  A result that is not known
\* changes nothing at all.
JobCompleted(j) ==
    /\ completing = Nothing /\ messages < MaxMessages
    /\ messages' = messages + 1
    /\ completing' = j
    /\ captures' = [captures EXCEPT ![j] = Nothing]
    /\ writer' = [w \in Writers |->
                    IF captures[j] = w THEN [writer[w] EXCEPT !.cancelled = TRUE] ELSE writer[w]]
    /\ UNCHANGED <<row, logs, lastSequence, cleaner, fileBytes, follower>>

\* The wait for the goroutine gives up after six seconds.
StopTimesOut ==
    /\ completing # Nothing
    /\ writer' = [w \in Writers |->
                    [writer[w] EXCEPT !.stray = @ \/ (writer[w].job = completing /\ writer[w].cancelled)]]
    /\ UNCHANGED <<row, logs, lastSequence, captures, completing, cleaner, fileBytes, follower, messages>>

\* A plausible bug: the job is recorded as completed while its capture still runs.
CompleteWithoutWaiting ==
    /\ completing # Nothing
    /\ row' = IF row[completing] = "none" THEN InsertCompletedJob(completing)
              ELSE UpdateJobCompleted(completing)
    /\ fileBytes' = Grown(LiveBytes(row', logs))
    /\ completing' = Nothing
    /\ UNCHANGED <<logs, lastSequence, writer, captures, cleaner, follower, messages>>

\* UpdateJobCompleted, or InsertCompletedJob when there is no row; either may fail.
CompleteRow ==
    /\ completing # Nothing
    /\ \A w \in Writers : (writer[w].job = completing /\ writer[w].cancelled) => writer[w].stray
    /\ row' \in {row, IF row[completing] = "none" THEN InsertCompletedJob(completing)
                      ELSE UpdateJobCompleted(completing)}
    /\ fileBytes' = Grown(LiveBytes(row', logs))
    /\ completing' = Nothing
    /\ UNCHANGED <<logs, lastSequence, writer, captures, cleaner, follower, messages>>

-----------------------------------------------------------------------------
(* The capture goroutines.                                                 *)

Write(w) ==
    /\ Live(w) /\ lastSequence < MaxLogs
    /\ lastSequence' = lastSequence + 1
    /\ logs' = InsertJobRow([seq |-> lastSequence', job |-> writer[w].job, stray |-> writer[w].stray])
    /\ fileBytes' = Grown(LiveBytes(row, logs'))

CaptureWrites(w) ==
    /\ Write(w)
    /\ UNCHANGED <<row, writer, captures, completing, cleaner, follower, messages>>

\* A cancelled goroutine writes once more, when there is something to write, and ends.
CaptureEnds(w) ==
    /\ Live(w) /\ writer[w].cancelled
    /\ Write(w) \/ UNCHANGED <<logs, lastSequence, fileBytes>>
    /\ writer' = [writer EXCEPT ![w] = NoWriter]
    /\ UNCHANGED <<row, captures, completing, cleaner, follower, messages>>

\* Whether the daemon stops or crashes, what is in the database stays as it is.
DaemonEnds ==
    /\ writer' = [w \in Writers |-> NoWriter]
    /\ captures' = [j \in Jobs |-> Nothing]
    /\ completing' = Nothing /\ cleaner' = [IdleCleaner EXCEPT !.lost = cleaner.lost]
    /\ UNCHANGED <<row, logs, lastSequence, fileBytes, follower, messages>>

-----------------------------------------------------------------------------
(* cleanHistory: what has expired.                                         *)

\* DeleteExpiredJobLogs and DeleteExpiredJobs: rows older than the cutoff, and the rows of
\* completed jobs older than it.  An error of either is dropped.
Expire ==
    /\ cleaner.pc = "idle"
    /\ \E old \in SUBSET {j \in Jobs : row[j] = "done"}, cutoff \in 0..lastSequence,
          logsFail, jobsFail \in BOOLEAN :
           /\ logs' = IF logsFail THEN logs
                      ELSE DeleteExpiredJobRows(cutoff, old)
           /\ row' = IF jobsFail THEN row ELSE DeleteExpiredJobs(old)
           /\ cleaner' = [cleaner EXCEPT !.lost = @ \/ (logsFail /\ old # {})]
    /\ UNCHANGED <<lastSequence, writer, captures, completing, fileBytes, follower, messages>>

-----------------------------------------------------------------------------
(* cleanHistory: the size of the file.                                     *)

StartShrinking ==
    /\ cleaner.pc = "idle" /\ fileBytes > MaxBytes
    /\ cleaner' = [cleaner EXCEPT !.pc = "pick", !.freed = 0, !.toFree = fileBytes - TargetBytes]
    /\ UNCHANGED <<row, logs, lastSequence, writer, captures, completing, fileBytes, follower, messages>>

\* GetOldestCompletedJobSize.  Completion times are GitHub's: any job may be the oldest.
PickOldest ==
    /\ cleaner.pc = "pick" /\ cleaner.freed < cleaner.toFree
    /\ \E j \in Jobs :
           /\ row[j] = "done"
           /\ cleaner' = [cleaner EXCEPT !.pc = "logs", !.job = j, !.freed = @ + SizeOfCompletedJob(j)]
    /\ UNCHANGED <<row, logs, lastSequence, writer, captures, completing, fileBytes, follower, messages>>

DeleteJobLogs ==
    /\ cleaner.pc = "logs"
    /\ \/ /\ logs' = DeleteJobRows(cleaner.job)
          /\ cleaner' = [cleaner EXCEPT !.pc = "row"]
       \/ /\ cleaner' = [cleaner EXCEPT !.pc = "row", !.lost = TRUE]
          /\ UNCHANGED logs
    /\ UNCHANGED <<row, lastSequence, writer, captures, completing, fileBytes, follower, messages>>

DeleteCompletedJob ==
    /\ cleaner.pc = "row"
    /\ row' = DeleteCompletedJobRow(cleaner.job)
    /\ cleaner' = [cleaner EXCEPT !.pc = "pick"]
    /\ UNCHANGED <<logs, lastSequence, writer, captures, completing, fileBytes, follower, messages>>

DeleteCompletedJobFails ==
    /\ cleaner.pc = "row"
    /\ cleaner' = [cleaner EXCEPT !.pc = "pick"]
    /\ UNCHANGED <<row, logs, lastSequence, writer, captures, completing, fileBytes, follower, messages>>

\* Enough has been freed, no completed job is left, or the read of the oldest one fails,
\* which may happen at any time.
PickingEnds == cleaner.pc = "pick"

\* A plausible bug: the loop does not see that it has freed nothing.
GiveUpNever == FALSE /\ UNCHANGED historyVars

\* Nothing was left to delete, or the file cannot be compacted.
GiveUp ==
    /\ PickingEnds
    /\ cleaner' = [IdleCleaner EXCEPT !.lost = cleaner.lost]
    /\ UNCHANGED <<row, logs, lastSequence, writer, captures, completing, fileBytes, follower, messages>>

\* Compact, and the loop once more when the file is still too large.
CompactFile ==
    /\ PickingEnds /\ cleaner.freed > 0
    /\ fileBytes' = LiveBytes(row, logs)
    /\ cleaner' = IF fileBytes' > TargetBytes
                  THEN [cleaner EXCEPT !.freed = 0, !.toFree = fileBytes' - TargetBytes]
                  ELSE [IdleCleaner EXCEPT !.lost = cleaner.lost]
    /\ UNCHANGED <<row, logs, lastSequence, writer, captures, completing, follower, messages>>

-----------------------------------------------------------------------------
(* The console: Logs(job, after, pageSize).                                *)

\* A plausible bug: the cursor of the next page is the newest row of the job, not the last
\* one of this page.
ReadPageToNewest ==
    LET page == ListJobLogsAfterSequence(follower.job, follower.after, PageSize)
    IN  \E newest \in LogsOf(follower.job) :
            /\ page # {} /\ \A l \in LogsOf(follower.job) : l.seq <= newest.seq
            /\ follower' = [follower EXCEPT !.after = newest.seq,
                                            !.seen = @ \union {l.seq : l \in page}]
            /\ UNCHANGED <<row, logs, lastSequence, writer, captures, completing, cleaner,
                           fileBytes, messages>>

\* GetJobLogs gives the console the lines and the last of their sequences.
ReadPage ==
    LET page == ListJobLogsAfterSequence(follower.job, follower.after, PageSize)
    IN  \E last \in page :
            /\ \A l \in page : l.seq <= last.seq
            /\ follower' = [follower EXCEPT !.after = last.seq,
                                            !.seen = @ \union {l.seq : l \in page}]
            /\ UNCHANGED <<row, logs, lastSequence, writer, captures, completing, cleaner,
                           fileBytes, messages>>

-----------------------------------------------------------------------------

ShrinkStep ==
    \/ PickOldest \/ DeleteJobLogs \/ DeleteCompletedJob \/ DeleteCompletedJobFails
    \/ GiveUp \/ CompactFile

HistoryNext ==
    \/ \E j \in Jobs : JobStarted(j) \/ JobCompleted(j)
    \/ StopTimesOut \/ CompleteRow
    \/ \E w \in Writers : CaptureWrites(w) \/ CaptureEnds(w)
    \/ DaemonEnds \/ Expire \/ StartShrinking \/ ShrinkStep
    \/ ReadPage

HistorySpec == HistoryInit /\ [][HistoryNext]_historyVars

\* The loop goes on by itself, and a row that it tries to delete again and again is deleted
\* in the end.
HistoryFairness == WF_historyVars(ShrinkStep) /\ SF_historyVars(DeleteCompletedJob)

-----------------------------------------------------------------------------
(* A capture goroutine writes for a running job with a row: neither a      *)
(* completion nor the clean-up takes the row away from under it, unless    *)
(* the store has lost the goroutine (a second JobStarted, jobs.go:206) or  *)
(* stopped waiting for it (jobs.go:241).                                   *)
WritersHaveARunningJob ==
    \A w \in Writers : Live(w) => writer[w].stray \/ row[writer[w].job] = "running"

(* Log rows without a job, which the console cannot show and the           *)
(* size-bounded clean-up cannot find, come only from goroutines the store  *)
(* has lost, from a deletion whose error was dropped, or from a job that   *)
(* starts again while the clean-up deletes what it had (host.go:113).       *)
NoOrphanLogs ==
    \A l \in logs : row[l.job] # "none" \/ l.stray \/ cleaner.lost

(* A console that follows a log by its sequence sees every row: rows of    *)
(* other jobs, clean-up and restarts in between do not make it skip one    *)
(* (jobs.go:398).                                                          *)
FollowerMissesNothing ==
    \A l \in LogsOf(follower.job) : l.seq <= follower.after => l.seq \in follower.seen

(* The size-bounded clean-up, which holds up the collection of host        *)
(* samples, ends if not every deletion fails (host.go:103).                *)
CleaningEnds == (cleaner.pc # "idle") ~> (cleaner.pc = "idle")
=============================================================================
