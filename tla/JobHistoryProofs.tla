-------------------------- MODULE JobHistoryProofs --------------------------
(***************************************************************************)
(* What holds of the rows of the job history (JobHistory) for every set of *)
(* jobs and goroutines, every size of a page and every limit of the file.  *)
(***************************************************************************)
EXTENDS JobHistory, FiniteSetTheorems, TLAPS

-----------------------------------------------------------------------------
(* Types *)

WriterStates == [job : Jobs \cup {Nothing}, cancelled : BOOLEAN, stray : BOOLEAN]

CleanerStates ==
    [pc : {"idle", "pick", "logs", "row"}, job : Jobs \cup {Nothing},
     freed : Nat, toFree : Nat, lost : BOOLEAN]

LogRows == [seq : Nat, job : Jobs, stray : BOOLEAN]

HistoryTypeOK ==
    /\ row \in [Jobs -> {"none", "running", "done"}]
    /\ logs \subseteq LogRows /\ IsFiniteSet(logs)
    /\ lastSequence \in Nat
    /\ writer \in [Writers -> WriterStates]
    /\ captures \in [Jobs -> Writers \cup {Nothing}]
    /\ completing \in Jobs \cup {Nothing}
    /\ cleaner \in CleanerStates
    /\ cleaner.pc \in {"logs", "row"} => cleaner.job \in Jobs
    /\ fileBytes \in Nat
    /\ follower \in [job : Jobs, after : Nat, seen : SUBSET Nat]

\* The number of rows is a number.
LEMMA BytesAreCounted ==
    ASSUME NEW rows, NEW ls, IsFiniteSet(ls), fileBytes \in Nat
    PROVE  LiveBytes(rows, ls) \in Nat /\ Grown(LiveBytes(rows, ls)) \in Nat
  <1> DEFINE present == {j \in Jobs : rows[j] # "none"}
  <1>1. IsFiniteSet(present)
    BY HistoryAssumption, FS_Subset
  <1> HIDE DEF present
  <1>2. Cardinality(present) \in Nat /\ Cardinality(ls) \in Nat
    BY <1>1, FS_CardinalityType
  <1>3. LiveBytes(rows, ls) \in Nat
    BY <1>2 DEF LiveBytes, present
  <1>4. QED
    BY <1>3 DEF Grown

\* No step of a message, a goroutine, the clean-up or the console leaves the types.
LEMMA HistoryTypesAreKept ==
    ASSUME HistoryTypeOK, [HistoryNext]_historyVars
    PROVE  HistoryTypeOK'
  <1>1. ASSUME NEW j \in Jobs, JobStarted(j)
        PROVE  HistoryTypeOK'
    <2>1. row' \in [Jobs -> {"none", "running", "done"}]
      BY <1>1 DEF JobStarted, UpsertStartedJob, HistoryTypeOK
    <2>2. fileBytes' \in Nat
      BY <1>1, BytesAreCounted DEF JobStarted, HistoryTypeOK
    <2>3. PICK w \in Writers :
             /\ writer' = [v \in Writers |->
                             IF v = w THEN [NoWriter EXCEPT !.job = j]
                             ELSE [writer[v] EXCEPT !.stray = @ \/ captures[j] = v]]
             /\ captures' = [captures EXCEPT ![j] = w]
      BY <1>1 DEF JobStarted
    <2>4. [NoWriter EXCEPT !.job = j] \in WriterStates
      BY DEF NoWriter, WriterStates
    <2>5. ASSUME NEW v \in Writers
          PROVE  [writer[v] EXCEPT !.stray = @ \/ captures[j] = v] \in WriterStates
      BY ZenonT(30) DEF HistoryTypeOK, WriterStates
    <2>6. writer' \in [Writers -> WriterStates]
      BY <2>3, <2>4, <2>5
    <2>7. captures' \in [Jobs -> Writers \cup {Nothing}]
      BY <2>3 DEF HistoryTypeOK
    <2>8. cleaner' \in CleanerStates /\ cleaner'.pc = cleaner.pc /\ cleaner'.job = cleaner.job
      BY <1>1 DEF JobStarted, HistoryTypeOK, CleanerStates
    <2>9. QED
      BY <1>1, <2>1, <2>2, <2>6, <2>7, <2>8 DEF JobStarted, HistoryTypeOK
  <1>2. ASSUME NEW j \in Jobs, JobCompleted(j)
        PROVE  HistoryTypeOK'
    <2>1. ASSUME NEW w \in Writers
          PROVE  [writer[w] EXCEPT !.cancelled = TRUE] \in WriterStates
      BY ZenonT(30) DEF HistoryTypeOK, WriterStates
    <2>2. writer' \in [Writers -> WriterStates]
      BY <1>2, <2>1 DEF JobCompleted, HistoryTypeOK
    <2>3. captures' \in [Jobs -> Writers \cup {Nothing}]
      BY <1>2 DEF JobCompleted, HistoryTypeOK
    <2>4. QED
      BY <1>2, <2>2, <2>3 DEF JobCompleted, HistoryTypeOK
  <1>3. CASE StopTimesOut
    <2>1. ASSUME NEW w \in Writers
          PROVE  [writer[w] EXCEPT !.stray = @ \/ (writer[w].job = completing
                                                   /\ writer[w].cancelled)] \in WriterStates
      BY DEF HistoryTypeOK, WriterStates
    <2>2. writer' \in [Writers -> WriterStates]
      BY <1>3, <2>1 DEF StopTimesOut
    <2>3. QED
      BY <1>3, <2>2 DEF StopTimesOut, HistoryTypeOK
  <1>4. CASE CompleteRow
    <2>1. completing \in Jobs
      BY <1>4 DEF CompleteRow, HistoryTypeOK
    <2>2. row' \in [Jobs -> {"none", "running", "done"}]
      BY <1>4, <2>1 DEF CompleteRow, InsertCompletedJob, UpdateJobCompleted, HistoryTypeOK
    <2>3. fileBytes' \in Nat
      BY <1>4, BytesAreCounted DEF CompleteRow, HistoryTypeOK
    <2>4. QED
      BY <1>4, <2>2, <2>3 DEF CompleteRow, HistoryTypeOK
  <1>5. ASSUME NEW w \in Writers, Write(w)
        PROVE  /\ logs' \subseteq LogRows /\ IsFiniteSet(logs')
               /\ lastSequence' \in Nat /\ fileBytes' \in Nat
    <2> DEFINE entry == [seq |-> lastSequence', job |-> writer[w].job,
                         stray |-> writer[w].stray]
    <2>1. lastSequence' \in Nat /\ entry \in LogRows
      BY <1>5 DEF Write, Live, HistoryTypeOK, WriterStates, LogRows
    <2>2. logs' = logs \cup {entry}
      BY <1>5 DEF Write, InsertJobRow
    <2> HIDE DEF entry
    <2>3. logs' \subseteq LogRows /\ IsFiniteSet(logs')
      BY <2>1, <2>2, FS_AddElement DEF HistoryTypeOK
    <2>4. fileBytes' \in Nat
      BY <1>5, <2>3, BytesAreCounted DEF Write, HistoryTypeOK
    <2>5. QED
      BY <2>1, <2>3, <2>4
  <1>6. ASSUME NEW w \in Writers, CaptureWrites(w)
        PROVE  HistoryTypeOK'
    BY <1>5, <1>6 DEF CaptureWrites, HistoryTypeOK
  <1>7. ASSUME NEW w \in Writers, CaptureEnds(w)
        PROVE  HistoryTypeOK'
    <2>1. NoWriter \in WriterStates
      BY DEF NoWriter, WriterStates
    <2>2. writer' \in [Writers -> WriterStates]
      BY <1>7, <2>1 DEF CaptureEnds, HistoryTypeOK
    <2>3. QED
      BY <1>5, <1>7, <2>2 DEF CaptureEnds, HistoryTypeOK
  <1>8. CASE DaemonEnds
    <2>1. NoWriter \in WriterStates
      BY DEF NoWriter, WriterStates
    <2>2. [IdleCleaner EXCEPT !.lost = cleaner.lost] \in CleanerStates
      BY DEF IdleCleaner, CleanerStates, HistoryTypeOK
    <2>3. cleaner'.pc = "idle"
      BY <1>8 DEF DaemonEnds, IdleCleaner
    <2>4. QED
      BY <1>8, <2>1, <2>2, <2>3 DEF DaemonEnds, HistoryTypeOK
  <1>9. CASE Expire
    <2>1. PICK old \in SUBSET {j \in Jobs : row[j] = "done"}, cutoff \in 0..lastSequence,
               logsFail \in BOOLEAN, jobsFail \in BOOLEAN :
             /\ logs' = IF logsFail THEN logs ELSE DeleteExpiredJobRows(cutoff, old)
             /\ row' = IF jobsFail THEN row ELSE DeleteExpiredJobs(old)
             /\ cleaner' = [cleaner EXCEPT !.lost = @ \/ (logsFail /\ old # {})]
      BY <1>9 DEF Expire
    <2>2. logs' \subseteq logs
      BY <2>1 DEF DeleteExpiredJobRows
    <2>3. logs' \subseteq LogRows /\ IsFiniteSet(logs')
      BY <2>2, FS_Subset DEF HistoryTypeOK
    <2>4. row' \in [Jobs -> {"none", "running", "done"}]
      BY <2>1 DEF DeleteExpiredJobs, HistoryTypeOK
    <2>5. cleaner' \in CleanerStates /\ cleaner'.pc = cleaner.pc
      BY <2>1 DEF HistoryTypeOK, CleanerStates
    <2>6. cleaner.pc = "idle"
      BY <1>9 DEF Expire
    <2>7. QED
      BY <1>9, <2>3, <2>4, <2>5, <2>6 DEF Expire, HistoryTypeOK
  <1>10. CASE StartShrinking
    <2>1. fileBytes - TargetBytes \in Nat
      BY <1>10, HistoryAssumption DEF StartShrinking, HistoryTypeOK
    <2>2. cleaner' \in CleanerStates /\ cleaner'.pc = "pick"
      BY <1>10, <2>1 DEF StartShrinking, HistoryTypeOK, CleanerStates
    <2>3. QED
      BY <1>10, <2>2 DEF StartShrinking, HistoryTypeOK
  <1>11. CASE PickOldest
    <2>1. PICK j \in Jobs :
             cleaner' = [cleaner EXCEPT !.pc = "logs", !.job = j,
                                        !.freed = cleaner.freed + SizeOfCompletedJob(j)]
      BY <1>11 DEF PickOldest
    <2>2. LogsOf(j) \subseteq logs
      BY DEF LogsOf
    <2>3. Cardinality(LogsOf(j)) \in Nat
      BY <2>2, FS_Subset, FS_CardinalityType DEF HistoryTypeOK
    <2>4. cleaner.freed + SizeOfCompletedJob(j) \in Nat
      BY <2>3 DEF SizeOfCompletedJob, HistoryTypeOK, CleanerStates
    <2>5. cleaner' \in CleanerStates /\ cleaner'.job = j
      BY <2>1, <2>4 DEF HistoryTypeOK, CleanerStates
    <2>6. QED
      BY <1>11, <2>5 DEF PickOldest, HistoryTypeOK
  <1>12. CASE DeleteJobLogs
    <2>1. cleaner' \in CleanerStates /\ cleaner'.job \in Jobs
      BY <1>12 DEF DeleteJobLogs, HistoryTypeOK, CleanerStates
    <2>2. logs' \subseteq logs
      BY <1>12 DEF DeleteJobLogs, DeleteJobRows
    <2>3. logs' \subseteq LogRows /\ IsFiniteSet(logs')
      BY <2>2, FS_Subset DEF HistoryTypeOK
    <2>4. QED
      BY <1>12, <2>1, <2>3 DEF DeleteJobLogs, HistoryTypeOK
  <1>13. CASE DeleteCompletedJob \/ DeleteCompletedJobFails
    <2>1. cleaner' \in CleanerStates /\ cleaner'.pc = "pick"
      BY <1>13
      DEF DeleteCompletedJob, DeleteCompletedJobFails, HistoryTypeOK, CleanerStates
    <2>2. row' \in [Jobs -> {"none", "running", "done"}]
      BY <1>13
      DEF DeleteCompletedJob, DeleteCompletedJobFails, DeleteCompletedJobRow, HistoryTypeOK
    <2>3. QED
      BY <1>13, <2>1, <2>2 DEF DeleteCompletedJob, DeleteCompletedJobFails, HistoryTypeOK
  <1>14. CASE GiveUp
    <2>1. [IdleCleaner EXCEPT !.lost = cleaner.lost] \in CleanerStates
      BY DEF IdleCleaner, CleanerStates, HistoryTypeOK
    <2>2. cleaner'.pc = "idle"
      BY <1>14 DEF GiveUp, IdleCleaner
    <2>3. QED
      BY <1>14, <2>1, <2>2 DEF GiveUp, HistoryTypeOK
  <1>15. CASE CompactFile
    <2>1. fileBytes' \in Nat
      BY <1>15, BytesAreCounted DEF CompactFile, HistoryTypeOK
    <2>2. CASE fileBytes' > TargetBytes
      <3>1. fileBytes' - TargetBytes \in Nat
        <4>1. PICK n \in Nat : fileBytes' = n
          BY <2>1
        <4>2. QED
          BY <2>2, <4>1, HistoryAssumption
      <3>2. cleaner' \in CleanerStates /\ cleaner'.pc = "pick"
        BY <1>15, <2>2, <3>1 DEF CompactFile, PickingEnds, HistoryTypeOK, CleanerStates
      <3>3. QED
        BY <1>15, <2>1, <3>2 DEF CompactFile, HistoryTypeOK
    <2>3. CASE ~(fileBytes' > TargetBytes)
      <3>1. [IdleCleaner EXCEPT !.lost = cleaner.lost] \in CleanerStates
        BY DEF IdleCleaner, CleanerStates, HistoryTypeOK
      <3>2. cleaner' \in CleanerStates /\ cleaner'.pc = "idle"
        BY <1>15, <2>3, <3>1 DEF CompactFile, IdleCleaner
      <3>3. QED
        BY <1>15, <2>1, <3>2 DEF CompactFile, HistoryTypeOK
    <2>4. QED
      BY <2>2, <2>3
  <1>16. CASE ReadPage
    <2> DEFINE page == ListJobLogsAfterSequence(follower.job, follower.after, PageSize)
    <2>1. PICK last \in page :
             follower' = [follower EXCEPT !.after = last.seq,
                                          !.seen = follower.seen \cup {l.seq : l \in page}]
      BY <1>16 DEF ReadPage
    <2>2. page \subseteq LogRows
      BY DEF ListJobLogsAfterSequence, LogsOf, HistoryTypeOK
    <2> HIDE DEF page
    <2>3. last.seq \in Nat /\ {l.seq : l \in page} \subseteq Nat
      BY <2>2 DEF LogRows
    <2>4. follower' \in [job : Jobs, after : Nat, seen : SUBSET Nat]
      BY <2>1, <2>3 DEF HistoryTypeOK
    <2>5. QED
      BY <1>16, <2>4, ZenonT(30) DEF ReadPage, HistoryTypeOK
  <1>17. CASE UNCHANGED historyVars
    BY <1>17 DEF historyVars, HistoryTypeOK
  <1>18. QED
    BY <1>1, <1>2, <1>3, <1>4, <1>6, <1>7, <1>8, <1>9, <1>10, <1>11, <1>12, <1>13, <1>14,
       <1>15, <1>16, <1>17
    DEF HistoryNext, ShrinkStep

-----------------------------------------------------------------------------
(* Who writes for which job *)

\* What the map of the store names is a goroutine that captures that job, which runs.
CapturesAreHeld ==
    \A j \in Jobs : captures[j] # Nothing =>
        /\ writer[captures[j]].job = j /\ ~writer[captures[j]].cancelled
        /\ row[j] = "running" /\ completing # j

\* A goroutine the store has not lost is in the map, or a completion waits for it.
WritersAreKnown ==
    \A w \in Writers : Live(w) /\ ~writer[w].stray =>
        /\ row[writer[w].job] = "running"
        /\ \/ captures[writer[w].job] = w
           \/ completing = writer[w].job /\ writer[w].cancelled

\* What the clean-up is about to delete does not run, and once it has deleted the logs there
\* are none, unless it has lost some.
CleanerLeavesNone ==
    ~cleaner.lost =>
        /\ cleaner.pc \in {"logs", "row"} => row[cleaner.job] # "running"
        /\ cleaner.pc = "row" => \A l \in logs : l.job = cleaner.job => l.stray

\* No row has a number that was not given, and the console has not read beyond them.
FollowerIsBehind ==
    /\ \A l \in logs : l.seq <= lastSequence
    /\ follower.after <= lastSequence

\* The invariant: each part is kept with the help of the ones before it.
HistoryInv ==
    /\ HistoryTypeOK /\ CapturesAreHeld /\ WritersAreKnown
    /\ CleanerLeavesNone /\ NoOrphanLogs
    /\ FollowerIsBehind /\ FollowerMissesNothing

\* What startCapture leaves behind: a goroutine of the job, and the store has lost the one
\* it had (jobs.go:206).
LEMMA CaptureStarts ==
    ASSUME HistoryTypeOK, NEW j \in Jobs, JobStarted(j)
    PROVE  \E w \in Writers :
              /\ captures' = [captures EXCEPT ![j] = w]
              /\ writer[w].job = Nothing
              /\ writer'[w].job = j /\ ~writer'[w].cancelled /\ ~writer'[w].stray
              /\ \A v \in Writers \ {w} :
                    /\ writer'[v].job = writer[v].job
                    /\ writer'[v].cancelled = writer[v].cancelled
                    /\ writer'[v].stray <=> writer[v].stray \/ captures[j] = v
  <1>1. PICK w \in Writers :
           /\ ~Live(w)
           /\ writer' = [v \in Writers |->
                           IF v = w THEN [NoWriter EXCEPT !.job = j]
                           ELSE [writer[v] EXCEPT !.stray = @ \/ captures[j] = v]]
           /\ captures' = [captures EXCEPT ![j] = w]
    BY DEF JobStarted
  <1>2. writer'[w].job = j /\ ~writer'[w].cancelled /\ ~writer'[w].stray
    BY <1>1 DEF NoWriter
  <1>3. ASSUME NEW v \in Writers \ {w}
        PROVE  /\ writer'[v].job = writer[v].job
               /\ writer'[v].cancelled = writer[v].cancelled
               /\ writer'[v].stray <=> writer[v].stray \/ captures[j] = v
    <2>1. writer'[v] = [writer[v] EXCEPT !.stray = @ \/ captures[j] = v]
      BY <1>1
    <2>2. writer[v] \in WriterStates
      BY DEF HistoryTypeOK
    <2>3. QED
      BY <2>1, <2>2 DEF WriterStates
  <1>4. QED
    BY <1>1, <1>2, <1>3 DEF Live

\* Only the goroutine of the completed job is cancelled.
LEMMA CaptureIsCancelled ==
    ASSUME HistoryTypeOK, NEW j \in Jobs, JobCompleted(j), NEW w \in Writers
    PROVE  /\ writer'[w].job = writer[w].job
           /\ writer'[w].stray = writer[w].stray
           /\ writer'[w].cancelled <=> writer[w].cancelled \/ captures[j] = w
  <1>1. writer[w] \in WriterStates
    BY DEF HistoryTypeOK
  <1>2. QED
    BY <1>1 DEF JobCompleted, WriterStates

\* Giving up the wait loses the goroutine and nothing else.
LEMMA WaitIsGivenUp ==
    ASSUME HistoryTypeOK, StopTimesOut, NEW w \in Writers
    PROVE  /\ writer'[w].job = writer[w].job
           /\ writer'[w].cancelled = writer[w].cancelled
           /\ writer'[w].stray <=>
                writer[w].stray \/ (writer[w].job = completing /\ writer[w].cancelled)
  <1>1. writer[w] \in WriterStates
    BY DEF HistoryTypeOK
  <1>2. QED
    BY <1>1 DEF StopTimesOut, WriterStates

\* Neither the clean-up nor a completion takes a running row: they delete completed ones,
\* and complete the job whose capture is gone.
LEMMA RunningRowStays ==
    ASSUME HistoryTypeOK, [HistoryNext]_historyVars, NEW k \in Jobs, row[k] = "running"
    PROVE  row'[k] = "running" \/ (completing = k /\ CompleteRow)
  <1>1. ASSUME NEW j \in Jobs, JobStarted(j) \/ JobCompleted(j)
        PROVE  row'[k] = "running"
    BY <1>1 DEF JobStarted, JobCompleted, UpsertStartedJob, HistoryTypeOK
  <1>2. CASE CompleteRow
    <2>1. completing \in Jobs
      BY <1>2 DEF CompleteRow, HistoryTypeOK
    <2>2. QED
      BY <1>2, <2>1 DEF CompleteRow, InsertCompletedJob, UpdateJobCompleted, HistoryTypeOK
  <1>3. CASE Expire
    BY <1>3 DEF Expire, DeleteExpiredJobs, HistoryTypeOK
  <1>4. CASE DeleteCompletedJob
    BY <1>4 DEF DeleteCompletedJob, DeleteCompletedJobRow, HistoryTypeOK
  <1>5. ASSUME NEW w \in Writers, CaptureWrites(w) \/ CaptureEnds(w)
        PROVE  row'[k] = "running"
    BY <1>5 DEF CaptureWrites, CaptureEnds
  <1>6. CASE \/ StopTimesOut \/ DaemonEnds \/ StartShrinking \/ PickOldest \/ DeleteJobLogs
             \/ DeleteCompletedJobFails \/ GiveUp \/ CompactFile \/ ReadPage
             \/ UNCHANGED historyVars
    BY <1>6 DEF StopTimesOut, DaemonEnds, StartShrinking, PickOldest, DeleteJobLogs,
       DeleteCompletedJobFails, GiveUp, CompactFile, ReadPage, historyVars
  <1>7. QED
    BY <1>1, <1>2, <1>3, <1>4, <1>5, <1>6 DEF HistoryNext, ShrinkStep

\* The map goes on naming live goroutines of running jobs: a completion takes its entry
\* away before it stops the goroutine, and only cancelled goroutines end.
LEMMA CapturesStayHeld ==
    ASSUME HistoryTypeOK, HistoryTypeOK', CapturesAreHeld, [HistoryNext]_historyVars
    PROVE  CapturesAreHeld'
  <1> SUFFICES ASSUME NEW k \in Jobs, captures'[k] # Nothing
               PROVE  /\ writer'[captures'[k]].job = k /\ ~writer'[captures'[k]].cancelled
                      /\ row'[k] = "running" /\ completing' # k
    BY DEF CapturesAreHeld
  <1>1. captures'[k] \in Writers
    BY DEF HistoryTypeOK
  <1>2. ASSUME captures'[k] = captures[k], completing' # k,
               writer'[captures[k]].job = writer[captures[k]].job,
               writer'[captures[k]].cancelled = writer[captures[k]].cancelled
        PROVE  /\ writer'[captures'[k]].job = k /\ ~writer'[captures'[k]].cancelled
               /\ row'[k] = "running" /\ completing' # k
    BY <1>2, RunningRowStays DEF CapturesAreHeld
  <1>3. ASSUME NEW j \in Jobs, JobStarted(j)
        PROVE  /\ writer'[captures'[k]].job = k /\ ~writer'[captures'[k]].cancelled
               /\ row'[k] = "running" /\ completing' # k
    <2>1. PICK w \in Writers :
              /\ captures' = [captures EXCEPT ![j] = w]
              /\ writer[w].job = Nothing
              /\ writer'[w].job = j /\ ~writer'[w].cancelled /\ ~writer'[w].stray
              /\ \A v \in Writers \ {w} :
                    /\ writer'[v].job = writer[v].job
                    /\ writer'[v].cancelled = writer[v].cancelled
                    /\ writer'[v].stray <=> writer[v].stray \/ captures[j] = v
      BY <1>3, CaptureStarts
    <2>2. completing' # k
      BY <1>3, HistoryAssumption DEF JobStarted
    <2>3. CASE k = j
      <3>1. row'[k] = "running"
        BY <1>3, <2>3 DEF JobStarted, UpsertStartedJob, HistoryTypeOK
      <3>2. captures'[k] = w
        BY <2>1, <2>3 DEF HistoryTypeOK
      <3>3. QED
        BY <2>1, <2>2, <2>3, <3>1, <3>2
    <2>4. CASE k # j
      <3>1. captures'[k] = captures[k]
        BY <2>1, <2>4 DEF HistoryTypeOK
      <3>2. writer[captures[k]].job = k /\ captures[k] \in Writers
        BY <1>1, <3>1 DEF CapturesAreHeld
      <3>3. captures[k] # w
        BY <2>1, <3>2, HistoryAssumption
      <3>4. QED
        BY <1>2, <2>1, <2>2, <3>1, <3>2, <3>3
    <2>5. QED
      BY <2>3, <2>4
  <1>4. ASSUME NEW j \in Jobs, JobCompleted(j)
        PROVE  /\ writer'[captures'[k]].job = k /\ ~writer'[captures'[k]].cancelled
               /\ row'[k] = "running" /\ completing' # k
    <2>1. captures'[k] = captures[k] /\ k # j /\ completing' = j
      BY <1>4 DEF JobCompleted, HistoryTypeOK
    <2>2. writer[captures[k]].job = k /\ captures[k] \in Writers
      BY <1>1, <2>1 DEF CapturesAreHeld
    <2>3. captures[j] # captures[k]
      BY <2>1, <2>2, HistoryAssumption DEF CapturesAreHeld
    <2>4. /\ writer'[captures[k]].job = writer[captures[k]].job
          /\ writer'[captures[k]].cancelled <=> writer[captures[k]].cancelled
      BY <1>4, <2>2, <2>3, CaptureIsCancelled
    <2>5. row'[k] = "running"
      BY <1>4, <2>1, <1>1 DEF JobCompleted, CapturesAreHeld
    <2>6. QED
      BY <1>1, <2>1, <2>2, <2>4, <2>5 DEF CapturesAreHeld
  <1>5. CASE StopTimesOut
    <2>1. captures' = captures /\ completing' = completing
      BY <1>5 DEF StopTimesOut
    <2>2. QED
      BY <1>1, <1>2, <1>5, <2>1, WaitIsGivenUp DEF CapturesAreHeld
  <1>6. CASE CompleteRow
    <2>1. captures' = captures /\ writer' = writer /\ completing' = Nothing
      BY <1>6 DEF CompleteRow
    <2>2. QED
      BY <1>2, <2>1, HistoryAssumption
  <1>7. ASSUME NEW w \in Writers, CaptureEnds(w)
        PROVE  /\ writer'[captures'[k]].job = k /\ ~writer'[captures'[k]].cancelled
               /\ row'[k] = "running" /\ completing' # k
    <2>1. /\ captures' = captures /\ completing' = completing /\ writer[w].cancelled
          /\ writer' = [writer EXCEPT ![w] = NoWriter]
      BY <1>7 DEF CaptureEnds
    <2>2. captures[k] # w
      BY <1>1, <2>1 DEF CapturesAreHeld
    <2>3. writer'[captures[k]] = writer[captures[k]]
      BY <1>1, <2>1, <2>2 DEF HistoryTypeOK
    <2>4. QED
      BY <1>1, <1>2, <2>1, <2>3 DEF CapturesAreHeld
  <1>8. CASE DaemonEnds
    BY <1>8, <1>1 DEF DaemonEnds
  <1>9. ASSUME UNCHANGED <<captures, writer, completing>>
        PROVE  /\ writer'[captures'[k]].job = k /\ ~writer'[captures'[k]].cancelled
               /\ row'[k] = "running" /\ completing' # k
    BY <1>2, <1>9 DEF CapturesAreHeld
  <1>10. ASSUME NEW w \in Writers, CaptureWrites(w)
         PROVE  UNCHANGED <<captures, writer, completing>>
    BY <1>10 DEF CaptureWrites
  <1>11. CASE \/ Expire \/ StartShrinking \/ ShrinkStep \/ ReadPage \/ UNCHANGED historyVars
    <2>1. UNCHANGED <<captures, writer, completing>>
      BY <1>11 DEF Expire, StartShrinking, ShrinkStep, PickOldest, DeleteJobLogs,
         DeleteCompletedJob, DeleteCompletedJobFails, GiveUp, CompactFile, ReadPage,
         historyVars
    <2>2. QED
      BY <1>9, <2>1
  <1>12. QED
    BY <1>3, <1>4, <1>5, <1>6, <1>7, <1>8, <1>9, <1>10, <1>11 DEF HistoryNext

\* Nor does a step leave a goroutine without its job: a second start and a wait that was
\* given up mark it as lost, a completion waits for the ones that are left.
LEMMA WritersStayKnown ==
    ASSUME HistoryTypeOK, HistoryTypeOK', CapturesAreHeld, WritersAreKnown,
           [HistoryNext]_historyVars
    PROVE  WritersAreKnown'
  <1> DEFINE Known(w) ==
               /\ row'[writer'[w].job] = "running"
               /\ \/ captures'[writer'[w].job] = w
                  \/ completing' = writer'[w].job /\ writer'[w].cancelled
  <1> SUFFICES ASSUME NEW v \in Writers, writer'[v].job # Nothing, ~writer'[v].stray
               PROVE  Known(v)
    BY DEF WritersAreKnown, Live
  <1>0. writer'[v].job \in Jobs /\ writer[v] \in WriterStates
    BY DEF HistoryTypeOK, WriterStates
  <1>1. ASSUME writer[v].job = writer'[v].job, ~writer[v].stray
        PROVE  /\ row[writer'[v].job] = "running"
               /\ \/ captures[writer'[v].job] = v
                  \/ completing = writer'[v].job /\ writer[v].cancelled
    BY <1>1 DEF WritersAreKnown, Live
  <1>3. ASSUME NEW j \in Jobs, JobStarted(j)
        PROVE  Known(v)
    <2>1. PICK w \in Writers :
              /\ captures' = [captures EXCEPT ![j] = w]
              /\ writer[w].job = Nothing
              /\ writer'[w].job = j /\ ~writer'[w].cancelled /\ ~writer'[w].stray
              /\ \A u \in Writers \ {w} :
                    /\ writer'[u].job = writer[u].job
                    /\ writer'[u].cancelled = writer[u].cancelled
                    /\ writer'[u].stray <=> writer[u].stray \/ captures[j] = u
      BY <1>3, CaptureStarts
    <2>2. row' = [row EXCEPT ![j] = "running"] /\ completing = Nothing
      BY <1>3 DEF JobStarted, UpsertStartedJob
    <2>3. CASE v = w
      BY <2>1, <2>2, <2>3 DEF HistoryTypeOK
    <2>4. CASE v # w
      <3>1. writer[v].job = writer'[v].job /\ ~writer[v].stray /\ captures[j] # v
        BY <2>1, <2>4
      <3>2. row[writer'[v].job] = "running" /\ captures[writer'[v].job] = v
        BY <1>0, <1>1, <2>2, <3>1, HistoryAssumption
      <3>3. writer'[v].job # j
        BY <3>1, <3>2
      <3>4. QED
        BY <1>0, <2>1, <2>2, <3>2, <3>3 DEF HistoryTypeOK
    <2>5. QED
      BY <2>3, <2>4
  <1>4. ASSUME NEW j \in Jobs, JobCompleted(j)
        PROVE  Known(v)
    <2>1. /\ writer'[v].job = writer[v].job
          /\ writer'[v].stray = writer[v].stray
          /\ writer'[v].cancelled <=> writer[v].cancelled \/ captures[j] = v
      BY <1>4, CaptureIsCancelled
    <2>2. /\ completing = Nothing /\ completing' = j /\ row' = row
          /\ captures' = [captures EXCEPT ![j] = Nothing]
      BY <1>4 DEF JobCompleted
    <2>3. row[writer'[v].job] = "running" /\ captures[writer'[v].job] = v
      BY <1>0, <1>1, <2>1, <2>2, HistoryAssumption
    <2>4. CASE writer'[v].job = j
      BY <2>1, <2>2, <2>3, <2>4
    <2>5. CASE writer'[v].job # j
      BY <1>0, <2>2, <2>3, <2>5 DEF HistoryTypeOK
    <2>6. QED
      BY <2>4, <2>5
  <1>5. CASE StopTimesOut
    <2>1. /\ writer'[v].job = writer[v].job
          /\ writer'[v].cancelled = writer[v].cancelled
          /\ ~writer[v].stray
      BY <1>5, WaitIsGivenUp
    <2>2. captures' = captures /\ completing' = completing /\ row' = row
      BY <1>5 DEF StopTimesOut
    <2>3. QED
      BY <1>1, <2>1, <2>2
  <1>6. CASE CompleteRow
    <2>1. /\ captures' = captures /\ writer' = writer /\ completing' = Nothing
          /\ \A w \in Writers : (writer[w].job = completing /\ writer[w].cancelled)
                                   => writer[w].stray
      BY <1>6 DEF CompleteRow
    <2>2. row[writer'[v].job] = "running" /\ captures[writer'[v].job] = v
      BY <1>1, <2>1
    <2>3. completing # writer'[v].job
      BY <1>0, <2>2, HistoryAssumption DEF CapturesAreHeld
    <2>4. QED
      BY <1>0, <2>1, <2>2, <2>3, RunningRowStays
  <1>7. ASSUME NEW w \in Writers, CaptureEnds(w)
        PROVE  Known(v)
    <2>1. /\ captures' = captures /\ completing' = completing /\ row' = row
          /\ writer' = [writer EXCEPT ![w] = NoWriter]
      BY <1>7 DEF CaptureEnds
    <2>2. v # w
      BY <2>1 DEF NoWriter, HistoryTypeOK
    <2>3. writer'[v] = writer[v]
      BY <2>1, <2>2 DEF HistoryTypeOK
    <2>4. QED
      BY <1>1, <2>1, <2>3
  <1>8. CASE DaemonEnds
    BY <1>8 DEF DaemonEnds, NoWriter
  <1>9. ASSUME NEW w \in Writers, CaptureWrites(w)
        PROVE  Known(v)
    <2>1. UNCHANGED <<captures, writer, completing, row>>
      BY <1>9 DEF CaptureWrites
    <2>2. QED
      BY <1>1, <2>1
  <1>10. CASE Expire \/ DeleteCompletedJob
    <2>1. UNCHANGED <<captures, writer, completing>>
      BY <1>10 DEF Expire, DeleteCompletedJob
    <2>2. ASSUME NEW k \in Jobs, row[k] = "running"
          PROVE  row'[k] = "running"
      BY <1>10, <2>2 DEF Expire, DeleteExpiredJobs, DeleteCompletedJob,
         DeleteCompletedJobRow, HistoryTypeOK
    <2>3. QED
      BY <1>0, <1>1, <2>1, <2>2
  <1>11. CASE \/ StartShrinking \/ PickOldest \/ DeleteJobLogs \/ DeleteCompletedJobFails
              \/ GiveUp \/ CompactFile \/ ReadPage \/ UNCHANGED historyVars
    <2>1. UNCHANGED <<captures, writer, completing, row>>
      BY <1>11 DEF StartShrinking, PickOldest, DeleteJobLogs,
         DeleteCompletedJobFails, GiveUp, CompactFile, ReadPage, historyVars
    <2>2. QED
      BY <1>1, <2>1
  <1>12. QED
    BY <1>3, <1>4, <1>5, <1>6, <1>7, <1>8, <1>9, <1>10, <1>11 DEF HistoryNext, ShrinkStep

-----------------------------------------------------------------------------
(* Rows and their jobs *)

\* A written row is of a running job, or of a goroutine that is lost.
LEMMA WrittenForRunning ==
    ASSUME HistoryTypeOK, WritersAreKnown, NEW w \in Writers, Write(w)
    PROVE  \E entry \in LogRows :
              /\ logs' = logs \cup {entry}
              /\ entry.stray \/ row[entry.job] = "running"
              /\ entry.seq = lastSequence + 1 /\ lastSequence' = lastSequence + 1
  <1> DEFINE entry == [seq |-> lastSequence', job |-> writer[w].job, stray |-> writer[w].stray]
  <1>1. writer[w] \in WriterStates /\ writer[w].job # Nothing
    BY DEF Write, Live, HistoryTypeOK
  <1>2. entry \in LogRows
    BY <1>1 DEF WriterStates, LogRows, Write, HistoryTypeOK
  <1>3. entry.stray \/ row[entry.job] = "running"
    BY <1>1 DEF WritersAreKnown, Live
  <1>4. logs' = logs \cup {entry} /\ lastSequence' = lastSequence + 1
    BY DEF Write, InsertJobRow
  <1>5. QED
    BY <1>2, <1>3, <1>4

\* The clean-up goes on to find no other rows than those it leaves knowingly: what it picks
\* does not run, and what a job writes that starts again in between counts as lost.
LEMMA CleanerStillLeavesNone ==
    ASSUME HistoryTypeOK, HistoryTypeOK', WritersAreKnown, CleanerLeavesNone,
           [HistoryNext]_historyVars
    PROVE  CleanerLeavesNone'
  <1> SUFFICES ASSUME ~cleaner'.lost, cleaner'.pc \in {"logs", "row"}
               PROVE  /\ row'[cleaner'.job] # "running"
                      /\ cleaner'.pc = "row" =>
                           \A l \in logs' : l.job = cleaner'.job => l.stray
    BY DEF CleanerLeavesNone
  <1> DEFINE LeavesNone == /\ row'[cleaner'.job] # "running"
                           /\ cleaner'.pc = "row" =>
                                \A l \in logs' : l.job = cleaner'.job => l.stray
  <1>0. cleaner' \in CleanerStates /\ cleaner \in CleanerStates /\ cleaner'.job \in Jobs
    BY DEF HistoryTypeOK
  <1>1. ASSUME UNCHANGED cleaner
        PROVE  /\ row[cleaner'.job] # "running"
               /\ cleaner'.pc = "row" => \A l \in logs : l.job = cleaner'.job => l.stray
    BY <1>1 DEF CleanerLeavesNone
  <1>2. ASSUME NEW j \in Jobs, JobStarted(j)
        PROVE  LeavesNone
    <2>1. /\ cleaner'.pc = cleaner.pc /\ cleaner'.job = cleaner.job
          /\ ~cleaner.lost /\ cleaner.job # j
      BY <1>0, <1>2 DEF JobStarted, CleanerStates
    <2>2. logs' = logs /\ row'[cleaner.job] = row[cleaner.job]
      BY <1>0, <1>2, <2>1 DEF JobStarted, UpsertStartedJob, HistoryTypeOK
    <2>3. QED
      BY <2>1, <2>2 DEF CleanerLeavesNone
  <1>3. ASSUME NEW w \in Writers, CaptureWrites(w) \/ CaptureEnds(w)
        PROVE  LeavesNone
    <2>1. UNCHANGED <<cleaner, row>> /\ (Write(w) \/ UNCHANGED logs)
      BY <1>3 DEF CaptureWrites, CaptureEnds
    <2>2. CASE UNCHANGED logs
      BY <1>1, <2>1, <2>2
    <2>3. CASE Write(w)
      <3>1. PICK entry \in LogRows :
               logs' = logs \cup {entry} /\ (entry.stray \/ row[entry.job] = "running")
        BY <2>3, WrittenForRunning
      <3>2. QED
        BY <1>1, <2>1, <3>1
    <2>4. QED
      BY <2>1, <2>2, <2>3
  <1>4. CASE CompleteRow
    <2>1. UNCHANGED <<cleaner, logs>> /\ completing \in Jobs
      BY <1>4 DEF CompleteRow, HistoryTypeOK
    <2>2. row'[cleaner'.job] # "running"
      BY <1>0, <1>1, <1>4, <2>1
      DEF CompleteRow, InsertCompletedJob, UpdateJobCompleted, HistoryTypeOK
    <2>3. QED
      BY <1>1, <2>1, <2>2
  <1>5. CASE PickOldest
    <2>1. PICK j \in Jobs :
             /\ row[j] = "done"
             /\ cleaner' = [cleaner EXCEPT !.pc = "logs", !.job = j,
                                           !.freed = cleaner.freed + SizeOfCompletedJob(j)]
      BY <1>5 DEF PickOldest
    <2>2. cleaner'.pc = "logs" /\ cleaner'.job = j
      BY <1>0, <2>1 DEF CleanerStates
    <2>3. row' = row
      BY <1>5 DEF PickOldest
    <2>4. QED
      BY <2>1, <2>2, <2>3
  <1>6. CASE DeleteJobLogs
    <2>1. cleaner.pc = "logs" /\ row' = row
      BY <1>6 DEF DeleteJobLogs
    <2>2. logs' = DeleteJobRows(cleaner.job) /\ cleaner' = [cleaner EXCEPT !.pc = "row"]
      BY <1>0, <1>6 DEF DeleteJobLogs, CleanerStates
    <2>3. cleaner'.job = cleaner.job /\ ~cleaner.lost
      BY <1>0, <2>2 DEF CleanerStates
    <2>4. QED
      BY <2>1, <2>2, <2>3 DEF CleanerLeavesNone, DeleteJobRows
  <1>7. CASE \/ DaemonEnds \/ Expire \/ StartShrinking \/ DeleteCompletedJob
             \/ DeleteCompletedJobFails \/ GiveUp \/ CompactFile
    <2>1. CASE Expire
      <3>1. cleaner.pc = "idle" /\ \E b \in BOOLEAN : cleaner' = [cleaner EXCEPT !.lost = b]
        <4>1. PICK b : cleaner' = [cleaner EXCEPT !.lost = b]
          BY <2>1 DEF Expire
        <4>2. [cleaner EXCEPT !.lost = b].lost = b
          BY <1>0 DEF CleanerStates
        <4>3. QED
          BY <1>0, <2>1, <4>1, <4>2 DEF Expire, CleanerStates
      <3>2. cleaner'.pc = "idle"
        BY <1>0, <3>1 DEF CleanerStates
      <3>3. QED
        BY <3>2
    <2>2. CASE CompactFile
      <3>1. cleaner.pc = "pick"
        BY <2>2 DEF CompactFile, PickingEnds
      <3>2. CASE fileBytes' > TargetBytes
        <4>1. cleaner' = [cleaner EXCEPT !.freed = 0, !.toFree = fileBytes' - TargetBytes]
          BY <2>2, <3>2 DEF CompactFile
        <4>2. cleaner'.pc = "pick"
          BY <1>0, <3>1, <4>1 DEF CleanerStates
        <4>3. QED
          BY <4>2
      <3>3. CASE ~(fileBytes' > TargetBytes)
        BY <2>2, <3>3 DEF CompactFile, IdleCleaner
      <3>4. QED
        BY <3>2, <3>3
    <2>3. CASE DaemonEnds \/ GiveUp
      BY <2>3 DEF DaemonEnds, GiveUp, IdleCleaner
    <2>4. CASE StartShrinking \/ DeleteCompletedJob \/ DeleteCompletedJobFails
      <3>1. cleaner'.pc = "pick"
        BY <1>0, <2>4
        DEF StartShrinking, DeleteCompletedJob, DeleteCompletedJobFails, CleanerStates
      <3>2. QED
        BY <3>1
    <2>5. QED
      BY <1>7, <2>1, <2>2, <2>3, <2>4
  <1>8. ASSUME NEW j \in Jobs, JobCompleted(j)
        PROVE  UNCHANGED <<cleaner, row, logs>>
    BY <1>8 DEF JobCompleted
  <1>9. CASE StopTimesOut \/ ReadPage \/ UNCHANGED historyVars
    <2>1. UNCHANGED <<cleaner, row, logs>>
      BY <1>9 DEF StopTimesOut, ReadPage, historyVars
    <2>2. QED
      BY <1>1, <2>1
  <1>10. QED
    BY <1>1, <1>2, <1>3, <1>4, <1>5, <1>6, <1>7, <1>8, <1>9 DEF HistoryNext, ShrinkStep

\* What is lost stays known as lost.
LEMMA LostStaysLost ==
    ASSUME HistoryTypeOK, [HistoryNext]_historyVars, cleaner.lost
    PROVE  cleaner'.lost
  <1>0. cleaner \in CleanerStates
    BY DEF HistoryTypeOK
  <1>1. CASE DaemonEnds \/ GiveUp
    BY <1>1 DEF DaemonEnds, GiveUp, IdleCleaner
  <1>2. CASE CompactFile
    <2>1. CASE fileBytes' > TargetBytes
      BY <1>0, <1>2, <2>1 DEF CompactFile, CleanerStates
    <2>2. CASE ~(fileBytes' > TargetBytes)
      BY <1>2, <2>2 DEF CompactFile, IdleCleaner
    <2>3. QED
      BY <2>1, <2>2
  <1>3. CASE Expire
    <2>1. PICK old, logsFail :
             cleaner' = [cleaner EXCEPT !.lost = cleaner.lost \/ (logsFail /\ old # {})]
      BY <1>3 DEF Expire
    <2>2. QED
      BY <1>0, <2>1 DEF CleanerStates
  <1>4. ASSUME NEW j \in Jobs, JobStarted(j)
        PROVE  cleaner'.lost
    BY <1>0, <1>4 DEF JobStarted, CleanerStates
  <1>5. CASE StartShrinking \/ DeleteJobLogs \/ DeleteCompletedJob \/ DeleteCompletedJobFails
    BY <1>0, <1>5 DEF StartShrinking, DeleteJobLogs, DeleteCompletedJob,
       DeleteCompletedJobFails, CleanerStates
  <1>6. CASE PickOldest
    <2>1. PICK j \in Jobs :
             cleaner' = [cleaner EXCEPT !.pc = "logs", !.job = j,
                                        !.freed = cleaner.freed + SizeOfCompletedJob(j)]
      BY <1>6 DEF PickOldest
    <2>2. QED
      BY <1>0, <2>1 DEF CleanerStates
  <1>7. ASSUME NEW j \in Jobs, JobCompleted(j)
        PROVE  cleaner' = cleaner
    BY <1>7 DEF JobCompleted
  <1>8. ASSUME NEW w \in Writers, CaptureWrites(w) \/ CaptureEnds(w)
        PROVE  cleaner' = cleaner
    BY <1>8 DEF CaptureWrites, CaptureEnds
  <1>9. CASE StopTimesOut \/ CompleteRow \/ ReadPage \/ UNCHANGED historyVars
    BY <1>9 DEF StopTimesOut, CompleteRow, ReadPage, historyVars
  <1>10. QED
    BY <1>1, <1>2, <1>3, <1>4, <1>5, <1>6, <1>7, <1>8, <1>9 DEF HistoryNext, ShrinkStep

\* A row of the jobs table goes away only when no log row of its job is left that is not
\* accounted for; and no log row comes without a job.
LEMMA OrphansAreStillKnown ==
    ASSUME HistoryTypeOK, HistoryTypeOK', WritersAreKnown, CleanerLeavesNone, NoOrphanLogs,
           [HistoryNext]_historyVars
    PROVE  NoOrphanLogs'
  <1> SUFFICES ASSUME NEW l \in logs', ~l.stray, ~cleaner'.lost
               PROVE  row'[l.job] # "none"
    BY DEF NoOrphanLogs
  <1>0. l.job \in Jobs /\ ~cleaner.lost
    BY LostStaysLost DEF HistoryTypeOK, LogRows
  <1>1. l \in logs => row[l.job] # "none"
    BY <1>0 DEF NoOrphanLogs
  <1>2. ASSUME NEW j \in Jobs, JobStarted(j) \/ JobCompleted(j)
        PROVE  row'[l.job] # "none"
    BY <1>0, <1>1, <1>2 DEF JobStarted, JobCompleted, UpsertStartedJob, HistoryTypeOK
  <1>3. ASSUME NEW w \in Writers, CaptureWrites(w) \/ CaptureEnds(w)
        PROVE  row'[l.job] # "none"
    <2>1. row' = row /\ (Write(w) \/ UNCHANGED logs)
      BY <1>3 DEF CaptureWrites, CaptureEnds
    <2>2. CASE Write(w)
      <3>1. PICK entry \in LogRows :
               logs' = logs \cup {entry} /\ (entry.stray \/ row[entry.job] = "running")
        BY <2>2, WrittenForRunning
      <3>2. QED
        BY <1>1, <2>1, <3>1
    <2>3. QED
      BY <1>1, <2>1, <2>2
  <1>4. CASE CompleteRow
    <2>1. logs' = logs /\ completing \in Jobs
      BY <1>4 DEF CompleteRow, HistoryTypeOK
    <2>2. QED
      BY <1>0, <1>1, <1>4, <2>1
      DEF CompleteRow, InsertCompletedJob, UpdateJobCompleted, HistoryTypeOK
  <1>5. CASE Expire
    <2>1. PICK old \in SUBSET {j \in Jobs : row[j] = "done"}, cutoff \in 0..lastSequence,
               logsFail \in BOOLEAN, jobsFail \in BOOLEAN :
             /\ logs' = IF logsFail THEN logs ELSE DeleteExpiredJobRows(cutoff, old)
             /\ row' = IF jobsFail THEN row ELSE DeleteExpiredJobs(old)
             /\ cleaner' = [cleaner EXCEPT !.lost = @ \/ (logsFail /\ old # {})]
      BY <1>5 DEF Expire
    <2>2. ~(logsFail /\ old # {})
      BY <2>1 DEF HistoryTypeOK, CleanerStates
    <2>3. l \in logs /\ l.job \notin old
      BY <2>1, <2>2 DEF DeleteExpiredJobRows
    <2>4. QED
      BY <1>0, <1>1, <2>1, <2>3 DEF DeleteExpiredJobs
  <1>6. CASE DeleteJobLogs
    BY <1>1, <1>6 DEF DeleteJobLogs, DeleteJobRows
  <1>7. CASE DeleteCompletedJob
    <2>1. logs' = logs /\ cleaner.pc = "row" /\ row' = DeleteCompletedJobRow(cleaner.job)
      BY <1>7 DEF DeleteCompletedJob
    <2>2. l.job # cleaner.job
      BY <1>0, <2>1 DEF CleanerLeavesNone
    <2>3. QED
      BY <1>0, <1>1, <2>1, <2>2 DEF DeleteCompletedJobRow, HistoryTypeOK
  <1>8. CASE \/ StopTimesOut \/ DaemonEnds \/ StartShrinking \/ PickOldest
             \/ DeleteCompletedJobFails \/ GiveUp \/ CompactFile \/ ReadPage
             \/ UNCHANGED historyVars
    <2>1. UNCHANGED <<row, logs>>
      BY <1>8 DEF StopTimesOut, DaemonEnds, StartShrinking, PickOldest,
         DeleteCompletedJobFails, GiveUp, CompactFile, ReadPage, historyVars
    <2>2. QED
      BY <1>1, <2>1
  <1>9. QED
    BY <1>2, <1>3, <1>4, <1>5, <1>6, <1>7, <1>8 DEF HistoryNext, ShrinkStep

-----------------------------------------------------------------------------
(* The console *)

\* A page has no gap: of the newer rows of the job it leaves out only later ones, however
\* the rows of other jobs lie between.
LEMMA PageHasNoGap ==
    ASSUME HistoryTypeOK, NEW j, NEW after, NEW limit,
           limit \in Nat,
           NEW last \in ListJobLogsAfterSequence(j, after, limit),
           NEW l \in LogsOf(j), l.seq > after, l.seq <= last.seq
    PROVE  l \in ListJobLogsAfterSequence(j, after, limit)
  <1> DEFINE newer == {k \in LogsOf(j) : k.seq > after}
             upTo(n) == {k \in newer : k.seq <= n}
  <1>1. newer \subseteq logs
    BY DEF LogsOf
  <1>2. \A k \in newer : k.seq \in Nat
    BY <1>1 DEF HistoryTypeOK, LogRows
  <1>3. l \in newer /\ last \in newer /\ Cardinality(upTo(last.seq)) <= limit
    BY DEF ListJobLogsAfterSequence
  <1>4. IsFiniteSet(upTo(last.seq))
    <2>1. upTo(last.seq) \subseteq logs
      BY <1>1
    <2>2. QED
      BY <2>1, FS_Subset DEF HistoryTypeOK
  <1>5. upTo(l.seq) \subseteq upTo(last.seq)
    <2> SUFFICES ASSUME NEW k \in newer, k.seq <= l.seq
                 PROVE  k.seq <= last.seq
      OBVIOUS
    <2>1. k.seq \in Nat /\ l.seq \in Nat /\ last.seq \in Nat
      BY <1>2, <1>3
    <2>2. QED
      BY <2>1
  <1>6. /\ Cardinality(upTo(l.seq)) <= Cardinality(upTo(last.seq))
        /\ Cardinality(upTo(l.seq)) \in Nat /\ Cardinality(upTo(last.seq)) \in Nat
    BY <1>4, <1>5, FS_Subset, FS_CardinalityType
  <1>7. Cardinality(upTo(l.seq)) <= limit
    BY <1>3, <1>6
  <1>8. QED
    BY <1>3, <1>7 DEF ListJobLogsAfterSequence

\* The numbers grow, and the console reads no further than they have come.
LEMMA FollowerStaysBehind ==
    ASSUME HistoryTypeOK, HistoryTypeOK', WritersAreKnown, FollowerIsBehind,
           [HistoryNext]_historyVars
    PROVE  FollowerIsBehind'
  <1>1. ASSUME logs' \subseteq logs, UNCHANGED <<lastSequence, follower>>
        PROVE  FollowerIsBehind'
    BY <1>1 DEF FollowerIsBehind
  <1>2. ASSUME NEW w \in Writers, Write(w), UNCHANGED follower
        PROVE  FollowerIsBehind'
    <2>1. PICK entry \in LogRows :
             /\ logs' = logs \cup {entry}
             /\ entry.seq = lastSequence + 1 /\ lastSequence' = lastSequence + 1
      BY <1>2, WrittenForRunning
    <2>2. lastSequence \in Nat /\ follower.after \in Nat /\ \A l \in logs : l.seq \in Nat
      BY DEF HistoryTypeOK, LogRows
    <2>3. \A l \in logs' : l.seq <= lastSequence + 1
      BY <2>1, <2>2 DEF FollowerIsBehind
    <2>4. follower'.after <= lastSequence + 1
      BY <1>2, <2>2 DEF FollowerIsBehind
    <2>5. QED
      BY <2>1, <2>3, <2>4 DEF FollowerIsBehind
  <1>3. ASSUME NEW w \in Writers, CaptureWrites(w) \/ CaptureEnds(w)
        PROVE  FollowerIsBehind'
    BY <1>1, <1>2, <1>3 DEF CaptureWrites, CaptureEnds
  <1>4. CASE ReadPage
    <2> DEFINE page == ListJobLogsAfterSequence(follower.job, follower.after, PageSize)
    <2>1. PICK last \in page :
             follower' = [follower EXCEPT !.after = last.seq,
                                          !.seen = follower.seen \cup {l.seq : l \in page}]
      BY <1>4 DEF ReadPage
    <2>2. last \in logs
      BY DEF ListJobLogsAfterSequence, LogsOf
    <2> HIDE DEF page
    <2>3. follower'.after = last.seq
      BY <2>1 DEF HistoryTypeOK
    <2>4. QED
      BY <1>4, <2>2, <2>3 DEF ReadPage, FollowerIsBehind
  <1>5. CASE Expire
    BY <1>1, <1>5 DEF Expire, DeleteExpiredJobRows
  <1>6. CASE DeleteJobLogs
    BY <1>1, <1>6 DEF DeleteJobLogs, DeleteJobRows
  <1>7. ASSUME NEW j \in Jobs, JobStarted(j) \/ JobCompleted(j)
        PROVE  FollowerIsBehind'
    BY <1>1, <1>7 DEF JobStarted, JobCompleted
  <1>8. CASE \/ StopTimesOut \/ CompleteRow \/ DaemonEnds \/ StartShrinking \/ PickOldest
             \/ DeleteCompletedJob \/ DeleteCompletedJobFails \/ GiveUp \/ CompactFile
             \/ UNCHANGED historyVars
    <2>1. UNCHANGED <<logs, lastSequence, follower>>
      BY <1>8 DEF StopTimesOut, CompleteRow, DaemonEnds, StartShrinking, PickOldest,
         DeleteCompletedJob, DeleteCompletedJobFails, GiveUp, CompactFile, historyVars
    <2>2. QED
      BY <1>1, <2>1
  <1>9. QED
    BY <1>3, <1>4, <1>5, <1>6, <1>7, <1>8 DEF HistoryNext, ShrinkStep

\* What is written comes after what was read, and a page has no gap.
LEMMA FollowerStillMissesNothing ==
    ASSUME HistoryTypeOK, HistoryTypeOK', WritersAreKnown, FollowerIsBehind,
           FollowerMissesNothing, [HistoryNext]_historyVars
    PROVE  FollowerMissesNothing'
  <1>0. /\ follower \in [job : Jobs, after : Nat, seen : SUBSET Nat]
        /\ lastSequence \in Nat /\ \A l \in logs : l.seq \in Nat
    BY DEF HistoryTypeOK, LogRows
  <1>1. ASSUME logs' \subseteq logs, UNCHANGED follower
        PROVE  FollowerMissesNothing'
    BY <1>1 DEF FollowerMissesNothing, LogsOf
  <1>2. ASSUME NEW w \in Writers, Write(w), UNCHANGED follower
        PROVE  FollowerMissesNothing'
    <2>1. PICK entry \in LogRows :
             logs' = logs \cup {entry} /\ entry.seq = lastSequence + 1
      BY <1>2, WrittenForRunning
    <2>2. ~(entry.seq <= follower.after)
      BY <1>0, <2>1 DEF FollowerIsBehind
    <2>3. QED
      BY <1>2, <2>1, <2>2 DEF FollowerMissesNothing, LogsOf
  <1>3. ASSUME NEW w \in Writers, CaptureWrites(w) \/ CaptureEnds(w)
        PROVE  FollowerMissesNothing'
    BY <1>1, <1>2, <1>3 DEF CaptureWrites, CaptureEnds
  <1>4. CASE ReadPage
    <2> DEFINE page == ListJobLogsAfterSequence(follower.job, follower.after, PageSize)
    <2>1. PICK last \in page :
             follower' = [follower EXCEPT !.after = last.seq,
                                          !.seen = follower.seen \cup {l.seq : l \in page}]
      BY <1>4 DEF ReadPage
    <2>2. logs' = logs
      BY <1>4 DEF ReadPage
    <2>3. \A l \in LogsOf(follower.job) :
             l.seq > follower.after /\ l.seq <= last.seq => l \in page
      BY <2>1, PageHasNoGap, HistoryAssumption
    <2> HIDE DEF page
    <2>4. /\ follower'.job = follower.job /\ follower'.after = last.seq
          /\ follower'.seen = follower.seen \cup {l.seq : l \in page}
      BY <1>0, <2>1
    <2>5. ASSUME NEW l \in LogsOf(follower.job), l.seq <= last.seq
          PROVE  l.seq \in follower'.seen
      <3>1. CASE l.seq <= follower.after
        BY <2>4, <3>1 DEF FollowerMissesNothing
      <3>2. CASE l.seq > follower.after
        BY <2>3, <2>4, <2>5, <3>2
      <3>3. QED
        BY <1>0, <3>1, <3>2 DEF LogsOf
    <2>6. QED
      BY <2>2, <2>4, <2>5 DEF FollowerMissesNothing, LogsOf
  <1>5. CASE Expire
    BY <1>1, <1>5 DEF Expire, DeleteExpiredJobRows
  <1>6. CASE DeleteJobLogs
    BY <1>1, <1>6 DEF DeleteJobLogs, DeleteJobRows
  <1>7. ASSUME NEW j \in Jobs, JobStarted(j) \/ JobCompleted(j)
        PROVE  FollowerMissesNothing'
    BY <1>1, <1>7 DEF JobStarted, JobCompleted
  <1>8. CASE \/ StopTimesOut \/ CompleteRow \/ DaemonEnds \/ StartShrinking \/ PickOldest
             \/ DeleteCompletedJob \/ DeleteCompletedJobFails \/ GiveUp \/ CompactFile
             \/ UNCHANGED historyVars
    <2>1. UNCHANGED <<logs, follower>>
      BY <1>8 DEF StopTimesOut, CompleteRow, DaemonEnds, StartShrinking, PickOldest,
         DeleteCompletedJob, DeleteCompletedJobFails, GiveUp, CompactFile, historyVars
    <2>2. QED
      BY <1>1, <2>1
  <1>9. QED
    BY <1>3, <1>4, <1>5, <1>6, <1>7, <1>8 DEF HistoryNext, ShrinkStep

-----------------------------------------------------------------------------
(* The theorems *)

\* The daemon starts with no goroutine, no clean-up and no log rows.
LEMMA HistoryStarts ==
    ASSUME HistoryInit
    PROVE  HistoryInv
  <1>1. HistoryTypeOK
    <2>1. PICK old \in {{}} \union {{j} : j \in Jobs} :
             /\ row = [j \in Jobs |-> IF j \in old THEN "done" ELSE "none"]
             /\ fileBytes = Cardinality(old)
      BY DEF HistoryInit
    <2>2. fileBytes \in Nat
      <3>1. IsFiniteSet(old)
        BY FS_EmptySet, FS_Singleton
      <3>2. QED
        BY <2>1, <3>1, FS_CardinalityType
    <2>3. row \in [Jobs -> {"none", "running", "done"}]
      BY <2>1
    <2>4. logs \subseteq LogRows /\ IsFiniteSet(logs) /\ lastSequence \in Nat
      BY FS_EmptySet DEF HistoryInit
    <2>5. writer \in [Writers -> WriterStates]
      BY DEF HistoryInit, NoWriter, WriterStates
    <2>6. cleaner \in CleanerStates /\ cleaner.pc = "idle"
      BY DEF HistoryInit, IdleCleaner, CleanerStates
    <2>7. follower \in [job : Jobs, after : Nat, seen : SUBSET Nat]
      <3>1. (CHOOSE j \in Jobs : TRUE) \in Jobs
        BY HistoryAssumption
      <3>2. QED
        BY <3>1 DEF HistoryInit
    <2>8. captures \in [Jobs -> Writers \cup {Nothing}] /\ completing \in Jobs \cup {Nothing}
      BY DEF HistoryInit
    <2>9. QED
      BY <2>2, <2>3, <2>4, <2>5, <2>6, <2>7, <2>8 DEF HistoryTypeOK
  <1>2. CapturesAreHeld
    BY DEF HistoryInit, CapturesAreHeld
  <1>3. WritersAreKnown
    BY DEF HistoryInit, WritersAreKnown, Live, NoWriter
  <1>4. CleanerLeavesNone
    BY DEF HistoryInit, CleanerLeavesNone, IdleCleaner
  <1>5. NoOrphanLogs /\ FollowerMissesNothing
    BY DEF HistoryInit, NoOrphanLogs, FollowerMissesNothing, LogsOf
  <1>6. FollowerIsBehind
    <2>1. lastSequence = 0 /\ follower.after = 0 /\ logs = {}
      BY DEF HistoryInit
    <2>2. QED
      BY <2>1 DEF FollowerIsBehind
  <1>7. QED
    BY <1>1, <1>2, <1>3, <1>4, <1>5, <1>6 DEF HistoryInv

\* The parts of the invariant keep one another.
LEMMA HistoryInvariant == HistorySpec => []HistoryInv
  <1>1. HistoryInit => HistoryInv
    BY HistoryStarts
  <1>2. HistoryInv /\ [HistoryNext]_historyVars => HistoryInv'
    <2> SUFFICES ASSUME HistoryInv, [HistoryNext]_historyVars
                 PROVE  HistoryInv'
      OBVIOUS
    <2>1. HistoryTypeOK'
      BY HistoryTypesAreKept DEF HistoryInv
    <2>2. CapturesAreHeld' /\ WritersAreKnown'
      BY <2>1, CapturesStayHeld, WritersStayKnown DEF HistoryInv
    <2>3. CleanerLeavesNone' /\ NoOrphanLogs'
      BY <2>1, CleanerStillLeavesNone, OrphansAreStillKnown DEF HistoryInv
    <2>4. FollowerIsBehind' /\ FollowerMissesNothing'
      BY <2>1, FollowerStaysBehind, FollowerStillMissesNothing DEF HistoryInv
    <2>5. QED
      BY <2>1, <2>2, <2>3, <2>4 DEF HistoryInv
  <1>3. QED
    BY <1>1, <1>2, PTL DEF HistorySpec

\* However messages come twice, late or out of order, captures end or are given up and the
\* daemon restarts: a goroutine that the store has not lost writes for a job that runs
\* (jobs.go:193).
THEOREM CapturesWriteForRunningJobs == HistorySpec => []WritersHaveARunningJob
  <1>1. HistoryInv => WritersHaveARunningJob
    BY DEF HistoryInv, WritersAreKnown, WritersHaveARunningJob
  <1>2. QED
    BY <1>1, HistoryInvariant, PTL

\* Whatever the limits of the file and of the retention, and wherever the clean-up is when
\* a message comes: a log row has its job, or is one of those known to be lost (host.go:113).
THEOREM LogsHaveTheirJob == HistorySpec => []NoOrphanLogs
  <1>1. HistoryInv => NoOrphanLogs
    BY DEF HistoryInv
  <1>2. QED
    BY <1>1, HistoryInvariant, PTL

\* A console that asks for what comes after the last sequence it was given has seen every
\* row up to it that is still there, for every size of a page (jobs.go:398).
THEOREM LogsAreFollowed == HistorySpec => []FollowerMissesNothing
  <1>1. HistoryInv => FollowerMissesNothing
    BY DEF HistoryInv
  <1>2. QED
    BY <1>1, HistoryInvariant, PTL

=============================================================================
