-------------------------- MODULE CloudAgentProofs --------------------------
(***************************************************************************)
(* What holds of CloudAgent for every set of runners, of goroutines and of *)
(* cleanups at work at one time, and whatever may go wrong.                *)
(***************************************************************************)
EXTENDS CloudAgent, TLAPS

-----------------------------------------------------------------------------
(* What the steps are made of *)

\* The ids of the records are told apart by their kind and by their runner.
LEMMA IdsAreDistinct ==
    /\ \A r \in Runners : JobOf(r) \in Ids /\ Placeholder(r) \in Ids
    /\ \A r, q \in Runners : /\ JobOf(r) # Placeholder(q)
                             /\ JobOf(r) = JobOf(q) => r = q
                             /\ Placeholder(r) = Placeholder(q) => r = q
    /\ \A id \in Ids : \E r \in Runners : id = JobOf(r) \/ id = Placeholder(r)
    /\ None \notin Runners /\ None \notin Captures /\ None \notin Ids
    /\ \A r \in Runners : JobOf(r) # None /\ Placeholder(r) # None
  BY NoneAssumption DEF JobOf, Placeholder, Ids

\* A step that leaves the store alone leaves its types.
LEMMA StoreIsKept == JobStoreTypeOK /\ UNCHANGED storeVars => JobStoreTypeOK'
  BY DEF JobStoreTypeOK, storeVars

\* The methods of the tracker leave a tracker over the same names.
LEMMA TrackerSteps ==
    ASSUME NEW Names, NEW t \in Trackers(Names), NEW r \in Names, NEW gone
    PROVE  /\ NewRunnerTracker \in Trackers(Names)
           /\ MarkStarting(t, r) \in Trackers(Names)
           /\ MarkIdle(t, r) \in Trackers(Names)
           /\ MarkBusy(t, r) \in Trackers(Names)
           /\ Remove(t, r) \in Trackers(Names)
           /\ [phase \in DOMAIN t |-> t[phase] \ gone] \in Trackers(Names)
  BY DEF Trackers, NewRunnerTracker, MarkStarting, MarkIdle, MarkBusy, Remove

\* backend.Cleanup changes only the environments of its names, makes none, and what
\* it leaves of them is in abandoned.
LEMMA RemovedEffect ==
    ASSUME TypeOK, NEW names \in SUBSET Runners, Removed(names)
    PROVE  /\ env' \in [Runners -> {"absent", "halted", "online", "job"}]
           /\ abandoned' \subseteq Runners
           /\ \A r \in Runners :
                /\ env'[r] # "absent" => env[r] # "absent"
                /\ env'[r] # "absent" /\ r \in abandoned \cup names => r \in abandoned'
                /\ r \notin names => env'[r] = env[r]
           /\ UNCHANGED <<github, news>>
  BY DEF TypeOK, Removed

-----------------------------------------------------------------------------
(* Type correctness *)

\* The command loop is at a message of a runner whenever it is at work, and records
\* a start only for an assignment.
ListenerHasMessage ==
    listener.step # "ready" =>
        /\ listener.runner \in Runners
        /\ listener.msg \in {"assigned", "finished"}
        /\ listener.step = "record" => listener.msg = "assigned"

\* The state variables keep their types; no goroutine stops a capture or completes a
\* record without a runner to whom they belong.
THEOREM AgentTypes == Spec => [](TypeOK /\ ListenerHasMessage)
  <1>1. Init => TypeOK /\ ListenerHasMessage
    BY NoneAssumption, IdsAreDistinct
    DEF Init, JobStoreInit, TypeOK, JobStoreTypeOK, ListenerHasMessage, Results,
        StartSteps, Trackers, NewRunnerTracker, Idle, Ready
  <1>2. TypeOK /\ ListenerHasMessage /\ [Next]_vars => (TypeOK /\ ListenerHasMessage)'
    <2> SUFFICES ASSUME TypeOK, ListenerHasMessage, [Next]_vars
                 PROVE  (TypeOK /\ ListenerHasMessage)'
      OBVIOUS
    <2> USE DEF TypeOK, ListenerHasMessage, StartSteps
  <2>1. ASSUME NEW r \in Runners, NEW s \in Slots, TrackRunner(r, s)
        PROVE  (TypeOK /\ ListenerHasMessage)'
      <3>1. JobStoreTypeOK'
        <4>1. UNCHANGED storeVars
          BY <2>1
          DEF TrackRunner
        <4>2. QED
          BY <4>1, StoreIsKept
      <3>2. tracker' \in Trackers(Runners)
        BY <2>1, TrackerSteps DEF TrackRunner
      <3>3. QED
        BY <2>1, <3>1, <3>2
        DEF TrackRunner, StartMoves, agentVars, worldVars, auxVars
  <2>2. ASSUME NEW r \in Runners, NEW s \in Slots, CreateEnvironment(r, s)
        PROVE  (TypeOK /\ ListenerHasMessage)'
      <3>1. JobStoreTypeOK'
        <4>1. UNCHANGED storeVars
          BY <2>2
          DEF CreateEnvironment
        <4>2. QED
          BY <4>1, StoreIsKept
      <3>2. QED
        BY <2>2, <3>1
        DEF CreateEnvironment, StartMoves, agentVars, worldVars, auxVars
  <2>3. ASSUME NEW r \in Runners, NEW s \in Slots, RunFails(r, s)
        PROVE  (TypeOK /\ ListenerHasMessage)'
      <3>1. JobStoreTypeOK'
        <4>1. UNCHANGED storeVars
          BY <2>3
          DEF RunFails
        <4>2. QED
          BY <4>1, StoreIsKept
      <3>2. tracker' \in Trackers(Runners)
        BY <2>3, TrackerSteps DEF RunFails
      <3>3. QED
        BY <2>3, <3>1, <3>2
        DEF RunFails, StartMoves, agentVars, worldVars, auxVars
  <2>4. ASSUME NEW r \in Runners, NEW s \in Slots, ConfirmRunnerStarted(r, s)
        PROVE  (TypeOK /\ ListenerHasMessage)'
      <3>1. JobStoreTypeOK'
        <4>1. UNCHANGED storeVars
          BY <2>4
          DEF ConfirmRunnerStarted
        <4>2. QED
          BY <4>1, StoreIsKept
      <3>2. tracker' \in Trackers(Runners)
        <4>1. MarkIdle(tracker, r) \in Trackers(Runners)
          BY TrackerSteps
        <4>2. tracker' \in {tracker, MarkIdle(tracker, r)}
          BY <2>4 DEF ConfirmRunnerStarted
        <4>3. QED
          BY <4>1, <4>2
      <3>3. QED
        BY <2>4, <3>1, <3>2, SMTT(30)
        DEF ConfirmRunnerStarted, StartMoves, agentVars, worldVars, auxVars
  <2>5. ASSUME NEW r \in Runners, NEW s \in Slots, CleanUpFailedStart(r, s)
        PROVE  (TypeOK /\ ListenerHasMessage)'
      <3>1. JobStoreTypeOK'
        <4>1. UNCHANGED storeVars
          BY <2>5
          DEF CleanUpFailedStart
        <4>2. QED
          BY <4>1, StoreIsKept
      <3>2. {r} \in SUBSET Runners
        BY DEF Scope, Cleaners
      <3>3. Removed({r})
        BY <2>5 DEF CleanUpFailedStart
      <3>4. /\ env' \in [Runners -> {"absent", "halted", "online", "job"}]
            /\ abandoned' \subseteq Runners
            /\ UNCHANGED <<github, news>>
        BY <3>2, <3>3, RemovedEffect
      <3>5. QED
        BY <2>5, <3>1, <3>4
        DEF CleanUpFailedStart, StartMoves, agentVars, worldVars, auxVars
  <2>6. ASSUME NEW r \in Runners, NEW s \in Slots, OpenProvisionalJob(r, s)
        PROVE  (TypeOK /\ ListenerHasMessage)'
      <3>1. JobStoreTypeOK'
        BY <2>6, IdsAreDistinct, SMTT(30)
        DEF OpenProvisionalJob, UpsertStartedJob, JobStoreTypeOK, Results, captureVars
      <3>2. QED
        BY <2>6, <3>1
        DEF OpenProvisionalJob, StartMoves, agentVars, worldVars, auxVars
  <2>7. ASSUME NEW r \in Runners, NEW s \in Slots, NEW c \in Captures,
               CaptureProvisionalJob(r, s, c)
        PROVE  (TypeOK /\ ListenerHasMessage)'
      <3>1. JobStoreTypeOK'
        BY <2>7, IdsAreDistinct
        DEF CaptureProvisionalJob, StartCapture, JobStoreTypeOK, Results, captureVars
      <3>2. QED
        BY <2>7, <3>1
        DEF CaptureProvisionalJob, StartMoves, agentVars, worldVars, auxVars
  <2>8. ASSUME NEW k \in Cleaners, ForgetRunners(k)
        PROVE  (TypeOK /\ ListenerHasMessage)'
      <3>1. JobStoreTypeOK'
        <4>1. UNCHANGED storeVars
          BY <2>8
          DEF ForgetRunners
        <4>2. QED
          BY <4>1, StoreIsKept
      <3>2. tracker' \in Trackers(Runners)
        BY <2>8 DEF ForgetRunners, Trackers
      <3> DEFINE gone == IF k = SetCleaner THEN known ELSE {k}
      <3>3. gone \subseteq Runners /\ Scope(k) \subseteq Runners
        BY DEF Scope, Cleaners
      <3>4. /\ cleaner' = [cleaner EXCEPT ![k] = Closing(gone)]
            /\ known' = known \ gone
            /\ retired' = retired \cup Scope(k)
            /\ confirmed' = confirmed \ Scope(k)
            /\ UNCHANGED <<storeVars, start, listener, worldVars>>
        BY <2>8 DEF ForgetRunners
      <3> HIDE DEF gone
      <3>5. QED
        BY <3>1, <3>2, <3>3, <3>4 DEF Closing, worldVars
  <2>9. ASSUME NEW k \in Cleaners, StopProvisionalCapture(k)
        PROVE  (TypeOK /\ ListenerHasMessage)'
      <3>1. JobStoreTypeOK'
        BY <2>9, IdsAreDistinct
        DEF StopProvisionalCapture, StopCapture, JobStoreTypeOK, Results, captureVars,
            Cleaners
      <3>2. QED
        BY <2>9, IdsAreDistinct, <3>1
        DEF StopProvisionalCapture, agentVars, worldVars, auxVars, JobStoreTypeOK
  <2>10. ASSUME NEW k \in Cleaners, CloseProvisionalJob(k)
         PROVE  (TypeOK /\ ListenerHasMessage)'
      <3>1. JobStoreTypeOK'
        <4> DEFINE id == Placeholder(cleaner[k].at)
        <4>1. \/ record' = record
              \/ record' = [record EXCEPT ![id] =
                              IF record[id] = "running" THEN "closed" ELSE @]
          BY <2>10 DEF CloseProvisionalJob, CloseRunningJob, GetJob
        <4>2. \A r \in Runners : id # JobOf(r)
          BY DEF Placeholder, JobOf
        <4> HIDE DEF id
        <4>3. UNCHANGED captureVars
          BY <2>10 DEF CloseProvisionalJob
        <4>4. QED
          BY <4>1, <4>2, <4>3, IdsAreDistinct
          DEF JobStoreTypeOK, Results, captureVars
      <3>2. QED
        BY <2>10, <3>1
        DEF CloseProvisionalJob, Closing, agentVars, worldVars, auxVars
  <2>11. ASSUME NEW k \in Cleaners, RemoveRunners(k)
         PROVE  (TypeOK /\ ListenerHasMessage)'
      <3>1. JobStoreTypeOK'
        <4>1. UNCHANGED storeVars
          BY <2>11
          DEF RemoveRunners
        <4>2. QED
          BY <4>1, StoreIsKept
      <3>2. Scope(k) \in SUBSET Runners
        BY DEF Scope, Cleaners
      <3>3. Removed(Scope(k))
        BY <2>11 DEF RemoveRunners
      <3>4. /\ env' \in [Runners -> {"absent", "halted", "online", "job"}]
            /\ abandoned' \subseteq Runners
            /\ UNCHANGED <<github, news>>
        BY <3>2, <3>3, RemovedEffect
      <3>5. QED
        BY <2>11, <3>1, <3>4
        DEF RemoveRunners, Idle, agentVars, worldVars, auxVars
  <2>12. ASSUME NEW r \in Runners, ReceiveJobAssigned(r)
         PROVE  (TypeOK /\ ListenerHasMessage)'
      <3>1. JobStoreTypeOK'
        <4>1. UNCHANGED storeVars
          BY <2>12
          DEF ReceiveJobAssigned, Receive
        <4>2. QED
          BY <4>1, StoreIsKept
      <3>2. tracker' \in Trackers(Runners)
        BY <2>12, TrackerSteps DEF ReceiveJobAssigned
      <3>3. PICK diagnostics \in BOOLEAN : Receive(r, "assigned", diagnostics)
        BY <2>12 DEF ReceiveJobAssigned
      <3>4. news' \in [Runners -> SUBSET {"assigned", "finished"}]
        BY <3>3 DEF Receive
      <3>5. QED
        BY <3>1, <3>2, <3>3, <3>4
        DEF Receive, Ready, agentVars, worldVars, auxVars
  <2>13. ASSUME NEW r \in Runners, ReceiveJobFinished(r)
         PROVE  (TypeOK /\ ListenerHasMessage)'
      <3>1. JobStoreTypeOK'
        <4>1. UNCHANGED storeVars
          BY <2>13
          DEF ReceiveJobFinished, Receive
        <4>2. QED
          BY <4>1, StoreIsKept
      <3>2. tracker' \in Trackers(Runners)
        BY <2>13, TrackerSteps DEF ReceiveJobFinished
      <3>3. QED
        BY <2>13, <3>1, <3>2
        DEF ReceiveJobFinished, Receive, Ready, agentVars, worldVars, auxVars
  <2>14. ASSUME FindProvisionalJob PROVE (TypeOK /\ ListenerHasMessage)'
      <3>1. JobStoreTypeOK'
        <4>1. UNCHANGED storeVars
          BY <2>14
          DEF FindProvisionalJob
        <4>2. QED
          BY <4>1, StoreIsKept
      <3>2. /\ listener' \in [step : {"ready", "attach", "move", "record", "stop", "wait"},
                           runner : Runners \cup {None},
                           msg : {"assigned", "finished", None},
                           diagnostics : BOOLEAN, found : Captures \cup {None}]
            /\ ListenerHasMessage'
        BY <2>14, IdsAreDistinct
        DEF FindProvisionalJob, ListenerGoesTo, WhenNotAttached, Ready, JobStoreTypeOK
      <3>3. QED
        BY <2>14, <3>1, <3>2
        DEF FindProvisionalJob, Ready, agentVars, worldVars, auxVars
  <2>15. ASSUME AttachJobMetadata PROVE (TypeOK /\ ListenerHasMessage)'
      <3>1. JobStoreTypeOK'
        <4> DEFINE r == listener.runner
        <4>1. r \in Runners /\ listener.found \in Captures \cup {None}
          BY <2>15 DEF AttachJobMetadata
        <4>2. \/ MoveJob(r, listener.found)
              \/ \E c \in Captures : MoveJobAndCapture(r, c)
          BY <2>15 DEF AttachJobMetadata
        <4> HIDE DEF r
        <4>3. record' = [record EXCEPT ![JobOf(r)] = "running", ![Placeholder(r)] = "none"]
          BY <4>2 DEF MoveJob, MoveJobAndCapture
        <4>4. /\ record' \in [Ids -> Results]
              /\ \A q \in Runners : /\ record'[Placeholder(q)] # "completed"
                                   /\ record'[JobOf(q)] # "closed"
          BY <4>1, <4>3, IdsAreDistinct DEF JobStoreTypeOK, Results
        <4>5. CASE MoveJob(r, listener.found)
          BY <4>1, <4>4, <4>5, IdsAreDistinct DEF MoveJob, JobStoreTypeOK
        <4>6. ASSUME NEW c \in Captures, MoveJobAndCapture(r, c)
              PROVE  JobStoreTypeOK'
          BY <4>1, <4>4, <4>6, IdsAreDistinct
          DEF MoveJobAndCapture, StartCapture, JobStoreTypeOK
        <4>7. QED
          BY <4>2, <4>5, <4>6
      <3>2. /\ listener' \in [step : {"ready", "attach", "move", "record", "stop", "wait"},
                           runner : Runners \cup {None},
                           msg : {"assigned", "finished", None},
                           diagnostics : BOOLEAN, found : Captures \cup {None}]
            /\ ListenerHasMessage'
        BY <2>15
        DEF AttachJobMetadata, ListenerGoesTo, WhenAttached, Ready
      <3>3. QED
        BY <2>15, <3>1, <3>2
        DEF AttachJobMetadata, Ready, agentVars, worldVars, auxVars
  <2>16. ASSUME AttachFails PROVE (TypeOK /\ ListenerHasMessage)'
      <3>1. JobStoreTypeOK'
        <4>1. UNCHANGED storeVars
          BY <2>16
          DEF AttachFails
        <4>2. QED
          BY <4>1, StoreIsKept
      <3>2. /\ listener' \in [step : {"ready", "attach", "move", "record", "stop", "wait"},
                           runner : Runners \cup {None},
                           msg : {"assigned", "finished", None},
                           diagnostics : BOOLEAN, found : Captures \cup {None}]
            /\ ListenerHasMessage'
        BY <2>16
        DEF AttachFails, ListenerGoesTo, WhenNotAttached, Ready
      <3>3. QED
        BY <2>16, <3>1, <3>2
        DEF AttachFails, Ready, agentVars, worldVars, auxVars
  <2>17. ASSUME RecordJobStarted PROVE (TypeOK /\ ListenerHasMessage)'
      <3>1. JobStoreTypeOK'
        <4> DEFINE id == JobOf(listener.runner)
        <4>1. id \in Ids
          BY <2>17, IdsAreDistinct DEF RecordJobStarted
        <4>2. /\ record' \in [Ids -> Results]
              /\ \A q \in Runners : /\ record'[Placeholder(q)] # "completed"
                                   /\ record'[JobOf(q)] # "closed"
          <5>1. record' = record \/ record' = [record EXCEPT ![id] = "running"]
            BY <2>17 DEF RecordJobStarted, UpsertStartedJob
          <5>2. QED
            BY <4>1, <5>1, IdsAreDistinct DEF JobStoreTypeOK, Results
        <4>3. UNCHANGED captureVars \/ \E c \in Captures : StartCapture(id, c)
          BY <2>17 DEF RecordJobStarted, captureVars
        <4> HIDE DEF id
        <4>4. CASE UNCHANGED captureVars
          BY <4>2, <4>4 DEF captureVars, JobStoreTypeOK
        <4>5. ASSUME NEW c \in Captures, StartCapture(id, c)
              PROVE  JobStoreTypeOK'
          BY <4>1, <4>2, <4>5 DEF StartCapture, JobStoreTypeOK
        <4>6. QED
          BY <4>3, <4>4, <4>5
      <3>2. /\ listener' \in [step : {"ready", "attach", "move", "record", "stop", "wait"},
                           runner : Runners \cup {None},
                           msg : {"assigned", "finished", None},
                           diagnostics : BOOLEAN, found : Captures \cup {None}]
            /\ ListenerHasMessage'
        BY <2>17
        DEF RecordJobStarted, ListenerGoesTo, Ready
      <3>3. QED
        BY <2>17, <3>1, <3>2
        DEF RecordJobStarted, Ready, agentVars, worldVars, auxVars
  <2>18. ASSUME StopJobCapture PROVE (TypeOK /\ ListenerHasMessage)'
      <3>1. JobStoreTypeOK'
        BY <2>18, IdsAreDistinct
        DEF StopJobCapture, StopCapture, JobStoreTypeOK, Results, captureVars
      <3>2. /\ listener' \in [step : {"ready", "attach", "move", "record", "stop", "wait"},
                           runner : Runners \cup {None},
                           msg : {"assigned", "finished", None},
                           diagnostics : BOOLEAN, found : Captures \cup {None}]
            /\ ListenerHasMessage'
        BY <2>18, IdsAreDistinct
        DEF StopJobCapture, ListenerGoesTo, Ready, JobStoreTypeOK
      <3>3. QED
        BY <2>18, <3>1, <3>2
        DEF StopJobCapture, Ready, agentVars, worldVars, auxVars
  <2>19. ASSUME RecordJobCompleted PROVE (TypeOK /\ ListenerHasMessage)'
      <3>1. JobStoreTypeOK'
        BY <2>19, IdsAreDistinct
        DEF RecordJobCompleted, RecordCompleted, JobStoreTypeOK, Results, captureVars
      <3>2. /\ listener' \in [step : {"ready", "attach", "move", "record", "stop", "wait"},
                           runner : Runners \cup {None},
                           msg : {"assigned", "finished", None},
                           diagnostics : BOOLEAN, found : Captures \cup {None}]
            /\ ListenerHasMessage'
        BY <2>19
        DEF RecordJobCompleted, ListenerGoesTo, Ready
      <3>3. QED
        BY <2>19, <3>1, <3>2
        DEF RecordJobCompleted, Ready, agentVars, worldVars, auxVars
  <2>20. ASSUME NEW c \in Captures, CaptureStep(c) PROVE (TypeOK /\ ListenerHasMessage)'
      <3>1. JobStoreTypeOK'
        BY <2>20, IdsAreDistinct
        DEF CaptureStep, CaptureEnds, JobStoreTypeOK, Results, captureVars
      <3>2. QED
        BY <2>20, <3>1
        DEF CaptureStep, agentVars, worldVars, auxVars
  <2>21. ASSUME NEW r \in Runners, RunnerExits(r) PROVE (TypeOK /\ ListenerHasMessage)'
      <3>1. JobStoreTypeOK'
        <4>1. UNCHANGED storeVars
          BY <2>21
          DEF RunnerExits
        <4>2. QED
          BY <4>1, StoreIsKept
      <3>2. QED
        BY <2>21, <3>1
        DEF RunnerExits, agentVars, worldVars, auxVars
  <2>22. ASSUME NEW r \in Runners, TakeJob(r) PROVE (TypeOK /\ ListenerHasMessage)'
      <3>1. JobStoreTypeOK'
        <4>1. UNCHANGED storeVars
          BY <2>22
          DEF TakeJob
        <4>2. QED
          BY <4>1, StoreIsKept
      <3>2. QED
        BY <2>22, <3>1
        DEF TakeJob, agentVars, worldVars, auxVars
  <2>23. ASSUME NEW r \in Runners, JobEnds(r) PROVE (TypeOK /\ ListenerHasMessage)'
      <3>1. JobStoreTypeOK'
        <4>1. UNCHANGED storeVars
          BY <2>23
          DEF JobEnds
        <4>2. QED
          BY <4>1, StoreIsKept
      <3>2. QED
        BY <2>23, <3>1
        DEF JobEnds, agentVars, worldVars, auxVars
  <2>24. ASSUME Restart PROVE (TypeOK /\ ListenerHasMessage)'
      <3>1. JobStoreTypeOK'
        BY <2>24, IdsAreDistinct
        DEF Restart, NoCaptures, JobStoreTypeOK, Results, captureVars
      <3>2. tracker' \in Trackers(Runners)
        BY <2>24 DEF Restart, NewRunnerTracker, Trackers
      <3>3. QED
        BY <2>24, <3>1, <3>2
        DEF Restart, Idle, Ready, agentVars, worldVars, auxVars
  <2>25. CASE UNCHANGED vars
    BY <2>25
    DEF vars, storeVars, captureVars, agentVars, worldVars, auxVars, JobStoreTypeOK
  <2>26. QED
    BY <2>1, <2>2, <2>3, <2>4, <2>5, <2>6, <2>7, <2>8, <2>9, <2>10, <2>11, <2>12,
       <2>13, <2>14, <2>15, <2>16, <2>17, <2>18, <2>19, <2>20, <2>21, <2>22, <2>23,
       <2>24, <2>25
    DEF Next, StartStep, CleanupStep, ListenerStep, WorldStep
  <1>3. QED
    BY <1>1, <1>2, PTL DEF Spec

-----------------------------------------------------------------------------
(* No environment is forgotten *)

\* For every number of runners and of goroutines: an environment is known to the agent,
\* or one of its goroutines is going to remove it, or its removal failed and was
\* logged, or it was there at a restart.  Inductive as it stands: each handler passes
\* what it takes out of the book to a goroutine, or leaves it to a later step of its own.
THEOREM NoEnvironmentForgotten == Spec => []NoForgottenEnvironment
  <1>1. Init => NoForgottenEnvironment
    BY DEF Init, NoForgottenEnvironment
  <1>2. TypeOK /\ NoForgottenEnvironment /\ [Next]_vars => NoForgottenEnvironment'
    <2> SUFFICES ASSUME TypeOK, NoForgottenEnvironment, [Next]_vars
                 PROVE  NoForgottenEnvironment'
      OBVIOUS
  <2>1. ASSUME NEW r \in Runners, NEW s \in Slots, TrackRunner(r, s)
        PROVE  NoForgottenEnvironment'
    BY <2>1
    DEF TrackRunner, StartMoves, NoForgottenEnvironment, TypeOK, storeVars, agentVars,
        worldVars, auxVars
  <2>2. ASSUME NEW r \in Runners, NEW s \in Slots, CreateEnvironment(r, s)
        PROVE  NoForgottenEnvironment'
    BY <2>2, ZenonT(30)
    DEF CreateEnvironment, StartMoves, NoForgottenEnvironment, TypeOK, storeVars,
        agentVars, worldVars, auxVars
  <2>3. ASSUME NEW r \in Runners, NEW s \in Slots, RunFails(r, s)
        PROVE  NoForgottenEnvironment'
    BY <2>3
    DEF RunFails, StartMoves, NoForgottenEnvironment, TypeOK, storeVars, agentVars,
        worldVars, auxVars
  <2>4. ASSUME NEW r \in Runners, NEW s \in Slots, ConfirmRunnerStarted(r, s)
        PROVE  NoForgottenEnvironment'
    BY <2>4, ZenonT(30)
    DEF ConfirmRunnerStarted, StartMoves, NoForgottenEnvironment, TypeOK, storeVars,
        agentVars, worldVars, auxVars
  <2>5. ASSUME NEW r \in Runners, NEW s \in Slots, CleanUpFailedStart(r, s)
        PROVE  NoForgottenEnvironment'
      <3>1. {r} \in SUBSET Runners
        BY DEF Scope, Cleaners
      <3>2. Removed({r})
        BY <2>5 DEF CleanUpFailedStart
      <3>3. QED
        BY <2>5, <3>1, <3>2, RemovedEffect
        DEF CleanUpFailedStart, StartMoves, NoForgottenEnvironment, TypeOK, storeVars,
            agentVars, auxVars
  <2>6. ASSUME NEW r \in Runners, NEW s \in Slots, OpenProvisionalJob(r, s)
        PROVE  NoForgottenEnvironment'
    BY <2>6
    DEF OpenProvisionalJob, StartMoves, NoForgottenEnvironment, TypeOK, storeVars,
        agentVars, worldVars, auxVars
  <2>7. ASSUME NEW r \in Runners, NEW s \in Slots, NEW c \in Captures,
               CaptureProvisionalJob(r, s, c)
        PROVE  NoForgottenEnvironment'
    BY <2>7
    DEF CaptureProvisionalJob, StartMoves, NoForgottenEnvironment, TypeOK, storeVars,
        agentVars, worldVars, auxVars
  <2>8. ASSUME NEW k \in Cleaners, ForgetRunners(k) PROVE NoForgottenEnvironment'
    BY <2>8
    DEF ForgetRunners, Scope, Idle, Closing, NoForgottenEnvironment, TypeOK,
        storeVars, agentVars, worldVars, auxVars
  <2>9. ASSUME NEW k \in Cleaners, StopProvisionalCapture(k)
        PROVE  NoForgottenEnvironment'
      <3>1. /\ cleaner[k].step = "close" /\ cleaner'[k].step = "wait"
            /\ \A j \in Cleaners \ {k} : cleaner'[j] = cleaner[j]
        BY <2>9 DEF StopProvisionalCapture, TypeOK
      <3>2. UNCHANGED <<known, env, abandoned, start>>
        BY <2>9 DEF StopProvisionalCapture, agentVars, worldVars
      <3>3. QED
        BY <3>1, <3>2 DEF NoForgottenEnvironment
  <2>10. ASSUME NEW k \in Cleaners, CloseProvisionalJob(k) PROVE NoForgottenEnvironment'
    BY <2>10
    DEF CloseProvisionalJob, Closing, NoForgottenEnvironment, TypeOK, storeVars,
        agentVars, worldVars, auxVars
  <2>11. ASSUME NEW k \in Cleaners, RemoveRunners(k) PROVE NoForgottenEnvironment'
      <3>1. Scope(k) \in SUBSET Runners
        BY DEF Scope, Cleaners
      <3>2. Removed(Scope(k))
        BY <2>11 DEF RemoveRunners
      <3>3. QED
        BY <2>11, <3>1, <3>2, RemovedEffect
        DEF RemoveRunners, Idle, NoForgottenEnvironment, TypeOK, storeVars, agentVars,
            auxVars
  <2>12. ASSUME NEW r \in Runners, ReceiveJobAssigned(r) PROVE NoForgottenEnvironment'
    BY <2>12
    DEF ReceiveJobAssigned, Receive, NoForgottenEnvironment, TypeOK, storeVars, agentVars,
        worldVars, auxVars
  <2>13. ASSUME NEW r \in Runners, ReceiveJobFinished(r) PROVE NoForgottenEnvironment'
    BY <2>13
    DEF ReceiveJobFinished, Receive, NoForgottenEnvironment, TypeOK, storeVars, agentVars,
        worldVars, auxVars
  <2>14. ASSUME FindProvisionalJob PROVE NoForgottenEnvironment'
    BY <2>14
    DEF FindProvisionalJob, NoForgottenEnvironment, TypeOK, storeVars, agentVars,
        worldVars, auxVars
  <2>15. ASSUME AttachJobMetadata PROVE NoForgottenEnvironment'
    BY <2>15
    DEF AttachJobMetadata, NoForgottenEnvironment, TypeOK, storeVars, agentVars,
        worldVars, auxVars
  <2>16. ASSUME AttachFails PROVE NoForgottenEnvironment'
    BY <2>16
    DEF AttachFails, NoForgottenEnvironment, TypeOK, storeVars, agentVars, worldVars,
        auxVars
  <2>17. ASSUME RecordJobStarted PROVE NoForgottenEnvironment'
    BY <2>17
    DEF RecordJobStarted, NoForgottenEnvironment, TypeOK, storeVars, agentVars,
        worldVars, auxVars
  <2>18. ASSUME StopJobCapture PROVE NoForgottenEnvironment'
    BY <2>18
    DEF StopJobCapture, NoForgottenEnvironment, TypeOK, storeVars, agentVars,
        worldVars, auxVars
  <2>19. ASSUME RecordJobCompleted PROVE NoForgottenEnvironment'
    BY <2>19
    DEF RecordJobCompleted, NoForgottenEnvironment, TypeOK, storeVars, agentVars,
        worldVars, auxVars
  <2>20. ASSUME NEW c \in Captures, CaptureStep(c) PROVE NoForgottenEnvironment'
    BY <2>20
    DEF CaptureStep, CaptureEnds, NoForgottenEnvironment, TypeOK, storeVars, agentVars,
        worldVars,
        auxVars
  <2>21. ASSUME NEW r \in Runners, RunnerExits(r) PROVE NoForgottenEnvironment'
    BY <2>21
    DEF RunnerExits, NoForgottenEnvironment, TypeOK, storeVars, agentVars, worldVars,
        auxVars
  <2>22. ASSUME NEW r \in Runners, TakeJob(r) PROVE NoForgottenEnvironment'
    BY <2>22
    DEF TakeJob, NoForgottenEnvironment, TypeOK, storeVars, agentVars, worldVars,
        auxVars
  <2>23. ASSUME NEW r \in Runners, JobEnds(r) PROVE NoForgottenEnvironment'
    BY <2>23
    DEF JobEnds, NoForgottenEnvironment, TypeOK, storeVars, agentVars, worldVars,
        auxVars
  <2>24. ASSUME Restart PROVE NoForgottenEnvironment'
    BY <2>24
    DEF Restart, Idle, NoForgottenEnvironment, TypeOK, storeVars, agentVars,
        worldVars, auxVars
  <2>25. CASE UNCHANGED vars
    BY <2>25
    DEF vars, NoForgottenEnvironment, TypeOK, storeVars, captureVars, agentVars,
        worldVars, auxVars
  <2>26. QED
    BY <2>1, <2>2, <2>3, <2>4, <2>5, <2>6, <2>7, <2>8, <2>9, <2>10, <2>11, <2>12,
       <2>13, <2>14, <2>15, <2>16, <2>17, <2>18, <2>19, <2>20, <2>21, <2>22, <2>23,
       <2>24, <2>25
    DEF Next, StartStep, CleanupStep, ListenerStep, WorldStep
  <1>3. QED
    BY <1>1, <1>2, AgentTypes, PTL DEF Spec

-----------------------------------------------------------------------------
(* The two books agree *)

\* For every number of runners and of goroutines, what is known has a phase, and what is
\* preparing is known and has a goroutine that will end it: each handler changes the
\* two books in one step, under the lock of the agent.
THEOREM BooksAgree == Spec => []TrackerFollowsKnown
  <1>1. Init => TrackerFollowsKnown
    BY DEF Init, TrackerFollowsKnown, NewRunnerTracker, Tracked
  <1>2. TypeOK /\ TrackerFollowsKnown /\ [Next]_vars => TrackerFollowsKnown'
    <2> SUFFICES ASSUME TypeOK, TrackerFollowsKnown, [Next]_vars
                 PROVE  TrackerFollowsKnown'
      OBVIOUS
    <2> USE DEF Tracked
  <2>1. ASSUME NEW r \in Runners, NEW s \in Slots, TrackRunner(r, s)
        PROVE  TrackerFollowsKnown'
      <3>1. /\ start'[<<r, s>>] = "create"
            /\ \A q \in Runners \ {r}, p \in Slots : start'[<<q, p>>] = start[<<q, p>>]
        BY <2>1 DEF TrackRunner, StartMoves, TypeOK
      <3>2. /\ known' = known \cup {r}
            /\ tracker'.preparing = tracker.preparing \cup {r}
            /\ tracker'.idle = tracker.idle /\ tracker'.busy = tracker.busy
            /\ tracker.preparing \subseteq Runners
        BY <2>1 DEF TrackRunner, MarkStarting, TypeOK, Trackers
      <3>3. QED
        BY <3>1, <3>2 DEF TrackerFollowsKnown
  <2>2. ASSUME NEW r \in Runners, NEW s \in Slots, CreateEnvironment(r, s)
        PROVE  TrackerFollowsKnown'
    BY <2>2
    DEF CreateEnvironment, StartMoves, TrackerFollowsKnown, TypeOK, storeVars,
        agentVars, worldVars, auxVars
  <2>3. ASSUME NEW r \in Runners, NEW s \in Slots, RunFails(r, s)
        PROVE  TrackerFollowsKnown'
    BY <2>3
    DEF RunFails, Remove, StartMoves, TrackerFollowsKnown, TypeOK, storeVars, agentVars,
        worldVars, auxVars
  <2>4. ASSUME NEW r \in Runners, NEW s \in Slots, ConfirmRunnerStarted(r, s)
        PROVE  TrackerFollowsKnown'
    BY <2>4, SMTT(30)
    DEF ConfirmRunnerStarted, MarkIdle, StartMoves, TrackerFollowsKnown, TypeOK, storeVars,
        agentVars, worldVars, auxVars
  <2>5. ASSUME NEW r \in Runners, NEW s \in Slots, CleanUpFailedStart(r, s)
        PROVE  TrackerFollowsKnown'
    BY <2>5
    DEF CleanUpFailedStart, StartMoves, TrackerFollowsKnown, TypeOK, storeVars,
        agentVars, worldVars, auxVars
  <2>6. ASSUME NEW r \in Runners, NEW s \in Slots, OpenProvisionalJob(r, s)
        PROVE  TrackerFollowsKnown'
    BY <2>6
    DEF OpenProvisionalJob, StartMoves, TrackerFollowsKnown, TypeOK, storeVars,
        agentVars, worldVars, auxVars
  <2>7. ASSUME NEW r \in Runners, NEW s \in Slots, NEW c \in Captures,
               CaptureProvisionalJob(r, s, c)
        PROVE  TrackerFollowsKnown'
    BY <2>7
    DEF CaptureProvisionalJob, StartMoves, TrackerFollowsKnown, TypeOK, storeVars,
        agentVars, worldVars, auxVars
  <2>8. ASSUME NEW k \in Cleaners, ForgetRunners(k) PROVE TrackerFollowsKnown'
    BY <2>8
    DEF ForgetRunners, Trackers, Scope, TrackerFollowsKnown, TypeOK, storeVars, agentVars,
        worldVars, auxVars
  <2>9. ASSUME NEW k \in Cleaners, StopProvisionalCapture(k) PROVE TrackerFollowsKnown'
    BY <2>9
    DEF StopProvisionalCapture, TrackerFollowsKnown, TypeOK, storeVars, agentVars,
        worldVars, auxVars
  <2>10. ASSUME NEW k \in Cleaners, CloseProvisionalJob(k) PROVE TrackerFollowsKnown'
    BY <2>10
    DEF CloseProvisionalJob, TrackerFollowsKnown, TypeOK, storeVars, agentVars,
        worldVars, auxVars
  <2>11. ASSUME NEW k \in Cleaners, RemoveRunners(k) PROVE TrackerFollowsKnown'
    BY <2>11
    DEF RemoveRunners, TrackerFollowsKnown, TypeOK, storeVars, agentVars, worldVars,
        auxVars
  <2>12. ASSUME NEW r \in Runners, ReceiveJobAssigned(r) PROVE TrackerFollowsKnown'
    BY <2>12
    DEF ReceiveJobAssigned, MarkBusy, Receive, TrackerFollowsKnown, TypeOK, storeVars,
        agentVars, worldVars, auxVars
  <2>13. ASSUME NEW r \in Runners, ReceiveJobFinished(r) PROVE TrackerFollowsKnown'
    BY <2>13
    DEF ReceiveJobFinished, MarkIdle, Receive, TrackerFollowsKnown, TypeOK, storeVars,
        agentVars, worldVars, auxVars
  <2>14. ASSUME FindProvisionalJob PROVE TrackerFollowsKnown'
    BY <2>14
    DEF FindProvisionalJob, TrackerFollowsKnown, TypeOK, storeVars, agentVars,
        worldVars, auxVars
  <2>15. ASSUME AttachJobMetadata PROVE TrackerFollowsKnown'
    BY <2>15
    DEF AttachJobMetadata, TrackerFollowsKnown, TypeOK, storeVars, agentVars,
        worldVars, auxVars
  <2>16. ASSUME AttachFails PROVE TrackerFollowsKnown'
    BY <2>16
    DEF AttachFails, TrackerFollowsKnown, TypeOK, storeVars, agentVars, worldVars,
        auxVars
  <2>17. ASSUME RecordJobStarted PROVE TrackerFollowsKnown'
    BY <2>17
    DEF RecordJobStarted, TrackerFollowsKnown, TypeOK, storeVars, agentVars,
        worldVars, auxVars
  <2>18. ASSUME StopJobCapture PROVE TrackerFollowsKnown'
    BY <2>18
    DEF StopJobCapture, TrackerFollowsKnown, TypeOK, storeVars, agentVars, worldVars,
        auxVars
  <2>19. ASSUME RecordJobCompleted PROVE TrackerFollowsKnown'
    BY <2>19
    DEF RecordJobCompleted, TrackerFollowsKnown, TypeOK, storeVars, agentVars,
        worldVars, auxVars
  <2>20. ASSUME NEW c \in Captures, CaptureStep(c) PROVE TrackerFollowsKnown'
    BY <2>20
    DEF CaptureStep, CaptureEnds, TrackerFollowsKnown, TypeOK, storeVars, agentVars,
        worldVars, auxVars
  <2>21. ASSUME NEW r \in Runners, RunnerExits(r) PROVE TrackerFollowsKnown'
    BY <2>21
    DEF RunnerExits, TrackerFollowsKnown, TypeOK, storeVars, agentVars, worldVars,
        auxVars
  <2>22. ASSUME NEW r \in Runners, TakeJob(r) PROVE TrackerFollowsKnown'
    BY <2>22
    DEF TakeJob, TrackerFollowsKnown, TypeOK, storeVars, agentVars, worldVars, auxVars
  <2>23. ASSUME NEW r \in Runners, JobEnds(r) PROVE TrackerFollowsKnown'
    BY <2>23
    DEF JobEnds, TrackerFollowsKnown, TypeOK, storeVars, agentVars, worldVars, auxVars
  <2>24. ASSUME Restart PROVE TrackerFollowsKnown'
    BY <2>24
    DEF Restart, NewRunnerTracker, TrackerFollowsKnown, TypeOK, storeVars, agentVars,
        worldVars, auxVars
  <2>25. CASE UNCHANGED vars
    BY <2>25
    DEF vars, TrackerFollowsKnown, TypeOK, storeVars, captureVars, agentVars,
        worldVars, auxVars
  <2>26. QED
    BY <2>1, <2>2, <2>3, <2>4, <2>5, <2>6, <2>7, <2>8, <2>9, <2>10, <2>11, <2>12,
       <2>13, <2>14, <2>15, <2>16, <2>17, <2>18, <2>19, <2>20, <2>21, <2>22, <2>23,
       <2>24, <2>25
    DEF Next, StartStep, CleanupStep, ListenerStep, WorldStep
  <1>3. QED
    BY <1>1, <1>2, AgentTypes, PTL DEF Spec

-----------------------------------------------------------------------------
(* A confirmed runner is kept *)

\* A cleanup goroutine is at work only for runners a cleanup command was sent for.
CleanersWereSent ==
    \A k \in Cleaners : cleaner[k].step # "none" => Scope(k) \subseteq retired

\* Until a cleanup command comes for a runner, one StartRunner at a time is at its
\* backend, and the runner is known meanwhile.
OneAttemptIsCurrent ==
    \A r \in Runners \ retired, s \in Slots :
        start[<<r, s>>] \in {"create", "return"} =>
            /\ r \in known
            /\ \A q \in Slots \ {s} : start[<<r, q>>] \notin {"create", "return"}

\* A confirmed runner is known, and no attempt at its backend is left that could fail
\* and forget it.
ConfirmedIsSettled ==
    \A r \in confirmed :
        /\ r \in known \ retired
        /\ \A s \in Slots : start[<<r, s>>] \notin {"create", "return"}

\* Cleanup goroutines begin in forgetRunner or forgetRunnerSet, which the command
\* alone leads to.
LEMMA CleanersInvariant == Spec => []CleanersWereSent
  <1>1. Init => CleanersWereSent
    BY DEF Init, CleanersWereSent, Idle
  <1>2. TypeOK /\ CleanersWereSent /\ [Next]_vars => CleanersWereSent'
    <2> SUFFICES ASSUME TypeOK, CleanersWereSent, [Next]_vars
                 PROVE  CleanersWereSent'
      OBVIOUS
  <2>1. ASSUME NEW r \in Runners, NEW s \in Slots, TrackRunner(r, s)
        PROVE  CleanersWereSent'
    BY <2>1
    DEF TrackRunner, StartMoves, CleanersWereSent, TypeOK, storeVars, agentVars,
        worldVars, auxVars
  <2>2. ASSUME NEW r \in Runners, NEW s \in Slots, CreateEnvironment(r, s)
        PROVE  CleanersWereSent'
    BY <2>2
    DEF CreateEnvironment, StartMoves, CleanersWereSent, TypeOK, storeVars, agentVars,
        worldVars, auxVars
  <2>3. ASSUME NEW r \in Runners, NEW s \in Slots, RunFails(r, s)
        PROVE  CleanersWereSent'
    BY <2>3
    DEF RunFails, StartMoves, CleanersWereSent, TypeOK, storeVars, agentVars,
        worldVars, auxVars
  <2>4. ASSUME NEW r \in Runners, NEW s \in Slots, ConfirmRunnerStarted(r, s)
        PROVE  CleanersWereSent'
    BY <2>4
    DEF ConfirmRunnerStarted, StartMoves, CleanersWereSent, TypeOK, storeVars,
        agentVars, worldVars, auxVars
  <2>5. ASSUME NEW r \in Runners, NEW s \in Slots, CleanUpFailedStart(r, s)
        PROVE  CleanersWereSent'
    BY <2>5
    DEF CleanUpFailedStart, StartMoves, CleanersWereSent, TypeOK, storeVars,
        agentVars, worldVars, auxVars
  <2>6. ASSUME NEW r \in Runners, NEW s \in Slots, OpenProvisionalJob(r, s)
        PROVE  CleanersWereSent'
    BY <2>6
    DEF OpenProvisionalJob, StartMoves, CleanersWereSent, TypeOK, storeVars,
        agentVars, worldVars, auxVars
  <2>7. ASSUME NEW r \in Runners, NEW s \in Slots, NEW c \in Captures,
               CaptureProvisionalJob(r, s, c)
        PROVE  CleanersWereSent'
    BY <2>7
    DEF CaptureProvisionalJob, StartMoves, CleanersWereSent, TypeOK, storeVars,
        agentVars, worldVars, auxVars
  <2>8. ASSUME NEW k \in Cleaners, ForgetRunners(k) PROVE CleanersWereSent'
      <3>1. /\ \A j \in Cleaners \ {k} : cleaner'[j] = cleaner[j]
            /\ retired' = retired \cup Scope(k)
        BY <2>8 DEF ForgetRunners, TypeOK
      <3>2. QED
        BY <3>1 DEF CleanersWereSent
  <2>9. ASSUME NEW k \in Cleaners, StopProvisionalCapture(k) PROVE CleanersWereSent'
      <3>1. /\ cleaner[k].step = "close" /\ cleaner'[k].step = "wait"
            /\ \A j \in Cleaners \ {k} : cleaner'[j] = cleaner[j]
        BY <2>9 DEF StopProvisionalCapture, TypeOK
      <3>2. UNCHANGED retired
        BY <2>9 DEF StopProvisionalCapture, auxVars
      <3>3. QED
        BY <3>1, <3>2 DEF CleanersWereSent
  <2>10. ASSUME NEW k \in Cleaners, CloseProvisionalJob(k) PROVE CleanersWereSent'
    BY <2>10
    DEF CloseProvisionalJob, Closing, CleanersWereSent, TypeOK, storeVars, agentVars,
        worldVars, auxVars
  <2>11. ASSUME NEW k \in Cleaners, RemoveRunners(k) PROVE CleanersWereSent'
    BY <2>11
    DEF RemoveRunners, Idle, CleanersWereSent, TypeOK, storeVars, agentVars,
        worldVars, auxVars
  <2>12. ASSUME NEW r \in Runners, ReceiveJobAssigned(r) PROVE CleanersWereSent'
    BY <2>12
    DEF ReceiveJobAssigned, Receive, CleanersWereSent, TypeOK, storeVars, agentVars,
        worldVars, auxVars
  <2>13. ASSUME NEW r \in Runners, ReceiveJobFinished(r) PROVE CleanersWereSent'
    BY <2>13
    DEF ReceiveJobFinished, Receive, CleanersWereSent, TypeOK, storeVars, agentVars,
        worldVars, auxVars
  <2>14. ASSUME FindProvisionalJob PROVE CleanersWereSent'
    BY <2>14
    DEF FindProvisionalJob, CleanersWereSent, TypeOK, storeVars, agentVars, worldVars,
        auxVars
  <2>15. ASSUME AttachJobMetadata PROVE CleanersWereSent'
    BY <2>15
    DEF AttachJobMetadata, CleanersWereSent, TypeOK, storeVars, agentVars, worldVars,
        auxVars
  <2>16. ASSUME AttachFails PROVE CleanersWereSent'
    BY <2>16
    DEF AttachFails, CleanersWereSent, TypeOK, storeVars, agentVars, worldVars,
        auxVars
  <2>17. ASSUME RecordJobStarted PROVE CleanersWereSent'
    BY <2>17
    DEF RecordJobStarted, CleanersWereSent, TypeOK, storeVars, agentVars, worldVars,
        auxVars
  <2>18. ASSUME StopJobCapture PROVE CleanersWereSent'
    BY <2>18
    DEF StopJobCapture, CleanersWereSent, TypeOK, storeVars, agentVars, worldVars,
        auxVars
  <2>19. ASSUME RecordJobCompleted PROVE CleanersWereSent'
    BY <2>19
    DEF RecordJobCompleted, CleanersWereSent, TypeOK, storeVars, agentVars, worldVars,
        auxVars
  <2>20. ASSUME NEW c \in Captures, CaptureStep(c) PROVE CleanersWereSent'
    BY <2>20
    DEF CaptureStep, CaptureEnds, CleanersWereSent, TypeOK, storeVars, agentVars,
        worldVars, auxVars
  <2>21. ASSUME NEW r \in Runners, RunnerExits(r) PROVE CleanersWereSent'
    BY <2>21
    DEF RunnerExits, CleanersWereSent, TypeOK, storeVars, agentVars, worldVars,
        auxVars
  <2>22. ASSUME NEW r \in Runners, TakeJob(r) PROVE CleanersWereSent'
    BY <2>22
    DEF TakeJob, CleanersWereSent, TypeOK, storeVars, agentVars, worldVars, auxVars
  <2>23. ASSUME NEW r \in Runners, JobEnds(r) PROVE CleanersWereSent'
    BY <2>23
    DEF JobEnds, CleanersWereSent, TypeOK, storeVars, agentVars, worldVars, auxVars
  <2>24. ASSUME Restart PROVE CleanersWereSent'
    BY <2>24
    DEF Restart, Idle, CleanersWereSent, TypeOK, storeVars, agentVars, worldVars,
        auxVars
  <2>25. CASE UNCHANGED vars
    BY <2>25
    DEF vars, CleanersWereSent, TypeOK, storeVars, captureVars, agentVars, worldVars,
        auxVars
  <2>26. QED
    BY <2>1, <2>2, <2>3, <2>4, <2>5, <2>6, <2>7, <2>8, <2>9, <2>10, <2>11, <2>12,
       <2>13, <2>14, <2>15, <2>16, <2>17, <2>18, <2>19, <2>20, <2>21, <2>22, <2>23,
       <2>24, <2>25
    DEF Next, StartStep, CleanupStep, ListenerStep, WorldStep
  <1>3. QED
    BY <1>1, <1>2, AgentTypes, PTL DEF Spec

\* trackRunner turns away a runner that is known, and forgetRunner, when Run fails,
\* runs in the one attempt that is at the backend.
LEMMA AttemptInvariant == Spec => []OneAttemptIsCurrent
  <1>1. Init => OneAttemptIsCurrent
    BY DEF Init, OneAttemptIsCurrent
  <1>2. TypeOK /\ OneAttemptIsCurrent /\ [Next]_vars => OneAttemptIsCurrent'
    <2> SUFFICES ASSUME TypeOK, OneAttemptIsCurrent, [Next]_vars
                 PROVE  OneAttemptIsCurrent'
      OBVIOUS
  <2>1. ASSUME NEW r \in Runners, NEW s \in Slots, TrackRunner(r, s)
        PROVE  OneAttemptIsCurrent'
    BY <2>1
    DEF TrackRunner, StartMoves, OneAttemptIsCurrent, TypeOK, storeVars, agentVars,
        worldVars, auxVars
  <2>2. ASSUME NEW r \in Runners, NEW s \in Slots, CreateEnvironment(r, s)
        PROVE  OneAttemptIsCurrent'
    BY <2>2
    DEF CreateEnvironment, StartMoves, OneAttemptIsCurrent, TypeOK, storeVars,
        agentVars, worldVars, auxVars
  <2>3. ASSUME NEW r \in Runners, NEW s \in Slots, RunFails(r, s)
        PROVE  OneAttemptIsCurrent'
    BY <2>3
    DEF RunFails, StartMoves, OneAttemptIsCurrent, TypeOK, storeVars, agentVars,
        worldVars, auxVars
  <2>4. ASSUME NEW r \in Runners, NEW s \in Slots, ConfirmRunnerStarted(r, s)
        PROVE  OneAttemptIsCurrent'
    BY <2>4
    DEF ConfirmRunnerStarted, StartMoves, OneAttemptIsCurrent, TypeOK, storeVars,
        agentVars, worldVars, auxVars
  <2>5. ASSUME NEW r \in Runners, NEW s \in Slots, CleanUpFailedStart(r, s)
        PROVE  OneAttemptIsCurrent'
    BY <2>5
    DEF CleanUpFailedStart, StartMoves, OneAttemptIsCurrent, TypeOK, storeVars,
        agentVars, worldVars, auxVars
  <2>6. ASSUME NEW r \in Runners, NEW s \in Slots, OpenProvisionalJob(r, s)
        PROVE  OneAttemptIsCurrent'
      <3>1. \/ start' = [start EXCEPT ![<<r, s>>] = "capture"]
            \/ start' = [start EXCEPT ![<<r, s>>] = "none"]
        BY <2>6 DEF OpenProvisionalJob, StartMoves
      <3>2. \A q \in Runners, p \in Slots :
               start'[<<q, p>>] \in {start[<<q, p>>], "capture", "none"}
        BY <3>1, SMTT(30) DEF TypeOK
      <3>3. UNCHANGED <<known, retired, confirmed>>
        BY <2>6 DEF OpenProvisionalJob, agentVars, auxVars
      <3>4. QED
        BY <3>2, <3>3 DEF OneAttemptIsCurrent, TypeOK
  <2>7. ASSUME NEW r \in Runners, NEW s \in Slots, NEW c \in Captures,
               CaptureProvisionalJob(r, s, c)
        PROVE  OneAttemptIsCurrent'
    BY <2>7
    DEF CaptureProvisionalJob, StartMoves, OneAttemptIsCurrent, TypeOK, storeVars,
        agentVars, worldVars, auxVars
  <2>8. ASSUME NEW k \in Cleaners, ForgetRunners(k) PROVE OneAttemptIsCurrent'
      <3>1. /\ known \ known' \subseteq Scope(k)
            /\ retired' = retired \cup Scope(k)
            /\ start' = start
        BY <2>8 DEF ForgetRunners, TypeOK, Scope
      <3>2. QED
        BY <3>1 DEF OneAttemptIsCurrent
  <2>9. ASSUME NEW k \in Cleaners, StopProvisionalCapture(k) PROVE OneAttemptIsCurrent'
    BY <2>9
    DEF StopProvisionalCapture, OneAttemptIsCurrent, TypeOK, storeVars, agentVars,
        worldVars, auxVars
  <2>10. ASSUME NEW k \in Cleaners, CloseProvisionalJob(k) PROVE OneAttemptIsCurrent'
    BY <2>10
    DEF CloseProvisionalJob, OneAttemptIsCurrent, TypeOK, storeVars, agentVars,
        worldVars, auxVars
  <2>11. ASSUME NEW k \in Cleaners, RemoveRunners(k) PROVE OneAttemptIsCurrent'
    BY <2>11
    DEF RemoveRunners, OneAttemptIsCurrent, TypeOK, storeVars, agentVars, worldVars,
        auxVars
  <2>12. ASSUME NEW r \in Runners, ReceiveJobAssigned(r) PROVE OneAttemptIsCurrent'
    BY <2>12
    DEF ReceiveJobAssigned, Receive, OneAttemptIsCurrent, TypeOK, storeVars,
        agentVars, worldVars, auxVars
  <2>13. ASSUME NEW r \in Runners, ReceiveJobFinished(r) PROVE OneAttemptIsCurrent'
    BY <2>13
    DEF ReceiveJobFinished, Receive, OneAttemptIsCurrent, TypeOK, storeVars,
        agentVars, worldVars, auxVars
  <2>14. ASSUME FindProvisionalJob PROVE OneAttemptIsCurrent'
    BY <2>14
    DEF FindProvisionalJob, OneAttemptIsCurrent, TypeOK, storeVars, agentVars,
        worldVars, auxVars
  <2>15. ASSUME AttachJobMetadata PROVE OneAttemptIsCurrent'
    BY <2>15
    DEF AttachJobMetadata, OneAttemptIsCurrent, TypeOK, storeVars, agentVars,
        worldVars, auxVars
  <2>16. ASSUME AttachFails PROVE OneAttemptIsCurrent'
    BY <2>16
    DEF AttachFails, OneAttemptIsCurrent, TypeOK, storeVars, agentVars, worldVars,
        auxVars
  <2>17. ASSUME RecordJobStarted PROVE OneAttemptIsCurrent'
    BY <2>17
    DEF RecordJobStarted, OneAttemptIsCurrent, TypeOK, storeVars, agentVars,
        worldVars, auxVars
  <2>18. ASSUME StopJobCapture PROVE OneAttemptIsCurrent'
    BY <2>18
    DEF StopJobCapture, OneAttemptIsCurrent, TypeOK, storeVars, agentVars, worldVars,
        auxVars
  <2>19. ASSUME RecordJobCompleted PROVE OneAttemptIsCurrent'
    BY <2>19
    DEF RecordJobCompleted, OneAttemptIsCurrent, TypeOK, storeVars, agentVars,
        worldVars, auxVars
  <2>20. ASSUME NEW c \in Captures, CaptureStep(c) PROVE OneAttemptIsCurrent'
    BY <2>20
    DEF CaptureStep, CaptureEnds, OneAttemptIsCurrent, TypeOK, storeVars, agentVars,
        worldVars, auxVars
  <2>21. ASSUME NEW r \in Runners, RunnerExits(r) PROVE OneAttemptIsCurrent'
    BY <2>21
    DEF RunnerExits, OneAttemptIsCurrent, TypeOK, storeVars, agentVars, worldVars,
        auxVars
  <2>22. ASSUME NEW r \in Runners, TakeJob(r) PROVE OneAttemptIsCurrent'
    BY <2>22
    DEF TakeJob, OneAttemptIsCurrent, TypeOK, storeVars, agentVars, worldVars, auxVars
  <2>23. ASSUME NEW r \in Runners, JobEnds(r) PROVE OneAttemptIsCurrent'
    BY <2>23
    DEF JobEnds, OneAttemptIsCurrent, TypeOK, storeVars, agentVars, worldVars, auxVars
  <2>24. ASSUME Restart PROVE OneAttemptIsCurrent'
    BY <2>24
    DEF Restart, OneAttemptIsCurrent, TypeOK, storeVars, agentVars, worldVars, auxVars
  <2>25. CASE UNCHANGED vars
    BY <2>25
    DEF vars, OneAttemptIsCurrent, TypeOK, storeVars, captureVars, agentVars,
        worldVars, auxVars
  <2>26. QED
    BY <2>1, <2>2, <2>3, <2>4, <2>5, <2>6, <2>7, <2>8, <2>9, <2>10, <2>11, <2>12,
       <2>13, <2>14, <2>15, <2>16, <2>17, <2>18, <2>19, <2>20, <2>21, <2>22, <2>23,
       <2>24, <2>25
    DEF Next, StartStep, CleanupStep, ListenerStep, WorldStep
  <1>3. QED
    BY <1>1, <1>2, AgentTypes, PTL DEF Spec

\* confirmRunnerStarted ends the attempt it confirms, and no further one begins.
LEMMA SettledInvariant == Spec => []ConfirmedIsSettled
  <1>1. Init => ConfirmedIsSettled
    BY DEF Init, ConfirmedIsSettled
  <1>2. /\ TypeOK /\ OneAttemptIsCurrent /\ ConfirmedIsSettled /\ [Next]_vars
        => ConfirmedIsSettled'
    <2> SUFFICES ASSUME TypeOK, OneAttemptIsCurrent, ConfirmedIsSettled, [Next]_vars
                 PROVE  ConfirmedIsSettled'
      OBVIOUS
  <2>1. ASSUME NEW r \in Runners, NEW s \in Slots, TrackRunner(r, s)
        PROVE  ConfirmedIsSettled'
    BY <2>1
    DEF TrackRunner, StartMoves, ConfirmedIsSettled, TypeOK, storeVars, agentVars,
        worldVars, auxVars
  <2>2. ASSUME NEW r \in Runners, NEW s \in Slots, CreateEnvironment(r, s)
        PROVE  ConfirmedIsSettled'
    BY <2>2
    DEF CreateEnvironment, StartMoves, ConfirmedIsSettled, TypeOK, storeVars,
        agentVars, worldVars, auxVars
  <2>3. ASSUME NEW r \in Runners, NEW s \in Slots, RunFails(r, s)
        PROVE  ConfirmedIsSettled'
    BY <2>3
    DEF RunFails, StartMoves, ConfirmedIsSettled, TypeOK, storeVars, agentVars,
        worldVars, auxVars
  <2>4. ASSUME NEW r \in Runners, NEW s \in Slots, ConfirmRunnerStarted(r, s)
        PROVE  ConfirmedIsSettled'
    BY <2>4
    DEF ConfirmRunnerStarted, StartMoves, OneAttemptIsCurrent, ConfirmedIsSettled, TypeOK,
        storeVars,
        agentVars, worldVars, auxVars
  <2>5. ASSUME NEW r \in Runners, NEW s \in Slots, CleanUpFailedStart(r, s)
        PROVE  ConfirmedIsSettled'
    BY <2>5
    DEF CleanUpFailedStart, StartMoves, ConfirmedIsSettled, TypeOK, storeVars,
        agentVars, worldVars, auxVars
  <2>6. ASSUME NEW r \in Runners, NEW s \in Slots, OpenProvisionalJob(r, s)
        PROVE  ConfirmedIsSettled'
      <3>1. \/ start' = [start EXCEPT ![<<r, s>>] = "capture"]
            \/ start' = [start EXCEPT ![<<r, s>>] = "none"]
        BY <2>6 DEF OpenProvisionalJob, StartMoves
      <3>2. \A q \in Runners, p \in Slots :
               start'[<<q, p>>] \in {start[<<q, p>>], "capture", "none"}
        BY <3>1 DEF TypeOK
      <3>3. UNCHANGED <<known, retired, confirmed>>
        BY <2>6 DEF OpenProvisionalJob, agentVars, auxVars
      <3>4. QED
        BY <3>2, <3>3 DEF ConfirmedIsSettled, TypeOK
  <2>7. ASSUME NEW r \in Runners, NEW s \in Slots, NEW c \in Captures,
               CaptureProvisionalJob(r, s, c)
        PROVE  ConfirmedIsSettled'
    BY <2>7
    DEF CaptureProvisionalJob, StartMoves, ConfirmedIsSettled, TypeOK, storeVars,
        agentVars, worldVars, auxVars
  <2>8. ASSUME NEW k \in Cleaners, ForgetRunners(k) PROVE ConfirmedIsSettled'
      <3>1. /\ known \ known' \subseteq Scope(k)
            /\ retired' = retired \cup Scope(k)
            /\ confirmed' = confirmed \ Scope(k)
            /\ start' = start
        BY <2>8 DEF ForgetRunners, TypeOK, Scope
      <3>2. QED
        BY <3>1 DEF ConfirmedIsSettled, TypeOK
  <2>9. ASSUME NEW k \in Cleaners, StopProvisionalCapture(k) PROVE ConfirmedIsSettled'
    BY <2>9
    DEF StopProvisionalCapture, ConfirmedIsSettled, TypeOK, storeVars, agentVars,
        worldVars, auxVars
  <2>10. ASSUME NEW k \in Cleaners, CloseProvisionalJob(k) PROVE ConfirmedIsSettled'
    BY <2>10
    DEF CloseProvisionalJob, ConfirmedIsSettled, TypeOK, storeVars, agentVars,
        worldVars, auxVars
  <2>11. ASSUME NEW k \in Cleaners, RemoveRunners(k) PROVE ConfirmedIsSettled'
    BY <2>11
    DEF RemoveRunners, ConfirmedIsSettled, TypeOK, storeVars, agentVars, worldVars,
        auxVars
  <2>12. ASSUME NEW r \in Runners, ReceiveJobAssigned(r) PROVE ConfirmedIsSettled'
    BY <2>12
    DEF ReceiveJobAssigned, Receive, ConfirmedIsSettled, TypeOK, storeVars, agentVars,
        worldVars, auxVars
  <2>13. ASSUME NEW r \in Runners, ReceiveJobFinished(r) PROVE ConfirmedIsSettled'
    BY <2>13
    DEF ReceiveJobFinished, Receive, ConfirmedIsSettled, TypeOK, storeVars, agentVars,
        worldVars, auxVars
  <2>14. ASSUME FindProvisionalJob PROVE ConfirmedIsSettled'
    BY <2>14
    DEF FindProvisionalJob, ConfirmedIsSettled, TypeOK, storeVars, agentVars,
        worldVars, auxVars
  <2>15. ASSUME AttachJobMetadata PROVE ConfirmedIsSettled'
    BY <2>15
    DEF AttachJobMetadata, ConfirmedIsSettled, TypeOK, storeVars, agentVars,
        worldVars, auxVars
  <2>16. ASSUME AttachFails PROVE ConfirmedIsSettled'
    BY <2>16
    DEF AttachFails, ConfirmedIsSettled, TypeOK, storeVars, agentVars, worldVars,
        auxVars
  <2>17. ASSUME RecordJobStarted PROVE ConfirmedIsSettled'
    BY <2>17
    DEF RecordJobStarted, ConfirmedIsSettled, TypeOK, storeVars, agentVars, worldVars,
        auxVars
  <2>18. ASSUME StopJobCapture PROVE ConfirmedIsSettled'
    BY <2>18
    DEF StopJobCapture, ConfirmedIsSettled, TypeOK, storeVars, agentVars, worldVars,
        auxVars
  <2>19. ASSUME RecordJobCompleted PROVE ConfirmedIsSettled'
    BY <2>19
    DEF RecordJobCompleted, ConfirmedIsSettled, TypeOK, storeVars, agentVars,
        worldVars, auxVars
  <2>20. ASSUME NEW c \in Captures, CaptureStep(c) PROVE ConfirmedIsSettled'
    BY <2>20
    DEF CaptureStep, CaptureEnds, ConfirmedIsSettled, TypeOK, storeVars, agentVars,
        worldVars, auxVars
  <2>21. ASSUME NEW r \in Runners, RunnerExits(r) PROVE ConfirmedIsSettled'
    BY <2>21
    DEF RunnerExits, ConfirmedIsSettled, TypeOK, storeVars, agentVars, worldVars,
        auxVars
  <2>22. ASSUME NEW r \in Runners, TakeJob(r) PROVE ConfirmedIsSettled'
    BY <2>22
    DEF TakeJob, ConfirmedIsSettled, TypeOK, storeVars, agentVars, worldVars, auxVars
  <2>23. ASSUME NEW r \in Runners, JobEnds(r) PROVE ConfirmedIsSettled'
    BY <2>23
    DEF JobEnds, ConfirmedIsSettled, TypeOK, storeVars, agentVars, worldVars, auxVars
  <2>24. ASSUME Restart PROVE ConfirmedIsSettled'
    BY <2>24
    DEF Restart, ConfirmedIsSettled, TypeOK, storeVars, agentVars, worldVars, auxVars
  <2>25. CASE UNCHANGED vars
    BY <2>25
    DEF vars, ConfirmedIsSettled, TypeOK, storeVars, captureVars, agentVars,
        worldVars, auxVars
  <2>26. QED
    BY <2>1, <2>2, <2>3, <2>4, <2>5, <2>6, <2>7, <2>8, <2>9, <2>10, <2>11, <2>12,
       <2>13, <2>14, <2>15, <2>16, <2>17, <2>18, <2>19, <2>20, <2>21, <2>22, <2>23,
       <2>24, <2>25
    DEF Next, StartStep, CleanupStep, ListenerStep, WorldStep
  <1>3. QED
    BY <1>1, <1>2, AgentTypes, AttemptInvariant, PTL DEF Spec

\* For every number of runners and of goroutines, and however often StartRunner is sent
\* again: no step forgets or removes a runner whose start was confirmed, until a
\* cleanup command comes or the daemon restarts, except that an earlier attempt that
\* failed may still remove it.
THEOREM ConfirmedIsKept == Spec => ConfirmedRunnerKept
  <1> DEFINE Kept ==
        \A r \in confirmed \cap confirmed' :
            /\ r \in known'
            /\ \/ env[r] = "absent" \/ env'[r] # "absent"
               \/ \E s \in Slots : start[<<r, s>>] = "undo"
  <1>1. /\ TypeOK /\ ConfirmedIsSettled /\ ConfirmedIsSettled' /\ CleanersWereSent
        /\ [Next]_vars
        => [Kept]_vars
    <2> SUFFICES ASSUME TypeOK, ConfirmedIsSettled, ConfirmedIsSettled',
                        CleanersWereSent, [Next]_vars
                 PROVE  [Kept]_vars
      OBVIOUS
    <2> DEFINE Stays == \A r \in Runners : \/ env[r] = "absent" \/ env'[r] # "absent"
                                           \/ r \notin confirmed
                                           \/ \E s \in Slots : start[<<r, s>>] = "undo"
    <2> SUFFICES Stays
      BY DEF ConfirmedIsSettled, TypeOK
  <2>1. ASSUME NEW r \in Runners, NEW s \in Slots, TrackRunner(r, s) PROVE Stays
    BY <2>1
    DEF TrackRunner, TypeOK, worldVars
  <2>2. ASSUME NEW r \in Runners, NEW s \in Slots, CreateEnvironment(r, s) PROVE Stays
    BY <2>2
    DEF CreateEnvironment, TypeOK, worldVars
  <2>3. ASSUME NEW r \in Runners, NEW s \in Slots, RunFails(r, s) PROVE Stays
    BY <2>3
    DEF RunFails, TypeOK, worldVars
  <2>4. ASSUME NEW r \in Runners, NEW s \in Slots, ConfirmRunnerStarted(r, s)
        PROVE  Stays
    BY <2>4
    DEF ConfirmRunnerStarted, TypeOK, worldVars
  <2>5. ASSUME NEW r \in Runners, NEW s \in Slots, CleanUpFailedStart(r, s) PROVE Stays
      <3>1. {r} \in SUBSET Runners
        BY DEF Scope, Cleaners
      <3>2. Removed({r})
        BY <2>5 DEF CleanUpFailedStart
      <3>3. \A q \in Runners \ {r} : env'[q] = env[q]
        BY <3>1, <3>2, RemovedEffect
      <3>4. QED
        BY <2>5, <3>3 DEF CleanUpFailedStart, StartMoves
  <2>6. ASSUME NEW r \in Runners, NEW s \in Slots, OpenProvisionalJob(r, s) PROVE Stays
    BY <2>6
    DEF OpenProvisionalJob, TypeOK, worldVars
  <2>7. ASSUME NEW r \in Runners, NEW s \in Slots, NEW c \in Captures,
               CaptureProvisionalJob(r, s, c)
        PROVE  Stays
    BY <2>7
    DEF CaptureProvisionalJob, TypeOK, worldVars
  <2>8. ASSUME NEW k \in Cleaners, ForgetRunners(k) PROVE Stays
    BY <2>8
    DEF ForgetRunners, TypeOK, worldVars
  <2>9. ASSUME NEW k \in Cleaners, StopProvisionalCapture(k) PROVE Stays
    BY <2>9
    DEF StopProvisionalCapture, TypeOK, worldVars
  <2>10. ASSUME NEW k \in Cleaners, CloseProvisionalJob(k) PROVE Stays
    BY <2>10
    DEF CloseProvisionalJob, TypeOK, worldVars
  <2>11. ASSUME NEW k \in Cleaners, RemoveRunners(k) PROVE Stays
      <3>1. Scope(k) \in SUBSET Runners
        BY DEF Scope, Cleaners
      <3>2. Removed(Scope(k))
        BY <2>11 DEF RemoveRunners
      <3>3. \A q \in Runners \ Scope(k) : env'[q] = env[q]
        BY <3>1, <3>2, RemovedEffect
      <3>4. QED
        BY <2>11, <3>3 DEF RemoveRunners, CleanersWereSent, ConfirmedIsSettled
  <2>12. ASSUME NEW r \in Runners, ReceiveJobAssigned(r) PROVE Stays
    BY <2>12
    DEF ReceiveJobAssigned, Receive, TypeOK, worldVars
  <2>13. ASSUME NEW r \in Runners, ReceiveJobFinished(r) PROVE Stays
    BY <2>13
    DEF ReceiveJobFinished, Receive, TypeOK, worldVars
  <2>14. ASSUME FindProvisionalJob PROVE Stays
    BY <2>14
    DEF FindProvisionalJob, TypeOK, worldVars
  <2>15. ASSUME AttachJobMetadata PROVE Stays
    BY <2>15
    DEF AttachJobMetadata, TypeOK, worldVars
  <2>16. ASSUME AttachFails PROVE Stays
    BY <2>16
    DEF AttachFails, TypeOK, worldVars
  <2>17. ASSUME RecordJobStarted PROVE Stays
    BY <2>17
    DEF RecordJobStarted, TypeOK, worldVars
  <2>18. ASSUME StopJobCapture PROVE Stays
    BY <2>18
    DEF StopJobCapture, TypeOK, worldVars
  <2>19. ASSUME RecordJobCompleted PROVE Stays
    BY <2>19
    DEF RecordJobCompleted, TypeOK, worldVars
  <2>20. ASSUME NEW c \in Captures, CaptureStep(c) PROVE Stays
    BY <2>20
    DEF CaptureStep, CaptureEnds, TypeOK, worldVars
  <2>21. ASSUME NEW r \in Runners, RunnerExits(r) PROVE Stays
    BY <2>21
    DEF RunnerExits, TypeOK, worldVars
  <2>22. ASSUME NEW r \in Runners, TakeJob(r) PROVE Stays
    BY <2>22
    DEF TakeJob, TypeOK, worldVars
  <2>23. ASSUME NEW r \in Runners, JobEnds(r) PROVE Stays
    BY <2>23
    DEF JobEnds, TypeOK, worldVars
  <2>24. ASSUME Restart PROVE Stays
    BY <2>24
    DEF Restart, TypeOK, worldVars
  <2>25. CASE UNCHANGED vars
    BY <2>25
    DEF vars, TypeOK, storeVars, captureVars, agentVars, worldVars, auxVars
  <2>26. QED
    BY <2>1, <2>2, <2>3, <2>4, <2>5, <2>6, <2>7, <2>8, <2>9, <2>10, <2>11, <2>12,
       <2>13, <2>14, <2>15, <2>16, <2>17, <2>18, <2>19, <2>20, <2>21, <2>22, <2>23,
       <2>24, <2>25
    DEF Next, StartStep, CleanupStep, ListenerStep, WorldStep
  <1>2. QED
    BY <1>1, AgentTypes, SettledInvariant, CleanersInvariant, PTL
    DEF Spec, ConfirmedRunnerKept

-----------------------------------------------------------------------------
(* A completed job is no longer captured *)

\* What the cloud says of a job it says after the job was taken, and JobAssigned is on
\* its way at most once: a message that was received is not sent again.
NewsIsOfAJob ==
    \A r \in Runners :
        /\ news[r] # {} => github[r] # "waiting"
        /\ listener.step # "ready" /\ listener.runner = r =>
              github[r] # "waiting" /\ "assigned" \notin news[r]

\* The assignment of this runner's job has yet to come, or to be recorded.
AssignmentIsNew(r) ==
    \/ github[r] = "waiting"
    \/ "assigned" \in news[r]
    \/ /\ listener.runner = r /\ listener.msg = "assigned"
       /\ listener.step \in {"attach", "move", "record"}

\* Nothing is recorded of a job before its assignment is handled.
NewJobHasNoRecord ==
    \A r \in Runners : AssignmentIsNew(r) => record[JobOf(r)] = "none"

\* A goroutine that writes under the id of a job is the one the map captures has there,
\* and the job has a record: there is never a second one that stopCapture would miss.
JobCaptureIsHeld ==
    \A r \in Runners, c \in Captures :
        Running(c) /\ writesTo[c] = JobOf(r) =>
            handle[JobOf(r)] = c /\ record[JobOf(r)] # "none"

\* stopCapture has stopped whoever wrote under the id it waits for.
StoppedBeforeCompletion ==
    listener.step = "wait" =>
        \A c \in Captures : ~(Running(c) /\ writesTo[c] = JobOf(listener.runner))

\* What a step does that does not handle a job message: it leaves the record and the
\* map entry of every job, and starts no capture of one.
JobsUntouched ==
    /\ \A r \in Runners : /\ record'[JobOf(r)] = record[JobOf(r)]
                          /\ handle'[JobOf(r)] = handle[JobOf(r)]
    /\ \A r \in Runners, c \in Captures :
         Running(c)' /\ writesTo'[c] = JobOf(r) => Running(c) /\ writesTo[c] = JobOf(r)
    /\ listener' = listener \/ listener'.step # "wait"

\* Messages follow the job they are about.
LEMMA NewsInvariant == Spec => []NewsIsOfAJob
  <1>1. Init => NewsIsOfAJob
    BY DEF Init, NewsIsOfAJob, Ready
  <1>2. TypeOK /\ NewsIsOfAJob /\ [Next]_vars => NewsIsOfAJob'
    <2> SUFFICES ASSUME TypeOK, NewsIsOfAJob, [Next]_vars
                 PROVE  NewsIsOfAJob'
      OBVIOUS
  <2>1. ASSUME NEW r \in Runners, NEW s \in Slots, TrackRunner(r, s) PROVE NewsIsOfAJob'
    BY <2>1
    DEF TrackRunner, NewsIsOfAJob, TypeOK, worldVars
  <2>2. ASSUME NEW r \in Runners, NEW s \in Slots, CreateEnvironment(r, s)
        PROVE  NewsIsOfAJob'
    BY <2>2
    DEF CreateEnvironment, NewsIsOfAJob, TypeOK, worldVars
  <2>3. ASSUME NEW r \in Runners, NEW s \in Slots, RunFails(r, s) PROVE NewsIsOfAJob'
    BY <2>3
    DEF RunFails, NewsIsOfAJob, TypeOK, worldVars
  <2>4. ASSUME NEW r \in Runners, NEW s \in Slots, ConfirmRunnerStarted(r, s)
        PROVE  NewsIsOfAJob'
    BY <2>4
    DEF ConfirmRunnerStarted, NewsIsOfAJob, TypeOK, worldVars
  <2>5. ASSUME NEW r \in Runners, NEW s \in Slots, CleanUpFailedStart(r, s)
        PROVE  NewsIsOfAJob'
      BY <2>5
      DEF CleanUpFailedStart, Removed, NewsIsOfAJob
  <2>6. ASSUME NEW r \in Runners, NEW s \in Slots, OpenProvisionalJob(r, s)
        PROVE  NewsIsOfAJob'
    BY <2>6
    DEF OpenProvisionalJob, NewsIsOfAJob, TypeOK, worldVars
  <2>7. ASSUME NEW r \in Runners, NEW s \in Slots, NEW c \in Captures,
               CaptureProvisionalJob(r, s, c)
        PROVE  NewsIsOfAJob'
    BY <2>7
    DEF CaptureProvisionalJob, NewsIsOfAJob, TypeOK, worldVars
  <2>8. ASSUME NEW k \in Cleaners, ForgetRunners(k) PROVE NewsIsOfAJob'
    BY <2>8
    DEF ForgetRunners, NewsIsOfAJob, TypeOK, worldVars
  <2>9. ASSUME NEW k \in Cleaners, StopProvisionalCapture(k) PROVE NewsIsOfAJob'
    BY <2>9
    DEF StopProvisionalCapture, NewsIsOfAJob, TypeOK, worldVars
  <2>10. ASSUME NEW k \in Cleaners, CloseProvisionalJob(k) PROVE NewsIsOfAJob'
    BY <2>10
    DEF CloseProvisionalJob, NewsIsOfAJob, TypeOK, worldVars
  <2>11. ASSUME NEW k \in Cleaners, RemoveRunners(k) PROVE NewsIsOfAJob'
      BY <2>11
      DEF RemoveRunners, Removed, NewsIsOfAJob
  <2>12. ASSUME NEW r \in Runners, ReceiveJobAssigned(r) PROVE NewsIsOfAJob'
    BY <2>12
    DEF ReceiveJobAssigned, Receive, Ready, NewsIsOfAJob, TypeOK, worldVars
  <2>13. ASSUME NEW r \in Runners, ReceiveJobFinished(r) PROVE NewsIsOfAJob'
    BY <2>13
    DEF ReceiveJobFinished, Receive, Ready, NewsIsOfAJob, TypeOK, worldVars
  <2>14. ASSUME FindProvisionalJob PROVE NewsIsOfAJob'
    BY <2>14
    DEF FindProvisionalJob, ListenerGoesTo, WhenNotAttached, Ready, NewsIsOfAJob,
        TypeOK, worldVars
  <2>15. ASSUME AttachJobMetadata PROVE NewsIsOfAJob'
    BY <2>15
    DEF AttachJobMetadata, ListenerGoesTo, WhenAttached, Ready, NewsIsOfAJob, TypeOK,
        worldVars
  <2>16. ASSUME AttachFails PROVE NewsIsOfAJob'
    BY <2>16
    DEF AttachFails, ListenerGoesTo, WhenNotAttached, Ready, NewsIsOfAJob, TypeOK,
        worldVars
  <2>17. ASSUME RecordJobStarted PROVE NewsIsOfAJob'
    BY <2>17
    DEF RecordJobStarted, ListenerGoesTo, Ready, NewsIsOfAJob, TypeOK, worldVars
  <2>18. ASSUME StopJobCapture PROVE NewsIsOfAJob'
    BY <2>18
    DEF StopJobCapture, ListenerGoesTo, Ready, NewsIsOfAJob, TypeOK, worldVars
  <2>19. ASSUME RecordJobCompleted PROVE NewsIsOfAJob'
    BY <2>19
    DEF RecordJobCompleted, ListenerGoesTo, Ready, NewsIsOfAJob, TypeOK, worldVars
  <2>20. ASSUME NEW c \in Captures, CaptureStep(c) PROVE NewsIsOfAJob'
    BY <2>20
    DEF CaptureStep, CaptureEnds, NewsIsOfAJob, TypeOK, worldVars
  <2>21. ASSUME NEW r \in Runners, RunnerExits(r) PROVE NewsIsOfAJob'
    BY <2>21
    DEF RunnerExits, NewsIsOfAJob, TypeOK, worldVars
  <2>22. ASSUME NEW r \in Runners, TakeJob(r) PROVE NewsIsOfAJob'
    BY <2>22
    DEF TakeJob, NewsIsOfAJob, TypeOK, worldVars
  <2>23. ASSUME NEW r \in Runners, JobEnds(r) PROVE NewsIsOfAJob'
    BY <2>23
    DEF JobEnds, NewsIsOfAJob, TypeOK, worldVars
  <2>24. ASSUME Restart PROVE NewsIsOfAJob'
    BY <2>24
    DEF Restart, Ready, NewsIsOfAJob, TypeOK, worldVars
  <2>25. CASE UNCHANGED vars
    BY <2>25
    DEF vars, NewsIsOfAJob, TypeOK, storeVars, captureVars, agentVars, worldVars,
        auxVars
  <2>26. QED
    BY <2>1, <2>2, <2>3, <2>4, <2>5, <2>6, <2>7, <2>8, <2>9, <2>10, <2>11, <2>12,
       <2>13, <2>14, <2>15, <2>16, <2>17, <2>18, <2>19, <2>20, <2>21, <2>22, <2>23,
       <2>24, <2>25
    DEF Next, StartStep, CleanupStep, ListenerStep, WorldStep
  <1>3. QED
    BY <1>1, <1>2, AgentTypes, PTL DEF Spec

\* An assignment does not become new again: it is sent once, and received once.
LEMMA AssignedOnce ==
    ASSUME TypeOK, [Next]_vars
    PROVE  \A q \in Runners : AssignmentIsNew(q)' => AssignmentIsNew(q)
  <1> DEFINE Once == \A q \in Runners : AssignmentIsNew(q)' => AssignmentIsNew(q)
  <1> SUFFICES Once
    OBVIOUS
<1>1. ASSUME NEW r \in Runners, NEW s \in Slots, TrackRunner(r, s) PROVE Once
  BY <1>1
  DEF TrackRunner, AssignmentIsNew, TypeOK, worldVars
<1>2. ASSUME NEW r \in Runners, NEW s \in Slots, CreateEnvironment(r, s) PROVE Once
  BY <1>2
  DEF CreateEnvironment, AssignmentIsNew, TypeOK, worldVars
<1>3. ASSUME NEW r \in Runners, NEW s \in Slots, RunFails(r, s) PROVE Once
  BY <1>3
  DEF RunFails, AssignmentIsNew, TypeOK, worldVars
<1>4. ASSUME NEW r \in Runners, NEW s \in Slots, ConfirmRunnerStarted(r, s) PROVE Once
  BY <1>4
  DEF ConfirmRunnerStarted, AssignmentIsNew, TypeOK, worldVars
<1>5. ASSUME NEW r \in Runners, NEW s \in Slots, CleanUpFailedStart(r, s) PROVE Once
    BY <1>5
    DEF CleanUpFailedStart, Removed, AssignmentIsNew
<1>6. ASSUME NEW r \in Runners, NEW s \in Slots, OpenProvisionalJob(r, s) PROVE Once
  BY <1>6
  DEF OpenProvisionalJob, AssignmentIsNew, TypeOK, worldVars
<1>7. ASSUME NEW r \in Runners, NEW s \in Slots, NEW c \in Captures,
             CaptureProvisionalJob(r, s, c)
      PROVE  Once
  BY <1>7
  DEF CaptureProvisionalJob, AssignmentIsNew, TypeOK, worldVars
<1>8. ASSUME NEW k \in Cleaners, ForgetRunners(k) PROVE Once
  BY <1>8
  DEF ForgetRunners, AssignmentIsNew, TypeOK, worldVars
<1>9. ASSUME NEW k \in Cleaners, StopProvisionalCapture(k) PROVE Once
  BY <1>9
  DEF StopProvisionalCapture, AssignmentIsNew, TypeOK, worldVars
<1>10. ASSUME NEW k \in Cleaners, CloseProvisionalJob(k) PROVE Once
  BY <1>10
  DEF CloseProvisionalJob, AssignmentIsNew, TypeOK, worldVars
<1>11. ASSUME NEW k \in Cleaners, RemoveRunners(k) PROVE Once
    BY <1>11
    DEF RemoveRunners, Removed, AssignmentIsNew
<1>12. ASSUME NEW r \in Runners, ReceiveJobAssigned(r) PROVE Once
  BY <1>12
  DEF ReceiveJobAssigned, Receive, Ready, AssignmentIsNew, TypeOK, worldVars
<1>13. ASSUME NEW r \in Runners, ReceiveJobFinished(r) PROVE Once
  BY <1>13
  DEF ReceiveJobFinished, Receive, Ready, AssignmentIsNew, TypeOK, worldVars
<1>14. ASSUME FindProvisionalJob PROVE Once
  BY <1>14
  DEF FindProvisionalJob, ListenerGoesTo, WhenNotAttached, Ready, AssignmentIsNew,
      TypeOK, worldVars
<1>15. ASSUME AttachJobMetadata PROVE Once
  BY <1>15
  DEF AttachJobMetadata, ListenerGoesTo, WhenAttached, Ready, AssignmentIsNew, TypeOK,
      worldVars
<1>16. ASSUME AttachFails PROVE Once
  BY <1>16
  DEF AttachFails, ListenerGoesTo, WhenNotAttached, Ready, AssignmentIsNew, TypeOK,
      worldVars
<1>17. ASSUME RecordJobStarted PROVE Once
  BY <1>17
  DEF RecordJobStarted, ListenerGoesTo, Ready, AssignmentIsNew, TypeOK, worldVars
<1>18. ASSUME StopJobCapture PROVE Once
  BY <1>18
  DEF StopJobCapture, ListenerGoesTo, Ready, AssignmentIsNew, TypeOK, worldVars
<1>19. ASSUME RecordJobCompleted PROVE Once
  BY <1>19
  DEF RecordJobCompleted, ListenerGoesTo, Ready, AssignmentIsNew, TypeOK, worldVars
<1>20. ASSUME NEW c \in Captures, CaptureStep(c) PROVE Once
  BY <1>20
  DEF CaptureStep, CaptureEnds, AssignmentIsNew, TypeOK, worldVars
<1>21. ASSUME NEW r \in Runners, RunnerExits(r) PROVE Once
  BY <1>21
  DEF RunnerExits, AssignmentIsNew, TypeOK, worldVars
<1>22. ASSUME NEW r \in Runners, TakeJob(r) PROVE Once
  BY <1>22
  DEF TakeJob, AssignmentIsNew, TypeOK, worldVars
<1>23. ASSUME NEW r \in Runners, JobEnds(r) PROVE Once
  BY <1>23
  DEF JobEnds, AssignmentIsNew, TypeOK, worldVars
<1>24. ASSUME Restart PROVE Once
  BY <1>24
  DEF Restart, Ready, AssignmentIsNew, TypeOK, worldVars
<1>25. CASE UNCHANGED vars
  BY <1>25
  DEF vars, AssignmentIsNew, TypeOK, storeVars, captureVars, agentVars, worldVars,
      auxVars
<1>26. QED
  BY <1>1, <1>2, <1>3, <1>4, <1>5, <1>6, <1>7, <1>8, <1>9, <1>10, <1>11, <1>12, <1>13,
     <1>14, <1>15, <1>16, <1>17, <1>18, <1>19, <1>20, <1>21, <1>22, <1>23, <1>24, <1>25
  DEF Next, StartStep, CleanupStep, ListenerStep, WorldStep

\* Only what handles a job message, and a restart, changes what is kept of jobs.
LEMMA JobSteps ==
    ASSUME TypeOK, [Next]_vars
    PROVE  \/ JobsUntouched
           \/ AttachJobMetadata \/ RecordJobStarted
           \/ StopJobCapture \/ RecordJobCompleted \/ Restart
  <1> SUFFICES ASSUME ~AttachJobMetadata, ~RecordJobStarted, ~StopJobCapture,
                      ~RecordJobCompleted, ~Restart
               PROVE  JobsUntouched
    OBVIOUS
<1>1. ASSUME NEW r \in Runners, NEW s \in Slots, TrackRunner(r, s) PROVE JobsUntouched
  BY <1>1, IdsAreDistinct
  DEF TrackRunner, JobsUntouched, Running, TypeOK, JobStoreTypeOK, storeVars,
      captureVars
<1>2. ASSUME NEW r \in Runners, NEW s \in Slots, CreateEnvironment(r, s)
      PROVE  JobsUntouched
  BY <1>2, IdsAreDistinct
  DEF CreateEnvironment, JobsUntouched, Running, TypeOK, JobStoreTypeOK, storeVars,
      captureVars
<1>3. ASSUME NEW r \in Runners, NEW s \in Slots, RunFails(r, s) PROVE JobsUntouched
  BY <1>3, IdsAreDistinct
  DEF RunFails, JobsUntouched, Running, TypeOK, JobStoreTypeOK, storeVars, captureVars
<1>4. ASSUME NEW r \in Runners, NEW s \in Slots, ConfirmRunnerStarted(r, s)
      PROVE  JobsUntouched
  BY <1>4, IdsAreDistinct
  DEF ConfirmRunnerStarted, JobsUntouched, Running, TypeOK, JobStoreTypeOK, storeVars,
      captureVars
<1>5. ASSUME NEW r \in Runners, NEW s \in Slots, CleanUpFailedStart(r, s)
      PROVE  JobsUntouched
    BY <1>5
    DEF CleanUpFailedStart, JobsUntouched, Running, storeVars
<1>6. ASSUME NEW r \in Runners, NEW s \in Slots, OpenProvisionalJob(r, s)
      PROVE  JobsUntouched
  BY <1>6, IdsAreDistinct
  DEF OpenProvisionalJob, UpsertStartedJob, JobsUntouched, Running, TypeOK,
      JobStoreTypeOK, storeVars, captureVars
<1>7. ASSUME NEW r \in Runners, NEW s \in Slots, NEW c \in Captures,
             CaptureProvisionalJob(r, s, c)
      PROVE  JobsUntouched
  BY <1>7, IdsAreDistinct
  DEF CaptureProvisionalJob, StartCapture, JobsUntouched, Running, TypeOK,
      JobStoreTypeOK, storeVars, captureVars
<1>8. ASSUME NEW k \in Cleaners, ForgetRunners(k) PROVE JobsUntouched
  BY <1>8, IdsAreDistinct
  DEF ForgetRunners, JobsUntouched, Running, TypeOK, JobStoreTypeOK, storeVars,
      captureVars
<1>9. ASSUME NEW k \in Cleaners, StopProvisionalCapture(k) PROVE JobsUntouched
  BY <1>9, IdsAreDistinct
  DEF StopProvisionalCapture, StopCapture, JobsUntouched, Running, TypeOK,
      JobStoreTypeOK, storeVars, captureVars
<1>10. ASSUME NEW k \in Cleaners, CloseProvisionalJob(k) PROVE JobsUntouched
    <2> DEFINE id == Placeholder(cleaner[k].at)
    <2>1. \/ record' = record
          \/ record' = [record EXCEPT ![id] = IF record[id] = "running" THEN "closed" ELSE @]
      BY <1>10 DEF CloseProvisionalJob, CloseRunningJob, GetJob
    <2>2. \A r \in Runners : id # JobOf(r)
      BY DEF Placeholder, JobOf
    <2> HIDE DEF id
    <2>3. UNCHANGED <<captureVars, listener>>
      BY <1>10 DEF CloseProvisionalJob
    <2>4. QED
      BY <2>1, <2>2, <2>3, IdsAreDistinct
      DEF JobsUntouched, Running, captureVars, TypeOK, JobStoreTypeOK
<1>11. ASSUME NEW k \in Cleaners, RemoveRunners(k) PROVE JobsUntouched
    BY <1>11
    DEF RemoveRunners, JobsUntouched, Running, storeVars
<1>12. ASSUME NEW r \in Runners, ReceiveJobAssigned(r) PROVE JobsUntouched
  BY <1>12, IdsAreDistinct
  DEF ReceiveJobAssigned, Receive, Ready, JobsUntouched, Running, TypeOK,
      JobStoreTypeOK, storeVars, captureVars
<1>13. ASSUME NEW r \in Runners, ReceiveJobFinished(r) PROVE JobsUntouched
  BY <1>13, IdsAreDistinct
  DEF ReceiveJobFinished, Receive, Ready, JobsUntouched, Running, TypeOK,
      JobStoreTypeOK, storeVars, captureVars
<1>14. ASSUME FindProvisionalJob PROVE JobsUntouched
  BY <1>14, IdsAreDistinct
  DEF FindProvisionalJob, ListenerGoesTo, WhenNotAttached, Ready, JobsUntouched,
      Running, TypeOK, JobStoreTypeOK, storeVars, captureVars
<1>15. ASSUME AttachJobMetadata PROVE JobsUntouched
    BY <1>15
<1>16. ASSUME AttachFails PROVE JobsUntouched
  BY <1>16, IdsAreDistinct
  DEF AttachFails, ListenerGoesTo, WhenNotAttached, Ready, JobsUntouched, Running,
      TypeOK, JobStoreTypeOK, storeVars, captureVars
<1>17. ASSUME RecordJobStarted PROVE JobsUntouched
    BY <1>17
<1>18. ASSUME StopJobCapture PROVE JobsUntouched
    BY <1>18
<1>19. ASSUME RecordJobCompleted PROVE JobsUntouched
    BY <1>19
<1>20. ASSUME NEW c \in Captures, CaptureStep(c) PROVE JobsUntouched
  BY <1>20, IdsAreDistinct
  DEF CaptureStep, CaptureEnds, JobsUntouched, Running, TypeOK, JobStoreTypeOK,
      storeVars, captureVars
<1>21. ASSUME NEW r \in Runners, RunnerExits(r) PROVE JobsUntouched
  BY <1>21, IdsAreDistinct
  DEF RunnerExits, JobsUntouched, Running, TypeOK, JobStoreTypeOK, storeVars,
      captureVars
<1>22. ASSUME NEW r \in Runners, TakeJob(r) PROVE JobsUntouched
  BY <1>22, IdsAreDistinct
  DEF TakeJob, JobsUntouched, Running, TypeOK, JobStoreTypeOK, storeVars, captureVars
<1>23. ASSUME NEW r \in Runners, JobEnds(r) PROVE JobsUntouched
  BY <1>23, IdsAreDistinct
  DEF JobEnds, JobsUntouched, Running, TypeOK, JobStoreTypeOK, storeVars, captureVars
<1>24. ASSUME Restart PROVE JobsUntouched
    BY <1>24
<1>25. CASE UNCHANGED vars
  BY <1>25
  DEF vars, JobsUntouched, Running, TypeOK, JobStoreTypeOK, storeVars, captureVars,
      agentVars, worldVars, auxVars
<1>26. QED
  BY <1>1, <1>2, <1>3, <1>4, <1>5, <1>6, <1>7, <1>8, <1>9, <1>10, <1>11, <1>12, <1>13,
     <1>14, <1>15, <1>16, <1>17, <1>18, <1>19, <1>20, <1>21, <1>22, <1>23, <1>24, <1>25
  DEF Next, StartStep, CleanupStep, ListenerStep, WorldStep

\* The record of a job begins with its assignment, or after it.
LEMMA NewJobInvariant == Spec => []NewJobHasNoRecord
  <1>1. Init => NewJobHasNoRecord
    BY IdsAreDistinct DEF Init, JobStoreInit, NewJobHasNoRecord
  <1>2. /\ TypeOK /\ ListenerHasMessage /\ NewsIsOfAJob /\ NewJobHasNoRecord
        /\ [Next]_vars
        => NewJobHasNoRecord'
    <2> SUFFICES ASSUME TypeOK, ListenerHasMessage, NewsIsOfAJob, NewJobHasNoRecord,
                        [Next]_vars,
                        NEW r \in Runners, AssignmentIsNew(r)'
                 PROVE  record'[JobOf(r)] = "none"
      BY DEF NewJobHasNoRecord
    <2>1. AssignmentIsNew(r) /\ record[JobOf(r)] = "none"
      BY AssignedOnce DEF NewJobHasNoRecord
    <2> DEFINE q == listener.runner
    <2>2. CASE JobsUntouched
      BY <2>1, <2>2 DEF JobsUntouched
    <2>3. CASE AttachJobMetadata
      <3>1. q \in Runners /\ record' = [record EXCEPT ![JobOf(q)] = "running",
                                                      ![Placeholder(q)] = "none"]
        BY <2>3
        DEF AttachJobMetadata, MoveJob, MoveJobAndCapture, ListenerHasMessage
      <3>2. q # r
        <4>1. SUFFICES ASSUME q = r PROVE FALSE
          OBVIOUS
        <4>2. listener' # listener /\ listener'.step \in {"ready", "stop"}
          BY <2>3
          DEF AttachJobMetadata, ListenerGoesTo, WhenAttached, Ready, TypeOK
        <4>3. UNCHANGED <<github, news>> /\ listener.step # "ready"
          BY <2>3 DEF AttachJobMetadata, worldVars
        <4>4. QED
          BY <4>1, <4>2, <4>3 DEF AssignmentIsNew, NewsIsOfAJob
      <3>3. QED
        BY <2>1, <3>1, <3>2, IdsAreDistinct DEF TypeOK, JobStoreTypeOK
    <2>4. CASE RecordJobStarted
      <3>1. q \in Runners
        BY <2>4 DEF RecordJobStarted, ListenerHasMessage
      <3>2. \/ record' = record
            \/ record' = [record EXCEPT ![JobOf(q)] = "running"]
        BY <2>4 DEF RecordJobStarted, UpsertStartedJob
      <3>3. q # r
        <4>1. SUFFICES ASSUME q = r PROVE FALSE
          OBVIOUS
        <4>2. listener'.step = "ready"
          BY <2>4 DEF RecordJobStarted, ListenerGoesTo, Ready
        <4>3. UNCHANGED <<github, news>> /\ listener.step # "ready"
          BY <2>4 DEF RecordJobStarted, worldVars
        <4>4. QED
          BY <4>1, <4>2, <4>3 DEF AssignmentIsNew, NewsIsOfAJob
      <3>4. QED
        BY <2>1, <3>1, <3>2, <3>3, IdsAreDistinct DEF TypeOK, JobStoreTypeOK
    <2>5. CASE StopJobCapture
      BY <2>1, <2>5 DEF StopJobCapture, StopCapture
    <2>6. CASE RecordJobCompleted
      <3>1. q \in Runners
        BY <2>6 DEF RecordJobCompleted, ListenerHasMessage
      <3>2. \/ record' = record
            \/ record' = [record EXCEPT ![JobOf(q)] = "completed"]
        BY <2>6 DEF RecordJobCompleted, RecordCompleted
      <3>3. q # r
        BY <2>1, <2>6, <3>1 DEF RecordJobCompleted, NewsIsOfAJob, AssignmentIsNew
      <3>4. QED
        BY <2>1, <3>1, <3>2, <3>3, IdsAreDistinct DEF TypeOK, JobStoreTypeOK
    <2>7. CASE Restart
      BY <2>1, <2>7 DEF Restart
    <2>8. QED
      BY <2>2, <2>3, <2>4, <2>5, <2>6, <2>7, JobSteps
  <1>3. QED
    BY <1>1, <1>2, AgentTypes, NewsInvariant, PTL DEF Spec

\* A new capture never takes the place of one that still writes under the same job's id,
\* and one that is moved goes together with its entry.
LEMMA HeldInvariant == Spec => []JobCaptureIsHeld
  <1>1. Init => JobCaptureIsHeld
    BY DEF Init, JobStoreInit, JobCaptureIsHeld, Running
  <1>2. /\ TypeOK /\ ListenerHasMessage /\ NewJobHasNoRecord /\ JobCaptureIsHeld
        /\ [Next]_vars
        => JobCaptureIsHeld'
    <2> SUFFICES ASSUME TypeOK, ListenerHasMessage, NewJobHasNoRecord,
                        JobCaptureIsHeld, [Next]_vars,
                        NEW r \in Runners, NEW c \in Captures,
                        Running(c)', writesTo'[c] = JobOf(r)
                 PROVE  handle'[JobOf(r)] = c /\ record'[JobOf(r)] # "none"
      BY DEF JobCaptureIsHeld
    <2> DEFINE q == listener.runner
    <2>1. CASE JobsUntouched
      BY <2>1 DEF JobsUntouched, JobCaptureIsHeld
    <2>2. CASE AttachJobMetadata
      <3>1. /\ q \in Runners
            /\ record[JobOf(q)] = "none"
            /\ listener.found \in Captures \cup {None}
        BY <2>2
        DEF AttachJobMetadata, ListenerHasMessage, MoveJobSucceeds, GetJob, TypeOK
      <3>2. \A d \in Captures : ~(Running(d) /\ writesTo[d] = JobOf(q))
        BY <3>1 DEF JobCaptureIsHeld
      <3>3. \/ MoveJob(q, listener.found)
            \/ \E d \in Captures : MoveJobAndCapture(q, d)
        BY <2>2 DEF AttachJobMetadata
      <3>4. record' = [record EXCEPT ![JobOf(q)] = "running", ![Placeholder(q)] = "none"]
        BY <3>3 DEF MoveJob, MoveJobAndCapture
      <3>5. record'[JobOf(r)] = IF q = r THEN "running" ELSE record[JobOf(r)]
        BY <3>1, <3>4, IdsAreDistinct DEF TypeOK, JobStoreTypeOK
      <3>6. cancelled' = cancelled
        BY <3>3 DEF MoveJob, MoveJobAndCapture, StartCapture
      <3>7. CASE MoveJob(q, listener.found)
        <4>1. writesTo'[c] = IF c = listener.found /\ writesTo[c] # None
                             THEN JobOf(q) ELSE writesTo[c]
          BY <3>7 DEF MoveJob
        <4>2. handle' = IF listener.found = None THEN handle
                        ELSE [handle EXCEPT ![Placeholder(q)] = None,
                                            ![JobOf(q)] = listener.found]
          BY <3>7 DEF MoveJob
        <4>3. CASE c = listener.found
          <5>1. writesTo[c] # None /\ writesTo'[c] = JobOf(q)
            BY <4>1, <4>3, IdsAreDistinct
          <5>2. q = r
            BY <3>1, <5>1, IdsAreDistinct
          <5>3. handle'[JobOf(q)] = c
            BY <3>1, <4>2, <4>3, IdsAreDistinct DEF TypeOK, JobStoreTypeOK
          <5>4. QED
            BY <3>5, <5>2, <5>3
        <4>4. CASE c # listener.found
          <5>1. writesTo[c] = JobOf(r) /\ Running(c)
            BY <3>6, <4>1, <4>4, IdsAreDistinct DEF Running
          <5>2. q # r /\ handle[JobOf(r)] = c /\ record[JobOf(r)] # "none"
            BY <3>2, <5>1 DEF JobCaptureIsHeld
          <5>3. handle'[JobOf(r)] = handle[JobOf(r)]
            BY <3>1, <4>2, <5>2, IdsAreDistinct DEF TypeOK, JobStoreTypeOK
          <5>4. QED
            BY <3>5, <5>2, <5>3
        <4>5. QED
          BY <4>3, <4>4
      <3>8. ASSUME NEW d \in Captures, MoveJobAndCapture(q, d)
            PROVE  handle'[JobOf(r)] = c /\ record'[JobOf(r)] # "none"
        <4>1. /\ writesTo' = [writesTo EXCEPT ![d] = JobOf(q)]
              /\ handle' = [handle EXCEPT ![JobOf(q)] = d]
          BY <3>8 DEF MoveJobAndCapture, StartCapture
        <4>2. CASE c = d
          BY <3>1, <3>5, <4>1, <4>2, IdsAreDistinct DEF TypeOK, JobStoreTypeOK
        <4>3. CASE c # d
          <5>1. writesTo[c] = JobOf(r) /\ Running(c)
            BY <3>6, <4>1, <4>3 DEF Running, TypeOK, JobStoreTypeOK
          <5>2. q # r /\ handle[JobOf(r)] = c /\ record[JobOf(r)] # "none"
            BY <3>2, <5>1 DEF JobCaptureIsHeld
          <5>3. QED
            BY <3>1, <3>5, <4>1, <5>2, IdsAreDistinct DEF TypeOK, JobStoreTypeOK
        <4>4. QED
          BY <4>2, <4>3
      <3>9. QED
        BY <3>3, <3>7, <3>8
    <2>3. CASE RecordJobStarted
      <3>1. q \in Runners /\ AssignmentIsNew(q)
        BY <2>3 DEF RecordJobStarted, ListenerHasMessage, AssignmentIsNew
      <3>2. \A d \in Captures : ~(Running(d) /\ writesTo[d] = JobOf(q))
        BY <3>1 DEF JobCaptureIsHeld, NewJobHasNoRecord
      <3>3. CASE UNCHANGED captureVars
        <4>1. Running(c) /\ writesTo[c] = JobOf(r)
          BY <3>3 DEF captureVars, Running
        <4>2. q # r /\ handle[JobOf(r)] = c /\ record[JobOf(r)] # "none"
          BY <3>2, <4>1 DEF JobCaptureIsHeld
        <4>3. \/ record' = record
              \/ record' = [record EXCEPT ![JobOf(q)] = "running"]
          BY <2>3 DEF RecordJobStarted, UpsertStartedJob
        <4>4. QED
          BY <3>1, <3>3, <4>2, <4>3, IdsAreDistinct
          DEF captureVars, TypeOK, JobStoreTypeOK
      <3>4. ASSUME NEW d \in Captures, StartCapture(JobOf(q), d),
                   UpsertStartedJob(JobOf(q))
            PROVE  handle'[JobOf(r)] = c /\ record'[JobOf(r)] # "none"
        <4>1. /\ writesTo' = [writesTo EXCEPT ![d] = JobOf(q)]
              /\ handle' = [handle EXCEPT ![JobOf(q)] = d]
              /\ cancelled' = cancelled
              /\ record' = [record EXCEPT ![JobOf(q)] = "running"]
          BY <3>4 DEF StartCapture, UpsertStartedJob
        <4>2. CASE c = d
          BY <3>1, <4>1, <4>2, IdsAreDistinct DEF TypeOK, JobStoreTypeOK
        <4>3. CASE c # d
          <5>1. writesTo[c] = JobOf(r) /\ Running(c)
            BY <4>1, <4>3 DEF Running, TypeOK, JobStoreTypeOK
          <5>2. q # r /\ handle[JobOf(r)] = c /\ record[JobOf(r)] # "none"
            BY <3>2, <5>1 DEF JobCaptureIsHeld
          <5>3. QED
            BY <3>1, <4>1, <5>2, IdsAreDistinct DEF TypeOK, JobStoreTypeOK
        <4>4. QED
          BY <4>2, <4>3
      <3>5. QED
        BY <2>3, <3>3, <3>4 DEF RecordJobStarted, captureVars
    <2>4. CASE StopJobCapture
      <3>1. q \in Runners
        BY <2>4 DEF StopJobCapture, ListenerHasMessage
      <3>2. /\ handle' = [handle EXCEPT ![JobOf(q)] = None]
            /\ cancelled' = IF handle[JobOf(q)] # None /\ writesTo[handle[JobOf(q)]] # None
                            THEN cancelled \cup {handle[JobOf(q)]} ELSE cancelled
            /\ UNCHANGED <<record, writesTo>>
        BY <2>4 DEF StopJobCapture, StopCapture
      <3>3. Running(c) /\ writesTo[c] = JobOf(r)
        BY <3>2 DEF Running
      <3>4. handle[JobOf(r)] = c /\ record[JobOf(r)] # "none"
        BY <3>3 DEF JobCaptureIsHeld
      <3>5. q # r
        BY <3>2, <3>3, <3>4, IdsAreDistinct DEF Running
      <3>6. QED
        BY <3>1, <3>2, <3>4, <3>5, IdsAreDistinct DEF TypeOK, JobStoreTypeOK
    <2>5. CASE RecordJobCompleted
      <3>1. q \in Runners
        BY <2>5 DEF RecordJobCompleted, ListenerHasMessage
      <3>2. \/ record' = record
            \/ record' = [record EXCEPT ![JobOf(q)] = "completed"]
        BY <2>5 DEF RecordJobCompleted, RecordCompleted
      <3>3. UNCHANGED captureVars
        BY <2>5 DEF RecordJobCompleted
      <3>4. handle[JobOf(r)] = c /\ record[JobOf(r)] # "none"
        BY <3>3 DEF JobCaptureIsHeld, captureVars, Running
      <3>5. QED
        BY <3>1, <3>2, <3>3, <3>4, IdsAreDistinct
        DEF captureVars, TypeOK, JobStoreTypeOK
    <2>6. CASE Restart
      BY <2>6 DEF Restart, NoCaptures, Running
    <2>7. QED
      BY <2>1, <2>2, <2>3, <2>4, <2>5, <2>6, JobSteps
  <1>3. QED
    BY <1>1, <1>2, AgentTypes, NewJobInvariant, PTL DEF Spec

\* For every number of runners, goroutines and captures, and with every fault: whoever
\* records a job's logs and samples has been told to stop before the job's record is
\* completed, and nobody takes it up again.  stopCapture stops the one goroutine the
\* map names; JobCaptureIsHeld is why there is no other.
THEOREM CompletionEndsCapture == Spec => []CompletedJobHasNoCapture
  <1> DEFINE Inv == StoppedBeforeCompletion /\ CompletedJobHasNoCapture
  <1>1. Init => Inv
    BY DEF Init, JobStoreInit, StoppedBeforeCompletion, CompletedJobHasNoCapture, Running
  <1>2. /\ TypeOK /\ ListenerHasMessage /\ NewJobHasNoRecord /\ JobCaptureIsHeld
        /\ Inv /\ [Next]_vars
        => Inv'
    <2> SUFFICES ASSUME TypeOK, ListenerHasMessage, NewJobHasNoRecord,
                        JobCaptureIsHeld, Inv, [Next]_vars
                 PROVE  Inv'
      OBVIOUS
    <2> USE DEF StoppedBeforeCompletion, CompletedJobHasNoCapture
    <2> DEFINE q == listener.runner
               NoneOf(r) == \A c \in Captures : ~(Running(c) /\ writesTo[c] = JobOf(r))
    <2>1. CASE JobsUntouched
      <3>1. \A r \in Runners : NoneOf(r) => NoneOf(r)'
        BY <2>1 DEF JobsUntouched
      <3>2. StoppedBeforeCompletion'
        BY <2>1, <3>1 DEF JobsUntouched, ListenerHasMessage
      <3>3. CompletedJobHasNoCapture'
        BY <2>1, <3>1 DEF JobsUntouched
      <3>4. QED
        BY <3>2, <3>3
    <2>2. CASE AttachJobMetadata
      <3>1. q \in Runners /\ listener'.step # "wait"
        BY <2>2
        DEF AttachJobMetadata, ListenerHasMessage, ListenerGoesTo, WhenAttached, Ready
      <3>2. \/ MoveJob(q, listener.found)
            \/ \E d \in Captures : MoveJobAndCapture(q, d)
        BY <2>2 DEF AttachJobMetadata
      <3>3. /\ record' = [record EXCEPT ![JobOf(q)] = "running",
                                        ![Placeholder(q)] = "none"]
            /\ cancelled' = cancelled
        BY <3>2 DEF MoveJob, MoveJobAndCapture, StartCapture
      <3>4. \A c \in Captures : writesTo'[c] \in {writesTo[c], JobOf(q)}
        BY <3>2 DEF MoveJob, MoveJobAndCapture, StartCapture, TypeOK, JobStoreTypeOK
      <3>5. ASSUME NEW r \in Runners, record'[JobOf(r)] = "completed"
            PROVE  NoneOf(r)'
        <4>1. q # r /\ record[JobOf(r)] = "completed"
          BY <3>1, <3>3, <3>5, IdsAreDistinct DEF TypeOK, JobStoreTypeOK
        <4>2. NoneOf(r)
          BY <4>1
        <4>3. QED
          BY <3>1, <3>3, <3>4, <4>1, <4>2, IdsAreDistinct DEF Running
      <3>6. QED
        BY <3>1, <3>5
    <2>3. CASE RecordJobStarted
      <3>1. q \in Runners /\ AssignmentIsNew(q) /\ listener'.step # "wait"
        BY <2>3
        DEF RecordJobStarted, ListenerHasMessage, AssignmentIsNew, ListenerGoesTo, Ready
      <3>2. \/ record' = record
            \/ record' = [record EXCEPT ![JobOf(q)] = "running"]
        BY <2>3 DEF RecordJobStarted, UpsertStartedJob
      <3>3. UNCHANGED captureVars \/ \E d \in Captures : StartCapture(JobOf(q), d)
        BY <2>3 DEF RecordJobStarted, captureVars
      <3>4. /\ cancelled' = cancelled
            /\ \A c \in Captures : writesTo'[c] \in {writesTo[c], JobOf(q)}
        BY <3>3 DEF StartCapture, captureVars, TypeOK, JobStoreTypeOK
      <3>5. ASSUME NEW r \in Runners, record'[JobOf(r)] = "completed"
            PROVE  NoneOf(r)'
        <4>1. record[JobOf(q)] = "none"
          BY <3>1 DEF NewJobHasNoRecord
        <4>2. q # r /\ record[JobOf(r)] = "completed"
          BY <3>1, <3>2, <3>5, <4>1, IdsAreDistinct DEF TypeOK, JobStoreTypeOK
        <4>3. NoneOf(r)
          BY <4>2
        <4>4. QED
          BY <3>1, <3>4, <4>2, <4>3, IdsAreDistinct DEF Running
      <3>6. QED
        BY <3>1, <3>5
    <2>4. CASE StopJobCapture
      <3>1. q \in Runners /\ listener'.runner = q
        BY <2>4 DEF StopJobCapture, ListenerHasMessage, ListenerGoesTo
      <3>2. /\ cancelled' = IF handle[JobOf(q)] # None /\ writesTo[handle[JobOf(q)]] # None
                            THEN cancelled \cup {handle[JobOf(q)]} ELSE cancelled
            /\ UNCHANGED <<record, writesTo>>
        BY <2>4 DEF StopJobCapture, StopCapture
      <3>3. \A r \in Runners : NoneOf(r) => NoneOf(r)'
        BY <3>2 DEF Running
      <3>4. NoneOf(q)'
        BY <3>1, <3>2, IdsAreDistinct DEF Running, JobCaptureIsHeld
      <3>5. QED
        BY <3>1, <3>2, <3>3, <3>4
    <2>5. CASE RecordJobCompleted
      <3>1. q \in Runners /\ NoneOf(q) /\ listener'.step # "wait"
        BY <2>5 DEF RecordJobCompleted, ListenerHasMessage, ListenerGoesTo, Ready
      <3>2. \/ record' = record
            \/ record' = [record EXCEPT ![JobOf(q)] = "completed"]
        BY <2>5 DEF RecordJobCompleted, RecordCompleted
      <3>3. \A r \in Runners : NoneOf(r) => NoneOf(r)'
        BY <2>5 DEF RecordJobCompleted, captureVars, Running
      <3>4. \A r \in Runners \ {q} : record'[JobOf(r)] = record[JobOf(r)]
        BY <3>1, <3>2, IdsAreDistinct DEF TypeOK, JobStoreTypeOK
      <3>5. QED
        BY <3>1, <3>3, <3>4
    <2>6. CASE Restart
      BY <2>6 DEF Restart, NoCaptures, Running, Ready
    <2>7. QED
      BY <2>1, <2>2, <2>3, <2>4, <2>5, <2>6, JobSteps
  <1>3. QED
    BY <1>1, <1>2, AgentTypes, NewJobInvariant, HeldInvariant, PTL DEF Spec

=============================================================================
