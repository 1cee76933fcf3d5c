---------------------- MODULE ScaleSetControllerProofs ----------------------
(***************************************************************************)
(* What holds of ScaleSetController for every pool of names, every         *)
(* max_runners and every number of jobs.                                   *)
(***************************************************************************)
EXTENDS ScaleSetController, FiniteSetTheorems, TLAPS

-----------------------------------------------------------------------------
(* The tracker *)

\* Every method leaves a tracker over the same names.
LEMMA TrackerMethods ==
    ASSUME NEW Names, NEW t \in Trackers(Names), NEW r \in Names
    PROVE  /\ NewRunnerTracker \in Trackers(Names)
           /\ MarkStarting(t, r) \in Trackers(Names)
           /\ MarkIdle(t, r) \in Trackers(Names)
           /\ MarkBusy(t, r) \in Trackers(Names)
           /\ Remove(t, r) \in Trackers(Names)
           /\ RemoveIdleOlderThan(t) \in Trackers(Names)
           /\ Age(t, r) \in Trackers(Names)
           /\ Tracked(t) \subseteq Names
           /\ NamesToCleanUp(t) \subseteq Names
  BY DEF Trackers, NewRunnerTracker, MarkStarting, MarkIdle, MarkBusy, Remove,
         RemoveIdleOlderThan, Age, Tracked, NamesToCleanUp

-----------------------------------------------------------------------------
(* What the safety properties rest on: each is inductive with TypeOK *)

\* A starter that has no answer from GitHub yet has made no environment.
JitHasNoEnvironment == \A r \in Runners : pc[r] = "jit" => env[r] = "absent"

\* Only shutdown uses its list, and empties it before Run returns.
ShutdownListInUse == shutdownList # {} => phase \in {"stopping", "exiting"}

\* The end of a job is neither reported nor acted on before there was a job.
NotYetDone ==
    \A r \in Runners :
        (pc[r] \in {"jit", "run"} \/ env[r] \in {"created", "online", "job"})
            => r \notin completed \cup jobCleanups

\* A runner is launched by the step that ends backend.Run.
LaunchEndsRun ==
    \A r \in Runners : pc[r] \in {"jit", "run"} => env[r] \notin {"online", "job"}

-----------------------------------------------------------------------------
(* Type correctness *)

LEMMA EmployedIsCountable == Cardinality(Employed) \in Nat
  <1>1. IsFiniteSet(Employed)
    BY ConstantsAssumption, FS_Subset DEF Employed
  <1>2. QED
    BY <1>1, FS_CardinalityType

\* The sum of the three maps is a number.
LEMMA TotalIsCounted == TypeOK => Total(tracker) \in Nat
  <1> SUFFICES ASSUME TypeOK PROVE Total(tracker) \in Nat
    OBVIOUS
  <1>1. /\ tracker.preparing \subseteq Runners
        /\ tracker.idle \subseteq Runners
        /\ tracker.busy \subseteq Runners
    BY DEF TypeOK, Trackers
  <1>2. /\ Cardinality(tracker.preparing) \in Nat
        /\ Cardinality(tracker.idle) \in Nat
        /\ Cardinality(tracker.busy) \in Nat
    BY <1>1, ConstantsAssumption, FS_Subset, FS_CardinalityType
  <1>3. QED
    BY <1>2 DEF Total

\* What HandleDesiredRunnerCount starts fits under max_runners.
LEMMA NeededFitsLimit ==
    ASSUME NEW t, Total(t) \in Nat, NEW count \in Nat
    PROVE  /\ Needed(t, count) \in 0..MaxRunners
           /\ Needed(t, count) # 0 => Total(t) + Needed(t, count) <= MaxRunners
  BY ConstantsAssumption DEF Needed

\* What a removal of an environment may change, and how.
LEMMA CleanupEffect ==
    ASSUME TypeOK, NEW r \in Runners, Cleanup(r)
    PROVE  /\ env' \in [Runners -> EnvStates]
           /\ abandoned' \subseteq Runners
           /\ completed' \subseteq Runners
           /\ completed \subseteq completed'
           /\ completed' \subseteq completed \cup {r}
           /\ r \in completed' \ completed
                 => env[r] = "job" /\ env'[r] \in {"absent", "exited"}
           /\ env[r] = "absent" => env'[r] = "absent"
           /\ env'[r] # "absent" => r \in abandoned'
           /\ env'[r] \in {"absent", "exited", env[r]}
           /\ \A q \in Runners \ {r} :
                 env'[q] = env[q] /\ (q \in abandoned' <=> q \in abandoned)
  BY DEF TypeOK, Cleanup, Present, Employed, EnvStates

\* The state variables keep their types, for every pool of names, max_runners and
\* number of jobs: in particular the queue never goes below zero or past its bound.
THEOREM TypeCorrect == Spec => []TypeOK
  <1>1. Init => TypeOK
    <2> SUFFICES ASSUME Init PROVE TypeOK
      OBVIOUS
    <2>1. NewRunnerTracker \in Trackers(Runners)
      BY DEF NewRunnerTracker, Trackers
    <2>3. QED
      BY <2>1, ConstantsAssumption DEF Init, TypeOK, Phases, StarterSteps, EnvStates
  <1>2. TypeOK /\ [Next]_vars => TypeOK'
    <2> SUFFICES ASSUME TypeOK, [Next]_vars PROVE TypeOK'
      OBVIOUS
    <2> USE DEF TypeOK
    <2>1. ASSUME NEW count \in 0..MaxJobs, HandleDesiredRunnerCount(count)
          PROVE  TypeOK'
      <3>1. toStart' \in 0..MaxRunners
        <4>1. count \in Nat
          BY ConstantsAssumption
        <4>2. QED
          BY <2>1, <4>1, TotalIsCounted, NeededFitsLimit
          DEF HandleDesiredRunnerCount
      <3>2. QED
        BY <2>1, <3>1
        DEF HandleDesiredRunnerCount, runVars, startVars, cleanVars, msgVars
    <2>2. ASSUME NEW r \in Runners, SpawnRunner(r) PROVE TypeOK'
      <3>1. tracker' \in Trackers(Runners)
        BY <2>2, TrackerMethods DEF SpawnRunner
      <3>2. toStart' \in 0..MaxRunners
        BY <2>2, ConstantsAssumption DEF SpawnRunner
      <3>3. QED
        BY <2>2, <3>1, <3>2
        DEF SpawnRunner, StarterSteps, runVars, cleanVars, msgVars
    <2>3. ASSUME NEW r \in Runners, HandleJobStarted(r) PROVE TypeOK'
      <3>1. tracker' \in Trackers(Runners)
        BY <2>3, TrackerMethods DEF HandleJobStarted
      <3>2. QED
        BY <2>3, <3>1 DEF HandleJobStarted, scaleVars, runVars, startVars, cleanVars
    <2>4. ASSUME NEW r \in Runners, HandleJobCompleted(r) PROVE TypeOK'
      <3>1. tracker' \in Trackers(Runners)
        BY <2>4, TrackerMethods DEF HandleJobCompleted
      <3>2. QED
        BY <2>4, <3>1 DEF HandleJobCompleted, runVars, startVars
    <2>5. ASSUME NEW r \in Runners, Starter(r) PROVE TypeOK'
      <3>1. CASE GenerateJitConfig(r)
        BY <3>1
        DEF GenerateJitConfig, StarterSteps, scaleVars, runVars, cleanVars, msgVars
      <3>2. CASE GenerateJitConfigFails(r)
        <4>1. tracker' \in Trackers(Runners)
          BY <3>2, TrackerMethods DEF GenerateJitConfigFails
        <4>2. QED
          BY <3>2, <4>1
          DEF GenerateJitConfigFails, StarterSteps, runVars, cleanVars, msgVars
      <3>3. CASE CreateEnvironment(r)
        BY <3>3
        DEF CreateEnvironment, EnvStates, scaleVars, runVars, startVars, cleanVars,
            msgVars
      <3>4. CASE LaunchRunner(r)
        BY <3>4
        DEF LaunchRunner, EnvStates, StarterSteps, scaleVars, runVars, cleanVars,
            msgVars
      <3>5. CASE RunFails(r)
        <4>1. tracker' \in Trackers(Runners)
          BY <3>5, TrackerMethods DEF RunFails
        <4>2. QED
          BY <3>5, <4>1
          DEF RunFails, EnvStates, StarterSteps, runVars, cleanVars, msgVars
      <3>6. CASE CleanUpFailedStart(r)
        <4>1. Cleanup(r) /\ RemoveGitHubRunner(r)
          BY <3>6 DEF CleanUpFailedStart
        <4>2. /\ env' \in [Runners -> EnvStates]
              /\ abandoned' \subseteq Runners
              /\ completed' \subseteq Runners
          BY <4>1, CleanupEffect
        <4>3. QED
          BY <3>6, <4>1, <4>2
          DEF CleanUpFailedStart, RemoveGitHubRunner, StarterSteps, scaleVars,
              runVars,
              cleanVars
      <3>7. CASE RunnerStarted(r)
        <4>1. tracker' \in Trackers(Runners)
          BY <3>7, TrackerMethods DEF RunnerStarted
        <4>2. QED
          BY <3>7, <4>1
          DEF RunnerStarted, StarterSteps, scaleVars, runVars, cleanVars, msgVars
      <3>8. QED
        BY <2>5, <3>1, <3>2, <3>3, <3>4, <3>5, <3>6, <3>7 DEF Starter
    <2>6. ASSUME Janitor PROVE TypeOK'
      <3>1. CASE ReapExpiredIdleRunners
        <4>1. tracker' \in Trackers(Runners)
          BY <3>1 DEF ReapExpiredIdleRunners, Trackers, RemoveIdleOlderThan
        <4>2. tracker.aged \subseteq Runners
          BY DEF Trackers
        <4>3. QED
          BY <3>1, <4>1, <4>2
          DEF ReapExpiredIdleRunners, runVars, startVars, msgVars
      <3>2. ASSUME NEW r \in Runners, IdleTimeoutPasses(r) PROVE TypeOK'
        <4>1. tracker' \in Trackers(Runners)
          BY <3>2, TrackerMethods DEF IdleTimeoutPasses
        <4>2. QED
          BY <3>2, <4>1
          DEF IdleTimeoutPasses, scaleVars, runVars, startVars, cleanVars, msgVars
      <3>3. ASSUME NEW r \in Runners, CleanUpAfterJob(r) PROVE TypeOK'
        <4>1. Cleanup(r)
          BY <3>3 DEF CleanUpAfterJob
        <4>2. QED
          BY <3>3, <4>1, CleanupEffect
          DEF CleanUpAfterJob, scaleVars, runVars, startVars
      <3>4. ASSUME NEW r \in Runners, CleanUpReaped(r) PROVE TypeOK'
        <4>1. Cleanup(r)
          BY <3>4 DEF CleanUpReaped
        <4>2. QED
          BY <3>4, <4>1, CleanupEffect
          DEF CleanUpReaped, RemoveGitHubRunner, scaleVars, runVars, startVars
      <3>5. QED
        BY <2>6, <3>1, <3>2, <3>3, <3>4 DEF Janitor
    <2>7. ASSUME RunLoop PROVE TypeOK'
      <3>1. CASE StartRun
        BY <3>1
        DEF StartRun, CleanupAll, Phases, EnvStates, Present, Employed,
            scaleVars, startVars, cleanVars
      <3>2. CASE SetupFails
        BY <3>2 DEF SetupFails, Phases, scaleVars, startVars, cleanVars, msgVars
      <3>3. CASE BeginListening
        BY <3>3 DEF BeginListening, Phases, scaleVars, startVars, cleanVars, msgVars
      <3>4. CASE CancelContext
        BY <3>4 DEF CancelContext, Phases, Starting, scaleVars, cleanVars, msgVars
      <3>5. CASE ListenerExits
        <4>1. /\ tracker' \in Trackers(Runners)
              /\ shutdownList' \subseteq Runners
          BY <3>5 DEF ListenerExits, Trackers, NewRunnerTracker, NamesToCleanUp
        <4>2. QED
          BY <3>5, <4>1 DEF ListenerExits, Phases, Starting, cleanVars, msgVars
      <3>6. CASE RunReturns
        BY <3>6 DEF RunReturns, Phases, scaleVars, startVars, cleanVars, msgVars
      <3>7. CASE DaemonExits \/ DaemonDies
        <4>1. NewRunnerTracker \in Trackers(Runners)
          BY DEF NewRunnerTracker, Trackers
        <4>2. QED
          BY <3>7, <4>1, ConstantsAssumption
          DEF DaemonExits, DaemonDies, ForgetVolatileState, Phases, StarterSteps,
              msgVars
      <3>8. ASSUME NEW r \in Runners, CleanUpOnShutdown(r) PROVE TypeOK'
        <4>1. Cleanup(r)
          BY <3>8 DEF CleanUpOnShutdown
        <4>2. QED
          BY <3>8, <4>1, CleanupEffect
          DEF CleanUpOnShutdown, RemoveGitHubRunner, scaleVars, startVars, cleanVars
      <3>9. QED
        BY <2>7, <3>1, <3>2, <3>3, <3>4, <3>5, <3>6, <3>7, <3>8 DEF RunLoop
    <2>8. ASSUME World PROVE TypeOK'
      <3>1. CASE QueueJob
        BY <3>1, EmployedIsCountable, ConstantsAssumption
        DEF QueueJob, scaleVars, runVars, startVars, cleanVars, msgVars
      <3>2. ASSUME NEW r \in Runners, PickUpJob(r) PROVE TypeOK'
        BY <3>2, ConstantsAssumption
        DEF PickUpJob, EnvStates, scaleVars, runVars, startVars, cleanVars
      <3>3. ASSUME NEW r \in Runners, FinishJob(r) PROVE TypeOK'
        BY <3>3 DEF FinishJob, EnvStates, scaleVars, runVars, startVars, cleanVars
      <3>4. ASSUME NEW r \in Runners, RunnerExits(r) PROVE TypeOK'
        BY <3>4
        DEF RunnerExits, EnvStates, scaleVars, runVars, startVars, cleanVars,
            msgVars
      <3>5. ASSUME NEW r \in Runners, RegistrationExpires(r) PROVE TypeOK'
        BY <3>5
        DEF RegistrationExpires, scaleVars, runVars, startVars, cleanVars, msgVars
      <3>6. QED
        BY <2>8, <3>1, <3>2, <3>3, <3>4, <3>5 DEF World
    <2>9. CASE UNCHANGED vars
      BY <2>9 DEF vars
    <2>10. QED
      BY <2>1, <2>2, <2>3, <2>4, <2>5, <2>6, <2>7, <2>8, <2>9 DEF Next, Listener
  <1>3. QED
    BY <1>1, <1>2, PTL DEF Spec

-----------------------------------------------------------------------------
(* No environment is forgotten *)

LEMMA JitInvariant == Spec => []JitHasNoEnvironment
  <1>1. Init => JitHasNoEnvironment
    BY DEF Init, JitHasNoEnvironment
  <1>2. TypeOK /\ JitHasNoEnvironment /\ [Next]_vars => JitHasNoEnvironment'
    <2> SUFFICES ASSUME TypeOK, JitHasNoEnvironment, [Next]_vars
                 PROVE  JitHasNoEnvironment'
      OBVIOUS
    <2>1. ASSUME NEW count \in 0..MaxJobs, HandleDesiredRunnerCount(count)
          PROVE  JitHasNoEnvironment'
      BY <2>1
      DEF HandleDesiredRunnerCount, TypeOK, JitHasNoEnvironment, runVars,
          startVars, cleanVars, msgVars
    <2>2. ASSUME NEW r \in Runners, SpawnRunner(r)
          PROVE  JitHasNoEnvironment'
      BY <2>2
      DEF SpawnRunner, Fresh, TypeOK, JitHasNoEnvironment, runVars,
          startVars, cleanVars, msgVars
    <2>3. ASSUME NEW r \in Runners, HandleJobStarted(r) PROVE JitHasNoEnvironment'
      BY <2>3
      DEF HandleJobStarted, TypeOK, JitHasNoEnvironment, runVars, startVars,
          cleanVars, msgVars
    <2>4. ASSUME NEW r \in Runners, HandleJobCompleted(r) PROVE JitHasNoEnvironment'
      BY <2>4
      DEF HandleJobCompleted, TypeOK, JitHasNoEnvironment, runVars, startVars,
          cleanVars, msgVars
    <2>5. ASSUME NEW r \in Runners, GenerateJitConfig(r) PROVE JitHasNoEnvironment'
      BY <2>5
      DEF GenerateJitConfig, TypeOK, JitHasNoEnvironment, runVars, startVars,
          cleanVars, msgVars
    <2>6. ASSUME NEW r \in Runners, GenerateJitConfigFails(r)
          PROVE  JitHasNoEnvironment'
      BY <2>6
      DEF GenerateJitConfigFails, TypeOK, JitHasNoEnvironment, runVars,
          startVars, cleanVars, msgVars
    <2>7. ASSUME NEW r \in Runners, CreateEnvironment(r) PROVE JitHasNoEnvironment'
      BY <2>7
      DEF CreateEnvironment, TypeOK, JitHasNoEnvironment, runVars, startVars,
          cleanVars, msgVars
    <2>8. ASSUME NEW r \in Runners, LaunchRunner(r) PROVE JitHasNoEnvironment'
      BY <2>8
      DEF LaunchRunner, TypeOK, JitHasNoEnvironment, runVars, startVars,
          cleanVars, msgVars
    <2>9. ASSUME NEW r \in Runners, RunFails(r) PROVE JitHasNoEnvironment'
      BY <2>9
      DEF RunFails, TypeOK, JitHasNoEnvironment, runVars, startVars, cleanVars,
          msgVars
    <2>10. ASSUME NEW r \in Runners, CleanUpFailedStart(r)
           PROVE  JitHasNoEnvironment'
      <3>1. Cleanup(r)
        BY <2>10 DEF CleanUpFailedStart
      <3>2. QED
        BY <2>10, <3>1, CleanupEffect
        DEF CleanUpFailedStart, TypeOK, JitHasNoEnvironment, runVars, startVars,
            cleanVars, msgVars
    <2>11. ASSUME NEW r \in Runners, RunnerStarted(r) PROVE JitHasNoEnvironment'
      BY <2>11
      DEF RunnerStarted, TypeOK, JitHasNoEnvironment, runVars, startVars,
          cleanVars, msgVars
    <2>12. ASSUME NEW r \in Runners, IdleTimeoutPasses(r) PROVE JitHasNoEnvironment'
      BY <2>12
      DEF IdleTimeoutPasses, TypeOK, JitHasNoEnvironment, runVars, startVars,
          cleanVars, msgVars
    <2>13. ASSUME ReapExpiredIdleRunners PROVE JitHasNoEnvironment'
      BY <2>13
      DEF ReapExpiredIdleRunners, TypeOK, JitHasNoEnvironment, runVars,
          startVars, cleanVars, msgVars
    <2>14. ASSUME NEW r \in Runners, CleanUpAfterJob(r) PROVE JitHasNoEnvironment'
      <3>1. Cleanup(r)
        BY <2>14 DEF CleanUpAfterJob
      <3>2. QED
        BY <2>14, <3>1, CleanupEffect
        DEF CleanUpAfterJob, TypeOK, JitHasNoEnvironment, runVars, startVars,
            cleanVars, msgVars
    <2>15. ASSUME NEW r \in Runners, CleanUpReaped(r) PROVE JitHasNoEnvironment'
      <3>1. Cleanup(r)
        BY <2>15 DEF CleanUpReaped
      <3>2. QED
        BY <2>15, <3>1, CleanupEffect
        DEF CleanUpReaped, TypeOK, JitHasNoEnvironment, runVars, startVars,
            cleanVars, msgVars
    <2>16. ASSUME StartRun PROVE JitHasNoEnvironment'
      BY <2>16
      DEF StartRun, CleanupAll, Present, TypeOK, JitHasNoEnvironment, runVars,
          startVars, cleanVars, msgVars
    <2>17. ASSUME SetupFails PROVE JitHasNoEnvironment'
      BY <2>17
      DEF SetupFails, TypeOK, JitHasNoEnvironment, runVars, startVars, cleanVars,
          msgVars
    <2>18. ASSUME BeginListening PROVE JitHasNoEnvironment'
      BY <2>18
      DEF BeginListening, TypeOK, JitHasNoEnvironment, runVars, startVars,
          cleanVars, msgVars
    <2>19. ASSUME CancelContext PROVE JitHasNoEnvironment'
      BY <2>19
      DEF CancelContext, TypeOK, JitHasNoEnvironment, runVars, startVars,
          cleanVars, msgVars
    <2>20. ASSUME ListenerExits PROVE JitHasNoEnvironment'
      BY <2>20
      DEF ListenerExits, TypeOK, JitHasNoEnvironment, runVars, startVars,
          cleanVars, msgVars
    <2>21. ASSUME NEW r \in Runners, CleanUpOnShutdown(r) PROVE JitHasNoEnvironment'
      <3>1. Cleanup(r)
        BY <2>21 DEF CleanUpOnShutdown
      <3>2. QED
        BY <2>21, <3>1, CleanupEffect
        DEF CleanUpOnShutdown, TypeOK, JitHasNoEnvironment, runVars, startVars,
            cleanVars, msgVars
    <2>22. ASSUME RunReturns PROVE JitHasNoEnvironment'
      BY <2>22
      DEF RunReturns, TypeOK, JitHasNoEnvironment, runVars, startVars, cleanVars,
          msgVars
    <2>23. ASSUME DaemonExits \/ DaemonDies PROVE JitHasNoEnvironment'
      BY <2>23
      DEF DaemonExits, DaemonDies, ForgetVolatileState, TypeOK,
          JitHasNoEnvironment, runVars, startVars, cleanVars, msgVars
    <2>24. ASSUME QueueJob PROVE JitHasNoEnvironment'
      BY <2>24
      DEF QueueJob, TypeOK, JitHasNoEnvironment, runVars, startVars, cleanVars,
          msgVars
    <2>25. ASSUME NEW r \in Runners, PickUpJob(r) PROVE JitHasNoEnvironment'
      BY <2>25
      DEF PickUpJob, TypeOK, JitHasNoEnvironment, runVars, startVars, cleanVars,
          msgVars
    <2>26. ASSUME NEW r \in Runners, FinishJob(r) PROVE JitHasNoEnvironment'
      BY <2>26
      DEF FinishJob, TypeOK, JitHasNoEnvironment, runVars, startVars, cleanVars,
          msgVars
    <2>27. ASSUME NEW r \in Runners, RunnerExits(r) PROVE JitHasNoEnvironment'
      BY <2>27
      DEF RunnerExits, TypeOK, JitHasNoEnvironment, runVars, startVars,
          cleanVars, msgVars
    <2>28. ASSUME NEW r \in Runners, RegistrationExpires(r)
           PROVE  JitHasNoEnvironment'
      BY <2>28
      DEF RegistrationExpires, TypeOK, JitHasNoEnvironment, runVars, startVars,
          cleanVars, msgVars
    <2>29. CASE UNCHANGED vars
      BY <2>29 DEF vars, TypeOK, JitHasNoEnvironment
    <2>30. QED
      BY <2>1, <2>2, <2>3, <2>4, <2>5, <2>6, <2>7, <2>8, <2>9, <2>10, <2>11, <2>12,
         <2>13, <2>14, <2>15, <2>16, <2>17, <2>18, <2>19, <2>20, <2>21, <2>22,
         <2>23, <2>24, <2>25, <2>26, <2>27, <2>28, <2>29
      DEF Next, Listener, Starter, Janitor, RunLoop, World
  <1>3. QED
    BY <1>1, <1>2, TypeCorrect, PTL DEF Spec

LEMMA ShutdownListInvariant == Spec => []ShutdownListInUse
  <1>1. Init => ShutdownListInUse
    BY DEF Init, ShutdownListInUse
  <1>2. ShutdownListInUse /\ [Next]_vars => ShutdownListInUse'
    <2> SUFFICES ASSUME ShutdownListInUse, [Next]_vars PROVE ShutdownListInUse'
      OBVIOUS
    <2>1. ASSUME NEW count \in 0..MaxJobs, HandleDesiredRunnerCount(count)
          PROVE  ShutdownListInUse'
      BY <2>1
      DEF HandleDesiredRunnerCount, ShutdownListInUse, Listening, runVars,
          startVars, cleanVars, msgVars
    <2>2. ASSUME NEW r \in Runners, SpawnRunner(r)
          PROVE  ShutdownListInUse'
      BY <2>2
      DEF SpawnRunner, ShutdownListInUse, Listening, runVars,
          startVars, cleanVars, msgVars
    <2>3. ASSUME NEW r \in Runners, HandleJobStarted(r) PROVE ShutdownListInUse'
      BY <2>3
      DEF HandleJobStarted, ShutdownListInUse, Listening, runVars, startVars,
          cleanVars, msgVars
    <2>4. ASSUME NEW r \in Runners, HandleJobCompleted(r) PROVE ShutdownListInUse'
      BY <2>4
      DEF HandleJobCompleted, ShutdownListInUse, Listening, runVars, startVars,
          cleanVars, msgVars
    <2>5. ASSUME NEW r \in Runners, GenerateJitConfig(r) PROVE ShutdownListInUse'
      BY <2>5
      DEF GenerateJitConfig, ShutdownListInUse, Listening, runVars, startVars,
          cleanVars, msgVars
    <2>6. ASSUME NEW r \in Runners, GenerateJitConfigFails(r)
          PROVE  ShutdownListInUse'
      BY <2>6
      DEF GenerateJitConfigFails, ShutdownListInUse, Listening, runVars,
          startVars, cleanVars, msgVars
    <2>7. ASSUME NEW r \in Runners, CreateEnvironment(r) PROVE ShutdownListInUse'
      BY <2>7
      DEF CreateEnvironment, ShutdownListInUse, Listening, runVars, startVars,
          cleanVars, msgVars
    <2>8. ASSUME NEW r \in Runners, LaunchRunner(r) PROVE ShutdownListInUse'
      BY <2>8
      DEF LaunchRunner, ShutdownListInUse, Listening, runVars, startVars,
          cleanVars, msgVars
    <2>9. ASSUME NEW r \in Runners, RunFails(r) PROVE ShutdownListInUse'
      BY <2>9
      DEF RunFails, ShutdownListInUse, Listening, runVars, startVars, cleanVars,
          msgVars
    <2>10. ASSUME NEW r \in Runners, CleanUpFailedStart(r) PROVE ShutdownListInUse'
      BY <2>10
      DEF CleanUpFailedStart, ShutdownListInUse, Listening, runVars, startVars,
          cleanVars, msgVars
    <2>11. ASSUME NEW r \in Runners, RunnerStarted(r) PROVE ShutdownListInUse'
      BY <2>11
      DEF RunnerStarted, ShutdownListInUse, Listening, runVars, startVars,
          cleanVars, msgVars
    <2>12. ASSUME NEW r \in Runners, IdleTimeoutPasses(r) PROVE ShutdownListInUse'
      BY <2>12
      DEF IdleTimeoutPasses, ShutdownListInUse, Listening, runVars, startVars,
          cleanVars, msgVars
    <2>13. ASSUME ReapExpiredIdleRunners PROVE ShutdownListInUse'
      BY <2>13
      DEF ReapExpiredIdleRunners, ShutdownListInUse, Listening, runVars,
          startVars, cleanVars, msgVars
    <2>14. ASSUME NEW r \in Runners, CleanUpAfterJob(r) PROVE ShutdownListInUse'
      BY <2>14
      DEF CleanUpAfterJob, ShutdownListInUse, Listening, runVars, startVars,
          cleanVars, msgVars
    <2>15. ASSUME NEW r \in Runners, CleanUpReaped(r) PROVE ShutdownListInUse'
      BY <2>15
      DEF CleanUpReaped, ShutdownListInUse, Listening, runVars, startVars,
          cleanVars, msgVars
    <2>16. ASSUME StartRun PROVE ShutdownListInUse'
      BY <2>16
      DEF StartRun, CleanupAll, ShutdownListInUse, Listening, runVars, startVars,
          cleanVars, msgVars
    <2>17. ASSUME SetupFails PROVE ShutdownListInUse'
      BY <2>17
      DEF SetupFails, ShutdownListInUse, Listening, runVars, startVars,
          cleanVars, msgVars
    <2>18. ASSUME BeginListening PROVE ShutdownListInUse'
      BY <2>18
      DEF BeginListening, ShutdownListInUse, Listening, runVars, startVars,
          cleanVars, msgVars
    <2>19. ASSUME CancelContext PROVE ShutdownListInUse'
      BY <2>19
      DEF CancelContext, ShutdownListInUse, Listening, runVars, startVars,
          cleanVars, msgVars
    <2>20. ASSUME ListenerExits PROVE ShutdownListInUse'
      BY <2>20
      DEF ListenerExits, ShutdownListInUse, Listening, runVars, startVars,
          cleanVars, msgVars
    <2>21. ASSUME NEW r \in Runners, CleanUpOnShutdown(r) PROVE ShutdownListInUse'
      BY <2>21
      DEF CleanUpOnShutdown, ShutdownListInUse, Listening, runVars, startVars,
          cleanVars, msgVars
    <2>22. ASSUME RunReturns PROVE ShutdownListInUse'
      BY <2>22
      DEF RunReturns, ShutdownListInUse, Listening, runVars, startVars,
          cleanVars, msgVars
    <2>23. ASSUME DaemonExits \/ DaemonDies PROVE ShutdownListInUse'
      BY <2>23
      DEF DaemonExits, DaemonDies, ForgetVolatileState, ShutdownListInUse,
          Listening, runVars, startVars, cleanVars, msgVars
    <2>24. ASSUME QueueJob PROVE ShutdownListInUse'
      BY <2>24
      DEF QueueJob, ShutdownListInUse, Listening, runVars, startVars, cleanVars,
          msgVars
    <2>25. ASSUME NEW r \in Runners, PickUpJob(r) PROVE ShutdownListInUse'
      BY <2>25
      DEF PickUpJob, ShutdownListInUse, Listening, runVars, startVars, cleanVars,
          msgVars
    <2>26. ASSUME NEW r \in Runners, FinishJob(r) PROVE ShutdownListInUse'
      BY <2>26
      DEF FinishJob, ShutdownListInUse, Listening, runVars, startVars, cleanVars,
          msgVars
    <2>27. ASSUME NEW r \in Runners, RunnerExits(r) PROVE ShutdownListInUse'
      BY <2>27
      DEF RunnerExits, ShutdownListInUse, Listening, runVars, startVars,
          cleanVars, msgVars
    <2>28. ASSUME NEW r \in Runners, RegistrationExpires(r) PROVE ShutdownListInUse'
      BY <2>28
      DEF RegistrationExpires, ShutdownListInUse, Listening, runVars, startVars,
          cleanVars, msgVars
    <2>29. CASE UNCHANGED vars
      BY <2>29 DEF vars, ShutdownListInUse, Listening
    <2>30. QED
      BY <2>1, <2>2, <2>3, <2>4, <2>5, <2>6, <2>7, <2>8, <2>9, <2>10, <2>11, <2>12,
         <2>13, <2>14, <2>15, <2>16, <2>17, <2>18, <2>19, <2>20, <2>21, <2>22,
         <2>23, <2>24, <2>25, <2>26, <2>27, <2>28, <2>29
      DEF Next, Listener, Starter, Janitor, RunLoop, World
  <1>3. QED
    BY <1>1, <1>2, PTL DEF Spec

\* While the daemon runs and has done its first CleanupAll, somebody answers for
\* every environment, for every pool of names, max_runners and number of jobs.
\* The argument: an environment comes into being under a starter; a name leaves the
\* starter for the idle map, the maps for a cleanup goroutine or the shutdown list,
\* and those only when the environment is gone or the failure is on record.
THEOREM NothingForgotten == Spec => []NoForgottenEnvironment
  <1>1. Init => NoForgottenEnvironment
    BY DEF Init, NoForgottenEnvironment
  <1>2. /\ TypeOK
        /\ JitHasNoEnvironment
        /\ ShutdownListInUse
        /\ NoForgottenEnvironment
        /\ [Next]_vars
        => NoForgottenEnvironment'
    <2> SUFFICES ASSUME TypeOK, JitHasNoEnvironment, ShutdownListInUse,
                        NoForgottenEnvironment, [Next]_vars
                 PROVE  NoForgottenEnvironment'
      OBVIOUS
    <2> USE DEF NoForgottenEnvironment, Accounted, Present, Starting
    <2>1. ASSUME NEW count \in 0..MaxJobs, HandleDesiredRunnerCount(count)
          PROVE  NoForgottenEnvironment'
      BY <2>1
      DEF HandleDesiredRunnerCount, TypeOK, Trackers, runVars,
          startVars, cleanVars, msgVars
    <2>2. ASSUME NEW r \in Runners, SpawnRunner(r)
          PROVE  NoForgottenEnvironment'
      BY <2>2
      DEF SpawnRunner, MarkStarting, TypeOK, Trackers, runVars,
          startVars, cleanVars, msgVars
    <2>3. ASSUME NEW r \in Runners, HandleJobStarted(r)
          PROVE  NoForgottenEnvironment'
      BY <2>3
      DEF HandleJobStarted, MarkBusy, TypeOK, Trackers, runVars, startVars,
          cleanVars, msgVars
    <2>4. ASSUME NEW r \in Runners, HandleJobCompleted(r)
          PROVE  NoForgottenEnvironment'
      BY <2>4
      DEF HandleJobCompleted, Remove, TypeOK, Trackers, runVars, startVars,
          cleanVars, msgVars
    <2>5. ASSUME NEW r \in Runners, GenerateJitConfig(r)
          PROVE  NoForgottenEnvironment'
      BY <2>5
      DEF GenerateJitConfig, TypeOK, Trackers, runVars, startVars, cleanVars,
          msgVars
    <2>6. ASSUME NEW r \in Runners, GenerateJitConfigFails(r)
          PROVE  NoForgottenEnvironment'
      BY <2>6
      DEF GenerateJitConfigFails, Remove, JitHasNoEnvironment, TypeOK, Trackers,
          runVars, startVars, cleanVars, msgVars
    <2>7. ASSUME NEW r \in Runners, CreateEnvironment(r)
          PROVE  NoForgottenEnvironment'
      BY <2>7
      DEF CreateEnvironment, TypeOK, Trackers, runVars, startVars, cleanVars,
          msgVars
    <2>8. ASSUME NEW r \in Runners, LaunchRunner(r) PROVE NoForgottenEnvironment'
      BY <2>8
      DEF LaunchRunner, TypeOK, Trackers, runVars, startVars, cleanVars, msgVars
    <2>9. ASSUME NEW r \in Runners, RunFails(r) PROVE NoForgottenEnvironment'
      BY <2>9
      DEF RunFails, Remove, TypeOK, Trackers, runVars, startVars, cleanVars,
          msgVars
    <2>10. ASSUME NEW r \in Runners, CleanUpFailedStart(r)
          PROVE  NoForgottenEnvironment'
      <3>1. Cleanup(r)
        BY <2>10 DEF CleanUpFailedStart
      <3>2. QED
        BY <2>10, <3>1, CleanupEffect
        DEF CleanUpFailedStart, TypeOK, Trackers, runVars, startVars, cleanVars,
            msgVars
    <2>11. ASSUME NEW r \in Runners, RunnerStarted(r) PROVE NoForgottenEnvironment'
      BY <2>11
      DEF RunnerStarted, MarkIdle, TypeOK, Trackers, runVars, startVars,
          cleanVars, msgVars
    <2>12. ASSUME NEW r \in Runners, IdleTimeoutPasses(r)
           PROVE  NoForgottenEnvironment'
      BY <2>12
      DEF IdleTimeoutPasses, Age, TypeOK, Trackers, runVars, startVars,
          cleanVars, msgVars
    <2>13. ASSUME ReapExpiredIdleRunners PROVE NoForgottenEnvironment'
      BY <2>13
      DEF ReapExpiredIdleRunners, RemoveIdleOlderThan, TypeOK, Trackers, runVars,
          startVars, cleanVars, msgVars
    <2>14. ASSUME NEW r \in Runners, CleanUpAfterJob(r)
           PROVE  NoForgottenEnvironment'
      <3>1. Cleanup(r)
        BY <2>14 DEF CleanUpAfterJob
      <3>2. QED
        BY <2>14, <3>1, CleanupEffect
        DEF CleanUpAfterJob, TypeOK, Trackers, runVars, startVars, cleanVars,
            msgVars
    <2>15. ASSUME NEW r \in Runners, CleanUpReaped(r) PROVE NoForgottenEnvironment'
      <3>1. Cleanup(r)
        BY <2>15 DEF CleanUpReaped
      <3>2. QED
        BY <2>15, <3>1, CleanupEffect
        DEF CleanUpReaped, TypeOK, Trackers, runVars, startVars, cleanVars,
            msgVars
    <2>16. ASSUME StartRun PROVE NoForgottenEnvironment'
      BY <2>16
      DEF StartRun, CleanupAll, Employed, TypeOK, Trackers, runVars, startVars,
          cleanVars, msgVars
    <2>17. ASSUME SetupFails PROVE NoForgottenEnvironment'
      BY <2>17
      DEF SetupFails, TypeOK, Trackers, runVars, startVars, cleanVars, msgVars
    <2>18. ASSUME BeginListening PROVE NoForgottenEnvironment'
      BY <2>18
      DEF BeginListening, TypeOK, Trackers, runVars, startVars, cleanVars,
          msgVars
    <2>19. ASSUME CancelContext PROVE NoForgottenEnvironment'
      BY <2>19
      DEF CancelContext, TypeOK, Trackers, runVars, startVars, cleanVars, msgVars
    <2>20. ASSUME ListenerExits PROVE NoForgottenEnvironment'
      BY <2>20
      DEF ListenerExits, ListenerReady, NamesToCleanUp, NewRunnerTracker,
          Listening, ShutdownListInUse, TypeOK, Trackers, runVars, startVars,
          cleanVars, msgVars
    <2>21. ASSUME NEW r \in Runners, CleanUpOnShutdown(r)
           PROVE  NoForgottenEnvironment'
      <3>1. Cleanup(r)
        BY <2>21 DEF CleanUpOnShutdown
      <3>2. QED
        BY <2>21, <3>1, CleanupEffect
        DEF CleanUpOnShutdown, TypeOK, Trackers, runVars, startVars, cleanVars,
            msgVars
    <2>22. ASSUME RunReturns PROVE NoForgottenEnvironment'
      BY <2>22
      DEF RunReturns, TypeOK, Trackers, runVars, startVars, cleanVars, msgVars
    <2>23. ASSUME DaemonExits \/ DaemonDies PROVE NoForgottenEnvironment'
      BY <2>23
      DEF DaemonExits, DaemonDies, ForgetVolatileState, NewRunnerTracker, TypeOK,
          Trackers, runVars, startVars, cleanVars, msgVars
    <2>24. ASSUME QueueJob PROVE NoForgottenEnvironment'
      BY <2>24
      DEF QueueJob, TypeOK, Trackers, runVars, startVars, cleanVars, msgVars
    <2>25. ASSUME NEW r \in Runners, PickUpJob(r) PROVE NoForgottenEnvironment'
      BY <2>25
      DEF PickUpJob, TypeOK, Trackers, runVars, startVars, cleanVars, msgVars
    <2>26. ASSUME NEW r \in Runners, FinishJob(r) PROVE NoForgottenEnvironment'
      BY <2>26
      DEF FinishJob, TypeOK, Trackers, runVars, startVars, cleanVars, msgVars
    <2>27. ASSUME NEW r \in Runners, RunnerExits(r) PROVE NoForgottenEnvironment'
      BY <2>27
      DEF RunnerExits, TypeOK, Trackers, runVars, startVars, cleanVars, msgVars
    <2>28. ASSUME NEW r \in Runners, RegistrationExpires(r)
           PROVE  NoForgottenEnvironment'
      BY <2>28
      DEF RegistrationExpires, TypeOK, Trackers, runVars, startVars, cleanVars,
          msgVars
    <2>29. CASE UNCHANGED vars
      BY <2>29 DEF vars, TypeOK, Trackers
    <2>30. QED
      BY <2>1, <2>2, <2>3, <2>4, <2>5, <2>6, <2>7, <2>8, <2>9, <2>10, <2>11, <2>12,
         <2>13, <2>14, <2>15, <2>16, <2>17, <2>18, <2>19, <2>20, <2>21, <2>22,
         <2>23, <2>24, <2>25, <2>26, <2>27, <2>28, <2>29
      DEF Next, Listener, Starter, Janitor, RunLoop, World
  <1>3. QED
    BY <1>1, <1>2, TypeCorrect, JitInvariant, ShutdownListInvariant, PTL DEF Spec

-----------------------------------------------------------------------------
(* The tracker is consistent *)

\* A preparing entry has its starter, an idle entry is in no other map: no entry
\* holds capacity without somebody who will take it out, for every pool of names.
THEOREM TrackerIsConsistent == Spec => []TrackerConsistent
  <1>1. Init => TrackerConsistent
    BY DEF Init, TrackerConsistent, NewRunnerTracker
  <1>2. TypeOK /\ TrackerConsistent /\ [Next]_vars => TrackerConsistent'
    <2> SUFFICES ASSUME TypeOK, TrackerConsistent, [Next]_vars
                 PROVE  TrackerConsistent'
      OBVIOUS
    <2> USE DEF TrackerConsistent
    <2>1. ASSUME NEW count \in 0..MaxJobs, HandleDesiredRunnerCount(count)
          PROVE  TrackerConsistent'
      BY <2>1
      DEF HandleDesiredRunnerCount, Tracked, TypeOK,
          Trackers, runVars, startVars, cleanVars, msgVars
    <2>2. ASSUME NEW r \in Runners, SpawnRunner(r)
          PROVE  TrackerConsistent'
      BY <2>2
      DEF SpawnRunner, MarkStarting, Fresh, Tracked, TypeOK,
          Trackers, runVars, startVars, cleanVars, msgVars
    <2>3. ASSUME NEW r \in Runners, HandleJobStarted(r) PROVE TrackerConsistent'
      BY <2>3
      DEF HandleJobStarted, MarkBusy, TypeOK, Trackers, runVars, startVars,
          cleanVars, msgVars
    <2>4. ASSUME NEW r \in Runners, HandleJobCompleted(r) PROVE TrackerConsistent'
      BY <2>4
      DEF HandleJobCompleted, Remove, TypeOK, Trackers, runVars, startVars,
          cleanVars, msgVars
    <2>5. ASSUME NEW r \in Runners, GenerateJitConfig(r) PROVE TrackerConsistent'
      BY <2>5
      DEF GenerateJitConfig, TypeOK, Trackers, runVars, startVars, cleanVars,
          msgVars
    <2>6. ASSUME NEW r \in Runners, GenerateJitConfigFails(r)
          PROVE  TrackerConsistent'
      BY <2>6
      DEF GenerateJitConfigFails, Remove, TypeOK, Trackers, runVars, startVars,
          cleanVars, msgVars
    <2>7. ASSUME NEW r \in Runners, CreateEnvironment(r) PROVE TrackerConsistent'
      BY <2>7
      DEF CreateEnvironment, TypeOK, Trackers, runVars, startVars, cleanVars,
          msgVars
    <2>8. ASSUME NEW r \in Runners, LaunchRunner(r) PROVE TrackerConsistent'
      BY <2>8
      DEF LaunchRunner, TypeOK, Trackers, runVars, startVars, cleanVars, msgVars
    <2>9. ASSUME NEW r \in Runners, RunFails(r) PROVE TrackerConsistent'
      BY <2>9
      DEF RunFails, Remove, TypeOK, Trackers, runVars, startVars, cleanVars,
          msgVars
    <2>10. ASSUME NEW r \in Runners, CleanUpFailedStart(r) PROVE TrackerConsistent'
      <3>1. Cleanup(r)
        BY <2>10 DEF CleanUpFailedStart
      <3>2. QED
        BY <2>10, <3>1, CleanupEffect
        DEF CleanUpFailedStart, TypeOK, Trackers, runVars, startVars, cleanVars,
            msgVars
    <2>11. ASSUME NEW r \in Runners, RunnerStarted(r) PROVE TrackerConsistent'
      BY <2>11
      DEF RunnerStarted, MarkIdle, TypeOK, Trackers, runVars, startVars,
          cleanVars, msgVars
    <2>12. ASSUME NEW r \in Runners, IdleTimeoutPasses(r) PROVE TrackerConsistent'
      BY <2>12
      DEF IdleTimeoutPasses, Age, TypeOK, Trackers, runVars, startVars,
          cleanVars, msgVars
    <2>13. ASSUME ReapExpiredIdleRunners PROVE TrackerConsistent'
      BY <2>13
      DEF ReapExpiredIdleRunners, RemoveIdleOlderThan, TypeOK, Trackers, runVars,
          startVars, cleanVars, msgVars
    <2>14. ASSUME NEW r \in Runners, CleanUpAfterJob(r) PROVE TrackerConsistent'
      <3>1. Cleanup(r)
        BY <2>14 DEF CleanUpAfterJob
      <3>2. QED
        BY <2>14, <3>1, CleanupEffect
        DEF CleanUpAfterJob, TypeOK, Trackers, runVars, startVars, cleanVars,
            msgVars
    <2>15. ASSUME NEW r \in Runners, CleanUpReaped(r) PROVE TrackerConsistent'
      <3>1. Cleanup(r)
        BY <2>15 DEF CleanUpReaped
      <3>2. QED
        BY <2>15, <3>1, CleanupEffect
        DEF CleanUpReaped, TypeOK, Trackers, runVars, startVars, cleanVars,
            msgVars
    <2>16. ASSUME StartRun PROVE TrackerConsistent'
      BY <2>16
      DEF StartRun, CleanupAll, TypeOK, Trackers, runVars, startVars, cleanVars,
          msgVars
    <2>17. ASSUME SetupFails PROVE TrackerConsistent'
      BY <2>17
      DEF SetupFails, TypeOK, Trackers, runVars, startVars, cleanVars, msgVars
    <2>18. ASSUME BeginListening PROVE TrackerConsistent'
      BY <2>18
      DEF BeginListening, TypeOK, Trackers, runVars, startVars, cleanVars,
          msgVars
    <2>19. ASSUME CancelContext PROVE TrackerConsistent'
      BY <2>19
      DEF CancelContext, TypeOK, Trackers, runVars, startVars, cleanVars, msgVars
    <2>20. ASSUME ListenerExits PROVE TrackerConsistent'
      BY <2>20
      DEF ListenerExits, NewRunnerTracker, TypeOK, Trackers, runVars, startVars,
          cleanVars, msgVars
    <2>21. ASSUME NEW r \in Runners, CleanUpOnShutdown(r) PROVE TrackerConsistent'
      <3>1. Cleanup(r)
        BY <2>21 DEF CleanUpOnShutdown
      <3>2. QED
        BY <2>21, <3>1, CleanupEffect
        DEF CleanUpOnShutdown, TypeOK, Trackers, runVars, startVars, cleanVars,
            msgVars
    <2>22. ASSUME RunReturns PROVE TrackerConsistent'
      BY <2>22
      DEF RunReturns, TypeOK, Trackers, runVars, startVars, cleanVars, msgVars
    <2>23. ASSUME DaemonExits \/ DaemonDies PROVE TrackerConsistent'
      BY <2>23
      DEF DaemonExits, DaemonDies, ForgetVolatileState, NewRunnerTracker, TypeOK,
          Trackers, runVars, startVars, cleanVars, msgVars
    <2>24. ASSUME QueueJob PROVE TrackerConsistent'
      BY <2>24
      DEF QueueJob, TypeOK, Trackers, runVars, startVars, cleanVars, msgVars
    <2>25. ASSUME NEW r \in Runners, PickUpJob(r) PROVE TrackerConsistent'
      BY <2>25
      DEF PickUpJob, TypeOK, Trackers, runVars, startVars, cleanVars, msgVars
    <2>26. ASSUME NEW r \in Runners, FinishJob(r) PROVE TrackerConsistent'
      BY <2>26
      DEF FinishJob, TypeOK, Trackers, runVars, startVars, cleanVars, msgVars
    <2>27. ASSUME NEW r \in Runners, RunnerExits(r) PROVE TrackerConsistent'
      BY <2>27
      DEF RunnerExits, TypeOK, Trackers, runVars, startVars, cleanVars, msgVars
    <2>28. ASSUME NEW r \in Runners, RegistrationExpires(r) PROVE TrackerConsistent'
      BY <2>28
      DEF RegistrationExpires, TypeOK, Trackers, runVars, startVars, cleanVars,
          msgVars
    <2>29. CASE UNCHANGED vars
      BY <2>29 DEF vars, TypeOK, Trackers
    <2>30. QED
      BY <2>1, <2>2, <2>3, <2>4, <2>5, <2>6, <2>7, <2>8, <2>9, <2>10, <2>11, <2>12,
         <2>13, <2>14, <2>15, <2>16, <2>17, <2>18, <2>19, <2>20, <2>21, <2>22,
         <2>23, <2>24, <2>25, <2>26, <2>27, <2>28, <2>29
      DEF Next, Listener, Starter, Janitor, RunLoop, World
  <1>3. QED
    BY <1>1, <1>2, TypeCorrect, PTL DEF Spec

-----------------------------------------------------------------------------
(* Scaling up stays within max_runners *)

\* While no new name is granted and toStart does not grow, the bound stays.
LEMMA GrantsShrink ==
    ASSUME TypeOK, GrantsWithinLimit, granted' \subseteq granted,
           toStart' \in Nat, toStart' <= toStart
    PROVE  Cardinality(granted') + toStart' <= MaxRunners
  <1>1. IsFiniteSet(granted)
    BY ConstantsAssumption, FS_Subset DEF TypeOK
  <1>2. /\ Cardinality(granted') <= Cardinality(granted)
        /\ Cardinality(granted) \in Nat
        /\ Cardinality(granted') \in Nat
    BY <1>1, FS_Subset, FS_CardinalityType
  <1>3. QED
    BY <1>2, ConstantsAssumption DEF TypeOK, GrantsWithinLimit

\* What has been granted is part of the sum that the handler reads.
LEMMA GrantsAreCounted ==
    ASSUME TypeOK, GrantsWithinLimit
    PROVE  Cardinality(granted) \in Nat /\ Cardinality(granted) <= Total(tracker)
  <1> DEFINE p == tracker.preparing
             i == tracker.idle
             b == tracker.busy
  <1>1. IsFiniteSet(p) /\ IsFiniteSet(i) /\ IsFiniteSet(b)
    <2>1. p \subseteq Runners /\ i \subseteq Runners /\ b \subseteq Runners
      BY DEF TypeOK, Trackers
    <2>2. QED
      BY <2>1, ConstantsAssumption, FS_Subset
  <1>2. /\ IsFiniteSet(p \cup i) /\ IsFiniteSet(p \cap i)
        /\ IsFiniteSet((p \cup i) \cap b)
    BY <1>1, FS_Union, FS_Intersection
  <1>3. /\ Cardinality(p \cup i)
              = Cardinality(p) + Cardinality(i) - Cardinality(p \cap i)
        /\ IsFiniteSet((p \cup i) \cup b)
        /\ Cardinality((p \cup i) \cup b)
              = Cardinality(p \cup i) + Cardinality(b)
                  - Cardinality((p \cup i) \cap b)
    BY <1>1, <1>2, FS_Union
  <1>4. /\ Cardinality(p) \in Nat /\ Cardinality(i) \in Nat
        /\ Cardinality(b) \in Nat
        /\ Cardinality(p \cup i) \in Nat /\ Cardinality(p \cap i) \in Nat
        /\ Cardinality((p \cup i) \cap b) \in Nat
    BY <1>1, <1>2, FS_CardinalityType
  <1>5. Cardinality((p \cup i) \cup b) <= Total(tracker)
    <2>1. Total(tracker) = Cardinality(p) + Cardinality(i) + Cardinality(b)
      BY DEF Total
    <2>2. QED
      BY <1>3, <1>4, <2>1
  <1>6. granted \subseteq (p \cup i) \cup b
    BY DEF GrantsWithinLimit, Tracked
  <1>7. /\ IsFiniteSet(granted)
        /\ Cardinality(granted) <= Cardinality((p \cup i) \cup b)
    BY <1>3, <1>6, FS_Subset
  <1>8. /\ Cardinality(granted) \in Nat
        /\ Cardinality((p \cup i) \cup b) \in Nat
        /\ Total(tracker) \in Nat
    BY <1>3, <1>7, FS_CardinalityType, TotalIsCounted
  <1>9. QED
    BY <1>5, <1>7, <1>8

\* The capacity that scaling up hands out stays within max_runners, whatever GitHub
\* reports and whatever happens between two turns of the loop, for every pool of
\* names and every max_runners.
THEOREM GrantsAreBounded == Spec => []GrantsWithinLimit
  <1>1. Init => GrantsWithinLimit
    BY FS_EmptySet, ConstantsAssumption
    DEF Init, GrantsWithinLimit, NewRunnerTracker, Tracked
  <1>2. TypeOK /\ TrackerConsistent /\ GrantsWithinLimit /\ [Next]_vars
          => GrantsWithinLimit'
    <2> SUFFICES ASSUME TypeOK, TrackerConsistent, GrantsWithinLimit, [Next]_vars
                 PROVE  GrantsWithinLimit'
      OBVIOUS
    <2> toStart \in Nat
      BY ConstantsAssumption DEF TypeOK
    <2>1. ASSUME NEW count \in 0..MaxJobs, HandleDesiredRunnerCount(count)
          PROVE  GrantsWithinLimit'
      <3>1. /\ granted' = granted /\ tracker' = tracker
            /\ toStart' = Needed(tracker, count)
        BY <2>1 DEF HandleDesiredRunnerCount
      <3>2. toStart = 0
        BY <2>1 DEF HandleDesiredRunnerCount, ListenerReady
      <3>3. count \in Nat
        BY ConstantsAssumption
      <3>4. Cardinality(granted) + toStart' <= MaxRunners
        BY <3>1, <3>2, <3>3, GrantsAreCounted, TotalIsCounted, NeededFitsLimit,
           ConstantsAssumption
        DEF GrantsWithinLimit
      <3>5. QED
        BY <3>1, <3>4 DEF GrantsWithinLimit
    <2>2. ASSUME NEW r \in Runners, SpawnRunner(r) PROVE GrantsWithinLimit'
      <3>1. /\ r \in Fresh
            /\ toStart > 0 /\ toStart' = toStart - 1
            /\ granted' = granted \cup {r}
            /\ tracker' = MarkStarting(tracker, r)
        BY <2>2 DEF SpawnRunner
      <3>2. r \notin granted
        BY <3>1 DEF Fresh, GrantsWithinLimit
      <3>3. IsFiniteSet(granted)
        BY ConstantsAssumption, FS_Subset DEF TypeOK
      <3>4. Cardinality(granted') = Cardinality(granted) + 1
        BY <3>1, <3>2, <3>3, FS_AddElement
      <3>5. Cardinality(granted') + toStart' <= MaxRunners
        BY <3>1, <3>3, <3>4, FS_CardinalityType, ConstantsAssumption
        DEF TypeOK, GrantsWithinLimit
      <3>6. QED
        BY <3>1, <3>5 DEF GrantsWithinLimit, MarkStarting, Tracked
    <2> DEFINE Kept == /\ granted' \subseteq granted
                       /\ toStart' \in 0..toStart
                       /\ granted' \subseteq Tracked(tracker')
                       /\ tracker'.preparing \subseteq granted'
    <2>3. Kept => GrantsWithinLimit'
      BY GrantsShrink DEF GrantsWithinLimit
    <2> USE DEF Tracked, GrantsWithinLimit
    <2>4. ASSUME NEW r \in Runners, HandleJobStarted(r) PROVE Kept
      BY <2>4 DEF HandleJobStarted, MarkBusy, TypeOK, Trackers, scaleVars
    <2>5. ASSUME NEW r \in Runners, HandleJobCompleted(r) PROVE Kept
      BY <2>5 DEF HandleJobCompleted, Remove, TypeOK, Trackers
    <2>6. ASSUME NEW r \in Runners, GenerateJitConfig(r) PROVE Kept
      BY <2>6 DEF GenerateJitConfig, scaleVars
    <2>7. ASSUME NEW r \in Runners, GenerateJitConfigFails(r) PROVE Kept
      BY <2>7 DEF GenerateJitConfigFails, Remove, TypeOK, Trackers
    <2>8. ASSUME NEW r \in Runners, CreateEnvironment(r) PROVE Kept
      BY <2>8 DEF CreateEnvironment, scaleVars
    <2>9. ASSUME NEW r \in Runners, LaunchRunner(r) PROVE Kept
      BY <2>9 DEF LaunchRunner, scaleVars
    <2>10. ASSUME NEW r \in Runners, RunFails(r) PROVE Kept
      BY <2>10 DEF RunFails, Remove, TypeOK, Trackers
    <2>11. ASSUME NEW r \in Runners, CleanUpFailedStart(r) PROVE Kept
      BY <2>11 DEF CleanUpFailedStart, scaleVars
    <2>12. ASSUME NEW r \in Runners, RunnerStarted(r) PROVE Kept
      BY <2>12 DEF RunnerStarted, MarkIdle, TypeOK, Trackers, scaleVars
    <2>13. ASSUME NEW r \in Runners, IdleTimeoutPasses(r) PROVE Kept
      BY <2>13 DEF IdleTimeoutPasses, Age, TypeOK, Trackers, scaleVars
    <2>14. ASSUME ReapExpiredIdleRunners PROVE Kept
      BY <2>14 DEF ReapExpiredIdleRunners, RemoveIdleOlderThan, TrackerConsistent
    <2>15. ASSUME NEW r \in Runners, CleanUpAfterJob(r) PROVE Kept
      BY <2>15 DEF CleanUpAfterJob, scaleVars
    <2>16. ASSUME NEW r \in Runners, CleanUpReaped(r) PROVE Kept
      BY <2>16 DEF CleanUpReaped, scaleVars
    <2>17. ASSUME StartRun PROVE Kept
      BY <2>17 DEF StartRun, scaleVars
    <2>18. ASSUME SetupFails PROVE Kept
      BY <2>18 DEF SetupFails, scaleVars
    <2>19. ASSUME BeginListening PROVE Kept
      BY <2>19 DEF BeginListening, scaleVars
    <2>20. ASSUME CancelContext PROVE Kept
      BY <2>20 DEF CancelContext, scaleVars
    <2>21. ASSUME ListenerExits PROVE Kept
      BY <2>21 DEF ListenerExits, NewRunnerTracker
    <2>22. ASSUME NEW r \in Runners, CleanUpOnShutdown(r) PROVE Kept
      BY <2>22 DEF CleanUpOnShutdown, scaleVars
    <2>23. ASSUME RunReturns PROVE Kept
      BY <2>23 DEF RunReturns, scaleVars
    <2>24. ASSUME DaemonExits \/ DaemonDies PROVE Kept
      BY <2>24 DEF DaemonExits, DaemonDies, NewRunnerTracker, ForgetVolatileState
    <2>25. ASSUME QueueJob PROVE Kept
      BY <2>25 DEF QueueJob, scaleVars
    <2>26. ASSUME NEW r \in Runners, PickUpJob(r) PROVE Kept
      BY <2>26 DEF PickUpJob, scaleVars
    <2>27. ASSUME NEW r \in Runners, FinishJob(r) PROVE Kept
      BY <2>27 DEF FinishJob, scaleVars
    <2>28. ASSUME NEW r \in Runners, RunnerExits(r) PROVE Kept
      BY <2>28 DEF RunnerExits, scaleVars
    <2>29. ASSUME NEW r \in Runners, RegistrationExpires(r) PROVE Kept
      BY <2>29 DEF RegistrationExpires, scaleVars
    <2>30. CASE UNCHANGED vars
      BY <2>30 DEF vars
    <2>31. QED
      BY <2>1, <2>2, <2>3, <2>4, <2>5, <2>6, <2>7, <2>8, <2>9, <2>10, <2>11, <2>12,
         <2>13, <2>14, <2>15, <2>16, <2>17, <2>18, <2>19, <2>20, <2>21, <2>22,
         <2>23, <2>24, <2>25, <2>26, <2>27, <2>28, <2>29, <2>30
      DEF Next, Listener, Starter, Janitor, RunLoop, World
  <1>3. QED
    BY <1>1, <1>2, TypeCorrect, TrackerIsConsistent, PTL DEF Spec

-----------------------------------------------------------------------------
(* A busy runner is left alone *)

LEMMA LaunchInvariant == Spec => []LaunchEndsRun
  <1>1. Init => LaunchEndsRun
    BY DEF Init, LaunchEndsRun
  <1>2. TypeOK /\ LaunchEndsRun /\ [Next]_vars => LaunchEndsRun'
    <2> SUFFICES ASSUME TypeOK, LaunchEndsRun, [Next]_vars PROVE LaunchEndsRun'
      OBVIOUS
    <2>1. ASSUME NEW count \in 0..MaxJobs, HandleDesiredRunnerCount(count)
          PROVE  LaunchEndsRun'
      BY <2>1
      DEF HandleDesiredRunnerCount, TypeOK, LaunchEndsRun, runVars,
          startVars, cleanVars, msgVars
    <2>2. ASSUME NEW r \in Runners, SpawnRunner(r)
          PROVE  LaunchEndsRun'
      BY <2>2
      DEF SpawnRunner, Fresh, TypeOK, LaunchEndsRun, runVars,
          startVars, cleanVars, msgVars
    <2>3. ASSUME NEW r \in Runners, HandleJobStarted(r) PROVE LaunchEndsRun'
      BY <2>3
      DEF HandleJobStarted, TypeOK, LaunchEndsRun, runVars, startVars, cleanVars,
          msgVars
    <2>4. ASSUME NEW r \in Runners, HandleJobCompleted(r) PROVE LaunchEndsRun'
      BY <2>4
      DEF HandleJobCompleted, TypeOK, LaunchEndsRun, runVars, startVars,
          cleanVars, msgVars
    <2>5. ASSUME NEW r \in Runners, GenerateJitConfig(r) PROVE LaunchEndsRun'
      BY <2>5
      DEF GenerateJitConfig, TypeOK, LaunchEndsRun, runVars, startVars,
          cleanVars, msgVars
    <2>6. ASSUME NEW r \in Runners, GenerateJitConfigFails(r) PROVE LaunchEndsRun'
      BY <2>6
      DEF GenerateJitConfigFails, TypeOK, LaunchEndsRun, runVars, startVars,
          cleanVars, msgVars
    <2>7. ASSUME NEW r \in Runners, CreateEnvironment(r) PROVE LaunchEndsRun'
      BY <2>7
      DEF CreateEnvironment, TypeOK, LaunchEndsRun, runVars, startVars,
          cleanVars, msgVars
    <2>8. ASSUME NEW r \in Runners, LaunchRunner(r) PROVE LaunchEndsRun'
      BY <2>8
      DEF LaunchRunner, TypeOK, LaunchEndsRun, runVars, startVars, cleanVars,
          msgVars
    <2>9. ASSUME NEW r \in Runners, RunFails(r) PROVE LaunchEndsRun'
      BY <2>9
      DEF RunFails, TypeOK, LaunchEndsRun, runVars, startVars, cleanVars, msgVars
    <2>10. ASSUME NEW r \in Runners, CleanUpFailedStart(r) PROVE LaunchEndsRun'
      <3>1. Cleanup(r)
        BY <2>10 DEF CleanUpFailedStart
      <3>2. QED
        BY <2>10, <3>1, CleanupEffect
        DEF CleanUpFailedStart, TypeOK, LaunchEndsRun, runVars, startVars,
            cleanVars, msgVars
    <2>11. ASSUME NEW r \in Runners, RunnerStarted(r) PROVE LaunchEndsRun'
      BY <2>11
      DEF RunnerStarted, TypeOK, LaunchEndsRun, runVars, startVars, cleanVars,
          msgVars
    <2>12. ASSUME NEW r \in Runners, IdleTimeoutPasses(r) PROVE LaunchEndsRun'
      BY <2>12
      DEF IdleTimeoutPasses, TypeOK, LaunchEndsRun, runVars, startVars,
          cleanVars, msgVars
    <2>13. ASSUME ReapExpiredIdleRunners PROVE LaunchEndsRun'
      BY <2>13
      DEF ReapExpiredIdleRunners, TypeOK, LaunchEndsRun, runVars, startVars,
          cleanVars, msgVars
    <2>14. ASSUME NEW r \in Runners, CleanUpAfterJob(r) PROVE LaunchEndsRun'
      <3>1. Cleanup(r)
        BY <2>14 DEF CleanUpAfterJob
      <3>2. QED
        BY <2>14, <3>1, CleanupEffect
        DEF CleanUpAfterJob, TypeOK, LaunchEndsRun, runVars, startVars,
            cleanVars, msgVars
    <2>15. ASSUME NEW r \in Runners, CleanUpReaped(r) PROVE LaunchEndsRun'
      <3>1. Cleanup(r)
        BY <2>15 DEF CleanUpReaped
      <3>2. QED
        BY <2>15, <3>1, CleanupEffect
        DEF CleanUpReaped, TypeOK, LaunchEndsRun, runVars, startVars, cleanVars,
            msgVars
    <2>16. ASSUME StartRun PROVE LaunchEndsRun'
      BY <2>16
      DEF StartRun, CleanupAll, Present, Employed, TypeOK, LaunchEndsRun,
          runVars, startVars, cleanVars, msgVars
    <2>17. ASSUME SetupFails PROVE LaunchEndsRun'
      BY <2>17
      DEF SetupFails, TypeOK, LaunchEndsRun, runVars, startVars, cleanVars,
          msgVars
    <2>18. ASSUME BeginListening PROVE LaunchEndsRun'
      BY <2>18
      DEF BeginListening, TypeOK, LaunchEndsRun, runVars, startVars, cleanVars,
          msgVars
    <2>19. ASSUME CancelContext PROVE LaunchEndsRun'
      BY <2>19
      DEF CancelContext, TypeOK, LaunchEndsRun, runVars, startVars, cleanVars,
          msgVars
    <2>20. ASSUME ListenerExits PROVE LaunchEndsRun'
      BY <2>20
      DEF ListenerExits, TypeOK, LaunchEndsRun, runVars, startVars, cleanVars,
          msgVars
    <2>21. ASSUME NEW r \in Runners, CleanUpOnShutdown(r) PROVE LaunchEndsRun'
      <3>1. Cleanup(r)
        BY <2>21 DEF CleanUpOnShutdown
      <3>2. QED
        BY <2>21, <3>1, CleanupEffect
        DEF CleanUpOnShutdown, TypeOK, LaunchEndsRun, runVars, startVars,
            cleanVars, msgVars
    <2>22. ASSUME RunReturns PROVE LaunchEndsRun'
      BY <2>22
      DEF RunReturns, TypeOK, LaunchEndsRun, runVars, startVars, cleanVars,
          msgVars
    <2>23. ASSUME DaemonExits \/ DaemonDies PROVE LaunchEndsRun'
      BY <2>23
      DEF DaemonExits, DaemonDies, ForgetVolatileState, TypeOK, LaunchEndsRun,
          runVars, startVars, cleanVars, msgVars
    <2>24. ASSUME QueueJob PROVE LaunchEndsRun'
      BY <2>24
      DEF QueueJob, TypeOK, LaunchEndsRun, runVars, startVars, cleanVars, msgVars
    <2>25. ASSUME NEW r \in Runners, PickUpJob(r) PROVE LaunchEndsRun'
      BY <2>25
      DEF PickUpJob, TypeOK, LaunchEndsRun, runVars, startVars, cleanVars,
          msgVars
    <2>26. ASSUME NEW r \in Runners, FinishJob(r) PROVE LaunchEndsRun'
      BY <2>26
      DEF FinishJob, TypeOK, LaunchEndsRun, runVars, startVars, cleanVars,
          msgVars
    <2>27. ASSUME NEW r \in Runners, RunnerExits(r) PROVE LaunchEndsRun'
      BY <2>27
      DEF RunnerExits, TypeOK, LaunchEndsRun, runVars, startVars, cleanVars,
          msgVars
    <2>28. ASSUME NEW r \in Runners, RegistrationExpires(r) PROVE LaunchEndsRun'
      BY <2>28
      DEF RegistrationExpires, TypeOK, LaunchEndsRun, runVars, startVars,
          cleanVars, msgVars
    <2>29. CASE UNCHANGED vars
      BY <2>29 DEF vars, TypeOK, LaunchEndsRun
    <2>30. QED
      BY <2>1, <2>2, <2>3, <2>4, <2>5, <2>6, <2>7, <2>8, <2>9, <2>10, <2>11, <2>12,
         <2>13, <2>14, <2>15, <2>16, <2>17, <2>18, <2>19, <2>20, <2>21, <2>22,
         <2>23, <2>24, <2>25, <2>26, <2>27, <2>28, <2>29
      DEF Next, Listener, Starter, Janitor, RunLoop, World
  <1>3. QED
    BY <1>1, <1>2, TypeCorrect, PTL DEF Spec

LEMMA NotYetDoneInvariant == Spec => []NotYetDone
  <1>1. Init => NotYetDone
    BY DEF Init, NotYetDone
  <1>2. TypeOK /\ LaunchEndsRun /\ NotYetDone /\ [Next]_vars => NotYetDone'
    <2> SUFFICES ASSUME TypeOK, LaunchEndsRun, NotYetDone, [Next]_vars
                 PROVE  NotYetDone'
      OBVIOUS
    <2>1. ASSUME NEW count \in 0..MaxJobs, HandleDesiredRunnerCount(count)
          PROVE  NotYetDone'
      BY <2>1
      DEF HandleDesiredRunnerCount, TypeOK, LaunchEndsRun, NotYetDone,
          runVars, startVars, cleanVars, msgVars
    <2>2. ASSUME NEW r \in Runners, SpawnRunner(r)
          PROVE  NotYetDone'
      BY <2>2
      DEF SpawnRunner, Fresh, TypeOK, LaunchEndsRun, NotYetDone,
          runVars, startVars, cleanVars, msgVars
    <2>3. ASSUME NEW r \in Runners, HandleJobStarted(r) PROVE NotYetDone'
      BY <2>3
      DEF HandleJobStarted, TypeOK, LaunchEndsRun, NotYetDone, runVars,
          startVars, cleanVars, msgVars
    <2>4. ASSUME NEW r \in Runners, HandleJobCompleted(r) PROVE NotYetDone'
      BY <2>4
      DEF HandleJobCompleted, TypeOK, LaunchEndsRun, NotYetDone, runVars,
          startVars, cleanVars, msgVars
    <2>5. ASSUME NEW r \in Runners, GenerateJitConfig(r) PROVE NotYetDone'
      BY <2>5
      DEF GenerateJitConfig, TypeOK, LaunchEndsRun, NotYetDone, runVars,
          startVars, cleanVars, msgVars
    <2>6. ASSUME NEW r \in Runners, GenerateJitConfigFails(r) PROVE NotYetDone'
      BY <2>6
      DEF GenerateJitConfigFails, TypeOK, LaunchEndsRun, NotYetDone, runVars,
          startVars, cleanVars, msgVars
    <2>7. ASSUME NEW r \in Runners, CreateEnvironment(r) PROVE NotYetDone'
      BY <2>7
      DEF CreateEnvironment, TypeOK, LaunchEndsRun, NotYetDone, runVars,
          startVars, cleanVars, msgVars
    <2>8. ASSUME NEW r \in Runners, LaunchRunner(r) PROVE NotYetDone'
      BY <2>8
      DEF LaunchRunner, TypeOK, LaunchEndsRun, NotYetDone, runVars, startVars,
          cleanVars, msgVars
    <2>9. ASSUME NEW r \in Runners, RunFails(r) PROVE NotYetDone'
      BY <2>9
      DEF RunFails, TypeOK, LaunchEndsRun, NotYetDone, runVars, startVars,
          cleanVars, msgVars
    <2>10. ASSUME NEW r \in Runners, CleanUpFailedStart(r) PROVE NotYetDone'
      <3>1. Cleanup(r)
        BY <2>10 DEF CleanUpFailedStart
      <3>2. QED
        BY <2>10, <3>1, CleanupEffect
        DEF CleanUpFailedStart, TypeOK, LaunchEndsRun, NotYetDone, runVars,
            startVars, cleanVars, msgVars
    <2>11. ASSUME NEW r \in Runners, RunnerStarted(r) PROVE NotYetDone'
      BY <2>11
      DEF RunnerStarted, TypeOK, LaunchEndsRun, NotYetDone, runVars, startVars,
          cleanVars, msgVars
    <2>12. ASSUME NEW r \in Runners, IdleTimeoutPasses(r) PROVE NotYetDone'
      BY <2>12
      DEF IdleTimeoutPasses, TypeOK, LaunchEndsRun, NotYetDone, runVars,
          startVars, cleanVars, msgVars
    <2>13. ASSUME ReapExpiredIdleRunners PROVE NotYetDone'
      BY <2>13
      DEF ReapExpiredIdleRunners, TypeOK, LaunchEndsRun, NotYetDone, runVars,
          startVars, cleanVars, msgVars
    <2>14. ASSUME NEW r \in Runners, CleanUpAfterJob(r) PROVE NotYetDone'
      <3>1. Cleanup(r)
        BY <2>14 DEF CleanUpAfterJob
      <3>2. QED
        BY <2>14, <3>1, CleanupEffect
        DEF CleanUpAfterJob, TypeOK, LaunchEndsRun, NotYetDone, runVars,
            startVars, cleanVars, msgVars
    <2>15. ASSUME NEW r \in Runners, CleanUpReaped(r) PROVE NotYetDone'
      <3>1. Cleanup(r)
        BY <2>15 DEF CleanUpReaped
      <3>2. QED
        BY <2>15, <3>1, CleanupEffect
        DEF CleanUpReaped, TypeOK, LaunchEndsRun, NotYetDone, runVars, startVars,
            cleanVars, msgVars
    <2>16. ASSUME StartRun PROVE NotYetDone'
      BY <2>16
      DEF StartRun, CleanupAll, Present, Employed, TypeOK, LaunchEndsRun,
          NotYetDone, runVars, startVars, cleanVars, msgVars
    <2>17. ASSUME SetupFails PROVE NotYetDone'
      BY <2>17
      DEF SetupFails, TypeOK, LaunchEndsRun, NotYetDone, runVars, startVars,
          cleanVars, msgVars
    <2>18. ASSUME BeginListening PROVE NotYetDone'
      BY <2>18
      DEF BeginListening, TypeOK, LaunchEndsRun, NotYetDone, runVars, startVars,
          cleanVars, msgVars
    <2>19. ASSUME CancelContext PROVE NotYetDone'
      BY <2>19
      DEF CancelContext, TypeOK, LaunchEndsRun, NotYetDone, runVars, startVars,
          cleanVars, msgVars
    <2>20. ASSUME ListenerExits PROVE NotYetDone'
      BY <2>20
      DEF ListenerExits, TypeOK, LaunchEndsRun, NotYetDone, runVars, startVars,
          cleanVars, msgVars
    <2>21. ASSUME NEW r \in Runners, CleanUpOnShutdown(r) PROVE NotYetDone'
      <3>1. Cleanup(r)
        BY <2>21 DEF CleanUpOnShutdown
      <3>2. QED
        BY <2>21, <3>1, CleanupEffect
        DEF CleanUpOnShutdown, TypeOK, LaunchEndsRun, NotYetDone, runVars,
            startVars, cleanVars, msgVars
    <2>22. ASSUME RunReturns PROVE NotYetDone'
      BY <2>22
      DEF RunReturns, TypeOK, LaunchEndsRun, NotYetDone, runVars, startVars,
          cleanVars, msgVars
    <2>23. ASSUME DaemonExits \/ DaemonDies PROVE NotYetDone'
      BY <2>23
      DEF DaemonExits, DaemonDies, ForgetVolatileState, TypeOK, LaunchEndsRun,
          NotYetDone, runVars, startVars, cleanVars, msgVars
    <2>24. ASSUME QueueJob PROVE NotYetDone'
      BY <2>24
      DEF QueueJob, TypeOK, LaunchEndsRun, NotYetDone, runVars, startVars,
          cleanVars, msgVars
    <2>25. ASSUME NEW r \in Runners, PickUpJob(r) PROVE NotYetDone'
      BY <2>25
      DEF PickUpJob, TypeOK, LaunchEndsRun, NotYetDone, runVars, startVars,
          cleanVars, msgVars
    <2>26. ASSUME NEW r \in Runners, FinishJob(r) PROVE NotYetDone'
      BY <2>26
      DEF FinishJob, TypeOK, LaunchEndsRun, NotYetDone, runVars, startVars,
          cleanVars, msgVars
    <2>27. ASSUME NEW r \in Runners, RunnerExits(r) PROVE NotYetDone'
      BY <2>27
      DEF RunnerExits, TypeOK, LaunchEndsRun, NotYetDone, runVars, startVars,
          cleanVars, msgVars
    <2>28. ASSUME NEW r \in Runners, RegistrationExpires(r) PROVE NotYetDone'
      BY <2>28
      DEF RegistrationExpires, TypeOK, LaunchEndsRun, NotYetDone, runVars,
          startVars, cleanVars, msgVars
    <2>29. CASE UNCHANGED vars
      BY <2>29 DEF vars, TypeOK, LaunchEndsRun, NotYetDone
    <2>30. QED
      BY <2>1, <2>2, <2>3, <2>4, <2>5, <2>6, <2>7, <2>8, <2>9, <2>10, <2>11, <2>12,
         <2>13, <2>14, <2>15, <2>16, <2>17, <2>18, <2>19, <2>20, <2>21, <2>22,
         <2>23, <2>24, <2>25, <2>26, <2>27, <2>28, <2>29
      DEF Next, Listener, Starter, Janitor, RunLoop, World
  <1>3. QED
    BY <1>1, <1>2, TypeCorrect, LaunchInvariant, PTL DEF Spec

\* While the controller listens, no step destroys the environment of a runner that
\* it knows to be busy, once its starter has ended and unless the reaper had decided
\* to remove it before: for every pool of names and every interleaving.
THEOREM BusyRunnersAreUndisturbed == Spec => BusyRunnerUndisturbed
  <1>1. /\ TypeOK
        /\ NotYetDone
        /\ TrackerConsistent
        /\ [Next]_vars
        => [\A r \in tracker.busy :
              /\ Listening
              /\ env[r] = "job"
              /\ pc[r] = "none"
              /\ r \notin reapCleanups
              => env'[r] # "absent" /\ r \notin reapCleanups']_vars
    <2> SUFFICES ASSUME TypeOK, NotYetDone, TrackerConsistent, [Next]_vars,
                        NEW q \in tracker.busy, Listening, env[q] = "job",
                        pc[q] = "none", q \notin reapCleanups
                 PROVE  env'[q] # "absent" /\ q \notin reapCleanups'
      OBVIOUS
    <2> q \in Runners
      BY DEF TypeOK, Trackers
    <2>1. ASSUME NEW count \in 0..MaxJobs, HandleDesiredRunnerCount(count)
          PROVE  env'[q] # "absent" /\ q \notin reapCleanups'
      BY <2>1
      DEF HandleDesiredRunnerCount, TypeOK, runVars, startVars, cleanVars,
          msgVars
    <2>2. ASSUME NEW r \in Runners, SpawnRunner(r)
          PROVE  env'[q] # "absent" /\ q \notin reapCleanups'
      BY <2>2
      DEF SpawnRunner, TypeOK, runVars, startVars, cleanVars,
          msgVars
    <2>3. ASSUME NEW r \in Runners, HandleJobStarted(r)
          PROVE  env'[q] # "absent" /\ q \notin reapCleanups'
      BY <2>3 DEF HandleJobStarted, TypeOK, runVars, startVars, cleanVars, msgVars
    <2>4. ASSUME NEW r \in Runners, HandleJobCompleted(r)
          PROVE  env'[q] # "absent" /\ q \notin reapCleanups'
      BY <2>4 DEF HandleJobCompleted, TypeOK, runVars, startVars, cleanVars, msgVars
    <2>5. ASSUME NEW r \in Runners, GenerateJitConfig(r)
          PROVE  env'[q] # "absent" /\ q \notin reapCleanups'
      BY <2>5 DEF GenerateJitConfig, TypeOK, runVars, startVars, cleanVars, msgVars
    <2>6. ASSUME NEW r \in Runners, GenerateJitConfigFails(r)
          PROVE  env'[q] # "absent" /\ q \notin reapCleanups'
      BY <2>6
      DEF GenerateJitConfigFails, TypeOK, runVars, startVars, cleanVars, msgVars
    <2>7. ASSUME NEW r \in Runners, CreateEnvironment(r)
          PROVE  env'[q] # "absent" /\ q \notin reapCleanups'
      BY <2>7 DEF CreateEnvironment, TypeOK, runVars, startVars, cleanVars, msgVars
    <2>8. ASSUME NEW r \in Runners, LaunchRunner(r)
          PROVE  env'[q] # "absent" /\ q \notin reapCleanups'
      BY <2>8 DEF LaunchRunner, TypeOK, runVars, startVars, cleanVars, msgVars
    <2>9. ASSUME NEW r \in Runners, RunFails(r)
          PROVE  env'[q] # "absent" /\ q \notin reapCleanups'
      BY <2>9 DEF RunFails, TypeOK, runVars, startVars, cleanVars, msgVars
    <2>10. ASSUME NEW r \in Runners, CleanUpFailedStart(r)
          PROVE  env'[q] # "absent" /\ q \notin reapCleanups'
      <3>1. Cleanup(r)
        BY <2>10 DEF CleanUpFailedStart
      <3>2. QED
        BY <2>10, <3>1, CleanupEffect
        DEF CleanUpFailedStart, TypeOK, runVars, startVars, cleanVars, msgVars
    <2>11. ASSUME NEW r \in Runners, RunnerStarted(r)
           PROVE  env'[q] # "absent" /\ q \notin reapCleanups'
      BY <2>11 DEF RunnerStarted, TypeOK, runVars, startVars, cleanVars, msgVars
    <2>12. ASSUME NEW r \in Runners, IdleTimeoutPasses(r)
           PROVE  env'[q] # "absent" /\ q \notin reapCleanups'
      BY <2>12 DEF IdleTimeoutPasses, TypeOK, runVars, startVars, cleanVars, msgVars
    <2>13. ASSUME ReapExpiredIdleRunners
           PROVE  env'[q] # "absent" /\ q \notin reapCleanups'
      BY <2>13
      DEF ReapExpiredIdleRunners, TrackerConsistent, Trackers, TypeOK, runVars,
          startVars, cleanVars, msgVars
    <2>14. ASSUME NEW r \in Runners, CleanUpAfterJob(r)
           PROVE  env'[q] # "absent" /\ q \notin reapCleanups'
      <3>1. Cleanup(r)
        BY <2>14 DEF CleanUpAfterJob
      <3>2. q # r
        BY <2>14 DEF CleanUpAfterJob, NotYetDone
      <3>3. QED
        BY <2>14, <3>1, <3>2, CleanupEffect DEF CleanUpAfterJob
    <2>15. ASSUME NEW r \in Runners, CleanUpReaped(r)
           PROVE  env'[q] # "absent" /\ q \notin reapCleanups'
      <3>1. Cleanup(r)
        BY <2>15 DEF CleanUpReaped
      <3>2. QED
        BY <2>15, <3>1, CleanupEffect
        DEF CleanUpReaped, TypeOK, runVars, startVars, cleanVars, msgVars
    <2>16. ASSUME StartRun PROVE env'[q] # "absent" /\ q \notin reapCleanups'
      BY <2>16
      DEF StartRun, CleanupAll, Listening, TypeOK, runVars, startVars, cleanVars,
          msgVars
    <2>17. ASSUME SetupFails PROVE env'[q] # "absent" /\ q \notin reapCleanups'
      BY <2>17 DEF SetupFails, TypeOK, runVars, startVars, cleanVars, msgVars
    <2>18. ASSUME BeginListening PROVE env'[q] # "absent" /\ q \notin reapCleanups'
      BY <2>18 DEF BeginListening, TypeOK, runVars, startVars, cleanVars, msgVars
    <2>19. ASSUME CancelContext PROVE env'[q] # "absent" /\ q \notin reapCleanups'
      BY <2>19 DEF CancelContext, TypeOK, runVars, startVars, cleanVars, msgVars
    <2>20. ASSUME ListenerExits PROVE env'[q] # "absent" /\ q \notin reapCleanups'
      BY <2>20 DEF ListenerExits, TypeOK, runVars, startVars, cleanVars, msgVars
    <2>21. ASSUME NEW r \in Runners, CleanUpOnShutdown(r)
           PROVE  env'[q] # "absent" /\ q \notin reapCleanups'
      BY <2>21 DEF CleanUpOnShutdown, Listening
    <2>22. ASSUME RunReturns PROVE env'[q] # "absent" /\ q \notin reapCleanups'
      BY <2>22 DEF RunReturns, TypeOK, runVars, startVars, cleanVars, msgVars
    <2>23. ASSUME DaemonExits \/ DaemonDies
           PROVE  env'[q] # "absent" /\ q \notin reapCleanups'
      BY <2>23
      DEF DaemonExits, DaemonDies, ForgetVolatileState, Listening, TypeOK,
          runVars, startVars, cleanVars, msgVars
    <2>24. ASSUME QueueJob PROVE env'[q] # "absent" /\ q \notin reapCleanups'
      BY <2>24 DEF QueueJob, TypeOK, runVars, startVars, cleanVars, msgVars
    <2>25. ASSUME NEW r \in Runners, PickUpJob(r)
           PROVE  env'[q] # "absent" /\ q \notin reapCleanups'
      BY <2>25 DEF PickUpJob, TypeOK, runVars, startVars, cleanVars, msgVars
    <2>26. ASSUME NEW r \in Runners, FinishJob(r)
           PROVE  env'[q] # "absent" /\ q \notin reapCleanups'
      BY <2>26 DEF FinishJob, TypeOK, runVars, startVars, cleanVars, msgVars
    <2>27. ASSUME NEW r \in Runners, RunnerExits(r)
           PROVE  env'[q] # "absent" /\ q \notin reapCleanups'
      BY <2>27 DEF RunnerExits, TypeOK, runVars, startVars, cleanVars, msgVars
    <2>28. ASSUME NEW r \in Runners, RegistrationExpires(r)
           PROVE  env'[q] # "absent" /\ q \notin reapCleanups'
      BY <2>28
      DEF RegistrationExpires, TypeOK, runVars, startVars, cleanVars, msgVars
    <2>29. CASE UNCHANGED vars
      BY <2>29 DEF vars, TypeOK
    <2>30. QED
      BY <2>1, <2>2, <2>3, <2>4, <2>5, <2>6, <2>7, <2>8, <2>9, <2>10, <2>11, <2>12,
         <2>13, <2>14, <2>15, <2>16, <2>17, <2>18, <2>19, <2>20, <2>21, <2>22,
         <2>23, <2>24, <2>25, <2>26, <2>27, <2>28, <2>29
      DEF Next, Listener, Starter, Janitor, RunLoop, World
  <1>2. QED
    BY <1>1, TypeCorrect, NotYetDoneInvariant, TrackerIsConsistent, PTL
    DEF Spec, BusyRunnerUndisturbed

=============================================================================
