--------------------------- MODULE CustodyProofs ---------------------------
(***************************************************************************)
(* ScaleSetController implements RunnerCustody for every pool of names,    *)
(* every max_runners and every number of jobs.                             *)
(***************************************************************************)
EXTENDS CustodyRefinement, ScaleSetControllerProofs

-----------------------------------------------------------------------------
(* While the daemon is down *)

\* What it kept in memory went with its process.
NothingInMemory ==
    ~OnDuty => /\ tracker = NewRunnerTracker /\ toStart = 0
               /\ Starting = {}
               /\ jobCleanups = {} /\ reapCleanups = {} /\ shutdownList = {}

\* Nobody keeps anything in memory, so there is no crew.
LEMMA NoCrew ==
    ASSUME NothingInMemory, ~OnDuty, NEW r
    PROVE  ~Crew(r)
  BY DEF NothingInMemory, Crew, NewRunnerTracker

-----------------------------------------------------------------------------
(* What a step means for custody *)

\* Custody cannot tell the two states apart as far as r goes.
Same(r) == UseOf(r)' = UseOf(r) /\ KeeperOf(r)' = KeeperOf(r)

\* A step that moves at most one environment, in one of the ways custody knows.
Moves(r) ==
    \/ Same(r)
    \/ OnDuty /\ UseOf(r) = "absent" /\ UseOf(r)' = "fresh" /\ KeeperOf(r)' = "crew"
    \/ UseOf(r) = "fresh" /\ UseOf(r)' = "working" /\ KeeperOf(r)' = KeeperOf(r)
    \/ UseOf(r) \in {"fresh", "working"} /\ UseOf(r)' = "spent" /\ KeeperOf(r)' = KeeperOf(r)
    \/ OnDuty /\ UseOf(r)' = "absent" /\ KeeperOf(r)' = "nobody"
    \/ /\ OnDuty /\ KeeperOf(r) = "crew" /\ KeeperOf(r)' = "log"
       /\ UseOf(r)' \in {UseOf(r), "spent"}
    \/ OnDuty /\ KeeperOf(r) = "log" /\ KeeperOf(r)' = "crew" /\ UseOf(r)' = UseOf(r)

Step == [Custody!CustodyNext]_(Custody!custodyVars)

LEMMA NobodyMoves ==
    ASSUME OnDuty' = OnDuty, \A q \in Runners : Same(q)
    PROVE  Step
  BY DEF Step, Same, Custody!custodyVars

\* Several environments go at once.
LEMMA ManyGo ==
    ASSUME NEW S \in SUBSET Runners, OnDuty, OnDuty',
           \A q \in Runners \ S : Same(q),
           \A q \in S : UseOf(q)' = "absent" /\ KeeperOf(q)' = "nobody"
    PROVE  Step
  <1>1. Custody!Destroy(S)
    BY DEF Custody!Destroy, Custody!Removed, Same, OnDuty
  <1>2. QED
    BY <1>1 DEF Step, Custody!CustodyNext

\* The daemon comes back and keeps no environment but in the log.
LEMMA ManyAreLogged ==
    ASSUME NEW S \in SUBSET Runners, ~OnDuty, OnDuty',
           \A q \in S : UseOf(q)' = "absent" /\ KeeperOf(q)' = "nobody",
           \A q \in Runners \ S : /\ UseOf(q)' = UseOf(q) /\ UseOf(q) # "absent"
                                 /\ KeeperOf(q)' = "log"
    PROVE  Step
  <1>1. Custody!GoOnDuty
    BY DEF Custody!GoOnDuty, OnDuty
  <1>2. QED
    BY <1>1 DEF Step, Custody!CustodyNext

LEMMA OneMoves ==
    ASSUME NEW r \in Runners, OnDuty' = OnDuty,
           \A q \in Runners \ {r} : Same(q), Moves(r)
    PROVE  Step
  <1>1. CASE Same(r)
    BY <1>1, NobodyMoves
  <1>2. CASE OnDuty /\ UseOf(r) = "absent" /\ UseOf(r)' = "fresh" /\ KeeperOf(r)' = "crew"
    <2>1. Custody!Make(r)
      BY <1>2 DEF Custody!Make, Same
    <2>2. QED
      BY <2>1 DEF Step, Custody!CustodyNext
  <1>3. CASE UseOf(r) = "fresh" /\ UseOf(r)' = "working" /\ KeeperOf(r)' = KeeperOf(r)
    <2>1. Custody!Work(r)
      BY <1>3 DEF Custody!Work, Same
    <2>2. QED
      BY <2>1 DEF Step, Custody!CustodyNext
  <1>4. CASE UseOf(r) \in {"fresh", "working"} /\ UseOf(r)' = "spent" /\ KeeperOf(r)' = KeeperOf(r)
    <2>1. Custody!Spend(r)
      BY <1>4 DEF Custody!Spend, Same
    <2>2. QED
      BY <2>1 DEF Step, Custody!CustodyNext
  <1>5. CASE OnDuty /\ UseOf(r)' = "absent" /\ KeeperOf(r)' = "nobody"
    <2>1. Custody!Destroy({r})
      BY <1>5 DEF Custody!Destroy, Custody!Removed, Same
    <2>2. QED
      BY <2>1 DEF Step, Custody!CustodyNext
  <1>6. CASE /\ OnDuty /\ KeeperOf(r) = "crew" /\ KeeperOf(r)' = "log"
             /\ UseOf(r)' \in {UseOf(r), "spent"}
    <2>1. Custody!LetGo(r)
      BY <1>6 DEF Custody!LetGo, Same
    <2>2. QED
      BY <2>1 DEF Step, Custody!CustodyNext
  <1>7. CASE OnDuty /\ KeeperOf(r) = "log" /\ KeeperOf(r)' = "crew" /\ UseOf(r)' = UseOf(r)
    <2>1. Custody!TakeBack(r)
      BY <1>7 DEF Custody!TakeBack, Same
    <2>2. QED
      BY <2>1 DEF Step, Custody!CustodyNext
  <1>8. QED
    BY <1>1, <1>2, <1>3, <1>4, <1>5, <1>6, <1>7 DEF Moves

\* backend.Cleanup of an environment that the crew has: it is gone, or its keeper is the
\* log unless the crew has another claim to it.
LEMMA CleanupMoves ==
    ASSUME TypeOK, NEW r \in Runners, Cleanup(r), Crew(r), OnDuty, OnDuty' = OnDuty,
           \A q \in Runners \ {r} : Crew(q)' = Crew(q)
    PROVE  Step
  <1>1. \A q \in Runners \ {r} : Same(q)
    BY CleanupEffect DEF Same, UseOf, KeeperOf
  <1>2. Moves(r)
    <2>1. CASE env'[r] = "absent"
      BY <2>1 DEF Moves, UseOf, KeeperOf
    <2>2. CASE env'[r] # "absent" /\ Crew(r)'
      <3>1. env[r] # "absent" /\ env'[r] \in {"exited", env[r]} /\ env[r] \in EnvStates
        BY <2>2, CleanupEffect DEF TypeOK
      <3>2. QED
        BY <2>2, <3>1 DEF Moves, Same, UseOf, KeeperOf, EnvStates
    <2>3. CASE env'[r] # "absent" /\ ~Crew(r)'
      <3>1. env[r] # "absent" /\ env'[r] \in {"exited", env[r]} /\ r \in abandoned'
        BY <2>3, CleanupEffect DEF TypeOK
      <3>2. QED
        BY <2>3, <3>1 DEF Moves, UseOf, KeeperOf
    <2>4. QED
      BY <2>1, <2>2, <2>3
  <1>3. QED
    BY <1>1, <1>2, OneMoves

-----------------------------------------------------------------------------
(* The proof *)

LEMMA MemoryInvariant == Spec => []NothingInMemory
  <1>1. Init => NothingInMemory
    BY DEF Init, NothingInMemory, OnDuty, Starting
  <1>2. NothingInMemory /\ [Next]_vars => NothingInMemory'
    <2> SUFFICES ASSUME NothingInMemory, [Next]_vars PROVE NothingInMemory'
      OBVIOUS
    <2> USE DEF NothingInMemory, OnDuty, Starting, NewRunnerTracker, Listening, ListenerReady
    <2>1. ASSUME NEW count \in 0..MaxJobs, HandleDesiredRunnerCount(count)
          PROVE  NothingInMemory'
      BY <2>1
      DEF HandleDesiredRunnerCount, scaleVars, runVars, startVars, cleanVars, msgVars
    <2>2. ASSUME NEW r \in Runners, SpawnRunner(r) PROVE NothingInMemory'
      BY <2>2
      DEF SpawnRunner, scaleVars, runVars, startVars, cleanVars, msgVars
    <2>3. ASSUME NEW r \in Runners, HandleJobStarted(r) PROVE NothingInMemory'
      BY <2>3
      DEF HandleJobStarted, scaleVars, runVars, startVars, cleanVars, msgVars
    <2>4. ASSUME NEW r \in Runners, HandleJobCompleted(r) PROVE NothingInMemory'
      BY <2>4
      DEF HandleJobCompleted, scaleVars, runVars, startVars, cleanVars, msgVars
    <2>5. ASSUME NEW r \in Runners, GenerateJitConfig(r) PROVE NothingInMemory'
      BY <2>5
      DEF GenerateJitConfig, scaleVars, runVars, startVars, cleanVars, msgVars
    <2>6. ASSUME NEW r \in Runners, GenerateJitConfigFails(r)
          PROVE  NothingInMemory'
      BY <2>6
      DEF GenerateJitConfigFails, scaleVars, runVars, startVars, cleanVars, msgVars
    <2>7. ASSUME NEW r \in Runners, CreateEnvironment(r) PROVE NothingInMemory'
      BY <2>7
      DEF CreateEnvironment, scaleVars, runVars, startVars, cleanVars, msgVars
    <2>8. ASSUME NEW r \in Runners, LaunchRunner(r) PROVE NothingInMemory'
      BY <2>8
      DEF LaunchRunner, scaleVars, runVars, startVars, cleanVars, msgVars
    <2>9. ASSUME NEW r \in Runners, RunFails(r) PROVE NothingInMemory'
      BY <2>9
      DEF RunFails, scaleVars, runVars, startVars, cleanVars, msgVars
    <2>10. ASSUME NEW r \in Runners, CleanUpFailedStart(r) PROVE NothingInMemory'
      BY <2>10
      DEF CleanUpFailedStart, scaleVars, runVars, startVars, cleanVars, msgVars
    <2>11. ASSUME NEW r \in Runners, RunnerStarted(r) PROVE NothingInMemory'
      BY <2>11
      DEF RunnerStarted, scaleVars, runVars, startVars, cleanVars, msgVars
    <2>12. ASSUME NEW r \in Runners, IdleTimeoutPasses(r) PROVE NothingInMemory'
      BY <2>12
      DEF IdleTimeoutPasses, scaleVars, runVars, startVars, cleanVars, msgVars
    <2>13. ASSUME ReapExpiredIdleRunners PROVE NothingInMemory'
      BY <2>13
      DEF ReapExpiredIdleRunners, scaleVars, runVars, startVars, cleanVars, msgVars
    <2>14. ASSUME NEW r \in Runners, CleanUpAfterJob(r) PROVE NothingInMemory'
      BY <2>14
      DEF CleanUpAfterJob, scaleVars, runVars, startVars, cleanVars, msgVars
    <2>15. ASSUME NEW r \in Runners, CleanUpReaped(r) PROVE NothingInMemory'
      BY <2>15
      DEF CleanUpReaped, scaleVars, runVars, startVars, cleanVars, msgVars
    <2>16. ASSUME StartRun PROVE NothingInMemory'
      BY <2>16
      DEF StartRun, scaleVars, runVars, startVars, cleanVars, msgVars
    <2>17. ASSUME SetupFails PROVE NothingInMemory'
      BY <2>17
      DEF SetupFails, scaleVars, runVars, startVars, cleanVars, msgVars
    <2>18. ASSUME BeginListening PROVE NothingInMemory'
      BY <2>18
      DEF BeginListening, scaleVars, runVars, startVars, cleanVars, msgVars
    <2>19. ASSUME CancelContext PROVE NothingInMemory'
      BY <2>19
      DEF CancelContext, scaleVars, runVars, startVars, cleanVars, msgVars
    <2>20. ASSUME ListenerExits PROVE NothingInMemory'
      BY <2>20
      DEF ListenerExits, scaleVars, runVars, startVars, cleanVars, msgVars
    <2>21. ASSUME NEW r \in Runners, CleanUpOnShutdown(r) PROVE NothingInMemory'
      BY <2>21
      DEF CleanUpOnShutdown, scaleVars, runVars, startVars, cleanVars, msgVars
    <2>22. ASSUME RunReturns PROVE NothingInMemory'
      BY <2>22
      DEF RunReturns, scaleVars, runVars, startVars, cleanVars, msgVars
    <2>23. ASSUME DaemonExits \/ DaemonDies PROVE NothingInMemory'
      BY <2>23
      DEF DaemonExits, DaemonDies, ForgetVolatileState, scaleVars, runVars, startVars, cleanVars, msgVars
    <2>24. ASSUME QueueJob PROVE NothingInMemory'
      BY <2>24
      DEF QueueJob, scaleVars, runVars, startVars, cleanVars, msgVars
    <2>25. ASSUME NEW r \in Runners, PickUpJob(r) PROVE NothingInMemory'
      BY <2>25
      DEF PickUpJob, scaleVars, runVars, startVars, cleanVars, msgVars
    <2>26. ASSUME NEW r \in Runners, FinishJob(r) PROVE NothingInMemory'
      BY <2>26
      DEF FinishJob, scaleVars, runVars, startVars, cleanVars, msgVars
    <2>27. ASSUME NEW r \in Runners, RunnerExits(r) PROVE NothingInMemory'
      BY <2>27
      DEF RunnerExits, scaleVars, runVars, startVars, cleanVars, msgVars
    <2>28. ASSUME NEW r \in Runners, RegistrationExpires(r)
          PROVE  NothingInMemory'
      BY <2>28
      DEF RegistrationExpires, scaleVars, runVars, startVars, cleanVars, msgVars
    <2>29. CASE UNCHANGED vars
      BY <2>29 DEF vars
    <2>30. QED
      BY <2>1, <2>2, <2>3, <2>4, <2>5, <2>6, <2>7, <2>8, <2>9, <2>10, <2>11,
         <2>12, <2>13, <2>14, <2>15, <2>16, <2>17, <2>18, <2>19, <2>20, <2>21,
         <2>22, <2>23, <2>24, <2>25, <2>26, <2>27, <2>28, <2>29
      DEF Next, Listener, Starter, Janitor, RunLoop, World
  <1>3. QED
    BY <1>1, <1>2, PTL DEF Spec

\* Every behaviour of the controller keeps the promise of RunnerCustody: each of its steps
\* is one step of custody or none, for every pool of names, max_runners and number of jobs
\* (scaler.go, controller.go, backend Cleanup and CleanupAll).
THEOREM ControllerKeepsCustody == Spec => RefinesCustody
  <1>1. Init => Custody!CustodyInit
    BY DEF Init, Custody!CustodyInit, OnDuty, UseOf, KeeperOf
  <1>2. /\ TypeOK
        /\ NothingInMemory /\ NothingInMemory'
        /\ JitHasNoEnvironment
        /\ ShutdownListInUse
        /\ NoForgottenEnvironment
        /\ TrackerConsistent
        /\ [Next]_vars
        => Step
    <2> SUFFICES ASSUME TypeOK, NothingInMemory, NothingInMemory',
                        JitHasNoEnvironment, ShutdownListInUse,
                        NoForgottenEnvironment, TrackerConsistent, [Next]_vars
                 PROVE  Step
      OBVIOUS
    <2>1. ASSUME NEW count \in 0..MaxJobs, HandleDesiredRunnerCount(count) PROVE Step
      <3>1. OnDuty' = OnDuty /\ \A q \in Runners : Same(q)
        BY <2>1
        DEF HandleDesiredRunnerCount, Same, UseOf, KeeperOf, Crew, Starting, OnDuty,
            TypeOK, Trackers, scaleVars, runVars, startVars, cleanVars, msgVars
      <3>2. QED
        BY <3>1, NobodyMoves
    <2>2. ASSUME NEW r \in Runners, SpawnRunner(r) PROVE Step
      <3>1. OnDuty' = OnDuty /\ \A q \in Runners : Same(q)
        BY <2>2
        DEF SpawnRunner, MarkStarting, Fresh, Same, UseOf, KeeperOf, Crew, Starting,
            OnDuty, TypeOK, Trackers, scaleVars, runVars, startVars, cleanVars,
            msgVars
      <3>2. QED
        BY <3>1, NobodyMoves
    <2>3. ASSUME NEW r \in Runners, HandleJobStarted(r) PROVE Step
      <3>1. OnDuty' = OnDuty /\ \A q \in Runners \ {r} : Same(q)
        BY <2>3
        DEF HandleJobStarted, MarkBusy, NoForgottenEnvironment, Accounted, Present,
            ListenerReady, Listening, Same, UseOf, KeeperOf, Crew, Starting, OnDuty,
            TypeOK, Trackers, scaleVars, runVars, startVars, cleanVars, msgVars
      <3>2. Moves(r)
        BY <2>3
        DEF HandleJobStarted, MarkBusy, NoForgottenEnvironment, Accounted, Present,
            ListenerReady, Listening, Moves, Same, UseOf, KeeperOf, Crew, Starting,
            OnDuty, TypeOK, Trackers, scaleVars, runVars, startVars, cleanVars,
            msgVars
      <3>3. QED
        BY <3>1, <3>2, OneMoves
    <2>4. ASSUME NEW r \in Runners, HandleJobCompleted(r) PROVE Step
      <3>1. OnDuty' = OnDuty /\ \A q \in Runners \ {r} : Same(q)
        BY <2>4
        DEF HandleJobCompleted, Remove, NoForgottenEnvironment, Accounted, Present,
            ListenerReady, Listening, Same, UseOf, KeeperOf, Crew, Starting, OnDuty,
            TypeOK, Trackers, scaleVars, runVars, startVars, cleanVars, msgVars
      <3>2. Moves(r)
        BY <2>4
        DEF HandleJobCompleted, Remove, NoForgottenEnvironment, Accounted, Present,
            ListenerReady, Listening, Moves, Same, UseOf, KeeperOf, Crew, Starting,
            OnDuty, TypeOK, Trackers, scaleVars, runVars, startVars, cleanVars,
            msgVars
      <3>3. QED
        BY <3>1, <3>2, OneMoves
    <2>5. ASSUME NEW r \in Runners, GenerateJitConfig(r) PROVE Step
      <3>1. OnDuty' = OnDuty /\ \A q \in Runners : Same(q)
        BY <2>5
        DEF GenerateJitConfig, Same, UseOf, KeeperOf, Crew, Starting, OnDuty,
            TypeOK, Trackers, scaleVars, runVars, startVars, cleanVars, msgVars
      <3>2. QED
        BY <3>1, NobodyMoves
    <2>6. ASSUME NEW r \in Runners, GenerateJitConfigFails(r) PROVE Step
      <3>1. OnDuty' = OnDuty /\ \A q \in Runners : Same(q)
        BY <2>6
        DEF GenerateJitConfigFails, Remove, JitHasNoEnvironment, Same, UseOf,
            KeeperOf, Crew, Starting, OnDuty, TypeOK, Trackers, scaleVars, runVars,
            startVars, cleanVars, msgVars
      <3>2. QED
        BY <3>1, NobodyMoves
    <2>7. ASSUME NEW r \in Runners, CreateEnvironment(r) PROVE Step
      <3>1. OnDuty' = OnDuty /\ \A q \in Runners \ {r} : Same(q)
        BY <2>7
        DEF CreateEnvironment, NothingInMemory, Same, UseOf, KeeperOf, Crew,
            Starting, OnDuty, TypeOK, Trackers, scaleVars, runVars, startVars,
            cleanVars, msgVars
      <3>2. Moves(r)
        BY <2>7
        DEF CreateEnvironment, NothingInMemory, Moves, Same, UseOf, KeeperOf, Crew,
            Starting, OnDuty, TypeOK, Trackers, scaleVars, runVars, startVars,
            cleanVars, msgVars
      <3>3. QED
        BY <3>1, <3>2, OneMoves
    <2>8. ASSUME NEW r \in Runners, LaunchRunner(r) PROVE Step
      <3>1. OnDuty' = OnDuty /\ \A q \in Runners : Same(q)
        BY <2>8
        DEF LaunchRunner, Same, UseOf, KeeperOf, Crew, Starting, OnDuty, TypeOK,
            Trackers, scaleVars, runVars, startVars, cleanVars, msgVars
      <3>2. QED
        BY <3>1, NobodyMoves
    <2>9. ASSUME NEW r \in Runners, RunFails(r) PROVE Step
      <3>1. OnDuty' = OnDuty /\ \A q \in Runners \ {r} : Same(q)
        BY <2>9
        DEF RunFails, Remove, Same, UseOf, KeeperOf, Crew, Starting, OnDuty, TypeOK,
            Trackers, scaleVars, runVars, startVars, cleanVars, msgVars
      <3>2. Moves(r)
        BY <2>9
        DEF RunFails, Remove, Moves, Same, UseOf, KeeperOf, Crew, Starting, OnDuty,
            TypeOK, Trackers, scaleVars, runVars, startVars, cleanVars, msgVars
      <3>3. QED
        BY <3>1, <3>2, OneMoves
    <2>10. ASSUME NEW r \in Runners, CleanUpFailedStart(r) PROVE Step
      <3>1. Cleanup(r) /\ Crew(r)
        BY <2>10
        DEF CleanUpFailedStart, Crew, Starting
      <3>2. OnDuty /\ OnDuty' = OnDuty
        BY <2>10, <3>1, NoCrew
        DEF CleanUpFailedStart, OnDuty, scaleVars, runVars, startVars, cleanVars,
            msgVars
      <3>3. \A q \in Runners \ {r} : Crew(q)' = Crew(q)
        BY <2>10
        DEF CleanUpFailedStart, Crew, Starting, TypeOK, scaleVars, runVars,
            startVars, cleanVars, msgVars
      <3>4. QED
        BY <3>1, <3>2, <3>3, CleanupMoves
    <2>11. ASSUME NEW r \in Runners, RunnerStarted(r) PROVE Step
      <3>1. OnDuty' = OnDuty /\ \A q \in Runners : Same(q)
        BY <2>11
        DEF RunnerStarted, MarkIdle, Same, UseOf, KeeperOf, Crew, Starting, OnDuty,
            TypeOK, Trackers, scaleVars, runVars, startVars, cleanVars, msgVars
      <3>2. QED
        BY <3>1, NobodyMoves
    <2>12. ASSUME NEW r \in Runners, IdleTimeoutPasses(r) PROVE Step
      <3>1. OnDuty' = OnDuty /\ \A q \in Runners : Same(q)
        BY <2>12
        DEF IdleTimeoutPasses, Age, Same, UseOf, KeeperOf, Crew, Starting, OnDuty,
            TypeOK, Trackers, scaleVars, runVars, startVars, cleanVars, msgVars
      <3>2. QED
        BY <3>1, NobodyMoves
    <2>13. ASSUME ReapExpiredIdleRunners PROVE Step
      <3>1. OnDuty' = OnDuty /\ \A q \in Runners : Same(q)
        BY <2>13
        DEF ReapExpiredIdleRunners, RemoveIdleOlderThan, TrackerConsistent, Same,
            UseOf, KeeperOf, Crew, Starting, OnDuty, TypeOK, Trackers, scaleVars,
            runVars, startVars, cleanVars, msgVars
      <3>2. QED
        BY <3>1, NobodyMoves
    <2>14. ASSUME NEW r \in Runners, CleanUpAfterJob(r) PROVE Step
      <3>1. Cleanup(r) /\ Crew(r)
        BY <2>14
        DEF CleanUpAfterJob, Crew, Starting
      <3>2. OnDuty /\ OnDuty' = OnDuty
        BY <2>14, <3>1, NoCrew
        DEF CleanUpAfterJob, OnDuty, scaleVars, runVars, startVars, cleanVars,
            msgVars
      <3>3. \A q \in Runners \ {r} : Crew(q)' = Crew(q)
        BY <2>14
        DEF CleanUpAfterJob, Crew, Starting, TypeOK, scaleVars, runVars, startVars,
            cleanVars, msgVars
      <3>4. QED
        BY <3>1, <3>2, <3>3, CleanupMoves
    <2>15. ASSUME NEW r \in Runners, CleanUpReaped(r) PROVE Step
      <3>1. Cleanup(r) /\ Crew(r)
        BY <2>15
        DEF CleanUpReaped, Crew, Starting
      <3>2. OnDuty /\ OnDuty' = OnDuty
        BY <2>15, <3>1, NoCrew
        DEF CleanUpReaped, OnDuty, scaleVars, runVars, startVars, cleanVars, msgVars
      <3>3. \A q \in Runners \ {r} : Crew(q)' = Crew(q)
        BY <2>15
        DEF CleanUpReaped, Crew, Starting, TypeOK, scaleVars, runVars, startVars,
            cleanVars, msgVars
      <3>4. QED
        BY <3>1, <3>2, <3>3, CleanupMoves
    <2>16. ASSUME StartRun PROVE Step
      <3>1. PICK missed \in SUBSET Present :
                /\ env' = [q \in Runners |-> IF q \in missed THEN env[q] ELSE "absent"]
                /\ abandoned' = missed
        BY <2>16 DEF StartRun, CleanupAll
      <3>2. OnDuty' /\ \A q \in Runners : Crew(q)' = Crew(q)
        BY <2>16 DEF StartRun, OnDuty, Crew, Starting, scaleVars, startVars, cleanVars
      <3> DEFINE gone == Runners \ missed
      <3>3. gone \in SUBSET Runners
        OBVIOUS
      <3>4. CASE OnDuty
        <4>1. \A q \in Runners \ gone : Same(q)
          BY <3>1, <3>2, <3>4
          DEF Same, UseOf, KeeperOf, Crew, OnDuty, NoForgottenEnvironment, Accounted, Present
        <4>2. \A q \in gone : UseOf(q)' = "absent" /\ KeeperOf(q)' = "nobody"
          BY <3>1 DEF UseOf, KeeperOf
        <4> HIDE DEF gone
        <4>3. QED
          BY <3>2, <3>3, <3>4, <4>1, <4>2, ManyGo
      <3>5. CASE ~OnDuty
        <4>1. \A q \in Runners \ gone : /\ UseOf(q)' = UseOf(q) /\ UseOf(q) # "absent"
                                        /\ KeeperOf(q)' = "log"
          <5>1. \A q \in Runners : ~Crew(q)'
            BY <3>2, <3>5, NoCrew
          <5>2. QED
            BY <3>1, <5>1 DEF UseOf, KeeperOf, Present
        <4>2. \A q \in gone : UseOf(q)' = "absent" /\ KeeperOf(q)' = "nobody"
          BY <3>1 DEF UseOf, KeeperOf
        <4> HIDE DEF gone
        <4>3. QED
          BY <3>2, <3>3, <3>5, <4>1, <4>2, ManyAreLogged
      <3>6. QED
        BY <3>4, <3>5
    <2>17. ASSUME SetupFails PROVE Step
      <3>1. OnDuty' = OnDuty /\ \A q \in Runners : Same(q)
        BY <2>17
        DEF SetupFails, Same, UseOf, KeeperOf, Crew, Starting, OnDuty, TypeOK,
            Trackers, scaleVars, runVars, startVars, cleanVars, msgVars
      <3>2. QED
        BY <3>1, NobodyMoves
    <2>18. ASSUME BeginListening PROVE Step
      <3>1. OnDuty' = OnDuty /\ \A q \in Runners : Same(q)
        BY <2>18
        DEF BeginListening, Same, UseOf, KeeperOf, Crew, Starting, OnDuty, TypeOK,
            Trackers, scaleVars, runVars, startVars, cleanVars, msgVars
      <3>2. QED
        BY <3>1, NobodyMoves
    <2>19. ASSUME CancelContext PROVE Step
      <3>1. OnDuty' = OnDuty /\ \A q \in Runners : Same(q)
        BY <2>19
        DEF CancelContext, Same, UseOf, KeeperOf, Crew, Starting, OnDuty, TypeOK,
            Trackers, scaleVars, runVars, startVars, cleanVars, msgVars
      <3>2. QED
        BY <3>1, NobodyMoves
    <2>20. ASSUME ListenerExits PROVE Step
      <3>1. OnDuty' = OnDuty /\ \A q \in Runners : Same(q)
        BY <2>20
        DEF ListenerExits, NamesToCleanUp, NewRunnerTracker, ShutdownListInUse,
            ListenerReady, Listening, Same, UseOf, KeeperOf, Crew, Starting, OnDuty,
            TypeOK, Trackers, scaleVars, runVars, startVars, cleanVars, msgVars
      <3>2. QED
        BY <3>1, NobodyMoves
    <2>21. ASSUME NEW r \in Runners, CleanUpOnShutdown(r) PROVE Step
      <3>1. Cleanup(r) /\ Crew(r)
        BY <2>21
        DEF CleanUpOnShutdown, Crew, Starting
      <3>2. OnDuty /\ OnDuty' = OnDuty
        BY <2>21, <3>1, NoCrew
        DEF CleanUpOnShutdown, OnDuty, scaleVars, runVars, startVars, cleanVars,
            msgVars
      <3>3. \A q \in Runners \ {r} : Crew(q)' = Crew(q)
        BY <2>21
        DEF CleanUpOnShutdown, Crew, Starting, TypeOK, scaleVars, runVars,
            startVars, cleanVars, msgVars
      <3>4. QED
        BY <3>1, <3>2, <3>3, CleanupMoves
    <2>22. ASSUME RunReturns PROVE Step
      <3>1. OnDuty' = OnDuty /\ \A q \in Runners : Same(q)
        BY <2>22
        DEF RunReturns, Same, UseOf, KeeperOf, Crew, Starting, OnDuty, TypeOK,
            Trackers, scaleVars, runVars, startVars, cleanVars, msgVars
      <3>2. QED
        BY <3>1, NobodyMoves
    <2>23. ASSUME DaemonExits \/ DaemonDies PROVE Step
      <3>1. OnDuty /\ ~OnDuty'
        BY <2>23 DEF DaemonExits, DaemonDies, OnDuty
      <3>2. \A q \in Runners : UseOf(q)' = UseOf(q)
        BY <2>23 DEF DaemonExits, DaemonDies, UseOf
      <3>3. \A q \in Runners : KeeperOf(q)' \in {"nobody", "log"}
        <4>1. \A q \in Runners : ~Crew(q)'
          BY <3>1, NothingInMemory' DEF NothingInMemory, Crew, NewRunnerTracker
        <4>2. QED
          BY <4>1 DEF KeeperOf
      <3>4. Custody!GoOffDuty
        BY <3>1, <3>2, <3>3 DEF Custody!GoOffDuty
      <3>5. QED
        BY <3>4 DEF Step, Custody!CustodyNext
    <2>24. ASSUME QueueJob PROVE Step
      <3>1. OnDuty' = OnDuty /\ \A q \in Runners : Same(q)
        BY <2>24
        DEF QueueJob, Same, UseOf, KeeperOf, Crew, Starting, OnDuty, TypeOK,
            Trackers, scaleVars, runVars, startVars, cleanVars, msgVars
      <3>2. QED
        BY <3>1, NobodyMoves
    <2>25. ASSUME NEW r \in Runners, PickUpJob(r) PROVE Step
      <3>1. OnDuty' = OnDuty /\ \A q \in Runners \ {r} : Same(q)
        BY <2>25
        DEF PickUpJob, Same, UseOf, KeeperOf, Crew, Starting, OnDuty, TypeOK,
            Trackers, scaleVars, runVars, startVars, cleanVars, msgVars
      <3>2. Moves(r)
        BY <2>25
        DEF PickUpJob, Moves, Same, UseOf, KeeperOf, Crew, Starting, OnDuty, TypeOK,
            Trackers, scaleVars, runVars, startVars, cleanVars, msgVars
      <3>3. QED
        BY <3>1, <3>2, OneMoves
    <2>26. ASSUME NEW r \in Runners, FinishJob(r) PROVE Step
      <3>1. OnDuty' = OnDuty /\ \A q \in Runners \ {r} : Same(q)
        BY <2>26
        DEF FinishJob, Same, UseOf, KeeperOf, Crew, Starting, OnDuty, TypeOK,
            Trackers, scaleVars, runVars, startVars, cleanVars, msgVars
      <3>2. Moves(r)
        BY <2>26
        DEF FinishJob, Moves, Same, UseOf, KeeperOf, Crew, Starting, OnDuty, TypeOK,
            Trackers, scaleVars, runVars, startVars, cleanVars, msgVars
      <3>3. QED
        BY <3>1, <3>2, OneMoves
    <2>27. ASSUME NEW r \in Runners, RunnerExits(r) PROVE Step
      <3>1. OnDuty' = OnDuty /\ \A q \in Runners \ {r} : Same(q)
        BY <2>27
        DEF RunnerExits, Same, UseOf, KeeperOf, Crew, Starting, OnDuty, TypeOK,
            Trackers, scaleVars, runVars, startVars, cleanVars, msgVars
      <3>2. Moves(r)
        BY <2>27
        DEF RunnerExits, Moves, Same, UseOf, KeeperOf, Crew, Starting, OnDuty,
            TypeOK, Trackers, scaleVars, runVars, startVars, cleanVars, msgVars
      <3>3. QED
        BY <3>1, <3>2, OneMoves
    <2>28. ASSUME NEW r \in Runners, RegistrationExpires(r) PROVE Step
      <3>1. OnDuty' = OnDuty /\ \A q \in Runners : Same(q)
        BY <2>28
        DEF RegistrationExpires, Same, UseOf, KeeperOf, Crew, Starting, OnDuty,
            TypeOK, Trackers, scaleVars, runVars, startVars, cleanVars, msgVars
      <3>2. QED
        BY <3>1, NobodyMoves
    <2>29. CASE UNCHANGED vars
      <3>1. OnDuty' = OnDuty /\ \A q \in Runners : Same(q)
        BY <2>29 DEF vars, Same, UseOf, KeeperOf, Crew, Starting, OnDuty
      <3>2. QED
        BY <3>1, NobodyMoves
    <2>30. QED
      BY <2>1, <2>2, <2>3, <2>4, <2>5, <2>6, <2>7, <2>8, <2>9, <2>10, <2>11,
         <2>12, <2>13, <2>14, <2>15, <2>16, <2>17, <2>18, <2>19, <2>20, <2>21,
         <2>22, <2>23, <2>24, <2>25, <2>26, <2>27, <2>28, <2>29
      DEF Next, Listener, Starter, Janitor, RunLoop, World
  <1>3. QED
    BY <1>1, <1>2, TypeCorrect, MemoryInvariant, JitInvariant, ShutdownListInvariant,
       NothingForgotten, TrackerIsConsistent, PTL
    DEF Spec, Step, RefinesCustody, Custody!CustodySpec
=============================================================================
