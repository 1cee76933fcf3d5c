------------------------ MODULE ScaleSetController -------------------------
(***************************************************************************)
(* Standalone mode, one runner set: internal/controller (scaler.go,        *)
(* controller.go, runnerstate.go), the retry loop of internal/management   *)
(* around it, and the backend operations it calls.                         *)
(*                                                                         *)
(* GitHub sends the number of assigned jobs; the controller starts that    *)
(* many ephemeral runners, up to MaxRunners, each in an environment of its *)
(* own (a Docker container or a Tart virtual machine).  Actors: the        *)
(* listener goroutine, which runs the three handlers one after the other;  *)
(* one starter goroutine per new runner; the idle reaper; one cleanup      *)
(* goroutine per finished or reaped runner; the Run loop, which starts,    *)
(* shuts down and restarts all of this; GitHub; the runner processes.      *)
(*                                                                         *)
(* What is abstracted.  A runner name is a model value.  The program draws *)
(* a fresh random suffix for each runner; here a name may be drawn again   *)
(* once nothing anywhere refers to it.  The job history is not part of     *)
(* this module.  The count GitHub reports may be arbitrarily stale: any    *)
(* number up to MaxJobs.                                                   *)
(***************************************************************************)
EXTENDS RunnerTracker

CONSTANTS
    Runners,     \* the pool of runner names
    MaxRunners,  \* max_runners of the runner set
    MaxJobs      \* bound of the model: jobs queued or running at one time

ASSUME ConstantsAssumption ==
    /\ IsFiniteSet(Runners)
    /\ MaxRunners \in Nat
    /\ MaxJobs \in Nat

VARIABLES
    phase,         \* where ScaleSetController.Run and its retry loop are
    tracker,       \* RunnerTracker
    toStart,       \* runners HandleDesiredRunnerCount has still to start
    granted,       \* auxiliary: names tracked without a break since MarkStarting
    pc,            \* where the starter goroutine of a runner is
    cancelled,     \* starters whose runnerCtx is cancelled
    jobCleanups,   \* cleanup goroutines of HandleJobCompleted
    reapCleanups,  \* cleanup goroutines of the idle reaper
    shutdownList,  \* what shutdown has still to clean up
    abandoned,     \* environments whose removal failed and was only logged
    env,           \* the environment and the runner process inside it
    registered,    \* runner records on GitHub
    queued,        \* jobs waiting for a runner
    started,       \* JobStarted messages on their way
    completed      \* JobCompleted messages on their way

runVars    == <<phase, shutdownList>>
scaleVars  == <<toStart, granted>>
startVars  == <<pc, cancelled>>
cleanVars  == <<jobCleanups, reapCleanups>>
msgVars    == <<started, completed>>
vars == <<phase, tracker, toStart, granted, pc, cancelled, jobCleanups,
          reapCleanups, shutdownList, abandoned, env, registered, queued, started,
          completed>>

Phases == {"setup", "listen", "draining", "stopping", "exiting", "sleep",
           "stopped", "dead"}

\* none: no goroutine; jit: before GenerateJitRunnerConfig has answered;
\* run: inside backend.Run; up: Run has returned nil and MarkIdle is next;
\* failed: Run has failed and the name is no longer tracked.
StarterSteps == {"none", "jit", "run", "up", "failed"}

\* created: no runner process yet; online: the runner waits for a job;
\* job: it executes one; exited: the process has ended, the container or the
\* machine is still there.
EnvStates == {"absent", "created", "online", "job", "exited"}

TypeOK ==
    /\ phase \in Phases
    /\ tracker \in Trackers(Runners)
    /\ toStart \in 0..MaxRunners
    /\ granted \subseteq Runners
    /\ pc \in [Runners -> StarterSteps]
    /\ cancelled \subseteq Runners
    /\ jobCleanups \subseteq Runners
    /\ reapCleanups \subseteq Runners
    /\ shutdownList \subseteq Runners
    /\ abandoned \subseteq Runners
    /\ env \in [Runners -> EnvStates]
    /\ registered \subseteq Runners
    /\ queued \in 0..MaxJobs
    /\ started \subseteq Runners
    /\ completed \subseteq Runners

\* The daemon before its first start, on a host without leftovers.
Init ==
    /\ phase = "stopped"
    /\ tracker = NewRunnerTracker
    /\ toStart = 0
    /\ granted = {}
    /\ pc = [r \in Runners |-> "none"]
    /\ cancelled = {}
    /\ jobCleanups = {}
    /\ reapCleanups = {}
    /\ shutdownList = {}
    /\ abandoned = {}
    /\ env = [r \in Runners |-> "absent"]
    /\ registered = {}
    /\ queued = 0
    /\ started = {}
    /\ completed = {}

-----------------------------------------------------------------------------
(* What the actions are built from *)

\* listener.Run is running.  After the daemon's context is cancelled it still
\* finishes the message at hand.
Listening == phase \in {"listen", "draining"}

\* The listener goroutine is between two handlers.
ListenerReady == Listening /\ toStart = 0

Starting == {r \in Runners : pc[r] # "none"}

Present == {r \in Runners : env[r] # "absent"}

Employed == {r \in Runners : env[r] = "job"}

\* Names that nothing refers to: what a random suffix gives.
Fresh ==
    {r \in Runners \ (Tracked(tracker) \cup jobCleanups \cup reapCleanups
                      \cup shutdownList \cup registered
                      \cup started \cup completed) :
        pc[r] = "none" /\ env[r] = "absent"}

\* Mutant of Needed: runners in preparation are not counted.
NeededIgnoringPreparing(t, count) ==
    LET wanted  == IF count < MaxRunners THEN count ELSE MaxRunners
        current == Cardinality(t.idle) + Cardinality(t.busy)
    IN  IF wanted > current THEN wanted - current ELSE 0

\* Mutant of Needed: the clamp at zero is missing.
NeededUnclamped(t, count) ==
    (IF count < MaxRunners THEN count ELSE MaxRunners) - Total(t)

\* needed of HandleDesiredRunnerCount, with its clamp at zero.
Needed(t, count) ==
    LET wanted == IF count < MaxRunners THEN count ELSE MaxRunners
    IN  IF wanted > Total(t) THEN wanted - Total(t) ELSE 0

\* backend.Cleanup: removes the environment, or logs that it could not.  Tart
\* stops the machine first and then deletes it, and either may fail.  A job
\* that is killed this way is reported completed by GitHub.
Cleanup(r) ==
    LET killed == IF r \in Employed THEN {r} ELSE {}
    IN  \/ /\ env' = [env EXCEPT ![r] = "absent"]
           /\ abandoned' = abandoned \ {r}
           /\ completed' = completed \cup killed
        \/ /\ r \in Present
           /\ env' = [env EXCEPT ![r] = "exited"]
           /\ abandoned' = abandoned \cup {r}
           /\ completed' = completed \cup killed
        \/ /\ r \in Present
           /\ abandoned' = abandoned \cup {r}
           /\ UNCHANGED <<env, completed>>

\* backend.CleanupAll: every environment that carries the runner set's prefix is
\* removed, whoever made it.  `missed` are those it fails to remove, all of them
\* when they cannot be listed.
CleanupAll ==
    \E missed \in SUBSET Present :
        /\ env' = [r \in Runners |-> IF r \in missed THEN env[r] ELSE "absent"]
        /\ abandoned' = missed
        /\ completed' = completed \cup (Employed \ missed)

\* removeGitHubRunner is best effort.
RemoveGitHubRunner(r) ==
    \/ registered' = registered \ {r}
    \/ UNCHANGED registered

\* What the end of the process takes with it.
ForgetVolatileState ==
    /\ tracker' = NewRunnerTracker
    /\ toStart' = 0
    /\ granted' = {}
    /\ pc' = [r \in Runners |-> "none"]
    /\ cancelled' = {}
    /\ jobCleanups' = {}
    /\ reapCleanups' = {}
    /\ shutdownList' = {}

-----------------------------------------------------------------------------
(* Handlers of the listener goroutine *)

\* The counts are read in one locked call, and the names are entered one by one
\* afterwards: toStart is what the loop has still to do.
HandleDesiredRunnerCount(count) ==
    /\ ListenerReady
    /\ Needed(tracker, count) <= Cardinality(Fresh)
    /\ toStart' = Needed(tracker, count)
    /\ UNCHANGED <<granted, runVars, tracker, startVars, cleanVars, abandoned, env,
                   registered, queued, msgVars>>

\* One turn of the loop: the new goroutine inherits runnerCtx as it is.
SpawnRunner(r) ==
    /\ toStart > 0
    /\ r \in Fresh
    /\ toStart' = toStart - 1
    /\ granted' = granted \cup {r}
    /\ tracker' = MarkStarting(tracker, r)
    /\ pc' = [pc EXCEPT ![r] = "jit"]
    /\ cancelled' = IF phase = "draining" THEN cancelled \cup {r} ELSE cancelled
    /\ UNCHANGED <<runVars, cleanVars, abandoned, env, registered, queued, msgVars>>

HandleJobStarted(r) ==
    /\ ListenerReady
    /\ r \in started
    /\ started' = started \ {r}
    /\ tracker' = MarkBusy(tracker, r)
    /\ UNCHANGED <<scaleVars, runVars, startVars, cleanVars, abandoned, env,
                   registered, queued, completed>>

\* Mutant of HandleJobCompleted: the runner is cleaned up but not removed.
HandleJobCompletedKeepingEntry(r) ==
    /\ ListenerReady
    /\ r \in completed \ started
    /\ completed' = completed \ {r}
    /\ jobCleanups' = jobCleanups \cup {r}
    /\ UNCHANGED <<scaleVars, runVars, tracker, startVars, reapCleanups, abandoned,
                   env, registered, queued, started>>

\* GitHub reports the start of a job before its end.
HandleJobCompleted(r) ==
    /\ ListenerReady
    /\ r \in completed \ started
    /\ completed' = completed \ {r}
    /\ tracker' = Remove(tracker, r)
    /\ granted' = granted \ {r}
    /\ jobCleanups' = jobCleanups \cup {r}
    /\ UNCHANGED <<toStart, runVars, startVars, reapCleanups, abandoned, env,
                   registered, queued, started>>

-----------------------------------------------------------------------------
(* startRunner, one goroutine per new runner *)

GenerateJitConfig(r) ==
    /\ pc[r] = "jit"
    /\ pc' = [pc EXCEPT ![r] = "run"]
    /\ registered' = registered \cup {r}
    /\ UNCHANGED <<scaleVars, runVars, tracker, cancelled, cleanVars, abandoned,
                   env, queued, msgVars>>

\* Mutant of GenerateJitConfigFails: the preparing entry stays.
GenerateJitConfigFailsKeepingEntry(r) ==
    /\ pc[r] = "jit"
    /\ pc' = [pc EXCEPT ![r] = "none"]
    /\ cancelled' = cancelled \ {r}
    /\ UNCHANGED <<scaleVars, runVars, tracker, cleanVars, abandoned, env,
                   registered, queued, msgVars>>

\* GitHub may have made the record although its answer is an error here.
GenerateJitConfigFails(r) ==
    /\ pc[r] = "jit"
    /\ tracker' = Remove(tracker, r)
    /\ granted' = granted \ {r}
    /\ pc' = [pc EXCEPT ![r] = "none"]
    /\ cancelled' = cancelled \ {r}
    /\ registered' \in {registered, registered \cup {r}}
    /\ UNCHANGED <<toStart, runVars, cleanVars, abandoned, env, queued, msgVars>>

\* backend.Run, first half: the clone of the machine, docker's create.
CreateEnvironment(r) ==
    /\ pc[r] = "run"
    /\ r \notin cancelled
    /\ env[r] = "absent"
    /\ env' = [env EXCEPT ![r] = "created"]
    /\ UNCHANGED <<scaleVars, runVars, tracker, startVars, cleanVars, abandoned,
                   registered, queued, msgVars>>

\* backend.Run, second half: the runner process is launched.
LaunchRunner(r) ==
    /\ pc[r] = "run"
    /\ r \notin cancelled
    /\ env[r] = "created"
    /\ env' = [env EXCEPT ![r] = "online"]
    /\ pc' = [pc EXCEPT ![r] = "up"]
    /\ UNCHANGED <<scaleVars, runVars, tracker, cancelled, cleanVars, abandoned,
                   registered, queued, msgVars>>

\* Mutants of RunFails: nothing is cleaned up; the preparing entry stays.
RunFailsWithoutCleanup(r) ==
    /\ pc[r] = "run"
    /\ tracker' = Remove(tracker, r)
    /\ granted' = granted \ {r}
    /\ pc' = [pc EXCEPT ![r] = "none"]
    /\ UNCHANGED <<toStart, runVars, cancelled, cleanVars, abandoned, env,
                   registered, queued, msgVars>>

RunFailsKeepingEntry(r) ==
    /\ pc[r] = "run"
    /\ pc' = [pc EXCEPT ![r] = "failed"]
    /\ UNCHANGED <<scaleVars, runVars, tracker, cancelled, cleanVars, abandoned,
                   env, registered, queued, msgVars>>

\* Run returns an error, with whatever it made so far left behind: a cancelled
\* launch may have launched the runner all the same.
RunFails(r) ==
    /\ pc[r] = "run"
    /\ \/ UNCHANGED env
       \/ env[r] = "created" /\ env' = [env EXCEPT ![r] = "online"]
    /\ tracker' = Remove(tracker, r)
    /\ granted' = granted \ {r}
    /\ pc' = [pc EXCEPT ![r] = "failed"]
    /\ UNCHANGED <<toStart, runVars, cancelled, cleanVars, abandoned, registered,
                   queued, msgVars>>

\* The error path goes on under a context of its own.
CleanUpFailedStart(r) ==
    /\ pc[r] = "failed"
    /\ Cleanup(r)
    /\ RemoveGitHubRunner(r)
    /\ pc' = [pc EXCEPT ![r] = "none"]
    /\ cancelled' = cancelled \ {r}
    /\ UNCHANGED <<scaleVars, runVars, tracker, cleanVars, queued, started>>

RunnerStarted(r) ==
    /\ pc[r] = "up"
    /\ tracker' = MarkIdle(tracker, r)
    /\ pc' = [pc EXCEPT ![r] = "none"]
    /\ cancelled' = cancelled \ {r}
    /\ UNCHANGED <<scaleVars, runVars, cleanVars, abandoned, env, registered,
                   queued, msgVars>>

-----------------------------------------------------------------------------
(* The idle reaper and the cleanup goroutines *)

IdleTimeoutPasses(r) ==
    /\ r \in tracker.idle \ tracker.aged
    /\ tracker' = Age(tracker, r)
    /\ UNCHANGED <<scaleVars, runVars, startVars, cleanVars, abandoned, env,
                   registered, queued, msgVars>>

ReapExpiredIdleRunners ==
    /\ Listening
    /\ tracker.aged # {}
    /\ tracker' = RemoveIdleOlderThan(tracker)
    /\ granted' = granted \ tracker.aged
    /\ reapCleanups' = reapCleanups \cup tracker.aged
    /\ UNCHANGED <<toStart, runVars, startVars, jobCleanups, abandoned, env,
                   registered, queued, msgVars>>

CleanUpAfterJob(r) ==
    /\ r \in jobCleanups
    /\ jobCleanups' = jobCleanups \ {r}
    /\ Cleanup(r)
    /\ UNCHANGED <<scaleVars, runVars, tracker, startVars, reapCleanups, registered,
                   queued, started>>

CleanUpReaped(r) ==
    /\ r \in reapCleanups
    /\ reapCleanups' = reapCleanups \ {r}
    /\ Cleanup(r)
    /\ RemoveGitHubRunner(r)
    /\ UNCHANGED <<scaleVars, runVars, tracker, startVars, jobCleanups, queued,
                   started>>

-----------------------------------------------------------------------------
(* ScaleSetController.Run and the retry loop around it *)

\* Mutant of StartRun: what an earlier process left behind is not removed.
StartRunWithoutCleanup ==
    /\ phase \in {"stopped", "dead", "sleep"}
    /\ phase' = "setup"
    /\ UNCHANGED <<scaleVars, shutdownList, tracker, startVars, cleanVars, abandoned,
                   env, registered, queued, msgVars>>

\* Run begins with CleanupAll.
StartRun ==
    /\ phase \in {"stopped", "dead", "sleep"}
    /\ phase' = "setup"
    /\ CleanupAll
    /\ UNCHANGED <<scaleVars, shutdownList, tracker, startVars, cleanVars,
                   registered, queued, started>>

\* The runner group, the scale set or the session cannot be had: Run returns
\* without shutdown, and the loop sleeps before the next try.
SetupFails ==
    /\ phase = "setup"
    /\ phase' = "sleep"
    /\ UNCHANGED <<scaleVars, shutdownList, tracker, startVars, cleanVars,
                   abandoned, env, registered, queued, msgVars>>

\* The previous Run has deleted its scale set, or failed to: messages that were
\* under way are lost with it or arrive in the new session.
BeginListening ==
    /\ phase = "setup"
    /\ phase' = "listen"
    /\ \/ UNCHANGED msgVars
       \/ started' = {} /\ completed' = {}
    /\ UNCHANGED <<scaleVars, shutdownList, tracker, startVars, cleanVars,
                   abandoned, env, registered, queued>>

\* The daemon's context is cancelled, and runnerCtx with it.  A set-up that is
\* under way fails, and so does the one that would follow the sleep; a shutdown
\* that is under way goes on.
CancelContext ==
    /\ phase \in {"setup", "listen", "stopping", "sleep"}
    /\ phase' = IF phase = "listen" THEN "draining" ELSE "exiting"
    /\ cancelled' = Starting
    /\ UNCHANGED <<scaleVars, shutdownList, tracker, pc, cleanVars, abandoned, env,
                   registered, queued, msgVars>>

\* listener.Run returns; then runnerCancel, and removeAll in shutdown.
ListenerExits ==
    /\ ListenerReady
    /\ phase' = IF phase = "draining" THEN "exiting" ELSE "stopping"
    /\ cancelled' = Starting
    /\ shutdownList' = NamesToCleanUp(tracker)
    /\ tracker' = NewRunnerTracker
    /\ granted' = {}
    /\ UNCHANGED <<toStart, pc, cleanVars, abandoned, env, registered, queued,
                   msgVars>>

CleanUpOnShutdown(r) ==
    /\ phase \in {"stopping", "exiting"}
    /\ r \in shutdownList
    /\ shutdownList' = shutdownList \ {r}
    /\ Cleanup(r)
    /\ RemoveGitHubRunner(r)
    /\ UNCHANGED <<scaleVars, phase, tracker, startVars, cleanVars, queued,
                   started>>

\* Run returns an error to the retry loop.
RunReturns ==
    /\ phase = "stopping"
    /\ shutdownList = {}
    /\ phase' = "sleep"
    /\ UNCHANGED <<scaleVars, shutdownList, tracker, startVars, cleanVars,
                   abandoned, env, registered, queued, msgVars>>

\* Run returns after cancellation: the loop ends, Wait returns, and the daemon
\* exits whatever its other goroutines are doing.
DaemonExits ==
    /\ phase = "exiting"
    /\ shutdownList = {}
    /\ phase' = "stopped"
    /\ ForgetVolatileState
    /\ UNCHANGED <<abandoned, env, registered, queued, msgVars>>

\* The daemon is killed.  Environments outlive it.
DaemonDies ==
    /\ phase \notin {"stopped", "dead"}
    /\ phase' = "dead"
    /\ ForgetVolatileState
    /\ UNCHANGED <<abandoned, env, registered, queued, msgVars>>

-----------------------------------------------------------------------------
(* GitHub and the runner processes *)

QueueJob ==
    /\ queued + Cardinality(Employed) < MaxJobs
    /\ queued' = queued + 1
    /\ UNCHANGED <<scaleVars, runVars, tracker, startVars, cleanVars, abandoned,
                   env, registered, msgVars>>

PickUpJob(r) ==
    /\ env[r] = "online"
    /\ r \in registered
    /\ queued > 0
    /\ queued' = queued - 1
    /\ env' = [env EXCEPT ![r] = "job"]
    /\ started' = started \cup {r}
    /\ UNCHANGED <<scaleVars, runVars, tracker, startVars, cleanVars, abandoned,
                   registered, completed>>

\* The runner is ephemeral: its process exits and its record goes.
FinishJob(r) ==
    /\ env[r] = "job"
    /\ env' = [env EXCEPT ![r] = "exited"]
    /\ completed' = completed \cup {r}
    /\ registered' = registered \ {r}
    /\ UNCHANGED <<scaleVars, runVars, tracker, startVars, cleanVars, abandoned,
                   queued, started>>

\* A runner process ends without having had a job.
RunnerExits(r) ==
    /\ env[r] = "online"
    /\ env' = [env EXCEPT ![r] = "exited"]
    /\ UNCHANGED <<scaleVars, runVars, tracker, startVars, cleanVars, abandoned,
                   registered, queued, msgVars>>

\* GitHub forgets a record whose runner is gone.
RegistrationExpires(r) ==
    /\ r \in registered
    /\ env[r] \in {"absent", "exited"}
    /\ pc[r] # "run"
    /\ registered' = registered \ {r}
    /\ UNCHANGED <<scaleVars, runVars, tracker, startVars, cleanVars, abandoned,
                   env, queued, msgVars>>

-----------------------------------------------------------------------------

Listener ==
    \/ \E count \in 0..MaxJobs : HandleDesiredRunnerCount(count)
    \/ \E r \in Runners :
        SpawnRunner(r) \/ HandleJobStarted(r) \/ HandleJobCompleted(r)

Starter(r) ==
    \/ GenerateJitConfig(r) \/ GenerateJitConfigFails(r)
    \/ CreateEnvironment(r) \/ LaunchRunner(r) \/ RunFails(r)
    \/ CleanUpFailedStart(r) \/ RunnerStarted(r)

Janitor ==
    \/ ReapExpiredIdleRunners
    \/ \E r \in Runners :
        IdleTimeoutPasses(r) \/ CleanUpAfterJob(r) \/ CleanUpReaped(r)

RunLoop ==
    \/ StartRun \/ SetupFails \/ BeginListening
    \/ CancelContext \/ ListenerExits \/ RunReturns \/ DaemonExits \/ DaemonDies
    \/ \E r \in Runners : CleanUpOnShutdown(r)

World ==
    \/ QueueJob
    \/ \E r \in Runners :
        PickUpJob(r) \/ FinishJob(r) \/ RunnerExits(r) \/ RegistrationExpires(r)

Next == Listener \/ (\E r \in Runners : Starter(r)) \/ Janitor \/ RunLoop \/ World

Spec == Init /\ [][Next]_vars

(***************************************************************************)
(* Fairness.  Go runs every goroutine that can run, the listener polls for *)
(* ever, tickers fire, and every call of GitHub or of the backend returns, *)
(* with an error or without.  Of the world outside: jobs end, and GitHub   *)
(* lets go of dead records.  The strong conjuncts say that GitHub and the  *)
(* backend do not fail every single time, and that GitHub gives a waiting  *)
(* job to a waiting runner rather than to none for ever: it does so within *)
(* seconds, and the idle timeout is minutes.                               *)
(***************************************************************************)
Assigned == queued + Cardinality(Employed)

ProgramFairness ==
    /\ WF_vars(HandleDesiredRunnerCount(Assigned))
    /\ WF_vars(\E r \in Runners : SpawnRunner(r))
    /\ WF_vars(ReapExpiredIdleRunners)
    /\ \A r \in Runners :
        /\ WF_vars(HandleJobStarted(r))
        /\ WF_vars(HandleJobCompleted(r))
        /\ WF_vars(Starter(r))
        /\ WF_vars(IdleTimeoutPasses(r))
        /\ WF_vars(CleanUpAfterJob(r))
        /\ WF_vars(CleanUpReaped(r))

WorldFairness ==
    /\ \A r \in Runners : WF_vars(FinishJob(r)) /\ WF_vars(RegistrationExpires(r))
    /\ SF_vars(\E r \in Runners : GenerateJitConfig(r))
    /\ SF_vars(\E r \in Runners : CreateEnvironment(r))
    /\ SF_vars(\E r \in Runners : LaunchRunner(r))
    /\ SF_vars(\E r \in Runners : PickUpJob(r))

FairSpec == Spec /\ ProgramFairness /\ WorldFairness

-----------------------------------------------------------------------------
(* Safety *)

\* Who answers for the environment of r: it is in the idle or the busy map, or
\* a goroutine is on its way to removing it or to entering it there, or its
\* removal has failed and the log says so.
Accounted(r) ==
    \/ r \in tracker.idle \cup tracker.busy
    \/ r \in Starting
    \/ r \in jobCleanups \cup reapCleanups \cup shutdownList
    \/ r \in abandoned

\* While the daemon runs and has done its first CleanupAll, no container and no
\* virtual machine is forgotten: whatever order events, failures, timeouts and
\* restarts of Run come in, somebody answers for each (scaler.go, controller.go).
NoForgottenEnvironment ==
    phase \notin {"stopped", "dead"} => \A r \in Present : Accounted(r)

\* A preparing entry always has a starter goroutine that will take it out, so it
\* cannot hold capacity for ever; and an idle entry is in no other map, so idle
\* runners are never counted twice (runnerstate.go, scaler.go).
TrackerConsistent ==
    /\ tracker.preparing \subseteq {r \in Runners : pc[r] \in {"jit", "run", "up"}}
    /\ tracker.idle \cap (tracker.preparing \cup tracker.busy) = {}
    /\ tracker.aged \subseteq tracker.idle

\* The capacity that scaling up has handed out never exceeds max_runners, whatever
\* count GitHub reports and whatever starters and reaper do while the handler
\* runs: two updates do not create the same capacity twice.  A name that comes back
\* after it was taken out is not counted (HandleDesiredRunnerCount, MarkStarting).
GrantsWithinLimit ==
    /\ granted \subseteq Tracked(tracker)
    /\ tracker.preparing \subseteq granted
    /\ Cardinality(granted) + toStart <= MaxRunners

\* While the controller listens, the environment of a runner it knows to be busy
\* is not destroyed under its job: neither the reaper nor a late starter nor a
\* cleanup goroutine touches it, once no decision to reap it is pending and its
\* starter has ended (MarkBusy, removeIdleOlderThan, HandleJobCompleted).
BusyRunnerUndisturbed ==
    [][\A r \in tracker.busy :
        /\ Listening
        /\ env[r] = "job"
        /\ pc[r] = "none"
        /\ r \notin reapCleanups
        => env'[r] # "absent" /\ r \notin reapCleanups']_vars

-----------------------------------------------------------------------------
(* What the documentation says and the code does not keep *)

\* "idle: Runner process is up, waiting for GitHub to assign a job": an idle entry
\* whose runner has a job is one whose JobStarted has not been handled yet.  False:
\* when the message overtakes the starter, MarkIdle takes the runner back from
\* busy to idle, where the reaper will find it (MarkIdle, MarkBusy).
IdleMeansNoKnownJob ==
    phase = "listen" => \A r \in tracker.idle \cap Employed : r \in started

\* The daemon "never goes above max_runners".  False: a runner that the reaper has
\* just taken out may have a job whose JobStarted enters it again, beside the
\* runner that was started in its place (HandleJobStarted, removeIdleOlderThan).
TrackedWithinMaxRunners == Cardinality(Tracked(tracker)) <= MaxRunners

\* "Preparing runners are cancelled via runnerCtx and clean up themselves": when
\* the daemon has exited in order, what is left are environments whose removal
\* failed.  False: nothing waits for the starters, and one that has just launched
\* its runner does not look at the context again (shutdown, startRunner).
ShutdownLeavesNothing == phase = "stopped" => Present \subseteq abandoned

-----------------------------------------------------------------------------
(* Liveness *)

StaysListening == <>[](phase = "listen")

\* Every preparation ends: its name leaves the preparing map (startRunner).
PreparationEnds ==
    \A r \in Runners : r \in tracker.preparing ~> r \notin tracker.preparing

\* An entry whose environment is gone does not hold capacity for ever: events or
\* the idle reaper take it out while the controller goes on listening.
GhostsGiveCapacityBack ==
    StaysListening =>
        \A r \in Runners :
            (r \in Tracked(tracker) /\ env[r] \in {"absent", "exited"})
                ~> (r \notin Tracked(tracker) \/ env[r] \notin {"absent", "exited"})

\* A job that waits is picked up by some runner, while the controller goes on
\* listening and names do not run out: capacity never leaks away.
WaitingJobIsServed ==
    (StaysListening /\ []<>(Fresh # {})) => (queued = MaxJobs ~> queued < MaxJobs)

=============================================================================
