----------------------------- MODULE CloudAgent ----------------------------
(***************************************************************************)
(* The command side of cloud mode: internal/cloudagent/commands.go and     *)
(* service.go, on top of the runner tracker and the job store.             *)
(*                                                                         *)
(* StartRunner and the two cleanup commands run in goroutines of their     *)
(* own, so they may pass one another; job messages are handled inline, by  *)
(* the command loop, one after the other.  The cloud may send any command  *)
(* again.  Reports to the cloud change no state of the agent and are left  *)
(* out, and so is what is only shown: runner sets, the job to runner map.  *)
(* All runners are of one set, on one backend.                             *)
(***************************************************************************)
EXTENDS RunnerTracker, JobStore

CONSTANTS
    Slots,       \* bound of the model: StartRunner goroutines of one runner
    MaxCleanups, \* bound of the model: cleanup commands at work at one time
    SetCleaner,  \* the goroutine of CleanupRunnerSet; a runner's own name
                 \* stands for its CleanupRunner goroutine
    Faults       \* what may go wrong here: "restart", "timeout", "database"

ASSUME CloudAgentAssumption ==
    /\ SetCleaner \notin Runners
    /\ MaxCleanups \in Nat
    /\ Faults \subseteq {"restart", "timeout", "database"}

VARIABLES
    known,      \* the map runners
    tracker,    \* the phase book
    start,      \* where each StartRunner goroutine is
    cleaner,    \* the cleanup goroutines
    listener,   \* the job message the command loop is at
    env,        \* container or machine of each runner, and whether a runner process
                \* is in it: online, or at its job
    github,     \* the one job a runner can take
    news,       \* job messages on their way to the agent
    abandoned,  \* environments whose removal failed and was only logged, or that
                \* were there when the daemon restarted
    retired,    \* auxiliary: runners some cleanup command was sent for
    confirmed   \* auxiliary: runners not retired whose start was confirmed since the
                \* daemon started

agentVars == <<known, tracker>>
worldVars == <<env, github, news, abandoned>>
auxVars   == <<retired, confirmed>>
vars == <<storeVars, agentVars, start, cleaner, listener, worldVars, auxVars>>

Cleaners == Runners \cup {SetCleaner}

\* backend.Run has to create the environment, or is about to return; a runner whose
\* start failed or was not confirmed is undone; opening the record is an upsert and
\* then startCapture.
StartSteps == {"none", "create", "return", "undo", "open", "capture"}

Idle     == [step |-> "none", todo |-> {}, at |-> None, awaits |-> None]
Closing(names) == [step |-> "close", todo |-> names, at |-> None, awaits |-> None]
Ready    == [step |-> "ready", runner |-> None, msg |-> None,
             diagnostics |-> FALSE, found |-> None]

TypeOK ==
    /\ JobStoreTypeOK
    /\ known \subseteq Runners
    /\ tracker \in Trackers(Runners)
    /\ start \in [Runners \X Slots -> StartSteps]
    /\ cleaner \in [Cleaners ->
         [step : {"none", "close", "wait"}, todo : SUBSET Runners,
          at : Runners \cup {None}, awaits : Captures \cup {None}]]
    /\ listener \in
         [step : {"ready", "attach", "move", "record", "stop", "wait"},
          runner : Runners \cup {None}, msg : {"assigned", "finished", None},
          diagnostics : BOOLEAN, found : Captures \cup {None}]
    /\ env \in [Runners -> {"absent", "halted", "online", "job"}]
    /\ github \in [Runners -> {"waiting", "running", "over"}]
    /\ news \in [Runners -> SUBSET {"assigned", "finished"}]
    /\ \A names \in {abandoned, retired, confirmed} : names \subseteq Runners

Init ==
    /\ JobStoreInit
    /\ known = {}
    /\ tracker = NewRunnerTracker
    /\ start = [p \in Runners \X Slots |-> "none"]
    /\ cleaner = [k \in Cleaners |-> Idle]
    /\ listener = Ready
    /\ env = [r \in Runners |-> "absent"]
    /\ github = [r \in Runners |-> "waiting"]
    /\ news = [r \in Runners |-> {}]
    /\ abandoned = {} /\ retired = {} /\ confirmed = {}

StartMoves(r, s, from, to) ==
    /\ start[<<r, s>>] = from
    /\ start' = [start EXCEPT ![<<r, s>>] = to]

\* stopCapture waits for a goroutine for six seconds: long enough for one that is
\* cancelled to end, unless "timeout" is among the faults.
CaptureIsOver(c) == "timeout" \in Faults \/ c \notin cancelled

\* Nothing refers to it any more: c can stand for a new goroutine.
FreeCapture(c) ==
    /\ writesTo[c] = None
    /\ \A id \in Ids : handle[id] # c
    /\ \A k \in Cleaners : cleaner[k].awaits # c
    /\ listener.found # c

-----------------------------------------------------------------------------
(* handleStartRunner *)

\* Mutant of TrackRunner: a runner that is known is started again.
TrackRunnerAgain(r, s) ==
    /\ StartMoves(r, s, "none", "create")
    /\ known' = known \cup {r}
    /\ tracker' = MarkStarting(tracker, r)
    /\ UNCHANGED <<storeVars, cleaner, listener, worldVars, auxVars>>

\* The goroutine of a StartRunner, whenever that arrived, gets to trackRunner.  For
\* a runner that is known, and when there is no backend, it only answers.
TrackRunner(r, s) ==
    /\ r \notin known
    /\ StartMoves(r, s, "none", "create")
    /\ known' = known \cup {r}
    /\ tracker' = MarkStarting(tracker, r)
    /\ UNCHANGED <<storeVars, cleaner, listener, worldVars, auxVars>>

\* backend.Run up to the launch of the runner process, or up to where that is not
\* going to come.  A name that is taken lets Run fail.
CreateEnvironment(r, s) ==
    /\ StartMoves(r, s, "create", "return")
    /\ env[r] = "absent"
    /\ \E state \in {"online", "halted"} : env' = [env EXCEPT ![r] = state]
    /\ UNCHANGED <<storeVars, agentVars, cleaner, listener, github, news, abandoned,
                   auxVars>>

\* Mutant of RunFails: the phase of the runner is not removed.
RunFailsKeepingPhase(r, s) ==
    /\ \E step \in {"create", "return"} : StartMoves(r, s, step, "undo")
    /\ known' = known \ {r}
    /\ UNCHANGED <<storeVars, tracker, cleaner, listener, worldVars, auxVars>>

\* Run returns an error; forgetRunner.
RunFails(r, s) ==
    /\ \E step \in {"create", "return"} : StartMoves(r, s, step, "undo")
    /\ known' = known \ {r}
    /\ tracker' = Remove(tracker, r)
    /\ UNCHANGED <<storeVars, cleaner, listener, worldVars, auxVars>>

\* Mutant of ConfirmRunnerStarted: the runner stays, known or not.
ConfirmUnconditionally(r, s) ==
    /\ StartMoves(r, s, "return", "open")
    /\ tracker' = MarkIdle(tracker, r)
    /\ UNCHANGED <<storeVars, known, cleaner, listener, worldVars, auxVars>>

\* confirmRunnerStarted, when Run has returned without error.
ConfirmRunnerStarted(r, s) ==
    /\ IF r \in known
       THEN /\ StartMoves(r, s, "return", "open")
            /\ tracker' = MarkIdle(tracker, r)
            /\ confirmed' = (confirmed \cup {r}) \ retired
       ELSE /\ StartMoves(r, s, "return", "undo")
            /\ UNCHANGED <<tracker, confirmed>>
    /\ UNCHANGED <<storeVars, known, cleaner, listener, worldVars, retired>>

\* backend.Cleanup of a set of runners: each is removed, or the removal fails,
\* perhaps with the machine stopped, and that is only logged.
Removed(names) ==
    /\ \E fate \in [names -> {"absent", "halted", "kept"}] :
         env' = [r \in Runners |->
                   IF r \in names /\ env[r] # "absent" /\ fate[r] # "kept"
                   THEN fate[r] ELSE env[r]]
    /\ abandoned' = {r \in abandoned \cup names : env'[r] # "absent"}
    /\ UNCHANGED <<github, news>>

CleanUpFailedStart(r, s) ==
    /\ StartMoves(r, s, "undo", "none")
    /\ Removed({r})
    /\ UNCHANGED <<storeVars, agentVars, cleaner, listener, auxVars>>

\* OpenProvisionalJob up to the upsert; startCapture only if that succeeds.
OpenProvisionalJob(r, s) ==
    /\ \/ /\ StartMoves(r, s, "open", "capture")
          /\ UpsertStartedJob(Placeholder(r))
       \/ /\ "database" \in Faults
          /\ StartMoves(r, s, "open", "none")
          /\ UNCHANGED record
    /\ UNCHANGED <<captureVars, agentVars, cleaner, listener, worldVars, auxVars>>

CaptureProvisionalJob(r, s, c) ==
    /\ StartMoves(r, s, "capture", "none")
    /\ FreeCapture(c)
    /\ StartCapture(Placeholder(r), c)
    /\ UNCHANGED <<record, agentVars, cleaner, listener, worldVars, auxVars>>

-----------------------------------------------------------------------------
(* handleCleanupRunner and handleCleanupRunnerSet *)

Scope(k) == IF k = SetCleaner THEN Runners ELSE {k}

\* The goroutine of a cleanup command, whenever that arrived.  forgetRunner takes
\* any name out of the tracker, forgetRunnerSet the known ones.
ForgetRunners(k) ==
    LET gone == IF k = SetCleaner THEN known ELSE {k}
    IN  /\ cleaner[k] = Idle
        /\ Cardinality({j \in Cleaners : cleaner[j] # Idle}) < MaxCleanups
        /\ cleaner' = [cleaner EXCEPT ![k] = Closing(gone)]
        /\ known' = known \ gone
        /\ tracker' = [phase \in DOMAIN tracker |-> tracker[phase] \ gone]
        /\ retired' = retired \cup Scope(k)
        /\ confirmed' = confirmed \ Scope(k)
        /\ UNCHANGED <<storeVars, start, listener, worldVars>>

\* CloseProvisionalJob: stopCapture, then the row.
StopProvisionalCapture(k) ==
    /\ cleaner[k].step = "close"
    /\ \E r \in cleaner[k].todo :
         /\ StopCapture(Placeholder(r))
         /\ cleaner' = [cleaner EXCEPT ![k] =
              [step |-> "wait", todo |-> @.todo \ {r}, at |-> r,
               awaits |-> handle[Placeholder(r)]]]
    /\ UNCHANGED <<agentVars, start, listener, worldVars, auxVars>>

CloseProvisionalJob(k) ==
    /\ cleaner[k].step = "wait"
    /\ CaptureIsOver(cleaner[k].awaits)
    /\ \/ CloseRunningJob(Placeholder(cleaner[k].at))
       \/ "database" \in Faults /\ UNCHANGED record
    /\ cleaner' = [cleaner EXCEPT ![k] = Closing(@.todo)]
    /\ UNCHANGED <<captureVars, agentVars, start, listener, worldVars, auxVars>>

\* Cleanup, or CleanupAll with the prefix of the set.
RemoveRunners(k) ==
    /\ cleaner[k].step = "close" /\ cleaner[k].todo = {}
    /\ Removed(Scope(k))
    /\ cleaner' = [cleaner EXCEPT ![k] = Idle]
    /\ UNCHANGED <<storeVars, agentVars, start, listener, auxVars>>

-----------------------------------------------------------------------------
(* handleJobAssigned and handleJobFinished *)

\* The command loop takes the next message when it has handled the last.  Messages
\* of one job come in order, but each may be lost while the stream is down: one that
\* is lost stays where it is.
Receive(r, msg, diagnostics) ==
    /\ listener = Ready
    /\ msg \in news[r]
    /\ news' = [news EXCEPT ![r] = IF msg = "assigned" THEN @ \ {msg} ELSE {}]
    /\ listener' = [step |-> "attach", runner |-> r, msg |-> msg,
                    diagnostics |-> diagnostics, found |-> None]
    /\ UNCHANGED <<storeVars, known, start, cleaner, env, github, abandoned,
                   auxVars>>

\* diagnosticsFor: a backend that was never used since the restart is not found.
ReceiveJobAssigned(r) ==
    /\ tracker' = MarkBusy(tracker, r)
    /\ \E diagnostics \in IF r \in known THEN {TRUE} ELSE BOOLEAN :
         Receive(r, "assigned", diagnostics)

ReceiveJobFinished(r) ==
    /\ tracker' = MarkIdle(tracker, r)
    /\ Receive(r, "finished", FALSE)

ListenerGoesTo(step, c) ==
    listener' = IF step = "ready" THEN Ready
                ELSE [step |-> step, runner |-> listener.runner, msg |-> listener.msg,
                      diagnostics |-> listener.diagnostics, found |-> c]

WhenNotAttached == IF listener.msg = "assigned" THEN "record" ELSE "stop"
WhenAttached    == IF listener.msg = "assigned" THEN "ready" ELSE "stop"

\* AttachJobMetadata up to lookupCapture.
FindProvisionalJob ==
    LET id == Placeholder(listener.runner)
    IN  /\ listener.step = "attach"
        /\ \/ record[id] = "running" /\ ListenerGoesTo("move", handle[id])
           \/ record[id] # "running" /\ ListenerGoesTo(WhenNotAttached, None)
           \/ "database" \in Faults /\ ListenerGoesTo(WhenNotAttached, None)
        /\ UNCHANGED <<storeVars, agentVars, start, cleaner, worldVars, auxVars>>

\* The rest of it.  Only the command loop touches what is under a real job id, so
\* startCapture needs no step of its own.
AttachJobMetadata ==
    LET r == listener.runner
    IN  /\ listener.step = "move"
        /\ MoveJobSucceeds(r)
        /\ IF listener.found # None \/ ~listener.diagnostics
           THEN MoveJob(r, listener.found)
           ELSE \E c \in Captures : FreeCapture(c) /\ MoveJobAndCapture(r, c)
        /\ ListenerGoesTo(WhenAttached, None)
        /\ UNCHANGED <<agentVars, start, cleaner, worldVars, auxVars>>

\* moveJob fails, and its transaction is rolled back.
AttachFails ==
    /\ listener.step = "move"
    /\ ~MoveJobSucceeds(listener.runner) \/ "database" \in Faults
    /\ ListenerGoesTo(WhenNotAttached, None)
    /\ UNCHANGED <<storeVars, agentVars, start, cleaner, worldVars, auxVars>>

\* RecordJobMessageStarted.
RecordJobStarted ==
    LET id == JobOf(listener.runner)
    IN  /\ listener.step = "record"
        /\ \/ /\ UpsertStartedJob(id)
              /\ IF listener.diagnostics
                 THEN \E c \in Captures : FreeCapture(c) /\ StartCapture(id, c)
                 ELSE UNCHANGED captureVars
           \/ "database" \in Faults /\ UNCHANGED <<record, captureVars>>
        /\ ListenerGoesTo("ready", None)
        /\ UNCHANGED <<agentVars, start, cleaner, worldVars, auxVars>>

\* RecordJobMessageCompleted: stopCapture, then the row.
StopJobCapture ==
    /\ listener.step = "stop"
    /\ StopCapture(JobOf(listener.runner))
    /\ ListenerGoesTo("wait", handle[JobOf(listener.runner)])
    /\ UNCHANGED <<agentVars, start, cleaner, worldVars, auxVars>>

\* Mutant of RecordJobCompleted: the provisional record is completed in place.
CompleteProvisionalRecord ==
    /\ listener.step = "wait"
    /\ CaptureIsOver(listener.found)
    /\ RecordCompleted(Placeholder(listener.runner))
    /\ ListenerGoesTo("ready", None)
    /\ UNCHANGED <<captureVars, agentVars, start, cleaner, worldVars, auxVars>>

RecordJobCompleted ==
    /\ listener.step = "wait"
    /\ CaptureIsOver(listener.found)
    /\ \/ RecordCompleted(JobOf(listener.runner))
       \/ "database" \in Faults /\ UNCHANGED record
    /\ ListenerGoesTo("ready", None)
    /\ UNCHANGED <<captureVars, agentVars, start, cleaner, worldVars, auxVars>>

-----------------------------------------------------------------------------
(* The runner, GitHub, the cloud and the daemon *)

\* The process exits.  One that comes up after its job was run finds none.
RunnerExits(r) ==
    /\ env[r] \in {"online", "job"}
    /\ env' = [env EXCEPT ![r] = "halted"]
    /\ UNCHANGED <<storeVars, agentVars, start, cleaner, listener, github, news,
                   abandoned, auxVars>>

TakeJob(r) ==
    /\ env[r] = "online" /\ github[r] = "waiting"
    /\ env' = [env EXCEPT ![r] = "job"]
    /\ github' = [github EXCEPT ![r] = "running"]
    /\ news' = [news EXCEPT ![r] = {"assigned"}]
    /\ UNCHANGED <<storeVars, agentVars, start, cleaner, listener, abandoned, auxVars>>

JobEnds(r) ==
    /\ env[r] # "job" /\ github[r] = "running"
    /\ github' = [github EXCEPT ![r] = "over"]
    /\ news' = [news EXCEPT ![r] = @ \cup {"finished"}]
    /\ UNCHANGED <<storeVars, agentVars, start, cleaner, listener, env, abandoned,
                   auxVars>>

\* Everything but the database and the environments is gone.
Restart ==
    /\ "restart" \in Faults
    /\ abandoned' = {r \in Runners : env[r] # "absent"}
    /\ confirmed' = {}
    /\ known' = {}
    /\ tracker' = NewRunnerTracker
    /\ start' = [p \in Runners \X Slots |-> "none"]
    /\ cleaner' = [k \in Cleaners |-> Idle]
    /\ listener' = Ready
    /\ NoCaptures
    /\ UNCHANGED <<record, env, github, news, retired>>

StartStep(r, s) ==
    \/ TrackRunner(r, s) \/ CreateEnvironment(r, s)
    \/ RunFails(r, s) \/ ConfirmRunnerStarted(r, s)
    \/ CleanUpFailedStart(r, s) \/ OpenProvisionalJob(r, s)
    \/ \E c \in Captures : CaptureProvisionalJob(r, s, c)

CleanupStep(k) ==
    \/ ForgetRunners(k) \/ StopProvisionalCapture(k)
    \/ CloseProvisionalJob(k) \/ RemoveRunners(k)

ListenerStep ==
    \/ \E r \in Runners : ReceiveJobAssigned(r) \/ ReceiveJobFinished(r)
    \/ FindProvisionalJob \/ AttachJobMetadata \/ AttachFails
    \/ RecordJobStarted \/ StopJobCapture \/ RecordJobCompleted

CaptureStep(c) ==
    /\ CaptureEnds(c)
    /\ UNCHANGED <<agentVars, start, cleaner, listener, worldVars, auxVars>>

WorldStep(r) == RunnerExits(r) \/ TakeJob(r) \/ JobEnds(r)

Next ==
    \/ \E r \in Runners, s \in Slots : StartStep(r, s)
    \/ \E k \in Cleaners : CleanupStep(k)
    \/ ListenerStep
    \/ \E c \in Captures : CaptureStep(c)
    \/ \E r \in Runners : WorldStep(r)
    \/ Restart

Spec == Init /\ [][Next]_vars

-----------------------------------------------------------------------------
(* Properties *)

\* Every container or machine is known to the agent, or a goroutine is going to
\* remove it, or its failed removal was logged, or it was there when the daemon
\* restarted: confirmRunnerStarted and the order of the cleanup handlers.
NoForgottenEnvironment ==
    \A r \in Runners :
        env[r] # "absent" =>
            \/ r \in known \cup abandoned
            \/ \E s \in Slots : start[<<r, s>>] \in {"return", "undo"}
            \/ \E k \in Cleaners : r \in Scope(k) /\ cleaner[k].step \in {"close", "wait"}

\* The two books agree: what is known has a phase, which runnerState relies on,
\* and what is preparing is known and has a goroutine that will end it; otherwise
\* every further StartRunner would wait for a first attempt that is not there.
TrackerFollowsKnown ==
    /\ known \subseteq Tracked(tracker)
    /\ \A r \in tracker.preparing :
         /\ r \in known
         /\ \E s \in Slots : start[<<r, s>>] \in {"create", "return"}

\* What records a job's logs and samples has been told to stop before the job's
\* record is completed, whichever record it began under: stopCapture.
CompletedJobHasNoCapture ==
    \A r \in Runners, c \in Captures :
        record[JobOf(r)] = "completed" => ~(Running(c) /\ writesTo[c] = JobOf(r))

\* A runner whose start was confirmed stays known, and is there, until a cleanup
\* command comes or the daemon restarts, however often StartRunner is sent again;
\* except that an earlier attempt that failed may still remove it: trackRunner,
\* confirmRunnerStarted.
ConfirmedRunnerKept ==
    [][\A r \in confirmed \cap confirmed' :
          /\ r \in known'
          /\ \/ env[r] = "absent" \/ env'[r] # "absent"
             \/ \E s \in Slots : start[<<r, s>>] = "undo"]_vars

\* "A command the cloud sends again for a runner that is already up is answered
\* again without starting anything" (commands.go:121).
ResendStartsNothing ==
    [][\A r \in Runners \ retired :
          /\ env[r] \in {"online", "job"}
          /\ \A s \in Slots : start[<<r, s>>] = "none"
          => \A s \in Slots : start'[<<r, s>>] # "create"]_vars

\* "no row is written under the old id after the move" (jobs.go:69): no goroutine
\* writes to a placeholder id that has no record.
CaptureMovesWithTheRecord ==
    \A r \in Runners, c \in Captures :
        writesTo[c] = Placeholder(r) => record[Placeholder(r)] # "none"

=============================================================================
