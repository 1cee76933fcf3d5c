---------------------------- MODULE AgentStream ----------------------------
(***************************************************************************)
(* The loops of the cloud agent beside its commands: the command stream    *)
(* with its reconnects (commands.go), and the queue of resource samples    *)
(* that one sender uploads (samples.go).                                   *)
(*                                                                         *)
(* The stream is read by one goroutine; an idle timer cancels a stream on  *)
(* which nothing arrives.  Capture goroutines put samples into the queue   *)
(* and never wait: they look up which runner has the job, a name that the  *)
(* handlers of JobAssigned and JobFinished enter and delete.  The cloud    *)
(* and the network are external, and may refuse a stream, keep it open     *)
(* without a word, or break it.                                            *)
(***************************************************************************)
EXTENDS Integers, Sequences, SequencesExt

CONSTANTS
    CloudJobs,         \* each has a runner of its own
    Unnamed,           \* the empty runner name
    SampleQueueSize,   \* 256
    InitialReconnectDelay, MaxReconnectDelay,  \* 1 s and 30 s
    MaxCloudChanges    \* bound

ASSUME StreamAssumption ==
    /\ Unnamed \notin CloudJobs
    /\ SampleQueueSize \in Nat \ {0}
    /\ InitialReconnectDelay \in Nat \ {0} /\ MaxReconnectDelay \in Nat
    /\ InitialReconnectDelay <= MaxReconnectDelay

VARIABLES
    cloud,       \* "answers", "silent" or "refuses"
    cloudChanges, \* bound
    stream,      \* "closed", "open" or "heard", when a message has arrived on it
    carries,     \* whether the open stream still has the cloud at its other end
    streamUp,
    delay,       \* the next pause of the reconnect loop
    failures,    \* history: attempts in a row without a message, as far as they matter
    jobState,    \* of each job: "placeholder", "named" (the capture writes to the job's id),
                 \* "stopping", "over", or "left" when the wait for its capture was given up
    assigned,    \* history: jobs whose JobAssigned was delivered
    jobRunners,  \* jobs with an entry in the map of that name
    samples      \* the queue: [job, runner]

streamVars == <<cloud, cloudChanges, stream, carries, streamUp, delay, failures, jobState, assigned,
                jobRunners, samples>>
linkVars == <<cloud, cloudChanges, stream, carries, streamUp, delay, failures>>
sampleVars == <<jobState, assigned, jobRunners, samples>>

StreamInit ==
    /\ cloud \in {"answers", "silent", "refuses"} /\ cloudChanges = 0
    /\ stream = "closed" /\ carries = FALSE /\ streamUp = FALSE
    /\ delay = InitialReconnectDelay /\ failures = 0
    /\ jobState = [j \in CloudJobs |-> "placeholder"] /\ assigned = {}
    /\ jobRunners = {} /\ samples = <<>>

-----------------------------------------------------------------------------
(* The command stream.                                                     *)

NextReconnectDelay(current) ==
    IF 2 * current < MaxReconnectDelay THEN 2 * current ELSE MaxReconnectDelay

\* A stream whose cloud has gone away stays mute, also when the cloud is back.
CloudChanges ==
    /\ cloudChanges < MaxCloudChanges
    /\ cloud' \in {"answers", "silent", "refuses"} \ {cloud}
    /\ cloudChanges' = cloudChanges + 1 /\ carries' = FALSE
    /\ UNCHANGED <<stream, streamUp, delay, failures, sampleVars>>

\* The pause is over; the stream is opened, or the call fails and the loop pauses again.
OpenStream ==
    /\ stream = "closed"
    /\ IF cloud = "refuses"
       THEN /\ delay' = NextReconnectDelay(delay)
            /\ failures' = IF delay < MaxReconnectDelay THEN failures + 1 ELSE failures
            /\ UNCHANGED <<stream, carries>>
       ELSE /\ stream' = "open" /\ carries' = (cloud = "answers")
            /\ UNCHANGED <<delay, failures>>
    /\ UNCHANGED <<cloud, cloudChanges, streamUp, sampleVars>>

\* Any message, a keepalive as well.
ReceiveMessage ==
    /\ stream # "closed" /\ carries
    /\ stream' = "heard" /\ streamUp' = TRUE
    /\ UNCHANGED <<cloud, cloudChanges, carries, delay, failures, sampleVars>>

\* A plausible bug: the flag is left as it is when the stream ends.
KeepFlag ==
    /\ stream' = "closed" /\ carries' = FALSE
    /\ delay' = IF stream = "heard" THEN NextReconnectDelay(InitialReconnectDelay)
                ELSE NextReconnectDelay(delay)
    /\ failures' = IF stream = "heard" THEN 1
                   ELSE IF delay < MaxReconnectDelay THEN failures + 1 ELSE failures
    /\ UNCHANGED <<cloud, cloudChanges, streamUp, sampleVars>>

\* watchCommands returns; only a stream on which something arrived resets the delay.
StreamEnds ==
    /\ stream' = "closed" /\ carries' = FALSE /\ streamUp' = FALSE
    /\ delay' = IF stream = "heard" THEN NextReconnectDelay(InitialReconnectDelay)
                ELSE NextReconnectDelay(delay)
    /\ failures' = IF stream = "heard" THEN 1
                   ELSE IF delay < MaxReconnectDelay THEN failures + 1 ELSE failures
    /\ UNCHANGED <<cloud, cloudChanges, sampleVars>>

StreamBreaks == stream # "closed" /\ cloudChanges < MaxCloudChanges /\ StreamEnds

\* A plausible bug: the idle timer starts with the first message.
IdleTimeoutAfterMessage == stream = "heard" /\ ~carries /\ StreamEnds

\* The idle timer cancels a stream on which nothing arrives, from its first second on.
IdleTimeout == stream # "closed" /\ ~carries /\ StreamEnds

-----------------------------------------------------------------------------
(* Samples.                                                                *)

\* A plausible bug: the runner of the job is entered after its record has been attached.
AttachFirst(j) ==
    /\ jobState[j] = "placeholder"
    /\ jobState' = [jobState EXCEPT ![j] = "named"]
    /\ assigned' = assigned \union {j}
    /\ UNCHANGED <<jobRunners, samples, linkVars>>

\* handleJobAssigned: rememberJobRunner ...
RememberJobRunner(j) ==
    /\ jobState[j] = "placeholder"
    /\ jobRunners' = jobRunners \union {j}
    /\ assigned' = assigned \union {j}
    /\ UNCHANGED <<jobState, samples, linkVars>>

\* ... and then AttachJobMetadata, from where on the capture writes to the job's id.
AttachJob(j) ==
    /\ jobState[j] = "placeholder" /\ j \in assigned
    /\ jobState' = [jobState EXCEPT ![j] = "named"]
    /\ UNCHANGED <<assigned, jobRunners, samples, linkVars>>

\* handleJobFinished attaches the job itself when its assignment was lost, and nobody has
\* entered its runner; then it waits for the last sample of the capture.
FinishJob(j) ==
    /\ jobState[j] = "named" \/ (jobState[j] = "placeholder" /\ j \notin assigned)
    /\ jobState' = [jobState EXCEPT ![j] = "stopping"]
    /\ UNCHANGED <<assigned, jobRunners, samples, linkVars>>

\* stopCapture returns when the capture has ended, or after six seconds with the capture
\* still alive; then the job is completed and forgetJobRunner follows.
ForgetJobRunner(j) ==
    /\ jobState[j] = "stopping"
    /\ jobState' \in {[jobState EXCEPT ![j] = "over"], [jobState EXCEPT ![j] = "left"]}
    /\ jobRunners' = jobRunners \ {j}
    /\ UNCHANGED <<assigned, samples, linkVars>>

\* observeSample: a full queue drops the sample.
ObserveSample(j) ==
    /\ jobState[j] \in {"named", "stopping", "left"} /\ Len(samples) < SampleQueueSize
    /\ samples' = Append(samples, [job |-> j, runner |-> IF j \in jobRunners THEN j ELSE Unnamed])
    /\ UNCHANGED <<jobState, assigned, jobRunners, linkVars>>

\* runSampleSender: one upload at a time, and a failed one is not repeated.
SendSample ==
    /\ samples # <<>>
    /\ samples' = Tail(samples)
    /\ UNCHANGED <<jobState, assigned, jobRunners, linkVars>>

StreamNext ==
    \/ CloudChanges \/ OpenStream \/ ReceiveMessage \/ StreamBreaks \/ IdleTimeout
    \/ \E j \in CloudJobs :
           RememberJobRunner(j) \/ AttachJob(j) \/ FinishJob(j) \/ ForgetJobRunner(j)
           \/ ObserveSample(j)
    \/ SendSample

StreamSpec == StreamInit /\ [][StreamNext]_streamVars

-----------------------------------------------------------------------------
(* Connected, which the console shows and which decides whether failures   *)
(* are worth a warning, is true only while a stream is open on which the   *)
(* cloud has spoken, and the pause of the reconnect loop has doubled once  *)
(* for every attempt since without a message (commands.go:32).             *)
ConnectionIsReported ==
    /\ streamUp <=> stream = "heard"
    /\ \A k \in 0..4 : failures = k =>
           delay = IF InitialReconnectDelay * 2^k < MaxReconnectDelay
                   THEN InitialReconnectDelay * 2^k ELSE MaxReconnectDelay

(* A sample in the queue names its runner: the handlers and the captures   *)
(* run side by side, and the cloud cannot attribute a sample without a     *)
(* runner (samples.go:28).  There are two exceptions: a job whose          *)
(* assignment never arrived, and a capture that outlives the six seconds   *)
(* stopCapture waits for it, after which the runner is forgotten           *)
(* (jobs.go:242, commands.go:265).                                         *)
SamplesNameTheirRunner ==
    \A s \in Range(samples) :
        s.runner # Unnamed \/ s.job \notin assigned \/ jobState[s.job] = "left"

(* The agent is connected again some time after the cloud has come back,   *)
(* even if the stream of before is still open and silent                   *)
(* (commands.go:63).                                                       *)
AgentReconnects == (cloud = "answers" /\ cloudChanges = MaxCloudChanges) ~> streamUp
=============================================================================
