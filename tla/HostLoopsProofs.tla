--------------------------- MODULE HostLoopsProofs ---------------------------
(***************************************************************************)
(* What holds of the Tart backend (TartHost) for every number of machines  *)
(* and places and every deadline, and of the cloud agent's stream and      *)
(* sample queue (AgentStream) for every set of jobs and size of the queue. *)
(***************************************************************************)
EXTENDS TartHost, AgentStream, TLAPS

-----------------------------------------------------------------------------
(* The Tart backend *)

RunPlaces == {"idle", "pull", "clone", "boot", "address", "pause", "version", "ssh?", "probe",
              "launched", "failed", "stopped", "cleaned"}

Runs == [pc : RunPlaces, left : Nat, backoff : Nat, pause : Nat]

TartTypeOK ==
    /\ vm \in [Machines -> {"none", "stopped", "up"}]
    /\ process \in [Machines -> {"none", "alive", "full", "over"}]
    /\ run \in [Machines -> Runs]
    /\ image \in {"missing", "local"}
    /\ version \in {"unasked", "known", "empty"}
    /\ undeleted \subseteq Machines

\* The wait of a loop and its pause stay natural numbers, whichever step the run takes.
LEMMA RunGoesOn ==
    ASSUME TartTypeOK, NEW m \in Machines
    PROVE  /\ \A pc \in RunPlaces : [NoRun EXCEPT !.pc = pc] \in Runs
           /\ run[m] \in Runs
           /\ \A a \in Nat, b \in Nat : LeastOf(a, b) \in Nat
           /\ 2 * run[m].backoff \in Nat
           /\ CapacityMaxWait \in Nat /\ CapacityInitialBackoff \in Nat
           /\ CapacityMaxBackoff \in Nat
           /\ SshReadyMaxWait \in Nat /\ SshReadyInitialBackoff \in Nat
           /\ SshReadyMaxBackoff \in Nat
  BY TartAssumption DEF TartTypeOK, Runs, NoRun, LeastOf

\* No step of one machine changes the run of another, and none leaves the types.
LEMMA TartTypesAreKept ==
    ASSUME TartTypeOK, [TartNext]_tartVars
    PROVE  TartTypeOK'
  <1>1. ASSUME NEW m \in Machines, FindImage(m)
        PROVE  TartTypeOK'
    <2>1. run' \in [Machines -> Runs]
      BY <1>1, RunGoesOn DEF FindImage, Goto, RunPlaces, TartTypeOK
    <2>2. QED
      BY <1>1, <2>1 DEF FindImage, TartTypeOK
  <1>2. ASSUME NEW m \in Machines, PullImage(m)
        PROVE  TartTypeOK'
    <2>1. run' \in [Machines -> Runs]
      BY <1>2, RunGoesOn DEF PullImage, Goto, RunPlaces, TartTypeOK
    <2>2. QED
      BY <1>2, <2>1 DEF PullImage, TartTypeOK
  <1>3. ASSUME NEW m \in Machines, CloneImage(m)
        PROVE  TartTypeOK'
    <2>1. [NoRun EXCEPT !.pc = "boot", !.left = CapacityMaxWait,
                        !.backoff = CapacityInitialBackoff] \in Runs
      <3>1. CapacityMaxWait \in Nat /\ CapacityInitialBackoff \in Nat
        BY TartAssumption
      <3>2. QED
        BY <3>1 DEF NoRun, Runs, RunPlaces
    <2>2. run' \in [Machines -> Runs]
      BY <1>3, <2>1, RunGoesOn DEF CloneImage, Goto, RunPlaces, TartTypeOK
    <2>3. QED
      BY <1>3, <2>2 DEF CloneImage, TartTypeOK
  <1>4. ASSUME NEW m \in Machines, StartVM(m)
        PROVE  TartTypeOK'
    <2>1. run' \in [Machines -> Runs]
      BY <1>4, RunGoesOn, SMTT(30) DEF StartVM, Runs, RunPlaces, TartTypeOK
    <2>2. QED
      BY <1>4, <2>1 DEF StartVM, TartTypeOK
  <1>5. ASSUME NEW m \in Machines, AddressFound(m)
        PROVE  TartTypeOK'
    <2>1. run' \in [Machines -> Runs]
      BY <1>5, RunGoesOn DEF AddressFound, Goto, RunPlaces, TartTypeOK
    <2>2. QED
      BY <1>5, <2>1 DEF AddressFound, TartTypeOK
  <1>6. ASSUME NEW m \in Machines, WaitForCapacity(m)
        PROVE  TartTypeOK'
    <2>1. LeastOf(run[m].backoff, run[m].left) \in Nat
      BY RunGoesOn DEF Runs
    <2>2. run' \in [Machines -> Runs]
      BY <1>6, <2>1, ZenonT(30) DEF WaitForCapacity, Runs, RunPlaces, TartTypeOK
    <2>3. QED
      BY <1>6, <2>2 DEF WaitForCapacity, TartTypeOK
  <1>7. ASSUME NEW m \in Machines, BootAgain(m)
        PROVE  TartTypeOK'
    <2>1. LeastOf(2 * run[m].backoff, CapacityMaxBackoff) \in Nat
      BY RunGoesOn DEF Runs
    <2>2. run' \in [Machines -> Runs]
      BY <1>7, <2>1, ZenonT(30) DEF BootAgain, Runs, RunPlaces, TartTypeOK
    <2>3. QED
      BY <1>7, <2>2 DEF BootAgain, TartTypeOK
  <1>8. ASSUME NEW m \in Machines, ResolveVersion(m)
        PROVE  TartTypeOK'
    <2>1. run' \in [Machines -> Runs]
      BY <1>8, RunGoesOn DEF ResolveVersion, Goto, RunPlaces, TartTypeOK
    <2>2. QED
      BY <1>8, <2>1 DEF ResolveVersion, TartTypeOK
  <1>9. ASSUME NEW m \in Machines, WaitForSSH(m)
        PROVE  TartTypeOK'
    <2>1. run' \in [Machines -> Runs]
      BY <1>9, RunGoesOn DEF WaitForSSH, Runs, RunPlaces, TartTypeOK
    <2>2. QED
      BY <1>9, <2>1 DEF WaitForSSH, TartTypeOK
  <1>10. ASSUME NEW m \in Machines, ProbeFails(m)
         PROVE  TartTypeOK'
    <2>1. LeastOf(2 * run[m].backoff, SshReadyMaxBackoff) \in Nat
      BY RunGoesOn DEF Runs
    <2>2. run' \in [Machines -> Runs]
      BY <1>10, <2>1, ZenonT(30) DEF ProbeFails, Runs, RunPlaces, TartTypeOK
    <2>3. QED
      BY <1>10, <2>2 DEF ProbeFails, TartTypeOK
  <1>11. ASSUME NEW m \in Machines, LaunchRunner(m)
         PROVE  TartTypeOK'
    <2>1. run' \in [Machines -> Runs]
      BY <1>11, RunGoesOn DEF LaunchRunner, Goto, RunPlaces, TartTypeOK
    <2>2. QED
      BY <1>11, <2>1 DEF LaunchRunner, TartTypeOK
  <1>12. ASSUME NEW m \in Machines, RunFails(m)
         PROVE  TartTypeOK'
    <2>1. run' \in [Machines -> Runs]
      BY <1>12, RunGoesOn DEF RunFails, Goto, RunPlaces, TartTypeOK
    <2>2. QED
      BY <1>12, <2>1 DEF RunFails, TartTypeOK
  <1>13. ASSUME NEW m \in Machines, RunCancelled(m)
         PROVE  TartTypeOK'
    <2>1. run' \in [Machines -> Runs]
      BY <1>13, RunGoesOn DEF RunCancelled, Goto, RunPlaces, TartTypeOK
    <2>2. QED
      BY <1>13, <2>1 DEF RunCancelled, TartTypeOK
  <1>14. ASSUME NEW m \in Machines, StopMachine(m)
         PROVE  TartTypeOK'
    <2>1. run' \in [Machines -> Runs]
      BY <1>14, RunGoesOn DEF StopMachine, Goto, RunPlaces, TartTypeOK
    <2>2. QED
      BY <1>14, <2>1 DEF StopMachine, TartTypeOK
  <1>15. ASSUME NEW m \in Machines, DeleteMachine(m)
         PROVE  TartTypeOK'
    <2>1. run' \in [Machines -> Runs]
      BY <1>15, RunGoesOn DEF DeleteMachine, Goto, RunPlaces, TartTypeOK
    <2>2. QED
      BY <1>15, <2>1 DEF DeleteMachine, TartTypeOK
  <1>16. ASSUME NEW m \in Machines, MachineDies(m)
         PROVE  TartTypeOK'
    BY <1>16 DEF MachineDies, TartTypeOK
  <1>17. ASSUME TartTick PROVE TartTypeOK'
    <2>1. ASSUME NEW m \in Machines
          PROVE  [run[m] EXCEPT !.left = CountDown(run[m].left),
                                !.pause = CountDown(run[m].pause)] \in Runs
      <3>1. run[m].left \in Nat /\ run[m].pause \in Nat
        BY DEF TartTypeOK, Runs
      <3>2. CountDown(run[m].left) \in Nat /\ CountDown(run[m].pause) \in Nat
        BY <3>1 DEF CountDown
      <3>3. QED
        BY <3>2 DEF TartTypeOK, Runs
    <2>2. run' \in [Machines -> Runs]
      BY <1>17, <2>1 DEF TartTick
    <2>3. QED
      BY <1>17, <2>2 DEF TartTick, TartTypeOK
  <1>18. CASE UNCHANGED tartVars
    BY <1>18 DEF tartVars, TartTypeOK
  <1>19. QED
    BY <1>1, <1>2, <1>3, <1>4, <1>5, <1>6, <1>7, <1>8, <1>9, <1>10, <1>11, <1>12, <1>13,
       <1>14, <1>15, <1>16, <1>17, <1>18
    DEF TartNext, RunStep

\* Only Cleanup takes a run to its end, and with it goes the machine, unless tart has
\* refused; no run begins on a machine that is there.
LEMMA CleaningIsKept ==
    ASSUME TartTypeOK, CleanedMachinesAreGone, [TartNext]_tartVars
    PROVE  CleanedMachinesAreGone'
  <1>1. ASSUME NEW m \in Machines, FindImage(m)
        PROVE  CleanedMachinesAreGone'
    BY <1>1 DEF FindImage, NoRun, Goto, CleanedMachinesAreGone, TartTypeOK
  <1>2. ASSUME NEW m \in Machines, PullImage(m)
        PROVE  CleanedMachinesAreGone'
    BY <1>2 DEF PullImage, NoRun, Goto, CleanedMachinesAreGone, TartTypeOK
  <1>3. ASSUME NEW m \in Machines, CloneImage(m)
        PROVE  CleanedMachinesAreGone'
    <2>1. run'[m].pc # "cleaned"
      BY <1>3 DEF CloneImage, NoRun, Goto, TartTypeOK
    <2>2. \A other \in Machines \ {m} : run'[other] = run[other] /\ vm'[other] = vm[other]
      BY <1>3 DEF CloneImage, Goto, TartTypeOK
    <2>3. UNCHANGED undeleted
      BY <1>3 DEF CloneImage
    <2>4. QED
      BY <2>1, <2>2, <2>3 DEF CleanedMachinesAreGone
  <1>4. ASSUME NEW m \in Machines, StartVM(m)
        PROVE  CleanedMachinesAreGone'
    BY <1>4 DEF StartVM, CleanedMachinesAreGone, TartTypeOK, Runs
  <1>5. ASSUME NEW m \in Machines, AddressFound(m)
        PROVE  CleanedMachinesAreGone'
    BY <1>5 DEF AddressFound, NoRun, Goto, CleanedMachinesAreGone, TartTypeOK
  <1>6. ASSUME NEW m \in Machines, WaitForCapacity(m)
        PROVE  CleanedMachinesAreGone'
    BY <1>6 DEF WaitForCapacity, CleanedMachinesAreGone, TartTypeOK, Runs
  <1>7. ASSUME NEW m \in Machines, BootAgain(m)
        PROVE  CleanedMachinesAreGone'
    BY <1>7 DEF BootAgain, CleanedMachinesAreGone, TartTypeOK, Runs
  <1>8. ASSUME NEW m \in Machines, ResolveVersion(m)
        PROVE  CleanedMachinesAreGone'
    BY <1>8 DEF ResolveVersion, NoRun, Goto, CleanedMachinesAreGone, TartTypeOK
  <1>9. ASSUME NEW m \in Machines, WaitForSSH(m)
        PROVE  CleanedMachinesAreGone'
    BY <1>9 DEF WaitForSSH, CleanedMachinesAreGone, TartTypeOK, Runs
  <1>10. ASSUME NEW m \in Machines, ProbeFails(m)
         PROVE  CleanedMachinesAreGone'
    BY <1>10 DEF ProbeFails, CleanedMachinesAreGone, TartTypeOK, Runs
  <1>11. ASSUME NEW m \in Machines, LaunchRunner(m)
         PROVE  CleanedMachinesAreGone'
    BY <1>11 DEF LaunchRunner, NoRun, Goto, CleanedMachinesAreGone, TartTypeOK
  <1>12. ASSUME NEW m \in Machines, RunFails(m)
         PROVE  CleanedMachinesAreGone'
    BY <1>12 DEF RunFails, NoRun, Goto, CleanedMachinesAreGone, TartTypeOK
  <1>13. ASSUME NEW m \in Machines, RunCancelled(m)
         PROVE  CleanedMachinesAreGone'
    BY <1>13 DEF RunCancelled, NoRun, Goto, CleanedMachinesAreGone, TartTypeOK
  <1>14. ASSUME NEW m \in Machines, StopMachine(m)
         PROVE  CleanedMachinesAreGone'
    BY <1>14 DEF StopMachine, NoRun, Goto, CleanedMachinesAreGone, TartTypeOK
  <1>15. ASSUME NEW m \in Machines, DeleteMachine(m)
         PROVE  CleanedMachinesAreGone'
    BY <1>15 DEF DeleteMachine, NoRun, Goto, CleanedMachinesAreGone, TartTypeOK
  <1>16. ASSUME NEW m \in Machines, MachineDies(m)
         PROVE  CleanedMachinesAreGone'
    BY <1>16 DEF MachineDies, CleanedMachinesAreGone, TartTypeOK
  <1>17. ASSUME TartTick PROVE CleanedMachinesAreGone'
    <2>1. \A m \in Machines : run'[m].pc = run[m].pc
      BY <1>17 DEF TartTick, TartTypeOK, Runs
    <2>2. QED
      BY <1>17, <2>1 DEF TartTick, CleanedMachinesAreGone
  <1>18. CASE UNCHANGED tartVars
    BY <1>18 DEF tartVars, CleanedMachinesAreGone
  <1>19. QED
    BY <1>1, <1>2, <1>3, <1>4, <1>5, <1>6, <1>7, <1>8, <1>9, <1>10, <1>11, <1>12, <1>13,
       <1>14, <1>15, <1>16, <1>17, <1>18
    DEF TartNext, RunStep

(* A machine that Cleanup has left behind is one that tart itself refused  *)
(* to delete, however many machines compete for the places and whatever    *)
(* fails or dies on the way (tart.go:172).                                 *)
THEOREM CleanedAreGone == TartSpec => []CleanedMachinesAreGone
  <1> DEFINE Inv == TartTypeOK /\ CleanedMachinesAreGone
  <1>1. TartInit => Inv
    <2> SUFFICES ASSUME TartInit PROVE Inv
      OBVIOUS
    <2>1. NoRun \in Runs /\ NoRun.pc # "cleaned"
      BY DEF NoRun, Runs, RunPlaces
    <2>2. QED
      BY <2>1 DEF TartInit, TartTypeOK, CleanedMachinesAreGone
  <1>2. Inv /\ [TartNext]_tartVars => Inv'
    BY TartTypesAreKept, CleaningIsKept
  <1>3. Inv => CleanedMachinesAreGone
    OBVIOUS
  <1> HIDE DEF Inv
  <1>4. QED
    BY <1>1, <1>2, <1>3, PTL DEF TartSpec

-----------------------------------------------------------------------------
(* The command stream *)

\* The pause after some attempts in a row without a message.
PauseAfter(k) ==
    IF InitialReconnectDelay * 2^k < MaxReconnectDelay THEN InitialReconnectDelay * 2^k
    ELSE MaxReconnectDelay

DelayTypeOK ==
    /\ stream \in {"closed", "open", "heard"}
    /\ streamUp \in BOOLEAN
    /\ failures \in Nat /\ delay \in Nat

\* An attempt without a message doubles the pause, up to its limit.
LEMMA PauseDoubles ==
    ASSUME NEW k \in 0..3
    PROVE  NextReconnectDelay(PauseAfter(k)) = PauseAfter(k + 1)
  <1>1. /\ InitialReconnectDelay \in Nat /\ MaxReconnectDelay \in Nat
        /\ MaxReconnectDelay > 0
    BY StreamAssumption
  <1>2. 2^0 = 1 /\ 2^1 = 2 /\ 2^2 = 4 /\ 2^3 = 8 /\ 2^4 = 16
    OBVIOUS
  <1>3. CASE k = 0
    BY <1>1, <1>2, <1>3 DEF NextReconnectDelay, PauseAfter
  <1>4. CASE k = 1
    BY <1>1, <1>2, <1>4 DEF NextReconnectDelay, PauseAfter
  <1>5. CASE k = 2
    BY <1>1, <1>2, <1>5 DEF NextReconnectDelay, PauseAfter
  <1>6. CASE k = 3
    BY <1>1, <1>2, <1>6 DEF NextReconnectDelay, PauseAfter
  <1>7. QED
    BY <1>3, <1>4, <1>5, <1>6

\* At the limit it stays.
LEMMA PauseIsBounded ==
    /\ PauseAfter(0) = InitialReconnectDelay
    /\ NextReconnectDelay(InitialReconnectDelay) = PauseAfter(1)
    /\ NextReconnectDelay(MaxReconnectDelay) = MaxReconnectDelay
    /\ \A d \in Nat : NextReconnectDelay(d) \in Nat /\ NextReconnectDelay(d) <= MaxReconnectDelay
  <1>1. 2^0 = 1 /\ 2^1 = 2
    OBVIOUS
  <1>2. QED
    BY <1>1, StreamAssumption DEF PauseAfter, NextReconnectDelay

\* An attempt that fails, or a stream that ends before a message, counts and doubles.
LEMMA FailureDoubles ==
    ASSUME DelayTypeOK, ConnectionIsReported, delay <= MaxReconnectDelay,
           NEW count, count = IF delay < MaxReconnectDelay THEN failures + 1 ELSE failures,
           NEW k \in 0..4, count = k
    PROVE  NextReconnectDelay(delay) = PauseAfter(k)
  <1>1. delay \in Nat /\ failures \in Nat /\ MaxReconnectDelay \in Nat
    BY StreamAssumption DEF DelayTypeOK
  <1>2. \A i \in 0..4 : failures = i => delay = PauseAfter(i)
    BY DEF ConnectionIsReported, PauseAfter
  <1>3. CASE delay < MaxReconnectDelay
    <2>1. k - 1 \in 0..3 /\ failures = k - 1
      BY <1>1, <1>3
    <2>2. delay = PauseAfter(k - 1)
      BY <1>2, <2>1
    <2>3. NextReconnectDelay(PauseAfter(k - 1)) = PauseAfter(k - 1 + 1)
      BY <2>1, PauseDoubles
    <2>4. QED
      BY <2>2, <2>3
  <1>4. CASE delay = MaxReconnectDelay
    <2>1. delay = PauseAfter(k)
      BY <1>1, <1>2, <1>4
    <2>2. QED
      BY <1>4, <2>1, PauseIsBounded
  <1>5. QED
    BY <1>1, <1>3, <1>4

ConnectionInv == DelayTypeOK /\ delay <= MaxReconnectDelay /\ ConnectionIsReported

(* Connected is shown only while a stream is open on which the cloud has   *)
(* spoken, and the pause has doubled once for every attempt since without  *)
(* a message, whatever the two delays are (commands.go:32).                *)
THEOREM ReportIsTrue == StreamSpec => []ConnectionIsReported
  <1>1. StreamInit => ConnectionInv
    <2> SUFFICES ASSUME StreamInit PROVE ConnectionInv
      OBVIOUS
    <2>1. DelayTypeOK /\ delay <= MaxReconnectDelay
      BY StreamAssumption DEF StreamInit, DelayTypeOK
    <2>2. failures = 0 /\ delay = PauseAfter(0)
      BY PauseIsBounded DEF StreamInit
    <2>3. \A k \in 0..4 : failures = k => delay = PauseAfter(k)
      BY <2>2
    <2>4. QED
      BY <2>1, <2>3 DEF StreamInit, ConnectionInv, ConnectionIsReported, PauseAfter
  <1>2. ConnectionInv /\ [StreamNext]_streamVars => ConnectionInv'
    <2> SUFFICES ASSUME ConnectionInv, [StreamNext]_streamVars PROVE ConnectionInv'
      OBVIOUS
    <2> USE DEF ConnectionInv
    <2>1. ASSUME UNCHANGED <<stream, streamUp, delay, failures>>
          PROVE  ConnectionInv'
      BY <2>1 DEF DelayTypeOK, ConnectionIsReported
    <2>2. ASSUME delay' = NextReconnectDelay(delay),
                 failures' = (IF delay < MaxReconnectDelay THEN failures + 1 ELSE failures)
          PROVE  /\ delay' \in Nat /\ failures' \in Nat /\ delay' <= MaxReconnectDelay
                 /\ \A k \in 0..4 : failures' = k => delay' = PauseAfter(k)
      <3>1. \A k \in 0..4 : failures' = k => delay' = PauseAfter(k)
        BY <2>2, FailureDoubles
      <3>2. QED
        BY <2>2, <3>1, PauseIsBounded DEF DelayTypeOK
    <2>3. CASE OpenStream
      <3>1. CASE cloud = "refuses"
        BY <2>2, <2>3, <3>1 DEF OpenStream, DelayTypeOK, ConnectionIsReported, PauseAfter
      <3>2. CASE cloud # "refuses"
        BY <2>3, <3>2 DEF OpenStream, DelayTypeOK, ConnectionIsReported
      <3>3. QED
        BY <3>1, <3>2
    <2>4. CASE ReceiveMessage
      BY <2>4 DEF ReceiveMessage, DelayTypeOK, ConnectionIsReported
    <2>5. ASSUME StreamEnds PROVE ConnectionInv'
      <3>1. stream' = "closed" /\ streamUp' = FALSE
        BY <2>5 DEF StreamEnds
      <3>2. CASE stream = "heard"
        <4>1. delay' = PauseAfter(1) /\ failures' = 1
          BY <2>5, <3>2, PauseIsBounded DEF StreamEnds
        <4>2. delay' \in Nat /\ delay' <= MaxReconnectDelay
          BY <2>5, <3>2, PauseIsBounded, StreamAssumption DEF StreamEnds
        <4>3. QED
          BY <3>1, <4>1, <4>2 DEF DelayTypeOK, ConnectionIsReported, PauseAfter
      <3>3. CASE stream # "heard"
        BY <2>2, <2>5, <3>1, <3>3
        DEF StreamEnds, DelayTypeOK, ConnectionIsReported, PauseAfter
      <3>4. QED
        BY <3>2, <3>3
    <2>6. QED
      BY <2>1, <2>3, <2>4, <2>5
      DEF StreamNext, CloudChanges, StreamBreaks, IdleTimeout, RememberJobRunner, AttachJob,
          FinishJob, ForgetJobRunner, ObserveSample, SendSample, streamVars, linkVars
  <1>3. ConnectionInv => ConnectionIsReported
    BY DEF ConnectionInv
  <1>4. QED
    BY <1>1, <1>2, <1>3, PTL DEF StreamSpec

-----------------------------------------------------------------------------
(* Samples *)

Samples == [job : CloudJobs, runner : CloudJobs \cup {Unnamed}]

SampleTypeOK ==
    /\ jobState \in [CloudJobs -> {"placeholder", "named", "stopping", "over", "left"}]
    /\ assigned \subseteq CloudJobs
    /\ jobRunners \subseteq CloudJobs
    /\ samples \in Seq(Samples)

\* From the assignment until its capture has ended, or is waited for no longer, a job has
\* its runner in the map, and nothing is sampled for a job that has no id yet.
RunnersAreRemembered ==
    /\ \A j \in assigned : jobState[j] \notin {"over", "left"} => j \in jobRunners
    /\ \A i \in 1..Len(samples) :
         /\ \/ samples[i].runner # Unnamed
            \/ samples[i].job \notin assigned
            \/ jobState[samples[i].job] = "left"
         /\ jobState[samples[i].job] # "placeholder"

SampleInv == SampleTypeOK /\ RunnersAreRemembered

(* A sample in the queue names its runner, unless its job's assignment     *)
(* never arrived or its capture outlived the wait of stopCapture, however  *)
(* handlers, captures and the sender take turns and whatever the queue     *)
(* holds (samples.go:28).                                                  *)
THEOREM SamplesAreAttributed == StreamSpec => []SamplesNameTheirRunner
  <1>1. StreamInit => SampleInv
    BY DEF StreamInit, SampleInv, SampleTypeOK, RunnersAreRemembered
  <1>2. SampleInv /\ [StreamNext]_streamVars => SampleInv'
    <2> SUFFICES ASSUME SampleInv, [StreamNext]_streamVars PROVE SampleInv'
      OBVIOUS
    <2> USE DEF SampleInv
    <2>1. ASSUME UNCHANGED sampleVars PROVE SampleInv'
      BY <2>1 DEF sampleVars, SampleTypeOK, RunnersAreRemembered
    <2>2. ASSUME NEW j \in CloudJobs, RememberJobRunner(j) PROVE SampleInv'
      BY <2>2 DEF RememberJobRunner, SampleTypeOK, RunnersAreRemembered, Samples
    <2>3. ASSUME NEW j \in CloudJobs, AttachJob(j) PROVE SampleInv'
      BY <2>3 DEF AttachJob, SampleTypeOK, RunnersAreRemembered, Samples
    <2>4. ASSUME NEW j \in CloudJobs, FinishJob(j) PROVE SampleInv'
      BY <2>4 DEF FinishJob, SampleTypeOK, RunnersAreRemembered, Samples
    <2>5. ASSUME NEW j \in CloudJobs, ForgetJobRunner(j) PROVE SampleInv'
      <3>1. /\ jobState[j] = "stopping" /\ jobState'[j] \in {"over", "left"}
            /\ jobState' \in [CloudJobs -> {"placeholder", "named", "stopping", "over", "left"}]
            /\ \A k \in CloudJobs : k # j => jobState'[k] = jobState[k]
        BY <2>5 DEF ForgetJobRunner, SampleTypeOK
      <3>2. jobRunners' = jobRunners \ {j} /\ UNCHANGED <<assigned, samples>>
        BY <2>5 DEF ForgetJobRunner
      <3>3. SampleTypeOK'
        BY <3>1, <3>2 DEF SampleTypeOK
      <3>4. ASSUME NEW i \in 1..Len(samples) PROVE samples[i].job \in CloudJobs
        <4>1. samples[i] \in Samples
          BY DEF SampleTypeOK
        <4>2. QED
          BY <4>1 DEF Samples
      <3>5. QED
        BY <3>1, <3>2, <3>3, <3>4 DEF SampleTypeOK, RunnersAreRemembered
    <2>6. ASSUME NEW j \in CloudJobs, ObserveSample(j) PROVE SampleInv'
      <3> DEFINE new == [job |-> j, runner |-> IF j \in jobRunners THEN j ELSE Unnamed]
      <3>1. /\ jobState[j] \in {"named", "stopping", "left"}
            /\ samples' = Append(samples, new)
            /\ UNCHANGED <<jobState, assigned, jobRunners>>
        BY <2>6 DEF ObserveSample
      <3>2. /\ new \in Samples /\ new.job = j
            /\ new.runner # Unnamed \/ j \notin assigned \/ jobState[j] = "left"
        BY <3>1, StreamAssumption DEF Samples, RunnersAreRemembered
      <3> HIDE DEF new
      <3>3. /\ samples' \in Seq(Samples) /\ Len(samples') = Len(samples) + 1
            /\ \A i \in 1..Len(samples) : samples'[i] = samples[i]
            /\ samples'[Len(samples) + 1] = new
            /\ Len(samples) \in Nat
        BY <3>1, <3>2 DEF SampleTypeOK
      <3>4. ASSUME NEW i \in 1..Len(samples')
            PROVE  /\ \/ samples'[i].runner # Unnamed
                      \/ samples'[i].job \notin assigned
                      \/ jobState[samples'[i].job] = "left"
                   /\ jobState[samples'[i].job] # "placeholder"
        <4>1. i \in 1..Len(samples) \/ i = Len(samples) + 1
          BY <3>3
        <4>2. QED
          BY <3>1, <3>2, <3>3, <4>1 DEF RunnersAreRemembered
      <3>5. QED
        BY <3>1, <3>3, <3>4 DEF SampleTypeOK, RunnersAreRemembered
    <2>7. CASE SendSample
      <3>1. /\ samples' \in Seq(Samples)
            /\ \A i \in 1..Len(samples') : i + 1 \in 1..Len(samples) /\ samples'[i] = samples[i + 1]
        BY <2>7 DEF SendSample, SampleTypeOK
      <3>2. QED
        BY <2>7, <3>1 DEF SendSample, SampleTypeOK, RunnersAreRemembered
    <2>8. QED
      BY <2>1, <2>2, <2>3, <2>4, <2>5, <2>6, <2>7
      DEF StreamNext, CloudChanges, OpenStream, ReceiveMessage, StreamBreaks, IdleTimeout,
          StreamEnds, streamVars, sampleVars
  <1>3. SampleInv => SamplesNameTheirRunner
    BY DEF SampleInv, SampleTypeOK, RunnersAreRemembered, SamplesNameTheirRunner, Range
  <1>4. QED
    BY <1>1, <1>2, <1>3, PTL DEF StreamSpec
=============================================================================
