------------------------------ MODULE TartHost ------------------------------
(***************************************************************************)
(* The Tart backend on one host (backend/tart.go, runner_version.go and    *)
(* tart/manager.go): Run and Cleanup of virtual machines that compete for  *)
(* the few places macOS has.                                               *)
(*                                                                         *)
(* Run clones the image, boots the clone and waits for its address; when   *)
(* the host is full the process of the machine ends with a message, and    *)
(* the same clone is booted again after a pause, until a deadline.  Then   *)
(* it asks once per process for the version of the runner, waits for ssh   *)
(* under a second deadline, and starts the runner.  Cleanup stops and      *)
(* deletes the machine, each on its own.  The tart CLI is external: a call *)
(* may fail for any reason.                                                *)
(***************************************************************************)
EXTENDS Integers, FiniteSets

CONSTANTS
    Machines,         \* one machine per runner
    Places,           \* machines that macOS runs at a time
    CapacityMaxWait,  \* 6 minutes
    CapacityInitialBackoff, CapacityMaxBackoff,  \* 15 s and 1 minute
    SshReadyMaxWait, SshReadyInitialBackoff, SshReadyMaxBackoff  \* 120 s, 1 s and 16 s

ASSUME TartAssumption ==
    /\ Places \in Nat
    /\ {CapacityMaxWait, CapacityInitialBackoff, CapacityMaxBackoff,
        SshReadyMaxWait, SshReadyInitialBackoff, SshReadyMaxBackoff} \subseteq Nat \ {0}

VARIABLES
    vm,        \* "none", "stopped" or "up"
    process,   \* of tart run, as the manager knows it: "none", "alive", "full" or "over"
    run,       \* Run and then Cleanup of the machine
    image,     \* the remote image: "missing" or "local"
    version,   \* resolvedVersion behind versionOnce: "unasked", "known" or "empty"
    undeleted  \* history: machines that tart delete failed to delete

tartVars == <<vm, process, run, image, version, undeleted>>

\* left: time to the deadline of the loop; pause: to the end of its sleep.
NoRun == [pc |-> "idle", left |-> 0, backoff |-> 0, pause |-> 0]

TartInit ==
    /\ vm = [m \in Machines |-> "none"]
    /\ process = [m \in Machines |-> "none"]
    /\ run = [m \in Machines |-> NoRun]
    /\ image = "missing"
    /\ version = "unasked"
    /\ undeleted = {}

LeastOf(a, b) == IF a < b THEN a ELSE b
Goto(m, pc) == run' = [run EXCEPT ![m] = [NoRun EXCEPT !.pc = pc]]
Up == {m \in Machines : vm[m] = "up"}

-----------------------------------------------------------------------------
(* Run.                                                                    *)

\* ImageExists; an error of it counts as a missing image.
FindImage(m) ==
    /\ run[m].pc = "idle" /\ vm[m] = "none"
    /\ \/ image = "local" /\ Goto(m, "clone")
       \/ Goto(m, "pull")
    /\ UNCHANGED <<vm, process, image, version, undeleted>>

PullImage(m) ==
    /\ run[m].pc = "pull"
    /\ \/ image' = "local" /\ Goto(m, "clone")
       \/ UNCHANGED image /\ Goto(m, "failed")
    /\ UNCHANGED <<vm, process, version, undeleted>>

\* tart clone, which may stop halfway; with the machine begins the wait for a place.
CloneImage(m) ==
    /\ run[m].pc = "clone"
    /\ \/ /\ vm' = [vm EXCEPT ![m] = "stopped"]
          /\ run' = [run EXCEPT ![m] = [NoRun EXCEPT !.pc = "boot", !.left = CapacityMaxWait,
                                                     !.backoff = CapacityInitialBackoff]]
       \/ vm' \in {vm, [vm EXCEPT ![m] = "stopped"]} /\ Goto(m, "failed")
    /\ UNCHANGED <<process, image, version, undeleted>>

\* Manager.Start, and what becomes of its process.
StartVM(m) ==
    /\ run[m].pc = "boot"
    /\ IF Cardinality(Up) < Places
       THEN vm' = [vm EXCEPT ![m] = "up"] /\ process' = [process EXCEPT ![m] = "alive"]
       ELSE process' = [process EXCEPT ![m] = "full"] /\ UNCHANGED vm
    /\ run' = [run EXCEPT ![m] = [@ EXCEPT !.pc = "address"]]
    /\ UNCHANGED <<image, version, undeleted>>

\* IPAddress: the process is alive and the machine has an address.
AddressFound(m) ==
    /\ run[m].pc = "address" /\ process[m] = "alive"
    /\ Goto(m, "version")
    /\ UNCHANGED <<vm, process, image, version, undeleted>>

\* A plausible bug: every attempt to boot starts a new wait for capacity.
WaitAnew(m) ==
    /\ run[m].pc = "address" /\ process[m] = "full" /\ run[m].left > 0
    /\ run' = [run EXCEPT ![m] =
                 [@ EXCEPT !.pc = "pause", !.left = CapacityMaxWait,
                           !.pause = LeastOf(run[m].backoff, CapacityMaxWait)]]
    /\ UNCHANGED <<vm, process, image, version, undeleted>>

\* ErrNoCapacity before the deadline: pause.
WaitForCapacity(m) ==
    /\ run[m].pc = "address" /\ process[m] = "full" /\ run[m].left > 0
    /\ run' = [run EXCEPT ![m] =
                 [@ EXCEPT !.pc = "pause", !.pause = LeastOf(run[m].backoff, run[m].left)]]
    /\ UNCHANGED <<vm, process, image, version, undeleted>>

\* After the pause, and still before the deadline, the same clone is booted again.
BootAgain(m) ==
    /\ run[m].pc = "pause" /\ run[m].pause = 0 /\ run[m].left > 0
    /\ run' = [run EXCEPT ![m] =
                 [@ EXCEPT !.pc = "boot",
                           !.backoff = LeastOf(2 * run[m].backoff, CapacityMaxBackoff)]]
    /\ UNCHANGED <<vm, process, image, version, undeleted>>

\* ResolveRunnerVersion: once.Do remembers that it has run, not that it has failed, so the
\* second caller is given an empty version and no error.
ResolveVersion(m) ==
    /\ run[m].pc = "version"
    /\ IF version = "unasked"
       THEN \/ version' = "known" /\ Goto(m, "ssh?")
            \/ version' = "empty" /\ Goto(m, "failed")
       ELSE UNCHANGED version /\ Goto(m, "ssh?")
    /\ UNCHANGED <<vm, process, image, undeleted>>

\* Exec asks for the address once more.
WaitForSSH(m) ==
    /\ run[m].pc = "ssh?" /\ process[m] = "alive"
    /\ run' = [run EXCEPT ![m] = [pc |-> "probe", left |-> SshReadyMaxWait,
                                  backoff |-> SshReadyInitialBackoff, pause |-> 0]]
    /\ UNCHANGED <<vm, process, image, version, undeleted>>

\* A probe fails, and the loop sleeps a whole backoff, past the deadline as well.
ProbeFails(m) ==
    /\ run[m].pc = "probe" /\ run[m].pause = 0 /\ run[m].left > 0
    /\ run' = [run EXCEPT ![m] =
                 [@ EXCEPT !.pause = run[m].backoff,
                           !.backoff = LeastOf(2 * run[m].backoff, SshReadyMaxBackoff)]]
    /\ UNCHANGED <<vm, process, image, version, undeleted>>

\* The script downloads the runner, by its version, unless the image brings it along.
LaunchRunner(m) ==
    /\ run[m].pc = "probe" /\ run[m].pause = 0 /\ vm[m] = "up"
    /\ Goto(m, "launched")
    /\ UNCHANGED <<vm, process, image, version, undeleted>>

\* Any call of Run fails; a loop at its deadline has nothing else left to do.
RunFails(m) ==
    /\ run[m].pc \in {"boot", "address", "pause", "ssh?", "probe"}
    /\ run[m].pc = "address" /\ process[m] = "full" => run[m].left = 0
    /\ run[m].pc = "pause" => run[m].pause = 0 /\ run[m].left = 0
    /\ Goto(m, "failed")
    /\ UNCHANGED <<vm, process, image, version, undeleted>>

\* The context of Run is cancelled: every call and every pause ends with an error.
RunCancelled(m) ==
    /\ run[m].pc \in {"pull", "clone", "boot", "address", "pause", "version", "ssh?", "probe"}
    /\ Goto(m, "failed")
    /\ version' \in IF run[m].pc = "version" /\ version = "unasked" THEN {"empty"} ELSE {version}
    /\ UNCHANGED <<vm, process, image, undeleted>>

-----------------------------------------------------------------------------
(* Cleanup, of a run that failed or of a runner that is done.              *)

\* A plausible bug: a machine that could not be stopped is not deleted either.
StopOrReturn(m) ==
    /\ run[m].pc \in {"failed", "launched"}
    /\ IF vm[m] = "up"
       THEN vm' = [vm EXCEPT ![m] = "stopped"] /\ process' = [process EXCEPT ![m] = "over"]
            /\ Goto(m, "stopped")
       ELSE UNCHANGED <<vm, process>> /\ Goto(m, "cleaned")
    /\ UNCHANGED <<image, version, undeleted>>

\* tart stop fails when the machine is not up, or for no good reason.
StopMachine(m) ==
    /\ run[m].pc \in {"failed", "launched"}
    /\ \/ /\ vm[m] = "up"
          /\ vm' = [vm EXCEPT ![m] = "stopped"]
          /\ process' = [process EXCEPT ![m] = "over"]
       \/ UNCHANGED <<vm, process>>
    /\ Goto(m, "stopped")
    /\ UNCHANGED <<image, version, undeleted>>

\* tart delete fails when the machine is still up, or for no good reason; only its success
\* takes the process out of the map.
DeleteMachine(m) ==
    /\ run[m].pc = "stopped"
    /\ \/ /\ vm[m] = "stopped"
          /\ vm' = [vm EXCEPT ![m] = "none"]
          /\ process' = [process EXCEPT ![m] = "none"]
          /\ UNCHANGED undeleted
       \/ undeleted' = undeleted \union {m} /\ UNCHANGED <<vm, process>>
    /\ Goto(m, "cleaned")
    /\ UNCHANGED <<image, version>>

-----------------------------------------------------------------------------

\* The machine, or tart run with it, ends by itself.
MachineDies(m) ==
    /\ vm[m] = "up"
    /\ vm' = [vm EXCEPT ![m] = "stopped"]
    /\ process' = [process EXCEPT ![m] = "over"]
    /\ UNCHANGED <<run, image, version, undeleted>>

CountDown(n) == IF n = 0 THEN 0 ELSE n - 1

\* No loop sleeps through the end of its pause.
TartTick ==
    /\ \E m \in Machines : run[m].left > 0 \/ run[m].pause > 0
    /\ \A m \in Machines : run[m].pc \in {"pause", "probe"} => run[m].pause > 0
    /\ run' = [m \in Machines |-> [run[m] EXCEPT !.left = CountDown(@), !.pause = CountDown(@)]]
    /\ UNCHANGED <<vm, process, image, version, undeleted>>

RunStep(m) ==
    \/ PullImage(m) \/ CloneImage(m) \/ StartVM(m) \/ AddressFound(m)
    \/ WaitForCapacity(m) \/ BootAgain(m) \/ ResolveVersion(m)
    \/ WaitForSSH(m) \/ ProbeFails(m) \/ LaunchRunner(m) \/ RunFails(m)

TartNext ==
    \/ \E m \in Machines :
           FindImage(m) \/ RunStep(m) \/ RunCancelled(m) \/ StopMachine(m) \/ DeleteMachine(m) \/ MachineDies(m)
    \/ TartTick

TartSpec == TartInit /\ [][TartNext]_tartVars

\* Run goes on as its goroutine is scheduled; no call of it lasts for ever.
TartFairness == WF_tartVars(TartTick) /\ \A m \in Machines : WF_tartVars(RunStep(m))

-----------------------------------------------------------------------------
(* What Cleanup leaves behind is a machine that tart itself has refused to *)
(* delete: that a machine is not up, or was never booted, does not keep it *)
(* (tart.go:172).                                                          *)
CleanedMachinesAreGone ==
    \A m \in Machines : run[m].pc = "cleaned" => vm[m] = "none" \/ m \in undeleted

(* Run of a machine comes to an end, launched or failed, even if another   *)
(* machine never gives its place back and ssh never answers                *)
(* (tart.go:141, manager.go:268).                                          *)
RunEnds ==
    \A m \in Machines : (run[m].pc \in {"pull", "clone"}) ~> (run[m].pc \in {"launched", "failed"})
=============================================================================
