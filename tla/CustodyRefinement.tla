------------------------- MODULE CustodyRefinement -------------------------
(***************************************************************************)
(* ScaleSetController implements RunnerCustody: each of its steps is a     *)
(* step of custody, or changes nothing that custody can see.               *)
(***************************************************************************)
EXTENDS ScaleSetController

OnDuty == phase \notin {"stopped", "dead"}

\* What an environment is good for.
UseOf(r) ==
    CASE env[r] = "absent" -> "absent"
      [] env[r] \in {"created", "online"} -> "fresh"
      [] env[r] = "job" -> "working"
      [] OTHER -> "spent"

\* The crew are the maps of the tracker and the goroutines that have the runner's name.
Crew(r) ==
    \/ r \in tracker.idle \cup tracker.busy
    \/ r \in Starting
    \/ r \in jobCleanups \cup reapCleanups \cup shutdownList

KeeperOf(r) ==
    IF env[r] = "absent" THEN "nobody"
    ELSE IF Crew(r) THEN "crew"
    ELSE IF r \in abandoned THEN "log" ELSE "nobody"

Custody == INSTANCE RunnerCustody WITH
    onDuty <- OnDuty,
    use    <- [r \in Runners |-> UseOf(r)],
    keeper <- [r \in Runners |-> KeeperOf(r)]

(* The controller keeps the promise of RunnerCustody through every order of *)
(* events, failures, restarts and crashes: no environment takes a second    *)
(* job or goes from one process of the daemon into the service of the next, *)
(* and none loses its keeper except with the daemon (scaler.go,             *)
(* controller.go:60, backend CleanupAll).                                   *)
RefinesCustody == Custody!CustodySpec
=============================================================================
