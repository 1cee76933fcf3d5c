------------------------- MODULE MCScaleSetLiveness -------------------------
(***************************************************************************)
(* Liveness of ScaleSetController, on two instances in one run.  In one    *)
(* the controller goes on listening once it listens, which two of the      *)
(* properties assume in their premises, so that all names can be used.  In *)
(* the other anything may happen, with one job and one name; the other     *)
(* names stay fresh, and fairness is that of the one name.                 *)
(***************************************************************************)
EXTENDS ScaleSetController

CONSTANT OnlyRunner

VARIABLE steady   \* which of the two

One == INSTANCE ScaleSetController WITH Runners <- {OnlyRunner}, MaxJobs <- 1

SteadyNext == Next /\ phase' \in {"setup", "listen"}

LonelyNext == Next /\ queued' <= 1 /\ Runners \ {OnlyRunner} \subseteq Fresh'

LivenessSpec ==
    /\ Init /\ steady \in BOOLEAN
    /\ [][UNCHANGED steady /\ IF steady THEN SteadyNext ELSE LonelyNext]_<<steady, vars>>
    /\ \/ /\ []<>steady /\ ProgramFairness /\ WorldFairness
          /\ WF_vars(StartRun) /\ WF_vars(BeginListening)
       \/ []<>(~steady) /\ One!ProgramFairness /\ One!WorldFairness

=============================================================================
