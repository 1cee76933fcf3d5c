--------------------------- MODULE RunnerCustody ---------------------------
(***************************************************************************)
(* What a runner set promises about the environments it makes, without the *)
(* goroutines, messages and timers by which it keeps the promise:          *)
(*                                                                         *)
(*   - an environment is made fresh, takes at most one job, and is never   *)
(*     used again: the only way from spent is out of the world;            *)
(*   - while the daemon is on duty somebody keeps every environment: its   *)
(*     crew, or, once a removal has failed, an entry in the log;           *)
(*   - an end of the daemon, in order or not, may leave environments that  *)
(*     nobody keeps; the next one takes none of them over into service: it *)
(*     removes each, or logs that it could not.                            *)
(*                                                                         *)
(* ScaleSetController implements it (see CustodyRefinement).               *)
(***************************************************************************)
CONSTANT Runners

VARIABLES
    onDuty,  \* the daemon runs and has swept the host once
    use,     \* of each environment: "absent", "fresh", "working" or "spent"
    keeper   \* of each environment: "crew", "log", or "nobody"

custodyVars == <<onDuty, use, keeper>>

CustodyInit ==
    /\ onDuty = FALSE
    /\ use = [r \in Runners |-> "absent"]
    /\ keeper = [r \in Runners |-> "nobody"]

\* Without an environment there is nothing to keep.
Removed(S) ==
    /\ use' = [r \in Runners |-> IF r \in S THEN "absent" ELSE use[r]]
    /\ keeper' = [r \in Runners |-> IF r \in S THEN "nobody" ELSE keeper[r]]

Make(r) ==
    /\ onDuty /\ use[r] = "absent"
    /\ use' = [use EXCEPT ![r] = "fresh"]
    /\ keeper' = [keeper EXCEPT ![r] = "crew"]
    /\ UNCHANGED onDuty

\* The world: a runner takes a job, or its process ends.
Work(r) ==
    /\ use[r] = "fresh"
    /\ use' = [use EXCEPT ![r] = "working"]
    /\ UNCHANGED <<onDuty, keeper>>

Spend(r) ==
    /\ use[r] \in {"fresh", "working"}
    /\ use' = [use EXCEPT ![r] = "spent"]
    /\ UNCHANGED <<onDuty, keeper>>

Destroy(S) == onDuty /\ Removed(S) /\ UNCHANGED onDuty

\* A removal fails, perhaps halfway, and the log is all that is left of it.
LetGo(r) ==
    /\ onDuty /\ keeper[r] = "crew"
    /\ use' \in {use, [use EXCEPT ![r] = "spent"]}
    /\ keeper' = [keeper EXCEPT ![r] = "log"]
    /\ UNCHANGED onDuty

\* An event shows that an environment given up is still there.
TakeBack(r) ==
    /\ onDuty /\ keeper[r] = "log"
    /\ keeper' = [keeper EXCEPT ![r] = "crew"]
    /\ UNCHANGED <<onDuty, use>>

GoOffDuty ==
    /\ onDuty /\ onDuty' = FALSE
    /\ keeper' \in [Runners -> {"nobody", "log"}]
    /\ UNCHANGED use

\* CleanupAll of the next start.
GoOnDuty ==
    /\ ~onDuty /\ onDuty' = TRUE
    /\ \E S \in SUBSET Runners :
           /\ use' = [r \in Runners |-> IF r \in S THEN "absent" ELSE use[r]]
           /\ keeper' = [r \in Runners |-> IF use'[r] = "absent" THEN "nobody" ELSE "log"]

CustodyNext ==
    \/ \E r \in Runners : Make(r) \/ Work(r) \/ Spend(r) \/ LetGo(r) \/ TakeBack(r)
    \/ \E S \in SUBSET Runners : Destroy(S)
    \/ GoOffDuty \/ GoOnDuty

CustodySpec == CustodyInit /\ [][CustodyNext]_custodyVars
=============================================================================
