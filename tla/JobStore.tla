----------------------------- MODULE JobStore ------------------------------
(***************************************************************************)
(* The job history of internal/management/jobs.go and provisional.go: one  *)
(* record per job, and the goroutines that write its log and sample rows   *)
(* while it runs.                                                          *)
(*                                                                         *)
(* A runner has two record ids: a placeholder, under which its record is   *)
(* opened before its job is known, and the id of the one job it can take.  *)
(* SQLite is used through a single connection, so a statement or a         *)
(* transaction is one step.  What a record says beyond its result is left  *)
(* out, and so are the rows, which go where their goroutine writes to.     *)
(***************************************************************************)
EXTENDS Integers, FiniteSets

CONSTANTS
    Runners,   \* runner names
    Captures,  \* bound of the model: capture goroutines alive at one time
    None       \* no capture, no record, no runner

Placeholder(r) == <<"pending", r>>
JobOf(r)       == <<"job", r>>

Ids == {"pending", "job"} \X Runners

ASSUME NoneAssumption == None \notin Runners \cup Captures \cup Ids

VARIABLES
    record,     \* result of the job row of each id
    writesTo,   \* jobID of the state of each capture goroutine, None if it has ended
    cancelled,  \* capture goroutines whose context is cancelled
    handle      \* the map captures

storeVars   == <<record, writesTo, cancelled, handle>>
captureVars == <<writesTo, cancelled, handle>>

\* none: there is no row; closed: by CloseProvisionalJob, with result unknown.
Results == {"none", "running", "completed", "closed"}

JobStoreTypeOK ==
    /\ record \in [Ids -> Results]
    /\ \A r \in Runners : /\ record[Placeholder(r)] # "completed"
                          /\ record[JobOf(r)] # "closed"
    /\ writesTo \in [Captures -> Ids \cup {None}]
    /\ cancelled \subseteq Captures
    /\ handle \in [Ids -> Captures \cup {None}]

JobStoreInit ==
    /\ record = [id \in Ids |-> "none"]
    /\ writesTo = [c \in Captures |-> None]
    /\ cancelled = {}
    /\ handle = [id \in Ids |-> None]

Running(c) == writesTo[c] # None /\ c \notin cancelled

-----------------------------------------------------------------------------
(* The capture goroutines *)

\* After cancellation: it has read and written for the last time.
CaptureEnds(c) ==
    /\ writesTo[c] # None
    /\ c \in cancelled
    /\ writesTo' = [writesTo EXCEPT ![c] = None]
    /\ cancelled' = cancelled \ {c}
    /\ UNCHANGED <<record, handle>>

\* startCapture overwrites the entry of the map, whatever it holds.
StartCapture(id, c) ==
    /\ writesTo' = [writesTo EXCEPT ![c] = id]
    /\ handle' = [handle EXCEPT ![id] = c]
    /\ UNCHANGED cancelled

\* Mutant of StopCapture: the entry goes, the goroutine stays.
StopCaptureWithoutCancel(id) ==
    /\ handle' = [handle EXCEPT ![id] = None]
    /\ UNCHANGED <<record, writesTo, cancelled>>

\* stopCapture up to the point where it waits for the goroutine.
StopCapture(id) ==
    /\ handle' = [handle EXCEPT ![id] = None]
    /\ cancelled' = IF handle[id] # None /\ writesTo[handle[id]] # None
                    THEN cancelled \cup {handle[id]} ELSE cancelled
    /\ UNCHANGED <<record, writesTo>>

-----------------------------------------------------------------------------
(* The statements *)

\* UpsertStartedJob: running again, whatever it was.
UpsertStartedJob(id) == record' = [record EXCEPT ![id] = "running"]

\* UpdateJobCompleted, and InsertCompletedJob when there is no row.
RecordCompleted(id) == record' = [record EXCEPT ![id] = "completed"]

GetJob(id) == record[id]

\* CloseRunningJobWithNote, of a row that is still running.
CloseRunningJob(id) ==
    record' = [record EXCEPT ![id] = IF GetJob(id) = "running" THEN "closed" ELSE @]

\* What moveJob needs: RenameRunningJob finds the running row, and the new id,
\* a primary key, is free.
MoveJobSucceeds(r) ==
    GetJob(Placeholder(r)) = "running" /\ GetJob(JobOf(r)) = "none"

\* moveJob, and the rest of AttachJobMetadata when lookupCapture has found c.  The
\* capture writes nothing in between: AttachJobMetadata holds its lock.
MoveJob(r, c) ==
    /\ record' = [record EXCEPT ![JobOf(r)] = "running", ![Placeholder(r)] = "none"]
    /\ writesTo' = [d \in Captures |->
                      IF d = c /\ writesTo[d] # None THEN JobOf(r) ELSE writesTo[d]]
    /\ handle' = IF c = None THEN handle
                 ELSE [handle EXCEPT ![Placeholder(r)] = None, ![JobOf(r)] = c]
    /\ UNCHANGED cancelled

\* The same when it has found none: a new capture starts under the job's id.
MoveJobAndCapture(r, c) ==
    /\ record' = [record EXCEPT ![JobOf(r)] = "running", ![Placeholder(r)] = "none"]
    /\ StartCapture(JobOf(r), c)

-----------------------------------------------------------------------------

\* The capture goroutines end with the daemon.
NoCaptures ==
    /\ writesTo' = [c \in Captures |-> None]
    /\ cancelled' = {}
    /\ handle' = [id \in Ids |-> None]

=============================================================================
