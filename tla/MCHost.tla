------------------------------- MODULE MCHost -------------------------------
(***************************************************************************)
(* The host's samples (HostHistory), the rows of the job history           *)
(* (JobHistory), the Tart backend (TartHost) and the loops of the cloud    *)
(* agent beside its commands (AgentStream) on small instances.  They share *)
(* no state that the models keep, so a behaviour is one of a single part,  *)
(* and the other parts rest.                                               *)
(***************************************************************************)
EXTENDS HostHistory, JobHistory, TartHost, AgentStream

VARIABLE part

mcHostVars == <<part, hostVars, historyVars, tartVars, streamVars>>

MCHostInit ==
    /\ part \in {"samples", "history", "tart", "stream"}
    /\ HostInit /\ (part = "samples" \/ slot = 0)
    /\ HistoryInit /\ (part = "history" \/ fileBytes = 0)
    /\ TartInit
    /\ StreamInit /\ (part = "stream" \/ cloud = "refuses")

MCHostNext ==
    /\ UNCHANGED part
    /\ \/ /\ part = "samples" /\ HostNext
          /\ UNCHANGED <<historyVars, tartVars, streamVars>>
       \/ /\ part = "history" /\ HistoryNext
          /\ UNCHANGED <<hostVars, tartVars, streamVars>>
       \/ /\ part = "tart" /\ TartNext
          /\ UNCHANGED <<hostVars, historyVars, streamVars>>
       \/ /\ part = "stream" /\ StreamNext
          /\ UNCHANGED <<hostVars, historyVars, tartVars>>

\* Parts that rest have no fair step enabled, except the reconnect loop.  The loop and
\* its timer run by themselves, and a cloud that answers sends keepalives.
MCHostSpec ==
    /\ MCHostInit /\ [][MCHostNext]_mcHostVars
    /\ HistoryFairness /\ TartFairness
    /\ WF_streamVars(part = "stream" /\ OpenStream)
    /\ WF_streamVars(ReceiveMessage) /\ WF_streamVars(IdleTimeout)

=============================================================================
