----------------------------- MODULE MCConsole -----------------------------
(***************************************************************************)
(* The validation of documents (ConfigCheck), the documents with the       *)
(* daemon's life (Daemon), the login (ConsoleAuth) and the job list read   *)
(* page by page (JobListing) on small instances.  They share no state, so  *)
(* a behaviour is one of a single part, and the other parts rest: the run  *)
(* adds their states up and does not multiply them.                        *)
(***************************************************************************)
EXTENDS ConfigCheck, Daemon, ConsoleAuth, JobListing

VARIABLE part

consoleVars == <<part, checkVars, daemonVars, authVars, listVars>>

Org(o, t) == [owner |-> o, token |-> t]
Doc(orgs, db) == [form |-> "good", orgs |-> orgs, cloud |-> FALSE, db |-> db]

\* Two documents with databases of their own, and a broken one.
MCDocs == {Doc(<<Org("o1", "t1")>>, "default"),
           Doc(<<Org("o1", "t1"), Org("o2", "t2")>>, "other"),
           [Doc(<<Org("o1", "t1")>>, "default") EXCEPT !.form = "malformed"]}
MCOwners == <<"o1", "o2">>
MCRetyped == {Org("o1", "t1"), Org("o1", "t1b"), Org("o2", "t2")}

\* Which job is which does not matter to the list: one order of the ids stands for all.
\* There is more in it than the largest page shows.
LongList ==
    LET ids == SetToSeq(Records)
    IN  /\ \A i, j \in 1..Len(ids) :
              i < j /\ result[ids[j]] # "none" =>
                  result[ids[i]] # "none" /\ startedAt[ids[i]] > startedAt[ids[j]]
        /\ result[ids[LargestPage + 1]] # "none"

ConsoleInit ==
    /\ part \in {"check", "daemon", "auth", "list"}
    /\ CheckInit /\ (part = "check" \/ (draft = Blank /\ logLevelEnv = ""))
    /\ DaemonInit /\ (part = "daemon" \/ disk = NoFile)
    /\ AuthInit /\ (part = "auth" \/ admin = NoPassword)
    /\ ListInit /\ IF part = "list" THEN LongList ELSE \A id \in Records : result[id] = "none"

ConsoleNext ==
    /\ UNCHANGED part
    /\ \/ part = "check" /\ CheckNext /\ UNCHANGED <<daemonVars, authVars, listVars>>
       \/ part = "daemon" /\ DaemonNext /\ UNCHANGED <<checkVars, authVars, listVars>>
       \/ part = "auth" /\ AuthNext /\ UNCHANGED <<checkVars, daemonVars, listVars>>
       \/ part = "list" /\ ListNext /\ UNCHANGED <<checkVars, daemonVars, authVars>>

\* A daemon that rests is down, and its watcher with it.
ConsoleSpec ==
    ConsoleInit /\ [][ConsoleNext]_consoleVars /\ WatcherFairness

=============================================================================
