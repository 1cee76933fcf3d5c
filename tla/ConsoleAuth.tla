---------------------------- MODULE ConsoleAuth ----------------------------
(***************************************************************************)
(* The admin password, the sessions and the login limit of the console     *)
(* (internal/auth), with the handlers of the API server that call them.    *)
(*                                                                         *)
(* The password and the sessions are rows of the database, which the       *)
(* reset-password command, a process of its own, changes as well.          *)
(* The limit is kept in memory behind a mutex.  No lock and no transaction *)
(* spans a request: a login passes the limit, reads the hash, compares it, *)
(* which takes bcrypt a while, and only then counts the failure or makes   *)
(* the session.  Tokens are drawn at random and never collide; sessions    *)
(* that agree in all the model tells apart are one.                        *)
(***************************************************************************)
EXTENDS Integers, Sequences, SequencesExt, FiniteSets

CONSTANTS
    Requests,       \* requests the server handles at once
    Passwords,
    NoPassword,
    FailureLimit,   \* 5
    FailureWindow,  \* 5 minutes
    BlockTime,      \* 1 minute
    SessionLifetime,\* 24 hours
    MaxNow          \* bound: ticks of the clock

ASSUME AuthAssumption ==
    /\ IsFiniteSet(Requests) /\ Requests # {}
    /\ NoPassword \notin Passwords
    /\ {FailureLimit, FailureWindow, BlockTime, SessionLifetime} \subseteq Nat \ {0}

VARIABLES
    admin,           \* the password in console_admin, NoPassword when there is no row
    sessions,        \* rows of console_sessions
    failedAttempts,  \* times of recent failures
    blockedUntil,
    request,         \* request[r]: a Setup or Login in progress
    now,
    lateGuesses      \* history: passwords compared since the current block, or the
                     \* first of a chain of blocks, began

authVars == <<admin, sessions, failedAttempts, blockedUntil, request, now, lateGuesses>>

\* overtaken: since the request read or wrote the password, somebody else has changed it.
NoRequest == [pc |-> "idle", password |-> NoPassword, stored |-> NoPassword, overtaken |-> FALSE]

AuthInit ==
    /\ admin \in Passwords \union {NoPassword}
    /\ sessions = {}
    /\ failedAttempts = <<>> /\ blockedUntil = 0
    /\ request = [r \in Requests |-> NoRequest]
    /\ now = 1 /\ lateGuesses = 0

Done(r) == request' = [request EXCEPT ![r] = NoRequest]

Overtaken(rs) == [r \in Requests |-> [rs[r] EXCEPT !.overtaken = rs[r].pc # "idle"]]

-----------------------------------------------------------------------------
(* The statements (queries.sql.go).                                        *)

CountAdmin == IF admin = NoPassword THEN 0 ELSE 1

GetAdminPasswordHash == admin

UpsertAdminPassword(password) == admin' = password

Alive(s) == s.expires > now

GetSession == sessions

\* Rows of sessions whose time is over, and one session by its token.
DeleteExpiredSessions == {s \in sessions : Alive(s)}
DeleteSession(s) == sessions \ {s}

InsertSession(kept, password, overtaken) ==
    kept \union {[password |-> password, expires |-> now + SessionLifetime, overtaken |-> overtaken]}

DeleteAdmin == admin' = NoPassword
DeleteAllSessions == sessions' = {}

-----------------------------------------------------------------------------
(* Setup.                                                                  *)

\* SetupRequired has counted no row; the password is not too long to be hashed.
BeginSetup(r) ==
    /\ request[r].pc = "idle" /\ CountAdmin = 0
    /\ \E p \in Passwords :
           request' = [request EXCEPT ![r] = [NoRequest EXCEPT !.pc = "hashing", !.password = p]]
    /\ UNCHANGED <<admin, sessions, failedAttempts, blockedUntil, now, lateGuesses>>

\* The upsert replaces a password that another Setup has stored meanwhile.
StorePassword(r) ==
    /\ request[r].pc = "hashing"
    /\ UpsertAdminPassword(request[r].password)
    /\ request' = [(IF admin = NoPassword THEN request ELSE Overtaken(request))
                      EXCEPT ![r] = [request[r] EXCEPT !.pc = "entering", !.overtaken = FALSE]]
    /\ sessions' = IF admin = NoPassword THEN sessions
                   ELSE {[s EXCEPT !.overtaken = TRUE] : s \in sessions}
    /\ UNCHANGED <<failedAttempts, blockedUntil, now, lateGuesses>>

-----------------------------------------------------------------------------
(* Login.                                                                  *)

\* A plausible bug: the limit prunes the failures and forgets to look at the block.
PassPruned(r) ==
    /\ request[r].pc = "idle"
    /\ failedAttempts' = SelectSeq(failedAttempts, LAMBDA t : t > now - FailureWindow)
    /\ \E p \in Passwords :
           request' = [request EXCEPT ![r] = [NoRequest EXCEPT !.pc = "passed", !.password = p]]
    /\ UNCHANGED <<admin, sessions, blockedUntil, now, lateGuesses>>

\* checkLoginLimit: a blocked login is sent away at once.
PassLimit(r) ==
    /\ request[r].pc = "idle" /\ now >= blockedUntil
    /\ failedAttempts' = SelectSeq(failedAttempts, LAMBDA t : t > now - FailureWindow)
    /\ \E p \in Passwords :
           request' = [request EXCEPT ![r] = [NoRequest EXCEPT !.pc = "passed", !.password = p]]
    /\ UNCHANGED <<admin, sessions, blockedUntil, now, lateGuesses>>

\* Without a password every login is wrong, and none is counted.
ReadHash(r) ==
    /\ request[r].pc = "passed"
    /\ IF GetAdminPasswordHash = NoPassword THEN Done(r)
       ELSE request' = [request EXCEPT ![r].pc = "comparing", ![r].stored = GetAdminPasswordHash,
                                       ![r].overtaken = FALSE]
    /\ UNCHANGED <<admin, sessions, failedAttempts, blockedUntil, now, lateGuesses>>

\* recordLoginFailure
GuessWrong(r) ==
    /\ request[r].pc = "comparing" /\ request[r].password # request[r].stored
    /\ IF Len(failedAttempts) + 1 >= FailureLimit
       THEN /\ failedAttempts' = <<>> /\ blockedUntil' = now + BlockTime
            /\ lateGuesses' = IF now < blockedUntil THEN lateGuesses + 1 ELSE 0
       ELSE /\ failedAttempts' = Append(failedAttempts, now)
            /\ lateGuesses' = IF now < blockedUntil THEN lateGuesses + 1 ELSE lateGuesses
            /\ UNCHANGED blockedUntil
    /\ Done(r)
    /\ UNCHANGED <<admin, sessions, now>>

\* clearLoginFailures: a right password lifts the block as well.
GuessRight(r) ==
    /\ request[r].pc = "comparing" /\ request[r].password = request[r].stored
    /\ failedAttempts' = <<>> /\ blockedUntil' = 0 /\ lateGuesses' = 0
    /\ request' = [request EXCEPT ![r].pc = "entering"]
    /\ UNCHANGED <<admin, sessions, now>>

-----------------------------------------------------------------------------
(* Sessions.                                                               *)

CreateSession(r) ==
    /\ request[r].pc = "entering"
    /\ sessions' = InsertSession(DeleteExpiredSessions, request[r].password, request[r].overtaken)
    /\ Done(r)
    /\ UNCHANGED <<admin, failedAttempts, blockedUntil, now, lateGuesses>>

\* Any statement of the database fails, or the caller has gone: the request ends where it is.
RequestFails(r) ==
    /\ request[r].pc \in {"hashing", "passed", "entering"}
    /\ Done(r)
    /\ UNCHANGED <<admin, sessions, failedAttempts, blockedUntil, now, lateGuesses>>

\* FindSession of the session s: what it leaves of the sessions.
FindSession(s) == IF Alive(s) THEN GetSession ELSE DeleteSession(s)

\* The interceptor, before every call but SetupAdmin and Login (GetSession looks for the
\* session itself), turns away a caller whose session is over.
FindExpiredSession ==
    /\ \E s \in GetSession : ~Alive(s) /\ sessions' = FindSession(s)
    /\ UNCHANGED <<admin, failedAttempts, blockedUntil, request, now, lateGuesses>>

\* Logout: the interceptor and the handler find the session, and its CSRF token fits.
Logout ==
    /\ \E s \in GetSession : Alive(s) /\ sessions' = DeleteSession(s)
    /\ UNCHANGED <<admin, failedAttempts, blockedUntil, request, now, lateGuesses>>

\* Reset: one transaction.
Reset == DeleteAdmin /\ DeleteAllSessions

\* A plausible bug: the reset deletes the password and leaves the sessions.
ResetPasswordOnly ==
    /\ DeleteAdmin
    /\ request' = Overtaken(request)
    /\ UNCHANGED <<sessions, failedAttempts, blockedUntil, now, lateGuesses>>

\* The reset-password command, a process of its own.
ResetPassword ==
    /\ Reset
    /\ request' = Overtaken(request)
    /\ UNCHANGED <<failedAttempts, blockedUntil, now, lateGuesses>>

\* The daemon restarts (restartSelf, or it has died): what is in memory is gone, what is in the database stays.
RestartServer ==
    /\ request' = [r \in Requests |-> NoRequest]
    /\ failedAttempts' = <<>> /\ blockedUntil' = 0 /\ lateGuesses' = 0
    /\ UNCHANGED <<admin, sessions, now>>

PassTime ==
    /\ now < MaxNow
    /\ now' = now + 1
    /\ UNCHANGED <<admin, sessions, failedAttempts, blockedUntil, request, lateGuesses>>

AuthNext ==
    \/ \E r \in Requests :
           \/ BeginSetup(r) \/ StorePassword(r) \/ PassLimit(r) \/ ReadHash(r)
           \/ GuessWrong(r) \/ GuessRight(r) \/ CreateSession(r) \/ RequestFails(r)
    \/ FindExpiredSession \/ Logout \/ ResetPassword \/ RestartServer \/ PassTime

AuthSpec == AuthInit /\ [][AuthNext]_authVars

-----------------------------------------------------------------------------
(* The limit holds against logins in parallel: while the console is        *)
(* blocked, no more passwords are compared than requests were past the     *)
(* limit when the block began (service.go:84).                             *)
BlockHolds == lateGuesses <= Cardinality(Requests) - 1

(* Who is logged in knows the present password, unless his request had     *)
(* already passed when the password was reset, or he set one up that       *)
(* another visitor's Setup replaced in the same moment: these two keep     *)
(* sessions that a password reset or a second Setup meant to end           *)
(* (service.go:65, console.md:79).                                         *)
SessionsKnowThePassword ==
    \A s \in sessions : s.overtaken \/ s.password = admin
=============================================================================
