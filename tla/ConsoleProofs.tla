--------------------------- MODULE ConsoleProofs ---------------------------
(***************************************************************************)
(* What holds of the console's login for every number of requests at a     *)
(* time, every set of passwords, and every limit, window and lifetime, and *)
(* of the job list for all jobs, start times, limits and sizes of pages.   *)
(***************************************************************************)
EXTENDS ConsoleAuth, JobListing, FiniteSetTheorems, WellFoundedInduction, TLAPS

-----------------------------------------------------------------------------
(* Types *)

RequestSteps == {"idle", "hashing", "passed", "comparing", "entering"}

RequestStates ==
    [pc : RequestSteps, password : Passwords \union {NoPassword},
     stored : Passwords \union {NoPassword}, overtaken : BOOLEAN]

SessionRows == [password : Passwords, expires : Int, overtaken : BOOLEAN]

\* A request has a password, and one that compares has read another.
AuthTypeOK ==
    /\ admin \in Passwords \union {NoPassword}
    /\ sessions \subseteq SessionRows
    /\ blockedUntil \in Nat /\ now \in Nat /\ lateGuesses \in Nat
    /\ request \in [Requests -> RequestStates]
    /\ \A r \in Requests :
           /\ request[r].pc # "idle" => request[r].password \in Passwords
           /\ request[r].pc = "comparing" => request[r].stored \in Passwords

\* A request that begins.
NewRequest(step, p) == [NoRequest EXCEPT !.pc = step, !.password = p]

LEMMA NewRequestIsOne ==
    ASSUME NEW step \in RequestSteps, NEW p \in Passwords
    PROVE  /\ NewRequest(step, p) \in RequestStates
           /\ NewRequest(step, p).pc = step
           /\ NewRequest(step, p).password = p
  BY DEF NewRequest, NoRequest, RequestStates

\* What StorePassword does to the requests.
LEMMA StoreEffect ==
    ASSUME AuthTypeOK, NEW r \in Requests, StorePassword(r)
    PROVE  /\ request' \in [Requests -> RequestStates]
           /\ request'[r].pc = "entering" /\ request'[r].password = request[r].password
           /\ \A q \in Requests \ {r} :
                  /\ request'[q].pc = request[q].pc
                  /\ request'[q].password = request[q].password
                  /\ request'[q].stored = request[q].stored
                  /\ admin = NoPassword => request'[q].overtaken = request[q].overtaken
                  /\ admin # NoPassword /\ request[q].pc # "idle" => request'[q].overtaken
  <1> DEFINE mine == [request[r] EXCEPT !.pc = "entering", !.overtaken = FALSE]
  <1>1. /\ mine \in RequestStates
        /\ mine.pc = "entering" /\ mine.password = request[r].password
    BY DEF AuthTypeOK, RequestStates, RequestSteps
  <1>2. CASE admin = NoPassword
    <2>1. request' = [request EXCEPT ![r] = mine]
      BY <1>2 DEF StorePassword
    <2> HIDE DEF mine
    <2>2. QED
      BY <1>1, <1>2, <2>1 DEF AuthTypeOK
  <1>3. CASE admin # NoPassword
    <2> DEFINE late(q) == [request[q] EXCEPT !.overtaken = request[q].pc # "idle"]
    <2>1. request' = [[q \in Requests |-> late(q)] EXCEPT ![r] = mine]
      BY <1>3 DEF StorePassword, Overtaken
    <2>2. ASSUME NEW q \in Requests
          PROVE  /\ late(q) \in RequestStates
                 /\ late(q).pc = request[q].pc
                 /\ late(q).password = request[q].password
                 /\ late(q).stored = request[q].stored
                 /\ request[q].pc # "idle" => late(q).overtaken
      <3>1. request[q] \in RequestStates
        BY DEF AuthTypeOK
      <3>2. (request[q].pc # "idle") \in BOOLEAN
        OBVIOUS
      <3>3. QED
        BY <3>1, <3>2 DEF RequestStates
    <2> HIDE DEF mine, late
    <2>3. QED
      BY <1>1, <1>3, <2>1, <2>2
  <1>4. QED
    BY <1>2, <1>3

\* A request that has just read the hash.
HashRead(r) == [request[r] EXCEPT !.pc = "comparing", !.stored = admin, !.overtaken = FALSE]

LEMMA HashReadEffect ==
    ASSUME AuthTypeOK, NEW r \in Requests, ReadHash(r), admin # NoPassword
    PROVE  request' = [request EXCEPT ![r] = HashRead(r)]
  BY DEF ReadHash, GetAdminPasswordHash, HashRead, AuthTypeOK, RequestStates

LEMMA AuthTypes == AuthSpec => []AuthTypeOK
  <1>1. AuthInit => AuthTypeOK
    BY DEF AuthInit, AuthTypeOK, NoRequest, RequestStates, RequestSteps
  <1>2. AuthTypeOK /\ [AuthNext]_authVars => AuthTypeOK'
    <2> SUFFICES ASSUME AuthTypeOK, [AuthNext]_authVars PROVE AuthTypeOK'
      OBVIOUS
    <2>1. ASSUME NEW r \in Requests, BeginSetup(r) PROVE AuthTypeOK'
      <3>1. PICK p \in Passwords :
                request' = [request EXCEPT ![r] = NewRequest("hashing", p)]
        BY <2>1 DEF BeginSetup, NewRequest
      <3>2. request' \in [Requests -> RequestStates]
        BY <3>1, NewRequestIsOne DEF AuthTypeOK, RequestSteps
      <3>3. QED
        BY <2>1, <3>1, <3>2, NewRequestIsOne DEF BeginSetup, AuthTypeOK, RequestSteps
    <2>2. ASSUME NEW r \in Requests, StorePassword(r) PROVE AuthTypeOK'
      <3>1. /\ admin' = request[r].password /\ admin' \in Passwords
            /\ sessions' \in {sessions, {[s EXCEPT !.overtaken = TRUE] : s \in sessions}}
            /\ UNCHANGED <<blockedUntil, now, lateGuesses>>
        BY <2>2 DEF StorePassword, UpsertAdminPassword, AuthTypeOK
      <3>2. sessions' \subseteq SessionRows
        <4>1. \A s \in sessions : [s EXCEPT !.overtaken = TRUE] \in SessionRows
          BY DEF AuthTypeOK, SessionRows
        <4>2. QED
          BY <3>1, <4>1 DEF AuthTypeOK
      <3>3. /\ request' \in [Requests -> RequestStates]
            /\ request'[r].pc = "entering" /\ request'[r].password \in Passwords
        BY <2>2, StoreEffect DEF StorePassword, AuthTypeOK
      <3>4. \A q \in Requests \ {r} :
                /\ request'[q].pc = request[q].pc
                /\ request'[q].password = request[q].password
                /\ request'[q].stored = request[q].stored
        BY <2>2, StoreEffect
      <3>5. QED
        BY <3>1, <3>2, <3>3, <3>4 DEF AuthTypeOK
    <2>3. ASSUME NEW r \in Requests, PassLimit(r) PROVE AuthTypeOK'
      <3>1. PICK p \in Passwords :
                request' = [request EXCEPT ![r] = NewRequest("passed", p)]
        BY <2>3 DEF PassLimit, NewRequest
      <3>2. request' \in [Requests -> RequestStates]
        BY <3>1, NewRequestIsOne DEF AuthTypeOK, RequestSteps
      <3>3. QED
        BY <2>3, <3>1, <3>2, NewRequestIsOne DEF PassLimit, AuthTypeOK, RequestSteps
    <2>4. ASSUME NEW r \in Requests, ReadHash(r) PROVE AuthTypeOK'
      <3>1. UNCHANGED <<admin, sessions, blockedUntil, now, lateGuesses>>
        BY <2>4 DEF ReadHash
      <3>2. CASE admin = NoPassword
        <4>1. Done(r)
          BY <2>4, <3>2 DEF ReadHash, GetAdminPasswordHash
        <4>2. QED
          BY <3>1, <4>1
          DEF Done, NoRequest, AuthTypeOK, RequestStates, RequestSteps
      <3>3. CASE admin # NoPassword
        <4>1. request' = [request EXCEPT ![r] = HashRead(r)]
          BY <2>4, <3>3, HashReadEffect
        <4>2. HashRead(r) \in RequestStates
          BY <2>4 DEF HashRead, ReadHash, AuthTypeOK, RequestStates, RequestSteps
        <4>3. QED
          BY <2>4, <3>1, <3>3, <4>1, <4>2 DEF ReadHash, HashRead, AuthTypeOK
      <3>4. QED
        BY <3>2, <3>3
    <2>5. ASSUME NEW r \in Requests, GuessWrong(r) PROVE AuthTypeOK'
      BY <2>5, AuthAssumption
      DEF GuessWrong, Done, NoRequest, AuthTypeOK, RequestStates, RequestSteps,
          SessionRows
    <2>6. ASSUME NEW r \in Requests, GuessRight(r) PROVE AuthTypeOK'
      BY <2>6, AuthAssumption
      DEF GuessRight, AuthTypeOK, RequestStates, RequestSteps, SessionRows
    <2>7. ASSUME NEW r \in Requests, CreateSession(r) PROVE AuthTypeOK'
      BY <2>7, AuthAssumption
      DEF CreateSession, Done, NoRequest, InsertSession, DeleteExpiredSessions,
          AuthTypeOK, RequestStates, RequestSteps, SessionRows
    <2>8. ASSUME NEW r \in Requests, RequestFails(r) PROVE AuthTypeOK'
      BY <2>8, AuthAssumption
      DEF RequestFails, Done, NoRequest, AuthTypeOK, RequestStates, RequestSteps,
          SessionRows
    <2>9. ASSUME FindExpiredSession PROVE AuthTypeOK'
      BY <2>9, AuthAssumption
      DEF FindExpiredSession, FindSession, GetSession, DeleteSession, AuthTypeOK,
          RequestStates, RequestSteps, SessionRows
    <2>10. ASSUME Logout PROVE AuthTypeOK'
      BY <2>10, AuthAssumption
      DEF Logout, GetSession, DeleteSession, AuthTypeOK, RequestStates,
          RequestSteps, SessionRows
    <2>11. ASSUME ResetPassword PROVE AuthTypeOK'
      BY <2>11, AuthAssumption, ZenonT(30)
      DEF ResetPassword, Reset, DeleteAdmin, DeleteAllSessions, Overtaken,
          AuthTypeOK, RequestStates, RequestSteps, SessionRows
    <2>12. ASSUME RestartServer PROVE AuthTypeOK'
      BY <2>12, AuthAssumption
      DEF RestartServer, NoRequest, AuthTypeOK, RequestStates, RequestSteps,
          SessionRows
    <2>13. ASSUME PassTime PROVE AuthTypeOK'
      BY <2>13, AuthAssumption
      DEF PassTime, AuthTypeOK, RequestStates, RequestSteps, SessionRows
    <2>14. CASE UNCHANGED authVars
      BY <2>14 DEF authVars, AuthTypeOK, RequestStates, RequestSteps, SessionRows
    <2>15. QED
      BY <2>1, <2>2, <2>3, <2>4, <2>5, <2>6, <2>7, <2>8, <2>9, <2>10, <2>11,
         <2>12, <2>13, <2>14 DEF AuthNext
  <1>3. QED
    BY <1>1, <1>2, PTL DEF AuthSpec

-----------------------------------------------------------------------------
(* Who is logged in knows the password *)

\* A request that nobody has overtaken holds the present password: one that compares has
\* read it, one that is about to enter has proved that it knows it.
RequestsAreCurrent ==
    \A r \in Requests :
        ~request[r].overtaken =>
            /\ request[r].pc = "comparing" => request[r].stored = admin
            /\ request[r].pc = "entering" => request[r].password = admin

\* Every session that no reset and no second Setup has overtaken was made with the present
\* password, however logins, set-ups, resets and restarts fall together (service.go:65).
THEOREM SessionsAreCurrent == AuthSpec => []SessionsKnowThePassword
  <1>1. AuthInit => RequestsAreCurrent /\ SessionsKnowThePassword
    BY DEF AuthInit, NoRequest, RequestsAreCurrent, SessionsKnowThePassword
  <1>2. AuthTypeOK /\ RequestsAreCurrent /\ SessionsKnowThePassword /\ [AuthNext]_authVars
        => RequestsAreCurrent' /\ SessionsKnowThePassword'
    <2> SUFFICES ASSUME AuthTypeOK, RequestsAreCurrent, SessionsKnowThePassword,
                        [AuthNext]_authVars
                 PROVE  RequestsAreCurrent' /\ SessionsKnowThePassword'
      OBVIOUS
    <2>1. ASSUME NEW r \in Requests, BeginSetup(r)
          PROVE  RequestsAreCurrent' /\ SessionsKnowThePassword'
      BY <2>1, AuthAssumption
      DEF BeginSetup, NoRequest, AuthTypeOK, RequestStates, SessionRows,
          RequestsAreCurrent, SessionsKnowThePassword
    <2>2. ASSUME NEW r \in Requests, StorePassword(r)
          PROVE  RequestsAreCurrent' /\ SessionsKnowThePassword'
      <3>1. /\ admin' = request[r].password /\ admin' \in Passwords
            /\ sessions' = IF admin = NoPassword THEN sessions
                           ELSE {[s EXCEPT !.overtaken = TRUE] : s \in sessions}
        BY <2>2 DEF StorePassword, UpsertAdminPassword, AuthTypeOK
      <3>2. SessionsKnowThePassword'
        BY <3>1, AuthAssumption
        DEF SessionsKnowThePassword, AuthTypeOK, SessionRows
      <3>3. RequestsAreCurrent'
        <4>1. request'[r].pc = "entering" /\ request'[r].password = admin'
          BY <2>2, <3>1, StoreEffect
        <4>2. CASE admin = NoPassword
          BY <2>2, <3>1, <4>1, <4>2, StoreEffect, AuthAssumption
          DEF RequestsAreCurrent, AuthTypeOK
        <4>3. CASE admin # NoPassword
          BY <2>2, <4>1, <4>3, StoreEffect DEF RequestsAreCurrent
        <4>4. QED
          BY <4>2, <4>3
      <3>4. QED
        BY <3>2, <3>3
    <2>3. ASSUME NEW r \in Requests, PassLimit(r)
          PROVE  RequestsAreCurrent' /\ SessionsKnowThePassword'
      BY <2>3, AuthAssumption
      DEF PassLimit, NoRequest, AuthTypeOK, RequestStates, SessionRows,
          RequestsAreCurrent, SessionsKnowThePassword
    <2>4. ASSUME NEW r \in Requests, ReadHash(r)
          PROVE  RequestsAreCurrent' /\ SessionsKnowThePassword'
      BY <2>4, AuthAssumption
      DEF ReadHash, Done, NoRequest, GetAdminPasswordHash, AuthTypeOK,
          RequestStates, SessionRows, RequestsAreCurrent, SessionsKnowThePassword
    <2>5. ASSUME NEW r \in Requests, GuessWrong(r)
          PROVE  RequestsAreCurrent' /\ SessionsKnowThePassword'
      BY <2>5, AuthAssumption
      DEF GuessWrong, Done, NoRequest, AuthTypeOK, RequestStates, SessionRows,
          RequestsAreCurrent, SessionsKnowThePassword
    <2>6. ASSUME NEW r \in Requests, GuessRight(r)
          PROVE  RequestsAreCurrent' /\ SessionsKnowThePassword'
      BY <2>6, AuthAssumption
      DEF GuessRight, AuthTypeOK, RequestStates, SessionRows, RequestsAreCurrent,
          SessionsKnowThePassword
    <2>7. ASSUME NEW r \in Requests, CreateSession(r)
          PROVE  RequestsAreCurrent' /\ SessionsKnowThePassword'
      BY <2>7, AuthAssumption
      DEF CreateSession, Done, NoRequest, InsertSession, DeleteExpiredSessions,
          AuthTypeOK, RequestStates, SessionRows, RequestsAreCurrent,
          SessionsKnowThePassword
    <2>8. ASSUME NEW r \in Requests, RequestFails(r)
          PROVE  RequestsAreCurrent' /\ SessionsKnowThePassword'
      BY <2>8, AuthAssumption
      DEF RequestFails, Done, NoRequest, AuthTypeOK, RequestStates, SessionRows,
          RequestsAreCurrent, SessionsKnowThePassword
    <2>9. ASSUME FindExpiredSession
          PROVE  RequestsAreCurrent' /\ SessionsKnowThePassword'
      BY <2>9, AuthAssumption
      DEF FindExpiredSession, FindSession, GetSession, DeleteSession, AuthTypeOK,
          RequestStates, SessionRows, RequestsAreCurrent, SessionsKnowThePassword
    <2>10. ASSUME Logout
          PROVE  RequestsAreCurrent' /\ SessionsKnowThePassword'
      BY <2>10, AuthAssumption
      DEF Logout, GetSession, DeleteSession, AuthTypeOK, RequestStates, SessionRows,
          RequestsAreCurrent, SessionsKnowThePassword
    <2>11. ASSUME ResetPassword
          PROVE  RequestsAreCurrent' /\ SessionsKnowThePassword'
      BY <2>11, AuthAssumption
      DEF ResetPassword, Reset, DeleteAdmin, DeleteAllSessions, Overtaken,
          AuthTypeOK, RequestStates, SessionRows, RequestsAreCurrent,
          SessionsKnowThePassword
    <2>12. ASSUME RestartServer
          PROVE  RequestsAreCurrent' /\ SessionsKnowThePassword'
      BY <2>12, AuthAssumption
      DEF RestartServer, NoRequest, AuthTypeOK, RequestStates, SessionRows,
          RequestsAreCurrent, SessionsKnowThePassword
    <2>13. ASSUME PassTime
          PROVE  RequestsAreCurrent' /\ SessionsKnowThePassword'
      BY <2>13, AuthAssumption
      DEF PassTime, AuthTypeOK, RequestStates, SessionRows, RequestsAreCurrent,
          SessionsKnowThePassword
    <2>14. CASE UNCHANGED authVars
      BY <2>14 DEF authVars, RequestsAreCurrent, SessionsKnowThePassword
    <2>15. QED
      BY <2>1, <2>2, <2>3, <2>4, <2>5, <2>6, <2>7, <2>8, <2>9, <2>10, <2>11,
         <2>12, <2>13, <2>14 DEF AuthNext
  <1>3. QED
    BY <1>1, <1>2, AuthTypes, PTL DEF AuthSpec

-----------------------------------------------------------------------------
(* A block holds *)

\* Requests that are past the limit and have not compared yet.
PastTheLimit == {r \in Requests : request[r].pc \in {"passed", "comparing"}}

\* While a block is on, every password compared since it began was one of a request that is
\* past the limit no more.
BlockInv ==
    /\ lateGuesses <= Cardinality(Requests) - 1
    /\ now < blockedUntil =>
           lateGuesses + Cardinality(PastTheLimit) <= Cardinality(Requests) - 1

LEMMA Counts ==
    /\ Cardinality(Requests) \in Nat \ {0}
    /\ PastTheLimit \subseteq Requests
    /\ IsFiniteSet(PastTheLimit) /\ Cardinality(PastTheLimit) \in Nat
    /\ Cardinality(PastTheLimit) <= Cardinality(Requests)
  <1>1. PastTheLimit \subseteq Requests
    BY DEF PastTheLimit
  <1>2. QED
    BY <1>1, AuthAssumption, FS_Subset, FS_CardinalityType, FS_EmptySet

\* As long as no request passes the limit, a block only comes nearer to its end.
LEMMA NobodyPasses ==
    ASSUME AuthTypeOK, AuthTypeOK', BlockInv, lateGuesses' \in {0, lateGuesses},
           PastTheLimit' \subseteq PastTheLimit,
           now' >= now, blockedUntil' \in {0, blockedUntil}
    PROVE  BlockInv'
  <1>1. Cardinality(PastTheLimit') <= Cardinality(PastTheLimit)
    BY Counts, FS_Subset
  <1>2. Cardinality(PastTheLimit') \in Nat
    BY Counts, FS_Subset, FS_CardinalityType
  <1>3. QED
    BY <1>1, <1>2, Counts DEF BlockInv, AuthTypeOK

\* While the console is blocked, fewer passwords are compared than it handles requests at
\* once, for every limit and however many requests there are (service.go:84).
THEOREM BlocksHold == AuthSpec => []BlockHolds
  <1>1. AuthInit => BlockInv
    <2> SUFFICES ASSUME AuthInit PROVE BlockInv
      OBVIOUS
    <2>1. lateGuesses = 0 /\ ~(now < blockedUntil)
      BY DEF AuthInit
    <2>2. QED
      BY <2>1, Counts DEF BlockInv
  <1>2. AuthTypeOK /\ AuthTypeOK' /\ BlockInv /\ [AuthNext]_authVars => BlockInv'
    <2> SUFFICES ASSUME AuthTypeOK, AuthTypeOK', BlockInv, [AuthNext]_authVars
                 PROVE  BlockInv'
      OBVIOUS
    <2>1. ASSUME NEW r \in Requests, BeginSetup(r) PROVE BlockInv'
      <3>1. PastTheLimit' \subseteq PastTheLimit
        BY <2>1 DEF BeginSetup, PastTheLimit, AuthTypeOK, NoRequest
      <3>2. /\ lateGuesses' \in {0, lateGuesses} /\ now' >= now
            /\ blockedUntil' \in {0, blockedUntil}
        BY <2>1 DEF BeginSetup, AuthTypeOK
      <3>3. QED
        BY <3>1, <3>2, NobodyPasses
    <2>2. ASSUME NEW r \in Requests, StorePassword(r) PROVE BlockInv'
      <3>1. PastTheLimit' \subseteq PastTheLimit
        BY <2>2, StoreEffect DEF StorePassword, PastTheLimit, AuthTypeOK
      <3>2. /\ lateGuesses' \in {0, lateGuesses} /\ now' >= now
            /\ blockedUntil' \in {0, blockedUntil}
        BY <2>2 DEF StorePassword, AuthTypeOK
      <3>3. QED
        BY <3>1, <3>2, NobodyPasses
    <2>3. ASSUME NEW r \in Requests, PassLimit(r) PROVE BlockInv'
      <3>1. UNCHANGED <<blockedUntil, now, lateGuesses>> /\ now >= blockedUntil
        BY <2>3 DEF PassLimit
      <3>2. QED
        BY <3>1 DEF BlockInv, AuthTypeOK
    <2>4. ASSUME NEW r \in Requests, ReadHash(r) PROVE BlockInv'
      <3>1. PastTheLimit' \subseteq PastTheLimit
        BY <2>4
        DEF ReadHash, PastTheLimit, AuthTypeOK, Done, NoRequest, GetAdminPasswordHash
      <3>2. /\ lateGuesses' \in {0, lateGuesses} /\ now' >= now
            /\ blockedUntil' \in {0, blockedUntil}
        BY <2>4 DEF ReadHash, AuthTypeOK
      <3>3. QED
        BY <3>1, <3>2, NobodyPasses
    <2>5. ASSUME NEW r \in Requests, GuessWrong(r) PROVE BlockInv'
      <3>1. r \in PastTheLimit /\ PastTheLimit' = PastTheLimit \ {r}
        BY <2>5 DEF GuessWrong, Done, NoRequest, PastTheLimit, AuthTypeOK
      <3>2. /\ Cardinality(PastTheLimit') = Cardinality(PastTheLimit) - 1
            /\ Cardinality(PastTheLimit') \in Nat
        BY <3>1, Counts, FS_RemoveElement, FS_CardinalityType
      <3>3. /\ lateGuesses' \in {0, lateGuesses, lateGuesses + 1}
            /\ now < blockedUntil => lateGuesses' = lateGuesses + 1
            /\ now >= blockedUntil =>
                   \/ lateGuesses' = 0
                   \/ lateGuesses' = lateGuesses /\ blockedUntil' = blockedUntil
            /\ now' = now
        BY <2>5 DEF GuessWrong, AuthTypeOK
      <3>4. QED
        BY <3>2, <3>3, Counts DEF BlockInv, AuthTypeOK
    <2>6. ASSUME NEW r \in Requests, GuessRight(r) PROVE BlockInv'
      <3>1. PastTheLimit' \subseteq PastTheLimit
        BY <2>6 DEF GuessRight, PastTheLimit, AuthTypeOK
      <3>2. /\ lateGuesses' \in {0, lateGuesses} /\ now' >= now
            /\ blockedUntil' \in {0, blockedUntil}
        BY <2>6 DEF GuessRight, AuthTypeOK
      <3>3. QED
        BY <3>1, <3>2, NobodyPasses
    <2>7. ASSUME NEW r \in Requests, CreateSession(r) PROVE BlockInv'
      <3>1. PastTheLimit' \subseteq PastTheLimit
        BY <2>7 DEF CreateSession, PastTheLimit, AuthTypeOK, Done, NoRequest
      <3>2. /\ lateGuesses' \in {0, lateGuesses} /\ now' >= now
            /\ blockedUntil' \in {0, blockedUntil}
        BY <2>7 DEF CreateSession, AuthTypeOK
      <3>3. QED
        BY <3>1, <3>2, NobodyPasses
    <2>8. ASSUME NEW r \in Requests, RequestFails(r) PROVE BlockInv'
      <3>1. PastTheLimit' \subseteq PastTheLimit
        BY <2>8 DEF RequestFails, PastTheLimit, AuthTypeOK, Done, NoRequest
      <3>2. /\ lateGuesses' \in {0, lateGuesses} /\ now' >= now
            /\ blockedUntil' \in {0, blockedUntil}
        BY <2>8 DEF RequestFails, AuthTypeOK
      <3>3. QED
        BY <3>1, <3>2, NobodyPasses
    <2>9. ASSUME FindExpiredSession PROVE BlockInv'
      <3>1. PastTheLimit' \subseteq PastTheLimit
        BY <2>9 DEF FindExpiredSession, PastTheLimit, AuthTypeOK
      <3>2. /\ lateGuesses' \in {0, lateGuesses} /\ now' >= now
            /\ blockedUntil' \in {0, blockedUntil}
        BY <2>9 DEF FindExpiredSession, AuthTypeOK
      <3>3. QED
        BY <3>1, <3>2, NobodyPasses
    <2>10. ASSUME Logout PROVE BlockInv'
      <3>1. PastTheLimit' \subseteq PastTheLimit
        BY <2>10 DEF Logout, PastTheLimit, AuthTypeOK
      <3>2. /\ lateGuesses' \in {0, lateGuesses} /\ now' >= now
            /\ blockedUntil' \in {0, blockedUntil}
        BY <2>10 DEF Logout, AuthTypeOK
      <3>3. QED
        BY <3>1, <3>2, NobodyPasses
    <2>11. ASSUME ResetPassword PROVE BlockInv'
      <3>1. PastTheLimit' \subseteq PastTheLimit
        BY <2>11 DEF ResetPassword, PastTheLimit, AuthTypeOK, Overtaken
      <3>2. /\ lateGuesses' \in {0, lateGuesses} /\ now' >= now
            /\ blockedUntil' \in {0, blockedUntil}
        BY <2>11 DEF ResetPassword, AuthTypeOK
      <3>3. QED
        BY <3>1, <3>2, NobodyPasses
    <2>12. ASSUME RestartServer PROVE BlockInv'
      <3>1. PastTheLimit' \subseteq PastTheLimit
        BY <2>12 DEF RestartServer, PastTheLimit, AuthTypeOK, NoRequest
      <3>2. /\ lateGuesses' \in {0, lateGuesses} /\ now' >= now
            /\ blockedUntil' \in {0, blockedUntil}
        BY <2>12 DEF RestartServer, AuthTypeOK
      <3>3. QED
        BY <3>1, <3>2, NobodyPasses
    <2>13. ASSUME PassTime PROVE BlockInv'
      <3>1. PastTheLimit' \subseteq PastTheLimit
        BY <2>13 DEF PassTime, PastTheLimit, AuthTypeOK
      <3>2. /\ lateGuesses' \in {0, lateGuesses} /\ now' >= now
            /\ blockedUntil' \in {0, blockedUntil}
        BY <2>13 DEF PassTime, AuthTypeOK
      <3>3. QED
        BY <3>1, <3>2, NobodyPasses
    <2>14. CASE UNCHANGED authVars
      BY <2>14 DEF authVars, BlockInv, PastTheLimit
    <2>15. QED
      BY <2>1, <2>2, <2>3, <2>4, <2>5, <2>6, <2>7, <2>8, <2>9, <2>10, <2>11, <2>12,
         <2>13, <2>14 DEF AuthNext
  <1>3. BlockInv => BlockHolds
    BY DEF BlockInv, BlockHolds
  <1>4. QED
    BY <1>1, <1>2, <1>3, AuthTypes, PTL DEF AuthSpec

-----------------------------------------------------------------------------
(* The places of a list *)

\* What is within two finite sets has no more members than they have.
LEMMA UnionIsBounded ==
    ASSUME NEW A, IsFiniteSet(A), NEW B, IsFiniteSet(B), NEW C \in SUBSET (A \cup B)
    PROVE  /\ IsFiniteSet(A \cup B) /\ Cardinality(A \cup B) \in Nat
           /\ Cardinality(A \cup B) <= Cardinality(A) + Cardinality(B)
           /\ IsFiniteSet(C) /\ Cardinality(C) \in Nat
           /\ Cardinality(C) <= Cardinality(A) + Cardinality(B)
  <1>1. /\ IsFiniteSet(A \cup B)
        /\ Cardinality(A \cup B) = Cardinality(A) + Cardinality(B) - Cardinality(A \cap B)
    BY FS_Union
  <1>2. /\ Cardinality(A) \in Nat /\ Cardinality(B) \in Nat
        /\ Cardinality(A \cap B) \in Nat /\ Cardinality(A \cup B) \in Nat
    BY <1>1, FS_CardinalityType, FS_Intersection
  <1>3. IsFiniteSet(C) /\ Cardinality(C) \in Nat /\ Cardinality(C) <= Cardinality(A \cup B)
    BY <1>1, FS_Subset, FS_CardinalityType
  <1>4. QED
    BY <1>1, <1>2, <1>3

\* Of some numbers one is the least.
LEMMA LeastNumber ==
    ASSUME NEW T, T \subseteq Nat, T # {}
    PROVE  \E x \in T : \A y \in T : x <= y
  <1> DEFINE R == OpToRel(<,Nat)
  <1>1. IsWellFoundedOn(R, Nat)
    BY NatLessThanWellFounded
  <1> HIDE DEF R
  <1>2. PICK x \in T : \A y \in T : ~(<<y, x>> \in R)
    BY <1>1, WFMin
  <1>3. \A y \in T : y < x => <<y, x>> \in R
    BY DEF R, OpToRel
  <1>4. ASSUME NEW y \in T PROVE x <= y
    <2>1. x \in Nat /\ y \in Nat /\ ~(y < x)
      BY <1>2, <1>3
    <2>2. QED
      BY <2>1
  <1>5. QED
    BY <1>4

\* A list of records: finitely many, no two of one time.
Listable(ids, times) ==
    /\ IsFiniteSet(ids)
    /\ \A id \in ids : times[id] \in Nat
    /\ \A id, other \in ids : times[id] = times[other] => id = other

\* The first so many of a list.
FirstOf(ids, times, n) == {id \in ids : Place(id, ids, times) <= n}

\* Places are numbers from one to the length of the list, and the newer of two records has
\* the lower one.
LEMMA PlacesAreOrdered ==
    ASSUME NEW ids, NEW times, Listable(ids, times), NEW id \in ids
    PROVE  /\ Cardinality(ids) \in Nat
           /\ Place(id, ids, times) \in 1..Cardinality(ids)
           /\ \A other \in ids :
                  times[other] > times[id] => Place(other, ids, times) < Place(id, ids, times)
  <1> DEFINE upTo(a) == {other \in ids : times[other] >= times[a]}
  <1>1. \A a \in ids : /\ upTo(a) \in SUBSET ids
                       /\ a \in upTo(a)
                       /\ Place(a, ids, times) = Cardinality(upTo(a))
    BY DEF Listable, Place
  <1>2. Cardinality(ids) \in Nat /\ IsFiniteSet(ids)
    BY FS_CardinalityType DEF Listable
  <1>3. ASSUME NEW a \in ids
        PROVE  IsFiniteSet(upTo(a)) /\ Cardinality(upTo(a)) \in 1..Cardinality(ids)
    <2>1. IsFiniteSet(upTo(a)) /\ Cardinality(upTo(a)) <= Cardinality(ids)
      BY <1>1, <1>2, FS_Subset
    <2>2. Cardinality(upTo(a)) \in Nat /\ Cardinality(upTo(a)) # 0
      BY <1>1, <2>1, FS_CardinalityType, FS_EmptySet
    <2>3. QED
      BY <1>2, <2>1, <2>2
  <1>4. ASSUME NEW other \in ids, times[other] > times[id]
        PROVE  Cardinality(upTo(other)) < Cardinality(upTo(id))
    <2>1. /\ times[other] \in Nat /\ times[id] \in Nat
          /\ \A a \in ids : times[a] \in Nat
      BY DEF Listable
    <2>2. upTo(other) \in SUBSET upTo(id) /\ id \notin upTo(other) /\ id \in upTo(id)
      BY <1>4, <2>1
    <2>3. /\ Cardinality(upTo(other)) <= Cardinality(upTo(id))
          /\ Cardinality(upTo(other)) # Cardinality(upTo(id))
      BY <1>3, <2>2, FS_Subset
    <2>4. Cardinality(upTo(other)) \in Nat /\ Cardinality(upTo(id)) \in Nat
      BY <1>3, <1>2
    <2>5. QED
      BY <2>3, <2>4
  <1>5. QED
    BY <1>1, <1>2, <1>3, <1>4

\* The first so many are that many, or all there are.
LEMMA FirstAreFull ==
    ASSUME NEW ids, NEW times, Listable(ids, times), NEW n \in Nat
    PROVE  LET first == FirstOf(ids, times, n)
           IN  /\ IsFiniteSet(first) /\ Cardinality(first) \in Nat
               /\ Cardinality(first) <= n
               /\ first # ids => Cardinality(first) = n
  <1> DEFINE first == FirstOf(ids, times, n)
             upTo(a) == {other \in ids : times[other] >= times[a]}
  <1>1. \A a \in ids : Place(a, ids, times) = Cardinality(upTo(a)) /\ times[a] \in Nat
    BY DEF Place, Listable
  <1>2. first \in SUBSET ids /\ IsFiniteSet(ids)
    BY DEF FirstOf, Listable
  <1>3. IsFiniteSet(first) /\ Cardinality(first) \in Nat
    BY <1>2, FS_Subset, FS_CardinalityType
  <1>4. Cardinality(first) <= n
    <2>1. CASE first = {}
      BY <2>1, FS_EmptySet
    <2>2. CASE first # {}
      <3> DEFINE dates == {times[a] : a \in first}
      <3>1. dates \subseteq Nat /\ dates # {}
        BY <1>1, <1>2, <2>2
      <3>2. PICK oldest \in first : \A a \in first : times[oldest] <= times[a]
        <4>1. \E date \in dates : \A y \in dates : date <= y
          <5> HIDE DEF dates
          <5>1. QED
            BY <3>1, LeastNumber
        <4>2. QED
          BY <4>1
      <3>3. first \in SUBSET upTo(oldest)
        BY <1>1, <1>2, <3>2
      <3>4. Cardinality(upTo(oldest)) <= n
        BY <1>1, <1>2 DEF FirstOf
      <3>5. upTo(oldest) \in SUBSET ids
        OBVIOUS
      <3>6. IsFiniteSet(upTo(oldest)) /\ Cardinality(upTo(oldest)) \in Nat
        BY <1>2, <3>5, FS_Subset, FS_CardinalityType
      <3>7. Cardinality(first) <= Cardinality(upTo(oldest))
        BY <3>3, <3>6, FS_Subset
      <3>8. QED
        BY <1>3, <3>4, <3>6, <3>7
    <2>3. QED
      BY <2>1, <2>2
  <1>5. ASSUME first # ids PROVE Cardinality(first) >= n
    <2> DEFINE rest == ids \ first
               places == {Place(a, ids, times) : a \in rest}
    <2>1. \A a \in ids : Place(a, ids, times) \in Nat
      BY PlacesAreOrdered
    <2>2. places \subseteq Nat /\ places # {}
      BY <1>2, <1>5, <2>1
    <2>3. PICK next \in rest : \A a \in rest : Place(next, ids, times) <= Place(a, ids, times)
      <3>1. \E place \in places : \A y \in places : place <= y
        <4> HIDE DEF places
        <4>1. QED
          BY <2>2, LeastNumber
      <3>2. QED
        BY <3>1
    <2>4. Place(next, ids, times) > n
      BY <2>1 DEF FirstOf
    <2>5. upTo(next) \ {next} \in SUBSET first
      <3> SUFFICES ASSUME NEW a \in upTo(next), a # next PROVE a \in first
        OBVIOUS
      <3>1. times[a] \in Nat /\ times[next] \in Nat /\ times[a] # times[next]
        BY DEF Listable
      <3>2. Place(a, ids, times) < Place(next, ids, times)
        BY <3>1, PlacesAreOrdered
      <3>3. QED
        BY <2>1, <2>3, <3>2
    <2>6. IsFiniteSet(upTo(next))
      BY <1>2, FS_Subset
    <2>7. /\ Cardinality(upTo(next) \ {next}) = Cardinality(upTo(next)) - 1
          /\ Cardinality(upTo(next)) \in Nat
          /\ Cardinality(upTo(next) \ {next}) <= Cardinality(first)
      <3>1. next \in upTo(next)
        <4>1. times[next] \in Nat /\ next \in ids
          BY <1>1
        <4>2. QED
          BY <4>1
      <3>2. Cardinality(upTo(next) \ {next}) = Cardinality(upTo(next)) - 1
        BY <2>6, <3>1, FS_RemoveElement
      <3>3. Cardinality(upTo(next)) \in Nat
        BY <2>6, FS_CardinalityType
      <3>4. Cardinality(upTo(next) \ {next}) <= Cardinality(first)
        BY <1>3, <2>5, FS_Subset
      <3>5. QED
        BY <3>2, <3>3, <3>4
    <2>8. QED
      BY <1>1, <1>3, <2>4, <2>7
  <1>6. QED
    BY <1>3, <1>4, <1>5

\* When a list changes, no more of its records come among the first so many than have left
\* them for good.
LEMMA FewMoveUp ==
    ASSUME NEW ids, NEW times, Listable(ids, times),
           NEW later, NEW then, Listable(later, then),
           \A id \in ids \cap later : times[id] = then[id],
           NEW n \in Nat
    PROVE  LET first == FirstOf(ids, times, n)
               after == FirstOf(later, then, n)
           IN  /\ IsFiniteSet((after \ first) \cap ids)
               /\ Cardinality((after \ first) \cap ids) <= Cardinality(first \ later)
  <1> DEFINE first == FirstOf(ids, times, n)
             after == FirstOf(later, then, n)
             up == (after \ first) \cap ids
  <1>1. /\ IsFiniteSet(first) /\ Cardinality(first) \in Nat
        /\ first # ids => Cardinality(first) = n
    BY FirstAreFull
  <1>2. IsFiniteSet(after) /\ Cardinality(after) \in Nat /\ Cardinality(after) <= n
    BY FirstAreFull
  <1>3. first \subseteq ids /\ after \subseteq later
    BY DEF FirstOf
  <1>4. IsFiniteSet(up) /\ Cardinality(up) \in Nat
    BY <1>2, FS_Subset, FS_CardinalityType
  <1>5. /\ Cardinality(first \ later) = Cardinality(first) - Cardinality(first \cap later)
        /\ Cardinality(first \ later) \in Nat
        /\ IsFiniteSet(first \cap later) /\ Cardinality(first \cap later) \in Nat
    BY <1>1, FS_Difference, FS_Intersection, FS_CardinalityType
  <1>6. CASE up = {}
    BY <1>4, <1>5, <1>6, FS_EmptySet
  <1>7. CASE up # {}
    <2>1. PICK x \in up : TRUE
      BY <1>7
    <2>2. x \in ids \cap later /\ x \notin first /\ x \in after
      BY <1>3
    <2>3. Cardinality(first) = n
      BY <1>1, <2>2
    <2>4. ASSUME NEW y \in first \cap later PROVE y \in after
      <3>1. y \in ids /\ x \in ids /\ y \in later /\ x \in later
        BY <1>3, <2>2
      <3>2. /\ times[x] \in Nat /\ times[y] \in Nat
            /\ times[x] = then[x] /\ times[y] = then[y]
        BY <3>1 DEF Listable
      <3>3. /\ Place(x, ids, times) \in Nat /\ Place(y, ids, times) \in Nat
            /\ Place(x, later, then) \in Nat /\ Place(y, later, then) \in Nat
        BY <3>1, PlacesAreOrdered
      <3>4. Place(y, ids, times) <= n /\ ~(Place(x, ids, times) <= n) /\ Place(x, later, then) <= n
        BY <2>2, <3>1 DEF FirstOf
      <3>5. ~(times[x] > times[y]) /\ times[x] # times[y]
        <4>1. times[x] > times[y] => Place(x, ids, times) < Place(y, ids, times)
          BY <3>1, PlacesAreOrdered
        <4>2. times[x] = times[y] => x = y
          BY <3>1 DEF Listable
        <4>3. QED
          BY <3>3, <3>4, <4>1, <4>2
      <3>6. Place(y, later, then) < Place(x, later, then)
        BY <3>1, <3>2, <3>5, PlacesAreOrdered
      <3>7. QED
        BY <3>1, <3>3, <3>4, <3>6 DEF FirstOf
    <2>5. /\ (first \cap later) \cup up \in SUBSET after
          /\ (first \cap later) \cap up = {}
      BY <2>4
    <2>6. /\ Cardinality((first \cap later) \cup up)
                = Cardinality(first \cap later) + Cardinality(up)
          /\ Cardinality((first \cap later) \cup up) <= Cardinality(after)
      <3>1. Cardinality((first \cap later) \cup up)
                = Cardinality(first \cap later) + Cardinality(up)
                    - Cardinality((first \cap later) \cap up)
        BY <1>4, <1>5, FS_Union
      <3>2. Cardinality((first \cap later) \cap up) = 0
        BY <2>5, FS_EmptySet
      <3>3. Cardinality((first \cap later) \cup up) <= Cardinality(after)
        BY <1>2, <2>5, FS_Subset
      <3>4. QED
        BY <1>4, <1>5, <3>1, <3>2, <3>3
    <2>7. QED
      BY <1>1, <1>2, <1>4, <1>5, <2>3, <2>6
  <1>8. QED
    BY <1>6, <1>7
-----------------------------------------------------------------------------
(* Reading page by page *)

Listed == Matching(result, startedAt, reader.status)

\* What the pages so far have covered, were they read from the list of now.
Passed == IF Reading THEN FirstOf(Listed, startedAt, reader.cursor) ELSE Listed

ListTypeOK ==
    /\ result \in [Records -> {"none", "running", "done"}]
    /\ startedAt \in [Records -> Nat]
    /\ Ordered(result, startedAt)
    /\ reader \in [status : Statuses, size : Nat, cursor : Nat,
                   seen : SUBSET Records, repeats : Nat]
    /\ steady \subseteq Listed
    /\ departed \in Nat /\ arrived \in Nat

\* Records that stayed and were passed over are no more than those that left; what was
\* shown twice, and what was shown and is yet to come again, no more than those that came.
PagesInv ==
    /\ Cardinality((Passed \cap steady) \ reader.seen) <= departed
    /\ reader.repeats + Cardinality(reader.seen \cap (Listed \ Passed)) <= arrived

\* Any set of records that have a row is a list.
LEMMA ListIsListable ==
    ASSUME NEW results \in [Records -> {"none", "running", "done"}],
           NEW times \in [Records -> Nat],
           Ordered(results, times), NEW status
    PROVE  /\ Listable(Matching(results, times, status), times)
           /\ Matching(results, times, status) \subseteq
                {id \in Records : results[id] # "none"}
  <1>1. Matching(results, times, status) \subseteq {id \in Records : results[id] # "none"}
    BY DEF Matching, ListJobsNewestFirst
  <1>2. IsFiniteSet(Matching(results, times, status))
    BY <1>1, ListingAssumption, FS_Subset
  <1>3. QED
    BY <1>1, <1>2 DEF Listable, Ordered

\* Each row that stays, stays at its time.
RowsInPlace ==
    /\ result' \in [Records -> {"none", "running", "done"}]
    /\ startedAt' \in [Records -> Nat]
    /\ Ordered(result', startedAt')
    /\ \A id \in Records :
           result[id] # "none" /\ result'[id] # "none" => startedAt'[id] = startedAt[id]

\* A row keeps its time for as long as it is there, and no two rows come to one time.
LEMMA RowsKeepTheirTime ==
    ASSUME ListTypeOK,
           \/ \E id \in Records : RowStarted(id) \/ RowCompleted(id) \/ RowDeleted(id)
           \/ \E id, other \in Records : RowRenamed(id, other)
    PROVE  RowsInPlace /\ Change
  <1>1. ASSUME NEW id \in Records, NEW outcome \in {"running", "done"}, PutRow(id, outcome)
        PROVE  RowsInPlace /\ Change
    <2>1. PICK time \in IF result[id] = "none" THEN 0..MaxTime ELSE {startedAt[id]} :
            startedAt' = [startedAt EXCEPT ![id] = time]
      BY <1>1 DEF PutRow
    <2>2. time \in Nat /\ (result[id] # "none" => time = startedAt[id])
      BY <2>1, ListingAssumption DEF ListTypeOK
    <2>3. QED
      BY <1>1, <2>1, <2>2 DEF PutRow, ListTypeOK, RowsInPlace
  <1>2. ASSUME NEW id \in Records, RowDeleted(id)
        PROVE  RowsInPlace /\ Change
    BY <1>2 DEF RowDeleted, ListTypeOK, Ordered, RowsInPlace
  <1>3. ASSUME NEW id \in Records, NEW other \in Records, RowRenamed(id, other)
        PROVE  RowsInPlace /\ Change
    <2>1. /\ result \in [Records -> {"none", "running", "done"}]
          /\ startedAt \in [Records -> Nat]
          /\ result[id] = "running" /\ result[other] = "none" /\ Change
          /\ result' = [result EXCEPT ![id] = "none", ![other] = "running"]
          /\ startedAt' = [startedAt EXCEPT ![id] = 0, ![other] = startedAt[id]]
      BY <1>3 DEF RowRenamed, ListTypeOK
    <2>2. id # other
      BY <2>1
    <2>3. /\ result' \in [Records -> {"none", "running", "done"}]
          /\ startedAt' \in [Records -> Nat]
      BY <2>1
    <2>4. /\ result'[id] = "none" /\ result'[other] = "running"
          /\ startedAt'[other] = startedAt[id]
          /\ \A a \in Records \ {id, other} :
                result'[a] = result[a] /\ startedAt'[a] = startedAt[a]
      BY <2>1, <2>2
    <2>5. Ordered(result', startedAt')
      <3> SUFFICES ASSUME NEW a \in Records, NEW b \in Records,
                          result'[a] # "none", result'[b] # "none",
                          startedAt'[a] = startedAt'[b]
                   PROVE  a = b
        BY DEF Ordered
      <3>1. \A c, d \in Records :
              result[c] # "none" /\ result[d] # "none" /\ startedAt[c] = startedAt[d] => c = d
        BY DEF ListTypeOK, Ordered
      <3>2. a # id /\ b # id
        BY <2>4
      <3>3. CASE a = other /\ b # other
        BY <2>1, <2>4, <3>1, <3>2, <3>3
      <3>4. CASE a # other /\ b = other
        BY <2>1, <2>4, <3>1, <3>2, <3>4
      <3>5. CASE a # other /\ b # other
        BY <2>4, <3>1, <3>2, <3>5
      <3>6. QED
        BY <3>3, <3>4, <3>5
    <2>6. QED
      BY <2>1, <2>3, <2>4, <2>5 DEF RowsInPlace
  <1>4. QED
    BY <1>1, <1>2, <1>3 DEF RowStarted, RowCompleted

\* A change of the table leaves out or repeats no more than it takes from the list or adds
\* to it.
LEMMA ChangesAreCounted ==
    ASSUME ListTypeOK, PagesInv, Change, RowsInPlace
    PROVE  ListTypeOK' /\ PagesInv'
  <1> DEFINE before == Listed
             later == Listed'
             old == Passed
             new == Passed'
  <1>1. /\ Listable(before, startedAt) /\ Listable(later, startedAt')
        /\ \A id \in before \cap later : startedAt[id] = startedAt'[id]
        /\ before \subseteq Records /\ later \subseteq Records
        /\ before \cap later \subseteq Records
    BY ListIsListable DEF ListTypeOK, Listed, Change, RowsInPlace
  <1>2. /\ reader' = reader /\ steady' = steady \cap later
        /\ departed' = departed + Cardinality(before \ later)
        /\ arrived' = arrived + Cardinality(later \ before)
    BY DEF Change, Listed
  <1>3. /\ IsFiniteSet(before) /\ IsFiniteSet(later) /\ IsFiniteSet(Records)
        /\ reader.cursor \in Nat /\ reader.repeats \in Nat
        /\ reader.seen \subseteq Records /\ steady \subseteq before
        /\ departed \in Nat /\ arrived \in Nat
    BY <1>1, ListingAssumption DEF Listable, ListTypeOK
  <1>4. /\ IsFiniteSet(before \ later) /\ Cardinality(before \ later) \in Nat
        /\ IsFiniteSet(later \ before) /\ Cardinality(later \ before) \in Nat
    BY <1>3, FS_Difference, FS_CardinalityType
  <1>5. old \subseteq before /\ new \subseteq later
    BY DEF Passed, FirstOf
  <1>6. ListTypeOK'
    <2>1. steady' \subseteq Listed'
      BY <1>2
    <2>2. departed' \in Nat /\ arrived' \in Nat
      <3> HIDE DEF before, later
      <3>1. QED
        BY <1>2, <1>3, <1>4
    <2>3. reader' \in [status : Statuses, size : Nat, cursor : Nat,
                       seen : SUBSET Records, repeats : Nat]
      BY <1>2 DEF ListTypeOK
    <2>4. QED
      BY <2>1, <2>2, <2>3 DEF ListTypeOK, RowsInPlace
  <1>7. /\ IsFiniteSet((new \ old) \cap before)
        /\ Cardinality((new \ old) \cap before) <= Cardinality(old \ later)
        /\ IsFiniteSet((old \ new) \cap later)
        /\ Cardinality((old \ new) \cap later) <= Cardinality(new \ before)
    <2>1. CASE Reading
      <3>1. /\ old = FirstOf(before, startedAt, reader.cursor)
            /\ new = FirstOf(later, startedAt', reader.cursor)
        BY <1>2, <2>1 DEF Passed, Reading
      <3>2. QED
        BY <1>1, <1>3, <3>1, FewMoveUp
    <2>2. CASE ~Reading
      <3>1. old = before /\ new = later
        BY <1>2, <2>2 DEF Passed, Reading
      <3>2. (new \ old) \cap before = {} /\ (old \ new) \cap later = {}
        BY <3>1
      <3>3. QED
        BY <1>4, <3>1, <3>2, FS_EmptySet
    <2>3. QED
      BY <2>1, <2>2
  <1> HIDE DEF before, later, old, new
  <1>8. Cardinality((new \cap steady') \ reader.seen) <= departed'
    <2> DEFINE missed == (old \cap steady) \ reader.seen
               up == (new \ old) \cap before
               passed == (new \cap steady') \ reader.seen
    <2>1. passed \in SUBSET (missed \cup up)
      BY <1>2, <1>3
    <2>2. IsFiniteSet(missed) /\ Cardinality(missed) \in Nat /\ Cardinality(missed) <= departed
      <3>1. missed \in SUBSET before
        BY <1>5
      <3>2. QED
        BY <1>3, <3>1, FS_Subset, FS_CardinalityType DEF PagesInv, old
    <2>3. IsFiniteSet(up) /\ Cardinality(up) \in Nat /\ Cardinality(up) <= Cardinality(before \ later)
      <3>1. old \ later \in SUBSET (before \ later)
        BY <1>5
      <3>2. Cardinality(old \ later) <= Cardinality(before \ later) /\ Cardinality(old \ later) \in Nat
        BY <1>4, <3>1, FS_Subset, FS_CardinalityType
      <3>3. Cardinality(up) \in Nat
        BY <1>7, FS_CardinalityType
      <3>4. QED
        BY <1>4, <1>7, <3>2, <3>3
    <2> HIDE DEF missed, up, passed
    <2>4. /\ Cardinality(passed) \in Nat
          /\ Cardinality(passed) <= Cardinality(missed) + Cardinality(up)
      BY <2>1, <2>2, <2>3, UnionIsBounded
    <2>5. Cardinality(passed) <= departed'
      BY <1>2, <1>3, <1>4, <2>2, <2>3, <2>4
    <2>6. QED
      BY <2>5 DEF passed
  <1>9. reader.repeats + Cardinality(reader.seen \cap (later \ new)) <= arrived'
    <2> DEFINE again == reader.seen \cap (before \ old)
               down == (old \ new) \cap later
               come == (later \ new) \ before
               more == down \cup come
               ahead == reader.seen \cap (later \ new)
    <2>1. ahead \in SUBSET (again \cup more)
      OBVIOUS
    <2>2. /\ IsFiniteSet(again) /\ Cardinality(again) \in Nat
          /\ reader.repeats + Cardinality(again) <= arrived
      <3>1. again \in SUBSET before
        OBVIOUS
      <3>2. QED
        BY <1>3, <3>1, FS_Subset, FS_CardinalityType DEF PagesInv, old, before
    <2>3. /\ IsFiniteSet(more) /\ Cardinality(more) \in Nat
          /\ Cardinality(more) <= Cardinality(later \ before)
      <3> DEFINE entered == later \ before
                 shown == new \ before
      <3>1. /\ shown \in SUBSET entered
            /\ come = entered \ shown
            /\ entered \cap shown = shown
        BY <1>5
      <3>2. /\ IsFiniteSet(shown) /\ Cardinality(shown) \in Nat
            /\ IsFiniteSet(come) /\ Cardinality(come) \in Nat
            /\ Cardinality(come) = Cardinality(entered) - Cardinality(shown)
        <4>1. IsFiniteSet(entered)
          BY <1>4
        <4> HIDE DEF entered, shown, come
        <4>2. IsFiniteSet(shown)
          BY <3>1, <4>1, FS_Subset
        <4>3. /\ IsFiniteSet(entered \ shown)
              /\ Cardinality(entered \ shown)
                   = Cardinality(entered) - Cardinality(entered \cap shown)
          BY <4>1, FS_Difference
        <4>4. /\ Cardinality(shown) \in Nat
              /\ Cardinality(entered \ shown) \in Nat
          BY <4>2, <4>3, FS_CardinalityType
        <4>5. QED
          BY <3>1, <4>2, <4>3, <4>4
      <3>3. IsFiniteSet(down) /\ Cardinality(down) \in Nat
        BY <1>7, FS_CardinalityType
      <3> HIDE DEF down, come
      <3>4. /\ IsFiniteSet(more) /\ Cardinality(more) \in Nat
            /\ Cardinality(more) <= Cardinality(down) + Cardinality(come)
        BY <3>2, <3>3, UnionIsBounded
      <3>5. Cardinality(down) <= Cardinality(shown)
        BY <1>7 DEF down
      <3>6. Cardinality(entered) \in Nat
        BY <1>4
      <3> HIDE DEF entered, shown, more
      <3>7. Cardinality(more) <= Cardinality(entered)
        BY <3>2, <3>3, <3>4, <3>5, <3>6
      <3>8. QED
        BY <3>4, <3>7 DEF entered
    <2> HIDE DEF again, more, ahead
    <2>4. /\ Cardinality(ahead) \in Nat
          /\ Cardinality(ahead) <= Cardinality(again) + Cardinality(more)
      BY <2>1, <2>2, <2>3, UnionIsBounded
    <2>5. reader.repeats + Cardinality(ahead) <= arrived'
      BY <1>2, <1>3, <1>4, <2>2, <2>3, <2>4
    <2>6. QED
      BY <2>5 DEF ahead
  <1>10. QED
    BY <1>2, <1>6, <1>8, <1>9 DEF PagesInv, later, new

\* What a page shows.
OnPage(ids, times, start, size) ==
    {id \in ids : Place(id, ids, times) \in (start + 1)..(start + size)}

\* A page holds what comes next, and where the pages stand after it is where it ends.
LEMMA PagesFollow ==
    ASSUME NEW ids, NEW times, Listable(ids, times), NEW start \in Nat, NEW size \in Nat,
           NEW end, end = start + size, end > 0,
           NEW next, next = NextCursor(ids, start, size)
    PROVE  /\ next \in Nat
           /\ OnPage(ids, times, start, size)
                = FirstOf(ids, times, end) \ FirstOf(ids, times, start)
           /\ FirstOf(ids, times, start) \subseteq FirstOf(ids, times, end)
           /\ FirstOf(ids, times, end) = IF next > 0 THEN FirstOf(ids, times, next) ELSE ids
           /\ FirstOf(ids, times, 0) = {}
  <1>1. /\ Cardinality(ids) \in Nat
        /\ \A id \in ids : Place(id, ids, times) \in 1..Cardinality(ids)
    <2>1. Cardinality(ids) \in Nat
      BY FS_CardinalityType DEF Listable
    <2>2. QED
      BY <2>1, PlacesAreOrdered
  <1>2. CASE end < Cardinality(ids)
    <2>1. next = end
      BY <1>2 DEF NextCursor
    <2>2. QED
      BY <1>1, <2>1 DEF FirstOf, OnPage
  <1>3. CASE ~(end < Cardinality(ids))
    <2>1. next = 0
      BY <1>3 DEF NextCursor
    <2>2. QED
      BY <1>1, <1>3, <2>1 DEF FirstOf, OnPage
  <1>4. QED
    BY <1>2, <1>3

\* The list that is read is one, whatever filter it is read with.
LEMMA ListsAreListable ==
    ASSUME ListTypeOK, NEW status
    PROVE  /\ Listable(Matching(result, startedAt, status), startedAt)
           /\ Matching(result, startedAt, status) \subseteq Records
  BY ListIsListable DEF ListTypeOK

\* A page has room, whatever size is asked for.
LEMMA PagesHaveRoom ==
    ASSUME NEW size
    PROVE  PageSizeOf(size) \in Nat \ {0}
  <1>1. LargestPage \in Nat /\ DefaultPage \in 1..LargestPage
    BY ListingAssumption
  <1>2. QED
    BY <1>1 DEF PageSizeOf

\* A first page misses nothing and repeats nothing.
LEMMA FirstPageIsExact ==
    ASSUME ListTypeOK, ReadFirstPage
    PROVE  ListTypeOK' /\ PagesInv'
  <1>1. PICK status \in Statuses, count \in Nat \ {0} :
          LET page == List(status, 0, count)
          IN  /\ reader' = [status |-> status, size |-> count, cursor |-> page.next,
                            seen |-> page.records, repeats |-> 0]
              /\ steady' = Matching(result, startedAt, status)
    BY PagesHaveRoom DEF ReadFirstPage
  <1> DEFINE records == Matching(result, startedAt, status)
             start == 0
             end == start + count
             next == NextCursor(records, start, count)
             shown == OnPage(records, startedAt, start, count)
  <1>2. /\ reader' = [status |-> status, size |-> count, cursor |-> next,
                      seen |-> shown, repeats |-> 0]
        /\ steady' = records /\ departed' = 0 /\ arrived' = 0
        /\ result' = result /\ startedAt' = startedAt
    BY <1>1 DEF List, ReadFirstPage, OnPage
  <1>3. Listable(records, startedAt) /\ records \subseteq Records
    BY ListsAreListable
  <1>4. start \in Nat /\ count \in Nat /\ end = start + count /\ end > 0 /\ start = 0
    BY <1>1
  <1> HIDE DEF records, start, end
  <1>5. next = NextCursor(records, start, count)
    OBVIOUS
  <1> HIDE DEF next
  <1>6. /\ next \in Nat
        /\ shown = FirstOf(records, startedAt, end) \ FirstOf(records, startedAt, start)
        /\ FirstOf(records, startedAt, end)
             = IF next > 0 THEN FirstOf(records, startedAt, next) ELSE records
        /\ FirstOf(records, startedAt, 0) = {}
    BY <1>3, <1>4, <1>5, PagesFollow
  <1> HIDE DEF shown
  <1>7. /\ reader'.status = status /\ reader'.cursor = next
        /\ reader'.seen = shown /\ reader'.repeats = 0
    BY <1>2
  <1>8. Listed' = records
    BY <1>2, <1>7 DEF Listed, records
  <1>9. Passed' = shown
    BY <1>2, <1>4, <1>6, <1>7, <1>8 DEF Passed, Reading
  <1>10. shown \subseteq Records
    BY <1>3 DEF shown, OnPage
  <1>11. ListTypeOK'
    <2>1. reader' \in [status : Statuses, size : Nat, cursor : Nat,
                       seen : SUBSET Records, repeats : Nat]
      BY <1>2, <1>4, <1>6, <1>10
    <2>2. QED
      BY <1>2, <1>8, <2>1 DEF ListTypeOK
  <1>12. /\ (Passed' \cap steady') \ reader'.seen = {}
         /\ reader'.seen \cap (Listed' \ Passed') = {}
    BY <1>7, <1>9
  <1>13. Cardinality({}) = 0
    BY FS_EmptySet
  <1>14. PagesInv'
    <2>1. /\ Cardinality((Passed' \cap steady') \ reader'.seen) = 0
          /\ Cardinality(reader'.seen \cap (Listed' \ Passed')) = 0
      BY <1>12, <1>13
    <2>2. QED
      BY <1>2, <1>7, <2>1 DEF PagesInv
  <1>15. QED
    BY <1>11, <1>14

\* A further page shows what is next, and what it shows again had come before it already.
LEMMA NextPageIsExact ==
    ASSUME ListTypeOK, PagesInv, ReadNextPage
    PROVE  ListTypeOK' /\ PagesInv'
  <1> DEFINE records == Listed
             end == reader.cursor + reader.size
             next == NextCursor(records, reader.cursor, reader.size)
             shown == OnPage(records, startedAt, reader.cursor, reader.size)
             again == shown \cap reader.seen
  <1>1. /\ Reading
        /\ reader' = [reader EXCEPT !.cursor = next, !.seen = @ \union shown,
                                    !.repeats = @ + Cardinality(again)]
        /\ UNCHANGED <<result, startedAt, steady, departed, arrived, changes>>
    BY DEF ReadNextPage, List, Listed, OnPage
  <1>2. Listable(records, startedAt) /\ records \subseteq Records
    BY ListsAreListable DEF Listed
  <1>3. /\ reader.cursor \in Nat /\ reader.size \in Nat /\ reader.cursor > 0
        /\ reader.repeats \in Nat /\ reader.seen \subseteq Records
        /\ steady \subseteq records /\ departed \in Nat /\ arrived \in Nat
    BY <1>1 DEF ListTypeOK, Reading
  <1>4. /\ reader'.status = reader.status /\ reader'.size = reader.size
        /\ reader'.cursor = next /\ reader'.seen = reader.seen \cup shown
        /\ reader'.repeats = reader.repeats + Cardinality(again)
        /\ reader' \in [status : Statuses, size : {reader.size}, cursor : {next},
                        seen : {reader.seen \cup shown},
                        repeats : {reader.repeats + Cardinality(again)}]
    BY <1>1 DEF ListTypeOK
  <1>5. Listed' = records
    BY <1>1, <1>4 DEF Listed
  <1>6. Passed = FirstOf(records, startedAt, reader.cursor)
    BY <1>1 DEF Passed
  <1> HIDE DEF records
  <1>7. /\ next \in Nat
        /\ shown = FirstOf(records, startedAt, end) \ Passed
        /\ Passed \subseteq FirstOf(records, startedAt, end)
        /\ FirstOf(records, startedAt, end)
             = IF next > 0 THEN FirstOf(records, startedAt, next) ELSE records
    <2>1. /\ end = reader.cursor + reader.size /\ end > 0
          /\ next = NextCursor(records, reader.cursor, reader.size)
      BY <1>3
    <2> HIDE DEF end, next
    <2>2. QED
      BY <1>2, <1>3, <1>6, <2>1, PagesFollow
  <1> HIDE DEF next, end
  <1>8. Passed' = Passed \cup shown
    BY <1>1, <1>4, <1>5, <1>7 DEF Passed, Reading
  <1>9. shown \subseteq records /\ shown \cap Passed = {}
    BY <1>7 DEF FirstOf
  <1> HIDE DEF shown
  <1> DEFINE missed == (Passed \cap steady) \ reader.seen
             ahead == reader.seen \cap (records \ Passed)
             still == reader.seen \cap (records \ Passed')
  <1>10. /\ IsFiniteSet(records)
         /\ missed \in SUBSET records /\ ahead \in SUBSET records
         /\ again \in SUBSET ahead /\ still \in SUBSET ahead
         /\ again \cap still = {} /\ again \cup still = ahead
    BY <1>2, <1>3, <1>8, <1>9 DEF Listable
  <1>11. /\ Cardinality(missed) <= departed
         /\ reader.repeats + Cardinality(ahead) <= arrived
    BY DEF PagesInv, records
  <1>12. (Passed' \cap steady') \ reader'.seen \in SUBSET missed
    BY <1>1, <1>4, <1>8
  <1>13. reader'.seen \cap (Listed' \ Passed') = still
    BY <1>4, <1>5, <1>8
  <1> HIDE DEF missed, ahead, again, still
  <1>14. IsFiniteSet(missed) /\ IsFiniteSet(ahead)
    BY <1>10, FS_Subset
  <1>15. IsFiniteSet(again) /\ IsFiniteSet(still)
    BY <1>10, <1>14, FS_Subset
  <1>16. /\ Cardinality(again) \in Nat /\ Cardinality(still) \in Nat
         /\ Cardinality(missed) \in Nat
    BY <1>14, <1>15, FS_CardinalityType
  <1>17. Cardinality(ahead) = Cardinality(again) + Cardinality(still)
    <2>1. Cardinality(again \cup still)
            = Cardinality(again) + Cardinality(still) - Cardinality(again \cap still)
      BY <1>15, FS_Union
    <2>2. Cardinality({}) = 0
      BY FS_EmptySet
    <2>3. again \cap still = {} /\ again \cup still = ahead
      BY <1>10
    <2>4. QED
      BY <1>16, <2>1, <2>2, <2>3
  <1>18. Cardinality((Passed' \cap steady') \ reader'.seen) <= departed'
    <2> DEFINE passed == (Passed' \cap steady') \ reader'.seen
    <2>1. passed \in SUBSET missed
      BY <1>12
    <2> HIDE DEF passed
    <2>2. IsFiniteSet(passed) /\ Cardinality(passed) <= Cardinality(missed)
      BY <1>14, <2>1, FS_Subset
    <2>3. Cardinality(passed) \in Nat
      BY <2>2, FS_CardinalityType
    <2>4. Cardinality(passed) <= departed'
      BY <1>1, <1>3, <1>11, <1>16, <2>2, <2>3
    <2>5. QED
      BY <2>4 DEF passed
  <1>19. reader'.repeats + Cardinality(reader'.seen \cap (Listed' \ Passed')) <= arrived'
    <2>1. reader.repeats + Cardinality(again) + Cardinality(still) <= arrived
      BY <1>3, <1>11, <1>16, <1>17
    <2>2. /\ reader'.repeats = reader.repeats + Cardinality(again) /\ arrived' = arrived
          /\ reader'.seen \cap (Listed' \ Passed') = still
      BY <1>1, <1>4, <1>13
    <2>3. QED
      BY <2>1, <2>2
  <1>20. ListTypeOK'
    <2>1. reader.repeats + Cardinality(again) \in Nat
      BY <1>3, <1>16
    <2>2. reader' \in [status : Statuses, size : Nat, cursor : Nat,
                       seen : SUBSET Records, repeats : Nat]
      BY <1>2, <1>3, <1>4, <1>7, <1>9, <2>1
    <2>3. /\ result' \in [Records -> {"none", "running", "done"}]
          /\ startedAt' \in [Records -> Nat] /\ Ordered(result', startedAt')
          /\ steady' \subseteq Listed' /\ departed' \in Nat /\ arrived' \in Nat
      BY <1>1, <1>3, <1>5 DEF ListTypeOK
    <2>4. QED
      BY <2>2, <2>3 DEF ListTypeOK
  <1>21. QED
    BY <1>18, <1>19, <1>20 DEF PagesInv

\* Reading page by page is off by no more than the list has changed: of the records that
\* stayed in the list since the reading began, the pages so far leave out no more than have
\* left it, and show again no more than have entered it (JobStore.List, jobs.go:320).
THEOREM PagesAreExact == ListSpec => []PagesAddUp
  <1>1. ListInit => ListTypeOK /\ PagesInv
    <2> SUFFICES ASSUME ListInit PROVE ListTypeOK /\ PagesInv
      OBVIOUS
    <2>1. /\ reader = NoReading /\ steady = {} /\ departed = 0 /\ arrived = 0
          /\ reader.seen = {} /\ reader.repeats = 0
      BY DEF ListInit, NoReading
    <2>2. startedAt \in [Records -> Nat]
      BY ListingAssumption DEF ListInit
    <2>3. reader \in [status : Statuses, size : Nat, cursor : Nat,
                      seen : SUBSET Records, repeats : Nat]
      <3>1. NoReading.status \in Statuses
        BY Zenon DEF NoReading, Statuses
      <3>2. /\ NoReading.size \in Nat /\ NoReading.cursor \in Nat
            /\ NoReading.seen \in SUBSET Records /\ NoReading.repeats \in Nat
            /\ NoReading = [status |-> NoReading.status, size |-> NoReading.size,
                            cursor |-> NoReading.cursor, seen |-> NoReading.seen,
                            repeats |-> NoReading.repeats]
        BY DEF NoReading
      <3>3. QED
        BY <2>1, <3>1, <3>2
    <2>4. ListTypeOK
      BY <2>1, <2>2, <2>3 DEF ListInit, ListTypeOK
    <2>5. /\ (Passed \cap steady) \ reader.seen = {}
          /\ reader.seen \cap (Listed \ Passed) = {}
      BY <2>1
    <2>6. PagesInv
      BY <2>1, <2>5, FS_EmptySet DEF PagesInv
    <2>7. QED
      BY <2>4, <2>6
  <1>2. ListTypeOK /\ PagesInv /\ [ListNext]_listVars => ListTypeOK' /\ PagesInv'
    <2> SUFFICES ASSUME ListTypeOK, PagesInv, [ListNext]_listVars
                 PROVE  ListTypeOK' /\ PagesInv'
      OBVIOUS
    <2>1. CASE ReadFirstPage
      BY <2>1, FirstPageIsExact
    <2>2. CASE ReadNextPage
      BY <2>2, NextPageIsExact
    <2>3. CASE \/ \E id \in Records :
                     RowStarted(id) \/ RowCompleted(id) \/ RowDeleted(id)
               \/ \E id, other \in Records : RowRenamed(id, other)
      <3>1. RowsInPlace /\ Change
        BY <2>3, RowsKeepTheirTime
      <3>2. QED
        BY <3>1, ChangesAreCounted
    <2>4. CASE UNCHANGED listVars
      BY <2>4 DEF listVars, ListTypeOK, PagesInv, Listed, Passed, Reading
    <2>5. QED
      BY <2>1, <2>2, <2>3, <2>4 DEF ListNext
  <1>3. ListTypeOK /\ PagesInv => PagesAddUp
    <2> SUFFICES ASSUME ListTypeOK, PagesInv PROVE PagesAddUp
      OBVIOUS
    <2>1. Passed = {id \in Listed : Reading => Place(id, Listed, startedAt) <= reader.cursor}
      BY DEF Passed, FirstOf
    <2>2. Cardinality((Passed \cap steady) \ reader.seen) <= departed
      BY DEF PagesInv
    <2>3. reader.repeats <= arrived
      <3> DEFINE ahead == reader.seen \cap (Listed \ Passed)
      <3>1. reader.repeats \in Nat /\ arrived \in Nat /\ reader.repeats + Cardinality(ahead) <= arrived
        BY DEF ListTypeOK, PagesInv
      <3>2. ahead \in SUBSET Records /\ IsFiniteSet(Records)
        BY ListingAssumption DEF ListTypeOK
      <3> HIDE DEF ahead
      <3>3. Cardinality(ahead) \in Nat
        BY <3>2, FS_Subset, FS_CardinalityType
      <3>4. QED
        BY <3>1, <3>3
    <2>4. QED
      BY <2>1, <2>2, <2>3 DEF PagesAddUp, Listed
  <1>4. QED
    BY <1>1, <1>2, <1>3, PTL DEF ListSpec

=============================================================================
