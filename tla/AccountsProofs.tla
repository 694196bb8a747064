----------------------------- MODULE AccountsProofs -----------------------------
(***************************************************************************)
(* Accounts, for any people, codes, addresses and requests: what a session *)
(* opens, what a registration leaves behind, and that codes are spent as   *)
(* CodeLedger says.  A step of one request keeps what the others rely on,  *)
(* which the frames below say table by table.                              *)
(***************************************************************************)
EXTENDS Accounts, FiniteSetTheorems, TLAPS

Steps == {"idle"} \cup AtWork \cup Answers

(* What a request of a kind carries, and which steps that kind has.        *)
Carries(r) ==
    /\ r.kind \in {"login", "status"} => r.user \in People
    /\ r.kind = "status" => r.admin \in Admins
    /\ r.kind = "register" => /\ r.code \in Codes /\ r.personal \in Emails /\ r.company \in Emails
                              /\ r.personal # r.company
    /\ r.kind \in {"issue", "revoke"} => r.code \in JoinCodes /\ r.admin \in Admins

RouteInv ==
    \A q \in Requests :
        /\ IF pc[q] = "idle" THEN Kind(q) = "me" ELSE Carries(req[q])
        /\ pc[q] \in LoginSteps => Kind(q) = "login"
        /\ pc[q] \in StatusSteps => Kind(q) = "status"
        /\ pc[q] \in RegisterSteps => Kind(q) = "register"
        /\ pc[q] \in {"logout", "me", "issue", "revoke"} => Kind(q) = pc[q]

(* A session, like an account, is made by the last step of the request it  *)
(* is named after.                                                         *)
FreshInv ==
    \A q \in Requests :
        /\ pc[q] \in {"idle"} \cup AtWork => sessions[q].state = "absent"
        /\ users[q].state # "absent" => Kind(q) = "register" /\ pc[q] \in {"ok", "failed"}

(* What a request names is there.                                          *)
PresentInv ==
    \A q \in Requests : pc[q] # "idle" =>
        /\ Kind(q) \in {"login", "status"} => users[Target(q)].state # "absent"
        /\ Token(q) # Nobody => sessions[Token(q)].state # "absent"
        /\ \A s \in req[q].before : sessions[s].state # "absent"
        /\ \A s \in req[q].closed : sessions[s].state = "revoked"

(* A login or a logout past its revocation, and a deactivation.            *)
Over(q) == Token(q) # Nobody => sessions[Token(q)].state = "revoked"

EndedInv ==
    \A q \in Requests :
        /\ Kind(q) = "login" /\ (pc[q] \in {"create", "ok"} \/ sessions[q].state # "absent") => Over(q)
        /\ Kind(q) = "logout" /\ pc[q] = "ok" => Over(q)
        /\ Kind(q) = "status" /\ ~ req[q].active =>
            /\ pc[q] = "commitStatus" =>
                  \A s \in req[q].before : sessions[s].user = Target(q) =>
                      s \in req[q].doomed \/ sessions[s].state = "revoked"
            /\ pc[q] = "ok" =>
                  \A s \in req[q].before : sessions[s].user = Target(q) => sessions[s].state = "revoked"

(* The keys a registration has inserted are its own, and in no account.    *)
Inserted(q) ==
    CASE pc[q] = "insertPersonal" -> {<<"users", req[q].company>>}
      [] pc[q] = "insertCompany" -> {<<"users", req[q].company>>, <<"logins", req[q].personal>>}
      [] pc[q] \in {"consume", "session", "commitAccount"} ->
            {<<"users", req[q].company>>, <<"logins", req[q].personal>>, <<"logins", req[q].company>>}
      [] OTHER -> {}

ClaimInv ==
    \A q \in Requests : \A key \in Inserted(q) : claims[key] = q /\ ~ Taken(key)

(* The code of a registration under way is locked, open and has a use left.*)
CodeInv ==
    \A q \in Requests : pc[q] \in RegisterSteps \ {"lockCode"} =>
        /\ codeLock[req[q].code] = q
        /\ codes[req[q].code].state = "open"
        /\ codes[req[q].code].used < MaxUses(req[q].code)
        /\ req[q].found.admin = codes[req[q].code].admin

(* Every use of a code is an account, and every account has its session.   *)
SpentInv ==
    \A c \in Codes :
        /\ IsFiniteSet(Spent(c)) /\ Cardinality(Spent(c)) = codes[c].used
        /\ codes[c].state = "absent" => codes[c].used = 0

WholeInv ==
    \A q \in Requests : Kind(q) = "register" =>
        /\ users[q].state # "absent" <=> sessions[q].state # "absent"
        /\ users[q].state # "absent" => /\ codes[req[q].code].state # "absent"
                                        /\ users[q].manager = codes[req[q].code].admin
        /\ pc[q] = "ok" => users[q].state # "absent"

IInv == /\ TypeOK /\ RouteInv /\ FreshInv /\ PresentInv /\ EndedInv
        /\ ClaimInv /\ EmailsAreUnique /\ CodeInv /\ SpentInv /\ WholeInv /\ NoEntryAfterExit

Acts(q) ==
    Step(q) \/ BreakDeadlock(q) \/ Refuse(q) \/ Fault(q) \/ \E k \in Kinds : Arrive(q, k)

-----------------------------------------------------------------------------
LEMMA StepsAre ==
    Steps = {"idle", "find", "rotate", "create", "lockUser", "revokeAll", "commitStatus", "insertUser",
             "insertPersonal", "insertCompany", "lockCode", "consume", "session", "commitAccount",
             "logout", "me", "issue", "revoke", "ok", "refused", "failed", "lost"}
  BY DEF Steps, AtWork, LoginSteps, StatusSteps, RegisterSteps, Inserting, Answers

LEMMA Sets ==
    /\ Requests \subseteq People /\ Workers \subseteq People /\ JoinCodes \subseteq Codes
    /\ Nobody \notin Requests /\ Nobody \notin Emails /\ Nobody \notin Codes /\ Nobody \notin People
    /\ TTL \in Nat /\ MaxTime \in Nat
  BY PeopleAssumption, TimeAssumption DEF People, Codes

(* The accounts, sessions and codes, field by field.                       *)
LEMMA UserFields ==
  ASSUME TypeOK, NEW x \in People
  PROVE  /\ users[x] \in User
         /\ users[x].state = "absent" => users[x] = NoUser
         /\ users[x].state # "absent" =>
              users[x] \in [state : {"active", "inactive"}, manager : Admins \cup {Nobody},
                            personal : Emails \cup {Nobody}, company : Emails \cup Workers]
  BY DEF TypeOK, User, NoUser

LEMMA SessionFields ==
  ASSUME TypeOK, NEW s \in Requests
  PROVE  /\ sessions[s] \in Session
         /\ sessions[s].state \in {"absent", "live", "revoked"}
         /\ sessions[s].state # "absent" =>
              sessions[s] \in [state : {"live", "revoked"}, user : People, expires : Nat]
  BY DEF TypeOK, Session, NoSession

LEMMA RevokedMove ==
  ASSUME TypeOK, NEW open, NEW s \in Requests
  PROVE  /\ Revoked(open) \in [Requests -> Session]
         /\ sessions[s].state = "revoked" => Revoked(open)[s].state = "revoked"
         /\ sessions[s].state = "absent" => Revoked(open)[s] = sessions[s]
         /\ sessions[s].state # "absent" => /\ Revoked(open)[s].state # "absent"
                                            /\ Revoked(open)[s].user = sessions[s].user
         /\ s \in open /\ sessions[s].state # "absent" => Revoked(open)[s].state = "revoked"
  <1>1. ASSUME NEW r \in Requests
        PROVE  /\ Revoked(open)[r] \in Session
               /\ sessions[r].state = "revoked" => Revoked(open)[r].state = "revoked"
               /\ sessions[r].state = "absent" => Revoked(open)[r] = sessions[r]
               /\ sessions[r].state # "absent" => /\ Revoked(open)[r].state # "absent"
                                                  /\ Revoked(open)[r].user = sessions[r].user
               /\ r \in open /\ sessions[r].state # "absent" => Revoked(open)[r].state = "revoked"
    <2>1. Revoked(open)[r] = IF r \in open /\ sessions[r].state = "live"
                             THEN [sessions[r] EXCEPT !.state = "revoked"] ELSE sessions[r]
      BY DEF Revoked
    <2>2. CASE r \in open /\ sessions[r].state = "live"
      BY <2>1, <2>2, SessionFields DEF Session
    <2>3. CASE ~(r \in open /\ sessions[r].state = "live")
      BY <2>1, <2>3, SessionFields
    <2> QED
      BY <2>2, <2>3
  <1>2. Revoked(open) = [r \in Requests |-> Revoked(open)[r]]
    BY DEF Revoked
  <1> QED
    BY <1>1, <1>2

LEMMA OpenMove ==
  ASSUME TypeOK, NEW q \in Requests, NEW x \in People, Open(q, x)
  PROVE  /\ sessions' \in [Requests -> Session]
         /\ sessions'[q].state = "live" /\ sessions'[q].user = x
         /\ \A s \in Requests \ {q} : sessions'[s] = sessions[s]
  <1>1. req[q].now + TTL \in Nat
    BY Sets DEF TypeOK, Request
  <1>2. [state |-> "live", user |-> x, expires |-> req[q].now + TTL] \in Session
    BY <1>1 DEF Session
  <1> QED
    BY <1>2 DEF Open, TypeOK
-----------------------------------------------------------------------------
(* What a step of q may change, table by table.                            *)
LEMMA StepOrEnd ==
  ASSUME NEW q \in Requests, Acts(q)
  PROVE  \/ Step(q)
         \/ (BreakDeadlock(q) \/ Refuse(q) \/ Fault(q)) /\ UNCHANGED <<users, sessions, codes, clock, req>>
         \/ \E k \in Kinds : Arrive(q, k)
  BY DEF Acts, BreakDeadlock, Refuse, Fault, tables, locks

LEMMA Writers ==
  ASSUME NEW q \in Requests, Acts(q)
  PROVE  /\ users' = users \/ CommitStatus(q) \/ CommitAccount(q)
         /\ \/ sessions' = sessions \/ Rotate(q) \/ CreateSession(q) \/ Logout(q)
            \/ CommitStatus(q) \/ CommitAccount(q)
         /\ codes' = codes \/ CommitAccount(q) \/ IssueCode(q) \/ RevokeCode(q)
         /\ req' = req \/ RevokeAll(q) \/ LockCode(q) \/ \E k \in Kinds : Arrive(q, k)
         /\ clock' = clock
  <1>1. CASE Step(q)
    BY <1>1 DEF Step, FindCredentials, Rotate, CreateSession, Logout, Authenticate, LockUser, RevokeAll,
           CommitStatus, LockCode, InsertAccount, ConsumeCode, InsertSession, CommitAccount, IssueCode,
           RevokeCode, tables, locks
  <1>2. CASE \E k \in Kinds : Arrive(q, k)
    BY <1>2 DEF Arrive, tables, locks
  <1> QED
    BY <1>1, <1>2, StepOrEnd

LEMMA PcFrame ==
  ASSUME TypeOK, NEW q \in Requests, Acts(q)
  PROVE  /\ pc' \in [Requests -> Steps] /\ pc'[q] # "idle"
         /\ \A p \in Requests \ {q} : pc'[p] = pc[p]
  <1>1. ASSUME NEW l \in Steps \ {"idle"}, Goto(q, l)
        PROVE  /\ pc' \in [Requests -> Steps] /\ pc'[q] # "idle"
               /\ \A p \in Requests \ {q} : pc'[p] = pc[p]
    BY <1>1 DEF Goto, TypeOK, Steps
  <1>2. \E l \in Steps \ {"idle"} : Goto(q, l)
    <2>1. CASE FindCredentials(q) \/ Rotate(q) \/ CreateSession(q) \/ Logout(q) \/ Authenticate(q)
      BY <2>1, StepsAre DEF FindCredentials, Rotate, CreateSession, Logout, Authenticate
    <2>2. CASE LockUser(q) \/ RevokeAll(q) \/ CommitStatus(q) \/ LockCode(q)
      BY <2>2, StepsAre DEF LockUser, RevokeAll, CommitStatus, LockCode
    <2>3. CASE InsertAccount(q)
      BY <2>3, StepsAre DEF InsertAccount, AfterInsert, Inserting
    <2>4. CASE ConsumeCode(q) \/ InsertSession(q) \/ CommitAccount(q) \/ IssueCode(q) \/ RevokeCode(q)
      BY <2>4, StepsAre DEF ConsumeCode, InsertSession, CommitAccount, IssueCode, RevokeCode
    <2>5. CASE BreakDeadlock(q) \/ Refuse(q) \/ Fault(q)
      BY <2>5, StepsAre DEF BreakDeadlock, Refuse, Fault
    <2>6. CASE \E k \in Kinds : Arrive(q, k)
      <3>1. PICK k \in Kinds : Arrive(q, k)
        BY <2>6
      <3>2. k \in Routes /\ Goto(q, First(k))
        BY <3>1, PeopleAssumption DEF Arrive
      <3>3. First(k) \in Steps \ {"idle"}
        BY <3>2, StepsAre DEF First, Routes
      <3> QED
        BY <3>2, <3>3
    <2> QED
      BY <2>1, <2>2, <2>3, <2>4, <2>5, <2>6 DEF Acts, Step
  <1> QED
    BY <1>1, <1>2

LEMMA ReqFrame ==
  ASSUME TypeOK, NEW q \in Requests, Acts(q)
  PROVE  /\ \A p \in Requests \ {q} : req'[p] = req[p]
         /\ pc[q] # "idle" =>
              /\ req'[q].kind = req[q].kind /\ req'[q].user = req[q].user /\ req'[q].token = req[q].token
              /\ req'[q].admin = req[q].admin /\ req'[q].code = req[q].code
              /\ req'[q].personal = req[q].personal /\ req'[q].company = req[q].company
              /\ req'[q].active = req[q].active /\ req'[q].before = req[q].before
              /\ req'[q].closed = req[q].closed
         /\ pc[q] # "idle" /\ ~RevokeAll(q) => req'[q].doomed = req[q].doomed
         /\ pc[q] # "idle" /\ ~LockCode(q) => req'[q].found = req[q].found
  <1>1. req \in [Requests -> Request] /\ req[q] \in Request
    BY DEF TypeOK
  <1>2. CASE req' = req
    BY <1>2
  <1>3. CASE RevokeAll(q)
    <2>1. PICK D : req' = [req EXCEPT ![q].doomed = D]
      BY <1>3 DEF RevokeAll
    <2> QED
      BY <1>1, <1>3, <2>1 DEF Request, RevokeAll, LockCode
  <1>4. CASE LockCode(q)
    <2>1. CASE req' = [req EXCEPT ![q].found = codes[req[q].code]]
      BY <1>1, <1>4, <2>1 DEF Request, RevokeAll, LockCode
    <2> QED
      BY <1>2, <1>4, <2>1 DEF LockCode
  <1>5. CASE \E k \in Kinds : Arrive(q, k)
    <2>1. PICK k \in Kinds : Arrive(q, k)
      BY <1>5
    <2>2. pc[q] = "idle" /\ \E r : req' = [req EXCEPT ![q] = r]
      BY <2>1 DEF Arrive
    <2> QED
      BY <1>1, <2>2
  <1> QED
    BY <1>2, <1>3, <1>4, <1>5, Writers

LEMMA ReleaseFrame ==
  ASSUME TypeOK, NEW q \in Requests, Release(q)
  PROVE  /\ userLock' \in [People -> Requests \cup {Nobody}] /\ codeLock' \in [Codes -> Requests \cup {Nobody}]
         /\ claims' \in [Keys -> Requests \cup {Nobody}]
         /\ \A p \in Requests \ {q} : /\ \A x \in People : userLock'[x] = p <=> userLock[x] = p
                                      /\ \A c \in Codes : codeLock'[c] = p <=> codeLock[c] = p
                                      /\ \A key \in Keys : claims'[key] = p <=> claims[key] = p
  BY Sets DEF TypeOK, Release

LEMMA KeyIs ==
  ASSUME TypeOK, RouteInv, NEW q \in Requests, pc[q] \in Inserting
  PROVE  KeyOf(q) \in Keys
  <1>1. req[q].company \in Emails /\ req[q].personal \in Emails
    BY DEF RouteInv, Carries, Inserting, RegisterSteps, Kind
  <1> QED
    BY <1>1 DEF KeyOf, Keys, Inserting

LEMMA LockFrame ==
  ASSUME TypeOK, RouteInv, NEW q \in Requests, Acts(q)
  PROVE  /\ userLock' \in [People -> Requests \cup {Nobody}] /\ codeLock' \in [Codes -> Requests \cup {Nobody}]
         /\ claims' \in [Keys -> Requests \cup {Nobody}]
         /\ \A p \in Requests \ {q} : /\ \A x \in People : userLock'[x] = p <=> userLock[x] = p
                                      /\ \A c \in Codes : codeLock'[c] = p <=> codeLock[c] = p
                                      /\ \A key \in Keys : claims'[key] = p <=> claims[key] = p
  <1> DEFINE Goal ==
         /\ userLock' \in [People -> Requests \cup {Nobody}] /\ codeLock' \in [Codes -> Requests \cup {Nobody}]
         /\ claims' \in [Keys -> Requests \cup {Nobody}]
         /\ \A p \in Requests \ {q} : /\ \A x \in People : userLock'[x] = p <=> userLock[x] = p
                                      /\ \A c \in Codes : codeLock'[c] = p <=> codeLock[c] = p
                                      /\ \A key \in Keys : claims'[key] = p <=> claims[key] = p
  <1>1. /\ userLock \in [People -> Requests \cup {Nobody}] /\ codeLock \in [Codes -> Requests \cup {Nobody}]
        /\ claims \in [Keys -> Requests \cup {Nobody}]
    BY DEF TypeOK
  <1>2. CASE UNCHANGED locks
    BY <1>1, <1>2 DEF locks
  <1>3. CASE Release(q)
    BY <1>3, ReleaseFrame
  <1>4. CASE LockUser(q)
    <2>1. /\ UNCHANGED <<codeLock, claims>> /\ userLock[Target(q)] = Nobody
          /\ userLock' \in {userLock, [userLock EXCEPT ![Target(q)] = q]}
      BY <1>4 DEF LockUser
    <2> QED
      BY <1>1, <2>1, Sets
  <1>5. CASE LockCode(q) \/ ConsumeCode(q)
    <2>1. /\ UNCHANGED <<userLock, claims>>
          /\ \/ codeLock' = codeLock
             \/ codeLock[req[q].code] \in {Nobody, q} /\ codeLock' = [codeLock EXCEPT ![req[q].code] = q]
      BY <1>5 DEF LockCode, ConsumeCode
    <2> QED
      BY <1>1, <2>1, Sets
  <1>6. CASE InsertAccount(q)
    <2>1. \/ Release(q)
          \/ /\ claims[KeyOf(q)] = Nobody /\ claims' = [claims EXCEPT ![KeyOf(q)] = q]
             /\ UNCHANGED <<userLock, codeLock>>
      BY <1>6 DEF InsertAccount
    <2>2. KeyOf(q) \in Keys
      BY <1>6, KeyIs DEF InsertAccount
    <2>3. CASE claims[KeyOf(q)] = Nobody /\ claims' = [claims EXCEPT ![KeyOf(q)] = q] /\ UNCHANGED <<userLock, codeLock>>
      BY <1>1, <2>2, <2>3, Sets
    <2> QED
      BY <1>3, <2>1, <2>3
  <1>7. \/ UNCHANGED locks \/ Release(q) \/ LockUser(q) \/ LockCode(q) \/ ConsumeCode(q) \/ InsertAccount(q)
    <2>1. CASE Step(q)
      BY <2>1 DEF Step, FindCredentials, Rotate, CreateSession, Logout, Authenticate, RevokeAll,
             CommitStatus, InsertSession, CommitAccount, IssueCode, RevokeCode
    <2> QED
      BY <2>1 DEF Acts, BreakDeadlock, Refuse, Fault, Arrive
  <1> QED
    BY <1>2, <1>3, <1>4, <1>5, <1>6, <1>7

(* Sessions: one that is over stays over, one that is there stays its      *)
(* user's, and the only new one is q's, by its last step.                  *)
LEMMA SessionFrame ==
  ASSUME IInv, NEW q \in Requests, Acts(q), NEW s \in Requests
  PROVE  /\ sessions' \in [Requests -> Session]
         /\ sessions[s].state = "revoked" => sessions'[s].state = "revoked"
         /\ sessions[s].state # "absent" => sessions'[s].state # "absent" /\ sessions'[s].user = sessions[s].user
         /\ sessions[s].state = "absent" =>
              sessions'[s] = sessions[s] \/ (s = q /\ (CreateSession(q) \/ CommitAccount(q)))
         /\ CommitAccount(q) => sessions'[q].state = "live"
  <1>1. CASE sessions' = sessions /\ ~CommitAccount(q)
    <2>1. sessions \in [Requests -> Session]
      BY DEF IInv, TypeOK
    <2> QED
      BY <1>1, <2>1
  <1>2. ASSUME NEW open, sessions' = Revoked(open), ~CommitAccount(q)
        PROVE  /\ sessions' \in [Requests -> Session]
               /\ sessions[s].state = "revoked" => sessions'[s].state = "revoked"
               /\ sessions[s].state # "absent" => sessions'[s].state # "absent" /\ sessions'[s].user = sessions[s].user
               /\ sessions[s].state = "absent" => sessions'[s] = sessions[s]
               /\ ~CommitAccount(q)
    BY <1>2, RevokedMove DEF IInv
  <1>3. CASE Rotate(q) \/ Logout(q) \/ CommitStatus(q)
    <2>1. ~CommitAccount(q)
      BY <1>3 DEF Rotate, Logout, CommitStatus, CommitAccount
    <2>2. sessions' = Revoked({Token(q)}) \/ sessions' = Revoked(req[q].doomed)
      BY <1>3 DEF Rotate, Logout, CommitStatus
    <2> QED
      BY <1>2, <2>1, <2>2
  <1>4. ASSUME NEW x \in People, Open(q, x), sessions[q].state = "absent", CreateSession(q) \/ CommitAccount(q)
        PROVE  /\ sessions' \in [Requests -> Session]
               /\ sessions[s].state = "revoked" => sessions'[s].state = "revoked"
               /\ sessions[s].state # "absent" => sessions'[s].state # "absent" /\ sessions'[s].user = sessions[s].user
               /\ sessions[s].state = "absent" => sessions'[s] = sessions[s] \/ s = q
               /\ sessions'[q].state = "live"
    <2>1. /\ sessions' \in [Requests -> Session] /\ sessions'[q].state = "live"
          /\ \A r \in Requests \ {q} : sessions'[r] = sessions[r]
      BY <1>4, OpenMove DEF IInv
    <2>2. CASE s = q
      BY <1>4, <2>1, <2>2
    <2>3. CASE s # q
      BY <2>1, <2>3
    <2> QED
      BY <2>2, <2>3
  <1>5. CASE CreateSession(q)
    <2>1. pc[q] = "create" /\ ~CommitAccount(q)
      BY <1>5 DEF CreateSession, CommitAccount
    <2>2. sessions[q].state = "absent" /\ Target(q) \in People
      BY <2>1 DEF IInv, FreshInv, RouteInv, Carries, AtWork, LoginSteps, Kind, Target
    <2>3. CASE Open(q, Target(q))
      BY <1>4, <1>5, <2>1, <2>2, <2>3
    <2> QED
      BY <1>1, <1>5, <2>1, <2>3 DEF CreateSession
  <1>6. CASE CommitAccount(q)
    <2>1. Open(q, q) /\ sessions[q].state = "absent" /\ q \in People
      BY <1>6, Sets DEF CommitAccount, IInv, FreshInv, AtWork, RegisterSteps
    <2> QED
      BY <1>4, <1>6, <2>1
  <1> QED
    BY <1>1, <1>3, <1>5, <1>6, Writers

(* Accounts: one that is there keeps its addresses and its manager, and    *)
(* the only new one is q's.                                                *)
LEMMA UserFrame ==
  ASSUME IInv, NEW q \in Requests, Acts(q), NEW x \in People
  PROVE  /\ users[x].state # "absent" =>
              /\ users'[x].state # "absent" /\ users'[x].manager = users[x].manager
              /\ users'[x].personal = users[x].personal /\ users'[x].company = users[x].company
         /\ users[x].state = "absent" => users'[x] = users[x] \/ (x = q /\ CommitAccount(q))
  <1>1. CASE users' = users
    BY <1>1
  <1>2. CASE CommitStatus(q)
    <2>1. Target(q) \in People /\ users[Target(q)].state # "absent"
      BY <1>2 DEF CommitStatus, IInv, RouteInv, Carries, PresentInv, StatusSteps, Kind, Target
    <2>2. PICK st \in {"active", "inactive"} : users' = [users EXCEPT ![Target(q)].state = st]
      BY <1>2 DEF CommitStatus
    <2>3. users \in [People -> User]
      BY DEF IInv, TypeOK
    <2>4. CASE x = Target(q)
      BY <2>1, <2>2, <2>3, <2>4, UserFields DEF IInv
    <2>5. CASE x # Target(q)
      BY <2>2, <2>3, <2>5
    <2> QED
      BY <2>4, <2>5
  <1>3. CASE CommitAccount(q)
    <2>1. \A y \in People \ {q} : users'[y] = users[y]
      BY <1>3 DEF CommitAccount, IInv, TypeOK
    <2>2. users[q].state = "absent"
      BY <1>3 DEF CommitAccount, IInv, FreshInv
    <2> QED
      BY <1>3, <2>1, <2>2
  <1> QED
    BY <1>1, <1>2, <1>3, Writers

(* Codes: one that is there keeps its admin.                               *)
LEMMA CodeFrame ==
  ASSUME IInv, NEW q \in Requests, Acts(q), NEW c \in Codes
  PROVE  /\ codes' \in [Codes -> Code]
         /\ codes[c].state # "absent" => codes'[c].state # "absent" /\ codes'[c].admin = codes[c].admin
         /\ codes'[c] = codes[c] \/ codes[c].state # "open" \/ codeLock[c] \in {q, Nobody}
  <1>1. codes \in [Codes -> Code] /\ codes[c] \in Code
    BY DEF IInv, TypeOK
  <1>2. CASE codes' = codes
    BY <1>1, <1>2
  <1>3. CASE CommitAccount(q)
    <2>1. pc[q] = "commitAccount"
      BY <1>3 DEF CommitAccount
    <2>2. req[q].code \in Codes /\ codeLock[req[q].code] = q
      BY <2>1 DEF IInv, RouteInv, Carries, CodeInv, RegisterSteps, Kind
    <2>3. codes[req[q].code].used + 1 \in Nat
      BY <1>1, <2>2 DEF Code
    <2>4. codes' = [codes EXCEPT ![req[q].code].used = codes[req[q].code].used + 1]
      BY <1>3 DEF CommitAccount
    <2> QED
      BY <1>1, <2>2, <2>3, <2>4 DEF Code
  <1>4. CASE IssueCode(q)
    <2>1. pc[q] = "issue" /\ codes[req[q].code].state = "absent"
          /\ codes' = [codes EXCEPT ![req[q].code] = [state |-> "open", admin |-> req[q].admin,
                                                     expires |-> req[q].now + TTL, used |-> 0]]
      BY <1>4 DEF IssueCode
    <2>2. req[q].code \in Codes /\ req[q].admin \in Admins
      BY <2>1, Sets DEF IInv, RouteInv, Carries, Kind
    <2>3. req[q].now + TTL \in Nat
      BY Sets DEF IInv, TypeOK, Request
    <2>4. [state |-> "open", admin |-> req[q].admin, expires |-> req[q].now + TTL, used |-> 0] \in Code
      BY <2>2, <2>3 DEF Code
    <2> QED
      BY <1>1, <2>1, <2>2, <2>4
  <1>5. CASE RevokeCode(q)
    <2>1. pc[q] = "revoke" /\ codeLock[req[q].code] = Nobody /\ codes' # codes =>
            codes' = [codes EXCEPT ![req[q].code].state = "revoked"]
      BY <1>5 DEF RevokeCode
    <2>2. req[q].code \in Codes /\ codeLock[req[q].code] = Nobody
      BY <1>5, Sets DEF RevokeCode, IInv, RouteInv, Carries, Kind
    <2>3. CASE codes' # codes
      BY <1>1, <1>5, <2>2, <2>3 DEF RevokeCode, Code
    <2> QED
      BY <1>2, <2>3
  <1> QED
    BY <1>2, <1>3, <1>4, <1>5, Writers

-----------------------------------------------------------------------------
(* The step before each step, and what starts one.                         *)
LEMMA Busy ==
  ASSUME NEW q \in Requests, Acts(q)
  PROVE  pc[q] \in {"idle"} \cup AtWork /\ pc[q] \notin Answers
  <1>1. CASE Step(q)
    BY <1>1, StepsAre DEF Step, FindCredentials, Rotate, CreateSession, Logout, Authenticate, LockUser,
       RevokeAll, CommitStatus, LockCode, InsertAccount, ConsumeCode, InsertSession, CommitAccount, IssueCode,
       RevokeCode, AtWork, LoginSteps, StatusSteps, RegisterSteps, Inserting, Answers
  <1>2. CASE BreakDeadlock(q)
    BY <1>2 DEF BreakDeadlock, WaitsFor, AtWork, RegisterSteps, Inserting, Answers
  <1>3. CASE Refuse(q) \/ Fault(q) \/ \E k \in Kinds : Arrive(q, k)
    BY <1>3 DEF Refuse, Fault, Arrive, AtWork, LoginSteps, StatusSteps, RegisterSteps, Inserting, Answers
  <1> QED
    BY <1>1, <1>2, <1>3 DEF Acts

LEMMA Moves ==
  ASSUME TypeOK, NEW q \in Requests, Acts(q), pc[q] # "idle"
  PROVE  /\ pc'[q] \notin {"idle", "find", "lockUser", "lockCode", "logout", "me", "issue", "revoke"}
         /\ pc'[q] = "rotate" => pc[q] = "find"
         /\ pc'[q] = "create" => Rotate(q)
         /\ pc'[q] = "revokeAll" => pc[q] = "lockUser"
         /\ pc'[q] = "commitStatus" => RevokeAll(q) \/ (LockUser(q) /\ req[q].active)
         /\ pc'[q] = "insertUser" => LockCode(q)
         /\ pc'[q] = "insertPersonal" => InsertAccount(q) /\ pc[q] = "insertUser"
         /\ pc'[q] = "insertCompany" => InsertAccount(q) /\ pc[q] = "insertPersonal"
         /\ pc'[q] = "consume" => InsertAccount(q) /\ pc[q] = "insertCompany"
         /\ pc'[q] = "session" => ConsumeCode(q)
         /\ pc'[q] = "commitAccount" => InsertSession(q)
         /\ pc'[q] = "ok" => \/ CreateSession(q) \/ Logout(q) \/ Authenticate(q) \/ CommitStatus(q)
                            \/ CommitAccount(q) \/ IssueCode(q) \/ RevokeCode(q)
  <1>1. ASSUME NEW l, Goto(q, l) PROVE pc'[q] = l
    BY <1>1 DEF Goto, TypeOK
  <1>2. CASE FindCredentials(q) \/ Rotate(q) \/ CreateSession(q) \/ Logout(q) \/ Authenticate(q)
    BY <1>1, <1>2 DEF FindCredentials, Rotate, CreateSession, Logout, Authenticate
  <1>3. CASE LockUser(q)
    <2>1. /\ pc[q] = "lockUser"
          /\ pc'[q] \in {"refused", IF req[q].active THEN "commitStatus" ELSE "revokeAll"}
      BY <1>1, <1>3 DEF LockUser
    <2> QED
      BY <1>3, <2>1 DEF LockUser
  <1>4. CASE RevokeAll(q) \/ CommitStatus(q) \/ LockCode(q)
    BY <1>1, <1>4 DEF RevokeAll, CommitStatus, LockCode
  <1>5. CASE InsertAccount(q)
    BY <1>1, <1>5 DEF InsertAccount, AfterInsert, Inserting
  <1>6. CASE ConsumeCode(q) \/ InsertSession(q) \/ CommitAccount(q) \/ IssueCode(q) \/ RevokeCode(q)
    BY <1>1, <1>6 DEF ConsumeCode, InsertSession, CommitAccount, IssueCode, RevokeCode
  <1>7. CASE BreakDeadlock(q) \/ Refuse(q) \/ Fault(q)
    BY <1>1, <1>7 DEF BreakDeadlock, Refuse, Fault
  <1> QED
    BY <1>2, <1>3, <1>4, <1>5, <1>6, <1>7 DEF Acts, Step, Arrive

(* What a client has been told is over is over.                            *)
LEMMA ClosedIsOver ==
  ASSUME IInv, NEW s \in Closed
  PROVE  s \in Requests /\ sessions[s].state = "revoked"
  <1>1. PICK p \in Requests :
          s \in (IF pc[p] # "ok" THEN {}
                 ELSE IF Kind(p) \in {"login", "logout"} THEN {Token(p)} \ {Nobody}
                 ELSE IF Kind(p) = "status" /\ ~ req[p].active
                      THEN {r \in req[p].before : sessions[r].user = Target(p)}
                 ELSE {})
    BY DEF Closed
  <1>2. pc[p] = "ok" /\ req[p] \in Request
    BY <1>1 DEF IInv, TypeOK
  <1>3. CASE Kind(p) \in {"login", "logout"}
    <2>1. s = Token(p) /\ s # Nobody
      BY <1>1, <1>2, <1>3
    <2>2. Over(p)
      BY <1>2, <1>3 DEF IInv, EndedInv
    <2>3. Token(p) \in Requests \cup {Nobody}
      BY <1>2 DEF Request, Token
    <2> QED
      BY <2>1, <2>2, <2>3 DEF Over
  <1>4. CASE Kind(p) \notin {"login", "logout"}
    <2>1. Kind(p) = "status" /\ ~ req[p].active /\ s \in req[p].before /\ sessions[s].user = Target(p)
      BY <1>1, <1>2, <1>4
    <2>2. sessions[s].state = "revoked"
      BY <1>2, <2>1 DEF IInv, EndedInv
    <2>3. req[p].before \subseteq Requests
      BY <1>2 DEF Request
    <2> QED
      BY <2>1, <2>2, <2>3
  <1> QED
    BY <1>3, <1>4

LEMMA ArriveIs ==
  ASSUME IInv, NEW q \in Requests, NEW k \in Kinds, Arrive(q, k)
  PROVE  /\ pc[q] = "idle" /\ pc'[q] = First(k) /\ req' \in [Requests -> Request]
         /\ Kind(q)' = k /\ Carries(req'[q])
         /\ k \in {"login", "status"} => users[req'[q].user].state # "absent"
         /\ req'[q].token # Nobody => sessions[req'[q].token].state # "absent"
         /\ req'[q].before = {s \in Requests : sessions[s].state = "live"} /\ req'[q].closed = Closed
  <1>1. PICK x \in IF k \in {"login", "status"} THEN {y \in People : users[y].state # "absent"} ELSE {Nobody},
             t \in IF k \in {"login", "logout", "me"}
                   THEN {s \in Requests : pc[s] = "ok" /\ sessions[s].state # "absent"} \cup {Nobody}
                   ELSE {Nobody},
             a \in IF k \in {"status", "issue", "revoke"} THEN Admins ELSE {Nobody},
             c \in CASE k = "register" -> Codes [] k = "revoke" -> JoinCodes
                     [] k = "issue" -> {d \in JoinCodes : \A p \in Requests :
                                           Kind(p) = "issue" => req[p].code # d}
                     [] OTHER -> {Nobody},
             e \in IF k = "register" THEN {d \in Emails \X Emails : d[1] # d[2]} ELSE {<<Nobody, Nobody>>},
             on \in IF k = "status" THEN BOOLEAN ELSE {FALSE} :
          req' = [req EXCEPT ![q] =
                [kind |-> k, user |-> x, token |-> t, admin |-> a, code |-> c,
                 personal |-> e[1], company |-> e[2], active |-> on, now |-> clock, found |-> NoCode,
                 doomed |-> {}, before |-> {s \in Requests : sessions[s].state = "live"},
                 closed |-> Closed]]
    BY DEF Arrive
  <1> DEFINE r == [kind |-> k, user |-> x, token |-> t, admin |-> a, code |-> c,
                   personal |-> e[1], company |-> e[2], active |-> on, now |-> clock, found |-> NoCode,
                   doomed |-> {}, before |-> {s \in Requests : sessions[s].state = "live"},
                   closed |-> Closed]
  <1>2. pc[q] = "idle" /\ pc'[q] = First(k)
    BY DEF Arrive, Goto, IInv, TypeOK
  <1>3. x \in People \cup {Nobody} /\ (k \in {"login", "status"} => x \in People /\ users[x].state # "absent")
    BY <1>1
  <1>4. t \in Requests \cup {Nobody} /\ (t # Nobody => sessions[t].state # "absent")
    BY <1>1
  <1>5. a \in Admins \cup {Nobody} /\ (k \in {"status", "issue", "revoke"} => a \in Admins)
    BY <1>1
  <1>6. c \in Codes \cup {Nobody} /\ (k = "register" => c \in Codes) /\ (k \in {"issue", "revoke"} => c \in JoinCodes)
    BY <1>1, Sets
  <1>7. e[1] \in Emails \cup {Nobody} /\ e[2] \in Emails \cup {Nobody}
        /\ (k = "register" => e[1] \in Emails /\ e[2] \in Emails /\ e[1] # e[2])
    BY <1>1
  <1>8. on \in BOOLEAN
    BY <1>1
  <1>9. k \in Routes /\ clock \in Nat /\ NoCode \in Code
    BY PeopleAssumption, Sets DEF IInv, TypeOK, NoCode, Code
  <1>10. Closed \subseteq Requests
    BY ClosedIsOver
  <1>11. r \in Request
    BY <1>3, <1>4, <1>5, <1>6, <1>7, <1>8, <1>9, <1>10 DEF Request
  <1>12. Carries(r)
    BY <1>3, <1>5, <1>6, <1>7 DEF Carries
  <1>13. req' = [req EXCEPT ![q] = r] /\ req \in [Requests -> Request]
    BY <1>1 DEF IInv, TypeOK
  <1>14. req'[q] = r /\ req' \in [Requests -> Request]
    BY <1>11, <1>13
  <1> QED
    BY <1>2, <1>3, <1>4, <1>12, <1>14 DEF Kind

-----------------------------------------------------------------------------
LEMMA TypeKeeps == ASSUME IInv, NEW q \in Requests, Acts(q) PROVE TypeOK'
  <1>1. sessions' \in [Requests -> Session]
    BY SessionFrame
  <1>2. codes' \in [Codes -> Code]
    BY CodeFrame, PeopleAssumption
  <1>3. /\ userLock' \in [People -> Requests \cup {Nobody}] /\ codeLock' \in [Codes -> Requests \cup {Nobody}]
        /\ claims' \in [Keys -> Requests \cup {Nobody}]
    BY LockFrame DEF IInv
  <1>4. clock' \in 0..MaxTime
    BY Writers DEF IInv, TypeOK
  <1>5. pc' \in [Requests -> Steps]
    BY PcFrame DEF IInv
  <1>6. users' \in [People -> User]
    <2>1. users \in [People -> User]
      BY DEF IInv, TypeOK
    <2>2. CASE CommitStatus(q)
      <3>1. Target(q) \in People /\ users[Target(q)].state # "absent"
        BY <2>2 DEF CommitStatus, IInv, RouteInv, Carries, PresentInv, StatusSteps, Kind, Target
      <3>2. PICK st \in {"active", "inactive"} : users' = [users EXCEPT ![Target(q)].state = st]
        BY <2>2 DEF CommitStatus
      <3>3. [users[Target(q)] EXCEPT !.state = st] \in User
        BY <3>1, UserFields DEF IInv, User
      <3> QED
        BY <2>1, <3>2, <3>3
    <2>3. CASE CommitAccount(q)
      <3>1. pc[q] = "commitAccount" /\ req[q] \in Request
        BY <2>3 DEF CommitAccount, IInv, TypeOK
      <3>2. req[q].found.admin \in Admins \cup {Nobody}
        BY <3>1 DEF Request, Code
      <3>3. req[q].personal \in Emails /\ req[q].company \in Emails
        BY <3>1 DEF IInv, RouteInv, Carries, RegisterSteps, Kind
      <3>4. [state |-> "active", manager |-> req[q].found.admin, personal |-> req[q].personal,
             company |-> req[q].company] \in User
        BY <3>2, <3>3 DEF User
      <3> QED
        BY <2>1, <2>3, <3>4 DEF CommitAccount
    <2> QED
      BY <2>1, <2>2, <2>3, Writers
  <1>7. req' \in [Requests -> Request]
    <2>1. req \in [Requests -> Request]
      BY DEF IInv, TypeOK
    <2>2. CASE RevokeAll(q)
      <3>1. PICK D \in SUBSET Requests : req' = [req EXCEPT ![q].doomed = D]
        BY <2>2 DEF RevokeAll
      <3> QED
        BY <2>1, <3>1 DEF Request
    <2>3. CASE LockCode(q) /\ req' # req
      <3>1. req' = [req EXCEPT ![q].found = codes[req[q].code]] /\ pc[q] = "lockCode"
        BY <2>3 DEF LockCode
      <3>2. codes[req[q].code] \in Code
        BY <3>1 DEF IInv, RouteInv, Carries, RegisterSteps, Kind, TypeOK
      <3> QED
        BY <2>1, <3>1, <3>2 DEF Request
    <2>4. CASE \E k \in Kinds : Arrive(q, k)
      BY <2>4, ArriveIs
    <2> QED
      BY <2>1, <2>2, <2>3, <2>4, Writers
  <1> QED
    BY <1>1, <1>2, <1>3, <1>4, <1>5, <1>6, <1>7 DEF TypeOK, Steps

LEMMA RouteKeeps == ASSUME IInv, NEW q \in Requests, Acts(q) PROVE RouteInv'
  <1> SUFFICES ASSUME NEW p \in Requests
               PROVE  /\ IF pc'[p] = "idle" THEN Kind(p)' = "me" ELSE Carries(req'[p])
                      /\ pc'[p] \in LoginSteps => Kind(p)' = "login"
                      /\ pc'[p] \in StatusSteps => Kind(p)' = "status"
                      /\ pc'[p] \in RegisterSteps => Kind(p)' = "register"
                      /\ pc'[p] \in {"logout", "me", "issue", "revoke"} => Kind(p)' = pc'[p]
    BY DEF RouteInv
  <1>1. CASE p # q
    BY <1>1, PcFrame, ReqFrame DEF IInv, RouteInv, Kind
  <1>2. CASE p = q /\ pc[q] = "idle"
    <2>1. PICK k \in Kinds : Arrive(q, k)
      BY <1>2 DEF Acts, Step, FindCredentials, Rotate, CreateSession, Logout, Authenticate, LockUser,
         RevokeAll, CommitStatus, LockCode, InsertAccount, ConsumeCode, InsertSession, CommitAccount, IssueCode,
         RevokeCode, BreakDeadlock, WaitsFor, Refuse, Fault, AtWork, LoginSteps, StatusSteps, RegisterSteps, Inserting
    <2>2. pc'[q] = First(k) /\ Kind(q)' = k /\ Carries(req'[q]) /\ k \in Routes /\ pc'[q] # "idle"
      BY <2>1, ArriveIs, PcFrame, PeopleAssumption DEF IInv
    <2> QED
      BY <1>2, <2>2 DEF First, Routes, LoginSteps, StatusSteps, RegisterSteps, Inserting
  <1>3. CASE p = q /\ pc[q] # "idle"
    <2>1. Kind(q)' = Kind(q) /\ Carries(req'[q])
      BY <1>3, ReqFrame DEF IInv, RouteInv, Carries, Kind
    <2>2. /\ pc'[q] \in LoginSteps => pc[q] \in LoginSteps
          /\ pc'[q] \in StatusSteps => pc[q] \in StatusSteps
          /\ pc'[q] \in RegisterSteps => pc[q] \in RegisterSteps
          /\ pc'[q] \notin {"idle", "logout", "me", "issue", "revoke"}
      BY <1>3, Moves DEF IInv, LoginSteps, StatusSteps, RegisterSteps, Inserting, Rotate, RevokeAll, LockUser,
         LockCode, ConsumeCode, InsertSession
    <2> QED
      BY <1>3, <2>1, <2>2 DEF IInv, RouteInv
  <1> QED
    BY <1>1, <1>2, <1>3

LEMMA Starts ==
  ASSUME NEW q \in Requests, Acts(q), pc[q] = "idle"
  PROVE  \E k \in Kinds : Arrive(q, k)
  BY DEF Acts, Step, FindCredentials, Rotate, CreateSession, Logout, Authenticate, LockUser,
     RevokeAll, CommitStatus, LockCode, InsertAccount, ConsumeCode, InsertSession, CommitAccount, IssueCode,
     RevokeCode, BreakDeadlock, WaitsFor, Refuse, Fault, AtWork, LoginSteps, StatusSteps, RegisterSteps, Inserting

LEMMA FreshKeeps == ASSUME IInv, NEW q \in Requests, Acts(q) PROVE FreshInv'
  <1> SUFFICES ASSUME NEW p \in Requests
               PROVE  /\ pc'[p] \in {"idle"} \cup AtWork => sessions'[p].state = "absent"
                      /\ users'[p].state # "absent" => Kind(p)' = "register" /\ pc'[p] \in {"ok", "failed"}
    BY DEF FreshInv
  <1>1. p \in People /\ q \in People
    BY Sets
  <1>2. CASE p # q
    <2>1. pc'[p] = pc[p] /\ Kind(p)' = Kind(p)
      BY <1>2, PcFrame, ReqFrame DEF IInv, Kind
    <2>2. users'[p].state # "absent" => users[p].state # "absent"
      BY <1>1, <1>2, UserFrame
    <2>3. sessions[p].state = "absent" => sessions'[p].state = "absent"
      BY <1>2, SessionFrame
    <2> QED
      BY <2>1, <2>2, <2>3 DEF IInv, FreshInv
  <1>3. CASE p = q
    <2>1. sessions[q].state = "absent" /\ users[q].state = "absent"
      BY Busy DEF IInv, FreshInv, Answers
    <2>2. CreateSession(q) \/ CommitAccount(q) => pc'[q] \in {"ok", "failed"}
      BY DEF CreateSession, CommitAccount, Goto, IInv, TypeOK
    <2>3. pc'[q] \in {"idle"} \cup AtWork => sessions'[q].state = "absent"
      BY <2>1, <2>2, SessionFrame DEF AtWork, LoginSteps, StatusSteps, RegisterSteps, Inserting
    <2>4. ASSUME users'[q].state # "absent" PROVE Kind(q)' = "register" /\ pc'[q] \in {"ok", "failed"}
      <3>1. CommitAccount(q)
        BY <1>1, <2>1, <2>4, UserFrame
      <3>2. pc[q] = "commitAccount" /\ req' = req
        BY <3>1 DEF CommitAccount
      <3> QED
        BY <2>2, <3>1, <3>2 DEF IInv, RouteInv, RegisterSteps, Kind
    <2> QED
      BY <1>3, <2>3, <2>4
  <1> QED
    BY <1>2, <1>3

LEMMA PresentKeeps == ASSUME IInv, NEW q \in Requests, Acts(q) PROVE PresentInv'
  <1> SUFFICES ASSUME NEW p \in Requests, pc'[p] # "idle"
               PROVE  /\ req'[p].kind \in {"login", "status"} => users'[req'[p].user].state # "absent"
                      /\ req'[p].token # Nobody => sessions'[req'[p].token].state # "absent"
                      /\ \A s \in req'[p].before : sessions'[s].state # "absent"
                      /\ \A s \in req'[p].closed : sessions'[s].state = "revoked"
    BY DEF PresentInv, Kind, Target, Token
  <1>1. \A x \in People : users[x].state # "absent" => users'[x].state # "absent"
    BY UserFrame
  <1>2. \A s \in Requests : /\ sessions[s].state # "absent" => sessions'[s].state # "absent"
                            /\ sessions[s].state = "revoked" => sessions'[s].state = "revoked"
    BY SessionFrame
  <1>3. TypeOK' /\ RouteInv'
    BY TypeKeeps, RouteKeeps
  <1>4. /\ req'[p].token \in Requests \cup {Nobody} /\ req'[p].before \subseteq Requests
        /\ req'[p].closed \subseteq Requests
    BY <1>3 DEF TypeOK, Request
  <1>5. req'[p].kind \in {"login", "status"} => req'[p].user \in People
    BY <1>3 DEF RouteInv, Carries
  <1>6. CASE p = q /\ pc[q] = "idle"
    <2>1. PICK k \in Kinds : Arrive(q, k)
      BY <1>6, Starts
    <2>2. /\ k \in {"login", "status"} => users[req'[q].user].state # "absent"
          /\ req'[q].token # Nobody => sessions[req'[q].token].state # "absent"
          /\ req'[q].before = {s \in Requests : sessions[s].state = "live"} /\ req'[q].closed = Closed
          /\ req'[q].kind = k
      BY <2>1, ArriveIs DEF Kind
    <2>3. \A s \in req'[q].closed : sessions[s].state = "revoked"
      BY <2>2, ClosedIsOver
    <2>4. \A s \in req'[q].before : sessions[s].state # "absent"
      BY <2>2
    <2> QED
      BY <1>1, <1>2, <1>4, <1>5, <1>6, <2>2, <2>3, <2>4
  <1>7. CASE p # q \/ pc[q] # "idle"
    <2>1. pc[p] # "idle"
      BY <1>7, PcFrame DEF IInv
    <2>2. /\ req'[p].kind = req[p].kind /\ req'[p].user = req[p].user /\ req'[p].token = req[p].token
          /\ req'[p].before = req[p].before /\ req'[p].closed = req[p].closed
      BY <1>7, ReqFrame DEF IInv
    <2>3. /\ req[p].kind \in {"login", "status"} => users[req[p].user].state # "absent"
          /\ req[p].token # Nobody => sessions[req[p].token].state # "absent"
          /\ \A s \in req[p].before : sessions[s].state # "absent"
          /\ \A s \in req[p].closed : sessions[s].state = "revoked"
      BY <2>1 DEF IInv, PresentInv, Kind, Target, Token
    <2> QED
      BY <1>1, <1>2, <1>4, <1>5, <2>2, <2>3
  <1> QED
    BY <1>6, <1>7

LEMMA EndedKeeps == ASSUME IInv, NEW q \in Requests, Acts(q) PROVE EndedInv'
  <1> DEFINE Gone(t) == t # Nobody => sessions[t].state = "revoked"
  <1> SUFFICES ASSUME NEW p \in Requests
               PROVE  /\ req'[p].kind = "login" /\ (pc'[p] \in {"create", "ok"} \/ sessions'[p].state # "absent")
                            => Gone(req[p].token)'
                      /\ req'[p].kind = "logout" /\ pc'[p] = "ok" => Gone(req[p].token)'
                      /\ req'[p].kind = "status" /\ ~ req'[p].active =>
                          /\ pc'[p] = "commitStatus" =>
                                \A s \in req'[p].before : sessions'[s].user = req'[p].user =>
                                    s \in req'[p].doomed \/ sessions'[s].state = "revoked"
                          /\ pc'[p] = "ok" =>
                                \A s \in req'[p].before : sessions'[s].user = req'[p].user =>
                                    sessions'[s].state = "revoked"
    BY DEF EndedInv, Over, Kind, Target, Token
  <1>1. \A s \in Requests :
           /\ sessions[s].state = "revoked" => sessions'[s].state = "revoked"
           /\ sessions[s].state # "absent" => sessions'[s].user = sessions[s].user
    BY SessionFrame
  <1>2. CASE pc[p] = "idle" /\ p = q
    <2>1. PICK k \in Kinds : Arrive(q, k)
      BY <1>2, Starts
    <2>2. pc'[p] = First(k) /\ k \in Routes /\ sessions[p].state = "absent"
      BY <1>2, <2>1, ArriveIs, PeopleAssumption DEF IInv, FreshInv
    <2>3. sessions'[p] = sessions[p]
      BY <2>1 DEF Arrive, tables
    <2> QED
      BY <2>2, <2>3 DEF First, Routes
  <1>3. CASE pc[p] = "idle" /\ p # q
    <2>1. pc'[p] = "idle" /\ sessions[p].state = "absent"
      BY <1>3, PcFrame DEF IInv, FreshInv
    <2>2. sessions'[p].state = "absent"
      BY <1>3, <2>1, SessionFrame
    <2> QED
      BY <2>1, <2>2
  <1>4. CASE pc[p] # "idle"
    <2>1. /\ req'[p].kind = req[p].kind /\ req'[p].user = req[p].user /\ req'[p].token = req[p].token
          /\ req'[p].before = req[p].before /\ req'[p].active = req[p].active
          /\ ~(p = q /\ RevokeAll(q)) => req'[p].doomed = req[p].doomed
      BY <1>4, ReqFrame DEF IInv
    <2>2. /\ req[p].token \in Requests \cup {Nobody} /\ req[p].before \subseteq Requests
      BY DEF IInv, TypeOK, Request
    <2>3. /\ req[p].token # Nobody => sessions[req[p].token].state # "absent"
          /\ \A s \in req[p].before : sessions[s].state # "absent"
      BY <1>4 DEF IInv, PresentInv, Token
    <2>4. /\ req[p].kind = "login" /\ (pc[p] \in {"create", "ok"} \/ sessions[p].state # "absent")
               => Gone(req[p].token)
          /\ req[p].kind = "logout" /\ pc[p] = "ok" => Gone(req[p].token)
          /\ req[p].kind = "status" /\ ~ req[p].active =>
              /\ pc[p] = "commitStatus" =>
                    \A s \in req[p].before : sessions[s].user = req[p].user =>
                        s \in req[p].doomed \/ sessions[s].state = "revoked"
              /\ pc[p] = "ok" =>
                    \A s \in req[p].before : sessions[s].user = req[p].user => sessions[s].state = "revoked"
      BY DEF IInv, EndedInv, Over, Kind, Target, Token
    <2>5. Gone(req[p].token) => Gone(req[p].token)'
      BY <1>1, <2>1, <2>2
    <2>6. ASSUME pc'[p] = pc[p], sessions[p].state # "absent" \/ sessions'[p].state = "absent",
                 ~(p = q /\ RevokeAll(q))
          PROVE  /\ req'[p].kind = "login" /\ (pc'[p] \in {"create", "ok"} \/ sessions'[p].state # "absent")
                       => Gone(req[p].token)'
                 /\ req'[p].kind = "logout" /\ pc'[p] = "ok" => Gone(req[p].token)'
                 /\ req'[p].kind = "status" /\ ~ req'[p].active =>
                     /\ pc'[p] = "commitStatus" =>
                           \A s \in req'[p].before : sessions'[s].user = req'[p].user =>
                               s \in req'[p].doomed \/ sessions'[s].state = "revoked"
                     /\ pc'[p] = "ok" =>
                           \A s \in req'[p].before : sessions'[s].user = req'[p].user =>
                               sessions'[s].state = "revoked"
      BY <1>1, <2>1, <2>2, <2>3, <2>4, <2>5, <2>6
    <2>7. CASE p # q
      BY <2>6, <2>7, PcFrame, SessionFrame DEF IInv
    <2>8. CASE p = q
      <3>1. pc[q] \in AtWork /\ sessions[q].state = "absent" /\ pc[q] # "ok"
        BY <1>4, <2>8, Busy DEF IInv, FreshInv, Answers
      <3>2. CASE Rotate(q) \/ Logout(q)
        <4>1. sessions' = Revoked({req[q].token})
          BY <3>2 DEF Rotate, Logout, Token
        <4>2. Gone(req[q].token)'
          BY <2>1, <2>2, <2>3, <2>8, <4>1, RevokedMove DEF IInv
        <4>3. req[q].kind # "status"
          BY <3>2 DEF Rotate, Logout, LoginSteps, IInv, RouteInv, Kind
        <4> QED
          BY <2>1, <2>8, <4>2, <4>3
      <3>3. CASE CreateSession(q)
        <4>1. pc[q] = "create" /\ req[q].kind = "login"
          BY <3>3 DEF CreateSession, LoginSteps, IInv, RouteInv, Kind
        <4> QED
          BY <2>1, <2>4, <2>5, <2>8, <4>1
      <3>4. CASE RevokeAll(q)
        <4>1. pc[q] = "revokeAll" /\ req[q].kind = "status" /\ sessions' = sessions /\ pc'[q] = "commitStatus"
          BY <3>4 DEF RevokeAll, StatusSteps, IInv, RouteInv, Kind, tables, Goto, TypeOK
        <4>2. req'[q].doomed = {s \in Requests : sessions[s].state = "live" /\ sessions[s].user = req[q].user}
          BY <3>4 DEF RevokeAll, IInv, TypeOK, Request, Target
        <4>3. \A s \in Requests : sessions[s].state \in {"absent", "live", "revoked"}
          BY SessionFields DEF IInv
        <4> QED
          BY <2>1, <2>2, <2>3, <2>8, <4>1, <4>2, <4>3
      <3>5. CASE CommitStatus(q)
        <4>1. pc[q] = "commitStatus" /\ req[q].kind = "status" /\ sessions' = Revoked(req[q].doomed)
              /\ pc'[q] # "commitStatus"
          BY <3>5 DEF CommitStatus, StatusSteps, IInv, RouteInv, Kind, Goto, TypeOK
        <4>2. \A s \in req[q].before : s \in req[q].doomed => sessions'[s].state = "revoked"
          BY <2>2, <2>3, <2>8, <4>1, RevokedMove DEF IInv
        <4> QED
          BY <1>1, <2>1, <2>2, <2>3, <2>4, <2>8, <4>1, <4>2
      <3>6. CASE ~(Rotate(q) \/ Logout(q) \/ CreateSession(q) \/ RevokeAll(q) \/ CommitStatus(q))
        <4>1. pc'[q] # "create"
          BY <1>4, <2>8, <3>6, Moves DEF IInv
        <4>2. pc'[q] = "commitStatus" => req[q].active
          BY <1>4, <2>8, <3>6, Moves DEF IInv
        <4>3. pc'[q] = "ok" \/ sessions'[q].state # "absent" => req[q].kind \notin {"login", "logout", "status"}
          <5>1. pc'[q] = "ok" \/ sessions'[q].state # "absent" =>
                  Authenticate(q) \/ CommitAccount(q) \/ IssueCode(q) \/ RevokeCode(q)
            BY <1>4, <2>8, <3>1, <3>6, Moves, SessionFrame DEF IInv
          <5>2. Authenticate(q) \/ CommitAccount(q) \/ IssueCode(q) \/ RevokeCode(q) =>
                  pc[q] \in {"me", "commitAccount", "issue", "revoke"}
            BY DEF Authenticate, CommitAccount, IssueCode, RevokeCode
          <5>3. pc[q] \in {"me", "commitAccount", "issue", "revoke"} => req[q].kind \in {"me", "register", "issue", "revoke"}
            BY DEF IInv, RouteInv, RegisterSteps, Kind
          <5> QED
            BY <5>1, <5>2, <5>3
        <4> QED
          BY <2>1, <2>8, <4>1, <4>2, <4>3
      <3> QED
        BY <3>2, <3>3, <3>4, <3>5, <3>6
    <2> QED
      BY <2>7, <2>8
  <1> QED
    BY <1>2, <1>3, <1>4

-----------------------------------------------------------------------------
LEMMA InsertedKeys ==
  ASSUME RouteInv, NEW q \in Requests
  PROVE  Inserted(q) \subseteq Keys
  <1>1. CASE pc[q] \in RegisterSteps
    <2>1. req[q].company \in Emails /\ req[q].personal \in Emails
      BY <1>1 DEF RouteInv, Carries, Kind
    <2> QED
      BY <2>1 DEF Inserted, Keys
  <1>2. CASE pc[q] \notin RegisterSteps
    BY <1>2 DEF Inserted, RegisterSteps, Inserting
  <1> QED
    BY <1>1, <1>2

(* An address is taken when the registration that claims it commits.       *)
LEMMA TakenFrame ==
  ASSUME IInv, NEW q \in Requests, Acts(q), NEW key \in Keys, ~Taken(key), Taken(key)'
  PROVE  CommitAccount(q) /\ key \in Inserted(q)
  <1>1. PICK x \in People : users'[x].company = key[2] \/ (key[1] = "logins" /\ users'[x].personal = key[2])
    BY DEF Taken
  <1>2. ~(users[x].company = key[2] \/ (key[1] = "logins" /\ users[x].personal = key[2]))
    BY DEF Taken
  <1>3. x = q /\ CommitAccount(q)
    BY <1>1, <1>2, UserFrame
  <1>4. users'[q].company = req[q].company /\ users'[q].personal = req[q].personal /\ pc[q] = "commitAccount"
    BY <1>3, Sets DEF CommitAccount, IInv, TypeOK
  <1>5. key = <<"users", key[2]>> \/ key = <<"logins", key[2]>>
    BY DEF Keys
  <1>6. key = <<"users", req[q].company>> \/ key = <<"logins", req[q].company>> \/ key = <<"logins", req[q].personal>>
    BY <1>1, <1>3, <1>4, <1>5
  <1> QED
    BY <1>3, <1>4, <1>6 DEF Inserted

LEMMA ClaimKeeps == ASSUME IInv, NEW q \in Requests, Acts(q) PROVE ClaimInv'
  <1> SUFFICES ASSUME NEW p \in Requests, NEW key \in Inserted(p)'
               PROVE  claims'[key] = p /\ ~Taken(key)'
    BY DEF ClaimInv
  <1>1. key \in Keys
    <2>1. RouteInv'
      BY RouteKeeps
    <2>2. CASE pc'[p] \in RegisterSteps
      <3>1. req'[p].company \in Emails /\ req'[p].personal \in Emails
        BY <2>1, <2>2 DEF RouteInv, Carries, Kind
      <3> QED
        BY <3>1 DEF Inserted, Keys
    <2>3. CASE pc'[p] \notin RegisterSteps
      BY <2>3 DEF Inserted, RegisterSteps, Inserting
    <2> QED
      BY <2>2, <2>3
  <1>2. CASE p # q
    <2>1. key \in Inserted(p)
      BY <1>2, PcFrame, ReqFrame DEF IInv, Inserted
    <2>2. claims[key] = p /\ ~Taken(key)
      BY <2>1 DEF IInv, ClaimInv
    <2>3. claims'[key] = p
      BY <1>1, <1>2, <2>2, LockFrame DEF IInv
    <2>4. key \notin Inserted(q)
      BY <1>2, <2>2 DEF IInv, ClaimInv
    <2> QED
      BY <1>1, <2>2, <2>3, <2>4, TakenFrame
  <1>3. CASE p = q
    <2>1. pc'[q] \in {"insertPersonal", "insertCompany", "consume", "session", "commitAccount"}
      BY <1>3 DEF Inserted
    <2>2. pc[q] # "idle"
      <3>1. ASSUME pc[q] = "idle" PROVE FALSE
        <4>1. PICK k \in Kinds : Arrive(q, k)
          BY <3>1, Starts
        <4>2. pc'[q] = First(k) /\ k \in Routes
          BY <4>1, ArriveIs, PeopleAssumption
        <4> QED
          BY <2>1, <4>2 DEF First, Routes
      <3> QED
        BY <3>1
    <2>3. CASE InsertAccount(q)
      <3>1. /\ pc[q] \in Inserting /\ ~Taken(KeyOf(q)) /\ claims' = [claims EXCEPT ![KeyOf(q)] = q]
            /\ UNCHANGED <<users, req>> /\ pc'[q] = AfterInsert(q)
        BY <2>1, <2>3 DEF InsertAccount, Goto, IInv, TypeOK, tables
      <3>2. KeyOf(q) \in Keys
        BY <3>1, KeyIs DEF IInv
      <3>3. Inserted(q)' = Inserted(q) \cup {KeyOf(q)}
        BY <3>1 DEF Inserted, KeyOf, AfterInsert, Inserting
      <3>4. claims'[KeyOf(q)] = q /\ \A k \in Keys : claims[k] = q => claims'[k] = q
        BY <3>1, <3>2 DEF IInv, TypeOK
      <3>5. key = KeyOf(q) \/ (claims[key] = q /\ ~Taken(key))
        BY <1>3, <3>3 DEF IInv, ClaimInv
      <3>6. Taken(key)' = Taken(key)
        BY <3>1 DEF Taken
      <3> QED
        BY <1>1, <1>3, <3>1, <3>4, <3>5, <3>6
    <2>4. CASE ConsumeCode(q) \/ InsertSession(q)
      <3>1. /\ pc[q] \in {"consume", "session"} /\ pc'[q] \in {"session", "commitAccount"}
            /\ UNCHANGED <<users, req, claims>>
        BY <2>4 DEF ConsumeCode, InsertSession, Goto, IInv, TypeOK, tables, locks
      <3>2. Inserted(q)' = Inserted(q) /\ Taken(key)' = Taken(key)
        BY <3>1 DEF Inserted, Taken
      <3> QED
        BY <1>3, <3>1, <3>2 DEF IInv, ClaimInv
    <2> QED
      BY <2>1, <2>2, <2>3, <2>4, Moves DEF IInv
  <1> QED
    BY <1>2, <1>3

LEMMA EmailsKeep == ASSUME IInv, NEW q \in Requests, Acts(q) PROVE EmailsAreUnique'
  <1> SUFFICES ASSUME NEW x \in People, NEW y \in People, x # y
               PROVE  {users'[x].personal, users'[x].company} \cap {users'[y].personal, users'[y].company}
                        \subseteq {Nobody}
    BY DEF EmailsAreUnique
  <1>1. {users[x].personal, users[x].company} \cap {users[y].personal, users[y].company} \subseteq {Nobody}
    BY DEF IInv, EmailsAreUnique
  <1>2. ASSUME NEW z \in People, ~(z = q /\ CommitAccount(q))
        PROVE  users'[z].personal = users[z].personal /\ users'[z].company = users[z].company
    BY <1>2, UserFrame
  <1>3. ASSUME CommitAccount(q), NEW z \in People, z # q
        PROVE  {users'[q].personal, users'[q].company} \cap {users'[z].personal, users'[z].company} = {}
    <2>1. pc[q] = "commitAccount" /\ users'[q].company = req[q].company /\ users'[q].personal = req[q].personal
      BY <1>3, Sets DEF CommitAccount, IInv, TypeOK
    <2>2. ~Taken(<<"logins", req[q].personal>>) /\ ~Taken(<<"logins", req[q].company>>)
      BY <2>1 DEF IInv, ClaimInv, Inserted
    <2>3. \A e \in {req[q].personal, req[q].company} : users[z].company # e /\ users[z].personal # e
      BY <2>2 DEF Taken
    <2> QED
      BY <1>2, <1>3, <2>1, <2>3
  <1> QED
    BY <1>1, <1>2, <1>3

LEMMA CodeKeeps == ASSUME IInv, NEW q \in Requests, Acts(q) PROVE CodeInv'
  <1> SUFFICES ASSUME NEW p \in Requests, pc'[p] \in RegisterSteps \ {"lockCode"}
               PROVE  /\ codeLock'[req'[p].code] = p /\ codes'[req'[p].code].state = "open"
                      /\ codes'[req'[p].code].used < MaxUses(req'[p].code)
                      /\ req'[p].found.admin = codes'[req'[p].code].admin
    BY DEF CodeInv, MaxUses
  <1>1. CASE p # q
    <2>1. pc[p] \in RegisterSteps \ {"lockCode"} /\ req'[p] = req[p]
      BY <1>1, PcFrame, ReqFrame DEF IInv
    <2>2. /\ codeLock[req[p].code] = p /\ codes[req[p].code].state = "open"
          /\ codes[req[p].code].used < MaxUses(req[p].code)
          /\ req[p].found.admin = codes[req[p].code].admin /\ req[p].code \in Codes
      BY <2>1 DEF IInv, CodeInv, RouteInv, Carries, Kind
    <2>3. codeLock'[req[p].code] = p
      BY <1>1, <2>2, LockFrame DEF IInv
    <2>4. codes'[req[p].code] = codes[req[p].code]
      BY <1>1, <2>2, CodeFrame, Sets
    <2> QED
      BY <2>1, <2>2, <2>3, <2>4
  <1>2. CASE p = q
    <2>1. pc[q] # "idle"
      <3>1. ASSUME pc[q] = "idle" PROVE FALSE
        <4>1. PICK k \in Kinds : Arrive(q, k)
          BY <3>1, Starts
        <4>2. pc'[q] = First(k) /\ k \in Routes
          BY <4>1, ArriveIs, PeopleAssumption
        <4> QED
          BY <1>2, <4>2 DEF First, Routes, RegisterSteps, Inserting
      <3> QED
        BY <3>1
    <2>2. CASE LockCode(q)
      <3>1. pc[q] = "lockCode" /\ codes' = codes /\ pc'[q] # "refused"
        BY <1>2, <2>2, StepsAre DEF LockCode, tables, RegisterSteps, Inserting
      <3>2. req[q].code \in Codes
        BY <3>1 DEF IInv, RouteInv, Carries, RegisterSteps, Kind
      <3>3. /\ Usable(req[q].code, req[q].now) /\ codeLock' = [codeLock EXCEPT ![req[q].code] = q]
            /\ req' = [req EXCEPT ![q].found = codes[req[q].code]]
        BY <2>2, <3>1 DEF LockCode, Goto, IInv, TypeOK
      <3>4. req'[q].code = req[q].code /\ req'[q].found = codes[req[q].code]
        BY <3>3 DEF IInv, TypeOK, Request
      <3> QED
        BY <1>2, <3>1, <3>2, <3>3, <3>4 DEF Usable, IInv, TypeOK
    <2>3. CASE InsertAccount(q) \/ ConsumeCode(q) \/ InsertSession(q)
      <3>1. /\ pc[q] \in RegisterSteps \ {"lockCode"} /\ UNCHANGED <<req, codes>>
        BY <2>3 DEF InsertAccount, ConsumeCode, InsertSession, RegisterSteps, Inserting, tables
      <3>2. /\ codeLock[req[q].code] = q /\ codes[req[q].code].state = "open"
            /\ codes[req[q].code].used < MaxUses(req[q].code)
            /\ req[q].found.admin = codes[req[q].code].admin /\ req[q].code \in Codes
        BY <3>1 DEF IInv, CodeInv, RouteInv, Carries, Kind
      <3>3. codeLock' = codeLock \/ codeLock' = [codeLock EXCEPT ![req[q].code] = q]
        BY <1>2, <2>3 DEF InsertAccount, ConsumeCode, InsertSession, locks, Goto, IInv, TypeOK,
           RegisterSteps, Inserting
      <3> QED
        BY <1>2, <3>1, <3>2, <3>3 DEF IInv, TypeOK
    <2> QED
      BY <1>2, <2>1, <2>2, <2>3, Moves DEF IInv, RegisterSteps, Inserting
  <1> QED
    BY <1>1, <1>2

(* A code is spent by the commit of a registration and by nothing else.    *)
LEMMA SpentMove ==
  ASSUME IInv, NEW q \in Requests, Acts(q), NEW c \in Codes
  PROVE  /\ q \notin Spent(c)
         /\ Spent(c)' = IF CommitAccount(q) /\ req[q].code = c THEN Spent(c) \cup {q} ELSE Spent(c)
  <1>1. pc[q] \notin Answers /\ users[q].state = "absent" /\ q \in People
    BY Busy, Sets DEF IInv, FreshInv, Answers
  <1>2. ASSUME NEW x \in Requests, x # q
        PROVE  (users'[x].state # "absent" <=> users[x].state # "absent") /\ req'[x] = req[x]
    BY <1>2, UserFrame, ReqFrame, Sets DEF IInv
  <1>3. CASE CommitAccount(q)
    <2>1. users'[q].state # "absent" /\ req' = req
      BY <1>1, <1>3 DEF CommitAccount, IInv, TypeOK
    <2> QED
      BY <1>1, <1>2, <1>3, <2>1 DEF Spent
  <1>4. CASE ~CommitAccount(q)
    <2>1. users'[q].state = "absent"
      BY <1>1, <1>4, UserFrame
    <2> QED
      BY <1>1, <1>2, <1>4, <2>1 DEF Spent
  <1> QED
    BY <1>3, <1>4

LEMMA SpentKeeps == ASSUME IInv, NEW q \in Requests, Acts(q) PROVE SpentInv'
  <1> SUFFICES ASSUME NEW c \in Codes
               PROVE  /\ IsFiniteSet(Spent(c)') /\ Cardinality(Spent(c)') = codes'[c].used
                      /\ codes'[c].state = "absent" => codes'[c].used = 0
    BY DEF SpentInv
  <1>1. /\ IsFiniteSet(Spent(c)) /\ Cardinality(Spent(c)) = codes[c].used
        /\ codes[c].state = "absent" => codes[c].used = 0
    BY DEF IInv, SpentInv
  <1>2. codes \in [Codes -> Code] /\ codes[c] \in Code
    BY DEF IInv, TypeOK
  <1>3. CASE CommitAccount(q) /\ req[q].code = c
    <2>1. Spent(c)' = Spent(c) \cup {q} /\ q \notin Spent(c)
      BY <1>3, SpentMove
    <2>2. IsFiniteSet(Spent(c)') /\ Cardinality(Spent(c)') = Cardinality(Spent(c)) + 1
      BY <1>1, <2>1, FS_AddElement
    <2>3. codes' = [codes EXCEPT ![c].used = codes[c].used + 1]
      BY <1>3 DEF CommitAccount
    <2>4. codes[c].state = "open"
      BY <1>3 DEF CommitAccount, IInv, CodeInv, RegisterSteps
    <2> QED
      BY <1>1, <1>2, <2>2, <2>3, <2>4 DEF Code
  <1>4. CASE ~(CommitAccount(q) /\ req[q].code = c)
    <2>1. Spent(c)' = Spent(c)
      BY <1>4, SpentMove
    <2>2. CASE codes' = codes
      BY <1>1, <2>1, <2>2
    <2>3. CASE CommitAccount(q)
      <3>1. codes' = [codes EXCEPT ![req[q].code].used = codes[req[q].code].used + 1] /\ req[q].code # c
        BY <1>4, <2>3 DEF CommitAccount
      <3> QED
        BY <1>1, <1>2, <2>1, <3>1
    <2>4. CASE IssueCode(q)
      <3>1. codes[req[q].code].state = "absent"
            /\ codes' = [codes EXCEPT ![req[q].code] = [state |-> "open", admin |-> req[q].admin,
                                                       expires |-> req[q].now + TTL, used |-> 0]]
        BY <2>4 DEF IssueCode
      <3> QED
        BY <1>1, <1>2, <2>1, <3>1
    <2>5. CASE RevokeCode(q) /\ codes' # codes
      <3>1. codes' = [codes EXCEPT ![req[q].code].state = "revoked"]
        BY <2>5 DEF RevokeCode
      <3> QED
        BY <1>1, <1>2, <2>1, <3>1 DEF Code
    <2> QED
      BY <2>2, <2>3, <2>4, <2>5, Writers
  <1> QED
    BY <1>3, <1>4

LEMMA WholeKeeps == ASSUME IInv, NEW q \in Requests, Acts(q) PROVE WholeInv'
  <1> SUFFICES ASSUME NEW p \in Requests, Kind(p)' = "register"
               PROVE  /\ users'[p].state # "absent" <=> sessions'[p].state # "absent"
                      /\ users'[p].state # "absent" => /\ codes'[req'[p].code].state # "absent"
                                                       /\ users'[p].manager = codes'[req'[p].code].admin
                      /\ pc'[p] = "ok" => users'[p].state # "absent"
    BY DEF WholeInv
  <1>1. p \in People
    BY Sets
  <1>2. CASE p # q
    <2>1. req'[p] = req[p] /\ pc'[p] = pc[p] /\ Kind(p) = "register"
      BY <1>2, PcFrame, ReqFrame DEF IInv, Kind
    <2>2. req[p].code \in Codes
      BY <2>1 DEF IInv, RouteInv, Carries, Kind
    <2>3. /\ users[p].state # "absent" <=> sessions[p].state # "absent"
          /\ users[p].state # "absent" => /\ codes[req[p].code].state # "absent"
                                          /\ users[p].manager = codes[req[p].code].admin
          /\ pc[p] = "ok" => users[p].state # "absent"
      BY <2>1 DEF IInv, WholeInv
    <2>4. (users'[p].state # "absent" <=> users[p].state # "absent")
            /\ (users[p].state # "absent" => users'[p].manager = users[p].manager)
      BY <1>1, <1>2, UserFrame
    <2>5. sessions'[p].state # "absent" <=> sessions[p].state # "absent"
      BY <1>2, SessionFrame
    <2>6. codes[req[p].code].state # "absent" =>
            codes'[req[p].code].state # "absent" /\ codes'[req[p].code].admin = codes[req[p].code].admin
      BY <2>2, CodeFrame
    <2> QED
      BY <2>1, <2>3, <2>4, <2>5, <2>6
  <1>3. CASE p = q
    <2>1. users[q].state = "absent" /\ sessions[q].state = "absent"
      BY Busy DEF IInv, FreshInv, Answers
    <2>2. CASE CommitAccount(q)
      <3>1. /\ pc[q] = "commitAccount" /\ req' = req
            /\ users'[q].state = "active" /\ users'[q].manager = req[q].found.admin
        BY <1>1, <1>3, <2>2 DEF CommitAccount, IInv, TypeOK
      <3>2. /\ codes[req[q].code].state = "open" /\ req[q].found.admin = codes[req[q].code].admin
            /\ req[q].code \in Codes
        BY <3>1 DEF IInv, CodeInv, RouteInv, Carries, RegisterSteps, Kind
      <3>3. codes'[req[q].code].state # "absent" /\ codes'[req[q].code].admin = codes[req[q].code].admin
        BY <3>2, CodeFrame
      <3>4. sessions'[q].state = "live"
        BY <2>2, SessionFrame
      <3> QED
        BY <1>3, <3>1, <3>2, <3>3, <3>4
    <2>3. CASE ~CommitAccount(q)
      <3>1. users'[q].state = "absent"
        BY <1>1, <1>3, <2>1, <2>3, UserFrame
      <3>2. CASE pc[q] = "idle"
        <4>1. PICK k \in Kinds : Arrive(q, k)
          BY <3>2, Starts
        <4>2. pc'[q] = First(k) /\ k = "register"
          BY <1>3, <4>1, ArriveIs
        <4>3. pc'[q] = "lockCode" /\ sessions' = sessions
          BY <4>1, <4>2 DEF First, Arrive, tables
        <4> QED
          BY <1>3, <2>1, <3>1, <4>3
      <3>3. CASE pc[q] # "idle"
        <4>1. Kind(q) = "register"
          BY <1>3, <3>3, ReqFrame DEF IInv, Kind
        <4>2. pc[q] \notin LoginSteps \cup StatusSteps \cup {"logout", "me", "issue", "revoke"}
          BY <4>1 DEF IInv, RouteInv
        <4>3. ~CreateSession(q) /\ pc'[q] # "ok"
          BY <2>3, <3>3, <4>2, Moves DEF IInv, CreateSession, Logout, Authenticate, CommitStatus, IssueCode,
             RevokeCode, LoginSteps, StatusSteps
        <4>4. sessions'[q].state = "absent"
          BY <2>1, <2>3, <4>3, SessionFrame
        <4> QED
          BY <1>3, <3>1, <4>3, <4>4
      <3> QED
        BY <3>2, <3>3
    <2> QED
      BY <2>2, <2>3
  <1> QED
    BY <1>2, <1>3

LEMMA EntryKeeps == ASSUME IInv, NEW q \in Requests, Acts(q) PROVE NoEntryAfterExit'
  <1> SUFFICES ASSUME NEW p \in Requests, req'[p].kind = "me", pc'[p] = "ok"
               PROVE  req'[p].token \notin req'[p].closed
    BY DEF NoEntryAfterExit, Kind, Token
  <1>1. CASE p # q
    BY <1>1, PcFrame, ReqFrame DEF IInv, NoEntryAfterExit, Kind, Token
  <1>2. CASE p = q
    <2>1. pc[q] # "idle"
      <3>1. ASSUME pc[q] = "idle" PROVE FALSE
        <4>1. PICK k \in Kinds : Arrive(q, k)
          BY <3>1, Starts
        <4>2. pc'[q] = First(k) /\ k \in Routes
          BY <4>1, ArriveIs, PeopleAssumption
        <4> QED
          BY <1>2, <4>2 DEF First, Routes
      <3> QED
        BY <3>1
    <2>2. req'[q].kind = req[q].kind /\ req'[q].token = req[q].token /\ req'[q].closed = req[q].closed
      BY <2>1, ReqFrame DEF IInv
    <2>3. Authenticate(q)
      BY <1>2, <2>1, <2>2, Moves DEF IInv, RouteInv, Kind, CreateSession, Logout, CommitStatus, CommitAccount,
         IssueCode, RevokeCode, LoginSteps, StatusSteps, RegisterSteps
    <2>4. sessions[req[q].token].state = "live"
      BY <1>2, <2>3 DEF Authenticate, Accepts, Token, Goto, IInv, TypeOK
    <2>5. \A s \in req[q].closed : sessions[s].state = "revoked"
      BY <2>1 DEF IInv, PresentInv
    <2> QED
      BY <1>2, <2>2, <2>4, <2>5
  <1> QED
    BY <1>1, <1>2

-----------------------------------------------------------------------------
LEMMA CrashKeeps == ASSUME IInv, Crash PROVE IInv'
  <1>1. /\ UNCHANGED <<users, sessions, codes, clock, req>>
        /\ \A p \in Requests : pc'[p] = IF pc[p] \in AtWork THEN "lost" ELSE pc[p]
    BY DEF Crash, tables
  <1>2. \A p \in Requests : pc'[p] \notin AtWork /\ (pc'[p] = pc[p] \/ pc'[p] = "lost")
                             /\ (pc'[p] = "idle" <=> pc[p] = "idle")
    BY <1>1, StepsAre DEF AtWork, LoginSteps, StatusSteps, RegisterSteps, Inserting
  <1>3. TypeOK'
    BY <1>1 DEF IInv, TypeOK, Crash, Answers
  <1>4. RouteInv'
    BY <1>1, <1>2 DEF IInv, RouteInv, Carries, Kind, AtWork
  <1>5. FreshInv'
    <2>1. \A p \in Requests : pc[p] \in {"ok", "failed"} => pc'[p] = pc[p]
      BY <1>1 DEF AtWork, LoginSteps, StatusSteps, RegisterSteps, Inserting
    <2> QED
      BY <1>1, <1>2, <2>1 DEF IInv, FreshInv, Kind
  <1>6. PresentInv'
    BY <1>1, <1>2 DEF IInv, PresentInv, Kind, Target, Token
  <1>7. EndedInv'
    <2>1. \A p \in Requests : pc'[p] \notin {"create", "commitStatus"} /\ (pc'[p] = "ok" => pc[p] = "ok")
      BY <1>2 DEF AtWork, LoginSteps, StatusSteps
    <2> QED
      BY <1>1, <2>1 DEF IInv, EndedInv, Over, Kind, Target, Token
  <1>8. ClaimInv'
    BY <1>2 DEF ClaimInv, Inserted, AtWork, RegisterSteps, Inserting
  <1>9. EmailsAreUnique'
    BY <1>1 DEF IInv, EmailsAreUnique
  <1>10. CodeInv'
    BY <1>2 DEF CodeInv, AtWork
  <1>11. SpentInv'
    BY <1>1 DEF IInv, SpentInv, Spent
  <1>12. WholeInv'
    BY <1>1, <1>2 DEF IInv, WholeInv, Kind
  <1>13. NoEntryAfterExit'
    BY <1>1, <1>2 DEF IInv, NoEntryAfterExit, Kind, Token
  <1> QED
    BY <1>3, <1>4, <1>5, <1>6, <1>7, <1>8, <1>9, <1>10, <1>11, <1>12, <1>13 DEF IInv

LEMMA TickKeeps == ASSUME IInv, Tick \/ UNCHANGED vars PROVE IInv'
  <1>1. UNCHANGED <<users, sessions, codes, userLock, codeLock, claims, pc, req>>
    BY DEF Tick, vars, tables, locks
  <1>2. clock' \in 0..MaxTime
    BY Sets DEF IInv, TypeOK, Tick, vars
  <1>3. TypeOK'
    BY <1>1, <1>2 DEF IInv, TypeOK
  <1>4. RouteInv' /\ FreshInv' /\ PresentInv' /\ EndedInv'
    BY <1>1 DEF IInv, RouteInv, Carries, FreshInv, PresentInv, EndedInv, Over, Kind, Target, Token
  <1>5. ClaimInv' /\ EmailsAreUnique'
    BY <1>1 DEF IInv, ClaimInv, Inserted, Taken, EmailsAreUnique
  <1>6. CodeInv' /\ SpentInv'
    BY <1>1 DEF IInv, CodeInv, MaxUses, SpentInv, Spent
  <1>7. WholeInv' /\ NoEntryAfterExit'
    BY <1>1 DEF IInv, WholeInv, NoEntryAfterExit, Kind, Token
  <1> QED
    BY <1>3, <1>4, <1>5, <1>6, <1>7 DEF IInv

LEMMA InitHolds == Init => IInv
  <1> SUFFICES ASSUME Init PROVE IInv
    OBVIOUS
  <1>1. \A q \in Requests : /\ pc[q] = "idle" /\ req[q] = Idle /\ sessions[q] = NoSession
                            /\ q \in People /\ users[q] = NoUser
    BY Sets, PeopleAssumption DEF Init, People
  <1>2. TypeOK
    <2>1. users \in [People -> User]
      <3>1. ASSUME NEW x \in Workers
            PROVE  [state |-> "active", manager |-> Manager[x], personal |-> Nobody, company |-> x] \in User
        BY PeopleAssumption DEF User
      <3> QED
        BY <3>1 DEF Init, User
    <2>2. codes \in [Codes -> Code]
      <3>1. NoCode \in Code /\ [NoCode EXCEPT !.state = "open", !.expires = TTL] \in Code
        BY Sets DEF NoCode, Code
      <3> QED
        BY <3>1 DEF Init
    <2>3. Idle \in Request
      BY DEF Idle, Request, NoCode, Code, Routes
    <2>4. sessions \in [Requests -> Session]
      BY DEF Init, Session
    <2>5. clock \in 0..MaxTime
      BY Sets DEF Init
    <2> QED
      BY <2>1, <2>2, <2>3, <2>4, <2>5 DEF Init, TypeOK
  <1>3. RouteInv /\ FreshInv
    BY <1>1 DEF RouteInv, FreshInv, Kind, Idle, NoSession, NoUser, LoginSteps, StatusSteps, RegisterSteps, Inserting
  <1>4. PresentInv /\ EndedInv
    BY <1>1 DEF PresentInv, EndedInv, Kind, Idle
  <1>5. ClaimInv /\ CodeInv
    BY <1>1 DEF ClaimInv, CodeInv, Inserted, RegisterSteps, Inserting
  <1>6. EmailsAreUnique
    <2>1. \A x \in People : users[x].personal = Nobody /\ users[x].company \in {x, Nobody}
      BY DEF Init, NoUser
    <2> QED
      BY <2>1, Sets DEF EmailsAreUnique
  <1>7. SpentInv
    <2>1. ASSUME NEW c \in Codes PROVE Spent(c) = {} /\ codes[c].used = 0
      BY <1>1 DEF Spent, Init, NoCode, NoUser
    <2> QED
      BY <2>1, FS_EmptySet DEF SpentInv
  <1>8. WholeInv /\ NoEntryAfterExit
    BY <1>1 DEF WholeInv, NoEntryAfterExit, Kind, Idle
  <1> QED
    BY <1>2, <1>3, <1>4, <1>5, <1>6, <1>7, <1>8 DEF IInv

LEMMA StepKeeps == IInv /\ [Next]_vars => IInv'
  <1> SUFFICES ASSUME IInv, [Next]_vars PROVE IInv'
    OBVIOUS
  <1>1. ASSUME NEW q \in Requests, Acts(q) PROVE IInv'
    BY <1>1, TypeKeeps, RouteKeeps, FreshKeeps, PresentKeeps, EndedKeeps, ClaimKeeps, EmailsKeep, CodeKeeps,
       SpentKeeps, WholeKeeps, EntryKeeps DEF IInv
  <1> QED
    BY <1>1, CrashKeeps, TickKeeps DEF Next, Acts

LEMMA AlwaysIInv == Spec => []IInv
  BY InitHolds, StepKeeps, PTL DEF Spec

(* Every table, lock and request keeps to its type.                        *)
THEOREM TypeCorrect == Spec => []TypeOK
  <1>1. IInv => TypeOK
    BY DEF IInv
  <1> QED
    BY <1>1, AlwaysIInv, PTL

(* A cookie whose session was ended before the request came in, by logging *)
(* out, signing in again or an answered deactivation, opens nothing: what  *)
(* Require accepts is live, and a revoked session stays revoked.           *)
THEOREM NothingOpensAfterExit == Spec => []NoEntryAfterExit
  <1>1. IInv => NoEntryAfterExit
    BY DEF IInv
  <1> QED
    BY <1>1, AlwaysIInv, PTL

(* handleLogin revokes the session the browser presented before it makes   *)
(* another, whatever becomes of the request after that.                    *)
THEOREM OldTokensAreOver == Spec => []OldTokenIsOver
  <1>1. IInv => OldTokenIsOver
    BY DEF IInv, EndedInv, Over, OldTokenIsOver
  <1> QED
    BY <1>1, AlwaysIInv, PTL

(* A registration leaves the account, its session and the use of its code, *)
(* or none of the three.                                                   *)
THEOREM RegistrationsAreWhole == Spec => []RegistrationIsWhole
  <1>1. IInv => RegistrationIsWhole
    BY DEF IInv, WholeInv, FreshInv, RegistrationIsWhole
  <1> QED
    BY <1>1, AlwaysIInv, PTL

(* No address is two accounts' at once, in either of its columns, whatever *)
(* registrations race for it.                                              *)
THEOREM AddressesAreUnique == Spec => []EmailsAreUnique
  <1>1. IInv => EmailsAreUnique
    BY DEF IInv
  <1> QED
    BY <1>1, AlwaysIInv, PTL

-----------------------------------------------------------------------------
LEMMA LedgerInit == Init => Ledger!Init
  <1> SUFFICES ASSUME Init PROVE Ledger!Init
    OBVIOUS
  <1>1. [c \in Codes |-> codes[c].state] \in [Codes -> {"absent", "open"}]
    BY DEF Init, NoCode
  <1>2. [c \in Codes |-> Spent(c)] = [c \in Codes |-> {}]
    <2>1. ASSUME NEW x \in Requests PROVE users[x].state = "absent"
      BY Sets, PeopleAssumption DEF Init, NoUser
    <2>2. ASSUME NEW c \in Codes PROVE Spent(c) = {}
      BY <2>1 DEF Spent
    <2> QED
      BY <2>2
  <1> QED
    BY <1>1, <1>2 DEF Ledger!Init

LEMMA LedgerStep ==
  ASSUME IInv, NEW q \in Requests, Acts(q)
  PROVE  [Ledger!Next]_(Ledger!vars)
  <1> DEFINE state == [c \in Codes |-> codes[c].state]
             spent == [c \in Codes |-> Spent(c)]
  <1>1. codes \in [Codes -> Code]
    BY DEF IInv, TypeOK
  <1>2. ~CommitAccount(q) => spent' = spent
    BY SpentMove
  <1>3. CASE CommitAccount(q)
    <2>1. pc[q] = "commitAccount"
      BY <1>3 DEF CommitAccount
    <2>0. req[q].code \in Codes
      BY <2>1 DEF IInv, RouteInv, Carries, RegisterSteps, Kind
    <2> PICK c \in Codes : c = req[q].code
      BY <2>0
    <2>2. codes[c].state = "open" /\ codes[c].used < MaxUses(c)
      BY <2>1 DEF IInv, CodeInv, RegisterSteps
    <2>3. Cardinality(spent[c]) < MaxUses(c)
      BY <2>2 DEF IInv, SpentInv
    <2>4. \A d \in Codes : q \notin spent[d]
      BY SpentMove
    <2>5. \A d \in Codes : Spent(d)' = IF d = c THEN Spent(d) \cup {q} ELSE Spent(d)
      BY <1>3, SpentMove
    <2>6. spent' = [spent EXCEPT ![c] = spent[c] \cup {q}]
      BY <2>2, <2>5
    <2>7. state' = state
      BY <1>1, <1>3, <2>2 DEF CommitAccount, Code
    <2>8. Ledger!Redeem(c, q)
      <3>1. Ledger!Cardinality(spent[c]) = Cardinality(spent[c])
        BY DEF Ledger!Cardinality, Cardinality
      <3> QED
        BY <2>2, <2>3, <2>4, <2>6, <2>7, <3>1 DEF Ledger!Redeem, MaxUses
    <2>9. Ledger!Next
      BY <2>2, <2>8 DEF Ledger!Next
    <2> QED
      BY <2>9
  <1>4. CASE IssueCode(q)
    <2>0. req[q].code \in Codes
      BY <1>4, Sets DEF IssueCode, IInv, RouteInv, Carries, Kind
    <2> PICK c \in Codes : c = req[q].code
      BY <2>0
    <2>1. pc[q] = "issue" /\ codes[c].state = "absent"
          /\ codes' = [codes EXCEPT ![c] = [state |-> "open", admin |-> req[q].admin,
                                              expires |-> req[q].now + TTL, used |-> 0]]
      BY <1>4 DEF IssueCode
    <2>3. state' = [state EXCEPT ![c] = "open"]
      BY <1>1, <2>1
    <2>4. spent' = spent
      BY <1>2, <2>1 DEF CommitAccount
    <2>5. Ledger!Issue(c)
      BY <2>1, <2>3, <2>4 DEF Ledger!Issue
    <2>6. Ledger!Next
      BY <2>5 DEF Ledger!Next
    <2> QED
      BY <2>6
  <1>5. CASE RevokeCode(q) /\ codes' # codes
    <2>0. req[q].code \in Codes
      BY <1>5, Sets DEF RevokeCode, IInv, RouteInv, Carries, Kind
    <2> PICK c \in Codes : c = req[q].code
      BY <2>0
    <2>1. pc[q] = "revoke" /\ codes[c].state # "absent" /\ codes[c].used = 0
          /\ codes' = [codes EXCEPT ![c].state = "revoked"]
      BY <1>5 DEF RevokeCode
    <2>2. codes[c] \in Code
      BY <1>1
    <2>3. state' = [state EXCEPT ![c] = "revoked"]
      BY <1>1, <2>1, <2>2 DEF Code
    <2>4. spent' = spent
      BY <1>2, <2>1 DEF CommitAccount
    <2>5. Spent(c) = {}
      BY <2>1, <2>2, FS_EmptySet DEF IInv, SpentInv
    <2>6. CASE codes[c].state = "open"
      <3>1. Ledger!Revoke(c)
        BY <2>2, <2>3, <2>4, <2>5, <2>6 DEF Ledger!Revoke
      <3>2. Ledger!Next
        BY <2>2, <3>1 DEF Ledger!Next
      <3> QED
        BY <3>2
    <2>7. CASE codes[c].state = "revoked"
      <3>1. state' = state
        BY <2>2, <2>3, <2>7
      <3> QED
        BY <2>4, <3>1 DEF Ledger!vars
    <2> QED
      BY <2>1, <2>2, <2>6, <2>7 DEF Code
  <1>6. CASE codes' = codes /\ ~CommitAccount(q)
    BY <1>2, <1>6 DEF Ledger!vars
  <1> QED
    BY <1>3, <1>4, <1>5, <1>6, Writers

(* Codes are spent as CodeLedger says, for any number of codes, uses and   *)
(* requests: a registration's commit is its Redeem, and revoking a code    *)
(* twice is no step of it.                                                 *)
THEOREM CodesAreKept == Spec => ImplementsCodeLedger
  <1>1. Init => Ledger!Init
    BY LedgerInit
  <1>2. IInv /\ [Next]_vars => [Ledger!Next]_(Ledger!vars)
    <2> SUFFICES ASSUME IInv, [Next]_vars PROVE [Ledger!Next]_(Ledger!vars)
      OBVIOUS
    <2>1. CASE Crash \/ Tick \/ UNCHANGED vars
      <3>1. UNCHANGED <<users, codes, req>>
        BY <2>1 DEF Crash, Tick, vars, tables
      <3>2. UNCHANGED Ledger!vars
        BY <3>1 DEF Ledger!vars, Spent
      <3> QED
        BY <3>2
    <2> QED
      BY <2>1, LedgerStep DEF Next, Acts
  <1> QED
    BY <1>1, <1>2, AlwaysIInv, PTL DEF Spec, ImplementsCodeLedger, Ledger!Spec
-----------------------------------------------------------------------------
(* Waiting.  A lock is held by a transaction past the statement that took  *)
(* it and not yet over, and an address only by one that has inserted it.   *)
Holds(q) ==
    /\ \A x \in People : userLock[x] = q => pc[q] \in {"revokeAll", "commitStatus"}
    /\ \A c \in Codes : codeLock[c] = q => pc[q] \in RegisterSteps \ {"lockCode"}
    /\ \A key \in Keys : claims[key] = q => key \in Inserted(q)

(* A code about to be issued is one nobody else was given, and not there.  *)
Issues(q) ==
    Kind(q) = "issue" =>
        /\ pc[q] = "issue" => codes[req[q].code].state = "absent"
        /\ \A p \in Requests : Kind(p) = "issue" /\ req[p].code = req[q].code => p = q

IssuedInv == \A c \in JoinCodes :
    codes[c].state # "absent" => \E p \in Requests : Kind(p) = "issue" /\ req[p].code = c

WaitInv == (\A q \in Requests : Holds(q) /\ Issues(q)) /\ IssuedInv

LEMMA ReleaseEnds ==
  ASSUME NEW q \in Requests, Release(q)
  PROVE  /\ \A x \in People : userLock'[x] # q
         /\ \A c \in Codes : codeLock'[c] # q
         /\ \A key \in Keys : claims'[key] # q
  BY Sets DEF Release

LEMMA HoldsKeep == ASSUME IInv, NEW q \in Requests, Acts(q), \A p \in Requests : Holds(p)
                   PROVE  \A p \in Requests : Holds(p)'
  <1> SUFFICES ASSUME NEW p \in Requests PROVE Holds(p)'
    OBVIOUS
  <1>1. CASE p # q
    <2>1. pc'[p] = pc[p] /\ Inserted(p)' = Inserted(p)
      <3>1. pc'[p] = pc[p] /\ req'[p] = req[p]
        BY <1>1, PcFrame, ReqFrame DEF IInv
      <3> QED
        BY <3>1 DEF Inserted
    <2>2. /\ \A x \in People : userLock'[x] = p <=> userLock[x] = p
          /\ \A c \in Codes : codeLock'[c] = p <=> codeLock[c] = p
          /\ \A key \in Keys : claims'[key] = p <=> claims[key] = p
      BY <1>1, LockFrame DEF IInv
    <2> QED
      BY <2>1, <2>2 DEF Holds
  <1>2. CASE p = q
    <2>1. Holds(q) /\ TypeOK
      BY DEF IInv
    <2>2. CASE Release(q)
      BY <1>2, <2>2, ReleaseEnds DEF Holds
    <2>3. CASE UNCHANGED locks /\ pc[q] \notin StatusSteps \cup RegisterSteps
      <3>1. \A x \in People : userLock'[x] # q
        BY <2>1, <2>3 DEF Holds, locks, StatusSteps
      <3>2. \A c \in Codes : codeLock'[c] # q
        BY <2>1, <2>3 DEF Holds, locks
      <3>3. \A key \in Keys : claims'[key] # q
        BY <2>1, <2>3 DEF Holds, locks, Inserted, RegisterSteps, Inserting
      <3> QED
        BY <1>2, <3>1, <3>2, <3>3 DEF Holds
    <2>4. CASE UNCHANGED locks /\ pc[q] \in {"lockUser", "lockCode"}
      <3>1. \A x \in People : userLock'[x] # q
        BY <2>1, <2>4 DEF Holds, locks
      <3>2. \A c \in Codes : codeLock'[c] # q
        BY <2>1, <2>4 DEF Holds, locks, RegisterSteps, Inserting
      <3>3. \A key \in Keys : claims'[key] # q
        BY <2>1, <2>4 DEF Holds, locks, Inserted
      <3> QED
        BY <1>2, <3>1, <3>2, <3>3 DEF Holds
    <2>5. CASE LockUser(q) /\ ~UNCHANGED locks
      <3>1. pc[q] = "lockUser" /\ pc'[q] \in {"commitStatus", "revokeAll"} /\ UNCHANGED <<codeLock, claims>>
        BY <2>1, <2>5 DEF LockUser, Goto, TypeOK, locks
      <3>2. (\A c \in Codes : codeLock'[c] # q) /\ (\A key \in Keys : claims'[key] # q)
        BY <2>1, <3>1 DEF Holds, Inserted, RegisterSteps, Inserting
      <3> QED
        BY <1>2, <3>1, <3>2 DEF Holds
    <2>6. CASE RevokeAll(q)
      <3>1. pc[q] = "revokeAll" /\ pc'[q] = "commitStatus" /\ UNCHANGED locks
        BY <2>1, <2>6 DEF RevokeAll, Goto, TypeOK
      <3>2. (\A c \in Codes : codeLock'[c] # q) /\ (\A key \in Keys : claims'[key] # q)
        BY <2>1, <3>1 DEF Holds, Inserted, RegisterSteps, Inserting, locks
      <3> QED
        BY <1>2, <3>1, <3>2 DEF Holds
    <2>7. CASE LockCode(q) /\ ~UNCHANGED locks
      <3>1. pc[q] = "lockCode" /\ pc'[q] = "insertUser" /\ UNCHANGED <<userLock, claims>>
        BY <2>1, <2>7 DEF LockCode, Goto, TypeOK, locks
      <3>2. (\A x \in People : userLock'[x] # q) /\ (\A key \in Keys : claims'[key] # q)
        BY <2>1, <3>1 DEF Holds, Inserted
      <3>3. pc'[q] \in RegisterSteps \ {"lockCode"}
        BY <3>1 DEF RegisterSteps, Inserting
      <3> QED
        BY <1>2, <3>2, <3>3 DEF Holds
    <2>8. CASE InsertAccount(q) /\ ~Release(q)
      <3>1. /\ pc[q] \in Inserting /\ claims' = [claims EXCEPT ![KeyOf(q)] = q]
            /\ UNCHANGED <<userLock, codeLock, req>> /\ pc'[q] = AfterInsert(q)
        BY <2>1, <2>8 DEF InsertAccount, Goto, TypeOK
      <3>2. Inserted(q)' = Inserted(q) \cup {KeyOf(q)}
        BY <3>1 DEF Inserted, KeyOf, AfterInsert, Inserting
      <3>3. \A x \in People : userLock'[x] # q
        BY <2>1, <3>1 DEF Holds, Inserting
      <3>4. pc'[q] \in RegisterSteps \ {"lockCode"}
        BY <3>1 DEF AfterInsert, RegisterSteps, Inserting
      <3>5. \A key \in Keys : claims'[key] = q => key \in Inserted(q)'
        BY <2>1, <3>1, <3>2 DEF Holds, TypeOK
      <3> QED
        BY <1>2, <3>3, <3>4, <3>5 DEF Holds
    <2>9. CASE ConsumeCode(q) \/ InsertSession(q)
      <3>1. /\ pc[q] \in {"consume", "session"} /\ pc'[q] \in {"session", "commitAccount"}
            /\ UNCHANGED <<userLock, claims, req>>
        BY <2>1, <2>9 DEF ConsumeCode, InsertSession, Goto, TypeOK, locks
      <3>2. Inserted(q)' = Inserted(q) /\ pc'[q] \in RegisterSteps \ {"lockCode"}
        BY <3>1 DEF Inserted, RegisterSteps, Inserting
      <3>3. \A x \in People : userLock'[x] # q
        BY <2>1, <3>1 DEF Holds
      <3> QED
        BY <1>2, <2>1, <3>1, <3>2, <3>3 DEF Holds
    <2>10. CASE \/ FindCredentials(q) \/ Rotate(q) \/ CreateSession(q) \/ Logout(q) \/ Authenticate(q)
               \/ IssueCode(q) \/ RevokeCode(q) \/ \E k \in Kinds : Arrive(q, k)
      <3>1. UNCHANGED locks /\ pc[q] \notin StatusSteps \cup RegisterSteps
        BY <2>10 DEF FindCredentials, Rotate, CreateSession, Logout, Authenticate, IssueCode, RevokeCode, Arrive,
           StatusSteps, RegisterSteps, Inserting
      <3> QED
        BY <2>3, <3>1
    <2>11. CASE Refuse(q)
      <3>1. UNCHANGED locks /\ pc[q] \in {"find", "lockUser", "lockCode", "issue", "revoke"}
        BY <2>11 DEF Refuse
      <3>2. pc[q] \in {"lockUser", "lockCode"} \/ pc[q] \notin StatusSteps \cup RegisterSteps
        BY <3>1 DEF StatusSteps, RegisterSteps, Inserting
      <3> QED
        BY <2>3, <2>4, <3>1, <3>2
    <2>12. CASE (LockUser(q) \/ LockCode(q)) /\ UNCHANGED locks
      BY <2>4, <2>12 DEF LockUser, LockCode
    <2> QED
      BY <2>2, <2>5, <2>6, <2>7, <2>8, <2>9, <2>10, <2>11, <2>12 DEF Acts, Step, CommitStatus, CommitAccount,
         BreakDeadlock, Fault
  <1> QED
    BY <1>1, <1>2

LEMMA NewCodes ==
  ASSUME IInv, NEW q \in Requests, Acts(q), NEW c \in Codes, codes[c].state = "absent"
  PROVE  codes'[c].state = "absent" \/ (IssueCode(q) /\ c = req[q].code)
  <1>1. codes \in [Codes -> Code] /\ codes[c] \in Code
    BY DEF IInv, TypeOK
  <1>2. CASE CommitAccount(q)
    <2>1. codes' = [codes EXCEPT ![req[q].code].used = codes[req[q].code].used + 1]
      BY <1>2 DEF CommitAccount
    <2> QED
      BY <1>1, <2>1 DEF Code
  <1>3. CASE IssueCode(q)
    <2>1. PICK r : codes' = [codes EXCEPT ![req[q].code] = r]
      BY <1>3 DEF IssueCode
    <2> QED
      BY <1>1, <1>3, <2>1
  <1>4. CASE RevokeCode(q)
    <2>1. codes' = codes \/ (codes[req[q].code].state # "absent"
                             /\ codes' = [codes EXCEPT ![req[q].code].state = "revoked"])
      BY <1>4 DEF RevokeCode
    <2> QED
      BY <1>1, <2>1
  <1> QED
    BY <1>2, <1>3, <1>4, Writers

LEMMA IssuesKeep == ASSUME IInv, NEW q \in Requests, Acts(q), \A p \in Requests : Issues(p), IssuedInv
                    PROVE  (\A p \in Requests : Issues(p)') /\ IssuedInv'
  <1>1. \A p \in Requests \ {q} : pc'[p] = pc[p] /\ req'[p] = req[p]
    BY PcFrame, ReqFrame DEF IInv
  <1>2. \A p \in Requests : Kind(p) = "issue" => req[p].code \in JoinCodes
    <2> SUFFICES ASSUME NEW p \in Requests, Kind(p) = "issue" PROVE req[p].code \in JoinCodes
      OBVIOUS
    <2>1. Carries(req[p])
      BY DEF IInv, RouteInv
    <2> QED
      BY <2>1 DEF Carries, Kind
  <1>3. CASE \E k \in Kinds : Arrive(q, k)
    <2>1. PICK k \in Kinds : Arrive(q, k)
      BY <1>3
    <2>2. /\ pc[q] = "idle" /\ Kind(q)' = k /\ Carries(req'[q]) /\ codes' = codes
      BY <2>1, ArriveIs DEF Arrive, tables
    <2>3. Kind(q) # "issue"
      BY <2>2 DEF IInv, RouteInv
    <2>4. CASE k = "issue"
      <3>1. PICK d \in {c \in JoinCodes : \A p \in Requests : Kind(p) = "issue" => req[p].code # c} :
              \E r : req' = [req EXCEPT ![q] = r] /\ r.code = d
        BY <2>1, <2>4 DEF Arrive
      <3>2. req'[q].code = d
        BY <3>1 DEF IInv, TypeOK
      <3>3. codes[d].state = "absent"
        BY <3>1 DEF IssuedInv
      <3>4. \A p \in Requests : Issues(p)'
        <4> SUFFICES ASSUME NEW p \in Requests, Kind(p)' = "issue"
                     PROVE  /\ pc'[p] = "issue" => codes'[req'[p].code].state = "absent"
                            /\ \A r \in Requests : Kind(r)' = "issue" /\ req'[r].code = req'[p].code => r = p
          BY DEF Issues
        <4>1. \A r \in Requests \ {q} : Kind(r)' = "issue" => Kind(r) = "issue" /\ req'[r].code = req[r].code /\ req[r].code # d
          BY <1>1, <3>1 DEF Kind
        <4> QED
          BY <1>1, <2>2, <3>2, <3>3, <4>1 DEF Issues
      <3>5. IssuedInv'
        <4> SUFFICES ASSUME NEW c \in JoinCodes, codes'[c].state # "absent"
                     PROVE  \E p \in Requests : Kind(p)' = "issue" /\ req'[p].code = c
          BY DEF IssuedInv
        <4>1. PICK p \in Requests : Kind(p) = "issue" /\ req[p].code = c
          BY <2>2 DEF IssuedInv
        <4> QED
          BY <1>1, <2>3, <4>1 DEF Kind
      <3> QED
        BY <3>4, <3>5
    <2>5. CASE k # "issue"
      <3>1. \A p \in Requests : Kind(p)' = "issue" <=> Kind(p) = "issue"
        BY <1>1, <2>2, <2>3, <2>5 DEF Kind
      <3>2. \A p \in Requests : Kind(p) = "issue" => pc'[p] = pc[p] /\ req'[p] = req[p]
        BY <1>1, <2>3
      <3> QED
        BY <2>2, <3>1, <3>2 DEF Issues, IssuedInv
    <2> QED
      BY <2>4, <2>5
  <1>4. CASE ~\E k \in Kinds : Arrive(q, k)
    <2>1. pc[q] # "idle"
      BY <1>4, Starts
    <2>2. req'[q].kind = req[q].kind /\ req'[q].code = req[q].code
      BY <2>1, ReqFrame DEF IInv
    <2>3. \A p \in Requests : Kind(p)' = Kind(p) /\ req'[p].code = req[p].code
      BY <1>1, <2>2 DEF Kind
    <2>4. pc'[q] # "issue"
      BY <2>1, Moves DEF IInv
    <2>5. \A p \in Requests : Issues(p)'
      <3> SUFFICES ASSUME NEW p \in Requests, Kind(p) = "issue", pc'[p] = "issue"
                   PROVE  codes'[req[p].code].state = "absent"
        BY <2>3 DEF Issues
      <3>1. p # q /\ pc[p] = "issue" /\ codes[req[p].code].state = "absent"
        BY <1>1, <2>4 DEF Issues
      <3>2. ~(IssueCode(q) /\ req[p].code = req[q].code)
        <4>1. IssueCode(q) => Kind(q) = "issue"
          BY DEF IssueCode, IInv, RouteInv
        <4> QED
          BY <3>1, <4>1 DEF Issues
      <3> QED
        BY <1>2, <3>1, <3>2, NewCodes, Sets
    <2>6. IssuedInv'
      <3> SUFFICES ASSUME NEW c \in JoinCodes, codes'[c].state # "absent"
                   PROVE  \E p \in Requests : Kind(p)' = "issue" /\ req'[p].code = c
        BY DEF IssuedInv
      <3>1. CASE codes[c].state # "absent"
        BY <2>3, <3>1 DEF IssuedInv
      <3>2. CASE IssueCode(q) /\ c = req[q].code
        <4>1. Kind(q) = "issue"
          BY <3>2 DEF IssueCode, IInv, RouteInv
        <4> QED
          BY <2>3, <3>2, <4>1
      <3> QED
        BY <3>1, <3>2, NewCodes, Sets
    <2> QED
      BY <2>5, <2>6
  <1> QED
    BY <1>3, <1>4

LEMMA WaitInit == Init => WaitInv
  <1> SUFFICES ASSUME Init PROVE WaitInv
    OBVIOUS
  <1>1. \A q \in Requests : req[q].kind = "me"
    BY DEF Init, Idle
  <1>2. \A q \in Requests : Holds(q) /\ Issues(q)
    BY <1>1, Sets DEF Init, Holds, Issues, Kind
  <1>3. \A c \in JoinCodes : codes[c].state = "absent"
    BY PeopleAssumption DEF Init, Codes, NoCode
  <1> QED
    BY <1>2, <1>3 DEF WaitInv, IssuedInv

LEMMA WaitStep == IInv /\ WaitInv /\ [Next]_vars => WaitInv'
  <1> SUFFICES ASSUME IInv, WaitInv, [Next]_vars PROVE WaitInv'
    OBVIOUS
  <1>1. ASSUME NEW q \in Requests, Acts(q) PROVE WaitInv'
    BY <1>1, HoldsKeep, IssuesKeep DEF WaitInv
  <1>2. CASE Crash
    <2>1. /\ UNCHANGED <<codes, req>>
          /\ \A p \in Requests : pc'[p] = IF pc[p] \in AtWork THEN "lost" ELSE pc[p]
      BY <1>2 DEF Crash, tables
    <2>2. \A p \in Requests : Holds(p)'
      BY <1>2, Sets DEF Crash, Holds
    <2>3. \A p \in Requests : Issues(p)'
      BY <2>1 DEF WaitInv, Issues, Kind
    <2>4. IssuedInv'
      BY <2>1 DEF WaitInv, IssuedInv, Kind
    <2> QED
      BY <2>2, <2>3, <2>4 DEF WaitInv
  <1>3. CASE Tick \/ UNCHANGED vars
    <2>1. UNCHANGED <<codes, userLock, codeLock, claims, pc, req>>
      BY <1>3 DEF Tick, vars, tables, locks
    <2> QED
      BY <2>1 DEF WaitInv, Holds, Issues, IssuedInv, Inserted, Kind
  <1> QED
    BY <1>1, <1>2, <1>3 DEF Next, Acts

LEMMA WaitsAreOrdered == IInv /\ WaitInv => LocksAreInOrder
  <1> SUFFICES ASSUME IInv, WaitInv, NEW q \in Requests
               PROVE  /\ Holder(q) \notin {Nobody, q} =>
                            /\ pc[Holder(q)] \in AtWork
                            /\ \/ LocksAhead(pc[Holder(q)]) < LocksAhead(pc[q])
                               \/ /\ pc[q] = "insertCompany" /\ pc[Holder(q)] = "insertCompany"
                                  /\ req[q].company = req[Holder(q)].personal
                      /\ pc[q] = "consume" => Holder(q) = q /\ codes[req[q].code].used < MaxUses(req[q].code)
                      /\ pc[q] = "issue" => codes[req[q].code].state = "absent"
    BY DEF LocksAreInOrder
  <1>1. pc[q] = "consume" => Holder(q) = q /\ codes[req[q].code].used < MaxUses(req[q].code)
    BY DEF IInv, CodeInv, RegisterSteps, Inserting, Holder
  <1>2. pc[q] = "issue" => codes[req[q].code].state = "absent"
    BY DEF IInv, RouteInv, WaitInv, Issues
  <1>3. ASSUME Holder(q) \notin {Nobody, q}
        PROVE  /\ pc[Holder(q)] \in AtWork
               /\ \/ LocksAhead(pc[Holder(q)]) < LocksAhead(pc[q])
                  \/ /\ pc[q] = "insertCompany" /\ pc[Holder(q)] = "insertCompany"
                     /\ req[q].company = req[Holder(q)].personal
    <2>1. CASE pc[q] = "lockUser"
      <3>1. Target(q) \in People
        BY <2>1 DEF IInv, RouteInv, Carries, StatusSteps, Kind, Target
      <3>2. Holder(q) = userLock[Target(q)] /\ Holder(q) \in Requests
        BY <1>3, <2>1, <3>1 DEF Holder, Inserting, IInv, TypeOK
      <3>3. pc[Holder(q)] \in {"revokeAll", "commitStatus"}
        BY <3>1, <3>2 DEF WaitInv, Holds
      <3> QED
        BY <2>1, <3>3 DEF LocksAhead, AtWork, StatusSteps
    <2>2. CASE pc[q] \in {"lockCode", "revoke"}
      <3>1. req[q].code \in Codes
        BY <2>2, Sets DEF IInv, RouteInv, Carries, RegisterSteps, Kind
      <3>2. Holder(q) = codeLock[req[q].code] /\ Holder(q) \in Requests
        BY <1>3, <2>2, <3>1 DEF Holder, Inserting, IInv, TypeOK
      <3>3. pc[Holder(q)] \in RegisterSteps \ {"lockCode"}
        BY <3>1, <3>2 DEF WaitInv, Holds
      <3> QED
        BY <2>2, <3>3 DEF LocksAhead, AtWork, RegisterSteps, Inserting
    <2>3. CASE pc[q] \in Inserting
      <3>1. KeyOf(q) \in Keys
        BY <2>3, KeyIs DEF IInv
      <3>2. Holder(q) = claims[KeyOf(q)] /\ Holder(q) \in Requests
        BY <1>3, <2>3, <3>1 DEF Holder, Inserting, IInv, TypeOK
      <3>3. KeyOf(q) \in Inserted(Holder(q))
        BY <3>1, <3>2 DEF WaitInv, Holds
      <3>4. pc[Holder(q)] \in {"insertPersonal", "insertCompany", "consume", "session", "commitAccount"}
        BY <3>3 DEF Inserted
      <3>5. pc[Holder(q)] \in AtWork
        BY <3>4 DEF AtWork, RegisterSteps, Inserting
      <3>6. CASE pc[q] = "insertUser"
        BY <3>4, <3>5, <3>6 DEF LocksAhead
      <3>7. CASE pc[q] \in {"insertPersonal", "insertCompany"}
        <4>1. KeyOf(q)[1] = "logins"
          BY <3>7 DEF KeyOf
        <4>2. pc[Holder(q)] # "insertPersonal"
          BY <3>3, <4>1 DEF Inserted
        <4>3. pc[Holder(q)] = "insertCompany" /\ pc[q] = "insertCompany" => req[q].company = req[Holder(q)].personal
          BY <3>3 DEF Inserted, KeyOf
        <4> QED
          BY <3>4, <3>5, <3>7, <4>2, <4>3 DEF LocksAhead
      <3> QED
        BY <2>3, <3>6, <3>7 DEF Inserting
    <2>4. CASE pc[q] \notin {"lockUser", "lockCode", "revoke", "consume"} \cup Inserting
      BY <1>3, <2>4 DEF Holder
    <2> QED
      BY <1>1, <1>3, <2>1, <2>2, <2>3, <2>4
  <1> QED
    BY <1>1, <1>2, <1>3

(* Waits end: who waits, waits for one with fewer locks ahead, but for two *)
(* registrations that have each other's address, and nothing but a lock    *)
(* holds a request up (accounts/registration.go, accounts/workers.go).     *)
THEOREM LocksStayInOrder == Spec => []LocksAreInOrder
  BY AlwaysIInv, WaitInit, WaitStep, WaitsAreOrdered, PTL DEF Spec

LEMMA Forward ==
  ASSUME IInv, NEW q \in Requests, Acts(q)
  PROVE  StepsLeft(pc'[q]) < StepsLeft(pc[q])
  <1>1. CASE \E k \in Kinds : Arrive(q, k)
    <2>1. PICK k \in Routes : pc[q] = "idle" /\ pc'[q] = First(k)
      BY <1>1, ArriveIs, PeopleAssumption
    <2> QED
      BY <2>1 DEF First, Routes, StepsLeft
  <1>2. ASSUME NEW l, Goto(q, l) PROVE pc'[q] = l
    BY <1>2 DEF Goto, IInv, TypeOK
  <1>3. CASE FindCredentials(q) \/ Rotate(q) \/ CreateSession(q) \/ Logout(q) \/ Authenticate(q)
    BY <1>2, <1>3 DEF FindCredentials, Rotate, CreateSession, Logout, Authenticate, StepsLeft
  <1>4. CASE LockUser(q) \/ RevokeAll(q) \/ CommitStatus(q) \/ LockCode(q)
    BY <1>2, <1>4 DEF LockUser, RevokeAll, CommitStatus, LockCode, StepsLeft
  <1>5. CASE InsertAccount(q)
    BY <1>2, <1>5 DEF InsertAccount, AfterInsert, Inserting, StepsLeft
  <1>6. CASE ConsumeCode(q) \/ InsertSession(q) \/ CommitAccount(q) \/ IssueCode(q) \/ RevokeCode(q)
    BY <1>2, <1>6 DEF ConsumeCode, InsertSession, CommitAccount, IssueCode, RevokeCode, StepsLeft
  <1>7. CASE BreakDeadlock(q) \/ Refuse(q) \/ Fault(q)
    BY <1>2, <1>7 DEF BreakDeadlock, WaitsFor, Refuse, Fault, AtWork, LoginSteps, StatusSteps, RegisterSteps,
       Inserting, StepsLeft
  <1> QED
    BY <1>1, <1>3, <1>4, <1>5, <1>6, <1>7 DEF Acts, Step

(* No request goes round, or back: each of its steps leaves fewer to come, *)
(* and no step of another takes it back, so that a request without an      *)
(* answer either waits for a lock or is still running.                     *)
THEOREM RequestsOnlyGoForward == Spec => RequestsGoForward
  <1>1. ASSUME IInv, [Next]_vars
        PROVE  [/\ \A q \in Requests : pc'[q] = pc[q] \/ StepsLeft(pc'[q]) < StepsLeft(pc[q])
                /\ (\E q \in Requests : pc'[q] # pc[q]) \/ clock' = clock + 1]_vars
    <2>1. ASSUME NEW q \in Requests, Acts(q)
          PROVE  /\ \A p \in Requests : pc'[p] = pc[p] \/ StepsLeft(pc'[p]) < StepsLeft(pc[p])
                 /\ \E p \in Requests : pc'[p] # pc[p]
      <3>1. StepsLeft(pc'[q]) < StepsLeft(pc[q])
        BY <1>1, <2>1, Forward
      <3>2. StepsLeft(pc[q]) \in Nat
        BY DEF StepsLeft
      <3>3. pc'[q] # pc[q]
        BY <3>1, <3>2
      <3> QED
        BY <1>1, <2>1, <3>1, <3>3, PcFrame DEF IInv
    <2>2. CASE Crash
      <3>1. \A p \in Requests : pc'[p] = IF pc[p] \in AtWork THEN "lost" ELSE pc[p]
        BY <2>2 DEF Crash
      <3>2. \A p \in Requests : pc[p] \in AtWork => pc[p] # "lost" /\ StepsLeft("lost") < StepsLeft(pc[p])
        BY DEF AtWork, LoginSteps, StatusSteps, RegisterSteps, Inserting, StepsLeft
      <3>3. \E p \in Requests : pc[p] \in AtWork
        BY <2>2 DEF Crash
      <3> QED
        BY <3>1, <3>2, <3>3
    <2>3. CASE Tick
      BY <2>3 DEF Tick
    <2> QED
      BY <1>1, <2>1, <2>2, <2>3 DEF Next, Acts
  <1> QED
    BY <1>1, AlwaysIInv, PTL DEF Spec, RequestsGoForward
=============================================================================
