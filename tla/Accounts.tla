------------------------------ MODULE Accounts -------------------------------
(***************************************************************************)
(* Accounts, sessions and authorization codes: signing in and out, being   *)
(* recognised by a session cookie, registering with a code, and what an    *)
(* administrator does about workers and their join codes.                  *)
(*                                                                         *)
(* One process per HTTP request.  A statement outside a transaction is one *)
(* step.  A registration and a change of a worker's status are             *)
(* transactions: their statements are steps of their own, SELECT ... FOR   *)
(* UPDATE, UPDATE and the unique index wait for whoever is ahead, and what *)
(* they wrote is seen by nobody else before the commit.  An account or a   *)
(* session is named after the request that makes it.                       *)
(***************************************************************************)
EXTENDS Naturals, FiniteSets

CONSTANTS
    Admins,      \* dispatcher admins; nothing in the program deactivates one
    Workers,     \* the workers there are at the start
    Manager,     \* and the admin each of them is linked to
    AdminCodes,  \* company admin codes, provisioned by hand
    Uses,        \* max_uses of each of those
    JoinCodes,   \* the single-use codes an admin may issue
    Emails,      \* login addresses; a worker at the start has one of their own
    Requests,    \* request ids; each is used once, which bounds a behaviour
    Kinds,       \* the routes in use
    TTL,         \* how long a session or a join code lasts
    MaxTime,     \* the clock stops here, a bound for model checking
    Nobody

Codes == AdminCodes \cup JoinCodes
People == Workers \cup Requests
Keys == {"users", "logins"} \X Emails
Routes == {"login", "logout", "me", "status", "register", "issue", "revoke"}

ASSUME PeopleAssumption ==
    /\ Workers \cap Requests = {} /\ AdminCodes \cap JoinCodes = {}
    /\ Manager \in [Workers -> Admins] /\ Admins # {} /\ Codes # {}
    /\ Nobody \notin Admins \cup People \cup Codes \cup Emails
    /\ Kinds \subseteq Routes
ASSUME UsesAssumption == Uses \in [AdminCodes -> Nat \ {0}]
ASSUME TimeAssumption == TTL \in Nat \ {0} /\ MaxTime \in Nat

VARIABLES
    users,      \* users and user_login_emails, committed
    sessions,   \* sessions, committed, by the request that opened them
    codes,      \* company_admin_codes and worker_join_codes, committed
    userLock,   \* the transaction that has updated a user's row
    codeLock,   \* the transaction that has a code FOR UPDATE
    claims,     \* the transaction that has inserted a key of a unique index
    clock,
    pc, req     \* where each request is, and what it carries

tables == <<users, sessions, codes>>
locks == <<userLock, codeLock, claims>>
vars == <<tables, locks, clock, pc, req>>

NoSession == [state |-> "absent", user |-> Nobody, expires |-> 0]
NoCode == [state |-> "absent", admin |-> Nobody, expires |-> 0, used |-> 0]
NoUser == [state |-> "absent", manager |-> Nobody, personal |-> Nobody, company |-> Nobody]

User == {NoUser} \cup
    [state : {"active", "inactive"}, manager : Admins \cup {Nobody},
     personal : Emails \cup {Nobody}, company : Emails \cup Workers]
Session == {NoSession} \cup [state : {"live", "revoked"}, user : People, expires : Nat]
Code == [state : {"absent", "open", "revoked"}, admin : Admins \cup {Nobody},
         expires : Nat, used : Nat]
Request == [kind : Routes, user : People \cup {Nobody}, token : Requests \cup {Nobody},
            admin : Admins \cup {Nobody}, code : Codes \cup {Nobody},
            personal : Emails \cup {Nobody}, company : Emails \cup {Nobody}, active : BOOLEAN,
            now : Nat,                \* h.now(), read as the handler starts
            found : Code,             \* the code row its SELECT returned
            doomed : SUBSET Requests, \* the sessions its UPDATE revoked
            before : SUBSET Requests, \* history: the sessions open when it arrived
            closed : SUBSET Requests] \* history: and those already ended

Kind(q) == req[q].kind
Target(q) == req[q].user
Token(q) == req[q].token
MaxUses(c) == IF c \in AdminCodes THEN Uses[c] ELSE 1

LoginSteps == {"find", "rotate", "create"}
StatusSteps == {"lockUser", "revokeAll", "commitStatus"}
Inserting == {"insertUser", "insertPersonal", "insertCompany"}
RegisterSteps == Inserting \cup {"lockCode", "consume", "session", "commitAccount"}
AtWork == LoginSteps \cup StatusSteps \cup RegisterSteps
            \cup {"logout", "me", "issue", "revoke"}
Answers == {"ok", "refused", "failed", "lost"}

First(k) ==
    CASE k = "login" -> "find"
      [] k = "status" -> "lockUser"
      [] k = "register" -> "lockCode"
      [] OTHER -> k

Idle == [kind |-> "me", user |-> Nobody, token |-> Nobody, admin |-> Nobody,
         code |-> Nobody, personal |-> Nobody, company |-> Nobody, active |-> FALSE, now |-> 0, found |-> NoCode,
         doomed |-> {}, before |-> {}, closed |-> {}]

Goto(q, l) == pc' = [pc EXCEPT ![q] = l]

(* The end of a transaction, or of nothing: every lock of q is let go.     *)
Release(q) ==
    /\ userLock' = [x \in People |-> IF userLock[x] = q THEN Nobody ELSE userLock[x]]
    /\ codeLock' = [c \in Codes |-> IF codeLock[c] = q THEN Nobody ELSE codeLock[c]]
    /\ claims' = [k \in Keys |-> IF claims[k] = q THEN Nobody ELSE claims[k]]

(* The key that a request is about to insert, of the unique index on       *)
(* users.email or of the primary key of user_login_emails.                 *)
KeyOf(q) ==
    CASE pc[q] = "insertUser" -> <<"users", req[q].company>>
      [] pc[q] = "insertPersonal" -> <<"logins", req[q].personal>>
      [] pc[q] = "insertCompany" -> <<"logins", req[q].company>>

Taken(key) ==
    \E x \in People :
        \/ users[x].company = key[2]
        \/ key[1] = "logins" /\ users[x].personal = key[2]

Revoked(open) ==
    [s \in Requests |->
        IF s \in open /\ sessions[s].state = "live"
           THEN [sessions[s] EXCEPT !.state = "revoked"] ELSE sessions[s]]

(* The sessions that some request the client has an answer to has ended.   *)
Closed ==
    UNION {IF pc[p] # "ok" THEN {}
           ELSE IF Kind(p) \in {"login", "logout"} THEN {Token(p)} \ {Nobody}
           ELSE IF Kind(p) = "status" /\ ~ req[p].active
                THEN {s \in req[p].before : sessions[s].user = Target(p)}
           ELSE {} : p \in Requests}

-----------------------------------------------------------------------------
Init ==
    /\ users = [x \in People |->
                  IF x \in Workers
                     THEN [state |-> "active", manager |-> Manager[x],
                          personal |-> Nobody, company |-> x]
                     ELSE NoUser]
    /\ sessions = [s \in Requests |-> NoSession]
    /\ codes = [c \in Codes |-> IF c \in AdminCodes
                                   THEN [NoCode EXCEPT !.state = "open", !.expires = TTL]
                                   ELSE NoCode]
    /\ userLock = [x \in People |-> Nobody]
    /\ codeLock = [c \in Codes |-> Nobody]
    /\ claims = [k \in Keys |-> Nobody]
    /\ clock = 0
    /\ pc = [q \in Requests |-> "idle"]
    /\ req = [q \in Requests |-> Idle]

(* A request arrives.  A browser presents a token only once it has it.     *)
Arrive(q, k) ==
    /\ pc[q] = "idle"
    /\ \E x \in IF k \in {"login", "status"} THEN {y \in People : users[y].state # "absent"}
                                           ELSE {Nobody},
          t \in IF k \in {"login", "logout", "me"}
                   THEN {s \in Requests : pc[s] = "ok" /\ sessions[s].state # "absent"}
                          \cup {Nobody}
                   ELSE {Nobody},
          a \in IF k \in {"status", "issue", "revoke"} THEN Admins ELSE {Nobody},
          c \in CASE k = "register" -> Codes [] k = "revoke" -> JoinCodes
                  [] k = "issue" -> {d \in JoinCodes : \A p \in Requests :
                                        Kind(p) = "issue" => req[p].code # d}
                  [] OTHER -> {Nobody},
          e \in IF k = "register" THEN {d \in Emails \X Emails : d[1] # d[2]}
                                  ELSE {<<Nobody, Nobody>>},
          on \in IF k = "status" THEN BOOLEAN ELSE {FALSE} :
             req' = [req EXCEPT ![q] =
                [kind |-> k, user |-> x, token |-> t, admin |-> a, code |-> c,
                 personal |-> e[1], company |-> e[2], active |-> on, now |-> clock, found |-> NoCode,
                 doomed |-> {}, before |-> {s \in Requests : sessions[s].state = "live"},
                 closed |-> Closed]]
    /\ Goto(q, First(k))
    /\ UNCHANGED <<tables, locks, clock>>

(* Rate-limited, a body that does not validate, an unknown address, a      *)
(* wrong password, a code for another company: answered before anything is *)
(* written.                                                                *)
Refuse(q) ==
    /\ pc[q] \in {"find", "lockUser", "lockCode", "issue", "revoke"}
    /\ Goto(q, "refused")
    /\ UNCHANGED <<tables, locks, clock, req>>

-----------------------------------------------------------------------------
(* handleLogin.  Whether the account is active is read here ...            *)
FindCredentials(q) ==
    /\ pc[q] = "find"
    /\ Goto(q, IF users[Target(q)].state = "active" THEN "rotate" ELSE "refused")
    /\ UNCHANGED <<tables, locks, clock, req>>

(* Mutation: the presented session is left alone.                          *)
RotateSkipped(q) ==
    /\ pc[q] = "rotate"
    /\ Goto(q, "create")
    /\ UNCHANGED <<tables, locks, clock, req>>

(* ... the session the browser presented is revoked ...                    *)
Rotate(q) ==
    /\ pc[q] = "rotate"
    /\ sessions' = Revoked({Token(q)})
    /\ Goto(q, "create")
    /\ UNCHANGED <<users, codes, locks, clock, req>>

Open(q, x) ==
    sessions' = [sessions EXCEPT
                    ![q] = [state |-> "live", user |-> x, expires |-> req[q].now + TTL]]

(* ... and CreateSession inserts only for an account active at that time.  *)
CreateSession(q) ==
    /\ pc[q] = "create"
    /\ \/ /\ users[Target(q)].state = "active"
          /\ Open(q, Target(q))
          /\ \E a \in {"ok", "failed"} : Goto(q, a)
       \/ /\ users[Target(q)].state # "active"
          /\ Goto(q, "failed")
          /\ UNCHANGED sessions
    /\ UNCHANGED <<users, codes, locks, clock, req>>

(* handleLogout: the cookie is cleared, the session revoked.               *)
Logout(q) ==
    /\ pc[q] = "logout"
    /\ sessions' = Revoked({Token(q)})
    /\ \E a \in {"ok", "failed"} : Goto(q, a)
    /\ UNCHANGED <<users, codes, locks, clock, req>>

(* Mutation: only the expiry of the session is looked at.                  *)
AcceptsExpiredOnly(t) ==
    /\ t # Nobody
    /\ sessions[t].state # "absent"
    /\ sessions[t].expires > clock

(* FindSession's WHERE.                                                    *)
Accepts(t) ==
    /\ t # Nobody
    /\ sessions[t].state = "live"
    /\ sessions[t].expires > clock
    /\ users[sessions[t].user].state = "active"

(* Any route behind Require: handleMe stands for all of them.              *)
Authenticate(q) ==
    /\ pc[q] = "me"
    /\ Goto(q, IF Accepts(Token(q)) THEN "ok" ELSE "refused")
    /\ UNCHANGED <<tables, locks, clock, req>>

-----------------------------------------------------------------------------
(* UpdateWorkerStatus, a transaction.                                      *)
LockUser(q) ==
    /\ pc[q] = "lockUser"
    /\ userLock[Target(q)] = Nobody
    /\ \/ /\ users[Target(q)].manager = req[q].admin
          /\ userLock' = [userLock EXCEPT ![Target(q)] = q]
          /\ Goto(q, IF req[q].active THEN "commitStatus" ELSE "revokeAll")
       \/ /\ users[Target(q)].manager # req[q].admin
          /\ Goto(q, "refused")
          /\ UNCHANGED userLock
    /\ UNCHANGED <<tables, codeLock, claims, clock, req>>

(* Mutation: the sessions of the worker are left to FindSession.           *)
RevokeNone(q) ==
    /\ pc[q] = "revokeAll"
    /\ Goto(q, "commitStatus")
    /\ UNCHANGED <<tables, locks, clock, req>>

(* Every session of the worker that is committed by now.                   *)
RevokeAll(q) ==
    /\ pc[q] = "revokeAll"
    /\ req' = [req EXCEPT ![q].doomed =
                 {s \in Requests : sessions[s].state = "live" /\ sessions[s].user = Target(q)}]
    /\ Goto(q, "commitStatus")
    /\ UNCHANGED <<tables, locks, clock>>

CommitStatus(q) ==
    /\ pc[q] = "commitStatus"
    /\ users' = [users EXCEPT ![Target(q)].state =
                   IF req[q].active THEN "active" ELSE "inactive"]
    /\ sessions' = Revoked(req[q].doomed)
    /\ Release(q)
    /\ \E a \in {"ok", "failed"} : Goto(q, a)
    /\ UNCHANGED <<codes, clock, req>>

-----------------------------------------------------------------------------
(* RegisterAdmin and RegisterWorker, a transaction.  now is the time the   *)
(* request arrived, before the password was hashed and the lock waited for.*)
Usable(c, now) ==
    /\ codes[c].state = "open"
    /\ codes[c].used < MaxUses(c)
    /\ now < codes[c].expires

(* Mutation: SELECT without FOR UPDATE.                                    *)
LockCodeNot(q) ==
    /\ pc[q] = "lockCode"
    /\ req' = [req EXCEPT ![q].found = codes[req[q].code]]
    /\ Goto(q, IF Usable(req[q].code, req[q].now) THEN "insertUser" ELSE "refused")
    /\ UNCHANGED <<tables, locks, clock>>

LockCode(q) ==
    /\ pc[q] = "lockCode"
    /\ codeLock[req[q].code] = Nobody
    /\ \/ /\ Usable(req[q].code, req[q].now)
          /\ codeLock' = [codeLock EXCEPT ![req[q].code] = q]
          /\ req' = [req EXCEPT ![q].found = codes[req[q].code]]
          /\ Goto(q, "insertUser")
       \/ /\ ~ Usable(req[q].code, req[q].now)
          /\ Goto(q, "refused")
          /\ UNCHANGED <<codeLock, req>>
    /\ UNCHANGED <<tables, userLock, claims, clock>>

AfterInsert(q) ==
    CASE pc[q] = "insertUser" -> "insertPersonal"
      [] pc[q] = "insertPersonal" -> "insertCompany"
      [] pc[q] = "insertCompany" -> "consume"

(* Mutation: one unique index for personal addresses, one for company ones.*)
InsertAccountByColumn(q) ==
    /\ pc[q] \in Inserting
    /\ LET taken == IF pc[q] = "insertPersonal"
                       THEN \E x \in People : users[x].personal = req[q].personal
                       ELSE \E x \in People : users[x].company = req[q].company
       IN  \/ ~ taken /\ Goto(q, AfterInsert(q)) /\ UNCHANGED locks
           \/ taken /\ Goto(q, "refused") /\ Release(q)
    /\ UNCHANGED <<tables, clock, req>>

(* insertAccount: the users row, then the personal and the company address.*)
(* A second insert of a key waits for the transaction that has the first.  *)
InsertAccount(q) ==
    /\ pc[q] \in Inserting
    /\ claims[KeyOf(q)] = Nobody
    /\ \/ /\ ~ Taken(KeyOf(q))
          /\ claims' = [claims EXCEPT ![KeyOf(q)] = q]
          /\ Goto(q, AfterInsert(q))
          /\ UNCHANGED <<userLock, codeLock>>
       \/ /\ Taken(KeyOf(q))
          /\ Release(q)
          /\ Goto(q, "refused")
    /\ UNCHANGED <<tables, clock, req>>

(* Two registrations with the same addresses the other way round wait for  *)
(* each other, and PostgreSQL ends one of those that do.                   *)
WaitsFor(q, p) == pc[q] \in Inserting /\ p # q /\ claims[KeyOf(q)] = p

BreakDeadlock(q) ==
    /\ \E D \in SUBSET Requests :
          /\ q \in D
          /\ \A p \in D : (\E r \in D : WaitsFor(p, r)) /\ (\E r \in D : WaitsFor(r, p))
    /\ Release(q)
    /\ Goto(q, "failed")
    /\ UNCHANGED <<tables, clock, req>>

(* used_count + 1, or redeemed_by and redeemed_at WHERE redeemed_at IS     *)
(* NULL; SELECT ... FOR UPDATE has made sure that the code is still free.  *)
ConsumeCode(q) ==
    /\ pc[q] = "consume"
    /\ codeLock[req[q].code] \in {Nobody, q}
    /\ codes[req[q].code].used < MaxUses(req[q].code)
    /\ codeLock' = [codeLock EXCEPT ![req[q].code] = q]
    /\ Goto(q, "session")
    /\ UNCHANGED <<tables, userLock, claims, clock, req>>

(* Mutation: the session is inserted outside the transaction.              *)
InsertSessionOutside(q) ==
    /\ pc[q] = "session"
    /\ Open(q, q)
    /\ Goto(q, "commitAccount")
    /\ UNCHANGED <<users, codes, locks, clock, req>>

InsertSession(q) ==
    /\ pc[q] = "session"
    /\ Goto(q, "commitAccount")
    /\ UNCHANGED <<tables, locks, clock, req>>

(* Mutation: the users row is inserted and its login address is not.       *)
CommitAccountNoAddress(q) ==
    /\ pc[q] = "commitAccount"
    /\ users' = [users EXCEPT ![q] =
                   [state |-> "active", manager |-> req[q].found.admin,
                    personal |-> Nobody, company |-> Nobody]]
    /\ codes' = [codes EXCEPT ![req[q].code].used = @ + 1]
    /\ Open(q, q)
    /\ Release(q)
    /\ Goto(q, "ok")
    /\ UNCHANGED <<clock, req>>

(* Mutation: the UPDATE that counts the use of the code is forgotten.      *)
CommitAccountUncounted(q) ==
    /\ pc[q] = "commitAccount"
    /\ users' = [users EXCEPT ![q] =
                   [state |-> "active", manager |-> req[q].found.admin,
                    personal |-> req[q].personal, company |-> req[q].company]]
    /\ Open(q, q)
    /\ Release(q)
    /\ \E a \in {"ok", "failed"} : Goto(q, a)
    /\ UNCHANGED <<codes, clock, req>>

CommitAccount(q) ==
    /\ pc[q] = "commitAccount"
    /\ users' = [users EXCEPT ![q] =
                   [state |-> "active", manager |-> req[q].found.admin,
                    personal |-> req[q].personal, company |-> req[q].company]]
    /\ codes' = [codes EXCEPT ![req[q].code].used = @ + 1]
    /\ Open(q, q)
    /\ Release(q)
    /\ \E a \in {"ok", "failed"} : Goto(q, a)
    /\ UNCHANGED <<clock, req>>

-----------------------------------------------------------------------------
(* CreateWorkerJoinCode.                                                   *)
IssueCode(q) ==
    /\ pc[q] = "issue"
    /\ codes[req[q].code].state = "absent"
    /\ codes' = [codes EXCEPT ![req[q].code] =
                   [state |-> "open", admin |-> req[q].admin,
                    expires |-> req[q].now + TTL, used |-> 0]]
    /\ \E a \in {"ok", "failed"} : Goto(q, a)
    /\ UNCHANGED <<users, sessions, locks, clock, req>>

(* RevokeWorkerJoinCode: an UPDATE waits for a redemption under way.       *)
RevokeCode(q) ==
    LET c == codes[req[q].code] IN
    /\ pc[q] = "revoke"
    /\ codeLock[req[q].code] = Nobody
    /\ \/ /\ c.state # "absent" /\ c.admin = req[q].admin /\ c.used = 0
          /\ codes' = [codes EXCEPT ![req[q].code].state = "revoked"]
          /\ \E a \in {"ok", "failed"} : Goto(q, a)
       \/ /\ c.state = "absent" \/ c.admin # req[q].admin \/ c.used # 0
          /\ Goto(q, "refused")
          /\ UNCHANGED codes
    /\ UNCHANGED <<users, sessions, locks, clock, req>>

-----------------------------------------------------------------------------
(* Mutation: an error path that does not roll back.                        *)
FaultHoldsLocks(q) ==
    /\ pc[q] \in AtWork
    /\ Goto(q, "failed")
    /\ UNCHANGED <<tables, locks, clock, req>>

(* A statement fails or the client goes away: what is not committed is     *)
(* rolled back, and a rotation that is done stays done.                    *)
Fault(q) ==
    /\ pc[q] \in AtWork
    /\ Release(q)
    /\ Goto(q, "failed")
    /\ UNCHANGED <<tables, clock, req>>

Crash ==
    /\ \E q \in Requests : pc[q] \in AtWork
    /\ pc' = [q \in Requests |-> IF pc[q] \in AtWork THEN "lost" ELSE pc[q]]
    /\ userLock' = [x \in People |-> Nobody]
    /\ codeLock' = [c \in Codes |-> Nobody]
    /\ claims' = [k \in Keys |-> Nobody]
    /\ UNCHANGED <<tables, clock, req>>

Tick ==
    /\ clock < MaxTime
    /\ clock' = clock + 1
    /\ UNCHANGED <<tables, locks, pc, req>>

Step(q) ==
    \/ FindCredentials(q) \/ Rotate(q) \/ CreateSession(q) \/ Logout(q) \/ Authenticate(q)
    \/ LockUser(q) \/ RevokeAll(q) \/ CommitStatus(q)
    \/ LockCode(q) \/ InsertAccount(q) \/ ConsumeCode(q) \/ InsertSession(q) \/ CommitAccount(q)
    \/ IssueCode(q) \/ RevokeCode(q)

Next ==
    \/ \E q \in Requests :
          Step(q) \/ BreakDeadlock(q) \/ Refuse(q) \/ Fault(q) \/ \E k \in Kinds : Arrive(q, k)
    \/ Crash
    \/ Tick

Spec == Init /\ [][Next]_vars

(* Handlers run and PostgreSQL hands a lock on when its holder ends and    *)
(* ends a deadlock; no fault, refusal or arrival is owed.                  *)
FairSpec == Spec /\ \A q \in Requests : WF_vars(Step(q)) /\ WF_vars(BreakDeadlock(q))
-----------------------------------------------------------------------------
TypeOK ==
    /\ users \in [People -> User]
    /\ sessions \in [Requests -> Session]
    /\ codes \in [Codes -> Code]
    /\ userLock \in [People -> Requests \cup {Nobody}]
    /\ codeLock \in [Codes -> Requests \cup {Nobody}]
    /\ claims \in [Keys -> Requests \cup {Nobody}]
    /\ clock \in 0..MaxTime
    /\ pc \in [Requests -> {"idle"} \cup AtWork \cup Answers]
    /\ req \in [Requests -> Request]

(* auth/doc.go: revoked and inactive-user sessions are rejected.  A cookie *)
(* whose session was ended before the request came in, by a logout, by     *)
(* signing in again or by a deactivation that was answered, opens nothing, *)
(* not even once the worker is active again.                               *)
NoEntryAfterExit ==
    \A q \in Requests :
        Kind(q) = "me" /\ pc[q] = "ok" => Token(q) \notin req[q].closed

(* handleLogin: "the old token cannot remain valid if creating the         *)
(* replacement fails".  From the moment a login goes on to open a session, *)
(* and whatever becomes of it, the one its browser presented is over.      *)
OldTokenIsOver ==
    \A q \in Requests :
        /\ Kind(q) = "login" /\ Token(q) # Nobody
        /\ pc[q] = "create" \/ sessions[q].state # "absent"
        => sessions[Token(q)].state = "revoked"

(* 0012_stage_b_accounts.sql: "one normalized address can appear only once *)
(* globally", as a personal or as a company address, however many          *)
(* registrations race for it.                                              *)
EmailsAreUnique ==
    \A x, y \in People :
        x # y => {users[x].personal, users[x].company}
                    \cap {users[y].personal, users[y].company} \subseteq {Nobody}

(* A registration makes the account, its session and the use of its code   *)
(* together or makes none of them; the new account answers to the admin    *)
(* whose code it came with, and nobody is told of one that is not there.   *)
RegistrationIsWhole ==
    \A q \in Requests :
        Kind(q) = "register" =>
            /\ users[q].state # "absent" <=> sessions[q].state # "absent"
            /\ users[q].state # "absent" => /\ pc[q] \in {"ok", "failed"}
                                            /\ users[q].manager = codes[req[q].code].admin
            /\ pc[q] = "ok" => users[q].state # "absent"

(* Whoever has what the next statement of q asks for, and what a request   *)
(* at a step may still ask for: the locks are taken in this order.         *)
Holder(q) ==
    CASE pc[q] = "lockUser" -> userLock[Target(q)]
      [] pc[q] \in {"lockCode", "consume", "revoke"} -> codeLock[req[q].code]
      [] pc[q] \in Inserting -> claims[KeyOf(q)]
      [] OTHER -> Nobody

LocksAhead(l) ==
    CASE l \in {"lockUser", "lockCode", "revoke"} -> 4
      [] l = "insertUser" -> 3
      [] l = "insertPersonal" -> 2
      [] l = "insertCompany" -> 1
      [] OTHER -> 0

(* Who waits, waits for a request that is at work and has fewer locks      *)
(* ahead of it, so that waits end; but for two registrations at their last *)
(* address, the company address of the one being the personal address of   *)
(* the other: all that PostgreSQL's detector ever has to break, and never  *)
(* over a code or a worker.  And nothing else holds a request up: the code *)
(* it is to consume is its own and good, the one it issues is new          *)
(* (accounts/registration.go, accounts/workers.go).                        *)
LocksAreInOrder ==
    \A q \in Requests :
        /\ Holder(q) \notin {Nobody, q} =>
              /\ pc[Holder(q)] \in AtWork
              /\ \/ LocksAhead(pc[Holder(q)]) < LocksAhead(pc[q])
                 \/ /\ pc[q] = "insertCompany" /\ pc[Holder(q)] = "insertCompany"
                    /\ req[q].company = req[Holder(q)].personal
        /\ pc[q] = "consume" => Holder(q) = q /\ codes[req[q].code].used < MaxUses(req[q].code)
        /\ pc[q] = "issue" => codes[req[q].code].state = "absent"

(* A request only goes forward, whatever becomes of it, and every step of  *)
(* the system is one of a request or of the clock: none can keep another   *)
(* waiting by going round for ever.                                        *)
StepsLeft(l) ==
    CASE l = "idle" -> 8
      [] l \in {"lockCode", "find", "lockUser", "logout", "me", "issue", "revoke"} -> 7
      [] l \in {"insertUser", "rotate", "revokeAll"} -> 6
      [] l \in {"insertPersonal", "create", "commitStatus"} -> 5
      [] l = "insertCompany" -> 4
      [] l = "consume" -> 3
      [] l = "session" -> 2
      [] l = "commitAccount" -> 1
      [] OTHER -> 0

RequestsGoForward ==
    [][/\ \A q \in Requests : pc'[q] = pc[q] \/ StepsLeft(pc'[q]) < StepsLeft(pc[q])
       /\ (\E q \in Requests : pc'[q] # pc[q]) \/ clock' = clock + 1]_vars

(* Whatever waits for a lock gets it, and every request is answered.       *)
EveryRequestEnds ==
    \A q \in Requests : pc[q] # "idle" ~> pc[q] \in Answers

(* Codes behave as CodeLedger: redeemed no more often than they are good   *)
(* for, and never once revoked, however requests for them race.            *)
Spent(c) == {x \in Requests : users[x].state # "absent" /\ req[x].code = c}

Ledger == INSTANCE CodeLedger WITH
    People <- Requests,
    state  <- [c \in Codes |-> codes[c].state],
    spent  <- [c \in Codes |-> Spent(c)]

ImplementsCodeLedger == Ledger!Spec

-----------------------------------------------------------------------------
(* What the repository says and the code does not do.                      *)

(* stageb_integration_test.go: "account deactivation" is among what        *)
(* "invalidate live sessions".  While a worker is inactive every session   *)
(* of theirs is revoked, so that none comes back with the account.         *)
DeactivationEndsSessions ==
    \A s \in Requests :
        sessions[s].state = "live" => users[sessions[s].user].state = "active"
=============================================================================
