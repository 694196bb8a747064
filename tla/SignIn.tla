-------------------------------- MODULE SignIn ---------------------------------
(***************************************************************************)
(* Who is signed in, as the browser has it: AuthProvider, the pages that   *)
(* sign in and out, the guards of the routes, and the two account pages    *)
(* that load and save under a session, against a server that owns sessions *)
(* and a cookie jar that takes answers in the order they arrive.           *)
(*                                                                         *)
(* "latest" is operationRef: the call of the operation begun last, or None *)
(* once its answer was taken or an event has overtaken it.  Every operation*)
(* begins one call, so the number of one stands for the other; under       *)
(* StrictMode the second mount's subscription takes the first one's place  *)
(* on the same promise.  Logouts sent only to clear a session, whose answer*)
(* nobody waits for, are counted in "clears" by the cookie they carry and  *)
(* in "erasers" once answered.  The history: "intent" is what was last     *)
(* asked for, "astray" that calls overlapped or an answer was lost.        *)
(***************************************************************************)
EXTENDS Naturals, FiniteSets

CONSTANTS Accounts, Admins,     \* people, and those of them who are admins
          Paths,                \* the addresses opened in a run
          Calls, Tokens,        \* ids of calls under way; cookies the server makes
          MaxClears,            \* clearing logouts under way at once
          MaxActs,              \* sign-ins, sign-outs, reloads, sessions ended
          None, Anyone

ASSUME SignInAssumption ==
    /\ Calls # {} /\ Tokens # {} /\ None \notin Accounts \cup Calls \cup Tokens
    /\ Anyone \notin Accounts
    /\ MaxClears \in Nat /\ MaxActs \in Nat

VARIABLES sessions, cookie, user, named, restoring, latest, calls, clears, erasers,
          at, pending, page, intent, astray, acts
vars == <<sessions, cookie, user, named, restoring, latest, calls, clears, erasers,
          at, pending, page, intent, astray, acts>>
idle == <<sessions, cookie, user, named, restoring, latest, clears, erasers>>

----------------------------------------------------------------------------
(* Routes, by who may open them.                                           *)
PublicOnly == {"login", "register"}
ForAll     == {"generate", "dashboard", "report"}
AdminOnly  == {"templates", "template", "workers"}
WorkerOnly == {"profile"}
Managed    == {"workers", "profile"}
AllPaths   == PublicOnly \cup ForAll \cup AdminOnly \cup WorkerOnly

ASSUME PathsAssumption == Paths \subseteq AllPaths /\ None \notin AllPaths

(* Mutant: one list for both roles.                                        *)
Allowed_AnyRole(path, u) == path \in ForAll \cup AdminOnly \cup WorkerOnly

isRouteAllowedForRole(path, u) ==
    path \in ForAll \cup (IF u \in Admins THEN AdminOnly ELSE WorkerOnly)

getRoleLandingRoute(u) == IF u \in Admins THEN "templates" ELSE "generate"

(* Mutant: an address is trusted to be there.                              *)
getPostLoginRoute_Unread(from, u) ==
    IF from = None \/ isRouteAllowedForRole(from, u) THEN from ELSE getRoleLandingRoute(u)

getPostLoginRoute(from, u) ==
    IF from # None /\ isRouteAllowedForRole(from, u) THEN from ELSE getRoleLandingRoute(u)

Place(path, from) == [path |-> path, from |-> from]

(* The guards of the routes: where each sends who it does not let through. *)
RequireAuth(place, u) == IF u = None THEN Place("login", place.path) ELSE place

RequireRole(place, u) ==
    IF \/ place.path \in AdminOnly /\ u \notin Admins
       \/ place.path \in WorkerOnly /\ u \in Admins
    THEN Place(getRoleLandingRoute(u), None) ELSE place

PublicOnlyRoute(place, u) ==
    IF u # None THEN Place(getPostLoginRoute(place.from, u), None) ELSE place

(* While the session is checked every guard waits.                         *)
Guarded(place, u, busy) ==
    IF busy THEN place
    ELSE IF place.path \in PublicOnly THEN PublicOnlyRoute(place, u)
    ELSE IF u = None THEN RequireAuth(place, u)
    ELSE RequireRole(place, u)

----------------------------------------------------------------------------
NoCall == [kind |-> "none", who |-> None, from |-> None, cookie |-> None,
           answer |-> "none", token |-> None]
NoPage == [stage |-> "none", load |-> None, saves |-> {}]

SignsIn == {"login", "register"}
Saves == {"profile", "status", "generate", "revoke"}
UnderSession == {"me", "load"} \cup Saves
Running(kinds) == {c \in Calls : calls[c].kind \in kinds}
Changing == SignsIn \cup {"logout", "me"}
Clearing == {k \in Tokens \cup {None} : clears[k] > 0}
Quiet == Running(Changing) = {} /\ Clearing = {} /\ erasers = 0

Answered(c) == calls[c].answer \notin {"none", "awaited"}
Free == {c \in Calls : calls[c] = NoCall}
Fresh == CHOOSE c \in Free : TRUE
Need(kind) == IF kind \in UnderSession THEN 2 ELSE IF kind \in SignsIn THEN 1 ELSE 0

(* The bound: the clearing logouts under way, and those that calls under   *)
(* way may yet send.                                                       *)
Spent == Cardinality({p \in (Tokens \cup {None}) \X (1..MaxClears) : p[2] <= clears[p[1]]})
         + erasers + 2 * Cardinality(Running(UnderSession)) + Cardinality(Running(SignsIn))
Room(kind) == Free # {} /\ Spent + Need(kind) <= MaxClears

Send(kind, who, from) ==
    [calls EXCEPT ![Fresh] = [NoCall EXCEPT !.kind = kind, !.who = who, !.from = from,
                                            !.cookie = cookie, !.answer = "awaited"]]

(* What a change of address or of the user takes from the screen.          *)
Show(place, u, busy) ==
    LET shown == Guarded(place, u, busy)
    IN /\ at' = shown
       /\ page' = IF shown.path = at.path THEN page ELSE NoPage
       /\ pending' = IF shown.path = at.path THEN pending ELSE None

----------------------------------------------------------------------------
(* A tab opened on an address, with the cookie of an earlier visit or none.*)
Init ==
    /\ \E path \in Paths, owner \in Accounts \cup {None}, c \in {CHOOSE c \in Calls : TRUE} :
         \E k \in {None, CHOOSE t \in Tokens : TRUE} :
            /\ sessions = [t \in Tokens |-> IF t = k THEN owner ELSE None]
            /\ cookie = k
            /\ calls = [d \in Calls |-> IF d # c THEN NoCall
                        ELSE [NoCall EXCEPT !.kind = "me", !.cookie = k, !.answer = "awaited"]]
            /\ latest = c
            /\ at = Place(path, None)
    /\ user = None /\ named = None /\ restoring = TRUE
    /\ clears = [k \in Tokens \cup {None} |-> 0] /\ erasers = 0
    /\ pending = None /\ page = NoPage
    /\ intent = Anyone /\ astray = FALSE /\ acts = 0

Act == acts < MaxActs /\ acts' = acts + 1

(* Mutant: an operation waits for the one before it.                       *)
Overtakes_Waits(c) == IF latest = None THEN c ELSE latest

(* ++operationRef.current                                                  *)
Overtakes(c) == c

(* A form, once its fields are valid; pendingRef and the disabled button   *)
(* keep a second submit out.                                               *)
Submit(kind, who, from) ==
    /\ Act
    /\ at.path = kind /\ ~restoring /\ user = None
    /\ pending = None
    /\ Room(kind)
    /\ latest' = Overtakes(Fresh)
    /\ pending' = Fresh
    /\ calls' = Send(kind, who, from)
    /\ intent' = who
    /\ astray' = (astray \/ ~Quiet)
    /\ UNCHANGED <<sessions, cookie, user, named, restoring, clears, erasers, at, page>>

Login(who) == Submit("login", who, at.from)
Register(who) == Submit("register", who, None)

(* The layout's button: identity goes at once, the call follows.           *)
Logout ==
    /\ Act
    /\ user # None /\ ~restoring
    /\ Room("logout")
    /\ latest' = Overtakes(Fresh)
    /\ user' = None /\ named' = None /\ restoring' = FALSE
    /\ calls' = Send("logout", None, None)
    /\ Show(at, None, FALSE)
    /\ intent' = None
    /\ astray' = (astray \/ Running(SignsIn \cup {"me"}) # {})
    /\ UNCHANGED <<sessions, cookie, clears, erasers>>

(* A link, the back button.                                                *)
Follow(path) ==
    /\ ~restoring /\ path # at.path
    /\ Show(Place(path, None), user, restoring)
    /\ UNCHANGED <<idle, calls, intent, astray, acts>>

(* The cookie jar, once an answer's headers are in.                        *)
CookieAfter(c) ==
    IF calls[c].answer = "lost" THEN cookie
    ELSE IF calls[c].kind = "logout" THEN None
    ELSE IF calls[c].kind \in SignsIn /\ calls[c].answer = "ok" THEN calls[c].token
    ELSE cookie

(* A reload, or an address typed in: what the page knew is gone and answers*)
(* on their way find nobody, unless their headers were in just before.     *)
(* Whatever the server still does for them, sessions end with EndSession.  *)
Reload(path) ==
    \E jar \in {cookie} \cup {CookieAfter(c) : c \in {d \in Calls : Answered(d)}}
              \cup (IF erasers > 0 THEN {None} ELSE {}),
       me \in {CHOOSE c \in Calls : TRUE} :
        /\ cookie' = jar
        /\ calls' = [c \in Calls |-> IF c # me THEN NoCall
                      ELSE [NoCall EXCEPT !.kind = "me", !.cookie = jar, !.answer = "awaited"]]
        /\ latest' = me
        /\ user' = None /\ named' = None /\ restoring' = TRUE
        /\ clears' = [k \in DOMAIN clears |-> 0] /\ erasers' = 0
        /\ at' = Place(path, None) /\ page' = NoPage /\ pending' = None
        /\ intent' = Anyone /\ astray' = FALSE
        /\ Act /\ UNCHANGED sessions

----------------------------------------------------------------------------
(* The two account pages.  What they list is loaded on mount, and again on *)
(* a retry.                                                                *)
LoadPage(path) ==
    /\ at.path = path /\ ~restoring /\ user # None
    /\ Room("load")
    /\ calls' = Send("load", None, path)
    /\ page' = [page EXCEPT !.stage = "loading", !.load = Fresh]
    /\ UNCHANGED <<idle, at, pending, intent, astray, acts>>

LoadManagementData == page.stage = "none" /\ LoadPage("workers")
LoadProfile == page.stage = "none" /\ LoadPage("profile")
Retry == page.stage = "failed" /\ \E path \in Managed : LoadPage(path)

(* An action of a page, each kind once at a time behind a pending reference*)
(* of its own: here, of one worker and of one code.                        *)
SavePage(path, kind) ==
    /\ at.path = path /\ page.stage = "ready"
    /\ \A c \in page.saves : calls[c].kind # kind
    /\ Room(kind)
    /\ calls' = Send(kind, None, path)
    /\ page' = [page EXCEPT !.saves = @ \cup {Fresh}]
    /\ UNCHANGED <<idle, at, pending, intent, astray, acts>>

SaveProfile == SavePage("profile", "profile")
UpdateWorkerStatus == SavePage("workers", "status")
GenerateCode == SavePage("workers", "generate")
RevokeCode == SavePage("workers", "revoke")

----------------------------------------------------------------------------
(* The server, one request at a time.                                      *)
Answer(c, answer, who, token) ==
    calls' = [calls EXCEPT ![c].answer = answer, ![c].who = who, ![c].token = token]

(* Cookies nobody holds: a session with one of them is out of reach.       *)
Unused == {t \in Tokens : cookie # t /\ clears[t] = 0
              /\ \A c \in Calls : t \notin {calls[c].cookie, calls[c].token}}

Revoked(k) == [t \in Tokens |-> IF t = k THEN None ELSE sessions[t]]

(* A sign-in.  A login revokes the session the browser presents, a         *)
(* registration does not; an inactive account is told so after its password*)
(* was right; a fault may follow the revocation.                           *)
ServeSignIn(c) ==
    /\ calls[c].kind \in SignsIn /\ calls[c].answer = "awaited"
    /\ LET kept == IF calls[c].kind = "login" THEN Revoked(calls[c].cookie) ELSE sessions
       IN \/ /\ Unused # {}
             /\ LET t == CHOOSE t \in Unused : TRUE
                IN /\ sessions' = [kept EXCEPT ![t] = calls[c].who]
                   /\ Answer(c, "ok", calls[c].who, t)
          \/ /\ sessions' \in {kept, sessions}
             /\ Answer(c, "refused", None, None)
          \/ /\ calls[c].kind = "login"
             /\ sessions' = sessions
             /\ Answer(c, "inactive_account", None, None)
    /\ UNCHANGED <<cookie, user, named, restoring, latest, clears, erasers, at, pending,
                   page, intent, astray, acts>>

(* The session is revoked, unless there is a fault; the cookie is cleared  *)
(* either way.                                                             *)
ServeLogout(c) ==
    /\ calls[c].kind = "logout" /\ calls[c].answer = "awaited"
    /\ sessions' \in {Revoked(calls[c].cookie), sessions}
    /\ Answer(c, "ok", None, None)
    /\ UNCHANGED <<cookie, user, named, restoring, latest, clears, erasers, at, pending,
                   page, intent, astray, acts>>

(* A request that needs a session: Authenticate and Require.  A fault is as*)
(* good as a loss.                                                         *)
ServeWithSession(c) ==
    /\ calls[c].kind \in UnderSession /\ calls[c].answer = "awaited"
    /\ LET k == calls[c].cookie
       IN IF k = None THEN Answer(c, "unauthenticated", None, None)
          ELSE IF sessions[k] = None THEN Answer(c, "session_expired", None, None)
          ELSE Answer(c, "ok", sessions[k], None)
    /\ UNCHANGED <<idle, at, pending, page, intent, astray, acts>>

ServeClear(k) ==
    /\ clears[k] > 0
    /\ clears' = [clears EXCEPT ![k] = @ - 1]
    /\ erasers' = erasers + 1
    /\ sessions' \in {Revoked(k), sessions}
    /\ UNCHANGED <<cookie, user, named, restoring, latest, calls, at, pending, page, intent, astray, acts>>

(* The network loses a request or its answer; no fetch has a deadline.     *)
Lose(c) ==
    /\ calls[c].answer \in (IF calls[c].kind \in SignsIn \cup {"logout"} THEN {"awaited", "ok"}
                            ELSE {"awaited"})
    /\ Answer(c, "lost", None, None)
    /\ astray' = (astray \/ calls[c].kind \in Changing)
    /\ UNCHANGED <<idle, at, pending, page, intent, acts>>

LoseClear ==
    /\ \/ \E k \in Clearing : clears' = [clears EXCEPT ![k] = @ - 1] /\ UNCHANGED erasers
       \/ erasers > 0 /\ erasers' = erasers - 1 /\ UNCHANGED clears
    /\ astray' = TRUE
    /\ UNCHANGED <<sessions, cookie, user, named, restoring, latest, calls, at, pending, page, intent, acts>>

(* A session ends elsewhere: its time is over, its account is deactivated, *)
(* its browser has another tab, or its call was cut off by a reload.       *)
EndSession(t) ==
    /\ Act
    /\ sessions[t] # None
    /\ sessions' = [sessions EXCEPT ![t] = None]
    /\ UNCHANGED <<cookie, user, named, restoring, latest, calls, clears, erasers, at, pending,
                   page, intent, astray>>

(* Another tab of the same browser signs somebody in, or out.              *)
OtherTab ==
    /\ Act
    /\ ~astray
    /\ \/ /\ Unused # {}
          /\ LET t == CHOOSE t \in Unused : TRUE
             IN \E who \in Accounts :
                   cookie' = t /\ sessions' = [Revoked(cookie) EXCEPT ![t] = who]
       \/ cookie # None /\ cookie' = None /\ sessions' = Revoked(cookie)
    /\ astray' = TRUE
    /\ UNCHANGED <<user, named, restoring, latest, calls, clears, erasers, at, pending, page, intent>>

----------------------------------------------------------------------------
(* Answers.  The codes that end a session raise SESSION_INVALID_EVENT in   *)
(* the client, before the caller sees the error.                           *)
IsSessionError(c) == calls[c].answer \in {"unauthenticated", "session_expired", "inactive_account"}

(* Mutant: an invalid session is forgotten in the browser only.            *)
ClearsSent_None(c) == 0

(* Clearing logouts the answer sends: the event's; and a second one where  *)
(* the caller clears as well.  getCurrentUser takes "unauthenticated" for  *)
(* an answer, and a login finds itself overtaken by the event.             *)
ClearsSent(c) ==
    IF ~IsSessionError(c) THEN 0
    ELSE IF calls[c].kind \in {"load"} \cup Saves
            \/ (calls[c].kind = "me" /\ calls[c].answer # "unauthenticated")
         THEN 2 ELSE 1

(* The answer says who the user is: only the latest operation's does.      *)
TakesUser(c) ==
    /\ latest = c /\ ~IsSessionError(c)
    /\ calls[c].kind = "me" \/ (calls[c].kind \in SignsIn /\ calls[c].answer = "ok")

UserAfter(c) ==
    IF IsSessionError(c) THEN None
    ELSE IF TakesUser(c) THEN (IF calls[c].answer = "ok" THEN calls[c].who ELSE None)
    ELSE user

(* Mutant: the event leaves the end of the restoration to its own answer.  *)
RestoringAfter_OwnAnswer(c) == restoring /\ (IsSessionError(c) \/ latest # c)

RestoringAfter(c) == restoring /\ ~IsSessionError(c) /\ latest # c

(* updateUserIdentity: the saved profile is the user's, or another's.      *)
NamedAfter(c) ==
    IF UserAfter(c) # user THEN UserAfter(c)
    ELSE IF calls[c].kind = "profile" /\ calls[c].answer = "ok" /\ calls[c].who = user
         THEN calls[c].who ELSE named

(* Where the page that waited sends the browser; nowhere, if it did not.   *)
Destination(c) ==
    IF calls[c].kind = "login" /\ calls[c].answer = "ok"
    THEN Place(getPostLoginRoute(calls[c].from, calls[c].who), None)
    ELSE IF calls[c].kind = "register" /\ calls[c].answer = "ok"
    THEN Place(getRoleLandingRoute(calls[c].who), None)
    ELSE IF calls[c].kind = "logout" THEN Place("login", None)
    ELSE at

PageAfter(c) ==
    IF page.load = c
    THEN [page EXCEPT !.stage = IF calls[c].answer = "ok" THEN "ready" ELSE "failed", !.load = None]
    ELSE [page EXCEPT !.saves = @ \ {c}]

Receive(c) ==
    /\ Answered(c)
    /\ LET busy == RestoringAfter(c)
           shown == Guarded(Destination(c), UserAfter(c), busy)
           jar == CookieAfter(c)
       IN /\ cookie' = jar
          /\ user' = UserAfter(c) /\ named' = NamedAfter(c) /\ restoring' = busy
          /\ at' = shown
          /\ page' = IF shown.path = at.path THEN PageAfter(c) ELSE NoPage
          /\ pending' = IF shown.path = at.path /\ pending # c THEN pending ELSE None
          /\ clears' = [clears EXCEPT ![jar] = @ + ClearsSent(c)]
          /\ astray' = (astray \/ (IsSessionError(c) /\ Running(Changing) \ {c} # {}))
    /\ latest' = IF IsSessionError(c) \/ latest = c THEN None ELSE latest
    /\ intent' = IF IsSessionError(c) THEN None ELSE intent
    /\ calls' = [calls EXCEPT ![c] = NoCall]
    /\ UNCHANGED <<sessions, erasers, acts>>

ReceiveClear ==
    /\ erasers > 0
    /\ erasers' = erasers - 1
    /\ cookie' = None
    /\ UNCHANGED <<sessions, user, named, restoring, latest, calls, clears, at, pending, page,
                   intent, astray, acts>>

----------------------------------------------------------------------------
Serve(c) == ServeSignIn(c) \/ ServeLogout(c) \/ ServeWithSession(c)
Person ==
    \/ \E who \in Accounts : Login(who) \/ Register(who)
    \/ Logout
    \/ \E path \in Paths : Follow(path) \/ Reload(path)
    \/ LoadManagementData \/ LoadProfile \/ Retry
    \/ SaveProfile \/ UpdateWorkerStatus \/ GenerateCode \/ RevokeCode
Network ==
    \/ \E c \in Calls : Serve(c) \/ Lose(c) \/ Receive(c)
    \/ \E k \in Tokens \cup {None} : ServeClear(k)
    \/ LoseClear \/ ReceiveClear
Next == Person \/ Network \/ OtherTab \/ \E t \in Tokens : EndSession(t)

Spec == Init /\ [][Next]_vars

----------------------------------------------------------------------------
CallType ==
    [kind: {"none", "logout"} \cup UnderSession \cup SignsIn, who: Accounts \cup {None},
     from: AllPaths \cup {None}, cookie: Tokens \cup {None}, token: Tokens \cup {None},
     answer: {"none", "awaited", "ok", "refused", "lost", "unauthenticated", "session_expired",
              "inactive_account"}]

(* Every variable keeps its shape; in particular every redirect has an     *)
(* address (readAuthRedirectLocation).                                     *)
TypeOK ==
    /\ sessions \in [Tokens -> Accounts \cup {None}]
    /\ cookie \in Tokens \cup {None}
    /\ user \in Accounts \cup {None} /\ named \in Accounts \cup {None}
    /\ restoring \in BOOLEAN /\ astray \in BOOLEAN
    /\ latest \in Calls \cup {None}
    /\ calls \in [Calls -> CallType]
    /\ clears \in [Tokens \cup {None} -> Nat] /\ erasers \in Nat
    /\ at \in [path: AllPaths, from: AllPaths \cup {None}]
    /\ pending \in Calls \cup {None}
    /\ page \in [stage: {"none", "loading", "failed", "ready"},
                load: Calls \cup {None}, saves: SUBSET Calls]
    /\ intent \in Accounts \cup {None, Anyone} /\ acts \in 0..MaxActs

(* Whoever is signed in is who was last asked for: however logins,         *)
(* registrations, logouts, the restoration and the end of a session overlap*)
(* and in whatever order they are answered, an earlier one decides nothing,*)
(* and the name shown is that user's (AuthProvider's operationRef).        *)
LastIntentDecides ==
    /\ user # None => intent \in {user, Anyone}
    /\ named = user

(* When nothing is under way, calls did not overlap and no answer was lost:*)
(* who is signed in has the cookie of a session of their own, or of one    *)
(* that has ended since, and who is signed out left no cookie that a reload*)
(* would restore (clearServiceSession, the login's and the logout's        *)
(* cookies).                                                               *)
BrowserAgreesWithServer ==
    ~astray /\ Quiet =>
        IF user = None THEN cookie = None
        ELSE cookie # None /\ sessions[cookie] \in {user, None}

(* Nobody is sent to a page that sends them on: the address kept over a    *)
(* sign-in and the landing page of a role are ones the guards of the routes*)
(* render for them (isRouteAllowedForRole and App's table of routes).      *)
SignInLandsForGood ==
    [][\A c \in Calls :
          user = None /\ user' # None /\ latest = c /\ calls[c].kind \in SignsIn
          => at' = Destination(c)]_vars

(* Whoever waits has somebody to wait for: the session check on screen, a  *)
(* form that was submitted and a page that loads each have the call under  *)
(* way whose answer ends the wait, however calls fail and overtake each    *)
(* other; without one, reloading would be the only way on.                 *)
EveryWaitHasItsAnswer ==
    /\ restoring => latest \in Running({"me"})
    /\ pending # None => pending \in Running({at.path}) /\ user = None
    /\ page.stage = "loading" => page.load \in Running({"load"})
    /\ page.saves \subseteq Running(Saves)
=============================================================================
