----------------------------- MODULE SignInProofs -----------------------------
(***************************************************************************)
(* Who is signed in, for any number of people, calls under way, sessions   *)
(* and acts: the operation begun last decides, and a sign-in lands on a    *)
(* page that is shown.                                                     *)
(***************************************************************************)
EXTENDS SignIn, TLAPS

PlaceType == [path: AllPaths, from: AllPaths \cup {None}]

(* What the latest operation's answer may say is what was last asked for.  *)
LatestInv ==
    latest # None =>
        \/ calls[latest].kind = "me" /\ intent = Anyone
        \/ calls[latest].kind \in SignsIn /\ (calls[latest].answer \in {"awaited", "ok"} =>
                                                   calls[latest].who = intent)
        \/ calls[latest].kind = "logout"

IInv == TypeOK /\ LastIntentDecides /\ LatestInv

-----------------------------------------------------------------------------
LEMMA LandingType == \A u : getRoleLandingRoute(u) \in AllPaths
  BY DEF getRoleLandingRoute, AllPaths, ForAll, AdminOnly

LEMMA PostLoginType ==
  ASSUME NEW from \in AllPaths \cup {None}, NEW u
  PROVE  getPostLoginRoute(from, u) \in AllPaths
  BY LandingType DEF getPostLoginRoute, isRouteAllowedForRole, AllPaths

LEMMA GuardedType ==
  ASSUME NEW place \in PlaceType, NEW u, NEW busy
  PROVE  Guarded(place, u, busy) \in PlaceType
  <1>1. place.path \in AllPaths /\ place.from \in AllPaths \cup {None}
    BY DEF PlaceType
  <1>2. getPostLoginRoute(place.from, u) \in AllPaths
    BY <1>1, PostLoginType
  <1>3. getRoleLandingRoute(u) \in AllPaths
    BY LandingType
  <1>4. "login" \in AllPaths
    BY DEF AllPaths, PublicOnly
  <1> QED
    BY <1>1, <1>2, <1>3, <1>4
       DEF Guarded, RequireAuth, RequireRole, PublicOnlyRoute, Place, PlaceType

LEMMA FreshIsFree == ASSUME Free # {} PROVE Fresh \in Calls /\ calls[Fresh] = NoCall
  BY DEF Fresh, Free

LEMMA NoCallType == NoCall \in CallType
  BY DEF NoCall, CallType

(* A call that is sent.                                                    *)
LEMMA SendType ==
  ASSUME TypeOK, Free # {}, NEW kind \in {"me", "load", "profile", "status", "generate", "revoke", "logout", "login",
                      "register"},
         NEW who \in Accounts \cup {None}, NEW from \in AllPaths \cup {None}
  PROVE  /\ Send(kind, who, from) \in [Calls -> CallType]
         /\ Send(kind, who, from)[Fresh].kind = kind
         /\ Send(kind, who, from)[Fresh].who = who
         /\ \A c \in Calls : c # Fresh => Send(kind, who, from)[c] = calls[c]
  <1> DEFINE r == [NoCall EXCEPT !.kind = kind, !.who = who, !.from = from,
                                 !.cookie = cookie, !.answer = "awaited"]
  <1>1. r \in CallType /\ r.kind = kind /\ r.who = who
    BY DEF NoCall, CallType, TypeOK, SignsIn, UnderSession, Saves
  <1>2. Send(kind, who, from) = [calls EXCEPT ![Fresh] = r]
    BY DEF Send
  <1> QED
    BY <1>1, <1>2, FreshIsFree DEF TypeOK

(* An answer that is given.                                                *)
LEMMA AnswerType ==
  ASSUME TypeOK, NEW c \in Calls, NEW who \in Accounts \cup {None}, NEW token \in Tokens \cup {None},
         NEW answer \in {"ok", "refused", "lost", "unauthenticated", "session_expired",
                         "inactive_account"},
         Answer(c, answer, who, token)
  PROVE  /\ calls' \in [Calls -> CallType]
         /\ calls'[c].kind = calls[c].kind /\ calls'[c].answer = answer /\ calls'[c].who = who
         /\ \A d \in Calls : d # c => calls'[d] = calls[d]
  <1> DEFINE r == [calls[c] EXCEPT !.answer = answer, !.who = who, !.token = token]
  <1>1. calls[c] \in CallType
    BY DEF TypeOK
  <1>2. r \in CallType /\ r.kind = calls[c].kind /\ r.answer = answer /\ r.who = who
    BY <1>1 DEF CallType
  <1>3. calls' = [calls EXCEPT ![c] = r]
    BY <1>1 DEF Answer, TypeOK
  <1> QED
    BY <1>2, <1>3 DEF TypeOK

(* The screen after a change of address or of the user.                    *)
LEMMA ShowType ==
  ASSUME TypeOK, NEW place \in PlaceType, NEW u, NEW busy, Show(place, u, busy)
  PROVE  /\ at' \in PlaceType
         /\ pending' \in Calls \cup {None}
         /\ page' \in [stage: {"none", "loading", "failed", "ready"},
                       load: Calls \cup {None}, saves: SUBSET Calls]
  BY GuardedType DEF Show, TypeOK, NoPage

LEMMA RevokedType == ASSUME TypeOK, NEW k PROVE Revoked(k) \in [Tokens -> Accounts \cup {None}]
  BY DEF Revoked, TypeOK

LEMMA RoomMeansFree == ASSUME NEW kind, Room(kind) PROVE Free # {}
  BY DEF Room

(* Steps that leave the users, the operation and its call as they are.     *)
LEMMA LatestKept ==
  ASSUME IInv, TypeOK', UNCHANGED <<user, named, latest, intent>>,
         latest # None => /\ calls'[latest].kind = calls[latest].kind
                          /\ calls'[latest].answer \in {"awaited", "ok"} =>
                                 /\ calls[latest].answer \in {"awaited", "ok"}
                                 /\ calls'[latest].who = calls[latest].who
  PROVE  IInv'
  BY DEF IInv, LastIntentDecides, LatestInv

LEMMA ActType == ASSUME TypeOK, acts < MaxActs, acts' = acts + 1 PROVE acts' \in 0..MaxActs
  BY SignInAssumption DEF TypeOK

LEMMA InitHolds == Init => IInv
  <1> SUFFICES ASSUME Init PROVE IInv
    OBVIOUS
  <1> PICK path \in Paths, owner \in Accounts \cup {None}, c \in {CHOOSE c \in Calls : TRUE},
           k \in {None, CHOOSE t \in Tokens : TRUE} :
           /\ sessions = [t \in Tokens |-> IF t = k THEN owner ELSE None]
           /\ cookie = k
           /\ calls = [d \in Calls |-> IF d # c THEN NoCall
                        ELSE [NoCall EXCEPT !.kind = "me", !.cookie = k, !.answer = "awaited"]]
           /\ latest = c
           /\ at = Place(path, None)
    BY DEF Init
  <1>1. c \in Calls /\ k \in Tokens \cup {None}
    BY SignInAssumption
  <1> DEFINE r == [NoCall EXCEPT !.kind = "me", !.cookie = k, !.answer = "awaited"]
  <1>2. r \in CallType /\ r.kind = "me"
    BY <1>1 DEF NoCall, CallType, UnderSession
  <1>3. calls \in [Calls -> CallType] /\ calls[c].kind = "me"
    <2>1. calls = [d \in Calls |-> IF d # c THEN NoCall ELSE r]
      OBVIOUS
    <2> QED
      BY <1>1, <1>2, <2>1, NoCallType
  <1>4. at \in PlaceType
    BY PathsAssumption DEF Place, PlaceType
  <1>5. TypeOK
    <2>1. page \in [stage: {"none", "loading", "failed", "ready"},
                    load: Calls \cup {None}, saves: SUBSET Calls]
      BY DEF Init, NoPage
    <2>2. sessions \in [Tokens -> Accounts \cup {None}] /\ cookie \in Tokens \cup {None}
      BY <1>1
    <2>3. clears \in [Tokens \cup {None} -> Nat] /\ erasers \in Nat /\ acts \in 0..MaxActs
      BY SignInAssumption DEF Init
    <2> QED
      BY <1>1, <1>3, <1>4, <2>1, <2>2, <2>3 DEF Init, TypeOK, PlaceType
  <1> QED
    BY <1>1, <1>3, <1>5 DEF Init, IInv, LastIntentDecides, LatestInv

LEMMA SubmitKeeps ==
  ASSUME IInv, NEW kind \in SignsIn, NEW who \in Accounts, NEW from \in {at.from, None},
         Submit(kind, who, from)
  PROVE  IInv'
  <1>1. TypeOK /\ Free # {}
    BY RoomMeansFree DEF IInv, Submit
  <1>2. from \in AllPaths \cup {None}
    BY <1>1 DEF TypeOK
  <1>3. /\ calls' = Send(kind, who, from)
        /\ latest' = Fresh /\ pending' = Fresh /\ intent' = who
        /\ acts < MaxActs /\ acts' = acts + 1
        /\ astray' = (astray \/ ~Quiet)
        /\ UNCHANGED <<sessions, cookie, user, named, restoring, clears, erasers, at, page>>
        /\ user = None
    BY DEF Submit, Act, Overtakes
  <1>4. /\ calls' \in [Calls -> CallType]
        /\ calls'[Fresh].kind = kind /\ calls'[Fresh].who = who
    BY <1>1, <1>2, <1>3, SendType DEF SignsIn
  <1>5. Fresh \in Calls
    BY <1>1, FreshIsFree
  <1>6. astray' \in BOOLEAN /\ acts' \in 0..MaxActs
    BY <1>1, <1>3, ActType
  <1>7. TypeOK'
    BY <1>1, <1>3, <1>4, <1>5, <1>6 DEF TypeOK
  <1> QED
    BY <1>3, <1>4, <1>7, SignInAssumption DEF IInv, LastIntentDecides, LatestInv

LEMMA LogoutKeeps == ASSUME IInv, Logout PROVE IInv'
  <1>1. TypeOK /\ Free # {}
    BY RoomMeansFree DEF IInv, Logout
  <1>2. /\ calls' = Send("logout", None, None)
        /\ latest' = Fresh /\ intent' = None /\ user' = None /\ named' = None
        /\ restoring' = FALSE
        /\ Show(at, None, FALSE)
        /\ acts < MaxActs /\ acts' = acts + 1
        /\ astray' = (astray \/ Running(SignsIn \cup {"me"}) # {})
        /\ UNCHANGED <<sessions, cookie, clears, erasers>>
    BY DEF Logout, Act, Overtakes
  <1>3. calls' \in [Calls -> CallType] /\ calls'[Fresh].kind = "logout"
    BY <1>1, <1>2, SendType
  <1>4. Fresh \in Calls
    BY <1>1, FreshIsFree
  <1>5. /\ at' \in PlaceType /\ pending' \in Calls \cup {None}
        /\ page' \in [stage: {"none", "loading", "failed", "ready"},
                      load: Calls \cup {None}, saves: SUBSET Calls]
    BY <1>1, <1>2, ShowType DEF TypeOK, PlaceType
  <1>6. astray' \in BOOLEAN /\ acts' \in 0..MaxActs
    BY <1>1, <1>2, ActType
  <1>7. TypeOK'
    BY <1>1, <1>2, <1>3, <1>4, <1>5, <1>6 DEF TypeOK, PlaceType
  <1> QED
    BY <1>2, <1>3, <1>7, SignInAssumption DEF IInv, LastIntentDecides, LatestInv

LEMMA FollowKeeps == ASSUME IInv, NEW path \in Paths, Follow(path) PROVE IInv'
  <1>1. TypeOK /\ Place(path, None) \in PlaceType
    BY PathsAssumption DEF IInv, Place, PlaceType
  <1>2. /\ Show(Place(path, None), user, restoring)
        /\ UNCHANGED <<sessions, cookie, user, named, restoring, latest, clears, erasers, calls,
                       intent, astray, acts>>
    BY DEF Follow, idle
  <1>3. TypeOK'
    BY <1>1, <1>2, ShowType DEF TypeOK, PlaceType
  <1> QED
    BY <1>2, <1>3, LatestKept

LEMMA ReloadKeeps == ASSUME IInv, NEW path \in Paths, Reload(path) PROVE IInv'
  <1>1. TypeOK
    BY DEF IInv
  <1>2. PICK jar \in {cookie} \cup {CookieAfter(c) : c \in {d \in Calls : Answered(d)}}
                    \cup (IF erasers > 0 THEN {None} ELSE {}),
             me \in {CHOOSE c \in Calls : TRUE} :
          /\ cookie' = jar
          /\ calls' = [c \in Calls |-> IF c # me THEN NoCall
                        ELSE [NoCall EXCEPT !.kind = "me", !.cookie = jar, !.answer = "awaited"]]
          /\ latest' = me
          /\ user' = None /\ named' = None /\ restoring' = TRUE
          /\ clears' = [k \in DOMAIN clears |-> 0] /\ erasers' = 0
          /\ at' = Place(path, None) /\ page' = NoPage /\ pending' = None
          /\ intent' = Anyone /\ astray' = FALSE
          /\ acts < MaxActs /\ acts' = acts + 1 /\ sessions' = sessions
    BY DEF Reload, Act
  <1>3. me \in Calls
    BY SignInAssumption
  <1>4. jar \in Tokens \cup {None}
    <2>1. \A c \in Calls : calls[c].token \in Tokens \cup {None}
      BY <1>1 DEF TypeOK, CallType
    <2>2. \A c \in Calls : CookieAfter(c) \in Tokens \cup {None}
      BY <1>1, <2>1 DEF CookieAfter, TypeOK
    <2> QED
      BY <1>1, <2>2 DEF TypeOK
  <1> DEFINE r == [NoCall EXCEPT !.kind = "me", !.cookie = jar, !.answer = "awaited"]
  <1>5. r \in CallType /\ r.kind = "me"
    BY <1>4 DEF NoCall, CallType, UnderSession
  <1>6. calls' \in [Calls -> CallType] /\ calls'[me].kind = "me"
    <2>1. calls' = [c \in Calls |-> IF c # me THEN NoCall ELSE r]
      BY <1>2
    <2> QED
      BY <1>3, <1>5, <2>1, NoCallType
  <1>7. at' \in PlaceType
    BY <1>2, PathsAssumption DEF Place, PlaceType
  <1>8. page' \in [stage: {"none", "loading", "failed", "ready"},
                   load: Calls \cup {None}, saves: SUBSET Calls]
    BY <1>2 DEF NoPage
  <1>9. clears' \in [Tokens \cup {None} -> Nat]
    BY <1>1, <1>2 DEF TypeOK
  <1>10. acts' \in 0..MaxActs
    BY <1>1, <1>2, ActType
  <1>11. TypeOK'
    BY <1>1, <1>2, <1>3, <1>4, <1>6, <1>7, <1>8, <1>9, <1>10 DEF TypeOK, PlaceType
  <1> QED
    BY <1>2, <1>3, <1>6, <1>11, SignInAssumption DEF IInv, LastIntentDecides, LatestInv

(* The pages' calls.                                                       *)
LEMMA PageCallKeeps ==
  ASSUME IInv, NEW path, NEW kind \in Saves, LoadPage(path) \/ SavePage(path, kind) PROVE IInv'
  <1>1. TypeOK /\ Free # {}
    BY RoomMeansFree DEF IInv, LoadPage, SavePage
  <1>2. PICK sent \in {"load"} \cup Saves :
          /\ calls' = Send(sent, None, at.path)
          /\ page' = [page EXCEPT !.stage = "loading", !.load = Fresh]
             \/ page' = [page EXCEPT !.saves = @ \cup {Fresh}]
          /\ UNCHANGED <<sessions, cookie, user, named, restoring, latest, clears, erasers, at,
                         pending, intent, astray, acts>>
    BY DEF LoadPage, SavePage, idle
  <1>3. at.path \in AllPaths
    BY <1>1 DEF TypeOK
  <1>4. Fresh \in Calls /\ calls[Fresh] = NoCall
    BY <1>1, FreshIsFree
  <1>5. calls' \in [Calls -> CallType] /\ \A c \in Calls : c # Fresh => calls'[c] = calls[c]
    BY <1>1, <1>2, <1>3, SendType DEF Saves
  <1>6. page' \in [stage: {"none", "loading", "failed", "ready"},
                   load: Calls \cup {None}, saves: SUBSET Calls]
    <2>1. page \in [stage: {"none", "loading", "failed", "ready"},
                    load: Calls \cup {None}, saves: SUBSET Calls]
      BY <1>1 DEF TypeOK
    <2>2. page.saves \cup {Fresh} \in SUBSET Calls
      BY <2>1, <1>4
    <2>3. CASE page' = [page EXCEPT !.stage = "loading", !.load = Fresh]
      BY <2>1, <2>3, <1>4
    <2>4. CASE page' = [page EXCEPT !.saves = @ \cup {Fresh}]
      BY <2>1, <2>2, <2>4
    <2> QED
      BY <1>2, <2>3, <2>4
  <1>7. TypeOK'
    BY <1>1, <1>2, <1>5, <1>6 DEF TypeOK
  <1>8. latest # None => latest \in Calls /\ latest # Fresh
    BY <1>1, <1>4 DEF IInv, LatestInv, TypeOK, NoCall, SignsIn
  <1> QED
    BY <1>2, <1>5, <1>7, <1>8, LatestKept

LEMMA ServeSignInKeeps == ASSUME IInv, NEW c \in Calls, ServeSignIn(c) PROVE IInv'
  <1> DEFINE kept == IF calls[c].kind = "login" THEN Revoked(calls[c].cookie) ELSE sessions
  <1>1. TypeOK /\ kept \in [Tokens -> Accounts \cup {None}]
    BY RevokedType DEF IInv, TypeOK
  <1>2. UNCHANGED <<cookie, user, named, restoring, latest, clears, erasers, at, pending,
                    page, intent, astray, acts>>
        /\ calls[c].kind \in SignsIn /\ calls[c].answer = "awaited"
    BY DEF ServeSignIn
  <1>3. \/ /\ Unused # {}
           /\ LET t == CHOOSE t \in Unused : TRUE
              IN /\ sessions' = [kept EXCEPT ![t] = calls[c].who]
                 /\ Answer(c, "ok", calls[c].who, t)
        \/ /\ sessions' \in {kept, sessions}
           /\ Answer(c, "refused", None, None)
        \/ /\ sessions' = sessions
           /\ Answer(c, "inactive_account", None, None)
    BY DEF ServeSignIn
  <1>4. calls[c].who \in Accounts \cup {None}
    BY <1>1 DEF TypeOK, CallType
  <1>5. /\ calls' \in [Calls -> CallType]
        /\ sessions' \in [Tokens -> Accounts \cup {None}]
        /\ calls'[c].kind = calls[c].kind
        /\ calls'[c].answer \in {"awaited", "ok"} => calls'[c].who = calls[c].who
        /\ \A d \in Calls : d # c => calls'[d] = calls[d]
    <2>1. CASE Unused # {}
               /\ LET t == CHOOSE t \in Unused : TRUE
                  IN /\ sessions' = [kept EXCEPT ![t] = calls[c].who]
                     /\ Answer(c, "ok", calls[c].who, t)
      <3> DEFINE t == CHOOSE t \in Unused : TRUE
      <3>1. t \in Tokens
        BY <2>1 DEF Unused
      <3> HIDE DEF t
      <3>2. Answer(c, "ok", calls[c].who, t) /\ sessions' = [kept EXCEPT ![t] = calls[c].who]
        BY <2>1 DEF t
      <3> QED
        BY <1>1, <1>4, <3>1, <3>2, AnswerType
    <2>2. CASE sessions' \in {kept, sessions} /\ Answer(c, "refused", None, None)
      BY <1>1, <2>2, AnswerType DEF TypeOK
    <2>3. CASE sessions' = sessions /\ Answer(c, "inactive_account", None, None)
      BY <1>1, <2>3, AnswerType DEF TypeOK
    <2> QED
      BY <1>3, <2>1, <2>2, <2>3
  <1>6. TypeOK'
    BY <1>1, <1>2, <1>5 DEF TypeOK
  <1>7. latest # None => latest \in Calls
    BY <1>1 DEF TypeOK
  <1> QED
    BY <1>2, <1>5, <1>6, <1>7, LatestKept

LEMMA ServeLogoutKeeps == ASSUME IInv, NEW c \in Calls, ServeLogout(c) PROVE IInv'
  <1>1. TypeOK /\ Answer(c, "ok", None, None) /\ calls[c].kind = "logout"
        /\ sessions' \in [Tokens -> Accounts \cup {None}]
        /\ UNCHANGED <<cookie, user, named, restoring, latest, clears, erasers, at, pending,
                       page, intent, astray, acts>>
    BY RevokedType DEF IInv, ServeLogout, TypeOK
  <1>2. /\ calls' \in [Calls -> CallType] /\ calls'[c].kind = "logout"
        /\ \A d \in Calls : d # c => calls'[d] = calls[d]
    BY <1>1, AnswerType
  <1>3. TypeOK'
    BY <1>1, <1>2 DEF TypeOK
  <1> QED
    BY <1>1, <1>2, <1>3 DEF IInv, LastIntentDecides, LatestInv, SignsIn, TypeOK

LEMMA ServeWithSessionKeeps == ASSUME IInv, NEW c \in Calls, ServeWithSession(c) PROVE IInv'
  <1>1. TypeOK /\ calls[c].kind \in UnderSession
        /\ UNCHANGED <<sessions, cookie, user, named, restoring, latest, clears, erasers, at,
                       pending, page, intent, astray, acts>>
    BY DEF IInv, ServeWithSession, idle
  <1>2. PICK answer \in {"ok", "unauthenticated", "session_expired"}, who \in Accounts \cup {None} :
          Answer(c, answer, who, None)
    <2>1. calls[c].cookie \in Tokens \cup {None}
      BY <1>1 DEF TypeOK, CallType
    <2> QED
      BY <1>1, <2>1 DEF ServeWithSession, TypeOK
  <1>3. /\ calls' \in [Calls -> CallType] /\ calls'[c].kind = calls[c].kind
        /\ \A d \in Calls : d # c => calls'[d] = calls[d]
    BY <1>1, <1>2, AnswerType
  <1>4. TypeOK'
    BY <1>1, <1>3 DEF TypeOK
  <1> QED
    BY <1>1, <1>3, <1>4 DEF IInv, LastIntentDecides, LatestInv, SignsIn, UnderSession, Saves, TypeOK

LEMMA LoseKeeps == ASSUME IInv, NEW c \in Calls, Lose(c) PROVE IInv'
  <1>1. TypeOK /\ Answer(c, "lost", None, None)
        /\ astray' = (astray \/ calls[c].kind \in Changing)
        /\ UNCHANGED <<sessions, cookie, user, named, restoring, latest, clears, erasers, at,
                       pending, page, intent, acts>>
    BY DEF IInv, Lose, idle
  <1>2. /\ calls' \in [Calls -> CallType] /\ calls'[c].kind = calls[c].kind
        /\ calls'[c].answer = "lost"
        /\ \A d \in Calls : d # c => calls'[d] = calls[d]
    BY <1>1, AnswerType
  <1>3. astray' \in BOOLEAN
    BY <1>1
  <1>4. TypeOK'
    BY <1>1, <1>2, <1>3 DEF TypeOK
  <1>5. latest # None => latest \in Calls
    BY <1>1 DEF TypeOK
  <1> QED
    BY <1>1, <1>2, <1>4, <1>5, LatestKept

(* Steps that touch neither the calls of operations nor the user.          *)
LEMMA ElsewhereKeeps ==
  ASSUME IInv, \/ \E k \in Tokens \cup {None} : ServeClear(k)
               \/ LoseClear \/ ReceiveClear \/ OtherTab
               \/ \E t \in Tokens : EndSession(t)
  PROVE  IInv'
  <1>1. TypeOK
    BY DEF IInv
  <1>2. UNCHANGED <<user, named, restoring, latest, calls, at, pending, page, intent>>
    BY DEF ServeClear, LoseClear, ReceiveClear, OtherTab, EndSession
  <1>3. astray' \in BOOLEAN /\ acts' \in 0..MaxActs
    <2>1. acts' = acts \/ (acts < MaxActs /\ acts' = acts + 1)
      BY DEF ServeClear, LoseClear, ReceiveClear, OtherTab, EndSession, Act
    <2>2. astray' = astray \/ astray' = TRUE
      BY DEF ServeClear, LoseClear, ReceiveClear, OtherTab, EndSession
    <2> QED
      BY <1>1, <2>1, <2>2, ActType DEF TypeOK
  <1>4. clears' \in [Tokens \cup {None} -> Nat] /\ erasers' \in Nat
    <2>1. CASE \E k \in Tokens \cup {None} : ServeClear(k)
      BY <1>1, <2>1 DEF ServeClear, TypeOK
    <2>2. CASE LoseClear
      BY <1>1, <2>2 DEF LoseClear, TypeOK, Clearing
    <2>3. CASE ReceiveClear \/ OtherTab \/ \E t \in Tokens : EndSession(t)
      BY <1>1, <2>3 DEF ReceiveClear, OtherTab, EndSession, TypeOK
    <2> QED
      BY <2>1, <2>2, <2>3
  <1>5. cookie' \in Tokens \cup {None} /\ sessions' \in [Tokens -> Accounts \cup {None}]
    <2>1. CASE \E k \in Tokens \cup {None} : ServeClear(k)
      BY <1>1, <2>1, RevokedType DEF ServeClear, TypeOK
    <2>2. CASE LoseClear \/ ReceiveClear \/ \E t \in Tokens : EndSession(t)
      BY <1>1, <2>2 DEF LoseClear, ReceiveClear, EndSession, TypeOK
    <2>3. CASE OtherTab
      <3>1. CASE cookie' = None /\ sessions' = Revoked(cookie)
        BY <1>1, <3>1, RevokedType
      <3>2. CASE /\ Unused # {}
                 /\ LET t == CHOOSE t \in Unused : TRUE
                    IN \E who \in Accounts :
                          cookie' = t /\ sessions' = [Revoked(cookie) EXCEPT ![t] = who]
        <4> DEFINE t == CHOOSE t \in Unused : TRUE
        <4>1. t \in Tokens
          BY <3>2 DEF Unused
        <4> HIDE DEF t
        <4>2. PICK who \in Accounts : cookie' = t /\ sessions' = [Revoked(cookie) EXCEPT ![t] = who]
          BY <3>2 DEF t
        <4> QED
          BY <1>1, <4>1, <4>2, RevokedType
      <3> QED
        BY <2>3, <3>1, <3>2 DEF OtherTab
    <2> QED
      BY <2>1, <2>2, <2>3
  <1>6. TypeOK'
    BY <1>1, <1>2, <1>3, <1>4, <1>5 DEF TypeOK
  <1> QED
    BY <1>2, <1>6, LatestKept

(* An answer taken.  Only the latest operation's names a user, and that is *)
(* who was last asked for.                                                 *)
LEMMA ReceiveKeeps == ASSUME IInv, NEW c \in Calls, Receive(c) PROVE IInv'
  <1> DEFINE busy == RestoringAfter(c)
             shown == Guarded(Destination(c), UserAfter(c), busy)
             jar == CookieAfter(c)
  <1>1. TypeOK /\ calls[c] \in CallType
    BY DEF IInv, TypeOK
  <1>2. /\ cookie' = jar /\ user' = UserAfter(c) /\ named' = NamedAfter(c) /\ restoring' = busy
        /\ at' = shown
        /\ page' = IF shown.path = at.path THEN PageAfter(c) ELSE NoPage
        /\ pending' = IF shown.path = at.path /\ pending # c THEN pending ELSE None
        /\ clears' = [clears EXCEPT ![jar] = @ + ClearsSent(c)]
        /\ astray' = (astray \/ (IsSessionError(c) /\ Running(Changing) \ {c} # {}))
        /\ latest' = IF IsSessionError(c) \/ latest = c THEN None ELSE latest
        /\ intent' = IF IsSessionError(c) THEN None ELSE intent
        /\ calls' = [calls EXCEPT ![c] = NoCall]
        /\ UNCHANGED <<sessions, erasers, acts>>
    BY DEF Receive
  <1>3. jar \in Tokens \cup {None} /\ user' \in Accounts \cup {None} /\ named' \in Accounts \cup {None}
    BY <1>1, <1>2 DEF CookieAfter, UserAfter, NamedAfter, TypeOK, CallType
  <1>4. at' \in PlaceType
    <2>1. Destination(c) \in PlaceType
      <3>1. getPostLoginRoute(calls[c].from, calls[c].who) \in AllPaths
        BY <1>1, PostLoginType DEF CallType
      <3>2. getRoleLandingRoute(calls[c].who) \in AllPaths /\ "login" \in AllPaths
        BY LandingType DEF AllPaths, PublicOnly
      <3> QED
        BY <1>1, <3>1, <3>2 DEF Destination, Place, PlaceType, TypeOK
    <2> QED
      BY <1>2, <2>1, GuardedType
  <1>5. page' \in [stage: {"none", "loading", "failed", "ready"},
                   load: Calls \cup {None}, saves: SUBSET Calls]
        /\ pending' \in Calls \cup {None}
    BY <1>1, <1>2 DEF PageAfter, NoPage, TypeOK
  <1>6. clears' \in [Tokens \cup {None} -> Nat] /\ calls' \in [Calls -> CallType]
    <2>1. ClearsSent(c) \in Nat
      BY DEF ClearsSent
    <2> QED
      BY <1>1, <1>2, <1>3, <2>1, NoCallType DEF TypeOK
  <1>7. restoring' \in BOOLEAN /\ astray' \in BOOLEAN
    BY <1>2 DEF RestoringAfter
  <1>8. latest' \in Calls \cup {None} /\ intent' \in Accounts \cup {None, Anyone}
    BY <1>1, <1>2 DEF TypeOK
  <1>9. TypeOK'
    BY <1>1, <1>2, <1>3, <1>4, <1>5, <1>6, <1>7, <1>8 DEF TypeOK, PlaceType
  <1>10. LastIntentDecides'
    <2>1. named' = user'
      BY <1>2 DEF NamedAfter, IInv, LastIntentDecides
    <2>2. user' # None => intent' \in {user', Anyone}
      <3>1. CASE IsSessionError(c)
        BY <1>2, <3>1 DEF UserAfter
      <3>2. CASE ~IsSessionError(c) /\ TakesUser(c)
        <4>1. latest = c /\ c # None
          BY <3>2, SignInAssumption DEF TakesUser
        <4>2. user' = IF calls[c].answer = "ok" THEN calls[c].who ELSE None
          BY <1>2, <3>2 DEF UserAfter
        <4>3. \/ calls[c].kind = "me" /\ intent = Anyone
              \/ calls[c].kind \in SignsIn /\ (calls[c].answer = "ok" => calls[c].who = intent)
          BY <3>2, <4>1 DEF TakesUser, IInv, LatestInv, SignsIn
        <4> QED
          BY <1>2, <3>2, <4>2, <4>3
      <3>3. CASE ~IsSessionError(c) /\ ~TakesUser(c)
        BY <1>2, <3>3 DEF UserAfter, IInv, LastIntentDecides
      <3> QED
        BY <3>1, <3>2, <3>3
    <2> QED
      BY <2>1, <2>2 DEF LastIntentDecides
  <1>11. LatestInv'
    BY <1>1, <1>2 DEF IInv, LatestInv, TypeOK
  <1> QED
    BY <1>9, <1>10, <1>11 DEF IInv

LEMMA StepKeeps == IInv /\ [Next]_vars => IInv'
  <1> SUFFICES ASSUME IInv, [Next]_vars PROVE IInv'
    OBVIOUS
  <1>1. CASE Person
    <2>1. CASE \E who \in Accounts : Login(who) \/ Register(who)
      BY <2>1, SubmitKeeps DEF Login, Register, SignsIn
    <2>2. CASE LoadManagementData \/ LoadProfile \/ Retry
      <3>1. PICK path : LoadPage(path)
        BY <2>2 DEF LoadManagementData, LoadProfile, Retry
      <3> QED
        BY <3>1, PageCallKeeps DEF Saves
    <2>3. CASE SaveProfile \/ UpdateWorkerStatus \/ GenerateCode \/ RevokeCode
      <3>1. \/ SavePage("profile", "profile") \/ SavePage("workers", "status")
            \/ SavePage("workers", "generate") \/ SavePage("workers", "revoke")
        BY <2>3 DEF SaveProfile, UpdateWorkerStatus, GenerateCode, RevokeCode
      <3>2. \A path : \A kind \in Saves : SavePage(path, kind) => IInv'
        BY PageCallKeeps
      <3> QED
        BY <3>1, <3>2 DEF Saves
    <2> QED
      BY <1>1, <2>1, <2>2, <2>3, LogoutKeeps, FollowKeeps, ReloadKeeps DEF Person
  <1>2. CASE Network
    BY <1>2, ServeSignInKeeps, ServeLogoutKeeps, ServeWithSessionKeeps, LoseKeeps, ReceiveKeeps,
       ElsewhereKeeps DEF Network, Serve
  <1>3. CASE OtherTab \/ \E t \in Tokens : EndSession(t)
    BY <1>3, ElsewhereKeeps
  <1>4. CASE UNCHANGED vars
    BY <1>4 DEF vars, IInv, TypeOK, LastIntentDecides, LatestInv
  <1> QED
    BY <1>1, <1>2, <1>3, <1>4 DEF Next

(* Every variable keeps its shape, and every redirect has an address, for  *)
(* all values of the constants (AuthProvider, authNavigation).             *)
THEOREM TypeCorrect == Spec => []TypeOK
  <1>1. IInv => TypeOK
    BY DEF IInv
  <1> QED
    BY <1>1, InitHolds, StepKeeps, PTL DEF Spec

(* Whoever is signed in is who was last asked for, however many logins,    *)
(* registrations, logouts and ends of sessions are under way and in        *)
(* whatever order they are answered (AuthProvider's operationRef).         *)
THEOREM TheLastIntentDecides == Spec => []LastIntentDecides
  <1>1. IInv => LastIntentDecides
    BY DEF IInv
  <1> QED
    BY <1>1, InitHolds, StepKeeps, PTL DEF Spec

(* An answer that signs somebody in puts them where it sends them.         *)
LEMMA DestinationIsShown ==
  ASSUME NEW c \in Calls, calls[c].kind \in SignsIn, latest = c,
         user = None, user' # None, NEW d \in Calls, Receive(d)
  PROVE  at' = Destination(c)
  <1>1. user' = UserAfter(d) /\ at' = Guarded(Destination(d), UserAfter(d), RestoringAfter(d))
    BY DEF Receive
  <1>2. TakesUser(d) /\ calls[d].answer = "ok" /\ UserAfter(d) = calls[d].who /\ UserAfter(d) # None
    BY <1>1 DEF UserAfter
  <1>3. d = c /\ ~RestoringAfter(d)
    BY <1>2 DEF TakesUser, RestoringAfter
  <1>4. PICK path : /\ Destination(c) = Place(path, None)
                    /\ isRouteAllowedForRole(path, calls[c].who)
    <2>1. \A u : isRouteAllowedForRole(getRoleLandingRoute(u), u)
      BY DEF isRouteAllowedForRole, getRoleLandingRoute, ForAll, AdminOnly, WorkerOnly
    <2>2. \A from, u : isRouteAllowedForRole(getPostLoginRoute(from, u), u)
      BY <2>1 DEF getPostLoginRoute
    <2>3. Destination(c) = Place(getPostLoginRoute(calls[c].from, calls[c].who), None)
          \/ Destination(c) = Place(getRoleLandingRoute(calls[c].who), None)
      BY <1>2, <1>3 DEF Destination, SignsIn
    <2> QED
      BY <2>1, <2>2, <2>3
  <1>5. Guarded(Place(path, None), calls[c].who, FALSE) = Place(path, None)
    BY <1>2, <1>3, <1>4
       DEF Guarded, RequireRole, Place, isRouteAllowedForRole, PublicOnly, ForAll, AdminOnly, WorkerOnly
  <1> QED
    BY <1>1, <1>2, <1>3, <1>4, <1>5 DEF RestoringAfter

(* Nobody who signs in is sent to a page that sends them on.               *)
THEOREM SignInLands == Spec => SignInLandsForGood
  <1>1. [Next]_vars => [\A c \in Calls :
                           user = None /\ user' # None /\ latest = c /\ calls[c].kind \in SignsIn
                           => at' = Destination(c)]_vars
    <2> SUFFICES ASSUME [Next]_vars, NEW c \in Calls,
                        user = None, user' # None, latest = c, calls[c].kind \in SignsIn
                 PROVE  at' = Destination(c)
      OBVIOUS
    <2>1. \E d \in Calls : Receive(d)
      BY DEF Next, vars, idle, Person, Network, Serve, Login, Register, Submit, Logout, Follow,
             Reload, LoadManagementData, LoadProfile, Retry, LoadPage, SaveProfile,
             UpdateWorkerStatus, GenerateCode, RevokeCode, SavePage, ServeSignIn, ServeLogout, ServeWithSession, ServeClear, Lose, LoseClear,
             ReceiveClear, OtherTab, EndSession
    <2> QED
      BY <2>1, DestinationIsShown
  <1> QED
    BY <1>1, PTL DEF Spec, SignInLandsForGood
-----------------------------------------------------------------------------
(* What waits: a page has a load only while it waits for it, and a form    *)
(* that was submitted is one of those that sign in.                        *)
WaitInv ==
    /\ EveryWaitHasItsAnswer
    /\ page.load # None => page.stage = "loading"
    /\ pending # None => at.path \in SignsIn

LEMMA NobodyElse == None \notin Calls /\ None \notin Tokens /\ None \notin Accounts
  BY SignInAssumption

(* Who is signed in is shown no page to sign in on.                        *)
LEMMA GuardsMoveOn ==
  ASSUME NEW place, NEW u, u # None
  PROVE  Guarded(place, u, FALSE).path \notin PublicOnly
  <1>1. getRoleLandingRoute(u) \notin PublicOnly
    BY DEF getRoleLandingRoute, PublicOnly
  <1>2. \A from : getPostLoginRoute(from, u) \notin PublicOnly
    BY <1>1 DEF getPostLoginRoute, isRouteAllowedForRole, ForAll, AdminOnly, WorkerOnly, PublicOnly
  <1>3. CASE place.path \in PublicOnly
    BY <1>2, <1>3 DEF Guarded, PublicOnlyRoute, Place
  <1>4. CASE place.path \notin PublicOnly
    BY <1>1, <1>4 DEF Guarded, RequireRole, Place
  <1> QED
    BY <1>3, <1>4

LEMMA WaitStarts == Init => WaitInv
  <1> SUFFICES ASSUME Init PROVE WaitInv
    OBVIOUS
  <1>1. latest \in Calls /\ calls[latest].kind = "me"
    BY SignInAssumption DEF Init, NoCall
  <1> QED
    BY <1>1 DEF Init, WaitInv, EveryWaitHasItsAnswer, NoPage, Running

(* Steps that leave all kinds of call, and who waits, as they are.         *)
LEMMA WaitKept ==
  ASSUME WaitInv, UNCHANGED <<user, restoring, latest, at, pending, page>>,
         \A c \in Calls : calls'[c].kind = calls[c].kind
  PROVE  WaitInv'
  <1>1. \A kinds : Running(kinds)' = Running(kinds)
    BY DEF Running
  <1> QED
    BY <1>1 DEF WaitInv, EveryWaitHasItsAnswer

LEMMA SendKinds ==
  ASSUME TypeOK, Free # {}, NEW kind, NEW who, NEW from, calls' = Send(kind, who, from)
  PROVE  /\ Fresh \in Calls /\ calls[Fresh] = NoCall /\ calls'[Fresh].kind = kind
         /\ calls'[Fresh].who = who /\ calls'[Fresh].answer = "awaited"
         /\ \A c \in Calls : c # Fresh => calls'[c] = calls[c]
  BY FreshIsFree DEF Send, TypeOK, NoCall

(* A call under way is not the one that is sent next.                      *)
LEMMA RunningIsNotFresh ==
  ASSUME TypeOK, Free # {}, NEW kinds, "none" \notin kinds
  PROVE  Fresh \notin Running(kinds)
  BY FreshIsFree DEF Running, NoCall

LEMMA PersonWaits == ASSUME IInv, WaitInv, Person PROVE WaitInv'
  <1>1. TypeOK
    BY DEF IInv
  <1>2. ASSUME NEW kind \in SignsIn, NEW who, NEW from, Submit(kind, who, from) PROVE WaitInv'
    <2>1. /\ Free # {} /\ calls' = Send(kind, who, from) /\ at.path = kind /\ ~restoring /\ user = None
          /\ pending' = Fresh /\ UNCHANGED <<user, restoring, at, page>>
      BY <1>2 DEF Submit, Room
    <2>2. /\ Fresh \in Calls /\ calls'[Fresh].kind = kind
          /\ Fresh \notin Running({"load"}) /\ Fresh \notin Running(Saves)
          /\ \A c \in Calls : c # Fresh => calls'[c] = calls[c]
      BY <1>1, <2>1, SendKinds, RunningIsNotFresh DEF Saves
    <2>3. Running({"load"}) \subseteq Running({"load"})' /\ Running(Saves) \subseteq Running(Saves)'
      BY <2>2 DEF Running
    <2> QED
      BY <1>2, <2>1, <2>2, <2>3 DEF WaitInv, EveryWaitHasItsAnswer, Running
  <1>3. CASE Logout
    <2>1. /\ Free # {} /\ calls' = Send("logout", None, None) /\ user # None /\ restoring' = FALSE
          /\ Show(at, None, FALSE)
      BY <1>3 DEF Logout, Room
    <2>2. pending = None
      BY <2>1 DEF WaitInv, EveryWaitHasItsAnswer
    <2>3. pending' = None /\ page' \in {page, NoPage}
      BY <2>1, <2>2 DEF Show
    <2>4. /\ Fresh \notin Running({"load"}) /\ Fresh \notin Running(Saves)
          /\ \A c \in Calls : c # Fresh => calls'[c] = calls[c]
      BY <1>1, <2>1, SendKinds, RunningIsNotFresh DEF Saves
    <2>5. Running({"load"}) \subseteq Running({"load"})' /\ Running(Saves) \subseteq Running(Saves)'
      BY <2>4 DEF Running
    <2> QED
      BY <2>1, <2>3, <2>5 DEF WaitInv, EveryWaitHasItsAnswer, NoPage
  <1>4. ASSUME NEW path \in Paths, Follow(path) PROVE WaitInv'
    <2>1. /\ UNCHANGED <<user, restoring, latest, calls>> /\ ~restoring
          /\ at'.path = at.path => page' = page /\ pending' = pending
          /\ at'.path # at.path => page' = NoPage /\ pending' = None
      BY <1>4 DEF Follow, Show, idle
    <2>2. \A kinds : Running(kinds)' = Running(kinds)
      BY <2>1 DEF Running
    <2> QED
      BY <2>1, <2>2 DEF WaitInv, EveryWaitHasItsAnswer, NoPage
  <1>5. ASSUME NEW path \in Paths, Reload(path) PROVE WaitInv'
    <2>1. PICK jar \in {cookie} \cup {CookieAfter(c) : c \in {d \in Calls : Answered(d)}}
                      \cup (IF erasers > 0 THEN {None} ELSE {}),
               me \in {CHOOSE c \in Calls : TRUE} :
            /\ calls' = [c \in Calls |-> IF c # me THEN NoCall
                          ELSE [NoCall EXCEPT !.kind = "me", !.cookie = jar, !.answer = "awaited"]]
            /\ latest' = me /\ page' = NoPage /\ pending' = None
      BY <1>5 DEF Reload
    <2>2. latest' \in Calls /\ calls'[latest'].kind = "me"
      BY <2>1, SignInAssumption DEF NoCall
    <2> QED
      BY <2>1, <2>2 DEF WaitInv, EveryWaitHasItsAnswer, NoPage, Running
  <1>6. ASSUME NEW path, LoadPage(path) PROVE WaitInv'
    <2>1. /\ Free # {} /\ calls' = Send("load", None, path) /\ ~restoring
          /\ page' = [page EXCEPT !.stage = "loading", !.load = Fresh]
          /\ UNCHANGED <<user, restoring, latest, at, pending>>
      BY <1>6 DEF LoadPage, Room, idle
    <2>2. /\ Fresh \in Calls /\ calls'[Fresh].kind = "load"
          /\ Fresh \notin Running({at.path} \cap SignsIn) /\ Fresh \notin Running(Saves)
          /\ \A c \in Calls : c # Fresh => calls'[c] = calls[c]
      BY <1>1, <2>1, SendKinds, RunningIsNotFresh DEF Saves, SignsIn
    <2>3. Running(Saves) \subseteq Running(Saves)' /\ Fresh \in Running({"load"})'
      BY <2>2 DEF Running
    <2>4. /\ page'.stage = "loading" /\ page'.load = Fresh /\ page'.saves = page.saves
      BY <1>1, <2>1 DEF TypeOK
    <2>5. pending' # None => pending' \in Running({at.path})' /\ user' = None /\ at'.path \in SignsIn
      BY <2>1, <2>2 DEF WaitInv, EveryWaitHasItsAnswer, Running
    <2> QED
      BY <2>1, <2>3, <2>4, <2>5 DEF WaitInv, EveryWaitHasItsAnswer
  <1>7. ASSUME NEW path, NEW kind \in Saves, SavePage(path, kind) PROVE WaitInv'
    <2>1. /\ Free # {} /\ calls' = Send(kind, None, path)
          /\ page.stage = "ready" /\ page' = [page EXCEPT !.saves = @ \cup {Fresh}]
          /\ UNCHANGED <<user, restoring, latest, at, pending>>
      BY <1>7 DEF SavePage, Room, idle
    <2>2. /\ Fresh \in Calls /\ calls'[Fresh].kind = kind
          /\ Fresh \notin Running({at.path} \cap SignsIn) /\ Fresh \notin Running(Saves)
          /\ Fresh \notin Running({"me"})
          /\ \A c \in Calls : c # Fresh => calls'[c] = calls[c]
      BY <1>1, <2>1, SendKinds, RunningIsNotFresh DEF Saves, SignsIn
    <2>3. Running(Saves) \cup {Fresh} \subseteq Running(Saves)' /\ Running({"me"}) \subseteq Running({"me"})'
      BY <2>2 DEF Running
    <2>4. /\ page'.stage = "ready" /\ page'.load = page.load /\ page'.saves = page.saves \cup {Fresh}
      BY <1>1, <2>1 DEF TypeOK
    <2>5. pending' # None => pending' \in Running({at.path})' /\ user' = None /\ at'.path \in SignsIn
      BY <2>1, <2>2 DEF WaitInv, EveryWaitHasItsAnswer, Running
    <2> QED
      BY <2>1, <2>3, <2>4, <2>5 DEF WaitInv, EveryWaitHasItsAnswer
  <1>8. CASE SaveProfile \/ UpdateWorkerStatus \/ GenerateCode \/ RevokeCode
    <2>1. \/ SavePage("profile", "profile") \/ SavePage("workers", "status")
          \/ SavePage("workers", "generate") \/ SavePage("workers", "revoke")
      BY <1>8 DEF SaveProfile, UpdateWorkerStatus, GenerateCode, RevokeCode
    <2> QED
      BY <1>7, <2>1 DEF Saves
  <1>9. CASE \E who \in Accounts : Login(who) \/ Register(who)
    BY <1>2, <1>9 DEF Login, Register, SignsIn
  <1>10. CASE LoadManagementData \/ LoadProfile \/ Retry
    BY <1>6, <1>10 DEF LoadManagementData, LoadProfile, Retry
  <1> QED
    BY <1>3, <1>4, <1>5, <1>8, <1>9, <1>10 DEF Person

(* What is answered keeps its kind.                                        *)
LEMMA AnswerKinds ==
  ASSUME TypeOK, NEW c \in Calls, NEW answer, NEW who, NEW token, Answer(c, answer, who, token)
  PROVE  /\ \A d \in Calls : calls'[d].kind = calls[d].kind /\ calls'[d].cookie = calls[d].cookie
         /\ \A d \in Calls : d # c => calls'[d] = calls[d]
         /\ calls'[c].answer = answer /\ calls'[c].who = who /\ calls'[c].token = token
  BY DEF TypeOK, CallType, Answer

LEMMA ReceiveWaits == ASSUME IInv, WaitInv, NEW c \in Calls, Receive(c) PROVE WaitInv'
  <1> DEFINE busy == RestoringAfter(c)
             shown == Guarded(Destination(c), UserAfter(c), busy)
  <1>1. TypeOK /\ c # None
    BY NobodyElse DEF IInv
  <1>2. /\ user' = UserAfter(c) /\ restoring' = busy /\ at' = shown
        /\ page' = IF shown.path = at.path THEN PageAfter(c) ELSE NoPage
        /\ pending' = IF shown.path = at.path /\ pending # c THEN pending ELSE None
        /\ latest' = IF IsSessionError(c) \/ latest = c THEN None ELSE latest
        /\ calls' = [calls EXCEPT ![c] = NoCall]
    BY DEF Receive
  <1>3. \A d \in Calls : d # c => calls'[d] = calls[d]
    BY <1>2 DEF TypeOK
  <1>4. \A kinds : \A d \in Running(kinds) : d # c => d \in Running(kinds)'
    BY <1>3 DEF Running
  <1>5. restoring' => latest' \in Running({"me"})'
    BY <1>2, <1>4 DEF RestoringAfter, WaitInv, EveryWaitHasItsAnswer
  <1>6. pending' # None => pending' \in Running({at.path})' /\ user' = None /\ at'.path \in SignsIn
    <2> SUFFICES ASSUME pending' # None
                 PROVE  pending' \in Running({at.path})' /\ user' = None /\ at'.path \in SignsIn
      OBVIOUS
    <2>1. pending' = pending /\ pending # c /\ at'.path = at.path
      BY <1>2
    <2>2. pending \in Running({at.path}) /\ user = None /\ at.path \in SignsIn
      BY <2>1 DEF WaitInv, EveryWaitHasItsAnswer
    <2>3. user' = None
      <3>1. SUFFICES ASSUME user' # None PROVE FALSE
        OBVIOUS
      <3>2. TakesUser(c)
        BY <1>2, <2>2, <3>1 DEF UserAfter
      <3>3. busy = FALSE
        BY <3>2 DEF TakesUser, RestoringAfter
      <3>4. at'.path \notin PublicOnly
        BY <1>2, <3>1, <3>3, GuardsMoveOn
      <3> QED
        BY <2>1, <2>2, <3>4 DEF PublicOnly, SignsIn
    <2>4. pending \in Calls /\ calls[pending].kind = at.path /\ calls'[pending] = calls[pending]
      BY <1>3, <2>1, <2>2 DEF Running
    <2> QED
      BY <2>1, <2>2, <2>3, <2>4 DEF Running
  <1>7. /\ page'.stage = "loading" => page'.load \in Running({"load"})'
        /\ page'.saves \subseteq Running(Saves)'
        /\ page'.load # None => page'.stage = "loading"
    <2>1. CASE page' = NoPage
      BY <2>1 DEF NoPage
    <2>2. CASE page' = PageAfter(c) /\ page.load = c
      <3>1. page'.load = None /\ page'.stage # "loading" /\ page'.saves = page.saves
        BY <1>1, <2>2 DEF PageAfter, TypeOK
      <3>2. calls[c].kind = "load"
        BY <1>1, <2>2 DEF WaitInv, EveryWaitHasItsAnswer, Running
      <3>3. c \notin page.saves
        BY <3>2 DEF WaitInv, EveryWaitHasItsAnswer, Running, Saves
      <3> QED
        BY <1>4, <3>1, <3>3 DEF WaitInv, EveryWaitHasItsAnswer
    <2>3. CASE page' = PageAfter(c) /\ page.load # c
      <3>1. page'.load = page.load /\ page'.stage = page.stage /\ page'.saves = page.saves \ {c}
        BY <1>1, <2>3 DEF PageAfter, TypeOK
      <3> QED
        BY <1>4, <2>3, <3>1 DEF WaitInv, EveryWaitHasItsAnswer
    <2> QED
      BY <1>2, <2>1, <2>2, <2>3
  <1> QED
    BY <1>5, <1>6, <1>7 DEF WaitInv, EveryWaitHasItsAnswer

LEMMA StepWaits == IInv /\ WaitInv /\ [Next]_vars => WaitInv'
  <1> SUFFICES ASSUME IInv, WaitInv, [Next]_vars PROVE WaitInv'
    OBVIOUS
  <1>1. TypeOK
    BY DEF IInv
  <1>2. ASSUME NEW c \in Calls, Serve(c) \/ Lose(c) PROVE WaitInv'
    <2>1. UNCHANGED <<user, restoring, latest, at, pending, page>>
      BY <1>2 DEF Serve, ServeSignIn, ServeLogout, ServeWithSession, Lose, idle
    <2>2. \E answer, who, token : Answer(c, answer, who, token)
      BY <1>2 DEF Serve, ServeSignIn, ServeLogout, ServeWithSession, Lose
    <2> QED
      BY <1>1, <2>1, <2>2, AnswerKinds, WaitKept
  <1>3. CASE \/ \E k \in Tokens \cup {None} : ServeClear(k)
             \/ LoseClear \/ ReceiveClear \/ OtherTab \/ \E t \in Tokens : EndSession(t)
             \/ UNCHANGED vars
    <2>1. UNCHANGED <<user, restoring, latest, at, pending, page, calls>>
      BY <1>3 DEF ServeClear, LoseClear, ReceiveClear, OtherTab, EndSession, vars
    <2> QED
      BY <2>1, WaitKept
  <1>4. CASE Person
    BY <1>4, PersonWaits
  <1>5. CASE Network
    BY <1>2, <1>3, <1>5, ReceiveWaits DEF Network
  <1> QED
    BY <1>3, <1>4, <1>5 DEF Next

(* Nobody waits for an answer that cannot come: the session check, a form  *)
(* that was submitted, a page that loads and every save have their call    *)
(* under way, however many there are and whichever is answered first       *)
(* (AuthProvider.tsx:104).                                                 *)
THEOREM WaitsAreAnswered == Spec => []EveryWaitHasItsAnswer
  <1>1. IInv /\ WaitInv /\ [Next]_vars => (IInv /\ WaitInv)'
    BY StepKeeps, StepWaits
  <1>2. IInv /\ WaitInv => EveryWaitHasItsAnswer
    BY DEF WaitInv
  <1> QED
    BY <1>1, <1>2, InitHolds, WaitStarts, PTL DEF Spec
-----------------------------------------------------------------------------
(* The cookie and the user, while no calls have overlapped: at most one    *)
(* operation is under way, alone, beside nobody signed in, and what its    *)
(* answer brings agrees with it.                                           *)
Agreed == IF user = None THEN cookie = None
          ELSE cookie # None /\ sessions[cookie] \in {user, None}

Brings(c) ==
    /\ user = None /\ latest = c /\ calls[c].answer # "lost"
    /\ calls[c].kind \in SignsIn =>
         /\ cookie = None
         /\ calls[c].answer = "awaited" => calls[c].who # None
         /\ calls[c].answer = "ok" => /\ calls[c].who # None /\ calls[c].token # None
                                      /\ sessions[calls[c].token] \in {calls[c].who, None}
    /\ calls[c].kind = "me" =>
         /\ calls[c].cookie = cookie /\ calls[c].answer # "refused"
         /\ calls[c].answer = "ok" => /\ calls[c].who # None /\ cookie # None
                                      /\ sessions[cookie] \in {calls[c].who, None}

AgreeInv ==
    ~astray =>
        /\ \A c, d \in Running(Changing) : c = d
        /\ Clearing # {} \/ erasers > 0 => Running(Changing) = {} /\ user = None
        /\ Quiet => Agreed
        /\ \A c \in Running(Changing) : Brings(c)

(* Sessions may end, and calls that change nobody come and go.             *)
LEMMA AgreeKept ==
  ASSUME IInv, AgreeInv, UNCHANGED <<cookie, user, latest, clears, erasers>>,
         astray => astray',
         \A t \in Tokens : sessions'[t] \in {sessions[t], None},
         \A c \in Calls : \/ calls'[c] = calls[c]
                          \/ calls[c].kind \notin Changing /\ calls'[c].kind \notin Changing
  PROVE  AgreeInv'
  <1> SUFFICES ASSUME ~astray' PROVE AgreeInv'
    BY DEF AgreeInv
  <1>1. /\ ~astray /\ Running(Changing)' = Running(Changing)
        /\ \A c \in Running(Changing) : calls'[c] = calls[c]
    BY DEF Running
  <1>2. Clearing' = Clearing /\ Quiet' = Quiet
    BY <1>1 DEF Clearing, Quiet
  <1>3. /\ cookie # None => cookie \in Tokens
        /\ \A c \in Calls : calls[c].token # None => calls[c].token \in Tokens
    BY DEF IInv, TypeOK, CallType
  <1>4. Agreed => Agreed'
    BY <1>3 DEF Agreed
  <1>5. ASSUME NEW c \in Running(Changing) PROVE Brings(c)'
    <2>1. Brings(c) /\ calls'[c] = calls[c] /\ c \in Calls
      BY <1>1, <1>5 DEF AgreeInv, Running
    <2> QED
      BY <1>3, <2>1 DEF Brings
  <1> QED
    BY <1>1, <1>2, <1>4, <1>5 DEF AgreeInv

LEMMA AgreeStarts == Init => AgreeInv
  <1> SUFFICES ASSUME Init PROVE AgreeInv
    OBVIOUS
  <1> PICK path \in Paths, owner \in Accounts \cup {None}, c \in {CHOOSE c \in Calls : TRUE},
           k \in {None, CHOOSE t \in Tokens : TRUE} :
           /\ sessions = [t \in Tokens |-> IF t = k THEN owner ELSE None]
           /\ cookie = k
           /\ calls = [d \in Calls |-> IF d # c THEN NoCall
                        ELSE [NoCall EXCEPT !.kind = "me", !.cookie = k, !.answer = "awaited"]]
           /\ latest = c
           /\ at = Place(path, None)
    BY DEF Init
  <1>1. c \in Calls
    BY SignInAssumption
  <1>2. /\ calls[c].kind = "me" /\ calls[c].answer = "awaited" /\ calls[c].cookie = cookie
        /\ \A d \in Calls : d # c => calls[d].kind = "none"
    BY <1>1 DEF NoCall
  <1>3. Running(Changing) = {c}
    BY <1>1, <1>2 DEF Running, Changing, SignsIn
  <1>4. Brings(c)
    BY <1>2 DEF Brings, Init, SignsIn
  <1>5. Clearing = {} /\ erasers = 0
    BY DEF Init, Clearing
  <1> QED
    BY <1>3, <1>4, <1>5 DEF AgreeInv, Quiet

LEMMA OperationAgrees ==
  ASSUME IInv, AgreeInv,
         (\E who \in Accounts : Login(who) \/ Register(who)) \/ Logout
  PROVE  AgreeInv'
  <1> SUFFICES ASSUME ~astray' PROVE AgreeInv'
    BY DEF AgreeInv
  <1>1. TypeOK
    BY DEF IInv
  <1>2. PICK kind \in SignsIn \cup {"logout"}, who \in Accounts \cup {None},
                from \in AllPaths \cup {None} :
          /\ Free # {} /\ calls' = Send(kind, who, from)
          /\ kind \in SignsIn => user = None /\ who # None /\ astray' = (astray \/ ~Quiet)
          /\ kind = "logout" => user # None /\ astray' = (astray \/ Running(SignsIn \cup {"me"}) # {})
          /\ latest' = Fresh /\ user' = None
          /\ UNCHANGED <<sessions, cookie, clears, erasers>>
    <2>1. CASE Logout
      <3>1. /\ Free # {} /\ calls' = Send("logout", None, None)
            /\ user # None /\ astray' = (astray \/ Running(SignsIn \cup {"me"}) # {})
            /\ latest' = Fresh /\ user' = None
            /\ UNCHANGED <<sessions, cookie, clears, erasers>>
        BY <2>1 DEF Logout, Room, Overtakes
      <3> QED
        BY <3>1 DEF SignsIn
    <2>2. CASE \E who \in Accounts : Login(who) \/ Register(who)
      <3>1. PICK kind \in SignsIn, who \in Accounts, from \in AllPaths \cup {None} :
                 Submit(kind, who, from)
        BY <1>1, <2>2 DEF Login, Register, SignsIn, TypeOK
      <3>2. who # None
        BY NobodyElse
      <3> QED
        BY <3>1, <3>2 DEF Submit, Room, Overtakes, SignsIn
    <2> QED
      BY <2>1, <2>2
  <1>3. ~astray
    BY <1>2 DEF SignsIn
  <1>4. Quiet
    <2>1. CASE kind \in SignsIn
      BY <1>2, <2>1
    <2>2. CASE kind = "logout"
      <3>1. user # None
        BY <1>2, <2>2
      <3>2. Running(Changing) = {}
        BY <1>3, <3>1 DEF AgreeInv, Brings
      <3>3. Clearing = {} /\ ~(erasers > 0)
        BY <1>3, <3>1 DEF AgreeInv
      <3>4. erasers = 0
        BY <1>1, <3>3 DEF TypeOK
      <3> QED
        BY <3>2, <3>3, <3>4 DEF Quiet
    <2> QED
      BY <2>1, <2>2
  <1>5. PICK f \in Calls :
          /\ latest' = f /\ calls'[f].kind = kind /\ calls'[f].who = who
          /\ calls'[f].answer = "awaited" /\ \A c \in Calls : c # f => calls'[c] = calls[c]
    BY <1>1, <1>2, SendKinds
  <1>6. Running(Changing)' = {f}
    BY <1>4, <1>5 DEF Running, Quiet, Changing
  <1>7. Brings(f)'
    <2>1. kind \in SignsIn => cookie = None
      BY <1>2, <1>3, <1>4 DEF AgreeInv, Agreed
    <2>2. kind # "me"
      BY DEF SignsIn
    <2>3. /\ latest' = f /\ user' = None /\ cookie' = cookie
          /\ kind \in SignsIn => who # None
      BY <1>2, <1>5
    <2> QED
      BY <1>5, <2>1, <2>2, <2>3 DEF Brings
  <1>8. Clearing' = {} /\ erasers' = 0
    BY <1>2, <1>4 DEF Quiet, Clearing
  <1>9. ~Quiet'
    BY <1>6 DEF Quiet
  <1> QED
    BY <1>6, <1>7, <1>8, <1>9 DEF AgreeInv

LEMMA ReloadAgrees == ASSUME IInv, NEW path \in Paths, Reload(path) PROVE AgreeInv'
  <1>1. TypeOK
    BY DEF IInv
  <1>2. PICK jar \in {cookie} \cup {CookieAfter(c) : c \in {d \in Calls : Answered(d)}}
                    \cup (IF erasers > 0 THEN {None} ELSE {}),
             me \in {CHOOSE c \in Calls : TRUE} :
          /\ cookie' = jar
          /\ calls' = [c \in Calls |-> IF c # me THEN NoCall
                        ELSE [NoCall EXCEPT !.kind = "me", !.cookie = jar, !.answer = "awaited"]]
          /\ latest' = me /\ user' = None
          /\ clears' = [k \in DOMAIN clears |-> 0] /\ erasers' = 0
    BY DEF Reload
  <1>3. me \in Calls
    BY SignInAssumption
  <1>4. /\ calls'[me].kind = "me" /\ calls'[me].answer = "awaited" /\ calls'[me].cookie = cookie'
        /\ \A d \in Calls : d # me => calls'[d].kind = "none"
    BY <1>2, <1>3 DEF NoCall
  <1>5. Running(Changing)' = {me}
    BY <1>3, <1>4 DEF Running, Changing, SignsIn
  <1>6. Brings(me)'
    BY <1>2, <1>4 DEF Brings, SignsIn
  <1>7. Clearing' = {} /\ erasers' = 0
    BY <1>1, <1>2 DEF Clearing, TypeOK
  <1> QED
    BY <1>5, <1>6, <1>7 DEF AgreeInv, Quiet

LEMMA PersonAgrees == ASSUME IInv, AgreeInv, Person PROVE AgreeInv'
  <1>1. TypeOK
    BY DEF IInv
  <1>2. ASSUME NEW kind \in {"load"} \cup Saves, NEW path, Free # {}, calls' = Send(kind, None, path),
               UNCHANGED <<idle, astray>>
        PROVE  AgreeInv'
    <2>1. \A c \in Calls : \/ calls'[c] = calls[c]
                           \/ calls[c].kind \notin Changing /\ calls'[c].kind \notin Changing
      BY <1>1, <1>2, SendKinds DEF NoCall, Changing, SignsIn, Saves
    <2> QED
      BY <1>2, <2>1, AgreeKept DEF idle
  <1>3. ASSUME NEW path, LoadPage(path) PROVE AgreeInv'
    BY <1>2, <1>3 DEF LoadPage, Room
  <1>4. ASSUME NEW path, NEW kind \in Saves, SavePage(path, kind) PROVE AgreeInv'
    BY <1>2, <1>4 DEF SavePage, Room
  <1>5. CASE SaveProfile \/ UpdateWorkerStatus \/ GenerateCode \/ RevokeCode
    <2>1. \/ SavePage("profile", "profile") \/ SavePage("workers", "status")
          \/ SavePage("workers", "generate") \/ SavePage("workers", "revoke")
      BY <1>5 DEF SaveProfile, UpdateWorkerStatus, GenerateCode, RevokeCode
    <2> QED
      BY <1>4, <2>1 DEF Saves
  <1>6. CASE LoadManagementData \/ LoadProfile \/ Retry
    BY <1>3, <1>6 DEF LoadManagementData, LoadProfile, Retry
  <1>7. ASSUME NEW path \in Paths, Follow(path) PROVE AgreeInv'
    <2>1. UNCHANGED <<idle, calls, astray>>
      BY <1>7 DEF Follow
    <2> QED
      BY <2>1, AgreeKept DEF idle
  <1> QED
    BY <1>5, <1>6, <1>7, OperationAgrees, ReloadAgrees DEF Person

(* The server answers.                                                     *)
LEMMA ServeAgrees ==
  ASSUME IInv, AgreeInv, NEW c \in Calls, Serve(c)
  PROVE  AgreeInv'
  <1> SUFFICES ASSUME ~astray' PROVE AgreeInv'
    BY DEF AgreeInv
  <1>1. TypeOK /\ None \notin Tokens
    BY NobodyElse DEF IInv
  <1>2. UNCHANGED <<cookie, user, latest, clears, erasers, astray>> /\ ~astray
    BY DEF Serve, ServeSignIn, ServeLogout, ServeWithSession, idle
  <1>3. calls[c].kind \in Changing \cup UnderSession /\ calls[c].answer = "awaited"
    BY DEF Serve, ServeSignIn, ServeLogout, ServeWithSession, Changing
  <1>4. PICK answer, who, token : Answer(c, answer, who, token)
    BY DEF Serve, ServeSignIn, ServeLogout, ServeWithSession
  <1>5. /\ \A d \in Calls : calls'[d].kind = calls[d].kind /\ calls'[d].cookie = calls[d].cookie
        /\ \A d \in Calls : d # c => calls'[d] = calls[d]
        /\ calls'[c].answer = answer /\ calls'[c].who = who /\ calls'[c].token = token
    BY <1>1, <1>4, AnswerKinds
  <1>6. CASE calls[c].kind \notin Changing
    <2>1. sessions' = sessions
      BY <1>6 DEF Serve, ServeSignIn, ServeLogout, ServeWithSession, idle, Changing
    <2> QED
      BY <1>2, <1>5, <1>6, <2>1, AgreeKept
  <1>7. CASE calls[c].kind \in Changing
    <2>1. Running(Changing) = {c}
      BY <1>2, <1>7 DEF AgreeInv, Running
    <2>2. Running(Changing)' = {c}
      BY <1>5, <2>1 DEF Running
    <2>3. Clearing' = {} /\ ~(erasers' > 0) /\ ~Quiet'
      <3>1. Clearing = {} /\ ~(erasers > 0)
        BY <1>2, <2>1 DEF AgreeInv
      <3> QED
        BY <1>2, <2>2, <3>1 DEF Clearing, Quiet
    <2>4. Brings(c)
      BY <1>2, <2>1 DEF AgreeInv
    <2>5. Brings(c)'
      <3>1. CASE ServeSignIn(c)
        <4> DEFINE kept == IF calls[c].kind = "login" THEN Revoked(calls[c].cookie) ELSE sessions
        <4>1. calls[c].kind \in SignsIn /\ calls'[c].kind = calls[c].kind /\ calls[c].kind # "me"
          BY <1>5, <3>1 DEF ServeSignIn, SignsIn
        <4>2. cookie' = None /\ user' = None /\ latest' = c /\ calls[c].who # None
          BY <1>2, <1>3, <2>4, <4>1 DEF Brings
        <4>3. \/ /\ Unused # {}
                 /\ LET t == CHOOSE t \in Unused : TRUE
                    IN /\ sessions' = [kept EXCEPT ![t] = calls[c].who]
                       /\ Answer(c, "ok", calls[c].who, t)
              \/ Answer(c, "refused", None, None)
              \/ Answer(c, "inactive_account", None, None)
          BY <3>1 DEF ServeSignIn
        <4>4. CASE /\ Unused # {}
                   /\ LET t == CHOOSE t \in Unused : TRUE
                      IN /\ sessions' = [kept EXCEPT ![t] = calls[c].who]
                         /\ Answer(c, "ok", calls[c].who, t)
          <5>1. PICK t \in Tokens : /\ sessions' = [kept EXCEPT ![t] = calls[c].who]
                                    /\ Answer(c, "ok", calls[c].who, t)
            BY <4>4 DEF Unused
          <5>2. kept \in [Tokens -> Accounts \cup {None}]
            BY <1>1, RevokedType DEF TypeOK
          <5>3. sessions'[t] = calls[c].who
            BY <5>1, <5>2
          <5>4. calls'[c].answer = "ok" /\ calls'[c].who = calls[c].who /\ calls'[c].token = t
            BY <1>1, <5>1, AnswerKinds
          <5> QED
            BY <1>1, <4>1, <4>2, <5>3, <5>4 DEF Brings
        <4>5. CASE Answer(c, "refused", None, None) \/ Answer(c, "inactive_account", None, None)
          <5>1. calls'[c].answer \in {"refused", "inactive_account"}
            BY <1>1, <4>5, AnswerKinds
          <5> QED
            BY <4>1, <4>2, <5>1 DEF Brings
        <4> QED
          BY <4>3, <4>4, <4>5
      <3>2. CASE ServeLogout(c)
        <4>1. calls'[c].kind = "logout" /\ Answer(c, "ok", None, None)
          BY <1>5, <3>2 DEF ServeLogout
        <4>2. calls'[c].answer = "ok"
          BY <1>1, <4>1, AnswerKinds
        <4> QED
          BY <1>2, <2>4, <4>1, <4>2 DEF Brings, SignsIn
      <3>3. CASE ServeWithSession(c)
        <4>1. calls[c].kind = "me" /\ calls'[c].kind = "me" /\ sessions' = sessions
          BY <1>5, <1>7, <3>3 DEF ServeWithSession, UnderSession, Saves, Changing, SignsIn, idle
        <4>2. calls[c].cookie = cookie /\ calls'[c].cookie = cookie
          BY <1>5, <2>4, <4>1 DEF Brings
        <4>3. \/ calls'[c].answer \in {"unauthenticated", "session_expired"}
              \/ /\ calls'[c].answer = "ok" /\ cookie # None /\ sessions[cookie] # None
                 /\ calls'[c].who = sessions[cookie]
          BY <1>1, <3>3, <4>2, AnswerKinds DEF ServeWithSession
        <4> QED
          BY <1>2, <2>4, <4>1, <4>2, <4>3 DEF Brings, SignsIn
      <3> QED
        BY <3>1, <3>2, <3>3 DEF Serve
    <2> QED
      BY <2>2, <2>3, <2>5 DEF AgreeInv
  <1> QED
    BY <1>6, <1>7

LEMMA LoseAgrees == ASSUME IInv, AgreeInv, NEW c \in Calls, Lose(c) PROVE AgreeInv'
  <1> SUFFICES ASSUME ~astray' PROVE AgreeInv'
    BY DEF AgreeInv
  <1>1. calls[c].kind \notin Changing /\ UNCHANGED idle /\ Answer(c, "lost", None, None) /\ ~astray
    BY DEF Lose
  <1>2. \A d \in Calls : \/ calls'[d] = calls[d]
                         \/ calls[d].kind \notin Changing /\ calls'[d].kind \notin Changing
    BY <1>1, AnswerKinds DEF IInv
  <1> QED
    BY <1>1, <1>2, AgreeKept DEF idle

(* Logouts that clear a session: nobody is signed in until the last is in. *)
LEMMA ClearsAgree ==
  ASSUME IInv, AgreeInv,
         \/ \E k \in Tokens \cup {None} : ServeClear(k)
         \/ LoseClear \/ ReceiveClear \/ OtherTab
         \/ \E t \in Tokens : EndSession(t)
  PROVE  AgreeInv'
  <1> SUFFICES ASSUME ~astray' PROVE AgreeInv'
    BY DEF AgreeInv
  <1>1. TypeOK
    BY DEF IInv
  <1>2. ASSUME NEW k \in Tokens \cup {None}, ServeClear(k) PROVE AgreeInv'
    <2>1. k \in Clearing /\ UNCHANGED <<user, latest, calls, astray>> /\ erasers' = erasers + 1
      BY <1>2 DEF ServeClear, Clearing
    <2>2. Running(Changing) = {} /\ user = None
      BY <2>1 DEF AgreeInv
    <2>3. Running(Changing)' = {} /\ user' = None
      BY <2>1, <2>2 DEF Running
    <2>4. erasers' # 0
      BY <1>1, <2>1 DEF TypeOK
    <2> QED
      BY <2>3, <2>4 DEF AgreeInv, Quiet
  <1>3. CASE LoseClear \/ OtherTab
    BY <1>3 DEF LoseClear, OtherTab
  <1>4. CASE ReceiveClear
    <2>1. erasers > 0 /\ cookie' = None /\ UNCHANGED <<user, latest, calls, astray>>
      BY <1>4 DEF ReceiveClear
    <2>2. Running(Changing) = {} /\ user = None
      BY <2>1 DEF AgreeInv
    <2>3. Running(Changing)' = {} /\ user' = None
      BY <2>1, <2>2 DEF Running
    <2> QED
      BY <2>1, <2>3 DEF AgreeInv, Agreed
  <1>5. ASSUME NEW t \in Tokens, EndSession(t) PROVE AgreeInv'
    <2>1. /\ sessions' = [sessions EXCEPT ![t] = None]
          /\ UNCHANGED <<cookie, user, latest, clears, erasers, calls, astray>>
      BY <1>5 DEF EndSession
    <2>2. \A k \in Tokens : sessions'[k] \in {sessions[k], None}
      BY <1>1, <2>1 DEF TypeOK
    <2> QED
      BY <2>1, <2>2, AgreeKept
  <1> QED
    BY <1>2, <1>3, <1>4, <1>5

(* The answer of the one operation under way brings a user and a cookie    *)
(* that agree; one that says a session is over signs out, and has the      *)
(* cookie cleared.                                                         *)
LEMMA ReceiveAgrees == ASSUME IInv, AgreeInv, NEW c \in Calls, Receive(c) PROVE AgreeInv'
  <1> SUFFICES ASSUME ~astray' PROVE AgreeInv'
    BY DEF AgreeInv
  <1> DEFINE jar == CookieAfter(c)
  <1>1. TypeOK /\ None \notin Calls
    BY NobodyElse DEF IInv
  <1>2. /\ cookie' = jar /\ user' = UserAfter(c) /\ Answered(c)
        /\ clears' = [clears EXCEPT ![jar] = @ + ClearsSent(c)]
        /\ astray' = (astray \/ (IsSessionError(c) /\ Running(Changing) \ {c} # {}))
        /\ latest' = IF IsSessionError(c) \/ latest = c THEN None ELSE latest
        /\ calls' = [calls EXCEPT ![c] = NoCall]
        /\ UNCHANGED <<sessions, erasers>>
    BY DEF Receive
  <1>3. ~astray /\ (IsSessionError(c) => Running(Changing) \subseteq {c})
    BY <1>2
  <1>4. calls'[c].kind = "none" /\ \A d \in Calls : d # c => calls'[d] = calls[d]
    BY <1>1, <1>2 DEF TypeOK, NoCall
  <1>5. Running(Changing)' = Running(Changing) \ {c}
    BY <1>4 DEF Running, Changing, SignsIn
  <1>6. jar \in Tokens \cup {None} /\ DOMAIN clears = Tokens \cup {None}
    BY <1>1 DEF CookieAfter, TypeOK, CallType
  <1>7. CASE IsSessionError(c)
    <2>1. Running(Changing)' = {} /\ user' = None
      BY <1>2, <1>3, <1>5, <1>7 DEF UserAfter
    <2>2. clears'[jar] > 0
      <3>1. ClearsSent(c) \in {1, 2} /\ clears[jar] \in Nat
        BY <1>1, <1>6, <1>7 DEF ClearsSent, TypeOK
      <3>2. clears'[jar] = clears[jar] + ClearsSent(c)
        BY <1>2, <1>6
      <3> QED
        BY <3>1, <3>2
    <2>3. ~Quiet'
      BY <1>6, <2>2 DEF Quiet, Clearing
    <2> QED
      BY <2>1, <2>3 DEF AgreeInv
  <1>8. CASE ~IsSessionError(c)
    <2>1. Clearing' = Clearing
      <3>1. clears[jar] + 0 = clears[jar] /\ clears \in [Tokens \cup {None} -> Nat]
        BY <1>1, <1>6 DEF TypeOK
      <3>2. clears' = clears
        BY <1>2, <1>6, <1>8, <3>1 DEF ClearsSent
      <3> QED
        BY <3>2 DEF Clearing
    <2>2. CASE calls[c].kind \notin Changing
      <3>1. cookie' = cookie /\ user' = user
        BY <1>2, <1>8, <2>2 DEF CookieAfter, UserAfter, TakesUser, Changing, SignsIn
      <3>2. Running(Changing)' = Running(Changing)
        BY <1>5, <2>2 DEF Running
      <3>3. \A d \in Running(Changing) : Brings(d)'
        <4>1. ASSUME NEW d \in Running(Changing) PROVE Brings(d)'
          <5>1. Brings(d) /\ d # c /\ d \in Calls
            BY <1>3, <2>2 DEF AgreeInv, Running
          <5>2. calls'[d] = calls[d] /\ latest' = latest /\ sessions' = sessions
            BY <1>2, <1>4, <1>8, <5>1 DEF Brings
          <5> QED
            BY <3>1, <5>1, <5>2 DEF Brings
        <4> QED
          BY <4>1
      <3>4. Agreed' = Agreed /\ Quiet' = Quiet
        BY <1>2, <2>1, <3>1, <3>2 DEF Agreed, Quiet
      <3> QED
        BY <1>2, <1>3, <2>1, <3>1, <3>2, <3>3, <3>4 DEF AgreeInv
    <2>3. CASE calls[c].kind \in Changing
      <3>1. c \in Running(Changing) /\ Brings(c)
        BY <1>3, <2>3 DEF AgreeInv, Running
      <3>2. Running(Changing)' = {}
        BY <1>3, <1>5, <3>1 DEF AgreeInv
      <3>3. Clearing' = {} /\ ~(erasers' > 0)
        BY <1>2, <1>3, <2>1, <3>1 DEF AgreeInv
      <3>4. latest = c /\ user = None /\ calls[c].answer # "lost"
        BY <3>1 DEF Brings
      <3>5. calls[c].answer \in {"ok", "refused"}
        BY <1>1, <1>2, <1>8, <3>4 DEF Answered, IsSessionError, TypeOK, CallType
      <3>6. Agreed'
        <4>1. CASE calls[c].kind \in SignsIn
          <5>1. calls[c].kind \notin {"me", "logout"}
            BY <4>1 DEF SignsIn
          <5>2. CASE calls[c].answer = "ok"
            <6>1. user' = calls[c].who /\ cookie' = calls[c].token
              BY <1>2, <1>8, <3>4, <4>1, <5>1, <5>2 DEF UserAfter, TakesUser, CookieAfter
            <6> QED
              BY <1>2, <3>1, <4>1, <5>2, <6>1 DEF Brings, Agreed
          <5>3. CASE calls[c].answer = "refused"
            <6>1. user' = None /\ cookie' = cookie
              BY <1>2, <1>8, <3>4, <4>1, <5>1, <5>3 DEF UserAfter, TakesUser, CookieAfter
            <6> QED
              BY <3>1, <4>1, <6>1 DEF Brings, Agreed
          <5> QED
            BY <3>5, <5>2, <5>3
        <4>2. CASE calls[c].kind = "me"
          <5>1. calls[c].answer = "ok"
            BY <3>1, <3>5, <4>2 DEF Brings
          <5>2. user' = calls[c].who /\ cookie' = cookie
            BY <1>2, <1>8, <3>4, <4>2, <5>1 DEF UserAfter, TakesUser, CookieAfter, SignsIn
          <5> QED
            BY <1>2, <3>1, <4>2, <5>1, <5>2 DEF Brings, Agreed
        <4>3. CASE calls[c].kind = "logout"
          <5>1. user' = None /\ cookie' = None
            BY <1>2, <1>8, <3>4, <4>3 DEF UserAfter, TakesUser, CookieAfter, SignsIn
          <5> QED
            BY <5>1 DEF Agreed
        <4> QED
          BY <2>3, <4>1, <4>2, <4>3 DEF Changing
      <3> QED
        BY <3>2, <3>3, <3>6 DEF AgreeInv
    <2> QED
      BY <2>2, <2>3
  <1> QED
    BY <1>7, <1>8

LEMMA StepAgrees == IInv /\ AgreeInv /\ [Next]_vars => AgreeInv'
  <1> SUFFICES ASSUME IInv, AgreeInv, [Next]_vars PROVE AgreeInv'
    OBVIOUS
  <1>1. CASE Network
    BY <1>1, ServeAgrees, LoseAgrees, ReceiveAgrees, ClearsAgree DEF Network
  <1>2. CASE OtherTab \/ \E t \in Tokens : EndSession(t)
    BY <1>2, ClearsAgree
  <1>3. CASE UNCHANGED vars
    BY <1>3, AgreeKept DEF vars
  <1> QED
    BY <1>1, <1>2, <1>3, PersonAgrees DEF Next

(* Where no calls overlapped and no answer was lost, a browser at rest and *)
(* the server agree: a user has the cookie of a session of their own, or   *)
(* of one that has ended since, and nobody signed in means no cookie, for  *)
(* any people, sessions and acts (AuthProvider's clearServiceSession).     *)
THEOREM BrowserAgrees == Spec => []BrowserAgreesWithServer
  <1>1. IInv /\ AgreeInv /\ [Next]_vars => (IInv /\ AgreeInv)'
    BY StepKeeps, StepAgrees
  <1>2. AgreeInv => BrowserAgreesWithServer
    BY DEF AgreeInv, Agreed, BrowserAgreesWithServer
  <1> QED
    BY <1>1, <1>2, InitHolds, AgreeStarts, PTL DEF Spec
=============================================================================
