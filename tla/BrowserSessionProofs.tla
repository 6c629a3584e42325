------------------------ MODULE BrowserSessionProofs ------------------------
(***************************************************************************)
(* What the browsers do to the sessions is something RefreshTokens allows, *)
(* so that its invariants hold behind cookie jars too; and, however many   *)
(* requests overlap, what a logout ends and what sets off the alarm.       *)
(***************************************************************************)
EXTENDS BrowserSession, RefreshTokensSerialProofs

-----------------------------------------------------------------------------
(* A jar holds a token that a response delivered, or nothing; without that
   a browser could present a token that no client of RefreshTokens has.
   About: _set_auth_cookies, auth.py:36-42.                                *)
JarsOK ==
    /\ jar \in [Browsers -> held \cup {0}]
    /\ client \in [Requests -> Browsers \cup {None}]

(* A request gets a client, or loses it.                                   *)
LEMMA ClientsTyped ==
  ASSUME JarsOK, NEW r \in Requests, NEW b \in Browsers \cup {None},
         client' = [client EXCEPT ![r] = b]
  PROVE  client' \in [Requests -> Browsers \cup {None}]
  BY DEF JarsOK

(* A response puts the token that it carries into the jar of its client.   *)
LEMMA JarsFilled ==
  ASSUME JarsOK, NEW r \in Requests, NEW c \in held' \cup {0},
         held \subseteq held', Deliver(r, c)
  PROVE  jar' \in [Browsers -> held' \cup {0}]
<1>1. client[r] \in Browsers \cup {None}
  BY DEF JarsOK
<1>2. CASE client[r] = None
  BY <1>2 DEF JarsOK, Deliver
<1>3. CASE client[r] \in Browsers /\ client[r] # None
  BY <1>3 DEF JarsOK, Deliver
<1> QED  BY <1>1, <1>2, <1>3

(* What a browser keeps after a logout is what it had, or nothing.         *)
LEMMA LogoutKeepsOrEmpties ==
  ASSUME JarsOK, NEW b \in Browsers
  PROVE  AfterLogout(b) \in held \cup {0}
  BY DEF JarsOK, AfterLogout

-----------------------------------------------------------------------------
(* One lemma per kind of step: it keeps the jars good, and to RefreshTokens
   it is an arrival, a continuation, a crash or nothing.                   *)

(* About: login, refresh and logout of auth.py, called by a browser.       *)
LEMMA StepBrowserArrives ==
  ASSUME JarsOK, NEW r \in Requests, NEW b \in Browsers, BrowserArrive(r, b)
  PROVE  JarsOK' /\ (Arrive(r) \/ UNCHANGED vars)
<1>1. jar[b] # 0 => jar[b] \in held
  BY DEF JarsOK
<1>2. CASE \E u \in Users, p \in Passwords : BrowserLogin(r, b, u, p)
  <2>1. Arrive(r) /\ held' = held /\ jar' = jar
        /\ client' = [client EXCEPT ![r] = b]
    BY <1>2 DEF BrowserLogin, Sends, Arrive, LoginRead
  <2> QED  BY <2>1, ClientsTyped DEF JarsOK
<1>3. CASE BrowserRefresh(r, b)
  <2>1. Arrive(r) /\ held' = held /\ jar' = jar
        /\ client' = [client EXCEPT ![r] = b]
    BY <1>1, <1>3 DEF BrowserRefresh, Sends, Arrive, RefreshRead
  <2> QED  BY <2>1, ClientsTyped DEF JarsOK
<1>4. CASE BrowserReuse(r, b)
  <2>1. Arrive(r) /\ held' = held /\ jar' = jar /\ client' = client
    BY <1>1, <1>4 DEF BrowserReuse, Arrive, RefreshReuse
  <2> QED  BY <2>1 DEF JarsOK
<1>5. CASE BrowserLogout(r, b)
  <2>1. Arrive(r) /\ held' = held /\ jar' = jar
        /\ client' = [client EXCEPT ![r] = b]
    BY <1>1, <1>5 DEF BrowserLogout, Sends, Arrive, LogoutRead
  <2> QED  BY <2>1, ClientsTyped DEF JarsOK
<1>6. CASE BrowserLogoutUnread(r, b)
  <2>1. /\ UNCHANGED vars
        /\ held' = held /\ client' = client
        /\ jar' = jar \/ jar' = [jar EXCEPT ![b] = AfterLogout(b)]
    BY <1>6 DEF BrowserLogoutUnread, LogoutAnswered, vars
  <2> QED  BY <2>1, LogoutKeepsOrEmpties DEF JarsOK
<1> QED  BY <1>2, <1>3, <1>4, <1>5, <1>6 DEF BrowserArrive

(* About: the same handlers called by another holder of a token, and
   forgot-password and reset-password.                                     *)
LEMMA StepOtherArrives ==
  ASSUME JarsOK, NEW r \in Requests, OtherArrive(r)
  PROVE  JarsOK' /\ Arrive(r)
<1>1. CASE \E t \in held : OtherPresents(r, t)
  <2>1. PICK t \in held : OtherPresents(r, t)
    BY <1>1
  <2>2. Arrive(r) /\ held' = held /\ jar' = jar
        /\ client' = [client EXCEPT ![r] = None]
    BY <2>1 DEF OtherPresents, Arrive, RefreshRead, RefreshReuse, LogoutRead
  <2> QED  BY <2>2, ClientsTyped DEF JarsOK
<1>2. CASE /\ \/ \E u \in Users : RequestReset(r, u)
              \/ \E k \in mailed, p \in Passwords : ResetRead(r, k, p)
           /\ UNCHANGED browserVars
  <2>1. Arrive(r) /\ held' = held /\ jar' = jar /\ client' = client
    BY <1>2 DEF Arrive, RequestReset, ResetRead, browserVars
  <2> QED  BY <2>1 DEF JarsOK
<1> QED  BY <1>1, <1>2 DEF OtherArrive

(* About: _set_auth_cookies and delete_cookie at the end of a handler.     *)
LEMMA StepBrowserContinues ==
  ASSUME JarsOK, NEW r \in Requests, BrowserContinue(r)
  PROVE  JarsOK' /\ Continue(r)
<1>1. CASE BrowserRespond(r)
  <2>1. /\ Continue(r) /\ held' = held \cup {req[r].row}
        /\ Deliver(r, req[r].row)
        /\ client' = [client EXCEPT ![r] = None]
    BY <1>1 DEF BrowserRespond, Respond, HangUp, Continue
  <2>2. jar' \in [Browsers -> held' \cup {0}]
    BY <2>1, JarsFilled
  <2> QED  BY <2>1, <2>2, ClientsTyped DEF JarsOK
<1>2. CASE BrowserLogoutCommit(r)
  <2>1. /\ Continue(r) /\ held' = held
        /\ client' = [client EXCEPT ![r] = None]
        /\ \/ jar' = jar
           \/ /\ client[r] # None
              /\ jar' = [jar EXCEPT ![client[r]] = AfterLogout(client[r])]
    BY <1>2 DEF BrowserLogoutCommit, LogoutAnswered, LogoutCommit, HangUp,
       Continue
  <2>2. client[r] # None => client[r] \in Browsers
    BY DEF JarsOK
  <2>3. jar' \in [Browsers -> held' \cup {0}]
    BY <2>1, <2>2, LogoutKeepsOrEmpties DEF JarsOK
  <2> QED  BY <2>1, <2>3, ClientsTyped DEF JarsOK
<1>3. CASE /\ \/ LoginCommit(r) \/ IssueCommit(r)
              \/ RotateCommit(r) \/ ReuseScan(r) \/ ReuseCommit(r)
              \/ SendReset(r) \/ ResetScan(r) \/ ResetCommit(r)
           /\ UNCHANGED browserVars
  <2>1. Continue(r) /\ jar' = jar /\ client' = client
    BY <1>3 DEF Continue, browserVars
  <2>2. held' = held
    BY <1>3 DEF LoginCommit, IssueCommit, RotateCommit, ReuseScan, ReuseCommit,
       SendReset, ResetScan, ResetCommit
  <2> QED  BY <2>1, <2>2 DEF JarsOK
<1> QED  BY <1>1, <1>2, <1>3 DEF BrowserContinue

(* About: a handler that dies with its response undelivered.               *)
LEMMA StepBrowserCrashes ==
  ASSUME JarsOK, NEW r \in Requests, BrowserCrash(r)
  PROVE  JarsOK' /\ Crash(r)
<1>1. /\ Crash(r) /\ held' = held /\ jar' = jar
      /\ client' = [client EXCEPT ![r] = None]
  BY DEF BrowserCrash, HangUp, Crash
<1> QED  BY <1>1, ClientsTyped DEF JarsOK

(* Every step keeps the jars good and is a step of RefreshTokens, or one of
   a jar alone.  About: auth.py as a client of auth_service.py.            *)
LEMMA StepIsAllowed ==
  JarsOK /\ [BrowserNext]_allVars => JarsOK' /\ [Next]_vars
<1> SUFFICES ASSUME JarsOK, [BrowserNext]_allVars
             PROVE  JarsOK' /\ [Next]_vars
  OBVIOUS
<1>1. CASE UNCHANGED allVars
  BY <1>1 DEF allVars, browserVars, vars, JarsOK
<1>2. CASE Tick /\ UNCHANGED browserVars
  BY <1>2 DEF Tick, browserVars, Next, Serve, JarsOK
<1>3. ASSUME NEW r \in Requests, NEW b \in Browsers, BrowserArrive(r, b)
      PROVE  JarsOK' /\ [Next]_vars
  BY <1>3, StepBrowserArrives DEF Next, Serve
<1>4. ASSUME NEW r \in Requests, OtherArrive(r)
      PROVE  JarsOK' /\ [Next]_vars
  BY <1>4, StepOtherArrives DEF Next, Serve
<1>5. ASSUME NEW r \in Requests, BrowserContinue(r)
      PROVE  JarsOK' /\ [Next]_vars
  BY <1>5, StepBrowserContinues DEF Next, Serve
<1>6. ASSUME NEW r \in Requests, BrowserCrash(r)
      PROVE  JarsOK' /\ [Next]_vars
  BY <1>6, StepBrowserCrashes DEF Next, Serve
<1> QED  BY <1>1, <1>2, <1>3, <1>4, <1>5, <1>6 DEF BrowserNext

(* At the start the jars are empty and no request has a client.            *)
LEMMA InitJarsOK == BrowserInit => Init /\ JarsOK
  BY DEF BrowserInit, JarsOK

-----------------------------------------------------------------------------
(* The theorems.                                                           *)

(* Browsers present only what a response delivered to them.  About:
   _set_auth_cookies and the Cookie parameters of auth.py.                 *)
THEOREM JarsHoldDelivered == BrowserSpec => []JarsOK
  BY InitJarsOK, StepIsAllowed, PTL DEF BrowserSpec

(* Whatever browsers, other holders, lost responses and cookie domains do,
   the sessions behave as RefreshTokens says.  About: auth.py as a client
   of auth_service.py.                                                     *)
THEOREM BrowsersAreAllowed == BrowserSpec => Spec
  BY InitJarsOK, StepIsAllowed, PTL DEF BrowserSpec, Spec

(* Hence the invariants of RefreshTokens hold behind browsers: types,
   lineages, and what reuse detection and password resets have killed.
   About: auth_service.py:106-152 and 181-206.                             *)
THEOREM SessionsHoldBehindBrowsers ==
  BrowserSpec => [](/\ TypeOK /\ FamiliesAreLineages
                    /\ ReuseKillsEarlierTokens /\ ResetKillsEarlierTokens)
<1>1. IInv => /\ TypeOK /\ FamiliesAreLineages
              /\ ReuseKillsEarlierTokens /\ ResetKillsEarlierTokens
  BY DEF IInv
<1> QED  BY <1>1, BrowsersAreAllowed, InductiveInvariant, PTL

-----------------------------------------------------------------------------
(* The inductive invariant of jars, clients and histories.                 *)

(* Why a browser may be taken for a thief: AlarmHasCause of one family.    *)
Cause(f) ==
    \/ f \in undelivered \cup shared \cup crossed
    \/ f <= wiped[refresh_tokens[f].user_id]
    \/ f \in left /\ Domain # None

(* Browser b has a token of family f, or will be sent one.                 *)
With(b, f) ==
    \/ jar[b] # 0 /\ Family(jar[b]) = f
    \/ \E r \in Requests : /\ client[r] = b
                           /\ req[r].pc \in {"rotate", "logout", "respond"}
                           /\ Family(req[r].row) = f

OneBrowser ==
    \A f \in Issued, b, c \in Browsers : With(b, f) /\ With(c, f) => b = c

(* Two handlers have tokens of one family in hand only where requests for
   it crossed.                                                             *)
HandsApart ==
    \A q, r \in Requests, f \in Issued :
        InHand(q, f) /\ InHand(r, f) => q = r \/ f \in crossed

(* Where they did not, at most one token of a family is live.              *)
OneLive ==
    \A s, t \in Issued :
        Live(s) /\ Live(t) /\ Family(s) = Family(t)
          => s = t \/ Family(s) \in crossed

(* Whoever is the only holder of a session holds its live token.           *)
JarHasTheLiveToken ==
    \A b \in Browsers, t \in held :
        jar[b] # 0 /\ Family(t) = Family(jar[b]) /\ Live(t)
          => t = jar[b] \/ Family(t) \in shared \cup crossed

(* A jar holds a dead token for a cause, or until its browser has read the
   response that is on its way.                                            *)
DeadTokensExplained ==
    \A b \in Browsers :
        jar[b] # 0 /\ ~Live(jar[b]) =>
            \/ Cause(Family(jar[b]))
            \/ \E r \in Requests : /\ req[r].pc = "respond" /\ client[r] = b
                                   /\ Family(req[r].row) = Family(jar[b])

(* What a handler that has the token of a session in hand knows about it.  *)
SessionOK(r) ==
    LET f == Family(req[r].row) IN
    /\ client[r] = None => f \in shared
    /\ f \notin crossed =>
          \A t \in Issued : Live(t) /\ Family(t) = f => t = req[r].row

ClientOK(r) ==
    LET f == Family(req[r].row) IN
    /\ req[r].pc \in {"login", "issue"} => client[r] # None
    /\ req[r].pc \in {"rotate", "logout", "respond"} => SessionOK(r)
    /\ req[r].pc \in {"rotate", "respond"} => f \notin left \ crossed
    /\ req[r].pc = "respond" => Live(req[r].row) \/ Cause(f)
    /\ req[r].pc \in {"reuse", "purge"} => Cause(f)
    /\ req[r].pc = "purge" => \A t \in req[r].victims : Family(t) = f
    /\ req[r].pc = "wipe" =>
          \A t \in req[r].victims :
             t <= req[r].mark /\ refresh_tokens[t].user_id = req[r].user

ClientsOK == \A r \in Requests : ClientOK(r)

LeftIssued == left \subseteq Issued

BInv ==
    /\ OneBrowser
    /\ HandsApart
    /\ OneLive
    /\ JarHasTheLiveToken
    /\ DeadTokensExplained
    /\ ClientsOK
    /\ LeftIssued
    /\ NothingPurgedAhead
    /\ LogoutEndsSession
    /\ AlarmHasCause

(* What holds before the step, from the invariants proved so far.          *)
Before == IInv /\ JarsOK /\ BInv

-----------------------------------------------------------------------------
(* What every step leaves as it is.                                        *)

(* The tokens that jars and handlers hold exist.                           *)
LEMMA JarBasics ==
  ASSUME IInv, JarsOK
  PROVE  /\ \A b \in Browsers : jar[b] = 0 \/ jar[b] \in held
         /\ \A t \in Issued : Family(t) \in Issued
         /\ held \subseteq Issued /\ Issued \subseteq Nat
         /\ Issued \subseteq Tokens /\ 0 \notin Issued
<1>1. TypeOK
  BY DEF IInv
<1>2. 0 \notin Issued
  BY DEF Issued
<1> QED  BY <1>1, <1>2, Basics DEF TypeOK, Family, JarsOK

(* Rows stay in their families, and none comes to life.                    *)
RowsAge ==
    /\ Issued \subseteq Issued'
    /\ \A t \in Issued :
         /\ Family(t)' = Family(t)
         /\ refresh_tokens'[t].user_id = refresh_tokens[t].user_id
         /\ Live(t)' => Live(t)

(* About: every handler; no code in src/ clears revoked_at.                *)
LEMMA StepRowsAge ==
  ASSUME IInv, [Next]_vars
  PROVE  RowsAge
<1>1. RowsOnlyAge /\ nTokens \in Nat
  BY StepRowsOnlyAge, Basics DEF IInv
<1>2. Issued \subseteq Issued'
  BY <1>1 DEF RowsOnlyAge, Issued
<1> QED  BY <1>1, <1>2 DEF RowsOnlyAge, RowsAge, Family, Live

(* The histories end only where another client takes part.                 *)
Onward ==
    /\ cookie_domain' = cookie_domain
    /\ shared \subseteq shared' /\ crossed \subseteq crossed'
    /\ undelivered \subseteq undelivered' \cup shared'
    /\ left \subseteq left' \cup shared'

(* Marks of password resets only rise.                                     *)
LEMMA WipedRises ==
  ASSUME IInv, [Next]_vars, NEW u \in Users
  PROVE  wiped[u] \in Nat /\ wiped'[u] \in Nat /\ wiped[u] <= wiped'[u]
<1>1. /\ \A v \in Users : wiped[v] \in Nat
      /\ \A r \in Requests : req[r].mark \in Nat
  BY ConstantsAssumption DEF IInv, TypeOK, Request
<1>2. ASSUME NEW r \in Requests, ResetCommit(r)
      PROVE  wiped'[u] \in Nat /\ wiped[u] <= wiped'[u]
  BY <1>1, <1>2 DEF ResetCommit, IInv, TypeOK
<1>3. (~ \E r \in Requests : ResetCommit(r)) => wiped'[u] = wiped[u]
  BY StepMarks DEF IInv
<1> QED  BY <1>1, <1>2, <1>3

(* A cause stays one.                                                      *)
LEMMA CausesStand ==
  ASSUME IInv, [Next]_vars, Onward, NEW f \in Issued, Cause(f)
  PROVE  Cause(f)'
<1>1. refresh_tokens'[f].user_id = refresh_tokens[f].user_id
  BY StepRowsAge DEF RowsAge
<1>2. refresh_tokens[f].user_id \in Users /\ f \in Nat
  BY Basics DEF IInv, TypeOK
<1>3. PICK u \in Users : u = refresh_tokens[f].user_id
  BY <1>2
<1>4. wiped[u] \in Nat /\ wiped'[u] \in Nat /\ wiped[u] <= wiped'[u]
  BY WipedRises
<1>5. f <= wiped[u] => f <= wiped'[u]
  BY <1>2, <1>4
<1>6. Domain' = Domain
  BY DEF Onward, Domain
<1> QED  BY <1>1, <1>3, <1>5, <1>6 DEF Onward, Cause

(* The other handlers and their clients stay as they are.                  *)
Kept(r) ==
    \A q \in Requests \ {r} : req'[q] = req[q] /\ client'[q] = client[q]

(* About: handlers that share nothing but the database.                    *)
LEMMA StepKeeps ==
  ASSUME IInv, JarsOK, NEW r \in Requests,
         \/ \E b \in Browsers : BrowserArrive(r, b)
         \/ OtherArrive(r) \/ BrowserContinue(r) \/ BrowserCrash(r)
  PROVE  Kept(r)
<1>0. TypeOK
  BY DEF IInv
<1>1. Arrive(r) \/ Continue(r) \/ Crash(r) \/ UNCHANGED vars
  BY StepBrowserArrives, StepOtherArrives, StepBrowserContinues,
     StepBrowserCrashes
<1>2. \A q \in Requests \ {r} : req'[q] = req[q]
  BY <1>0, <1>1, ArrivalsAreBusy, MoversWereBusy DEF vars
<1>3. client' = client \/ \E b : client' = [client EXCEPT ![r] = b]
  <2>1. CASE \E b \in Browsers : BrowserArrive(r, b)
    BY <2>1 DEF BrowserArrive, BrowserLogin, BrowserRefresh, BrowserReuse,
       BrowserLogout, BrowserLogoutUnread, Sends
  <2>2. CASE OtherArrive(r)
    BY <2>2 DEF OtherArrive, OtherPresents, browserVars
  <2>3. CASE BrowserContinue(r)
    BY <2>3 DEF BrowserContinue, BrowserRespond, BrowserLogoutCommit, HangUp,
       browserVars
  <2>4. CASE BrowserCrash(r)
    BY <2>4 DEF BrowserCrash, HangUp
  <2> QED  BY <2>1, <2>2, <2>3, <2>4
<1> QED  BY <1>2, <1>3 DEF Kept, JarsOK

(* What they hold stays what it was.                                       *)
LEMMA HandsStand ==
  ASSUME IInv, RowsAge, NEW r \in Requests, Kept(r),
         NEW q \in Requests \ {r},
         req[q].pc \in {"rotate", "reuse", "purge", "logout", "respond"}
  PROVE  /\ req[q].row \in Issued /\ Family(req[q].row) \in Issued
         /\ Family(req[q].row)' = Family(req[q].row)
<1>1. req[q].row \in Issued
  BY DEF IInv, HandlersOK, RowsExist
<1>2. Family(req[q].row) \in Issued
  BY <1>1 DEF IInv, TypeOK, Family
<1>3. req'[q] = req[q]
  BY DEF Kept
<1> QED  BY <1>1, <1>2, <1>3 DEF RowsAge, Family

-----------------------------------------------------------------------------
(* What all steps but the delivery of a response have in common.           *)

(* The rows that request r inserts: to a family that it has in hand, or of
   a family of their own, and live alone there.                            *)
Births(r) ==
    \A n \in Issued' \ Issued :
        /\ Family(n)' \in Issued => InHand(r, Family(n)')
        /\ \A t \in Issued' : 
              Live(t)' /\ Family(t)' = Family(n)'
                => t = n \/ Family(n)' \in crossed'

(* The tokens that it kills.                                               *)
Deaths(r) ==
    \A t, f \in Issued :
        f = Family(t) /\ Live(t) /\ ~Live(t)' =>
            /\ InHand(r, f) \/ Cause(f)'
            /\ \A b \in Browsers : jar'[b] = t =>
                 \/ Cause(f)'
                 \/ /\ req'[r].pc = "respond" /\ client'[r] = b
                    /\ Family(req[r].row)' = f

(* The families that it takes in hand, for which client.                   *)
Takes(r) ==
    /\ \A f \in Issued, q \in Requests \ {r} :
          InHand(r, f)' /\ InHand(q, f) => f \in crossed'
    /\ \A f \in Issued, b \in Browsers :
          /\ client'[r] = b
          /\ req'[r].pc \in {"rotate", "logout", "respond"}
          /\ Family(req[r].row)' = f
          => With(b, f)

(* A response that it does not deliver.                                    *)
Drops(r) ==
    \A f \in Issued :
        req[r].pc = "respond" /\ Family(req[r].row) = f => Cause(f)'

(* The sessions that its browser leaves.                                   *)
Leaves(r) ==
    \A f \in left' : f \notin left =>
        /\ f \in Issued
        /\ \A q \in Requests \ {r} : InHand(q, f) => f \in crossed'
        /\ \A t \in held : Live(t)' /\ Family(t) = f => f \in crossed'

(* The families that it purges.                                            *)
Purges ==
    \A f \in Issued : purged'[f] > 0 => purged[f] > 0 \/ Cause(f)'

Quiet(r) ==
    /\ Onward /\ held' = held
    /\ \A b \in Browsers : jar'[b] = jar[b] \/ jar'[b] = 0
    /\ Births(r) /\ Deaths(r) /\ Takes(r) /\ Drops(r) /\ Leaves(r) /\ Purges

(* A session stays with one browser.                                       *)
LEMMA QuietOneBrowser ==
  ASSUME Before, RowsAge, NEW r \in Requests, Kept(r), Quiet(r)
  PROVE  OneBrowser'
<1>0. /\ IInv /\ \A b \in Browsers : jar[b] = 0 \/ jar[b] \in Issued
      /\ \A t \in Issued : Family(t) \in Issued
  BY JarBasics DEF Before
<1>1. ASSUME NEW f \in Issued', NEW b \in Browsers, With(b, f)'
      PROVE  \/ f \in Issued /\ With(b, f)
             \/ f \notin Issued /\ client'[r] = b
  <2>1. CASE jar'[b] # 0 /\ refresh_tokens'[jar'[b]].family_id = f
    <3>1. PICK t \in Issued : t = jar[b] /\ t = jar'[b]
      BY <1>0, <2>1 DEF Quiet
    <3>2. Family(t) = f /\ f \in Issued
      BY <1>0, <2>1, <3>1 DEF RowsAge, Family
    <3> QED  BY <2>1, <3>1, <3>2 DEF With
  <2>2. ASSUME NEW q \in Requests \ {r}, client'[q] = b,
               req'[q].pc \in {"rotate", "logout", "respond"},
               Family(req[q].row)' = f
        PROVE  f \in Issued /\ With(b, f)
    <3>1. req[q] = req'[q] /\ client[q] = b
      BY <2>2 DEF Kept
    <3>2. f \in Issued /\ Family(req[q].row) = f
      BY <1>0, <2>2, <3>1, HandsStand
    <3> QED  BY <2>2, <3>1, <3>2 DEF With
  <2>3. CASE /\ client'[r] = b
             /\ req'[r].pc \in {"rotate", "logout", "respond"}
             /\ Family(req[r].row)' = f
    BY <2>3 DEF Quiet, Takes
  <2>4. \/ jar'[b] # 0 /\ refresh_tokens'[jar'[b]].family_id = f
        \/ \E q \in Requests : 
             /\ client'[q] = b
             /\ req'[q].pc \in {"rotate", "logout", "respond"}
             /\ Family(req[q].row)' = f
    BY <1>1 DEF With, Family
  <2> QED  BY <2>1, <2>2, <2>3, <2>4
<1>2. ASSUME NEW f \in Issued', NEW b \in Browsers, NEW c \in Browsers,
             With(b, f)', With(c, f)'
      PROVE  b = c
  BY <1>1, <1>2 DEF Before, BInv, OneBrowser
<1> QED  BY <1>2 DEF OneBrowser

(* Two handlers have no session in hand that was not crossed.              *)
LEMMA QuietHandsApart ==
  ASSUME Before, RowsAge, NEW r \in Requests, Kept(r),
         crossed \subseteq crossed',
         \A f \in Issued, q \in Requests \ {r} :
            InHand(r, f)' /\ InHand(q, f) => f \in crossed'
  PROVE  HandsApart'
<1>0. IInv
  BY DEF Before
<1>1. ASSUME NEW f, NEW q \in Requests \ {r}, InHand(q, f)'
      PROVE  f \in Issued /\ InHand(q, f)
  <2>1. req'[q] = req[q]
    BY DEF Kept
  <2>2. /\ req[q].pc \in {"rotate", "reuse", "purge", "logout", "respond"}
        /\ Family(req[q].row)' = f
    BY <1>1, <2>1 DEF InHand
  <2> QED  BY <1>0, <2>2, HandsStand DEF InHand
<1>2. ASSUME NEW p \in Requests, NEW q \in Requests, NEW f \in Issued',
             InHand(p, f)', InHand(q, f)', p # q
      PROVE  f \in crossed'
  <2>1. CASE p # r /\ q # r
    BY <1>1, <1>2, <2>1 DEF Before, BInv, HandsApart
  <2>2. CASE p = r
    BY <1>1, <1>2, <2>2
  <2>3. CASE q = r
    BY <1>1, <1>2, <2>3
  <2> QED  BY <2>1, <2>2, <2>3
<1> QED  BY <1>2 DEF HandsApart

(* A family has one live token while requests for it do not cross.         *)
LEMMA QuietOneLive ==
  ASSUME Before, RowsAge, NEW r \in Requests, Births(r),
         crossed \subseteq crossed'
  PROVE  OneLive'
<1>1. ASSUME NEW s \in Issued', NEW t \in Issued', Live(s)', Live(t)',
             Family(s)' = Family(t)', s # t
      PROVE  Family(s)' \in crossed'
  <2>1. CASE s \in Issued /\ t \in Issued
    BY <1>1, <2>1 DEF Before, BInv, OneLive, RowsAge
  <2>2. CASE s \notin Issued \/ t \notin Issued
    BY <1>1, <2>2 DEF Births
  <2> QED  BY <2>1, <2>2
<1> QED  BY <1>1 DEF OneLive

(* A live token stays in the jar of its only holder.                       *)
LEMMA QuietJars ==
  ASSUME Before, RowsAge, NEW r \in Requests, Quiet(r)
  PROVE  JarHasTheLiveToken'
<1>1. /\ \A b \in Browsers : jar[b] = 0 \/ jar[b] \in Issued
      /\ held \subseteq Issued
  BY JarBasics DEF Before
<1>2. ASSUME NEW b \in Browsers, NEW u, u = jar'[b], u # 0, NEW t \in held,
             Family(t)' = Family(u)', Live(t)'
      PROVE  t = u \/ Family(t)' \in shared' \cup crossed'
  <2>1. /\ u \in Issued /\ u = jar[b] /\ t \in Issued
        /\ Family(t) = Family(u) /\ Live(t) /\ Family(t)' = Family(t)
    BY <1>1, <1>2 DEF RowsAge, Quiet
  <2> QED  BY <1>2, <2>1
           DEF Before, BInv, JarHasTheLiveToken, Quiet, Onward
<1> QED  BY <1>2 DEF JarHasTheLiveToken, Family, Live, Issued, Quiet

(* Tokens in jars die for a cause.                                         *)
LEMMA QuietDeaths ==
  ASSUME Before, [Next]_vars, RowsAge, NEW r \in Requests, Kept(r), Quiet(r)
  PROVE  DeadTokensExplained'
<1>0. /\ IInv /\ \A b \in Browsers : jar[b] = 0 \/ jar[b] \in Issued
      /\ \A t \in Issued : Family(t) \in Issued
  BY JarBasics DEF Before
<1>1. ASSUME NEW b \in Browsers, NEW t, t = jar'[b], t # 0, ~Live(t)'
      PROVE  \/ Cause(Family(t))'
             \/ \E q \in Requests : /\ req'[q].pc = "respond"
                                    /\ client'[q] = b
                                    /\ Family(req[q].row)' = Family(t)'
  <2>1. t \in Issued /\ t = jar[b]
    BY <1>0, <1>1 DEF Quiet
  <2>2. PICK f \in Issued : f = Family(t)
    BY <1>0, <2>1
  <2>3. Family(t)' = f
    BY <2>1, <2>2 DEF RowsAge
  <2>4. CASE Cause(f)'
    BY <2>3, <2>4 DEF Cause
  <2>5. CASE Live(t)
    BY <1>1, <2>1, <2>2, <2>3, <2>4, <2>5 DEF Quiet, Deaths
  <2>6. CASE ~Live(t)
    <3>1. CASE Cause(f)
      <4>1. Cause(f)'
        BY <1>0, <3>1, CausesStand DEF Quiet
      <4> QED  BY <2>4, <4>1
    <3>2. ASSUME NEW q \in Requests, req[q].pc = "respond", client[q] = b,
                 Family(req[q].row) = f
          PROVE  \/ Cause(f)'
                 \/ /\ req'[q].pc = "respond" /\ client'[q] = b
                    /\ Family(req[q].row)' = f
      <4>1. CASE q = r
        BY <3>2, <4>1 DEF Quiet, Drops
      <4>2. CASE q # r
        <5>1. Family(req[q].row)' = f
          BY <1>0, <3>2, <4>2, HandsStand
        <5> QED  BY <3>2, <4>2, <5>1 DEF Kept
      <4> QED  BY <4>1, <4>2
    <3>3. \/ Cause(f)
          \/ \E q \in Requests : /\ req[q].pc = "respond" /\ client[q] = b
                                 /\ Family(req[q].row) = f
      BY <1>1, <2>1, <2>2, <2>6 DEF Before, BInv, DeadTokensExplained
    <3> QED  BY <2>3, <2>4, <3>1, <3>2, <3>3
  <2> QED  BY <2>5, <2>6
<1> QED  BY <1>1 DEF DeadTokensExplained, Cause, Live, Family, Issued, Domain

(* What another handler knows about its session stays so: about the live
   tokens of it,                                                           *)
LEMMA QuietSessionOK ==
  ASSUME Before, RowsAge, NEW r \in Requests, Kept(r), Onward, Births(r),
         NEW q \in Requests \ {r},
         req[q].pc \in {"rotate", "logout", "respond"}
  PROVE  SessionOK(q)'
<1>0. IInv /\ SessionOK(q)
  BY DEF Before, BInv, ClientsOK, ClientOK
<1>1. PICK f, p : f = Family(req[q].row) /\ p = req[q].row
  OBVIOUS
<1>2. /\ p \in Issued /\ f \in Issued /\ Family(req[q].row)' = f
      /\ req'[q] = req[q] /\ client'[q] = client[q]
  BY <1>0, <1>1, HandsStand DEF Kept
<1>3. client[q] = None => f \in shared'
  BY <1>0, <1>1 DEF SessionOK, Onward
<1>4. ASSUME f \notin crossed', NEW t \in Issued', Live(t)', Family(t)' = f
      PROVE  t = p
  <2>1. f \notin crossed
    BY <1>4 DEF Onward
  <2>2. CASE t \in Issued
    BY <1>0, <1>1, <1>4, <2>1, <2>2 DEF RowsAge, SessionOK
  <2>3. CASE t \notin Issued
    <3>1. InHand(r, f)
      BY <1>2, <1>4, <2>3 DEF Births
    <3>2. InHand(q, f)
      BY <1>1 DEF InHand
    <3> QED  BY <1>2, <2>1, <3>1, <3>2 DEF Before, BInv, HandsApart
  <2> QED  BY <2>2, <2>3
<1> QED  BY <1>1, <1>2, <1>3, <1>4 DEF SessionOK, Family, Live, Issued

(* and about the rest.                                                     *)
LEMMA QuietClientOK ==
  ASSUME Before, [Next]_vars, RowsAge, NEW r \in Requests, Kept(r), Onward,
         Births(r), Deaths(r), Leaves(r), NEW q \in Requests \ {r}
  PROVE  ClientOK(q)'
<1>0. /\ IInv /\ ClientOK(q) /\ Onward /\ req[q].user = req'[q].user
      /\ req'[q] = req[q] /\ client'[q] = client[q]
  BY DEF Before, BInv, ClientsOK, Kept
<1>1. CASE req[q].pc \in {"idle", "login", "issue", "reset", "mail"}
  BY <1>0, <1>1 DEF ClientOK
<1>2. CASE req[q].pc = "wipe"
  <2>1. req[q].victims \subseteq Issued
    BY <1>0, <1>2 DEF IInv, HandlersOK, RowsExist
  <2>2. \A t \in req[q].victims :
           t <= req[q].mark /\ refresh_tokens'[t].user_id = req[q].user
    BY <1>0, <1>2, <2>1 DEF ClientOK, RowsAge
  <2> QED  BY <1>0, <1>2, <2>2 DEF ClientOK
<1>3. CASE req[q].pc \in {"rotate", "reuse", "purge", "logout", "respond"}
  <2>1. PICK f, p : f = Family(req[q].row) /\ p = req[q].row
    OBVIOUS
  <2>2. /\ p \in Issued /\ f \in Issued
        /\ Family(req[q].row)' = f /\ InHand(q, f)
    BY <1>0, <1>3, <2>1, HandsStand DEF InHand
  <2>3. Cause(f) => Cause(f)'
    BY <1>0, <2>2, CausesStand
  <2>4. CASE req[q].pc = "reuse"
    <3>1. Cause(f)'
      BY <1>0, <2>1, <2>3, <2>4 DEF ClientOK
    <3> QED  BY <1>0, <2>2, <2>4, <3>1 DEF ClientOK, Cause
  <2>5. CASE req[q].pc = "purge"
    <3>1. Cause(f)'
      BY <1>0, <2>1, <2>3, <2>5 DEF ClientOK
    <3>2. req[q].victims \subseteq Issued
      BY <1>0, <2>5 DEF IInv, HandlersOK, RowsExist
    <3>3. \A t \in req[q].victims : Family(t)' = f
      BY <1>0, <2>1, <2>5, <3>2 DEF ClientOK, RowsAge
    <3> QED  BY <1>0, <2>2, <2>5, <3>1, <3>3 DEF ClientOK, Cause, Family
  <2>6. CASE req[q].pc \in {"rotate", "logout", "respond"}
    <3>1. SessionOK(q)'
      BY <2>6, QuietSessionOK
    <3>2. req[q].pc \in {"rotate", "respond"} => f \notin left' \ crossed'
      <4>1. CASE f \in left
        BY <1>0, <2>1, <4>1 DEF ClientOK, Onward
      <4>2. CASE f \in left' /\ f \notin left
        BY <2>2, <4>2 DEF Leaves
      <4> QED  BY <4>1, <4>2
    <3>3. req[q].pc = "respond" => Live(p)' \/ Cause(f)'
      <4>1. ASSUME req[q].pc = "respond", Live(p), ~Live(p)', ~Cause(f)'
            PROVE  FALSE
        <5>1. InHand(r, f)
          BY <2>1, <2>2, <4>1 DEF Deaths
        <5>2. f \in crossed
          BY <2>2, <5>1 DEF Before, BInv, HandsApart
        <5> QED  BY <1>0, <4>1, <5>2 DEF Onward, Cause
      <4> QED  BY <1>0, <2>1, <2>3, <4>1 DEF ClientOK
    <3>4. Live(p)' => Live(req[q].row)'
      BY <1>0, <2>1 DEF Live, Issued
    <3> QED  BY <1>0, <2>2, <2>6, <3>1, <3>2, <3>3, <3>4 DEF ClientOK, Cause
  <2> QED  BY <1>3, <2>4, <2>5, <2>6
<1>4. req[q].pc \in Stages
  BY <1>0 DEF IInv, TypeOK, Request
<1> QED  BY <1>1, <1>2, <1>3, <1>4 DEF Stages

(* Sessions that were left stay dead.                                      *)
LEMMA QuietLogouts ==
  ASSUME Before, RowsAge, NEW r \in Requests, Quiet(r)
  PROVE  LogoutEndsSession' /\ LeftIssued'
<1>0. held \subseteq Issued
  BY JarBasics DEF Before
<1>1. ASSUME NEW t \in held, Family(t)' \in left' \ crossed'
      PROVE  ~Live(t)'
  <2>1. PICK f : f = Family(t)
    OBVIOUS
  <2>2. t \in Issued /\ Family(t)' = f /\ (Live(t)' => Live(t))
    BY <1>0, <2>1 DEF RowsAge
  <2>3. CASE f \in left
    BY <1>1, <2>1, <2>2, <2>3
       DEF Before, BInv, LogoutEndsSession, Quiet, Onward
  <2>4. CASE f \notin left
    BY <1>1, <2>1, <2>2, <2>4 DEF Quiet, Leaves
  <2> QED  BY <2>3, <2>4
<1>2. LogoutEndsSession'
  BY <1>1 DEF LogoutEndsSession, Quiet
<1>3. LeftIssued'
  BY DEF Before, BInv, LeftIssued, Quiet, Leaves, RowsAge
<1> QED  BY <1>2, <1>3

(* No alarm without a cause.                                               *)
LEMMA QuietAlarms ==
  ASSUME Before, [Next]_vars, Onward, Purges
  PROVE  AlarmHasCause' /\ NothingPurgedAhead'
<1>0. IInv /\ Issued' \subseteq Tokens
  <2>1. IInv'
    BY StepIInv DEF Before
  <2>2. TypeOK' => Issued' \subseteq Tokens
    BY ConstantsAssumption DEF TypeOK, Issued, Tokens
  <2> QED  BY <2>1, <2>2 DEF Before, IInv
<1>1. NothingPurgedAhead'
  BY StepPurgedAhead DEF Before, BInv
<1>2. ASSUME NEW f \in Issued', purged'[f] > 0 PROVE Cause(f)'
  <2>1. CASE f \notin Issued
    <3>1. purged[f] = 0 /\ f \in Tokens
      BY <1>0, <2>1 DEF Before, BInv, NothingPurgedAhead
    <3>2. PICK q \in Requests : ReuseCommit(q) /\ f = Family(req[q].row)
      BY <1>0, <1>2, <3>1, StepMarks DEF IInv
    <3> QED
      BY <1>0, <2>1, <3>2, JarBasics
         DEF Before, IInv, HandlersOK, RowsExist, ReuseCommit
  <2>2. CASE f \in Issued
    <3>1. Cause(f)' \/ purged[f] > 0
      BY <1>2, <2>2 DEF Purges
    <3>2. purged[f] > 0 => Cause(f)
      BY <2>2 DEF Before, BInv, AlarmHasCause, Cause
    <3> QED  BY <1>0, <2>2, <3>1, <3>2, CausesStand
  <2> QED  BY <2>1, <2>2
<1>3. AlarmHasCause'
  BY <1>2 DEF AlarmHasCause, Cause
<1> QED  BY <1>1, <1>3

(* All together: it is left to show what the handler itself knows next.    *)
LEMMA QuietStep ==
  ASSUME Before, [Next]_vars, NEW r \in Requests, Kept(r), Quiet(r),
         ClientOK(r)'
  PROVE  BInv'
<1>0. RowsAge /\ crossed \subseteq crossed'
  BY StepRowsAge DEF Before, Quiet, Onward
<1>1. ClientsOK'
  BY <1>0, QuietClientOK DEF ClientsOK, Quiet
<1>2. HandsApart' /\ OneLive'
  BY <1>0, QuietHandsApart, QuietOneLive DEF Quiet, Takes
<1>3. OneBrowser' /\ JarHasTheLiveToken' /\ DeadTokensExplained'
  BY <1>0, QuietOneBrowser, QuietJars, QuietDeaths
<1> QED  BY <1>0, <1>1, <1>2, <1>3, QuietLogouts, QuietAlarms
           DEF BInv, Quiet

(* Among them those that change no table of sessions and no jar.           *)
Reads == UNCHANGED <<refresh_tokens, nTokens, held, purged, wiped,
                     cookie_domain, jar>>

LEMMA ReadingStep ==
  ASSUME Before, [Next]_vars, NEW r \in Requests, Kept(r), Reads, Onward,
         left' \subseteq left, Takes(r), Drops(r), ClientOK(r)'
  PROVE  BInv'
<1>1. /\ Issued' = Issued
      /\ \A t \in Issued : Live(t)' = Live(t)
  BY DEF Reads, Live, Issued
<1>2. Births(r) /\ Deaths(r)
  BY <1>1 DEF Births, Deaths
<1>3. Leaves(r) /\ Purges
  BY DEF Leaves, Purges, Reads
<1>4. Quiet(r)
  BY <1>2, <1>3 DEF Quiet, Reads
<1> QED  BY <1>4, QuietStep

-----------------------------------------------------------------------------
(* One lemma per kind of step.                                             *)

(* The session that a handler takes in hand when its request arrives.      *)
LEMMA Arrivals ==
  ASSUME NEW r \in Requests, NEW f, req'[r].row \in Issued,
         UNCHANGED refresh_tokens, Family(req'[r].row) = f, Cross({f})
  PROVE  \A g \in Issued, q \in Requests \ {r} :
            InHand(r, g)' /\ InHand(q, g) => g \in crossed'
  BY DEF InHand, Cross, Family

(* About: login of auth.py.                                                *)
LEMMA LoginStep ==
  ASSUME Before, [Next]_vars, NEW r \in Requests, Kept(r), NEW b \in Browsers,
         NEW u \in Users, NEW p \in Passwords, BrowserLogin(r, b, u, p)
  PROVE  BInv'
<1>0. IInv /\ TypeOK /\ JarsOK
  BY DEF Before, IInv
<1>1. /\ req[r].pc = "idle" /\ req'[r].pc = "login"
      /\ UNCHANGED <<refresh_tokens, nTokens, held, purged, wiped>>
  BY <1>0, Becomes DEF BrowserLogin, LoginRead, Idle, db
<1>2. client'[r] = b /\ b # None
  BY <1>0, BrowserAssumption DEF BrowserLogin, Sends, JarsOK
<1>3. UNCHANGED <<cookie_domain, jar, undelivered, shared, crossed, left>>
  BY DEF BrowserLogin, Sends
<1>4. ClientOK(r)'
  BY <1>1, <1>2 DEF ClientOK
<1>5. Takes(r) /\ Drops(r)
  BY <1>1 DEF Takes, Drops, InHand
<1> QED  BY <1>1, <1>3, <1>4, <1>5, ReadingStep DEF Reads, Onward

(* About: refresh and logout of auth.py, with a token that is live.        *)
LEMMA PresentStep ==
  ASSUME Before, [Next]_vars, NEW r \in Requests, Kept(r), NEW b \in Browsers,
         BrowserRefresh(r, b) \/ BrowserLogout(r, b)
  PROVE  BInv'
<1>0. /\ IInv /\ TypeOK /\ JarsOK
      /\ jar[b] = 0 \/ jar[b] \in held
      /\ \A t \in Issued : Family(t) \in Issued
      /\ held \subseteq Issued
  BY JarBasics DEF Before, IInv
<1>1. /\ req[r].pc = "idle" /\ req'[r].pc \in {"rotate", "logout"}
      /\ req'[r].row = jar[b] /\ Live(jar[b]) /\ jar[b] # 0
      /\ UNCHANGED <<refresh_tokens, nTokens, held, purged, wiped>>
  BY <1>0, Becomes DEF BrowserRefresh, BrowserLogout, RefreshRead, LogoutRead,
     Idle, db
<1>2. client'[r] = b /\ b # None
  BY <1>0, BrowserAssumption DEF BrowserRefresh, BrowserLogout, Sends, JarsOK
<1>3. /\ UNCHANGED <<cookie_domain, jar, undelivered, shared, left>>
      /\ Cross(FamilyOf(b))
  BY DEF BrowserRefresh, BrowserLogout, Sends
<1>4. PICK t, f : t = jar[b] /\ f = Family(t)
  OBVIOUS
<1>5. /\ t \in held /\ t \in Issued /\ f \in Issued /\ Live(t)
      /\ Cross({f}) /\ Family(req[r].row)' = f
  BY <1>0, <1>1, <1>3, <1>4 DEF FamilyOf, Family
<1>6. Onward
  BY <1>3 DEF Onward, Cross
<1>7. Takes(r) /\ Drops(r)
  <2>1. \A g \in Issued, q \in Requests \ {r} :
            InHand(r, g)' /\ InHand(q, g) => g \in crossed'
    BY <1>1, <1>4, <1>5, Arrivals
  <2>2. With(b, f)
    BY <1>1, <1>4 DEF With
  <2> QED  BY <1>1, <1>2, <1>5, <2>1, <2>2 DEF Takes, Drops
<1>8. SessionOK(r)'
  <2>1. \A s \in Issued : Live(s) /\ Family(s) = f => s = t \/ f \in crossed'
    BY <1>4, <1>5, <1>6 DEF Before, BInv, OneLive, Onward
  <2> QED  BY <1>1, <1>2, <1>4, <1>5, <2>1
           DEF SessionOK, Family, Live, Issued
<1>9. f \notin left' \ crossed'
  BY <1>3, <1>4, <1>5, <1>6 DEF Before, BInv, LogoutEndsSession, Onward
<1>10. ClientOK(r)'
  BY <1>1, <1>5, <1>8, <1>9 DEF ClientOK
<1> QED  BY <1>1, <1>3, <1>6, <1>7, <1>10, ReadingStep DEF Reads

(* A browser is taken for a thief: there was a cause.  About: refresh of
   auth.py, with a token that is dead.                                     *)
LEMMA ReuseStep ==
  ASSUME Before, [Next]_vars, NEW r \in Requests, Kept(r), NEW b \in Browsers,
         BrowserReuse(r, b)
  PROVE  BInv'
<1>0. /\ IInv /\ TypeOK /\ JarsOK
      /\ jar[b] = 0 \/ jar[b] \in held
      /\ \A t \in Issued : Family(t) \in Issued
      /\ held \subseteq Issued
  BY JarBasics DEF Before, IInv
<1>1. /\ req[r].pc = "idle" /\ req'[r].pc = "reuse" /\ req'[r].row = jar[b]
      /\ jar[b] # 0 /\ refresh_tokens[jar[b]].revoked
      /\ UNCHANGED <<refresh_tokens, nTokens, held, purged, wiped>>
  BY <1>0, Becomes DEF BrowserReuse, RefreshReuse, Idle, db
<1>2. /\ UNCHANGED <<cookie_domain, jar, client, undelivered, shared, left>>
      /\ Cross(FamilyOf(b))
  BY DEF BrowserReuse
<1>3. PICK t, f : t = jar[b] /\ f = Family(t)
  OBVIOUS
<1>4. /\ t \in Issued /\ f \in Issued /\ ~Live(t)
      /\ Cross({f}) /\ Family(req[r].row)' = f
  BY <1>0, <1>1, <1>2, <1>3 DEF FamilyOf, Family, Live
<1>5. Onward
  BY <1>2 DEF Onward, Cross
<1>6. Takes(r) /\ Drops(r)
  <2>1. \A g \in Issued, q \in Requests \ {r} :
            InHand(r, g)' /\ InHand(q, g) => g \in crossed'
    BY <1>1, <1>3, <1>4, Arrivals
  <2> QED  BY <1>1, <2>1 DEF Takes, Drops
<1>7. Cause(f)'
  <2>1. CASE Cause(f)
    BY <1>0, <1>4, <1>5, <2>1, CausesStand
  <2>2. ASSUME NEW q \in Requests, req[q].pc = "respond",
               Family(req[q].row) = f
        PROVE  f \in crossed'
    <3>1. InHand(q, f)
      BY <2>2 DEF InHand
    <3> QED  BY <1>4, <3>1 DEF Cross
  <2>3. \/ Cause(f)
        \/ \E q \in Requests : /\ req[q].pc = "respond" /\ client[q] = b
                               /\ Family(req[q].row) = f
    BY <1>1, <1>3, <1>4 DEF Before, BInv, DeadTokensExplained
  <2> QED  BY <2>1, <2>2, <2>3 DEF Cause
<1>8. ClientOK(r)'
  BY <1>1, <1>4, <1>7 DEF ClientOK, Cause
<1> QED  BY <1>1, <1>2, <1>5, <1>6, <1>8, ReadingStep DEF Reads

(* About: logout of auth.py, when there is nothing to revoke.              *)
LEMMA UnreadLogoutStep ==
  ASSUME Before, [Next]_vars, NEW r \in Requests, Kept(r), NEW b \in Browsers,
         BrowserLogoutUnread(r, b)
  PROVE  BInv'
<1>0. /\ JarsOK /\ IInv
      /\ \A c \in Browsers : jar[c] = 0 \/ jar[c] \in held
      /\ \A t \in Issued : Family(t) \in Issued
      /\ held \subseteq Issued
  BY JarBasics DEF Before
<1>1. /\ req[r].pc = "idle" /\ ~Live(jar[b])
      /\ UNCHANGED vars /\ UNCHANGED <<cookie_domain, client, shared>>
      /\ jar' = jar \/ jar' = [jar EXCEPT ![b] = AfterLogout(b)]
      /\ left' = left \cup (FamilyOf(b) \ shared)
      /\ undelivered \subseteq undelivered' /\ Cross(FamilyOf(b))
  BY DEF BrowserLogoutUnread, LogoutAnswered, Note
<1>2. /\ UNCHANGED <<refresh_tokens, nTokens, req, held, purged, wiped>>
      /\ Issued' = Issued /\ \A t : Live(t)' = Live(t) /\ Family(t)' = Family(t)
  BY <1>1 DEF vars, db, Live, Family, Issued
<1>3. \A c \in Browsers : jar'[c] = jar[c] \/ jar'[c] = 0
  BY <1>0, <1>1 DEF AfterLogout, JarsOK
<1>4. Onward
  BY <1>1 DEF Onward, Cross
<1>5. Births(r) /\ Deaths(r) /\ Purges
  BY <1>2 DEF Births, Deaths, Purges
<1>6. Takes(r) /\ Drops(r)
  BY <1>1, <1>2 DEF Takes, Drops, InHand
<1>7. Leaves(r)
  <2>1. ASSUME NEW f \in left', f \notin left
        PROVE  /\ f \in Issued
               /\ \A q \in Requests : InHand(q, f) => f \in crossed'
               /\ \A t \in held : Live(t) /\ Family(t) = f => f \in crossed'
    <3>1. jar[b] # 0 /\ f = Family(jar[b]) /\ f \notin shared /\ Cross({f})
      BY <1>1, <2>1 DEF FamilyOf
    <3>2. f \in Issued
      BY <1>0, <3>1
    <3>3. \A t \in held : Live(t) /\ Family(t) = f => f \in crossed
      BY <1>1, <3>1 DEF Before, BInv, JarHasTheLiveToken
    <3> QED  BY <3>1, <3>2, <3>3 DEF Cross
  <2> QED  BY <1>2, <2>1 DEF Leaves
<1>8. ClientOK(r)'
  BY <1>1, <1>2 DEF ClientOK
<1>9. Quiet(r)
  BY <1>2, <1>3, <1>4, <1>5, <1>6, <1>7 DEF Quiet
<1> QED  BY <1>8, <1>9, QuietStep

(* Another holder of a token takes part.  About: refresh and logout of
   auth.py, called with a raw token.                                       *)
LEMMA OtherStep ==
  ASSUME Before, [Next]_vars, NEW r \in Requests, Kept(r), NEW t \in held,
         OtherPresents(r, t)
  PROVE  BInv'
<1>0. /\ JarsOK /\ IInv /\ TypeOK /\ t \in Issued /\ Family(t) \in Issued
      /\ held \subseteq Issued
  BY JarBasics DEF Before, IInv
<1>1. /\ req[r].pc = "idle" /\ req'[r].pc \in {"rotate", "reuse", "logout"}
      /\ req'[r].row = t
      /\ req'[r].pc # "reuse" => Live(t)
      /\ UNCHANGED <<refresh_tokens, nTokens, held, purged, wiped>>
  BY <1>0, Becomes
     DEF OtherPresents, RefreshRead, RefreshReuse, LogoutRead, Idle, db
<1>2. PICK f : f = Family(t)
  OBVIOUS
<1>3. /\ shared' = shared \cup {f}
      /\ undelivered' = undelivered \ {f}
      /\ left' = left \ {f}
      /\ UNCHANGED <<cookie_domain, jar>>
      /\ client' = [client EXCEPT ![r] = None]
      /\ Cross({f})
  BY <1>2 DEF OtherPresents
<1>4. Onward
  BY <1>3 DEF Onward, Cross
<1>5. /\ client'[r] = None /\ f \in Issued
      /\ Family(req[r].row)' = f /\ f \in shared'
  BY <1>0, <1>1, <1>2, <1>3 DEF JarsOK, Family
<1>6. Takes(r) /\ Drops(r)
  <2>1. \A g \in Issued, q \in Requests \ {r} :
            InHand(r, g)' /\ InHand(q, g) => g \in crossed'
    BY <1>0, <1>1, <1>2, <1>3, Arrivals
  <2> QED  BY <1>1, <1>5, <2>1, BrowserAssumption DEF Takes, Drops
<1>7. req'[r].pc # "reuse" => SessionOK(r)'
  <2>1. \A s \in Issued :
           Live(t) /\ Live(s) /\ Family(s) = f => s = t \/ f \in crossed'
    BY <1>0, <1>2, <1>4 DEF Before, BInv, OneLive, Onward
  <2> QED  BY <1>1, <1>2, <1>5, <2>1 DEF SessionOK, Family, Live, Issued
<1>8. ClientOK(r)'
  BY <1>1, <1>3, <1>5, <1>7 DEF ClientOK, Cause
<1> QED  BY <1>1, <1>3, <1>4, <1>6, <1>8, ReadingStep DEF Reads

(* About: forgot-password and reset-password, when they arrive.            *)
LEMMA ResetArrivalStep ==
  ASSUME Before, [Next]_vars, NEW r \in Requests, Kept(r),
         UNCHANGED browserVars,
         \/ \E u \in Users : RequestReset(r, u)
         \/ \E k \in mailed, p \in Passwords : ResetRead(r, k, p)
  PROVE  BInv'
<1>0. TypeOK
  BY DEF Before, IInv
<1>1. /\ req[r].pc = "idle" /\ req'[r].pc \in {"mail", "reset"}
      /\ UNCHANGED <<refresh_tokens, nTokens, held, purged, wiped>>
  BY <1>0, Becomes DEF RequestReset, ResetRead, Idle, db
<1>2. UNCHANGED <<cookie_domain, jar, undelivered, shared, crossed, left>>
  BY DEF browserVars, histories
<1>3. ClientOK(r)'
  BY <1>1 DEF ClientOK
<1>4. Takes(r) /\ Drops(r)
  BY <1>1 DEF Takes, Drops, InHand
<1> QED  BY <1>1, <1>2, <1>3, <1>4, ReadingStep DEF Reads, Onward

(* About: the handlers that go on without writing a token.                 *)
LEMMA ContinueStep ==
  ASSUME Before, [Next]_vars, NEW r \in Requests, Kept(r),
         UNCHANGED browserVars,
         LoginCommit(r) \/ ReuseScan(r) \/ SendReset(r) \/ ResetScan(r)
  PROVE  BInv'
<1>0. /\ IInv /\ TypeOK /\ req[r] \in Request /\ ClientOK(r)
      /\ \A t \in Issued : Family(t) \in Issued
  BY DEF Before, BInv, ClientsOK, IInv, TypeOK, Family
<1>1. UNCHANGED <<cookie_domain, jar, client, undelivered, shared, crossed,
                  left>>
  BY DEF browserVars, histories
<1>2. UNCHANGED <<refresh_tokens, nTokens, held, purged, wiped>>
  BY DEF LoginCommit, ReuseScan, SendReset, ResetScan, db
<1>3. req[r].pc # "respond"
  BY DEF LoginCommit, ReuseScan, SendReset, ResetScan
<1>4. CASE LoginCommit(r) \/ SendReset(r) \/ ResetScan(r)
  <2>1. ASSUME LoginCommit(r)
        PROVE  req'[r].pc = "issue" /\ ClientOK(r)'
    <3>1. req'[r].pc = "issue" /\ req[r].pc = "login"
      BY <1>0, <2>1, Becomes DEF LoginCommit, Request
    <3> QED  BY <1>0, <1>1, <3>1 DEF ClientOK
  <2>2. ASSUME SendReset(r)
        PROVE  req'[r].pc = "idle" /\ ClientOK(r)'
    <3>1. req'[r].pc = "idle"
      BY <1>0, <2>2, Becomes DEF SendReset, Finish, Idle
    <3> QED  BY <3>1 DEF ClientOK
  <2>3. ASSUME ResetScan(r)
        PROVE  req'[r].pc = "wipe" /\ ClientOK(r)'
    <3>1. /\ req'[r].pc = "wipe" /\ req'[r].mark = nTokens
          /\ req'[r].user = req[r].user
          /\ req'[r].victims = UserTokens(req[r].user)
      BY <1>0, <2>3, Becomes DEF ResetScan, Request
    <3>2. \A t \in UserTokens(req[r].user) :
             t <= nTokens /\ refresh_tokens[t].user_id = req[r].user
      BY DEF UserTokens, Issued
    <3> QED  BY <1>2, <3>1, <3>2 DEF ClientOK
  <2>4. req'[r].pc \in {"idle", "issue", "wipe"} /\ ClientOK(r)'
    BY <1>4, <2>1, <2>2, <2>3
  <2>5. Takes(r) /\ Drops(r)
    BY <1>3, <2>4 DEF Takes, Drops, InHand
  <2> QED  BY <1>1, <1>2, <2>4, <2>5, ReadingStep DEF Reads, Onward
<1>5. CASE ReuseScan(r)
  <2>1. /\ req'[r].pc = "purge" /\ req[r].pc = "reuse"
        /\ req'[r].row = req[r].row
        /\ req'[r].victims = FamilyMembers(req[r].row)
    BY <1>0, <1>5, Becomes DEF ReuseScan, Request
  <2>2. Cause(Family(req[r].row))
    BY <1>0, <2>1 DEF ClientOK
  <2>3. Cause(Family(req[r].row))'
    BY <1>1, <1>2, <2>1, <2>2 DEF Cause, Family, Domain
  <2>4. \A t \in req'[r].victims : Family(t)' = Family(req[r].row)'
    BY <1>2, <2>1 DEF FamilyMembers, Family
  <2>5. ClientOK(r)'
    BY <2>1, <2>3, <2>4 DEF ClientOK
  <2>6. ASSUME NEW g \in Issued, NEW q \in Requests \ {r},
               InHand(r, g)', InHand(q, g)
        PROVE  g \in crossed'
    <3>1. InHand(r, g)
      BY <1>2, <2>1, <2>6 DEF InHand, Family
    <3> QED  BY <1>1, <2>6, <3>1 DEF Before, BInv, HandsApart
  <2>7. Takes(r) /\ Drops(r)
    BY <2>1, <2>6 DEF Takes, Drops
  <2> QED  BY <1>1, <1>2, <2>5, <2>7, ReadingStep DEF Reads, Onward
<1> QED  BY <1>4, <1>5

(* A handler that has finished has nothing in hand and nothing to know.    *)
LEMMA FinishedClient ==
  ASSUME IInv, NEW r \in Requests, Finish(r)
  PROVE  req'[r].pc = "idle" /\ ClientOK(r)' /\ Takes(r)
<1>1. req'[r].pc = "idle"
  BY Becomes DEF IInv, Finish, Idle
<1> QED  BY <1>1 DEF ClientOK, Takes, InHand

(* A purge kills what is left of a family that had a cause.  About:
   auth_service.py:117-130.                                                *)
LEMMA PurgeStep ==
  ASSUME Before, [Next]_vars, NEW r \in Requests, Kept(r),
         UNCHANGED browserVars, ReuseCommit(r)
  PROVE  BInv'
<1>0. /\ IInv /\ TypeOK /\ ClientOK(r) /\ req[r].row \in Issued
      /\ Issued \subseteq Tokens
      /\ \A t \in Issued : Family(t) \in Issued
  BY Basics DEF Before, BInv, ClientsOK, IInv, HandlersOK, RowsExist,
     ReuseCommit, TypeOK, Family
<1>1. UNCHANGED <<cookie_domain, jar, client, undelivered, shared, crossed,
                  left>>
  BY DEF browserVars, histories
<1>2. /\ req[r].pc = "purge" /\ held' = held /\ nTokens' = nTokens
      /\ refresh_tokens' = Revoke(req[r].victims)
      /\ Finish(r)
  BY DEF ReuseCommit
<1>3. PICK g \in Issued : g = Family(req[r].row)
  BY <1>0
<1>4. Onward
  BY <1>1 DEF Onward
<1>5. Cause(g)'
  <2>1. Cause(g)
    BY <1>0, <1>2, <1>3 DEF ClientOK
  <2> QED  BY <1>0, <1>4, <2>1, CausesStand
<1>6. \A t \in Issued : Live(t)' <=> Live(t) /\ t \notin req[r].victims
  BY <1>0, <1>2, RevokeLive
<1>7. \A t \in req[r].victims : Family(t) = g
  BY <1>0, <1>2, <1>3 DEF ClientOK
<1>8. Deaths(r)
  BY <1>5, <1>6, <1>7 DEF Deaths
<1>9. Purges
  <2>1. \A f \in Tokens : f # g => purged'[f] = purged[f]
    BY <1>0, <1>3 DEF ReuseCommit, TypeOK
  <2> QED  BY <1>0, <1>5, <2>1 DEF Purges
<1>10. Births(r) /\ Leaves(r) /\ Drops(r)
  BY <1>1, <1>2 DEF Births, Leaves, Drops, Issued
<1>11. Takes(r) /\ ClientOK(r)'
  BY <1>0, <1>2, FinishedClient
<1>12. Quiet(r)
  BY <1>1, <1>2, <1>4, <1>8, <1>9, <1>10, <1>11 DEF Quiet
<1> QED  BY <1>11, <1>12, QuietStep

(* A password reset is a cause for all families of its user.  About:
   auth_service.py:197-202.                                                *)
LEMMA WipeStep ==
  ASSUME Before, [Next]_vars, NEW r \in Requests, Kept(r),
         UNCHANGED browserVars, ResetCommit(r)
  PROVE  BInv'
<1>0. /\ IInv /\ TypeOK /\ ClientOK(r) /\ req[r].user \in Users
      /\ Issued \subseteq Tokens
  BY Basics DEF Before, BInv, ClientsOK, IInv, HandlersOK, RowsExist,
     ResetCommit
<1>1. UNCHANGED <<cookie_domain, jar, client, undelivered, shared, crossed,
                  left>>
  BY DEF browserVars, histories
<1>2. PICK u \in Users, m \in Nat : u = req[r].user /\ m = req[r].mark
  BY <1>0, ConstantsAssumption DEF TypeOK, Request
<1>3. /\ req[r].pc = "wipe" /\ held' = held /\ nTokens' = nTokens
      /\ purged' = purged
      /\ refresh_tokens' = Revoke(req[r].victims)
      /\ Finish(r)
  BY DEF ResetCommit
<1>4. \A t \in Issued : Live(t)' <=> Live(t) /\ t \notin req[r].victims
  BY <1>0, <1>3, RevokeLive
<1>5. wiped'[u] >= m /\ wiped'[u] \in Nat
  <2>1. wiped[u] \in Nat
    BY <1>0, <1>2, ConstantsAssumption DEF TypeOK
  <2>2. wiped'[u] = IF wiped[u] < m THEN m ELSE wiped[u]
    BY <1>0, <1>2 DEF ResetCommit, TypeOK
  <2> QED  BY <1>2, <2>1, <2>2
<1>6. ASSUME NEW t \in Issued, NEW f \in Issued, f = Family(t),
             Live(t), ~Live(t)'
      PROVE  Cause(f)'
  <2>1. t <= m /\ refresh_tokens[t].user_id = u
    BY <1>0, <1>2, <1>3, <1>4, <1>6 DEF ClientOK
  <2>2. f \in 1..t /\ refresh_tokens[f].user_id = u
    BY <1>0, <1>6, <2>1 DEF IInv, FamiliesAreLineages
  <2>3. refresh_tokens'[f].user_id = u
    BY <1>0, <2>2, StepRowsAge DEF RowsAge
  <2>4. t \in Nat /\ f \in Nat
    BY <1>0, Basics
  <2>5. f <= wiped'[u]
    BY <1>2, <1>5, <2>1, <2>2, <2>4
  <2> QED  BY <2>3, <2>5 DEF Cause
<1>7. Onward
  BY <1>1 DEF Onward
<1>8. Deaths(r)
  BY <1>6 DEF Deaths
<1>9. Births(r) /\ Leaves(r) /\ Drops(r) /\ Purges
  BY <1>1, <1>3 DEF Births, Leaves, Drops, Purges, Issued
<1>10. Takes(r) /\ ClientOK(r)'
  BY <1>0, <1>3, FinishedClient
<1>11. Quiet(r)
  BY <1>1, <1>3, <1>7, <1>8, <1>9, <1>10 DEF Quiet
<1> QED  BY <1>10, <1>11, QuietStep

(* A logout kills the only live token of its session: the session is over,
   and the browser that keeps a cookie of it has a cause for the alarm.
   About: logout of auth.py and auth_service.py:155-160.                   *)
LEMMA LogoutStep ==
  ASSUME Before, [Next]_vars, NEW r \in Requests, Kept(r),
         BrowserLogoutCommit(r)
  PROVE  BInv'
<1>0. /\ IInv /\ JarsOK /\ ClientOK(r) /\ Issued \subseteq Tokens
      /\ \A b \in Browsers : jar[b] = 0 \/ jar[b] \in Issued
      /\ \A t \in Issued : Family(t) \in Issued
      /\ held \subseteq Issued /\ 0 \notin Issued
  BY JarBasics DEF Before, BInv, ClientsOK
<1>1. PICK p, f, c : p = req[r].row /\ f = Family(p) /\ c = client[r]
  OBVIOUS
<1>2. /\ req[r].pc = "logout" /\ held' = held /\ nTokens' = nTokens
      /\ refresh_tokens' = Revoke({p}) /\ purged' = purged
      /\ p \in Issued /\ f \in Issued
      /\ UNCHANGED <<cookie_domain, shared, crossed>>
      /\ Finish(r) /\ InHand(r, f) /\ SessionOK(r)
  BY <1>0, <1>1 DEF BrowserLogoutCommit, LogoutCommit, Before, IInv,
     HandlersOK, RowsExist, InHand, ClientOK
<1>3. \A t \in Issued : /\ Live(t)' <=> Live(t) /\ t # p
                        /\ Family(t)' = Family(t)
  BY <1>0, <1>2, RevokeLive, StepRowsAge DEF RowsAge
<1>4. \/ c = None /\ UNCHANGED <<jar, undelivered, left>> /\ f \in shared
      \/ /\ c \in Browsers
         /\ left' = left \cup ({f} \ shared)
         /\ \/ /\ jar' = [jar EXCEPT ![c] = AfterLogout(c)]
               /\ undelivered' = undelivered
            \/ /\ undelivered' = undelivered \cup ({f} \ shared)
               /\ jar' = jar
  <2>1. CASE c = None
    BY <1>1, <1>2, <2>1 DEF BrowserLogoutCommit, SessionOK
  <2>2. CASE c # None
    BY <1>0, <1>1, <2>2
       DEF BrowserLogoutCommit, LogoutAnswered, Note, JarsOK
  <2> QED  BY <2>1, <2>2
<1>5. \A b \in Browsers : jar'[b] = jar[b] \/ jar'[b] = 0
  BY <1>0, <1>4 DEF JarsOK, AfterLogout
<1>6. Onward
  BY <1>2, <1>4 DEF Onward
<1>7. f \in shared => Cause(f)'
  BY <1>2 DEF Cause
<1>8. ASSUME NEW b \in Browsers, jar'[b] = p PROVE Cause(f)'
  <2>1. jar[b] = p /\ p # 0
    BY <1>0, <1>2, <1>5, <1>8
  <2>2. CASE c = None
    BY <1>4, <1>7, <2>2, BrowserAssumption
  <2>3. CASE c # None /\ f \notin shared
    <3>1. With(b, f) /\ With(c, f)
      BY <1>1, <1>2, <2>1 DEF With
    <3>2. b = c
      BY <1>2, <1>4, <2>3, <3>1 DEF Before, BInv, OneBrowser
    <3>3. f \in left'
      BY <1>4, <2>3
    <3>4. Domain' # None \/ f \in undelivered'
      BY <1>0, <1>2, <1>4, <1>8, <2>1, <2>3, <3>2
         DEF AfterLogout, Domain, JarsOK
    <3> QED  BY <3>3, <3>4 DEF Cause
  <2> QED  BY <1>7, <2>2, <2>3
<1>9. Deaths(r)
  BY <1>1, <1>2, <1>3, <1>8 DEF Deaths
<1>10. Leaves(r)
  <2>1. ASSUME NEW g \in left', g \notin left PROVE g = f
    BY <1>4, <2>1
  <2>2. \A q \in Requests \ {r} : InHand(q, f) => f \in crossed
    BY <1>2 DEF Before, BInv, HandsApart
  <2>3. \A t \in held : Live(t)' /\ Family(t) = f => f \in crossed
    BY <1>0, <1>1, <1>2, <1>3 DEF SessionOK
  <2> QED  BY <1>2, <2>1, <2>2, <2>3 DEF Leaves
<1>11. Births(r) /\ Drops(r) /\ Purges
  BY <1>2 DEF Births, Drops, Purges, Issued
<1>12. Takes(r) /\ ClientOK(r)'
  BY <1>0, <1>2, FinishedClient
<1>13. Quiet(r)
  BY <1>2, <1>5, <1>6, <1>9, <1>10, <1>11, <1>12 DEF Quiet
<1> QED  BY <1>12, <1>13, QuietStep

(* A login opens a session of its browser's own.  About:
   auth_service.py:89-103.                                                 *)
LEMMA IssueStep ==
  ASSUME Before, [Next]_vars, NEW r \in Requests, Kept(r),
         UNCHANGED browserVars, IssueCommit(r)
  PROVE  BInv'
<1>0. /\ IInv /\ TypeOK /\ ClientOK(r) /\ held' = held
      /\ \A t \in Issued : Family(t) \in Issued
  BY JarBasics DEF Before, BInv, ClientsOK, IInv, IssueCommit
<1>1. UNCHANGED <<cookie_domain, jar, client, undelivered, shared, crossed,
                  left>>
  BY DEF browserVars, histories
<1>2. PICK n : n = nTokens + 1
  OBVIOUS
<1>3. /\ n \in Tokens /\ n \notin Issued /\ Issued' = Issued \cup {n}
      /\ Family(n)' = n /\ Live(n)' /\ purged' = purged
      /\ \A t \in Issued : /\ Family(t)' = Family(t)
                           /\ Live(t)' = Live(t)
  BY <1>0, <1>2, IssuedLive
<1>4. /\ req[r].pc = "issue" /\ req'[r].pc = "respond" /\ req'[r].row = n
      /\ client[r] # None
  <2>1. req[r].pc = "issue"
    BY DEF IssueCommit
  <2>2. req[r] \in Request
    BY <1>0 DEF TypeOK
  <2>3. req'[r] = [req[r] EXCEPT !.pc = "respond", !.row = n]
    BY <1>0, <1>2, Becomes DEF IssueCommit
  <2> QED  BY <1>0, <2>1, <2>2, <2>3 DEF Request, ClientOK
<1>5. Family(req[r].row)' = n
  BY <1>3, <1>4 DEF Family
<1>6. Onward
  BY <1>1 DEF Onward
<1>7. Births(r)
  <2>1. ASSUME NEW t \in Issued', Family(t)' = n PROVE t = n
    BY <1>0, <1>3, <2>1
  <2> QED  BY <1>3, <2>1 DEF Births
<1>8. Takes(r)
  BY <1>3, <1>5 DEF Takes, InHand, Family
<1>9. Deaths(r) /\ Drops(r) /\ Leaves(r) /\ Purges
  BY <1>1, <1>3, <1>4 DEF Deaths, Drops, Leaves, Purges
<1>10. ClientOK(r)'
  <2>1. n \notin left
    BY <1>3 DEF Before, BInv, LeftIssued
  <2>2. \A t \in Issued' : Family(t)' = n => t = n
    BY <1>0, <1>3
  <2>3. SessionOK(r)'
    BY <1>1, <1>4, <1>5, <2>2 DEF SessionOK, Family, Live, Issued
  <2>4. Live(req[r].row)'
    BY <1>3, <1>4 DEF Live, Issued
  <2> QED  BY <1>1, <1>4, <1>5, <2>1, <2>3, <2>4 DEF ClientOK
<1>11. Quiet(r)
  BY <1>0, <1>1, <1>6, <1>7, <1>8, <1>9 DEF Quiet
<1> QED  BY <1>10, <1>11, QuietStep

(* A rotation leaves its browser with a dead token and a response on its
   way.  About: auth_service.py:135-152.                                   *)
LEMMA RotateStep ==
  ASSUME Before, [Next]_vars, NEW r \in Requests, Kept(r),
         UNCHANGED browserVars, RotateCommit(r)
  PROVE  BInv'
<1>0. /\ IInv /\ TypeOK /\ JarsOK /\ ClientOK(r) /\ held' = held
      /\ \A b \in Browsers : jar[b] = 0 \/ jar[b] \in Issued
      /\ \A t \in Issued : Family(t) \in Issued
      /\ 0 \notin Issued
  BY JarBasics DEF Before, BInv, ClientsOK, IInv, RotateCommit
<1>1. UNCHANGED <<cookie_domain, jar, client, undelivered, shared, crossed,
                  left>>
  BY DEF browserVars, histories
<1>2. PICK n, p, g, c :
        n = nTokens + 1 /\ p = req[r].row /\ g = Family(p) /\ c = client[r]
  OBVIOUS
<1>3. /\ n \in Tokens /\ n \notin Issued /\ Issued' = Issued \cup {n}
      /\ p \in Issued /\ ~Live(p)' /\ Live(n)'
      /\ Family(p)' = g /\ Family(n)' = g /\ purged' = purged /\ g \in Issued
      /\ \A t \in Issued \ {p} : /\ Family(t)' = Family(t)
                                 /\ Live(t)' = Live(t)
  BY <1>0, <1>2, RotatedTokens
<1>4. /\ req[r].pc = "rotate" /\ req'[r].pc = "respond" /\ req'[r].row = n
      /\ SessionOK(r) /\ g \notin left \ crossed /\ InHand(r, g)
      /\ c \in Browsers \cup {None}
  <2>1. req[r].pc = "rotate"
    BY DEF RotateCommit
  <2>2. req[r] \in Request
    BY <1>0 DEF TypeOK
  <2>3. req'[r] = [req[r] EXCEPT !.pc = "respond", !.row = n]
    BY <1>0, <1>2, Becomes DEF RotateCommit
  <2>4. req'[r].pc = "respond" /\ req'[r].row = n
    BY <2>2, <2>3 DEF Request
  <2> QED  BY <1>0, <1>2, <2>1, <2>4 DEF JarsOK, ClientOK, InHand
<1>5. Family(req[r].row)' = g /\ client'[r] = c
  BY <1>1, <1>2, <1>3, <1>4 DEF Family
<1>6. Onward
  BY <1>1 DEF Onward
<1>7. ASSUME NEW t \in Issued', Live(t)', Family(t)' = g
      PROVE  t = n \/ g \in crossed
  BY <1>2, <1>3, <1>4, <1>7 DEF SessionOK
<1>8. Births(r)
  BY <1>1, <1>3, <1>4, <1>7 DEF Births
<1>9. ASSUME NEW b \in Browsers, jar[b] = p
      PROVE  Cause(g)' \/ c = b
  <2>1. CASE c = None
    BY <1>1, <1>2, <1>4, <2>1 DEF SessionOK, Cause
  <2>2. CASE c # None
    <3>1. With(b, g) /\ With(c, g)
      BY <1>0, <1>2, <1>3, <1>4, <1>9 DEF With
    <3> QED  BY <1>3, <1>4, <2>2, <3>1 DEF Before, BInv, OneBrowser
  <2> QED  BY <2>1, <2>2
<1>10. Deaths(r)
  BY <1>1, <1>2, <1>3, <1>4, <1>5, <1>9 DEF Deaths
<1>11. Takes(r)
  <2>1. \A f \in Issued, q \in Requests \ {r} :
           InHand(r, f)' /\ InHand(q, f) => f \in crossed'
    BY <1>1, <1>3, <1>4, <1>5
       DEF Before, BInv, HandsApart, InHand, Family
  <2>2. c \in Browsers => With(c, g)
    BY <1>2, <1>4 DEF With
  <2> QED  BY <1>5, <2>1, <2>2 DEF Takes
<1>12. Drops(r) /\ Leaves(r) /\ Purges
  BY <1>1, <1>3, <1>4 DEF Drops, Leaves, Purges
<1>13. ClientOK(r)'
  <2>1. SessionOK(r)'
    BY <1>1, <1>2, <1>4, <1>5, <1>7 DEF SessionOK, Family, Live, Issued
  <2>2. Live(req[r].row)'
    BY <1>3, <1>4 DEF Live, Issued
  <2> QED  BY <1>1, <1>4, <1>5, <2>1, <2>2 DEF ClientOK
<1>14. Quiet(r)
  BY <1>0, <1>1, <1>6, <1>8, <1>10, <1>11, <1>12 DEF Quiet
<1> QED  BY <1>13, <1>14, QuietStep

(* A response that is lost is a cause for its family.  About: a process or
   a connection that dies after the commit.                                *)
LEMMA CrashStep ==
  ASSUME Before, [Next]_vars, NEW r \in Requests, Kept(r), BrowserCrash(r)
  PROVE  BInv'
<1>1. /\ UNCHANGED <<refresh_tokens, nTokens, held, purged, wiped>>
      /\ UNCHANGED <<cookie_domain, jar, shared, crossed, left>>
      /\ Finish(r)
      /\ undelivered \subseteq undelivered'
      /\ req[r].pc = "respond" =>
            Family(req[r].row) \in undelivered' \cup shared'
  BY DEF BrowserCrash, Crash, db, Note
<1>2. ClientOK(r)' /\ Takes(r)
  BY <1>1, FinishedClient DEF Before
<1>3. Onward /\ Drops(r)
  BY <1>1 DEF Onward, Drops, Cause
<1> QED  BY <1>1, <1>2, <1>3, ReadingStep DEF Reads

(* The response arrives: the jar of its client holds the token that it
   carries.  About: _set_auth_cookies, auth.py:36-42.                      *)
LEMMA RespondStep ==
  ASSUME Before, [Next]_vars, NEW r \in Requests, Kept(r), BrowserRespond(r)
  PROVE  BInv'
<1>0. /\ IInv /\ TypeOK /\ JarsOK /\ ClientOK(r)
      /\ \A b \in Browsers : jar[b] = 0 \/ jar[b] \in Issued
      /\ \A t \in Issued : Family(t) \in Issued
      /\ held \subseteq Issued
  BY JarBasics DEF Before, BInv, ClientsOK, IInv
<1>1. PICK n, g, c : n = req[r].row /\ g = Family(n) /\ c = client[r]
  OBVIOUS
<1>2. /\ req[r].pc = "respond" /\ held' = held \cup {n}
      /\ UNCHANGED <<refresh_tokens, nTokens, purged, wiped>>
      /\ UNCHANGED <<cookie_domain, undelivered, shared, crossed, left>>
      /\ n \in Issued /\ g \in Issued
      /\ Finish(r)
  BY <1>0, <1>1 DEF BrowserRespond, Respond, db, histories, Before, IInv,
     HandlersOK, RowsExist
<1>3. /\ SessionOK(r) /\ g \notin left \ crossed
      /\ Live(n) \/ Cause(g)
  BY <1>0, <1>1, <1>2 DEF ClientOK
<1>4. \A b \in Browsers : \/ jar'[b] = jar[b] /\ (b # c \/ c = None)
                          \/ b = c /\ jar'[b] = n /\ c # None
  BY <1>0, <1>1 DEF BrowserRespond, Deliver, JarsOK
<1>5. /\ \A t : Live(t)' = Live(t) /\ Family(t)' = Family(t)
      /\ \A f : Cause(f) => Cause(f)'
      /\ Issued' = Issued /\ Domain' = Domain
  BY <1>2 DEF Live, Family, Issued, Cause, Domain
<1>6. Onward /\ Births(r) /\ Deaths(r) /\ Leaves(r) /\ Purges
  BY <1>2, <1>5 DEF Onward, Births, Deaths, Leaves, Purges
<1>7. req'[r].pc = "idle" /\ ClientOK(r)' /\ Takes(r) /\ RowsAge
  BY <1>0, <1>2, FinishedClient, StepRowsAge
<1>8. ClientsOK'
  BY <1>6, <1>7, QuietClientOK DEF ClientsOK
<1>9. HandsApart' /\ OneLive'
  BY <1>6, <1>7, QuietHandsApart, QuietOneLive DEF Onward, Takes
<1>10. OneBrowser'
  <2>1. ASSUME NEW f \in Issued, NEW b \in Browsers, With(b, f)'
        PROVE  With(b, f)
    <3>1. CASE jar'[b] # 0 /\ refresh_tokens'[jar'[b]].family_id = f
      <4>1. CASE jar'[b] = jar[b]
        BY <1>2, <3>1, <4>1 DEF With, Family
      <4>2. CASE b = c /\ jar'[b] = n
        BY <1>1, <1>2, <3>1, <4>2 DEF With, Family
      <4> QED  BY <1>4, <4>1, <4>2
    <3>2. ASSUME NEW q \in Requests, client'[q] = b,
                 req'[q].pc \in {"rotate", "logout", "respond"},
                 Family(req[q].row)' = f
          PROVE  With(b, f)
      <4>1. q # r
        BY <1>7, <3>2
      <4>2. req[q] = req'[q] /\ client[q] = b
        BY <3>2, <4>1 DEF Kept
      <4>3. Family(req[q].row) = f
        BY <1>2, <3>2, <4>2 DEF Family
      <4> QED  BY <3>2, <4>2, <4>3 DEF With
    <3> QED  BY <2>1, <3>1, <3>2 DEF With, Family
  <2> QED  BY <1>5, <2>1 DEF Before, BInv, OneBrowser
<1>11. JarHasTheLiveToken'
  <2>1. ASSUME NEW b \in Browsers, NEW u, u = jar'[b], u # 0,
               NEW t \in held \cup {n}, Family(t) = Family(u), Live(t)
        PROVE  t = u \/ Family(t) \in shared \cup crossed
    <3>1. t \in Issued
      BY <1>0, <1>2
    <3>2. CASE u = n
      BY <1>1, <1>3, <2>1, <3>1, <3>2 DEF SessionOK
    <3>3. CASE u = jar[b] /\ (b # c \/ c = None)
      <4>1. CASE t \in held
        BY <2>1, <3>3, <4>1 DEF Before, BInv, JarHasTheLiveToken
      <4>2. CASE t = n /\ c = None
        BY <1>1, <1>3, <4>2 DEF SessionOK
      <4>3. CASE t = n /\ c # None
        <5>1. c \in Browsers
          BY <1>0, <1>1, <4>3 DEF JarsOK
        <5>2. With(b, g) /\ With(c, g)
          BY <1>1, <1>2, <2>1, <3>3, <4>3 DEF With
        <5> QED  BY <1>2, <3>3, <4>3, <5>1, <5>2 DEF Before, BInv, OneBrowser
      <4> QED  BY <2>1, <4>1, <4>2, <4>3
    <3> QED  BY <1>4, <2>1, <3>2, <3>3
  <2> QED  BY <1>2, <1>5, <2>1 DEF JarHasTheLiveToken, Family, Live, Issued
<1>12. DeadTokensExplained'
  <2>1. ASSUME NEW b \in Browsers, NEW t, t = jar'[b], t # 0, ~Live(t)
        PROVE  \/ Cause(Family(t))
               \/ \E q \in Requests : /\ req'[q].pc = "respond"
                                      /\ client'[q] = b
                                      /\ Family(req[q].row)' = Family(t)
    <3>1. CASE t = n
      BY <1>1, <1>3, <2>1, <3>1
    <3>2. CASE t = jar[b] /\ (b # c \/ c = None)
      <4>1. ASSUME NEW q \in Requests, req[q].pc = "respond", client[q] = b,
                   Family(req[q].row) = Family(t)
            PROVE  /\ req'[q].pc = "respond" /\ client'[q] = b
                   /\ Family(req[q].row)' = Family(t)
        <5>1. q # r
          BY <1>1, <3>2, <4>1, BrowserAssumption
        <5>2. req'[q] = req[q] /\ client'[q] = b
          BY <4>1, <5>1 DEF Kept
        <5> QED  BY <1>2, <4>1, <5>2 DEF Family
      <4> QED  BY <2>1, <3>2, <4>1 DEF Before, BInv, DeadTokensExplained
    <3> QED  BY <1>4, <2>1, <3>1, <3>2
  <2> QED  BY <1>2, <1>5, <2>1
           DEF DeadTokensExplained, Cause, Live, Family, Issued, Domain
<1>13. LogoutEndsSession'
  BY <1>1, <1>2, <1>3, <1>5 DEF Before, BInv, LogoutEndsSession
<1>14. LeftIssued'
  BY <1>2, <1>5 DEF Before, BInv, LeftIssued
<1> QED  BY <1>6, <1>8, <1>9, <1>10, <1>11, <1>12, <1>13, <1>14, QuietAlarms
         DEF BInv

(* Time passes, or nothing happens.                                        *)
LEMMA IdleStep ==
  ASSUME Before, UNCHANGED browserVars, Tick \/ UNCHANGED vars
  PROVE  BInv'
<1>1. UNCHANGED <<refresh_tokens, nTokens, req, held, purged, wiped>>
  BY DEF Tick, vars, db
<1>2. UNCHANGED <<cookie_domain, jar, client, undelivered, shared, crossed,
                  left>>
  BY DEF browserVars, histories
<1>3. /\ \A t : Live(t)' = Live(t) /\ Family(t)' = Family(t)
      /\ Issued' = Issued /\ Domain' = Domain
  BY <1>1, <1>2 DEF Live, Family, Issued, Domain
<1>4. OneBrowser' /\ HandsApart' /\ OneLive' /\ LeftIssued'
  BY <1>1, <1>2 DEF Before, BInv, OneBrowser, HandsApart, OneLive, LeftIssued,
     With, InHand, Live, Family, Issued
<1>5. JarHasTheLiveToken' /\ DeadTokensExplained' /\ ClientsOK'
  BY <1>1, <1>2 DEF Before, BInv, JarHasTheLiveToken, DeadTokensExplained,
     ClientsOK, ClientOK, SessionOK, Cause, Domain, Live, Family, Issued
<1>6. NothingPurgedAhead' /\ LogoutEndsSession' /\ AlarmHasCause'
  BY <1>1, <1>2 DEF Before, BInv, NothingPurgedAhead, LogoutEndsSession,
     AlarmHasCause, Domain, Live, Family, Issued
<1> QED  BY <1>4, <1>5, <1>6 DEF BInv

(* All the steps.                                                          *)
LEMMA StepBInv ==
  IInv /\ JarsOK /\ BInv /\ [Next]_vars /\ [BrowserNext]_allVars => BInv'
<1> SUFFICES ASSUME Before, [Next]_vars, [BrowserNext]_allVars
             PROVE  BInv'
  BY DEF Before
<1>1. ASSUME NEW r \in Requests, NEW b \in Browsers, BrowserArrive(r, b)
      PROVE  BInv'
  <2>1. Kept(r)
    BY <1>1, StepKeeps DEF Before
  <2> QED  BY <1>1, <2>1, LoginStep, PresentStep, ReuseStep, UnreadLogoutStep
           DEF BrowserArrive
<1>2. ASSUME NEW r \in Requests, OtherArrive(r) PROVE BInv'
  <2>1. Kept(r)
    BY <1>2, StepKeeps DEF Before
  <2> QED  BY <1>2, <2>1, OtherStep, ResetArrivalStep DEF OtherArrive
<1>3. ASSUME NEW r \in Requests, BrowserContinue(r) PROVE BInv'
  <2>1. Kept(r)
    BY <1>3, StepKeeps DEF Before
  <2> QED  BY <1>3, <2>1, RespondStep, LogoutStep, ContinueStep, IssueStep,
              RotateStep, PurgeStep, WipeStep DEF BrowserContinue
<1>4. ASSUME NEW r \in Requests, BrowserCrash(r) PROVE BInv'
  BY <1>4, StepKeeps, CrashStep DEF Before
<1>5. CASE Tick /\ UNCHANGED browserVars
  BY <1>5, IdleStep
<1>6. CASE UNCHANGED allVars
  BY <1>6, IdleStep DEF allVars
<1> QED  BY <1>1, <1>2, <1>3, <1>4, <1>5, <1>6 DEF BrowserNext

(* A browser starts with an empty jar and no history.                      *)
LEMMA InitBInv == BrowserInit => BInv
<1> SUFFICES ASSUME BrowserInit PROVE BInv
  OBVIOUS
<1>1. Issued = {} /\ held = {}
  BY DEF BrowserInit, Init, Issued
<1>2. ClientsOK /\ HandsApart
  BY DEF BrowserInit, Init, ClientsOK, ClientOK, HandsApart, InHand, Idle
<1> QED  BY <1>1, <1>2 DEF BrowserInit, Init, BInv, OneBrowser, OneLive,
         JarHasTheLiveToken, DeadTokensExplained, LeftIssued,
         NothingPurgedAhead, LogoutEndsSession, AlarmHasCause

-----------------------------------------------------------------------------
(* Theorems: any number of browsers and of overlapping requests.           *)

(* The invariant of jars, clients and histories.  About: auth.py as a
   client of auth_service.py.                                              *)
THEOREM JarInvariant == BrowserSpec => []BInv
<1>1. BrowserSpec => [][Next]_vars
  BY BrowsersAreAllowed, PTL DEF Spec
<1>2. BrowserSpec => []IInv
  BY BrowsersAreAllowed, InductiveInvariant, PTL
<1> QED
  BY <1>1, <1>2, InitBInv, StepBInv, JarsHoldDelivered, PTL DEF BrowserSpec

(* After a logout nobody holds a live token of the session, unless another
   client took part in it or requests for it crossed; also when the browser
   logged out with a token that it had failed to replace.  About: logout
   and revoke_refresh_token, which revokes a single row.                   *)
THEOREM LogoutEnds == BrowserSpec => []LogoutEndsSession
<1>1. BInv => LogoutEndsSession
  BY DEF BInv
<1> QED  BY <1>1, JarInvariant, PTL

(* A browser is taken for a thief only for one of the causes listed,
   whatever the requests of other sessions do meanwhile.  About:
   auth_service.py:117-130, auth.py:36-42 and 101-102.                     *)
THEOREM AlarmsHaveCauses == BrowserSpec => []AlarmHasCause
<1>1. BInv => AlarmHasCause
  BY DEF BInv
<1> QED  BY <1>1, JarInvariant, PTL
=============================================================================
