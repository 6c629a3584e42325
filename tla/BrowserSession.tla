--------------------------- MODULE BrowserSession ---------------------------
(***************************************************************************)
(* RefreshTokens behind browsers: the cookie jar that login and refresh    *)
(* fill and logout is meant to empty (app/api/v1/auth.py), with responses  *)
(* that get lost.  Every step is a step of RefreshTokens, or one of a jar. *)
(*                                                                         *)
(* A browser presents what is in its jar.  Any other holder of a raw token *)
(* (a script, a thief) presents what it likes: those are the arrivals of   *)
(* RefreshTokens itself.                                                   *)
(*                                                                         *)
(* _cookie_kwargs sets a Domain unless cookie_domain is "localhost";       *)
(* delete_cookie of logout gives none.  To a browser a cookie with a       *)
(* Domain and one without are two cookies (RFC 6265, 5.3), so that the     *)
(* deletion reaches the cookies of "localhost" only.                       *)
(***************************************************************************)
EXTENDS RefreshTokens

CONSTANTS
    Browsers,
    CookieDomains   \* values of settings.cookie_domain

ASSUME BrowserAssumption == None \notin Browsers

VARIABLES
    cookie_domain,  \* settings.cookie_domain, read once at start
    jar,            \* per browser: the row of the refresh token in its
                    \* cookie, 0 for none; the access cookie is set and
                    \* deleted together with it
    client,         \* per request slot: the browser that its response
                    \* will set or delete cookies of, or None
    undelivered,    \* history: families with a response that was lost
    shared,         \* history: families of which some other holder
                    \* presented a token
    crossed,        \* history: families of which a token was presented
                    \* before the answer to the last one had arrived
    left            \* history: families that a browser logged out of

histories == <<undelivered, shared, crossed, left>>
browserVars == <<cookie_domain, jar, client, histories>>
allVars == <<vars, browserVars>>

-----------------------------------------------------------------------------
(* _cookie_kwargs: the Domain that login and refresh give their cookies.   *)
Domain == IF cookie_domain = "localhost" THEN None ELSE cookie_domain

(* Mutant of AfterLogout: settings.cookie_domain is used as it is.         *)
AfterLogoutAnyDomain(b) == jar[b]

(* What the browser keeps when it has read the response of logout.         *)
AfterLogout(b) ==
    IF Domain = None THEN 0 ELSE jar[b]

(* The family of the cookie that a browser presents, none as a set.        *)
FamilyOf(b) == IF jar[b] = 0 THEN {} ELSE {Family(jar[b])}

(* A response with cookies reaches the client of request r.                *)
Deliver(r, cookies) ==
    jar' = IF client[r] = None THEN jar
           ELSE [jar EXCEPT ![client[r]] = cookies]

(* A handler that has finished has no client any more.                     *)
HangUp(r) == client' = [client EXCEPT ![r] = None]

(* The history of families in which another client takes part ends there.  *)
Note(set, S) == set \cup (S \ shared)

(* Request r has a token of family f in hand: from the SELECT that finds the
   token to the arrival of the response.                                   *)
InHand(r, f) ==
    /\ req[r].pc \in {"rotate", "reuse", "purge", "logout", "respond"}
    /\ Family(req[r].row) = f

(* A token of the families S is presented: two requests may cross.         *)
Cross(S) ==
    crossed' = crossed \cup {f \in S : \E r \in Requests : InHand(r, f)}

-----------------------------------------------------------------------------
(* Arrivals.                                                               *)

Sends(r, b) ==
    /\ client' = [client EXCEPT ![r] = b]
    /\ UNCHANGED <<cookie_domain, jar, undelivered, shared, left>>

BrowserLogin(r, b, u, p) ==
    /\ LoginRead(r, u, p)
    /\ Sends(r, b)
    /\ UNCHANGED crossed

BrowserRefresh(r, b) ==
    /\ jar[b] # 0
    /\ RefreshRead(r, jar[b])
    /\ Sends(r, b)
    /\ Cross(FamilyOf(b))

(* The browser presents a dead token; the 401 will touch no cookie.        *)
BrowserReuse(r, b) ==
    /\ jar[b] # 0
    /\ RefreshReuse(r, jar[b])
    /\ Cross(FamilyOf(b))
    /\ UNCHANGED <<cookie_domain, jar, client, undelivered, shared, left>>

BrowserLogout(r, b) ==
    /\ jar[b] # 0
    /\ LogoutRead(r, jar[b])
    /\ Sends(r, b)
    /\ Cross(FamilyOf(b))

(* The response of a logout arrives, and the browser does with its cookies
   what it says, or it is lost.                                            *)
LogoutAnswered(b, S) ==
    /\ left' = Note(left, S)
    /\ \/ jar' = [jar EXCEPT ![b] = AfterLogout(b)] /\ UNCHANGED undelivered
       \/ undelivered' = Note(undelivered, S) /\ UNCHANGED jar

(* Mutant of BrowserLogoutUnread: revoke_refresh_token is not called.      *)
BrowserLogoutUnreadAny(r, b) ==
    /\ req[r].pc = "idle"
    /\ Cross(FamilyOf(b))
    /\ LogoutAnswered(b, FamilyOf(b))
    /\ UNCHANGED <<vars, cookie_domain, client, shared>>

(* The presented token is revoked already, or there is none: nothing is
   written, the response is the same.                                      *)
BrowserLogoutUnread(r, b) ==
    /\ req[r].pc = "idle"
    /\ ~Live(jar[b])
    /\ Cross(FamilyOf(b))
    /\ LogoutAnswered(b, FamilyOf(b))
    /\ UNCHANGED <<vars, cookie_domain, client, shared>>

(* Another client presents a token that once reached a browser, or one that
   it got for such a token.                                                *)
OtherPresents(r, t) ==
    /\ RefreshRead(r, t) \/ RefreshReuse(r, t) \/ LogoutRead(r, t)
    /\ client' = [client EXCEPT ![r] = None]
    /\ shared' = shared \cup {Family(t)}
    /\ undelivered' = undelivered \ {Family(t)}
    /\ left' = left \ {Family(t)}
    /\ Cross({Family(t)})
    /\ UNCHANGED <<cookie_domain, jar>>

(* Forgotten passwords come without cookies.                               *)
OtherArrive(r) ==
    \/ \E t \in held : OtherPresents(r, t)
    \/ /\ \/ \E u \in Users : RequestReset(r, u)
          \/ \E k \in mailed, p \in Passwords : ResetRead(r, k, p)
       /\ UNCHANGED browserVars

-----------------------------------------------------------------------------
(* The handler goes on; what ends with a response reaches the jar or not.  *)

BrowserRespond(r) ==
    /\ Respond(r)
    /\ Deliver(r, req[r].row)
    /\ HangUp(r)
    /\ UNCHANGED <<cookie_domain, histories>>

BrowserLogoutCommit(r) ==
    /\ LogoutCommit(r)
    /\ IF client[r] = None THEN UNCHANGED <<jar, undelivered, left>>
       ELSE LogoutAnswered(client[r], {Family(req[r].row)})
    /\ HangUp(r)
    /\ UNCHANGED <<cookie_domain, shared, crossed>>

(* The other steps answer nobody, or without cookies.                      *)
BrowserContinue(r) ==
    \/ BrowserRespond(r) \/ BrowserLogoutCommit(r)
    \/ /\ \/ LoginCommit(r) \/ IssueCommit(r)
          \/ RotateCommit(r) \/ ReuseScan(r) \/ ReuseCommit(r)
          \/ SendReset(r) \/ ResetScan(r) \/ ResetCommit(r)
       /\ UNCHANGED browserVars

BrowserCrash(r) ==
    /\ Crash(r)
    /\ undelivered' = IF req[r].pc = "respond"
                      THEN Note(undelivered, {Family(req[r].row)})
                      ELSE undelivered
    /\ HangUp(r)
    /\ UNCHANGED <<cookie_domain, jar, shared, crossed, left>>

-----------------------------------------------------------------------------
BrowserInit ==
    /\ Init
    /\ cookie_domain \in CookieDomains
    /\ jar = [b \in Browsers |-> 0]
    /\ client = [r \in Requests |-> None]
    /\ undelivered = {} /\ shared = {} /\ crossed = {} /\ left = {}

BrowserArrive(r, b) ==
    \/ \E u \in Users, p \in Passwords : BrowserLogin(r, b, u, p)
    \/ BrowserRefresh(r, b) \/ BrowserReuse(r, b)
    \/ BrowserLogout(r, b) \/ BrowserLogoutUnread(r, b)

BrowserNext ==
    \/ \E r \in Requests :
          \/ \E b \in Browsers : BrowserArrive(r, b)
          \/ OtherArrive(r) \/ BrowserContinue(r) \/ BrowserCrash(r)
    \/ Tick /\ UNCHANGED browserVars

BrowserSpec == BrowserInit /\ [][BrowserNext]_allVars

-----------------------------------------------------------------------------
(* Properties.                                                             *)

(* Reuse detection has a cause: a family is purged only if one of its
   responses was lost, if another client presented one of its tokens, if a
   request for it was sent before the last one was answered, if a password
   reset had revoked it, or, with a cookie domain, after its browser logged
   out and kept the cookie.  Otherwise a browser is not taken for a thief,
   whatever the requests of other sessions, or a second login of the same
   browser, do meanwhile.
   About: auth_service.py:117-130, auth.py:36-42 and 101-102.              *)
AlarmHasCause ==
    \A f \in Issued : purged[f] > 0 =>
        \/ f \in undelivered \cup shared \cup crossed
        \/ f <= wiped[refresh_tokens[f].user_id]
        \/ f \in left /\ Domain # None

(* After a logout, and unless another client took part in the session or
   requests for it crossed, nobody holds a token of it that can still be
   refreshed: also when the browser logs out with a token that it had
   failed to replace.
   About: logout and revoke_refresh_token, which revokes a single row.     *)
LogoutEndsSession ==
    \A t \in held : Family(t) \in left \ crossed => ~Live(t)
=============================================================================
