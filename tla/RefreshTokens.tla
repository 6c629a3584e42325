--------------------------- MODULE RefreshTokens ---------------------------
(***************************************************************************)
(* The sessions of app/services/auth_service.py: login, refresh-token      *)
(* rotation with reuse detection, logout, forgot-password and              *)
(* reset-password, run by concurrent HTTP requests.                        *)
(*                                                                         *)
(* Every request owns one AsyncSession, hence one PostgreSQL transaction   *)
(* at READ COMMITTED.  A handler awaits the database between its SELECTs   *)
(* and its commit, so each SELECT whose result is used later is a step,    *)
(* and "flush + COMMIT" is one step: its writes become visible together,   *)
(* on top of whatever other requests committed since the SELECT (the ORM   *)
(* issues UPDATE ... WHERE id = :id with constants, it compares nothing).  *)
(*                                                                         *)
(* A row of refresh_tokens is named by its place in commit order, a family *)
(* by the row that the login inserted (family_id is a uuid4 drawn once per *)
(* login), and a raw token by its row (the hash is injective).  revoked_at *)
(* and used_at are read only as "is None", so they are booleans.           *)
(***************************************************************************)
EXTENDS Naturals

CONSTANTS
    Users,          \* rows of the users table, all registered beforehand
    ActiveUsers,    \* those with is_active: no code in src/ writes the column
    Passwords,      \* password values, compared only for equality
    Requests,       \* request slots: how many handlers may overlap
    None,           \* no user, no password
    RefreshTTL,     \* refresh_token_expiry(), in ticks
    ResetTTL,       \* PASSWORD_RESET_TTL, in ticks
    MaxTokens,      \* bound: refresh_tokens rows ever inserted
    MaxResets,      \* bound: password_resets rows ever inserted
    MaxTime         \* bound: ticks of the clock

ASSUME ConstantsAssumption ==
    /\ ActiveUsers \subseteq Users
    /\ None \notin Users
    /\ None \notin Passwords
    /\ RefreshTTL \in Nat
    /\ ResetTTL \in Nat
    /\ MaxTokens \in Nat
    /\ MaxResets \in Nat
    /\ MaxTime \in Nat

VARIABLES
    refresh_tokens,   \* the table; rows above nTokens are not inserted yet
    nTokens,          \* rows inserted so far
    password_resets,  \* the table; rows above nResets are not inserted yet
    nResets,
    password,         \* users.password_hash, as the password it verifies
    now,              \* datetime.now(timezone.utc)
    req,              \* per request slot: where its handler is, what it read
    held,             \* raw refresh tokens that reached a client
    mailed,           \* raw reset tokens that reached a mailbox
    purged,           \* history: per family, the rows a committed reuse
                      \* detection had in front of it when it scanned
    wiped             \* history: the same per user, for password resets

db == <<refresh_tokens, nTokens, password_resets, nResets, password>>
vars == <<db, now, req, held, mailed, purged, wiped>>

-----------------------------------------------------------------------------
(* Tables and request records.                                             *)

Tokens == 1..MaxTokens
Resets == 1..MaxResets
Issued == 1..nTokens

RefreshToken ==
    [user_id : Users \cup {None}, family_id : 0..MaxTokens,
     expires_at : Nat, revoked : BOOLEAN, replaced_by_id : 0..MaxTokens]

PasswordReset ==
    [user_id : Users \cup {None}, expires_at : Nat, used : BOOLEAN]

(* Where a handler can be suspended:
     login   password verified, before the commit of authenticate_user
     issue   authenticated, before the commit of issue_refresh_token
     rotate  the presented token was live when it was read
     reuse   the presented token was revoked when it was read
     purge   the family's unrevoked members have been listed
     logout  the token to revoke was live when it was read
     reset   the reset token was unused when it was read
     wipe    password_hash and used_at flushed, live tokens listed
     respond committed, the cookies not delivered yet
     mail    committed, the reset mail not sent yet                        *)
Stages == {"idle", "login", "issue", "rotate", "reuse", "purge", "logout",
           "reset", "wipe", "respond", "mail"}

Request ==
    [pc : Stages, user : Users \cup {None}, row : Nat,
     victims : SUBSET Tokens, mark : 0..MaxTokens,
     password : Passwords \cup {None}]

Idle == [pc |-> "idle", user |-> None, row |-> 0, victims |-> {},
         mark |-> 0, password |-> None]

BlankToken == [user_id |-> None, family_id |-> 0, expires_at |-> 0,
               revoked |-> FALSE, replaced_by_id |-> 0]

BlankReset == [user_id |-> None, expires_at |-> 0, used |-> FALSE]

-----------------------------------------------------------------------------
(* What the handlers ask of the tables.                                    *)

Live(t) == t \in Issued /\ ~refresh_tokens[t].revoked

Family(t) == refresh_tokens[t].family_id

Expired(row) == row.expires_at < now

(* Mutant of NewToken: the rotated row starts a family of its own.         *)
NewTokenOwnFamily(u, f) ==
    [user_id |-> u, family_id |-> nTokens + 1, expires_at |-> now + RefreshTTL,
     revoked |-> FALSE, replaced_by_id |-> 0]

NewToken(u, f) ==
    [user_id |-> u, family_id |-> f, expires_at |-> now + RefreshTTL,
     revoked |-> FALSE, replaced_by_id |-> 0]

Insert(row) == [refresh_tokens EXCEPT ![nTokens + 1] = row]

(* Mutant of Rotated: the presented token stays live.                      *)
RotatedNotRevoked(row, successor) ==
    [row EXCEPT !.replaced_by_id = successor]

Rotated(row, successor) ==
    [row EXCEPT !.revoked = TRUE, !.replaced_by_id = successor]

Revoke(S) ==
    [t \in Tokens |-> IF t \in S
                      THEN [refresh_tokens[t] EXCEPT !.revoked = TRUE]
                      ELSE refresh_tokens[t]]

(* Mutant of FamilyMembers: only the successor of the replayed token.      *)
FamilyMembersNext(t) ==
    {m \in Issued : Live(m) /\ m = refresh_tokens[t].replaced_by_id}

FamilyMembers(t) == {m \in Issued : Live(m) /\ Family(m) = Family(t)}

(* Mutant of UserTokens: skips the tokens that came from a rotation.       *)
UserTokensOfLogins(u) ==
    {m \in Issued : Live(m) /\ refresh_tokens[m].user_id = u /\ Family(m) = m}

UserTokens(u) == {m \in Issued : Live(m) /\ refresh_tokens[m].user_id = u}

(* Mutant of Locked: the row lock is taken by a second connection before
   the handler asks for it.                                                *)
LockedSinceRead(u) ==
    \E q \in Requests : req[q].pc \in {"reset", "wipe"} /\ req[q].user = u

(* reset_password's SELECT of the tokens autoflushes the UPDATE of users,
   whose row lock is then held to the end of the transaction.              *)
Locked(u) == \E q \in Requests : req[q].pc = "wipe" /\ req[q].user = u

Become(r, h) == req' = [req EXCEPT ![r] = h]
Finish(r) == Become(r, Idle)

-----------------------------------------------------------------------------
(* POST /auth/login: authenticate_user commits last_login_at and an audit  *)
(* row in one transaction, issue_refresh_token inserts in a second one.    *)

LoginRead(r, u, p) ==
    /\ req[r].pc = "idle"
    /\ p = password[u]
    /\ u \in ActiveUsers
    /\ Become(r, [Idle EXCEPT !.pc = "login", !.user = u])
    /\ UNCHANGED <<db, now, held, mailed, purged, wiped>>

LoginCommit(r) ==
    /\ req[r].pc = "login"
    /\ ~Locked(req[r].user)         \* UPDATE users SET last_login_at
    /\ Become(r, [req[r] EXCEPT !.pc = "issue"])
    /\ UNCHANGED <<db, now, held, mailed, purged, wiped>>

(* Mutant of IssueCommit: no "or uuid.uuid4()" for a login's family.       *)
IssueCommitNoFamily(r) ==
    /\ req[r].pc = "issue"
    /\ nTokens < MaxTokens
    /\ nTokens' = nTokens + 1
    /\ refresh_tokens' = Insert(NewToken(req[r].user, req[r].row))
    /\ Become(r, [req[r] EXCEPT !.pc = "respond", !.row = nTokens + 1])
    /\ UNCHANGED <<password_resets, nResets, password,
                   now, held, mailed, purged, wiped>>

IssueCommit(r) ==
    /\ req[r].pc = "issue"
    /\ nTokens < MaxTokens
    /\ nTokens' = nTokens + 1
    /\ refresh_tokens' = Insert(NewToken(req[r].user, nTokens + 1))
    /\ Become(r, [req[r] EXCEPT !.pc = "respond", !.row = nTokens + 1])
    /\ UNCHANGED <<password_resets, nResets, password,
                   now, held, mailed, purged, wiped>>

(* _set_auth_cookies: the response carries the raw token to the client.    *)
Respond(r) ==
    /\ req[r].pc = "respond"
    /\ held' = held \cup {req[r].row}
    /\ Finish(r)
    /\ UNCHANGED <<db, now, mailed, purged, wiped>>

-----------------------------------------------------------------------------
(* POST /auth/refresh: rotate_refresh_token.                               *)

RefreshRead(r, t) ==
    /\ req[r].pc = "idle"
    /\ Live(t)
    /\ ~Expired(refresh_tokens[t])
    /\ Become(r, [Idle EXCEPT !.pc = "rotate", !.row = t])
    /\ UNCHANGED <<db, now, held, mailed, purged, wiped>>

(* The revocation test comes before the expiry test: an expired token that
   was revoked still triggers reuse detection.                             *)
RefreshReuse(r, t) ==
    /\ req[r].pc = "idle"
    /\ refresh_tokens[t].revoked
    /\ Become(r, [Idle EXCEPT !.pc = "reuse", !.row = t])
    /\ UNCHANGED <<db, now, held, mailed, purged, wiped>>

(* The successor is flushed first, so that replaced_by_id can point to it;
   is_active is not looked at.                                             *)
RotateCommit(r) ==
    LET t == req[r].row IN
    /\ req[r].pc = "rotate"
    /\ nTokens < MaxTokens
    /\ nTokens' = nTokens + 1
    /\ refresh_tokens' =
         [Insert(NewToken(refresh_tokens[t].user_id, Family(t)))
            EXCEPT ![t] = Rotated(@, nTokens + 1)]
    /\ Become(r, [req[r] EXCEPT !.pc = "respond", !.row = nTokens + 1])
    /\ UNCHANGED <<password_resets, nResets, password,
                   now, held, mailed, purged, wiped>>

ReuseScan(r) ==
    /\ req[r].pc = "reuse"
    /\ Become(r, [req[r] EXCEPT !.pc = "purge", !.mark = nTokens,
                             !.victims = FamilyMembers(req[r].row)])
    /\ UNCHANGED <<db, now, held, mailed, purged, wiped>>

ReuseCommit(r) ==
    LET f == Family(req[r].row) IN
    /\ req[r].pc = "purge"
    /\ refresh_tokens' = Revoke(req[r].victims)
    /\ purged' = [purged EXCEPT
                    ![f] = IF @ < req[r].mark THEN req[r].mark ELSE @]
    /\ Finish(r)
    /\ UNCHANGED <<nTokens, password_resets, nResets, password,
                   now, held, mailed, wiped>>

-----------------------------------------------------------------------------
(* POST /auth/logout: revoke_refresh_token.                                *)

LogoutRead(r, t) ==
    /\ req[r].pc = "idle"
    /\ Live(t)
    /\ Become(r, [Idle EXCEPT !.pc = "logout", !.row = t])
    /\ UNCHANGED <<db, now, held, mailed, purged, wiped>>

LogoutCommit(r) ==
    /\ req[r].pc = "logout"
    /\ refresh_tokens' = Revoke({req[r].row})
    /\ Finish(r)
    /\ UNCHANGED <<nTokens, password_resets, nResets, password,
                   now, held, mailed, purged, wiped>>

-----------------------------------------------------------------------------
(* POST /auth/forgot-password: the row is committed, then the mail sent.   *)

RequestReset(r, u) ==
    /\ req[r].pc = "idle"
    /\ nResets < MaxResets
    /\ nResets' = nResets + 1
    /\ password_resets' = [password_resets EXCEPT
            ![nResets'] = [user_id |-> u, expires_at |-> now + ResetTTL,
                           used |-> FALSE]]
    /\ Become(r, [Idle EXCEPT !.pc = "mail", !.row = nResets + 1])
    /\ UNCHANGED <<refresh_tokens, nTokens, password,
                   now, held, mailed, purged, wiped>>

SendReset(r) ==
    /\ req[r].pc = "mail"
    /\ mailed' = mailed \cup {req[r].row}
    /\ Finish(r)
    /\ UNCHANGED <<db, now, held, purged, wiped>>

-----------------------------------------------------------------------------
(* POST /auth/reset-password: reset_password.                              *)

ResetRead(r, k, p) ==
    /\ req[r].pc = "idle"
    /\ ~password_resets[k].used
    /\ ~Expired(password_resets[k])
    /\ Become(r, [Idle EXCEPT !.pc = "reset", !.row = k, !.password = p,
                              !.user = password_resets[k].user_id])
    /\ UNCHANGED <<db, now, held, mailed, purged, wiped>>

(* The SELECT of the user's unrevoked tokens, after the autoflush: waits
   for the users row, then holds it.                                       *)
ResetScan(r) ==
    /\ req[r].pc = "reset"
    /\ ~Locked(req[r].user)
    /\ Become(r, [req[r] EXCEPT !.pc = "wipe", !.mark = nTokens,
                             !.victims = UserTokens(req[r].user)])
    /\ UNCHANGED <<db, now, held, mailed, purged, wiped>>

ResetCommit(r) ==
    LET u == req[r].user IN
    /\ req[r].pc = "wipe"
    /\ password' = [password EXCEPT ![u] = req[r].password]
    /\ password_resets' = [password_resets EXCEPT ![req[r].row].used = TRUE]
    /\ refresh_tokens' = Revoke(req[r].victims)
    /\ wiped' = [wiped EXCEPT
                   ![u] = IF @ < req[r].mark THEN req[r].mark ELSE @]
    /\ Finish(r)
    /\ UNCHANGED <<nTokens, nResets, now, held, mailed, purged>>

-----------------------------------------------------------------------------
(* The environment.                                                        *)

(* The process dies, the database connection drops or the client is gone:
   PostgreSQL rolls the open transaction back, what was committed stays,
   and a raw token that was not delivered is lost with the handler.        *)
Crash(r) ==
    /\ req[r].pc # "idle"
    /\ Finish(r)
    /\ UNCHANGED <<db, now, held, mailed, purged, wiped>>

Tick ==
    /\ now < MaxTime
    /\ now' = now + 1
    /\ UNCHANGED <<db, req, held, mailed, purged, wiped>>

-----------------------------------------------------------------------------
Init ==
    /\ refresh_tokens = [t \in Tokens |-> BlankToken]
    /\ nTokens = 0
    /\ password_resets = [k \in Resets |-> BlankReset]
    /\ nResets = 0
    /\ password \in [Users -> Passwords]
    /\ now = 0
    /\ req = [r \in Requests |-> Idle]
    /\ held = {}
    /\ mailed = {}
    /\ purged = [f \in Tokens |-> 0]
    /\ wiped = [u \in Users |-> 0]

(* A request arrives.  Those that fail before writing anything (unknown or
   expired token, wrong password, unknown address) change nothing here.    *)
Arrive(r) ==
    \/ \E u \in Users, p \in Passwords : LoginRead(r, u, p)
    \/ \E u \in Users : RequestReset(r, u)
    \/ \E t \in held : RefreshRead(r, t) \/ RefreshReuse(r, t)
                                         \/ LogoutRead(r, t)
    \/ \E k \in mailed, p \in Passwords : ResetRead(r, k, p)

(* The handler of a request that has arrived goes on.                      *)
Continue(r) ==
    \/ LoginCommit(r) \/ IssueCommit(r) \/ Respond(r)
    \/ RotateCommit(r) \/ ReuseScan(r) \/ ReuseCommit(r)
    \/ LogoutCommit(r)
    \/ SendReset(r)
    \/ ResetScan(r) \/ ResetCommit(r)

(* The server at work.                                                     *)
Serve == \E r \in Requests : Arrive(r) \/ Continue(r) \/ Crash(r)

Next == Serve \/ Tick

Spec == Init /\ [][Next]_vars

(* The event loop resumes a handler whose await has completed; the waiters
   for a row lock are served in the order they came, so a step that waits
   for the users row is not overtaken for ever.  Nobody has to send a
   request and nothing has to crash.                                       *)
Fairness ==
    \A r \in Requests : /\ WF_vars(Continue(r))
                        /\ SF_vars(LoginCommit(r))
                        /\ SF_vars(ResetScan(r))

(* Under a clock that stands still.  A tick could only let rows expire, and
   no handler looks at the expiry of the row it has read again.            *)
FairSpec == Init /\ [][Serve]_vars /\ Fairness

-----------------------------------------------------------------------------
(* Properties.                                                             *)

(* Types, and: inserted rows have a user and a family, the others are
   blank.  About: the columns of models/refresh_token.py.                  *)
TypeOK ==
    /\ nTokens \in 0..MaxTokens
    /\ nResets \in 0..MaxResets
    /\ refresh_tokens \in [Tokens -> RefreshToken]
    /\ \A t \in Issued : /\ refresh_tokens[t].user_id \in Users
                         /\ refresh_tokens[t].family_id \in Issued
    /\ \A t \in Tokens \ Issued : refresh_tokens[t] = BlankToken
    /\ password_resets \in [Resets -> PasswordReset]
    /\ \A k \in 1..nResets : password_resets[k].user_id \in Users
    /\ password \in [Users -> Passwords]
    /\ now \in Nat
    /\ req \in [Requests -> Request]
    /\ held \subseteq Issued
    /\ mailed \subseteq 1..nResets
    /\ purged \in [Tokens -> 0..MaxTokens]
    /\ wiped \in [Users -> 0..MaxTokens]

(* A family belongs to one user and hangs together: its root is its oldest
   row, and replaced_by_id leads from a revoked row to a newer row of the
   same family, so that following it never loops or leaves the family.
   About: rotate_refresh_token, whichever rotations overlap.               *)
FamiliesAreLineages ==
    \A t \in Issued :
        LET f == Family(t)
            s == refresh_tokens[t].replaced_by_id
        IN  /\ f \in 1..t
            /\ Family(f) = f
            /\ refresh_tokens[f].user_id = refresh_tokens[t].user_id
            /\ s # 0 => /\ s \in (t + 1)..nTokens
                        /\ Family(s) = f
                        /\ refresh_tokens[t].revoked

(* Once a reuse detection has committed, no token of the family that it
   had in front of it when it listed the members is ever live again,
   whatever rotations and logouts of the same family ran meanwhile.
   About: auth_service.py:117-130.                                         *)
ReuseKillsEarlierTokens ==
    \A t \in Issued : t <= purged[Family(t)] => ~Live(t)

(* Once a password reset has committed, no token of the user that existed
   when it listed them is ever live again: sessions older than the reset
   stay dead.  About: auth_service.py:197-202.                             *)
ResetKillsEarlierTokens ==
    \A t \in Issued : t <= wiped[refresh_tokens[t].user_id] => ~Live(t)

(* A token is exchanged for a successor once: one that has been rotated is
   not rotated again, presenting it again is a reuse and ends its family.
   About: "Reuse of an already-rotated (revoked) token revokes the entire
   token family", auth_service.py:107-108.                                 *)
RotatedTokenIsNotRotated ==
    [][\A r \in Requests : RotateCommit(r) =>
          refresh_tokens[req[r].row].replaced_by_id = 0]_vars

(* After a reuse detection has committed, its family never has a live
   token again.  About: "whole family theft-detection",
   tests/integration/test_auth_flow.py:89-93.                              *)
DetectedReuseEndsFamily ==
    \A t \in Issued : purged[Family(t)] > 0 => ~Live(t)

(* When a password reset commits, no token of its user is left live.
   About: the comment at auth_service.py:197.                              *)
ResetRevokesOutstandingTokens ==
    [][\A r \in Requests : ResetCommit(r) =>
          \A t \in Issued : refresh_tokens[t].user_id = req[r].user =>
                               ~Live(t)']_vars

(* Every request finishes: neither the users row lock of a reset nor two
   handlers waiting for it block for ever.  (issue and rotate need a free
   row of the bounded table.)                                              *)
RequestsFinish ==
    \A r \in Requests :
        req[r].pc # "idle" ~>
            \/ req[r].pc = "idle"
            \/ req[r].pc \in {"issue", "rotate"} /\ nTokens = MaxTokens
=============================================================================
