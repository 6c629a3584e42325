------------------------------ MODULE Accounts ------------------------------
(***************************************************************************)
(* Registration and e-mail verification, app/services/auth_service.py:     *)
(* 32-71, run by concurrent HTTP requests.                                 *)
(*                                                                         *)
(* register_user looks the address up, flushes the INSERT of the user,     *)
(* then commits user, verification and audit row together and mails the    *)
(* token.  From the flush to the end of the transaction the uncommitted    *)
(* row holds its key in the unique index of users.email: the INSERT of     *)
(* another request with the same address waits for the outcome.            *)
(*                                                                         *)
(* A user is named by the order of the INSERTs, rolled back ones included; *)
(* so is the one email_verifications row that is committed with it, and    *)
(* the raw token whose hash is in that row.                                *)
(***************************************************************************)
EXTENDS Naturals, FiniteSets

CONSTANTS
    Emails,           \* addresses, each with a mailbox
    Requests,         \* request slots: how many handlers may overlap
    None,             \* no address
    VerificationTTL,  \* EMAIL_VERIFICATION_TTL, in ticks
    MaxUsers,         \* bound: users rows ever inserted; each address can
                      \* be committed once, each crash can undo one row
    MaxCrashes,       \* bound: requests that die
    MaxTime           \* bound: ticks of the clock

ASSUME ConstantsAssumption ==
    /\ None \notin Emails
    /\ VerificationTTL \in Nat
    /\ MaxUsers \in Nat
    /\ MaxCrashes \in Nat
    /\ MaxTime \in Nat

VARIABLES
    users,                \* the table, with its uncommitted rows
    nUsers,               \* rows inserted so far
    email_verifications,  \* the table; row i is the one of user i
    now,                  \* datetime.now(timezone.utc)
    req,                  \* per request slot: where its handler is
    mailbox,              \* per address: the raw tokens that reached it
    crashes               \* requests that died so far

db == <<users, nUsers, email_verifications>>
vars == <<db, now, req, mailbox, crashes>>

-----------------------------------------------------------------------------
UserIds == 1..MaxUsers

(* An "open" row is visible to its own transaction only.                   *)
User == [email : Emails \cup {None}, row : {"none", "open", "committed"},
         verified : BOOLEAN]

NoUser == [email |-> None, row |-> "none", verified |-> FALSE]

EmailVerification == [expires_at : Nat, used : BOOLEAN]

NoVerification == [expires_at |-> 0, used |-> FALSE]

(* Where a handler can be suspended:
     insert    no account had the address when it was looked up
     inserted  the user is flushed, its transaction open
     mail      committed, the verification mail not sent yet
     verify    the token was unused and in time when it was read           *)
Stages == {"idle", "insert", "inserted", "mail", "verify"}

Request == [pc : Stages, email : Emails \cup {None}, row : 0..MaxUsers]

Idle == [pc |-> "idle", email |-> None, row |-> 0]

Become(r, h) == req' = [req EXCEPT ![r] = h]
Finish(r) == Become(r, Idle)

(* get_user_by_email, as another transaction sees the table.               *)
Registered(e) ==
    \E i \in UserIds : users[i].email = e /\ users[i].row = "committed"

(* Some open transaction has inserted the address.                         *)
KeyHeld(e) == \E i \in UserIds : users[i].email = e /\ users[i].row = "open"

-----------------------------------------------------------------------------
(* POST /auth/register: register_user.                                     *)

RegisterRead(r, e) ==
    /\ req[r].pc = "idle"
    /\ ~Registered(e)
    /\ Become(r, [Idle EXCEPT !.pc = "insert", !.email = e])
    /\ UNCHANGED <<db, now, mailbox, crashes>>

(* 409 "An account with this email already exists".                        *)
RegisterRefused(r, e) ==
    /\ req[r].pc = "idle"
    /\ Registered(e)
    /\ UNCHANGED vars

Open(e) == [users EXCEPT ![nUsers + 1] = [NoUser EXCEPT !.email = e,
                                                        !.row = "open"]]

(* Mutant of InsertUser: users.email is not unique.                        *)
InsertUserTwice(r) ==
    /\ req[r].pc = "insert"
    /\ nUsers < MaxUsers
    /\ nUsers' = nUsers + 1
    /\ users' = Open(req[r].email)
    /\ Become(r, [req[r] EXCEPT !.pc = "inserted", !.row = nUsers + 1])
    /\ UNCHANGED <<email_verifications, now, mailbox, crashes>>

(* Mutant of InsertUser: the mail goes out after the flush.                *)
InsertUserAndMail(r) ==
    LET e == req[r].email IN
    /\ req[r].pc = "insert"
    /\ ~Registered(e) /\ ~KeyHeld(e)
    /\ nUsers < MaxUsers
    /\ nUsers' = nUsers + 1
    /\ users' = Open(e)
    /\ mailbox' = [mailbox EXCEPT ![e] = @ \cup {nUsers + 1}]
    /\ Become(r, [req[r] EXCEPT !.pc = "inserted", !.row = nUsers + 1])
    /\ UNCHANGED <<email_verifications, now, crashes>>

(* The flush: waits while another transaction holds the key.               *)
InsertUser(r) ==
    LET e == req[r].email IN
    /\ req[r].pc = "insert"
    /\ ~Registered(e) /\ ~KeyHeld(e)
    /\ nUsers < MaxUsers
    /\ nUsers' = nUsers + 1
    /\ users' = Open(e)
    /\ Become(r, [req[r] EXCEPT !.pc = "inserted", !.row = nUsers + 1])
    /\ UNCHANGED <<email_verifications, now, mailbox, crashes>>

(* Mutant of InsertConflict: an open row is a conflict, nobody waits.      *)
InsertConflictNoWait(r) ==
    /\ req[r].pc = "insert"
    /\ Registered(req[r].email) \/ KeyHeld(req[r].email)
    /\ Finish(r)
    /\ UNCHANGED <<db, now, mailbox, crashes>>

(* IntegrityError: the address was committed since the SELECT, 500.        *)
InsertConflict(r) ==
    /\ req[r].pc = "insert"
    /\ Registered(req[r].email)
    /\ Finish(r)
    /\ UNCHANGED <<db, now, mailbox, crashes>>

(* User, verification and audit row become visible together.               *)
RegisterCommit(r) ==
    LET i == req[r].row IN
    /\ req[r].pc = "inserted"
    /\ users' = [users EXCEPT ![i].row = "committed"]
    /\ email_verifications' = [email_verifications EXCEPT
            ![i] = [expires_at |-> now + VerificationTTL, used |-> FALSE]]
    /\ Become(r, [req[r] EXCEPT !.pc = "mail"])
    /\ UNCHANGED <<nUsers, now, mailbox, crashes>>

SendVerification(r) ==
    /\ req[r].pc = "mail"
    /\ mailbox' = [mailbox EXCEPT ![req[r].email] = @ \cup {req[r].row}]
    /\ Finish(r)
    /\ UNCHANGED <<db, now, crashes>>

-----------------------------------------------------------------------------
(* POST /auth/verify-email: verify_email.                                  *)

VerifyRead(r, i) ==
    /\ req[r].pc = "idle"
    /\ users[i].row = "committed"
    /\ ~email_verifications[i].used
    /\ email_verifications[i].expires_at >= now
    /\ Become(r, [Idle EXCEPT !.pc = "verify", !.row = i])
    /\ UNCHANGED <<db, now, mailbox, crashes>>

(* Mutant of VerifyCommit: used_at is not set.                             *)
VerifyCommitReusable(r) ==
    /\ req[r].pc = "verify"
    /\ users' = [users EXCEPT ![req[r].row].verified = TRUE]
    /\ Finish(r)
    /\ UNCHANGED <<nUsers, email_verifications, now, mailbox, crashes>>

(* used_at is not tested again: of two overlapping requests with one token
   both succeed, and the second one writes what the first one wrote.       *)
VerifyCommit(r) ==
    /\ req[r].pc = "verify"
    /\ users' = [users EXCEPT ![req[r].row].verified = TRUE]
    /\ email_verifications' =
         [email_verifications EXCEPT ![req[r].row].used = TRUE]
    /\ Finish(r)
    /\ UNCHANGED <<nUsers, now, mailbox, crashes>>

-----------------------------------------------------------------------------
(* Mutant of Crash: the session is not rolled back.                        *)
CrashNoRollback(r) ==
    /\ req[r].pc # "idle"
    /\ crashes < MaxCrashes
    /\ crashes' = crashes + 1
    /\ Finish(r)
    /\ UNCHANGED <<db, now, mailbox>>

(* The handler dies: its open transaction rolls back, which frees the key;
   what was committed stays, and a mail that was not sent never is.        *)
Crash(r) ==
    /\ req[r].pc # "idle"
    /\ crashes < MaxCrashes
    /\ crashes' = crashes + 1
    /\ users' = IF req[r].pc = "inserted"
                THEN [users EXCEPT ![req[r].row] = NoUser]
                ELSE users
    /\ Finish(r)
    /\ UNCHANGED <<nUsers, email_verifications, now, mailbox>>

Tick ==
    /\ now < MaxTime
    /\ now' = now + 1
    /\ UNCHANGED <<db, req, mailbox, crashes>>

-----------------------------------------------------------------------------
Init ==
    /\ users = [i \in UserIds |-> NoUser]
    /\ nUsers = 0
    /\ email_verifications = [i \in UserIds |-> NoVerification]
    /\ now = 0
    /\ req = [r \in Requests |-> Idle]
    /\ mailbox = [e \in Emails |-> {}]
    /\ crashes = 0

(* Anyone may register any address; a token comes out of a mailbox.        *)
Arrive(r) ==
    \E e \in Emails :
        \/ RegisterRead(r, e) \/ RegisterRefused(r, e)
        \/ \E i \in mailbox[e] : VerifyRead(r, i)

Continue(r) ==
    \/ InsertUser(r) \/ InsertConflict(r)
    \/ RegisterCommit(r) \/ SendVerification(r)
    \/ VerifyCommit(r)

Next ==
    \/ \E r \in Requests : Arrive(r) \/ Continue(r) \/ Crash(r)
    \/ Tick

Spec == Init /\ [][Next]_vars

(* The event loop resumes a handler whose await has completed, and an
   INSERT that waits for a key is not overtaken for ever.                  *)
Fairness == \A r \in Requests : WF_vars(Continue(r)) /\ SF_vars(InsertUser(r))

FairSpec == Spec /\ Fairness

-----------------------------------------------------------------------------
(* Properties.                                                             *)

(* Types, and: an open row is held by exactly one handler, which stands
   between flush and commit.  About: get_db, which ends the transaction
   with the request, core/db.py:20-22.                                     *)
TypeOK ==
    /\ users \in [UserIds -> User]
    /\ nUsers \in 0..MaxUsers
    /\ email_verifications \in [UserIds -> EmailVerification]
    /\ now \in 0..MaxTime
    /\ req \in [Requests -> Request]
    /\ mailbox \in [Emails -> SUBSET (1..nUsers)]
    /\ crashes \in 0..MaxCrashes
    /\ \A i \in UserIds :
          users[i].row = "open" <=>
              \E r \in Requests : req[r].pc = "inserted" /\ req[r].row = i

(* No two accounts have one address, however registrations overlap after
   their lookups.  About: register_user's test at auth_service.py:33-35 and
   users.email, models/user.py:13.                                         *)
OneAccountPerAddress ==
    \A i, j \in UserIds :
        /\ users[i].row = "committed" /\ users[j].row = "committed"
        /\ users[i].email = users[j].email
        => i = j

(* A token in a mailbox is that of a committed account of this address: a
   registration that rolls back has mailed nothing.  About: the mail after
   the commit, auth_service.py:50-52.                                      *)
MailsNameAccounts ==
    \A e \in Emails : \A i \in mailbox[e] :
        users[i].row = "committed" /\ users[i].email = e

(* An account is verified exactly if its token is used, and only by a token
   that was in the mailbox of its own address.  About: verify_email,
   auth_service.py:56-71, with overlapping requests for one token.         *)
VerifiedByOwnToken ==
    \A i \in UserIds :
        /\ users[i].verified <=> email_verifications[i].used
        /\ users[i].verified => i \in mailbox[users[i].email]

Registering(e) ==
    {r \in Requests : req[r].pc \in {"insert", "inserted"} /\ req[r].email = e}

(* Of more registrations of one address under way than can still die, one
   gives an account: a second INSERT waits for the first transaction and
   takes over if that one rolls back.  About: auth_service.py:33-50.       *)
RegistrationSucceeds ==
    \A e \in Emails :
        Cardinality(Registering(e)) + crashes > MaxCrashes ~> Registered(e)

(* Every request finishes: no INSERT waits for a key for ever.  About: the
   same lines, and the rollback of a request that dies.                    *)
RequestsFinish == \A r \in Requests : req[r].pc # "idle" ~> req[r].pc = "idle"
=============================================================================
