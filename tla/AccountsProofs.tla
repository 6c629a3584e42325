--------------------------- MODULE AccountsProofs ---------------------------
(***************************************************************************)
(* The safety invariants of Accounts, for every set of addresses and of    *)
(* request slots and for all bounds.                                       *)
(***************************************************************************)
EXTENDS Accounts, TLAPS

-----------------------------------------------------------------------------
(* The inductive invariant.                                                *)

(* A row that exists was inserted, under an address, and nothing is
   verified that is not committed.                                         *)
RowsOK ==
    \A i \in UserIds :
        /\ users[i].row # "none" => users[i].email \in Emails /\ i <= nUsers
        /\ users[i].row # "committed" =>
              ~users[i].verified /\ ~email_verifications[i].used

(* The unique index: one row per address, the uncommitted ones included.   *)
KeysUnique ==
    \A i, j \in UserIds :
        /\ users[i].row # "none" /\ users[j].row # "none"
        /\ users[i].email = users[j].email
        => i = j

(* What a suspended handler relies on: nobody else has its open row, and
   what it read or committed about an account is still so.                 *)
HandlerOK(r) ==
    /\ req[r].pc \in {"insert", "inserted", "mail"} => req[r].email \in Emails
    /\ req[r].pc \in {"inserted", "mail", "verify"} =>
          req[r].row \in 1..nUsers
    /\ req[r].pc \in {"inserted", "mail"} =>
          users[req[r].row].email = req[r].email
    /\ req[r].pc = "inserted" =>
          \A s \in Requests :
              req[s].pc = "inserted" /\ req[s].row = req[r].row => s = r
    /\ req[r].pc \in {"mail", "verify"} =>
          users[req[r].row].row = "committed"
    /\ req[r].pc = "verify" =>
          req[r].row \in mailbox[users[req[r].row].email]

HandlersOK == \A r \in Requests : HandlerOK(r)

IInv ==
    /\ TypeOK
    /\ RowsOK
    /\ KeysUnique
    /\ HandlersOK
    /\ MailsNameAccounts
    /\ VerifiedByOwnToken

-----------------------------------------------------------------------------
(* What is in a handler, and what a step does to it.                       *)

(* The slot of the handler that moves takes its new record, no other slot
   changes.                                                                *)
LEMMA BecomeOnly ==
  ASSUME TypeOK, NEW r \in Requests, NEW h \in Request, Become(r, h)
  PROVE  /\ req' \in [Requests -> Request]
         /\ req'[r] = h
         /\ \A s \in Requests : s # r => req'[s] = req[s]
  BY DEF TypeOK, Become

(* The records that actions write into empty slots and rows are typed.     *)
LEMMA RecordsTyped ==
  /\ Idle \in Request /\ Idle.pc = "idle"
  /\ NoUser \in User /\ NoUser.row = "none" /\ ~NoUser.verified
  /\ NoVerification \in EmailVerification /\ ~NoVerification.used
  BY ConstantsAssumption
     DEF Idle, Request, Stages, NoUser, User, NoVerification, EmailVerification

(* The facts of TypeOK in the form the proofs use.                         *)
LEMMA Fields ==
  ASSUME TypeOK
  PROVE  /\ \A i \in UserIds : users[i] \in User
         /\ \A i \in UserIds : email_verifications[i] \in EmailVerification
         /\ \A r \in Requests : req[r] \in Request
         /\ nUsers \in Nat /\ 1..nUsers \subseteq UserIds
         /\ \A e \in Emails : mailbox[e] \subseteq 1..nUsers
  BY ConstantsAssumption DEF TypeOK, UserIds

-----------------------------------------------------------------------------
(* The empty tables satisfy the invariant.                                 *)
LEMMA InitIInv == Init => IInv
<1> SUFFICES ASSUME Init PROVE IInv
  OBVIOUS
<1> USE ConstantsAssumption, RecordsTyped
<1>1. /\ \A i \in UserIds : users[i] = NoUser /\ ~email_verifications[i].used
      /\ \A r \in Requests : req[r].pc = "idle"
      /\ \A e \in Emails : mailbox[e] = {}
  BY DEF Init
<1>2. TypeOK
  BY <1>1 DEF Init, TypeOK
<1>3. RowsOK /\ KeysUnique /\ HandlersOK
  BY <1>1 DEF RowsOK, KeysUnique, HandlersOK, HandlerOK
<1>4. MailsNameAccounts /\ VerifiedByOwnToken
  BY <1>1 DEF MailsNameAccounts, VerifiedByOwnToken
<1> QED  BY <1>2, <1>3, <1>4 DEF IInv

-----------------------------------------------------------------------------
(* A handler that does not move stays OK if the accounts stay and no other
   handler takes its row.  About: what a request may do to the rows another
   one works on.                                                           *)
LEMMA StandingHandler ==
  ASSUME IInv, NEW s \in Requests, req'[s] = req[s],
         nUsers' \in Nat, nUsers <= nUsers',
         \A i \in 1..nUsers : users[i].row = "committed" =>
            users'[i].row = "committed" /\ users'[i].email = users[i].email,
         req[s].pc = "inserted" =>
            /\ users'[req[s].row].email = users[req[s].row].email
            /\ \A q \in Requests :
                  req'[q].pc = "inserted" /\ req'[q].row = req[s].row => q = s,
         \A e \in Emails : mailbox[e] \subseteq mailbox'[e]
  PROVE  HandlerOK(s)'
<1> USE Fields DEF IInv
<1>1. HandlerOK(s)
  BY DEF HandlersOK
<1>2. req[s].row \in 1..nUsers => req[s].row \in 1..nUsers'
  OBVIOUS
<1>3. ASSUME req[s].pc = "verify"
      PROVE  req[s].row \in mailbox'[users'[req[s].row].email]
  <2>1. /\ req[s].row \in 1..nUsers
        /\ users[req[s].row].row = "committed"
        /\ req[s].row \in mailbox[users[req[s].row].email]
    BY <1>1, <1>3 DEF HandlerOK
  <2>2. users[req[s].row].email \in Emails
    BY <2>1 DEF RowsOK
  <2> QED  BY <2>1, <2>2
<1>4. req[s].pc = "mail" =>
         /\ users'[req[s].row].row = "committed"
         /\ users'[req[s].row].email = req[s].email
  BY <1>1 DEF HandlerOK
<1>5. req[s].pc = "verify" => users'[req[s].row].row = "committed"
  BY <1>1 DEF HandlerOK
<1> QED  BY <1>1, <1>2, <1>3, <1>4, <1>5 DEF HandlerOK

(* A step that only moves handlers, or the clock, leaves what is said of
   the tables and the mailboxes as it is.                                  *)
LEMMA TablesStand ==
  ASSUME IInv, UNCHANGED <<db, mailbox>>
  PROVE  RowsOK' /\ KeysUnique' /\ MailsNameAccounts' /\ VerifiedByOwnToken'
  BY DEF IInv, db, RowsOK, KeysUnique, MailsNameAccounts, VerifiedByOwnToken

(* A handler that holds no open row, before and after the step.            *)
LEMMA NoRowHeld ==
  ASSUME IInv, UNCHANGED <<db, mailbox, now>>, crashes' \in 0..MaxCrashes,
         NEW r \in Requests, NEW h \in Request, Become(r, h),
         req[r].pc # "inserted", h.pc # "inserted",
         HandlerOK(r)'
  PROVE  IInv'
<1> USE DEF IInv
<1>1. /\ req' \in [Requests -> Request] /\ req'[r] = h
      /\ \A s \in Requests : s # r => req'[s] = req[s]
  BY BecomeOnly
<1>2. UNCHANGED <<users, nUsers, email_verifications>>
  BY DEF db
<1>3. TypeOK'
  <2>1. \A i \in UserIds : users[i].row = "open" <=>
           \E s \in Requests : req'[s].pc = "inserted" /\ req'[s].row = i
    BY <1>1 DEF TypeOK
  <2> QED  BY <1>1, <1>2, <2>1 DEF TypeOK
<1>4. ASSUME NEW s \in Requests, s # r  PROVE HandlerOK(s)'
  <2>1. req'[s] = req[s]
    BY <1>1, <1>4
  <2>2. req[s].pc = "inserted" => \A q \in Requests :
           req'[q].pc = "inserted" /\ req'[q].row = req[s].row => q = s
    BY <1>1, <1>4 DEF HandlersOK, HandlerOK
  <2> QED  BY <1>2, <2>1, <2>2, Fields, StandingHandler
<1>5. HandlersOK'
  BY <1>4 DEF HandlersOK
<1> QED  BY <1>3, <1>5, TablesStand
-----------------------------------------------------------------------------
(* One lemma per action: the step keeps the inductive invariant.           *)

(* POST /auth/register reads whether the address is taken.                 *)
LEMMA StepRegisterRead ==
  ASSUME IInv, NEW r \in Requests, NEW e \in Emails, RegisterRead(r, e)
  PROVE  IInv'
<1> DEFINE h == [Idle EXCEPT !.pc = "insert", !.email = e]
<1>1. h \in Request /\ h.pc = "insert" /\ h.email = e
  BY RecordsTyped DEF Idle, Request, Stages
<1> HIDE DEF h
<1>2. Become(r, h) /\ req[r].pc # "inserted"
      /\ UNCHANGED <<db, mailbox, now, crashes>>
  BY DEF RegisterRead, h
<1>3. HandlerOK(r)'
  BY <1>1, <1>2, BecomeOnly DEF HandlerOK, IInv
<1>4. crashes' \in 0..MaxCrashes
  BY <1>2 DEF IInv, TypeOK
<1> QED  BY <1>1, <1>2, <1>3, <1>4, NoRowHeld

(* POST /auth/verify-email reads the token of the link.                    *)
LEMMA StepVerifyRead ==
  ASSUME IInv, NEW r \in Requests, NEW e \in Emails, NEW i \in mailbox[e],
         VerifyRead(r, i)
  PROVE  IInv'
<1> DEFINE h == [Idle EXCEPT !.pc = "verify", !.row = i]
<1> USE Fields DEF IInv
<1>1. i \in 1..nUsers /\ i \in 0..MaxUsers
  BY DEF UserIds
<1>2. h \in Request /\ h.pc = "verify" /\ h.row = i
  BY <1>1, RecordsTyped DEF Idle, Request, Stages
<1> HIDE DEF h
<1>3. Become(r, h) /\ req[r].pc # "inserted" /\ users[i].row = "committed"
      /\ UNCHANGED <<db, mailbox, now, crashes>>
  BY DEF VerifyRead, h
<1>4. i \in mailbox[users[i].email]
  BY DEF MailsNameAccounts
<1>5. HandlerOK(r)'
  BY <1>1, <1>2, <1>3, <1>4, BecomeOnly DEF HandlerOK, db
<1>6. crashes' \in 0..MaxCrashes
  BY <1>3 DEF TypeOK
<1> QED  BY <1>2, <1>3, <1>5, <1>6, NoRowHeld

(* A handler that ends without an open row.                                *)
LEMMA StepEnd ==
  ASSUME IInv, NEW r \in Requests, Finish(r), req[r].pc # "inserted",
         UNCHANGED <<db, mailbox, now>>, crashes' \in 0..MaxCrashes
  PROVE  IInv'
<1>1. HandlerOK(r)'
  BY RecordsTyped, BecomeOnly DEF HandlerOK, IInv, Finish
<1> QED  BY <1>1, RecordsTyped, NoRowHeld DEF Finish

(* The registration flushes its users row: the address is new there.       *)
LEMMA StepInsertUser ==
  ASSUME IInv, NEW r \in Requests, InsertUser(r)
  PROVE  IInv'
<1> DEFINE n == nUsers + 1
           e == req[r].email
           h == [req[r] EXCEPT !.pc = "inserted", !.row = n]
           new == [NoUser EXCEPT !.email = e, !.row = "open"]
<1> USE Fields DEF IInv
<1>1. n \in UserIds /\ n \in 0..MaxUsers /\ nUsers' = n /\ n \in 1..n
      /\ n \notin 1..nUsers
  BY ConstantsAssumption DEF InsertUser, TypeOK, UserIds
<1>2. e \in Emails /\ HandlerOK(r)
  BY DEF InsertUser, HandlersOK, HandlerOK
<1>3. h \in Request /\ h.pc = "inserted" /\ h.row = n /\ h.email = e
  BY <1>1, <1>2 DEF Request, Stages
<1>4. new \in User /\ new.row = "open" /\ new.email = e /\ ~new.verified
  BY <1>2, RecordsTyped DEF NoUser, User
<1>5. /\ Become(r, h) /\ req[r].pc = "insert"
      /\ users' = [users EXCEPT ![n] = new]
      /\ ~Registered(e) /\ ~KeyHeld(e)
      /\ UNCHANGED <<email_verifications, now, mailbox, crashes>>
  BY DEF InsertUser, Open
<1> HIDE DEF n, e, h, new
<1>6. /\ req' \in [Requests -> Request] /\ req'[r] = h
      /\ \A s \in Requests : s # r => req'[s] = req[s]
  BY <1>3, <1>5, BecomeOnly
<1>7. /\ users' \in [UserIds -> User] /\ users'[n] = new
      /\ \A i \in UserIds : i # n => users'[i] = users[i]
  BY <1>1, <1>4, <1>5 DEF TypeOK
(* Nothing is above nUsers: row n is fresh, and no handler has it.         *)
<1>8. /\ users[n].row = "none"
      /\ \A s \in Requests : ~(req[s].pc = "inserted" /\ req[s].row = n)
  <2>1. \A s \in Requests : req[s].pc = "inserted" => req[s].row \in 1..nUsers
    BY DEF HandlersOK, HandlerOK
  <2> QED  BY <1>1, <2>1 DEF RowsOK, n
<1>9. TypeOK'
  <2>1. \A i \in UserIds : users'[i].row = "open" <=>
           \E s \in Requests : req'[s].pc = "inserted" /\ req'[s].row = i
    <3> TAKE i \in UserIds
    <3>1. CASE i = n
      BY <1>3, <1>4, <1>6, <1>7, <3>1
    <3>2. CASE i # n
      BY <1>3, <1>5, <1>6, <1>7, <3>2 DEF TypeOK
    <3> QED  BY <3>1, <3>2
  <2>2. mailbox' \in [Emails -> SUBSET (1..nUsers')]
    BY <1>1, <1>5 DEF TypeOK, n
  <2> QED  BY <1>1, <1>5, <1>6, <1>7, <2>1, <2>2 DEF TypeOK
<1>10. RowsOK'
  <2>1. ~email_verifications'[n].used /\ n <= nUsers'
    BY <1>1, <1>5, <1>8 DEF RowsOK
  <2>2. \A i \in UserIds : i <= nUsers => i <= nUsers'
    BY <1>1 DEF UserIds, n
  <2> QED  BY <1>2, <1>4, <1>5, <1>7, <2>1, <2>2 DEF RowsOK
<1>11. KeysUnique'
  <2>1. \A i \in UserIds : users[i].row # "none" => users[i].email # e
    BY <1>5 DEF Registered, KeyHeld, User
  <2> QED  BY <1>4, <1>7, <2>1 DEF KeysUnique
<1>12. HandlersOK'
  <2>1. HandlerOK(r)'
    <3>1. \A s \in Requests :
             req'[s].pc = "inserted" /\ req'[s].row = n => s = r
      BY <1>6, <1>8
    <3> QED  BY <1>1, <1>2, <1>3, <1>4, <1>6, <1>7, <3>1 DEF HandlerOK
  <2>2. ASSUME NEW s \in Requests, s # r  PROVE HandlerOK(s)'
    <3>1. req'[s] = req[s] /\ nUsers' \in Nat /\ nUsers <= nUsers'
      BY <1>1, <1>6, <2>2 DEF n
    <3>2. \A i \in 1..nUsers : users'[i] = users[i]
      BY <1>1, <1>7
    <3>3. ASSUME req[s].pc = "inserted"
          PROVE  /\ users'[req[s].row].email = users[req[s].row].email
                 /\ \A q \in Requests : req'[q].pc = "inserted"
                         /\ req'[q].row = req[s].row => q = s
      <4>1. /\ req[s].row \in 1..nUsers
            /\ \A q \in Requests : req[q].pc = "inserted"
                    /\ req[q].row = req[s].row => q = s
        BY <3>3 DEF HandlersOK, HandlerOK
      <4> QED  BY <1>1, <1>3, <1>6, <3>2, <4>1
    <3> QED  BY <1>5, <3>1, <3>2, <3>3, StandingHandler
  <2> QED  BY <2>1, <2>2 DEF HandlersOK
<1>13. MailsNameAccounts'
  BY <1>1, <1>5, <1>7 DEF MailsNameAccounts
<1>14. VerifiedByOwnToken'
  BY <1>1, <1>4, <1>5, <1>7, <1>8 DEF VerifiedByOwnToken, RowsOK
<1> QED  BY <1>9, <1>10, <1>11, <1>12, <1>13, <1>14
(* The registration commits account and verification token together.       *)
LEMMA StepRegisterCommit ==
  ASSUME IInv, NEW r \in Requests, RegisterCommit(r)
  PROVE  IInv'
<1> DEFINE i == req[r].row
           h == [req[r] EXCEPT !.pc = "mail"]
           new == [expires_at |-> now + VerificationTTL, used |-> FALSE]
<1> USE Fields DEF IInv
<1>1. /\ i \in 1..nUsers /\ i \in UserIds /\ HandlerOK(r)
      /\ users[i].row = "open" /\ users[i].email = req[r].email
      /\ users[i].email \in Emails
      /\ \A s \in Requests : req[s].pc = "inserted" /\ req[s].row = i => s = r
  BY DEF RegisterCommit, TypeOK, HandlersOK, HandlerOK
<1>2. h \in Request /\ h.pc = "mail" /\ h.row = i /\ h.email = req[r].email
  BY DEF Request, Stages
<1>3. new \in EmailVerification /\ ~new.used
  BY ConstantsAssumption DEF EmailVerification, TypeOK
<1>4. /\ Become(r, h) /\ req[r].pc = "inserted"
      /\ users' = [users EXCEPT ![i] = [users[i] EXCEPT !.row = "committed"]]
      /\ email_verifications' = [email_verifications EXCEPT ![i] = new]
      /\ UNCHANGED <<nUsers, now, mailbox, crashes>>
  BY DEF RegisterCommit
<1> HIDE DEF i, h, new
<1>5. /\ req' \in [Requests -> Request] /\ req'[r] = h
      /\ \A s \in Requests : s # r => req'[s] = req[s]
  BY <1>2, <1>4, BecomeOnly
<1>6. /\ users' \in [UserIds -> User] /\ users'[i].row = "committed"
      /\ \A j \in UserIds : /\ users'[j].email = users[j].email
                            /\ users'[j].verified = users[j].verified
                            /\ j # i => users'[j] = users[j]
  BY <1>1, <1>4 DEF TypeOK, User
<1>7. /\ email_verifications' \in [UserIds -> EmailVerification]
      /\ \A j \in UserIds : email_verifications'[j].used
                              <=> email_verifications[j].used
  <2>1. ~email_verifications[i].used
    BY <1>1 DEF RowsOK
  <2> QED  BY <1>1, <1>3, <1>4, <2>1 DEF TypeOK
<1>8. TypeOK'
  <2>1. \A j \in UserIds : users'[j].row = "open" <=>
           \E s \in Requests : req'[s].pc = "inserted" /\ req'[s].row = j
    <3> TAKE j \in UserIds
    <3>1. CASE j = i
      BY <1>1, <1>2, <1>5, <1>6, <3>1
    <3>2. CASE j # i
      BY <1>2, <1>4, <1>5, <1>6, <3>2 DEF TypeOK, i
    <3> QED  BY <3>1, <3>2
  <2> QED  BY <1>4, <1>5, <1>6, <1>7, <2>1 DEF TypeOK
<1>9. RowsOK'
  BY <1>1, <1>4, <1>6, <1>7 DEF RowsOK
<1>10. KeysUnique'
  BY <1>1, <1>6 DEF KeysUnique
<1>11. HandlersOK'
  <2>1. HandlerOK(r)'
    BY <1>1, <1>2, <1>4, <1>5, <1>6 DEF HandlerOK
  <2>2. ASSUME NEW s \in Requests, s # r  PROVE HandlerOK(s)'
    <3>1. /\ req'[s] = req[s] /\ nUsers' \in Nat /\ nUsers <= nUsers'
          /\ mailbox' = mailbox
      BY <1>4, <1>5, <2>2
    <3>2. \A j \in 1..nUsers : users[j].row = "committed" =>
             users'[j].row = "committed" /\ users'[j].email = users[j].email
      BY <1>6
    <3>3. ASSUME req[s].pc = "inserted"
          PROVE  /\ users'[req[s].row].email = users[req[s].row].email
                 /\ \A q \in Requests : req'[q].pc = "inserted"
                         /\ req'[q].row = req[s].row => q = s
      BY <1>2, <1>5, <1>6, <3>3 DEF HandlersOK, HandlerOK
    <3> QED  BY <3>1, <3>2, <3>3, StandingHandler
  <2> QED  BY <2>1, <2>2 DEF HandlersOK
<1>12. MailsNameAccounts'
  BY <1>4, <1>6 DEF MailsNameAccounts
<1>13. VerifiedByOwnToken'
  BY <1>4, <1>6, <1>7 DEF VerifiedByOwnToken
<1> QED  BY <1>8, <1>9, <1>10, <1>11, <1>12, <1>13

(* The mail goes out after the commit, to the address of the account.      *)
LEMMA StepSendVerification ==
  ASSUME IInv, NEW r \in Requests, SendVerification(r)
  PROVE  IInv'
<1> DEFINE i == req[r].row
           e == req[r].email
<1> USE Fields DEF IInv
<1>1. /\ i \in 1..nUsers /\ e \in Emails
      /\ users[i].row = "committed" /\ users[i].email = e
  BY DEF SendVerification, HandlersOK, HandlerOK
<1>2. /\ mailbox' = [mailbox EXCEPT ![e] = mailbox[e] \cup {i}]
      /\ req[r].pc = "mail" /\ Become(r, Idle)
      /\ UNCHANGED <<users, nUsers, email_verifications, now, crashes>>
  BY DEF SendVerification, Finish, db
<1> HIDE DEF i, e
<1>3. /\ req' \in [Requests -> Request] /\ req'[r].pc = "idle"
      /\ \A s \in Requests : s # r => req'[s] = req[s]
  BY <1>2, RecordsTyped, BecomeOnly
<1>4. /\ mailbox' \in [Emails -> SUBSET (1..nUsers)]
      /\ \A d \in Emails : mailbox[d] \subseteq mailbox'[d]
      /\ \A d \in Emails : \A j \in mailbox'[d] :
            j \in mailbox[d] \/ (d = e /\ j = i)
  BY <1>1, <1>2 DEF TypeOK
<1>5. TypeOK'
  <2>1. \A j \in UserIds : users[j].row = "open" <=>
           \E s \in Requests : req'[s].pc = "inserted" /\ req'[s].row = j
    BY <1>2, <1>3 DEF TypeOK
  <2> QED  BY <1>2, <1>3, <1>4, <2>1 DEF TypeOK
<1>6. RowsOK' /\ KeysUnique'
  BY <1>2 DEF RowsOK, KeysUnique
<1>7. HandlersOK'
  <2>1. HandlerOK(r)'
    BY <1>3 DEF HandlerOK
  <2>2. ASSUME NEW s \in Requests, s # r  PROVE HandlerOK(s)'
    <3>1. req'[s] = req[s]
      BY <1>3, <2>2
    <3>2. req[s].pc = "inserted" => \A q \in Requests :
             req'[q].pc = "inserted" /\ req'[q].row = req[s].row => q = s
      BY <1>3 DEF HandlersOK, HandlerOK
    <3> QED  BY <1>2, <1>4, <3>1, <3>2, StandingHandler
  <2> QED  BY <2>1, <2>2 DEF HandlersOK
<1>8. MailsNameAccounts'
  BY <1>1, <1>2, <1>4 DEF MailsNameAccounts
<1>9. VerifiedByOwnToken'
  <2>1. \A j \in UserIds : users[j].verified => users[j].email \in Emails
    BY DEF RowsOK
  <2> QED  BY <1>2, <1>4, <2>1 DEF VerifiedByOwnToken
<1> QED  BY <1>5, <1>6, <1>7, <1>8, <1>9

(* A verification spends its token and marks the account of the token.     *)
LEMMA StepVerifyCommit ==
  ASSUME IInv, NEW r \in Requests, VerifyCommit(r)
  PROVE  IInv'
<1> DEFINE i == req[r].row
           u == [users[i] EXCEPT !.verified = TRUE]
           v == [email_verifications[i] EXCEPT !.used = TRUE]
<1> USE Fields DEF IInv
<1>1. /\ i \in UserIds /\ users[i].row = "committed"
      /\ i \in mailbox[users[i].email]
  BY DEF VerifyCommit, HandlersOK, HandlerOK
<1>2. /\ u \in User /\ u.verified
      /\ u.row = users[i].row /\ u.email = users[i].email
      /\ v \in EmailVerification /\ v.used
  <2>1. users[i] \in User /\ email_verifications[i] \in EmailVerification
    BY <1>1
  <2>2. u \in User /\ u.row = users[i].row /\ u.email = users[i].email
    BY <2>1 DEF User
  <2>3. v \in EmailVerification
    BY <2>1 DEF EmailVerification
  <2>4. u.verified /\ v.used
    BY <2>1 DEF User, EmailVerification
  <2> QED  BY <2>2, <2>3, <2>4
<1>3. /\ users' = [users EXCEPT ![i] = u]
      /\ email_verifications' = [email_verifications EXCEPT ![i] = v]
      /\ req[r].pc = "verify" /\ Become(r, Idle)
      /\ UNCHANGED <<nUsers, now, mailbox, crashes>>
  BY DEF VerifyCommit, Finish
<1> HIDE DEF i, u, v
<1>4. /\ req' \in [Requests -> Request] /\ req'[r].pc = "idle"
      /\ \A s \in Requests : s # r => req'[s] = req[s]
  BY <1>3, RecordsTyped, BecomeOnly
<1>5. /\ users' \in [UserIds -> User] /\ users'[i].verified
      /\ \A j \in UserIds : /\ users'[j].row = users[j].row
                            /\ users'[j].email = users[j].email
                            /\ j # i => users'[j] = users[j]
  BY <1>1, <1>3, <1>2 DEF TypeOK
<1>6. /\ email_verifications' \in [UserIds -> EmailVerification]
      /\ email_verifications'[i].used
      /\ \A j \in UserIds : j # i =>
            email_verifications'[j] = email_verifications[j]
  BY <1>1, <1>3, <1>2 DEF TypeOK
<1>7. TypeOK'
  <2>1. \A j \in UserIds : users'[j].row = "open" <=>
           \E s \in Requests : req'[s].pc = "inserted" /\ req'[s].row = j
    BY <1>3, <1>4, <1>5 DEF TypeOK
  <2> QED  BY <1>3, <1>4, <1>5, <1>6, <2>1 DEF TypeOK
<1>8. RowsOK'
  BY <1>1, <1>3, <1>5, <1>6 DEF RowsOK
<1>9. KeysUnique'
  BY <1>5 DEF KeysUnique
<1>10. HandlersOK'
  <2>1. HandlerOK(r)'
    BY <1>4 DEF HandlerOK
  <2>2. ASSUME NEW s \in Requests, s # r  PROVE HandlerOK(s)'
    <3>1. req'[s] = req[s]
      BY <1>4, <2>2
    <3>2. req[s].pc = "inserted" =>
             /\ users'[req[s].row].email = users[req[s].row].email
             /\ \A q \in Requests :
                   req'[q].pc = "inserted" /\ req'[q].row = req[s].row => q = s
      BY <1>4, <1>5 DEF HandlersOK, HandlerOK
    <3> QED  BY <1>3, <1>5, <3>1, <3>2, StandingHandler
  <2> QED  BY <2>1, <2>2 DEF HandlersOK
<1>11. MailsNameAccounts'
  BY <1>3, <1>5 DEF MailsNameAccounts
<1>12. VerifiedByOwnToken'
  BY <1>1, <1>3, <1>5, <1>6 DEF VerifiedByOwnToken
<1> QED  BY <1>7, <1>8, <1>9, <1>10, <1>11, <1>12

(* The rollback of an open row: the key is free, nothing pointed to it.    *)
LEMMA StepCrash ==
  ASSUME IInv, NEW r \in Requests, Crash(r)
  PROVE  IInv'
<1> DEFINE i == req[r].row
<1> USE Fields DEF IInv
<1>1. crashes' \in 0..MaxCrashes /\ Finish(r)
      /\ UNCHANGED <<nUsers, email_verifications, now, mailbox>>
  BY ConstantsAssumption DEF Crash, TypeOK
<1>2. CASE req[r].pc # "inserted"
  <2>1. UNCHANGED <<db, mailbox, now>>
    BY <1>1, <1>2 DEF Crash, db
  <2> QED  BY <1>1, <1>2, <2>1, StepEnd
<1>3. CASE req[r].pc = "inserted"
  <2>1. /\ i \in 1..nUsers /\ i \in UserIds /\ users[i].row = "open"
        /\ \A s \in Requests : req[s].pc = "inserted" /\ req[s].row = i => s = r
        /\ users' = [users EXCEPT ![i] = NoUser]
    BY <1>3 DEF Crash, TypeOK, HandlersOK, HandlerOK
  <2> HIDE DEF i
  <2>2. /\ req' \in [Requests -> Request] /\ req'[r].pc = "idle"
        /\ \A s \in Requests : s # r => req'[s] = req[s]
    BY <1>1, RecordsTyped, BecomeOnly DEF Finish
  <2>3. /\ users' \in [UserIds -> User] /\ users'[i] = NoUser
        /\ \A j \in UserIds : j # i => users'[j] = users[j]
    BY <2>1, RecordsTyped DEF TypeOK
  <2>4. /\ ~email_verifications[i].used /\ ~users[i].verified
        /\ \A e \in Emails : i \notin mailbox[e]
    BY <2>1 DEF RowsOK, MailsNameAccounts
  <2>5. TypeOK'
    <3>1. \A j \in UserIds : users'[j].row = "open" <=>
             \E s \in Requests : req'[s].pc = "inserted" /\ req'[s].row = j
      <4> TAKE j \in UserIds
      <4>1. CASE j = i
        BY <2>1, <2>2, <2>3, <4>1, RecordsTyped
      <4>2. CASE j # i
        BY <1>3, <2>2, <2>3, <4>2 DEF TypeOK, i
      <4> QED  BY <4>1, <4>2
    <3> QED  BY <1>1, <2>2, <2>3, <3>1 DEF TypeOK
  <2>6. RowsOK'
    BY <1>1, <2>3, <2>4, RecordsTyped DEF RowsOK
  <2>7. KeysUnique'
    BY <2>3, RecordsTyped DEF KeysUnique
  <2>8. HandlersOK'
    <3>1. HandlerOK(r)'
      BY <2>2 DEF HandlerOK
    <3>2. ASSUME NEW s \in Requests, s # r  PROVE HandlerOK(s)'
      <4>1. req'[s] = req[s]
        BY <2>2, <3>2
      <4>2. \A j \in 1..nUsers : users[j].row = "committed" =>
               users'[j].row = "committed" /\ users'[j].email = users[j].email
        BY <2>1, <2>3
      <4>3. ASSUME req[s].pc = "inserted"
            PROVE  /\ users'[req[s].row].email = users[req[s].row].email
                   /\ \A q \in Requests : req'[q].pc = "inserted"
                           /\ req'[q].row = req[s].row => q = s
        <5>1. req[s].row # i /\ req[s].row \in UserIds
          BY <2>1, <3>2, <4>3 DEF HandlersOK, HandlerOK
        <5> QED  BY <2>2, <2>3, <4>3, <5>1 DEF HandlersOK, HandlerOK
      <4> QED  BY <1>1, <4>1, <4>2, <4>3, StandingHandler
    <3> QED  BY <3>1, <3>2 DEF HandlersOK
  <2>9. MailsNameAccounts'
    BY <1>1, <2>3, <2>4 DEF MailsNameAccounts
  <2>10. VerifiedByOwnToken'
    BY <1>1, <2>3, <2>4, RecordsTyped DEF VerifiedByOwnToken
  <2> QED  BY <2>5, <2>6, <2>7, <2>8, <2>9, <2>10
<1> QED  BY <1>2, <1>3

(* Steps that leave every table and handler alone.                         *)
LEMMA StepStutter ==
  ASSUME IInv, UNCHANGED <<db, req, mailbox, crashes>>, now' \in 0..MaxTime
  PROVE  IInv'
<1>1. UNCHANGED <<users, nUsers, email_verifications, req, mailbox, crashes>>
  BY DEF db
<1>2. TypeOK'
  BY <1>1 DEF IInv, TypeOK
<1>3. HandlersOK'
  BY <1>1 DEF IInv, HandlersOK, HandlerOK
<1> QED  BY <1>2, <1>3, TablesStand DEF IInv

(* Every step preserves the invariant: one case per action.                *)
LEMMA StepIInv == IInv /\ [Next]_vars => IInv'
<1> SUFFICES ASSUME IInv, [Next]_vars PROVE IInv'
  OBVIOUS
<1>1. ASSUME NEW r \in Requests, Arrive(r)  PROVE IInv'
  <2>1. PICK e \in Emails :
           \/ RegisterRead(r, e) \/ RegisterRefused(r, e)
           \/ \E i \in mailbox[e] : VerifyRead(r, i)
    BY <1>1 DEF Arrive
  <2>2. CASE RegisterRead(r, e)
    BY <2>2, StepRegisterRead
  <2>3. CASE RegisterRefused(r, e)
    BY <2>3, StepStutter DEF RegisterRefused, vars, IInv, TypeOK
  <2>4. CASE \E i \in mailbox[e] : VerifyRead(r, i)
    BY <2>4, StepVerifyRead
  <2> QED  BY <2>1, <2>2, <2>3, <2>4
<1>2. ASSUME NEW r \in Requests, Continue(r)  PROVE IInv'
  <2>1. CASE InsertUser(r)
    BY <2>1, StepInsertUser
  <2>2. CASE InsertConflict(r)
    BY <2>2, StepEnd DEF InsertConflict, IInv, TypeOK
  <2>3. CASE RegisterCommit(r)
    BY <2>3, StepRegisterCommit
  <2>4. CASE SendVerification(r)
    BY <2>4, StepSendVerification
  <2>5. CASE VerifyCommit(r)
    BY <2>5, StepVerifyCommit
  <2> QED  BY <1>2, <2>1, <2>2, <2>3, <2>4, <2>5 DEF Continue
<1>3. ASSUME NEW r \in Requests, Crash(r)  PROVE IInv'
  BY <1>3, StepCrash
<1>4. CASE Tick
  BY <1>4, ConstantsAssumption, StepStutter DEF Tick, IInv, TypeOK
<1>5. CASE UNCHANGED vars
  BY <1>5, StepStutter DEF vars, IInv, TypeOK
<1> QED  BY <1>1, <1>2, <1>3, <1>4, <1>5 DEF Next

-----------------------------------------------------------------------------
(* The theorems.                                                           *)

(* The inductive invariant holds of every behaviour.  About: the handlers
   of app/services/auth_service.py:32-71, run concurrently.                *)
THEOREM InductiveInvariant == Spec => []IInv
<1>1. Init => IInv
  BY InitIInv
<1>2. IInv /\ [Next]_vars => IInv'
  BY StepIInv
<1> QED  BY <1>1, <1>2, PTL DEF Spec

(* Types, and: a users row is uncommitted exactly while one handler stands
   between its flush and its commit.  About: get_db, core/db.py:20-22.     *)
THEOREM TypeCorrect == Spec => []TypeOK
<1>1. IInv => TypeOK
  BY DEF IInv
<1> QED  BY <1>1, InductiveInvariant, PTL

(* However many registrations of an address overlap after their lookups,
   and whichever of them die, no two accounts have it.  About:
   register_user, auth_service.py:33-50, and users.email.                  *)
THEOREM AddressesAreUnique == Spec => []OneAccountPerAddress
<1>1. IInv => OneAccountPerAddress
  BY DEF IInv, KeysUnique, OneAccountPerAddress
<1> QED  BY <1>1, InductiveInvariant, PTL

(* A mail never precedes or outlives its account: no token of a registration
   that rolled back is in a mailbox.  About: auth_service.py:50-52.        *)
THEOREM MailsFollowCommits == Spec => []MailsNameAccounts
<1>1. IInv => MailsNameAccounts
  BY DEF IInv
<1> QED  BY <1>1, InductiveInvariant, PTL

(* Only the owner of an address verifies its account, with the token of this
   account.  About: verify_email, auth_service.py:56-71.                   *)
THEOREM VerificationIsOwn == Spec => []VerifiedByOwnToken
<1>1. IInv => VerifiedByOwnToken
  BY DEF IInv
<1> QED  BY <1>1, InductiveInvariant, PTL
=============================================================================
