------------------------ MODULE RefreshTokensProofs ------------------------
(***************************************************************************)
(* The safety invariants of RefreshTokens, for every set of users and      *)
(* request slots and all bounds.                                           *)
(***************************************************************************)
EXTENDS RefreshTokens, TLAPS

-----------------------------------------------------------------------------
(* The inductive invariant.                                                *)

(* What a suspended handler holds: rows it names exist, and what it listed
   is still everything that is live of what existed when it listed it.     *)
RowsExist(r) ==
    /\ req[r].pc \in {"rotate", "reuse", "purge", "logout", "respond"}
         => req[r].row \in Issued
    /\ req[r].pc \in {"reset", "wipe", "mail"} => req[r].row \in 1..nResets
    /\ req[r].pc \in {"login", "issue", "reset", "wipe"}
         => req[r].user \in Users
    /\ req[r].pc \in {"reset", "wipe"} => req[r].password \in Passwords
    /\ req[r].pc \in {"purge", "wipe"} => req[r].victims \subseteq Issued

PurgeComplete(r) ==
    req[r].pc = "purge" =>
        /\ req[r].mark <= nTokens
        /\ \A t \in Issued : /\ t <= req[r].mark
                             /\ Live(t)
                             /\ Family(t) = Family(req[r].row)
                             => t \in req[r].victims

WipeComplete(r) ==
    req[r].pc = "wipe" =>
        /\ req[r].mark <= nTokens
        /\ \A t \in Issued : /\ t <= req[r].mark
                             /\ Live(t)
                             /\ refresh_tokens[t].user_id = req[r].user
                             => t \in req[r].victims

HandlersOK ==
    \A r \in Requests : RowsExist(r) /\ PurgeComplete(r) /\ WipeComplete(r)

MarksOK ==
    /\ \A f \in Tokens : purged[f] <= nTokens
    /\ \A u \in Users : wiped[u] <= nTokens

IInv ==
    /\ TypeOK
    /\ HandlersOK
    /\ MarksOK
    /\ FamiliesAreLineages
    /\ ReuseKillsEarlierTokens
    /\ ResetKillsEarlierTokens

-----------------------------------------------------------------------------
(* The initial states satisfy it.                                          *)

(* The empty tables satisfy the invariant.                                 *)
LEMMA InitIInv == Init => IInv
<1> SUFFICES ASSUME Init PROVE IInv
  OBVIOUS
<1> USE ConstantsAssumption
<1>1. Issued = {}
  BY DEF Init, Issued
<1>2. TypeOK
  BY <1>1 DEF Init, TypeOK, Tokens, Resets, RefreshToken, PasswordReset,
     BlankToken, BlankReset, Request, Idle, Stages
<1>3. HandlersOK
  BY DEF Init, HandlersOK, RowsExist, PurgeComplete, WipeComplete, Idle
<1>4. MarksOK
  BY DEF Init, MarksOK
<1>5. FamiliesAreLineages /\ ReuseKillsEarlierTokens /\ ResetKillsEarlierTokens
  BY <1>1 DEF FamiliesAreLineages, ReuseKillsEarlierTokens,
     ResetKillsEarlierTokens
<1> QED  BY <1>2, <1>3, <1>4, <1>5 DEF IInv

-----------------------------------------------------------------------------
(* What one step may do to the rows that exist.                            *)

(* Revoke(S) marks the rows of S and touches nothing else.  About: the
   UPDATE statements of ReuseCommit, LogoutCommit and ResetCommit.         *)
LEMMA RevokeRows ==
  ASSUME TypeOK, NEW S, refresh_tokens' = Revoke(S), nTokens' = nTokens
  PROVE  /\ refresh_tokens' \in [Tokens -> RefreshToken]
         /\ \A t \in Tokens :
              /\ refresh_tokens'[t].user_id = refresh_tokens[t].user_id
              /\ refresh_tokens'[t].family_id = refresh_tokens[t].family_id
              /\ refresh_tokens'[t].replaced_by_id
                    = refresh_tokens[t].replaced_by_id
              /\ refresh_tokens[t].revoked => refresh_tokens'[t].revoked
              /\ t \in S => refresh_tokens'[t].revoked
              /\ t \notin S => refresh_tokens'[t] = refresh_tokens[t]
<1>1. \A t \in Tokens : refresh_tokens[t] \in RefreshToken
  BY DEF TypeOK
<1>2. \A t \in Tokens : t \in S => 
        refresh_tokens'[t] = [refresh_tokens[t] EXCEPT !.revoked = TRUE]
  BY DEF Revoke
<1>3. \A t \in Tokens : t \notin S => refresh_tokens'[t] = refresh_tokens[t]
  BY DEF Revoke
<1>4. \A t \in Tokens : refresh_tokens'[t] \in RefreshToken
  BY <1>1, <1>2, <1>3 DEF RefreshToken
<1>5. refresh_tokens' \in [Tokens -> RefreshToken]
  BY <1>4 DEF Revoke
<1> QED  BY <1>1, <1>2, <1>3, <1>5 DEF RefreshToken

(* What becomes of the row that is presented.  About:
   auth_service.py:148-149.                                                *)
LEMMA RotatedRow ==
  ASSUME NEW row \in RefreshToken, NEW s \in 0..MaxTokens
  PROVE  /\ Rotated(row, s) \in RefreshToken
         /\ Rotated(row, s).user_id = row.user_id
         /\ Rotated(row, s).family_id = row.family_id
         /\ Rotated(row, s).revoked
         /\ Rotated(row, s).replaced_by_id = s
  BY DEF RefreshToken, Rotated

(* A rotation inserts the successor, points the presented row to it and
   touches nothing else.  About: auth_service.py:135-152.                  *)
LEMMA RotateRows ==
  ASSUME TypeOK, HandlersOK, NEW r \in Requests, RotateCommit(r)
  PROVE  LET p == req[r].row
             n == nTokens + 1
         IN  /\ nTokens' = n /\ n \in Tokens /\ n \notin Issued
             /\ Issued' = Issued \cup {n}
             /\ p \in Issued /\ p \in Nat /\ n \in Nat /\ p < n
             /\ refresh_tokens' \in [Tokens -> RefreshToken]
             /\ \A t \in (Tokens \ {p, n}) \cup (Issued \ {p}) :
                   refresh_tokens'[t] = refresh_tokens[t]
             /\ refresh_tokens'[n] =
                   NewToken(refresh_tokens[p].user_id, refresh_tokens[p].family_id)
             /\ refresh_tokens'[p].user_id = refresh_tokens[p].user_id
             /\ refresh_tokens'[p].family_id = refresh_tokens[p].family_id
             /\ refresh_tokens'[p].revoked
             /\ refresh_tokens'[p].replaced_by_id = n
<1> DEFINE p == req[r].row
           n == nTokens + 1
           new == NewToken(refresh_tokens[p].user_id, refresh_tokens[p].family_id)
           old == Rotated(refresh_tokens[p], n)
<1> USE ConstantsAssumption
<1>1. /\ nTokens' = n /\ n \in Tokens /\ n \notin Issued
      /\ Issued' = Issued \cup {n}
      /\ Issued \subseteq Tokens
  BY DEF RotateCommit, TypeOK, Tokens, Issued
<1>2. p \in Issued /\ p \in Tokens /\ p # n /\ p \in Nat /\ n \in Nat /\ p < n
  <2>1. p \in Issued
    BY DEF RotateCommit, HandlersOK, RowsExist
  <2> QED  BY <1>1, <2>1 DEF Issued, TypeOK
<1>3. refresh_tokens' = [Insert(new) EXCEPT ![p] = Rotated(Insert(new)[p], n)]
  BY <1>1 DEF RotateCommit, Family
<1> HIDE DEF p, n, new, old
<1>4. /\ Insert(new) = [refresh_tokens EXCEPT ![n] = new]
      /\ Insert(new)[p] = refresh_tokens[p]
      /\ DOMAIN Insert(new) = Tokens
  BY <1>1, <1>2 DEF Insert, TypeOK, n
<1>5. /\ \A t \in Tokens \ {p, n} : refresh_tokens'[t] = refresh_tokens[t]
      /\ refresh_tokens'[n] = new
      /\ refresh_tokens'[p] = old
      /\ refresh_tokens' = [t \in Tokens |-> refresh_tokens'[t]]
  BY <1>1, <1>2, <1>3, <1>4 DEF TypeOK, old
<1>6. refresh_tokens[p] \in RefreshToken /\ refresh_tokens[p].user_id \in Users
      /\ refresh_tokens[p].family_id \in Tokens
  BY <1>1, <1>2 DEF TypeOK
<1>7. new \in RefreshToken
  BY <1>6 DEF new, NewToken, RefreshToken, TypeOK, Tokens
<1>8. /\ old \in RefreshToken
      /\ old.user_id = refresh_tokens[p].user_id
      /\ old.family_id = refresh_tokens[p].family_id
      /\ old.revoked
      /\ old.replaced_by_id = n
  <2>1. n \in 0..MaxTokens
    BY <1>1 DEF Tokens
  <2> QED  BY <1>6, <2>1, RotatedRow DEF old
<1>9. \A t \in Tokens : refresh_tokens'[t] \in RefreshToken
  BY <1>5, <1>7, <1>8 DEF TypeOK
<1>10. refresh_tokens' \in [Tokens -> RefreshToken]
  BY <1>5, <1>9
<1> QED  BY <1>1, <1>2, <1>5, <1>8, <1>10 DEF p, n, new

(* The row of a new token, as the statement that inserts it writes it.     *)
LEMMA NewTokenFields ==
  ASSUME NEW u, NEW f
  PROVE  /\ NewToken(u, f).user_id = u
         /\ NewToken(u, f).family_id = f
         /\ ~NewToken(u, f).revoked
         /\ NewToken(u, f).replaced_by_id = 0
  BY DEF NewToken

(* A login inserts the root of a new family and touches nothing else.
   About: auth_service.py:89-103.                                          *)
LEMMA IssueRows ==
  ASSUME TypeOK, HandlersOK, NEW r \in Requests, IssueCommit(r)
  PROVE  LET n == nTokens + 1
         IN  /\ nTokens' = n /\ n \in Tokens /\ n \notin Issued
             /\ Issued' = Issued \cup {n}
             /\ req[r].user \in Users /\ n \in 1..n
             /\ refresh_tokens' \in [Tokens -> RefreshToken]
             /\ \A t \in (Tokens \ {n}) \cup Issued :
                   refresh_tokens'[t] = refresh_tokens[t]
             /\ refresh_tokens'[n] = NewToken(req[r].user, n)
<1> DEFINE n == nTokens + 1
<1> USE ConstantsAssumption
<1>1. /\ nTokens' = n /\ n \in Tokens /\ n \notin Issued
      /\ Issued' = Issued \cup {n}
  BY DEF IssueCommit, TypeOK, Tokens, Issued
<1>2. req[r].user \in Users
  BY DEF IssueCommit, HandlersOK, RowsExist
<1>3. NewToken(req[r].user, n) \in RefreshToken
  BY <1>1, <1>2 DEF NewToken, RefreshToken, TypeOK, Tokens
<1>4. refresh_tokens' = [refresh_tokens EXCEPT ![n] = NewToken(req[r].user, n)]
  BY DEF IssueCommit, Insert
<1>5. Issued \subseteq Tokens /\ n \in 1..n
  BY DEF Issued, Tokens, TypeOK
<1> QED  BY <1>1, <1>2, <1>3, <1>4, <1>5 DEF TypeOK

(* Rows keep their user, family and successor, a revoked row stays revoked,
   and row numbers are not reused.  About: every handler; no code in src/
   clears revoked_at or moves a row.                                       *)
RowsOnlyAge ==
    /\ nTokens' \in Nat /\ nTokens <= nTokens'
    /\ \A t \in Issued :
         /\ refresh_tokens'[t].user_id = refresh_tokens[t].user_id
         /\ refresh_tokens'[t].family_id = refresh_tokens[t].family_id
         /\ refresh_tokens[t].revoked => refresh_tokens'[t].revoked

(* An action that writes no refresh token.                                 *)
NoTokenWrite == UNCHANGED <<refresh_tokens, nTokens>>

(* Steps that insert and revoke no token.                                  *)
LEMMA StepsWithoutTokenWrite ==
  ASSUME NEW r \in Requests,
         Arrive(r) \/ LoginCommit(r) \/ Respond(r) \/ ReuseScan(r)
           \/ SendReset(r) \/ ResetScan(r) \/ Crash(r)
  PROVE  NoTokenWrite
  BY DEF Arrive, NoTokenWrite, LoginRead, RequestReset, RefreshRead,
     RefreshReuse, LogoutRead, ResetRead, LoginCommit, Respond, ReuseScan,
     SendReset, ResetScan, Crash, db

(* A step never takes back what it wrote into a token row.                 *)
LEMMA StepRowsOnlyAge ==
  ASSUME TypeOK, HandlersOK, [Next]_vars
  PROVE  RowsOnlyAge
<1> USE ConstantsAssumption
<1>0. nTokens \in Nat /\ Issued \subseteq Tokens
  BY DEF TypeOK, Issued, Tokens
<1>1. ASSUME NoTokenWrite PROVE RowsOnlyAge
  BY <1>0, <1>1 DEF NoTokenWrite, RowsOnlyAge
<1>2. ASSUME NEW S, refresh_tokens' = Revoke(S), nTokens' = nTokens
      PROVE  RowsOnlyAge
  BY <1>0, <1>2, RevokeRows DEF RowsOnlyAge
<1>3. ASSUME NEW r \in Requests, IssueCommit(r) PROVE RowsOnlyAge
  BY <1>0, <1>3, IssueRows DEF RowsOnlyAge
<1>4. ASSUME NEW r \in Requests, RotateCommit(r) PROVE RowsOnlyAge
  BY <1>0, <1>4, RotateRows DEF RowsOnlyAge
<1>5. ASSUME NEW r \in Requests, ReuseCommit(r) PROVE RowsOnlyAge
  BY <1>2, <1>5 DEF ReuseCommit
<1>6. ASSUME NEW r \in Requests, LogoutCommit(r) PROVE RowsOnlyAge
  BY <1>2, <1>6 DEF LogoutCommit
<1>7. ASSUME NEW r \in Requests, ResetCommit(r) PROVE RowsOnlyAge
  BY <1>2, <1>7 DEF ResetCommit
<1>8. ASSUME Tick \/ UNCHANGED vars PROVE NoTokenWrite
  BY <1>8 DEF Tick, NoTokenWrite, vars, db
<1> QED
  BY <1>1, <1>3, <1>4, <1>5, <1>6, <1>7, <1>8, StepsWithoutTokenWrite
     DEF Next, Serve, Continue

-----------------------------------------------------------------------------
(* Type correctness.                                                       *)

(* The slot of the handler that moves takes its new record, the others
   keep theirs.                                                            *)
LEMMA BecomeOnly ==
  ASSUME TypeOK, NEW r \in Requests, NEW h \in Request, Become(r, h)
  PROVE  /\ req' \in [Requests -> Request]
         /\ req'[r] = h
         /\ \A q \in Requests \ {r} : req'[q] = req[q]
  BY DEF TypeOK, Become

(* The records that actions write into slots and rows are typed.           *)
LEMMA RecordsTyped ==
  ASSUME TypeOK, HandlersOK, NEW r \in Requests
  PROVE  /\ Idle \in Request
         /\ \A u \in Users : [Idle EXCEPT !.pc = "login", !.user = u] \in Request
         /\ \A t \in Nat, pc \in Stages :
               [Idle EXCEPT !.pc = pc, !.row = t] \in Request
         /\ \A k \in Nat, p \in Passwords, u \in Users :
               [Idle EXCEPT !.pc = "reset", !.row = k, !.password = p, !.user = u]
                 \in Request
         /\ [req[r] EXCEPT !.pc = "issue"] \in Request
         /\ [req[r] EXCEPT !.pc = "respond", !.row = nTokens + 1] \in Request
         /\ [req[r] EXCEPT !.pc = "purge", !.mark = nTokens,
                           !.victims = FamilyMembers(req[r].row)] \in Request
         /\ [req[r] EXCEPT !.pc = "wipe", !.mark = nTokens,
                           !.victims = UserTokens(req[r].user)] \in Request
<1> USE ConstantsAssumption
<1>1. req[r] \in Request
  BY DEF TypeOK
<1>2. /\ nTokens \in 0..MaxTokens /\ nTokens + 1 \in Nat
      /\ FamilyMembers(req[r].row) \in SUBSET Tokens
      /\ UserTokens(req[r].user) \in SUBSET Tokens
  BY DEF TypeOK, FamilyMembers, UserTokens, Tokens, Issued
<1>3. Idle \in Request
  BY DEF Idle, Request, Stages
<1>4. ASSUME NEW h \in Request
      PROVE  /\ \A u \in Users : [h EXCEPT !.pc = "login", !.user = u] \in Request
             /\ \A t \in Nat, pc \in Stages :
                   [h EXCEPT !.pc = pc, !.row = t] \in Request
             /\ \A k \in Nat, p \in Passwords, u \in Users :
                   [h EXCEPT !.pc = "reset", !.row = k, !.password = p, !.user = u]
                     \in Request
  BY DEF Request, Stages
<1>5. [req[r] EXCEPT !.pc = "issue"] \in Request
  BY <1>1 DEF Request, Stages
<1>6. [req[r] EXCEPT !.pc = "respond", !.row = nTokens + 1] \in Request
  BY <1>1, <1>2 DEF Request, Stages
<1>7. \A m \in 0..MaxTokens, S \in SUBSET Tokens :
        /\ [req[r] EXCEPT !.pc = "purge", !.mark = m, !.victims = S] \in Request
        /\ [req[r] EXCEPT !.pc = "wipe", !.mark = m, !.victims = S] \in Request
  BY <1>1 DEF Request, Stages
<1> QED  BY <1>2, <1>3, <1>4, <1>5, <1>6, <1>7

(* Consequences of the types that most steps need.                         *)
LEMMA Basics ==
  ASSUME TypeOK
  PROVE  /\ nTokens \in Nat /\ nResets \in Nat /\ nResets + 1 \in Nat
         /\ Issued \subseteq Nat /\ Issued \subseteq Tokens
         /\ held \subseteq Issued /\ held \subseteq Nat
         /\ mailed \subseteq 1..nResets /\ mailed \subseteq Nat
         /\ \A k \in mailed : password_resets[k].user_id \in Users
         /\ \A r \in Requests : req[r] \in Request
<1>1. nTokens \in 0..MaxTokens /\ nResets \in 0..MaxResets
  BY DEF TypeOK
<1>2. Issued \subseteq Nat /\ Issued \subseteq Tokens
  BY <1>1, ConstantsAssumption DEF Issued, Tokens
<1>3. held \subseteq Issued /\ mailed \subseteq 1..nResets
  BY DEF TypeOK
<1>4. \A k \in mailed : password_resets[k].user_id \in Users
  BY <1>3 DEF TypeOK
<1>5. \A r \in Requests : req[r] \in Request
  BY DEF TypeOK
<1> QED  BY <1>1, <1>2, <1>3, <1>4, <1>5, ConstantsAssumption

(* Every step preserves the types: one case per action.                    *)
LEMMA StepTypeOK ==
  ASSUME TypeOK, HandlersOK, [Next]_vars
  PROVE  TypeOK'
<1> USE ConstantsAssumption
<1>0. /\ nTokens \in Nat /\ nResets \in Nat /\ nResets + 1 \in Nat
      /\ Issued \subseteq Nat /\ Issued \subseteq Tokens
      /\ held \subseteq Nat /\ mailed \subseteq Nat
      /\ \A k \in mailed : password_resets[k].user_id \in Users
      /\ Stages = {"idle", "login", "issue", "rotate", "reuse", "purge",
                   "logout", "reset", "wipe", "respond", "mail"}
  BY Basics DEF Stages
<1>1. ASSUME NEW r \in Requests, NEW u \in Users, NEW p \in Passwords, LoginRead(r, u, p)
      PROVE  TypeOK'
  <2>1. req' \in [Requests -> Request]
    BY <1>0, <1>1, RecordsTyped, BecomeOnly DEF LoginRead
  <2> QED  BY <1>1, <2>1 DEF LoginRead, TypeOK, Issued, db
<1>2. ASSUME NEW r \in Requests, NEW t \in held, RefreshRead(r, t)
      PROVE  TypeOK'
  <2>1. req' \in [Requests -> Request]
    BY <1>0, <1>2, RecordsTyped, BecomeOnly DEF RefreshRead
  <2> QED  BY <1>2, <2>1 DEF RefreshRead, TypeOK, Issued, db
<1>3. ASSUME NEW r \in Requests, NEW t \in held, RefreshReuse(r, t)
      PROVE  TypeOK'
  <2>1. req' \in [Requests -> Request]
    BY <1>0, <1>3, RecordsTyped, BecomeOnly DEF RefreshReuse
  <2> QED  BY <1>3, <2>1 DEF RefreshReuse, TypeOK, Issued, db
<1>4. ASSUME NEW r \in Requests, NEW t \in held, LogoutRead(r, t)
      PROVE  TypeOK'
  <2>1. req' \in [Requests -> Request]
    BY <1>0, <1>4, RecordsTyped, BecomeOnly DEF LogoutRead
  <2> QED  BY <1>4, <2>1 DEF LogoutRead, TypeOK, Issued, db
<1>5. ASSUME NEW r \in Requests, NEW k \in mailed, NEW p \in Passwords, ResetRead(r, k, p)
      PROVE  TypeOK'
  <2>1. req' \in [Requests -> Request]
    BY <1>0, <1>5, RecordsTyped, BecomeOnly DEF ResetRead
  <2> QED  BY <1>5, <2>1 DEF ResetRead, TypeOK, Issued, db
<1>6. ASSUME NEW r \in Requests, LoginCommit(r)
      PROVE  TypeOK'
  <2>1. req' \in [Requests -> Request]
    BY <1>0, <1>6, RecordsTyped, BecomeOnly DEF LoginCommit
  <2> QED  BY <1>6, <2>1 DEF LoginCommit, TypeOK, Issued, db
<1>7. ASSUME NEW r \in Requests, ReuseScan(r)
      PROVE  TypeOK'
  <2>1. req' \in [Requests -> Request]
    BY <1>0, <1>7, RecordsTyped, BecomeOnly DEF ReuseScan
  <2> QED  BY <1>7, <2>1 DEF ReuseScan, TypeOK, Issued, db
<1>8. ASSUME NEW r \in Requests, ResetScan(r)
      PROVE  TypeOK'
  <2>1. req' \in [Requests -> Request]
    BY <1>0, <1>8, RecordsTyped, BecomeOnly DEF ResetScan
  <2> QED  BY <1>8, <2>1 DEF ResetScan, TypeOK, Issued, db
<1>9. ASSUME NEW r \in Requests, Crash(r)
      PROVE  TypeOK'
  <2>1. req' \in [Requests -> Request]
    BY <1>0, <1>9, RecordsTyped, BecomeOnly DEF Crash, Finish
  <2> QED  BY <1>9, <2>1 DEF Crash, TypeOK, Issued, db
<1>10. ASSUME NEW r \in Requests, Respond(r) PROVE TypeOK'
  <2>1. req' \in [Requests -> Request]
    BY <1>10, RecordsTyped, BecomeOnly DEF Respond, Finish
  <2>2. req[r].row \in Issued
    BY <1>10 DEF Respond, HandlersOK, RowsExist
  <2> QED  BY <1>10, <2>1, <2>2 DEF Respond, TypeOK, Issued, db
<1>11. ASSUME NEW r \in Requests, SendReset(r) PROVE TypeOK'
  <2>1. req' \in [Requests -> Request]
    BY <1>11, RecordsTyped, BecomeOnly DEF SendReset, Finish
  <2>2. req[r].row \in 1..nResets
    BY <1>11 DEF SendReset, HandlersOK, RowsExist
  <2>3. mailed' \subseteq 1..nResets'
    BY <1>11, <2>2 DEF SendReset, TypeOK, db
  <2> QED  BY <1>11, <2>1, <2>3 DEF SendReset, TypeOK, Issued, db
<1>12. ASSUME NEW r \in Requests, NEW u \in Users, RequestReset(r, u)
       PROVE  TypeOK'
  <2>1. req' \in [Requests -> Request]
    <3>1. [Idle EXCEPT !.pc = "mail", !.row = nResets + 1] \in Request
      BY <1>0, RecordsTyped
    <3> QED  BY <1>12, <3>1, BecomeOnly DEF RequestReset
  <2>2. nResets + 1 \in Resets /\ nResets' = nResets + 1 /\ nResets' \in 0..MaxResets
    BY <1>0, <1>12 DEF RequestReset, Resets, TypeOK
  <2>3. [user_id |-> u, expires_at |-> now + ResetTTL, used |-> FALSE]
          \in PasswordReset
    BY DEF PasswordReset, TypeOK
  <2>4. /\ password_resets' \in [Resets -> PasswordReset]
        /\ \A k \in 1..nResets' : password_resets'[k].user_id \in Users
    BY <1>0, <1>12, <2>2, <2>3 DEF RequestReset, TypeOK
  <2> QED  BY <1>0, <1>12, <2>1, <2>2, <2>4 DEF RequestReset, TypeOK, Issued
<1>13. ASSUME NEW r \in Requests, IssueCommit(r) PROVE TypeOK'
  <2>1. req' \in [Requests -> Request]
    BY <1>13, RecordsTyped, BecomeOnly DEF IssueCommit
  <2>2. /\ nTokens' \in 0..MaxTokens /\ Issued \subseteq Issued'
    BY <1>0, <1>13, IssueRows DEF Tokens
  <2>3. /\ \A t \in Issued' : /\ refresh_tokens'[t].user_id \in Users
                              /\ refresh_tokens'[t].family_id \in Issued'
        /\ \A t \in Tokens \ Issued' : refresh_tokens'[t] = BlankToken
    <3> DEFINE n == nTokens + 1
    <3>1. \A t \in Issued : t \in Tokens \ {n} /\ refresh_tokens'[t] = refresh_tokens[t]
      BY <1>0, <1>13, IssueRows DEF TypeOK, Tokens, Issued
    <3>2. refresh_tokens'[n].user_id \in Users /\ refresh_tokens'[n].family_id = n
      BY <1>13, IssueRows, NewTokenFields
    <3> QED  BY <1>13, <3>1, <3>2, IssueRows DEF TypeOK
  <2> QED
    BY <1>13, <2>1, <2>2, <2>3, IssueRows DEF IssueCommit, TypeOK
<1>14. ASSUME NEW r \in Requests, RotateCommit(r) PROVE TypeOK'
  <2>1. req' \in [Requests -> Request]
    BY <1>14, RecordsTyped, BecomeOnly DEF RotateCommit
  <2>2. /\ nTokens' \in 0..MaxTokens /\ Issued \subseteq Issued'
    BY <1>0, <1>14, RotateRows DEF Tokens
  <2>3. /\ \A t \in Issued' : /\ refresh_tokens'[t].user_id \in Users
                              /\ refresh_tokens'[t].family_id \in Issued'
        /\ \A t \in Tokens \ Issued' : refresh_tokens'[t] = BlankToken
    <3> DEFINE n == nTokens + 1
    <3>1. \A t \in Issued : /\ refresh_tokens'[t].user_id = refresh_tokens[t].user_id
                            /\ refresh_tokens'[t].family_id = refresh_tokens[t].family_id
      BY <1>14, StepRowsOnlyAge DEF RowsOnlyAge
    <3>2. refresh_tokens'[n].user_id \in Users /\ refresh_tokens'[n].family_id \in Issued
      BY <1>14, RotateRows, NewTokenFields DEF TypeOK
    <3> QED  BY <1>14, <3>1, <3>2, RotateRows DEF TypeOK
  <2> QED
    BY <1>14, <2>1, <2>2, <2>3, RotateRows DEF RotateCommit, TypeOK
<1>15. ASSUME NEW S \in SUBSET Issued, refresh_tokens' = Revoke(S),
              nTokens' = nTokens
       PROVE  /\ refresh_tokens' \in [Tokens -> RefreshToken]
              /\ Issued' = Issued
              /\ \A t \in Issued' : /\ refresh_tokens'[t].user_id \in Users
                                    /\ refresh_tokens'[t].family_id \in Issued'
              /\ \A t \in Tokens \ Issued' : refresh_tokens'[t] = BlankToken
  <2>1. Issued' = Issued
    BY <1>15 DEF Issued
  <2>2. refresh_tokens' \in [Tokens -> RefreshToken]
    BY <1>15, RevokeRows
  <2>3. \A t \in Tokens : /\ refresh_tokens'[t].user_id = refresh_tokens[t].user_id
                          /\ refresh_tokens'[t].family_id = refresh_tokens[t].family_id
                          /\ t \notin S => refresh_tokens'[t] = refresh_tokens[t]
    BY <1>15, RevokeRows
  <2>4. \A t \in Issued : /\ refresh_tokens'[t].user_id \in Users
                          /\ refresh_tokens'[t].family_id \in Issued
    <3>1. \A t \in Issued : /\ refresh_tokens[t].user_id \in Users
                            /\ refresh_tokens[t].family_id \in Issued
      BY DEF TypeOK
    <3> QED  BY <1>0, <2>3, <3>1
  <2>5. \A t \in Tokens \ Issued : refresh_tokens'[t] = BlankToken
    <3>1. \A t \in Tokens \ Issued : refresh_tokens[t] = BlankToken
      BY DEF TypeOK
    <3> QED  BY <1>15, <2>3, <3>1
  <2> QED  BY <2>1, <2>2, <2>4, <2>5
<1>16. ASSUME NEW r \in Requests, ReuseCommit(r) PROVE TypeOK'
  <2>1. req' \in [Requests -> Request]
    BY <1>16, RecordsTyped, BecomeOnly DEF ReuseCommit, Finish
  <2>2. req[r].victims \in SUBSET Issued
    BY <1>16 DEF ReuseCommit, HandlersOK, RowsExist
  <2>3. purged' \in [Tokens -> 0..MaxTokens]
    BY <1>16 DEF ReuseCommit, TypeOK, Request
  <2> QED  BY <1>15, <1>16, <2>1, <2>2, <2>3 DEF ReuseCommit, TypeOK
<1>17. ASSUME NEW r \in Requests, LogoutCommit(r) PROVE TypeOK'
  <2>1. req' \in [Requests -> Request]
    BY <1>17, RecordsTyped, BecomeOnly DEF LogoutCommit, Finish
  <2>2. {req[r].row} \in SUBSET Issued
    BY <1>17 DEF LogoutCommit, HandlersOK, RowsExist
  <2> QED  BY <1>15, <1>17, <2>1, <2>2 DEF LogoutCommit, TypeOK
<1>18. ASSUME NEW r \in Requests, ResetCommit(r) PROVE TypeOK'
  <2>1. req' \in [Requests -> Request]
    BY <1>18, RecordsTyped, BecomeOnly DEF ResetCommit, Finish
  <2>2. /\ req[r].victims \in SUBSET Issued
        /\ req[r].row \in 1..nResets /\ req[r].password \in Passwords
        /\ req[r] \in Request
    BY <1>18 DEF ResetCommit, HandlersOK, RowsExist, TypeOK
  <2>3. wiped' \in [Users -> 0..MaxTokens]
    BY <1>18, <2>2 DEF ResetCommit, TypeOK, Request
  <2>4. /\ password_resets' \in [Resets -> PasswordReset]
        /\ \A k \in 1..nResets' : password_resets'[k].user_id \in Users
    <3>1. /\ req[r].row \in Resets
          /\ password_resets[req[r].row] \in PasswordReset
          /\ 1..nResets \subseteq Resets
      BY <1>0, <2>2 DEF TypeOK, Resets
    <3>2. password_resets' = [password_resets EXCEPT ![req[r].row] =
                                [password_resets[req[r].row] EXCEPT !.used = TRUE]]
      BY <1>18, <3>1 DEF ResetCommit, TypeOK
    <3>3. /\ [password_resets[req[r].row] EXCEPT !.used = TRUE] \in PasswordReset
          /\ [password_resets[req[r].row] EXCEPT !.used = TRUE].user_id
                = password_resets[req[r].row].user_id
      BY <3>1 DEF PasswordReset
    <3> QED  BY <1>18, <3>1, <3>2, <3>3 DEF ResetCommit, TypeOK
  <2>5. password' \in [Users -> Passwords]
    BY <1>18, <2>2 DEF ResetCommit, TypeOK
  <2> QED
    BY <1>15, <1>18, <2>1, <2>2, <2>3, <2>4, <2>5 DEF ResetCommit, TypeOK
<1>19. CASE Tick
  BY <1>19 DEF Tick, TypeOK, Issued, db
<1>20. CASE UNCHANGED vars
  BY <1>20 DEF TypeOK, Issued, vars, db
<1> QED
  BY <1>1, <1>2, <1>3, <1>4, <1>5, <1>6, <1>7, <1>8, <1>9, <1>10, <1>11,
     <1>12, <1>13, <1>14, <1>16, <1>17, <1>18, <1>19, <1>20
     DEF Next, Serve, Arrive, Continue

-----------------------------------------------------------------------------
(* The handlers that are suspended.                                        *)

(* Reset rows are only added.                                              *)
LEMMA StepResetsGrow ==
  ASSUME TypeOK, [Next]_vars
  PROVE  nResets' \in Nat /\ nResets <= nResets'
<1>1. nResets \in Nat
  BY DEF TypeOK
<1>2. ASSUME NEW r \in Requests, Arrive(r)
      PROVE  nResets' = nResets \/ nResets' = nResets + 1
  BY <1>2 DEF Arrive, LoginRead, RequestReset, RefreshRead, RefreshReuse,
     LogoutRead, ResetRead, db
<1>3. ASSUME NEW r \in Requests, Continue(r) PROVE nResets' = nResets
  BY <1>3 DEF Continue, LoginCommit, IssueCommit, Respond, RotateCommit,
     ReuseScan, ReuseCommit, LogoutCommit, SendReset, ResetScan, ResetCommit, db
<1>4. ASSUME NEW r \in Requests, Crash(r) PROVE nResets' = nResets
  BY <1>4 DEF Crash, db
<1>5. ASSUME Tick \/ UNCHANGED vars PROVE nResets' = nResets
  BY <1>5 DEF Tick, vars, db
<1> QED  BY <1>1, <1>2, <1>3, <1>4, <1>5 DEF Next, Serve

HandlerOK(r) == RowsExist(r) /\ PurgeComplete(r) /\ WipeComplete(r)

(* A handler that does not move keeps its part of the invariant while
   others commit: the rows it listed only age.                             *)
LEMMA StandingHandler ==
  ASSUME TypeOK, HandlersOK, [Next]_vars, NEW q \in Requests, req'[q] = req[q]
  PROVE  HandlerOK(q)'
<1>1. RowsOnlyAge /\ nResets' \in Nat /\ nResets <= nResets'
  BY StepRowsOnlyAge, StepResetsGrow
<1>2. nTokens \in Nat /\ nTokens' \in Nat /\ nResets \in Nat /\ nTokens <= nTokens'
  BY <1>1 DEF RowsOnlyAge, TypeOK
<1>3. Issued \subseteq Issued' /\ 1..nResets \subseteq 1..nResets'
  BY <1>1, <1>2 DEF Issued
<1>4. RowsExist(q) /\ PurgeComplete(q) /\ WipeComplete(q)
  BY DEF HandlersOK
<1>5. RowsExist(q)'
  BY <1>3, <1>4 DEF RowsExist
<1>6. \A t \in Issued : /\ Live(t)' => Live(t)
                        /\ Family(t)' = Family(t)
                        /\ refresh_tokens'[t].user_id = refresh_tokens[t].user_id
  BY <1>1 DEF RowsOnlyAge, Live, Family
<1>7. \A t \in Issued', m \in Nat : t <= m /\ m <= nTokens => t \in Issued
  BY <1>2 DEF Issued
<1>8. req[q] \in Request /\ req[q].mark \in Nat
  BY ConstantsAssumption DEF TypeOK, Request
<1>9. PurgeComplete(q)'
  <2> SUFFICES ASSUME req[q].pc = "purge"
               PROVE  /\ req[q].mark <= nTokens'
                      /\ \A t \in Issued' :
                           t <= req[q].mark /\ Live(t)'
                             /\ Family(t)' = Family(req[q].row)'
                             => t \in req[q].victims
    BY DEF PurgeComplete, Live, Family
  <2>1. req[q].mark <= nTokens /\ req[q].row \in Issued
    BY <1>4 DEF PurgeComplete, RowsExist
  <2>2. ASSUME NEW t \in Issued', t <= req[q].mark, Live(t)',
               Family(t)' = Family(req[q].row)'
        PROVE  t \in req[q].victims
    <3>1. t \in Issued
      BY <1>7, <1>8, <2>1, <2>2
    <3> QED  BY <1>4, <1>6, <2>1, <2>2, <3>1 DEF PurgeComplete
  <2> QED  BY <1>2, <1>8, <2>1, <2>2
<1>10. WipeComplete(q)'
  <2> SUFFICES ASSUME req[q].pc = "wipe"
               PROVE  /\ req[q].mark <= nTokens'
                      /\ \A t \in Issued' :
                           t <= req[q].mark /\ Live(t)'
                             /\ refresh_tokens'[t].user_id = req[q].user
                             => t \in req[q].victims
    BY DEF WipeComplete, Live
  <2>1. req[q].mark <= nTokens
    BY <1>4 DEF WipeComplete
  <2>2. ASSUME NEW t \in Issued', t <= req[q].mark, Live(t)',
               refresh_tokens'[t].user_id = req[q].user
        PROVE  t \in req[q].victims
    <3>1. t \in Issued
      BY <1>7, <1>8, <2>1, <2>2
    <3> QED  BY <1>4, <1>6, <2>2, <3>1 DEF WipeComplete
  <2> QED  BY <1>2, <1>8, <2>1, <2>2
<1> QED  BY <1>5, <1>9, <1>10 DEF HandlerOK

(* The record of a handler that holds no list yet, or no list any more.    *)
LEMMA NoListHeld ==
  ASSUME NEW r \in Requests, req'[r].pc \notin {"purge", "wipe"}, RowsExist(r)'
  PROVE  HandlerOK(r)'
  BY DEF HandlerOK, PurgeComplete, WipeComplete

(* What handlers hold still names rows that exist after any step.          *)
LEMMA StepHandlersOK ==
  ASSUME TypeOK, HandlersOK, [Next]_vars
  PROVE  HandlersOK'
<1> USE ConstantsAssumption
<1> DEFINE Moved(r) == /\ HandlerOK(r)'
                       /\ \A q \in Requests \ {r} : req'[q] = req[q]
<1>0. /\ nTokens \in Nat /\ nResets \in Nat /\ nResets + 1 \in Nat
      /\ Issued \subseteq Nat /\ held \subseteq Issued
      /\ mailed \subseteq 1..nResets /\ mailed \subseteq Nat
      /\ \A k \in mailed : password_resets[k].user_id \in Users
      /\ \A r \in Requests : req[r] \in Request /\ RowsExist(r)
      /\ Stages = {"idle", "login", "issue", "rotate", "reuse", "purge",
                   "logout", "reset", "wipe", "respond", "mail"}
  BY Basics DEF Stages, HandlersOK
<1>1. /\ Issued \subseteq Issued' /\ 1..nResets \subseteq 1..nResets'
  <2>1. /\ nTokens' \in Nat /\ nTokens <= nTokens'
        /\ nResets' \in Nat /\ nResets <= nResets'
    BY StepRowsOnlyAge, StepResetsGrow DEF RowsOnlyAge
  <2> QED  BY <1>0, <2>1 DEF Issued
<1>2. ASSUME NEW r \in Requests, NEW u \in Users, NEW p \in Passwords,
             LoginRead(r, u, p)
      PROVE  Moved(r)
  <2>1. /\ req'[r] = [Idle EXCEPT !.pc = "login", !.user = u]
        /\ \A q \in Requests \ {r} : req'[q] = req[q]
    BY <1>2, RecordsTyped, BecomeOnly DEF LoginRead
  <2>2. req'[r].pc = "login" /\ req'[r].user = u
    BY <2>1 DEF Idle
  <2>3. RowsExist(r)'
    BY <2>2 DEF RowsExist
  <2> QED  BY <2>1, <2>2, <2>3, NoListHeld
<1>3. ASSUME NEW r \in Requests, NEW t \in held, RefreshRead(r, t)
      PROVE  Moved(r)
  <2>1. /\ req'[r] = [Idle EXCEPT !.pc = "rotate", !.row = t]
        /\ \A q \in Requests \ {r} : req'[q] = req[q]
    <3>1. [Idle EXCEPT !.pc = "rotate", !.row = t] \in Request
      BY <1>0, RecordsTyped
    <3> QED  BY <1>3, <3>1, BecomeOnly DEF RefreshRead
  <2>2. req'[r].pc = "rotate" /\ req'[r].row = t
    BY <2>1 DEF Idle
  <2>3. RowsExist(r)'
    BY <1>0, <1>1, <2>2 DEF RowsExist
  <2> QED  BY <2>1, <2>2, <2>3, NoListHeld
<1>4. ASSUME NEW r \in Requests, NEW t \in held, RefreshReuse(r, t)
      PROVE  Moved(r)
  <2>1. /\ req'[r] = [Idle EXCEPT !.pc = "reuse", !.row = t]
        /\ \A q \in Requests \ {r} : req'[q] = req[q]
    <3>1. [Idle EXCEPT !.pc = "reuse", !.row = t] \in Request
      BY <1>0, RecordsTyped
    <3> QED  BY <1>4, <3>1, BecomeOnly DEF RefreshReuse
  <2>2. req'[r].pc = "reuse" /\ req'[r].row = t
    BY <2>1 DEF Idle
  <2>3. RowsExist(r)'
    BY <1>0, <1>1, <2>2 DEF RowsExist
  <2> QED  BY <2>1, <2>2, <2>3, NoListHeld
<1>5. ASSUME NEW r \in Requests, NEW t \in held, LogoutRead(r, t)
      PROVE  Moved(r)
  <2>1. /\ req'[r] = [Idle EXCEPT !.pc = "logout", !.row = t]
        /\ \A q \in Requests \ {r} : req'[q] = req[q]
    <3>1. [Idle EXCEPT !.pc = "logout", !.row = t] \in Request
      BY <1>0, RecordsTyped
    <3> QED  BY <1>5, <3>1, BecomeOnly DEF LogoutRead
  <2>2. req'[r].pc = "logout" /\ req'[r].row = t
    BY <2>1 DEF Idle
  <2>3. RowsExist(r)'
    BY <1>0, <1>1, <2>2 DEF RowsExist
  <2> QED  BY <2>1, <2>2, <2>3, NoListHeld
<1>6. ASSUME NEW r \in Requests, NEW k \in mailed, NEW p \in Passwords,
             ResetRead(r, k, p)
      PROVE  Moved(r)
  <2> DEFINE u == password_resets[k].user_id
  <2>1. /\ req'[r] = [Idle EXCEPT !.pc = "reset", !.row = k, !.password = p,
                                  !.user = u]
        /\ \A q \in Requests \ {r} : req'[q] = req[q]
    BY <1>0, <1>6, RecordsTyped, BecomeOnly DEF ResetRead
  <2>2. /\ req'[r].pc = "reset" /\ req'[r].row = k
        /\ req'[r].password = p /\ req'[r].user = u
    BY <2>1 DEF Idle
  <2>3. RowsExist(r)'
    BY <1>0, <1>1, <2>2 DEF RowsExist
  <2> QED  BY <2>1, <2>2, <2>3, NoListHeld
<1>7. ASSUME NEW r \in Requests, NEW u \in Users, RequestReset(r, u)
      PROVE  Moved(r)
  <2>1. /\ req'[r] = [Idle EXCEPT !.pc = "mail", !.row = nResets + 1]
        /\ \A q \in Requests \ {r} : req'[q] = req[q]
    <3>1. [Idle EXCEPT !.pc = "mail", !.row = nResets + 1] \in Request
      BY <1>0, RecordsTyped
    <3> QED  BY <1>7, <3>1, BecomeOnly DEF RequestReset
  <2>2. req'[r].pc = "mail" /\ req'[r].row = nResets + 1
    BY <2>1 DEF Idle
  <2>3. nResets + 1 \in 1..nResets'
    BY <1>0, <1>7 DEF RequestReset
  <2>4. RowsExist(r)'
    BY <2>2, <2>3 DEF RowsExist
  <2> QED  BY <2>1, <2>2, <2>4, NoListHeld
<1>8. ASSUME NEW r \in Requests, LoginCommit(r)
      PROVE  Moved(r)
  <2>1. /\ req'[r] = [req[r] EXCEPT !.pc = "issue"]
        /\ \A q \in Requests \ {r} : req'[q] = req[q]
    BY <1>8, RecordsTyped, BecomeOnly DEF LoginCommit
  <2>2. req'[r].pc = "issue" /\ req'[r].user = req[r].user
    BY <1>0, <2>1 DEF Request
  <2>3. RowsExist(r)'
    BY <1>0, <1>8, <2>2 DEF RowsExist, LoginCommit
  <2> QED  BY <2>1, <2>2, <2>3, NoListHeld
<1>9. ASSUME NEW r \in Requests, IssueCommit(r)
      PROVE  Moved(r)
  <2>1. /\ req'[r] = [req[r] EXCEPT !.pc = "respond", !.row = nTokens + 1]
        /\ \A q \in Requests \ {r} : req'[q] = req[q]
    BY <1>9, RecordsTyped, BecomeOnly DEF IssueCommit
  <2>2. req'[r].pc = "respond" /\ req'[r].row = nTokens + 1
    BY <1>0, <2>1 DEF Request
  <2>3. nTokens + 1 \in Issued'
    BY <1>9, IssueRows
  <2>4. RowsExist(r)'
    BY <2>2, <2>3 DEF RowsExist
  <2> QED  BY <2>1, <2>2, <2>4, NoListHeld
<1>10. ASSUME NEW r \in Requests, RotateCommit(r)
      PROVE  Moved(r)
  <2>1. /\ req'[r] = [req[r] EXCEPT !.pc = "respond", !.row = nTokens + 1]
        /\ \A q \in Requests \ {r} : req'[q] = req[q]
    BY <1>10, RecordsTyped, BecomeOnly DEF RotateCommit
  <2>2. req'[r].pc = "respond" /\ req'[r].row = nTokens + 1
    BY <1>0, <2>1 DEF Request
  <2>3. nTokens + 1 \in Issued'
    BY <1>10, RotateRows
  <2>4. RowsExist(r)'
    BY <2>2, <2>3 DEF RowsExist
  <2> QED  BY <2>1, <2>2, <2>4, NoListHeld
<1>11. ASSUME NEW r \in Requests,
              Respond(r) \/ ReuseCommit(r) \/ LogoutCommit(r) \/ SendReset(r)
                \/ ResetCommit(r) \/ Crash(r)
       PROVE  Moved(r)
  <2>1. Become(r, Idle)
    BY <1>11 DEF Respond, ReuseCommit, LogoutCommit, SendReset, ResetCommit,
       Crash, Finish
  <2>2. /\ req'[r] = Idle
        /\ \A q \in Requests \ {r} : req'[q] = req[q]
    BY <2>1, RecordsTyped, BecomeOnly
  <2>3. req'[r].pc = "idle"
    BY <2>2 DEF Idle
  <2>4. RowsExist(r)'
    BY <2>3 DEF RowsExist
  <2> QED  BY <2>2, <2>3, <2>4, NoListHeld
<1>12. ASSUME NEW r \in Requests, ReuseScan(r)
       PROVE  Moved(r)
  <2>1. /\ req'[r] = [req[r] EXCEPT !.pc = "purge", !.mark = nTokens,
                                    !.victims = FamilyMembers(req[r].row)]
        /\ \A q \in Requests \ {r} : req'[q] = req[q]
    BY <1>12, RecordsTyped, BecomeOnly DEF ReuseScan
  <2>2. /\ req'[r].pc = "purge" /\ req'[r].mark = nTokens
        /\ req'[r].row = req[r].row
        /\ req'[r].victims = FamilyMembers(req[r].row)
    BY <1>0, <2>1 DEF Request
  <2>3. req[r].row \in Issued /\ UNCHANGED <<refresh_tokens, nTokens>>
    BY <1>0, <1>12 DEF ReuseScan, RowsExist, db
  <2>4. RowsExist(r)'
    BY <1>1, <2>2, <2>3 DEF RowsExist, FamilyMembers
  <2>5. PurgeComplete(r)'
    BY <1>0, <2>2, <2>3 DEF PurgeComplete, FamilyMembers, Live, Family, Issued
  <2>6. WipeComplete(r)'
    BY <2>2 DEF WipeComplete
  <2> QED  BY <2>1, <2>4, <2>5, <2>6 DEF HandlerOK
<1>13. ASSUME NEW r \in Requests, ResetScan(r)
       PROVE  Moved(r)
  <2>1. /\ req'[r] = [req[r] EXCEPT !.pc = "wipe", !.mark = nTokens,
                                    !.victims = UserTokens(req[r].user)]
        /\ \A q \in Requests \ {r} : req'[q] = req[q]
    BY <1>13, RecordsTyped, BecomeOnly DEF ResetScan
  <2>2. /\ req'[r].pc = "wipe" /\ req'[r].mark = nTokens
        /\ req'[r].row = req[r].row /\ req'[r].user = req[r].user
        /\ req'[r].password = req[r].password
        /\ req'[r].victims = UserTokens(req[r].user)
    BY <1>0, <2>1 DEF Request
  <2>3. /\ req[r].row \in 1..nResets /\ req[r].user \in Users
        /\ req[r].password \in Passwords
        /\ UNCHANGED <<refresh_tokens, nTokens>>
    BY <1>0, <1>13 DEF ResetScan, RowsExist, db
  <2>4. RowsExist(r)'
    BY <1>1, <2>2, <2>3 DEF RowsExist, UserTokens
  <2>5. WipeComplete(r)'
    BY <1>0, <2>2, <2>3 DEF WipeComplete, UserTokens, Live, Issued
  <2>6. PurgeComplete(r)'
    BY <2>2 DEF PurgeComplete
  <2> QED  BY <2>1, <2>4, <2>5, <2>6 DEF HandlerOK
<1> HIDE DEF Moved
<1>14. ASSUME NEW r \in Requests, Arrive(r) \/ Continue(r) \/ Crash(r)
       PROVE  Moved(r)
  BY <1>2, <1>3, <1>4, <1>5, <1>6, <1>7, <1>8, <1>9, <1>10, <1>11, <1>12,
     <1>13, <1>14 DEF Arrive, Continue
<1>15. ASSUME Tick \/ UNCHANGED vars PROVE \A q \in Requests : req'[q] = req[q]
  BY <1>15 DEF Tick, vars
<1>16. \A q \in Requests : HandlerOK(q)'
  BY <1>14, <1>15, StandingHandler DEF Moved, Next, Serve
<1> QED  BY <1>16 DEF HandlersOK, HandlerOK

-----------------------------------------------------------------------------
(* Families.                                                               *)

(* FamiliesAreLineages, for one row.                                       *)
Lineage(t) ==
    LET f == Family(t)
        s == refresh_tokens[t].replaced_by_id
    IN  /\ f \in 1..t
        /\ Family(f) = f
        /\ refresh_tokens[f].user_id = refresh_tokens[t].user_id
        /\ s # 0 => /\ s \in (t + 1)..nTokens
                    /\ Family(s) = f
                    /\ refresh_tokens[t].revoked

(* A row whose successor does not change keeps its place in its family.    *)
LEMMA RowKeepsLineage ==
  ASSUME TypeOK, RowsOnlyAge, NEW t \in Issued, Lineage(t),
         refresh_tokens'[t].replaced_by_id = refresh_tokens[t].replaced_by_id
  PROVE  Lineage(t)'
<1>1. nTokens \in Nat /\ nTokens' \in Nat /\ nTokens <= nTokens'
  BY DEF TypeOK, RowsOnlyAge
<1>2. Family(t) \in Issued
  BY <1>1 DEF Lineage, Issued
<1>3. refresh_tokens[t].replaced_by_id # 0
        => refresh_tokens[t].replaced_by_id \in Issued
  BY <1>1 DEF Lineage, Issued
<1>4. \A u \in Issued : /\ refresh_tokens'[u].user_id = refresh_tokens[u].user_id
                        /\ refresh_tokens'[u].family_id = refresh_tokens[u].family_id
                        /\ refresh_tokens[u].revoked => refresh_tokens'[u].revoked
  BY DEF RowsOnlyAge
<1>5. t \in Nat
  BY <1>1 DEF Issued
<1>6. PICK f, s : /\ f \in Issued /\ f = Family(t)
                  /\ s = refresh_tokens[t].replaced_by_id
  BY <1>2
<1>7. /\ refresh_tokens[f].family_id = f /\ f \in 1..t
      /\ refresh_tokens[f].user_id = refresh_tokens[t].user_id
      /\ s # 0 => /\ s \in Issued /\ s \in (t + 1)..nTokens
                  /\ refresh_tokens[s].family_id = f
                  /\ refresh_tokens[t].revoked
  BY <1>3, <1>6 DEF Lineage, Family
<1>8. /\ refresh_tokens'[t].family_id = f
      /\ refresh_tokens'[t].replaced_by_id = s
  BY <1>4, <1>6 DEF Family
<1>9. /\ refresh_tokens'[f].family_id = f
      /\ refresh_tokens'[f].user_id = refresh_tokens'[t].user_id
  BY <1>4, <1>6, <1>7
<1>10. s # 0 => /\ s \in (t + 1)..nTokens'
                /\ refresh_tokens'[s].family_id = f
                /\ refresh_tokens'[t].revoked
  BY <1>1, <1>4, <1>5, <1>7
<1> QED  BY <1>7, <1>8, <1>9, <1>10 DEF Lineage, Family

(* Every step preserves the lineages: a rotated token joins the family of
   its predecessor.                                                        *)
LEMMA StepFamilies ==
  ASSUME TypeOK, HandlersOK, FamiliesAreLineages, [Next]_vars
  PROVE  FamiliesAreLineages'
<1> USE ConstantsAssumption
<1>0. /\ RowsOnlyAge
      /\ \A t \in Issued : Lineage(t)
      /\ nTokens \in Nat
  BY StepRowsOnlyAge DEF FamiliesAreLineages, Lineage, TypeOK
<1>1. SUFFICES \A t \in Issued' : Lineage(t)'
  BY DEF FamiliesAreLineages, Lineage
<1>2. ASSUME NoTokenWrite PROVE \A t \in Issued' : Lineage(t)'
  <2>1. /\ Issued' = Issued
        /\ \A t \in Issued : refresh_tokens'[t].replaced_by_id
                               = refresh_tokens[t].replaced_by_id
    BY <1>2 DEF NoTokenWrite, Issued
  <2> QED  BY <1>0, <2>1, RowKeepsLineage
<1>3. ASSUME NEW S, refresh_tokens' = Revoke(S), nTokens' = nTokens
      PROVE  \A t \in Issued' : Lineage(t)'
  <2>1. /\ Issued' = Issued /\ Issued \subseteq Tokens
        /\ \A t \in Tokens : refresh_tokens'[t].replaced_by_id
                               = refresh_tokens[t].replaced_by_id
    BY <1>3, RevokeRows DEF Issued, Tokens, TypeOK
  <2> QED  BY <1>0, <2>1, RowKeepsLineage
<1>4. ASSUME NEW r \in Requests, IssueCommit(r)
      PROVE  \A t \in Issued' : Lineage(t)'
  <2>0. PICK n : n = nTokens + 1
    OBVIOUS
  <2>1. \A t \in Issued : refresh_tokens'[t].replaced_by_id
                            = refresh_tokens[t].replaced_by_id
    BY <1>4, IssueRows
  <2>2. /\ refresh_tokens'[n].family_id = n /\ n \in 1..n
        /\ refresh_tokens'[n].replaced_by_id = 0
    BY <1>0, <1>4, <2>0, IssueRows, NewTokenFields
  <2>3. Lineage(n)'
    BY <2>2 DEF Lineage, Family
  <2>4. Issued' = Issued \cup {n}
    BY <1>4, <2>0, IssueRows
  <2> QED  BY <1>0, <2>1, <2>3, <2>4, RowKeepsLineage
<1>5. ASSUME NEW r \in Requests, RotateCommit(r)
      PROVE  \A t \in Issued' : Lineage(t)'
  <2>1. PICK n, p, f :
          /\ n = nTokens + 1 /\ p = req[r].row /\ f = refresh_tokens[p].family_id
    OBVIOUS
  <2>2. /\ p \in Issued /\ Issued' = Issued \cup {n} /\ nTokens' = n
        /\ n \in Nat /\ p \in Nat /\ p < n
        /\ \A t \in Issued \ {p} : refresh_tokens'[t] = refresh_tokens[t]
    BY <1>5, <2>1, RotateRows
  <2>3. /\ refresh_tokens'[p].family_id = f
        /\ refresh_tokens'[p].user_id = refresh_tokens[p].user_id
        /\ refresh_tokens'[p].revoked
        /\ refresh_tokens'[p].replaced_by_id = n
        /\ refresh_tokens'[n].family_id = f
        /\ refresh_tokens'[n].user_id = refresh_tokens[p].user_id
        /\ refresh_tokens'[n].replaced_by_id = 0
    BY <1>5, <2>1, RotateRows, NewTokenFields
  <2>4. /\ f \in 1..p /\ refresh_tokens[f].family_id = f
        /\ refresh_tokens[f].user_id = refresh_tokens[p].user_id
    BY <1>0, <2>1, <2>2 DEF Lineage, Family
  <2>5. f \in Issued
    BY <1>0, <2>1, <2>2, <2>4 DEF Issued
  <2>6. /\ refresh_tokens'[f].family_id = f
        /\ refresh_tokens'[f].user_id = refresh_tokens[p].user_id
    BY <1>0, <2>4, <2>5 DEF RowsOnlyAge
  <2>7. Lineage(n)'
    <3>1. f \in 1..n
      BY <2>2, <2>4
    <3> QED  BY <2>3, <2>6, <3>1 DEF Lineage, Family
  <2>8. Lineage(p)'
    <3>1. n \in (p + 1)..nTokens'
      BY <2>2
    <3> QED  BY <2>3, <2>4, <2>6, <3>1 DEF Lineage, Family
  <2>9. \A t \in Issued \ {p} : Lineage(t)'
    BY <1>0, <2>2, RowKeepsLineage
  <2> QED  BY <2>2, <2>7, <2>8, <2>9
<1>6. ASSUME NEW r \in Requests,
             ReuseCommit(r) \/ LogoutCommit(r) \/ ResetCommit(r)
      PROVE  \A t \in Issued' : Lineage(t)'
  BY <1>3, <1>6 DEF ReuseCommit, LogoutCommit, ResetCommit
<1>7. ASSUME Tick \/ UNCHANGED vars PROVE NoTokenWrite
  BY <1>7 DEF Tick, NoTokenWrite, vars, db
<1> QED
  BY <1>2, <1>4, <1>5, <1>6, <1>7, StepsWithoutTokenWrite DEF Next, Serve, Continue

-----------------------------------------------------------------------------
(* What a committed reuse detection or password reset has killed.          *)

(* The marks of the two histories: who sets them, and to what.             *)
LEMMA StepMarks ==
  ASSUME TypeOK, HandlersOK, MarksOK, [Next]_vars
  PROVE  /\ MarksOK'
         /\ \A f \in Tokens :
              \/ purged'[f] = purged[f]
              \/ \E r \in Requests : /\ ReuseCommit(r)
                                     /\ f = Family(req[r].row)
                                     /\ purged'[f] = req[r].mark
         /\ \A u \in Users :
              \/ wiped'[u] = wiped[u]
              \/ \E r \in Requests : /\ ResetCommit(r)
                                     /\ u = req[r].user
                                     /\ wiped'[u] = req[r].mark
<1>1. /\ nTokens \in Nat /\ nTokens' \in Nat /\ nTokens <= nTokens'
      /\ \A r \in Requests : req[r].mark \in Nat
      /\ \A f \in Tokens : purged[f] \in Nat
      /\ \A u \in Users : wiped[u] \in Nat
  BY StepRowsOnlyAge, ConstantsAssumption DEF RowsOnlyAge, TypeOK, Request
<1>2. \A f \in Tokens :
        \/ purged'[f] = purged[f]
        \/ \E r \in Requests : /\ ReuseCommit(r)
                               /\ f = Family(req[r].row)
                               /\ purged'[f] = req[r].mark
  <2>1. ASSUME NEW r \in Requests, ReuseCommit(r), NEW f \in Tokens,
               purged'[f] # purged[f]
        PROVE  f = Family(req[r].row) /\ purged'[f] = req[r].mark
    BY <2>1 DEF ReuseCommit, TypeOK
  <2>2. ASSUME ~ \E r \in Requests : ReuseCommit(r) PROVE purged' = purged
    BY <2>2 DEF Next, Serve, Arrive, Continue, LoginRead, RequestReset, RefreshRead,
       RefreshReuse, LogoutRead, ResetRead, LoginCommit, IssueCommit, Respond,
       RotateCommit, ReuseScan, LogoutCommit, SendReset, ResetScan,
       ResetCommit, Crash, Tick, vars
  <2> QED  BY <2>1, <2>2
<1>3. \A u \in Users :
        \/ wiped'[u] = wiped[u]
        \/ \E r \in Requests : /\ ResetCommit(r)
                               /\ u = req[r].user
                               /\ wiped'[u] = req[r].mark
  <2>1. ASSUME NEW r \in Requests, ResetCommit(r), NEW u \in Users,
               wiped'[u] # wiped[u]
        PROVE  u = req[r].user /\ wiped'[u] = req[r].mark
    BY <2>1 DEF ResetCommit, TypeOK
  <2>2. ASSUME ~ \E r \in Requests : ResetCommit(r) PROVE wiped' = wiped
    BY <2>2 DEF Next, Serve, Arrive, Continue, LoginRead, RequestReset, RefreshRead,
       RefreshReuse, LogoutRead, ResetRead, LoginCommit, IssueCommit, Respond,
       RotateCommit, ReuseScan, ReuseCommit, LogoutCommit, SendReset,
       ResetScan, Crash, Tick, vars
  <2> QED  BY <2>1, <2>2
<1>4. /\ \A r \in Requests : ReuseCommit(r) => req[r].mark <= nTokens
      /\ \A r \in Requests : ResetCommit(r) => req[r].mark <= nTokens
  BY DEF ReuseCommit, ResetCommit, HandlersOK, PurgeComplete, WipeComplete
<1>5. /\ \A f \in Tokens : purged'[f] <= nTokens'
      /\ \A u \in Users : wiped'[u] <= nTokens'
  BY <1>1, <1>2, <1>3, <1>4 DEF MarksOK
<1> QED  BY <1>2, <1>3, <1>5 DEF MarksOK

(* Every step preserves that a detected reuse ended the tokens before it.  *)
LEMMA StepReuseKills ==
  ASSUME TypeOK, HandlersOK, MarksOK, ReuseKillsEarlierTokens, [Next]_vars
  PROVE  ReuseKillsEarlierTokens'
<1> USE ConstantsAssumption
<1>0. /\ nTokens \in Nat /\ nTokens' \in Nat /\ RowsOnlyAge
      /\ purged \in [Tokens -> Nat] /\ Issued \subseteq Tokens
      /\ \A r \in Requests : req[r].mark \in Nat
  BY StepRowsOnlyAge DEF RowsOnlyAge, TypeOK, Issued, Tokens, Request
<1> SUFFICES ASSUME NEW t \in Issued',
                    t <= (purged')[(refresh_tokens')[t].family_id]
             PROVE  (refresh_tokens')[t].revoked
  BY DEF ReuseKillsEarlierTokens, Live, Family
<1>1. PICK f \in Tokens : f = (refresh_tokens')[t].family_id
  BY StepTypeOK DEF TypeOK, Issued, Tokens
<1>2. t \in Nat /\ t <= purged'[f]
  BY <1>0, <1>1 DEF Issued
<1>3. CASE purged'[f] = purged[f]
  <2>1. t \in Issued
    BY <1>0, <1>2, <1>3 DEF MarksOK, Issued
  <2>2. Family(t) = f
    BY <1>0, <1>1, <2>1 DEF RowsOnlyAge, Family
  <2>3. refresh_tokens[t].revoked
    BY <1>2, <1>3, <2>1, <2>2 DEF ReuseKillsEarlierTokens, Live
  <2> QED  BY <1>0, <2>1, <2>3 DEF RowsOnlyAge
<1>4. CASE purged'[f] # purged[f]
  <2>1. PICK r \in Requests : /\ ReuseCommit(r)
                             /\ f = Family(req[r].row)
                             /\ purged'[f] = req[r].mark
    BY <1>4, StepMarks
  <2>2. PurgeComplete(r) /\ req[r].pc = "purge" /\ RowsExist(r)
    BY <2>1 DEF HandlersOK, ReuseCommit
  <2>3. t \in Issued
    BY <1>0, <1>2, <2>1, <2>2 DEF PurgeComplete, Issued
  <2>4. Family(t) = f
    BY <1>0, <1>1, <2>3 DEF RowsOnlyAge, Family
  <2>5. refresh_tokens[t].revoked \/ t \in req[r].victims
    BY <1>2, <2>1, <2>2, <2>3, <2>4 DEF PurgeComplete, Live
  <2>6. refresh_tokens' = Revoke(req[r].victims) /\ nTokens' = nTokens
    BY <2>1 DEF ReuseCommit
  <2> QED  BY <1>0, <2>3, <2>5, <2>6, RevokeRows
<1> QED  BY <1>3, <1>4

(* Every step preserves that a reset ended the tokens before it.           *)
LEMMA StepResetKills ==
  ASSUME TypeOK, HandlersOK, MarksOK, ResetKillsEarlierTokens, [Next]_vars
  PROVE  ResetKillsEarlierTokens'
<1> USE ConstantsAssumption
<1>0. /\ nTokens \in Nat /\ nTokens' \in Nat /\ RowsOnlyAge
      /\ wiped \in [Users -> Nat] /\ Issued \subseteq Tokens
      /\ \A r \in Requests : req[r].mark \in Nat
  BY StepRowsOnlyAge DEF RowsOnlyAge, TypeOK, Issued, Tokens, Request
<1> SUFFICES ASSUME NEW t \in Issued',
                    t <= (wiped')[(refresh_tokens')[t].user_id]
             PROVE  (refresh_tokens')[t].revoked
  BY DEF ResetKillsEarlierTokens, Live
<1>1. PICK u \in Users : u = (refresh_tokens')[t].user_id
  BY StepTypeOK DEF TypeOK
<1>2. t \in Nat /\ t <= wiped'[u]
  BY <1>0, <1>1 DEF Issued
<1>3. CASE wiped'[u] = wiped[u]
  <2>1. t \in Issued
    BY <1>0, <1>2, <1>3 DEF MarksOK, Issued
  <2>2. refresh_tokens[t].user_id = u
    BY <1>0, <1>1, <2>1 DEF RowsOnlyAge
  <2>3. refresh_tokens[t].revoked
    BY <1>2, <1>3, <2>1, <2>2 DEF ResetKillsEarlierTokens, Live
  <2> QED  BY <1>0, <2>1, <2>3 DEF RowsOnlyAge
<1>4. CASE wiped'[u] # wiped[u]
  <2>1. PICK r \in Requests : /\ ResetCommit(r)
                             /\ u = req[r].user
                             /\ wiped'[u] = req[r].mark
    BY <1>4, StepMarks
  <2>2. WipeComplete(r) /\ req[r].pc = "wipe"
    BY <2>1 DEF HandlersOK, ResetCommit
  <2>3. t \in Issued
    BY <1>0, <1>2, <2>1, <2>2 DEF WipeComplete, Issued
  <2>4. refresh_tokens[t].user_id = u
    BY <1>0, <1>1, <2>3 DEF RowsOnlyAge
  <2>5. refresh_tokens[t].revoked \/ t \in req[r].victims
    BY <1>2, <2>1, <2>2, <2>3, <2>4 DEF WipeComplete, Live
  <2>6. refresh_tokens' = Revoke(req[r].victims) /\ nTokens' = nTokens
    BY <2>1 DEF ResetCommit
  <2> QED  BY <1>0, <2>3, <2>5, <2>6, RevokeRows
<1> QED  BY <1>3, <1>4

-----------------------------------------------------------------------------
(* The theorems.                                                           *)

(* Every step preserves the invariant.                                     *)
LEMMA StepIInv == IInv /\ [Next]_vars => IInv'
  BY StepTypeOK, StepHandlersOK, StepMarks, StepFamilies, StepReuseKills,
     StepResetKills DEF IInv

(* The strengthened invariant holds in every reachable state.  About: all
   the handlers of auth_service.py that touch sessions.                    *)
THEOREM InductiveInvariant == Spec => []IInv
  BY InitIInv, StepIInv, PTL DEF Spec

(* Rows, handlers and histories keep their types, and every inserted row
   has a user and a family, for any number of overlapping requests.
   About: models/refresh_token.py, models/password_reset.py.               *)
THEOREM TypeCorrect == Spec => []TypeOK
<1>1. IInv => TypeOK
  BY DEF IInv
<1> QED  BY <1>1, InductiveInvariant, PTL

(* Families are lineages of one user whatever rotations overlap.  About:
   rotate_refresh_token, auth_service.py:106-152.                          *)
THEOREM LineagesHold == Spec => []FamiliesAreLineages
<1>1. IInv => FamiliesAreLineages
  BY DEF IInv
<1> QED  BY <1>1, InductiveInvariant, PTL

(* A committed reuse detection has killed, for good, every token of the
   family that existed when it listed the members.  About:
   auth_service.py:117-130.                                                *)
THEOREM ReuseDetectionKills == Spec => []ReuseKillsEarlierTokens
<1>1. IInv => ReuseKillsEarlierTokens
  BY DEF IInv
<1> QED  BY <1>1, InductiveInvariant, PTL

(* A committed password reset has killed, for good, every token of the
   user that existed when it listed them.  About: auth_service.py:197-202. *)
THEOREM PasswordResetKills == Spec => []ResetKillsEarlierTokens
<1>1. IInv => ResetKillsEarlierTokens
  BY DEF IInv
<1> QED  BY <1>1, InductiveInvariant, PTL
=============================================================================
