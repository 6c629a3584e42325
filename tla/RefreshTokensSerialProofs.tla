--------------------- MODULE RefreshTokensSerialProofs ---------------------
(***************************************************************************)
(* What the sessions promise when requests do not overlap, however many    *)
(* slots there are: what a handler read is still so when it writes, at     *)
(* most one token of a family is live, and the tables implement            *)
(* SessionFamilies.                                                        *)
(***************************************************************************)
EXTENDS RefreshTokensProofs, RefreshTokensRefinement

-----------------------------------------------------------------------------
(* The hypothesis and the inductive invariant.                             *)

(* At most one handler is suspended.  Crashes, expiry and the order of
   requests are as free as before.                                         *)
NoOverlap ==
    \A q, r \in Requests :
        req[q].pc # "idle" /\ req[r].pc # "idle" => q = r

ReadIsFresh(r) ==
    /\ req[r].pc \in {"rotate", "logout", "respond"} => Live(req[r].row)
    /\ req[r].pc \in {"reset", "wipe"} => ~password_resets[req[r].row].used
    /\ req[r].pc = "purge" => /\ req[r].mark = nTokens
                              /\ req[r].victims = FamilyMembers(req[r].row)
    /\ req[r].pc = "wipe" => /\ req[r].mark = nTokens
                             /\ req[r].victims = UserTokens(req[r].user)

ReadsAreFresh == \A r \in Requests : ReadIsFresh(r)

OneLivePerFamily ==
    \A s, t \in Issued : Live(s) /\ Live(t) /\ Family(s) = Family(t) => s = t

NothingPurgedAhead == \A f \in Tokens \ Issued : purged[f] = 0

SerialInv ==
    /\ ReadsAreFresh
    /\ OneLivePerFamily
    /\ NothingPurgedAhead
    /\ DetectedReuseEndsFamily

-----------------------------------------------------------------------------
(* The handlers.                                                           *)

(* The record that a request starts with is not idle.                      *)
LEMMA ArrivalsAreBusy ==
  ASSUME TypeOK, NEW r \in Requests, Arrive(r)
  PROVE  /\ req'[r].pc # "idle"
         /\ \A q \in Requests \ {r} : req'[q] = req[q]
<1>1. ASSUME NEW h, Become(r, h)
      PROVE  req'[r] = h /\ \A q \in Requests \ {r} : req'[q] = req[q]
  BY <1>1 DEF TypeOK, Become
<1>2. ASSUME NEW h, Become(r, h), h.pc # "idle"
      PROVE  /\ req'[r].pc # "idle"
             /\ \A q \in Requests \ {r} : req'[q] = req[q]
  BY <1>1, <1>2
<1>3. ASSUME NEW u \in Users, NEW p \in Passwords, LoginRead(r, u, p)
      PROVE  Become(r, [Idle EXCEPT !.pc = "login", !.user = u])
  BY <1>3 DEF LoginRead
<1>4. ASSUME NEW u \in Users, RequestReset(r, u)
      PROVE  Become(r, [Idle EXCEPT !.pc = "mail", !.row = nResets + 1])
  BY <1>4 DEF RequestReset
<1>5. ASSUME NEW t \in held,
             RefreshRead(r, t) \/ RefreshReuse(r, t) \/ LogoutRead(r, t)
      PROVE  \/ Become(r, [Idle EXCEPT !.pc = "rotate", !.row = t])
             \/ Become(r, [Idle EXCEPT !.pc = "reuse", !.row = t])
             \/ Become(r, [Idle EXCEPT !.pc = "logout", !.row = t])
  BY <1>5 DEF RefreshRead, RefreshReuse, LogoutRead
<1>6. ASSUME NEW k \in mailed, NEW p \in Passwords, ResetRead(r, k, p)
      PROVE  Become(r, [Idle EXCEPT !.pc = "reset", !.row = k, !.password = p,
                                    !.user = password_resets[k].user_id])
  BY <1>6 DEF ResetRead
<1>7. /\ \A u : [Idle EXCEPT !.pc = "login", !.user = u].pc # "idle"
      /\ \A t : /\ [Idle EXCEPT !.pc = "mail", !.row = t].pc # "idle"
               /\ [Idle EXCEPT !.pc = "rotate", !.row = t].pc # "idle"
               /\ [Idle EXCEPT !.pc = "reuse", !.row = t].pc # "idle"
               /\ [Idle EXCEPT !.pc = "logout", !.row = t].pc # "idle"
      /\ \A k, p, u : [Idle EXCEPT !.pc = "reset", !.row = k, !.password = p,
                                   !.user = u].pc # "idle"
  BY DEF Idle
<1> QED  BY <1>2, <1>3, <1>4, <1>5, <1>6, <1>7 DEF Arrive

(* A handler that goes on, or dies, was not idle and moves alone.          *)
LEMMA MoversWereBusy ==
  ASSUME TypeOK, NEW r \in Requests, Continue(r) \/ Crash(r)
  PROVE  /\ req[r].pc # "idle"
         /\ \A q \in Requests \ {r} : req'[q] = req[q]
<1>1. ASSUME NEW h, Become(r, h)
      PROVE  \A q \in Requests \ {r} : req'[q] = req[q]
  BY <1>1 DEF TypeOK, Become
<1>2. \E h : Become(r, h)
  BY DEF Continue, LoginCommit, IssueCommit, Respond, RotateCommit, ReuseScan,
     ReuseCommit, LogoutCommit, SendReset, ResetScan, ResetCommit, Crash, Finish
<1>3. req[r].pc # "idle"
  BY DEF Continue, LoginCommit, IssueCommit, Respond, RotateCommit, ReuseScan,
     ReuseCommit, LogoutCommit, SendReset, ResetScan, ResetCommit, Crash
<1> QED  BY <1>1, <1>2, <1>3

(* While one handler moves all others are idle.                            *)
LEMMA OthersIdle ==
  ASSUME TypeOK, NoOverlap, NoOverlap', NEW r \in Requests,
         Arrive(r) \/ Continue(r) \/ Crash(r)
  PROVE  \A q \in Requests \ {r} : req'[q].pc = "idle"
  BY ArrivalsAreBusy, MoversWereBusy DEF NoOverlap

(* A handler that only waits for its client, or for nothing, has no read
   to go stale.                                                            *)
LEMMA NothingRead ==
  ASSUME NEW r \in Requests,
         req'[r].pc \in {"idle", "login", "issue", "reuse", "mail"}
  PROVE  ReadIsFresh(r)'
  BY DEF ReadIsFresh

(* The slot of the handler that moves takes its new record.                *)
LEMMA Becomes ==
  ASSUME TypeOK, NEW r \in Requests, NEW h, Become(r, h)
  PROVE  req'[r] = h
  BY DEF TypeOK, Become

(* A request that arrives has read what is there.                          *)
LEMMA ArrivalReadsFresh ==
  ASSUME TypeOK, NEW r \in Requests, Arrive(r)
  PROVE  ReadIsFresh(r)'
<1>1. ASSUME NEW u \in Users, NEW p \in Passwords, LoginRead(r, u, p)
      PROVE  ReadIsFresh(r)'
  BY <1>1, Becomes, NothingRead DEF LoginRead, Idle
<1>2. ASSUME NEW u \in Users, RequestReset(r, u) PROVE ReadIsFresh(r)'
  BY <1>2, Becomes, NothingRead DEF RequestReset, Idle
<1>3. ASSUME NEW t \in held, RefreshReuse(r, t) PROVE ReadIsFresh(r)'
  BY <1>3, Becomes, NothingRead DEF RefreshReuse, Idle
<1>4. ASSUME NEW t \in held, RefreshRead(r, t) \/ LogoutRead(r, t)
      PROVE  ReadIsFresh(r)'
  <2>1. /\ req'[r].pc \in {"rotate", "logout"} /\ req'[r].row = t
        /\ Live(t)' = Live(t) /\ Live(t)
    BY <1>4, Becomes DEF RefreshRead, LogoutRead, Idle, db, Live, Issued
  <2> QED  BY <2>1 DEF ReadIsFresh, Live, Issued
<1>5. ASSUME NEW k \in mailed, NEW p \in Passwords, ResetRead(r, k, p)
      PROVE  ReadIsFresh(r)'
  <2>1. /\ req'[r].pc = "reset" /\ req'[r].row = k
        /\ password_resets' = password_resets /\ ~password_resets[k].used
    BY <1>5, Becomes DEF ResetRead, Idle, db
  <2> QED  BY <2>1 DEF ReadIsFresh
<1> QED  BY <1>1, <1>2, <1>3, <1>4, <1>5 DEF Arrive

(* A handler that goes on has read what is there.                          *)
LEMMA ContinuationReadsFresh ==
  ASSUME IInv, NEW r \in Requests, ReadIsFresh(r), Continue(r)
  PROVE  ReadIsFresh(r)'
<1>0. TypeOK /\ HandlersOK /\ req[r] \in Request
  BY DEF IInv, TypeOK
<1>1. CASE LoginCommit(r)
  BY <1>0, <1>1, Becomes, NothingRead DEF LoginCommit, Request
<1>2. CASE /\ Finish(r)
           /\ \/ Respond(r) \/ ReuseCommit(r) \/ LogoutCommit(r)
              \/ SendReset(r) \/ ResetCommit(r)
  BY <1>0, <1>2, Becomes, NothingRead DEF Finish, Idle
<1>3. ASSUME NEW n, n \in Issued', ~refresh_tokens'[n].revoked,
             Become(r, [req[r] EXCEPT !.pc = "respond", !.row = n])
      PROVE  ReadIsFresh(r)'
  <2>1. req'[r].pc = "respond" /\ req'[r].row = n
    BY <1>0, <1>3, Becomes DEF Request
  <2> QED  BY <1>3, <2>1 DEF ReadIsFresh, Live
<1>4. CASE IssueCommit(r)
  <2>1. Become(r, [req[r] EXCEPT !.pc = "respond", !.row = nTokens + 1])
    BY <1>4 DEF IssueCommit
  <2>2. /\ nTokens + 1 \in Issued'
        /\ ~refresh_tokens'[nTokens + 1].revoked
    BY <1>0, <1>4, IssueRows, NewTokenFields
  <2> QED  BY <1>3, <2>1, <2>2
<1>5. CASE RotateCommit(r)
  <2>1. Become(r, [req[r] EXCEPT !.pc = "respond", !.row = nTokens + 1])
    BY <1>5 DEF RotateCommit
  <2>2. /\ nTokens + 1 \in Issued'
        /\ ~refresh_tokens'[nTokens + 1].revoked
    BY <1>0, <1>5, RotateRows, NewTokenFields
  <2> QED  BY <1>3, <2>1, <2>2
<1>6. CASE ReuseScan(r)
  <2>1. /\ req'[r].pc = "purge" /\ req'[r].row = req[r].row
        /\ req'[r].mark = nTokens
        /\ req'[r].victims = FamilyMembers(req[r].row)
        /\ refresh_tokens' = refresh_tokens /\ nTokens' = nTokens
    BY <1>0, <1>6, Becomes DEF ReuseScan, Request, db
  <2> QED  BY <2>1 DEF ReadIsFresh, FamilyMembers, Family, Live, Issued
<1>7. CASE ResetScan(r)
  <2>1. /\ req'[r].pc = "wipe" /\ req'[r].row = req[r].row
        /\ req'[r].user = req[r].user /\ req'[r].mark = nTokens
        /\ req'[r].victims = UserTokens(req[r].user)
        /\ refresh_tokens' = refresh_tokens /\ nTokens' = nTokens
        /\ password_resets' = password_resets
    BY <1>0, <1>7, Becomes DEF ResetScan, Request, db
  <2>2. ~password_resets[req[r].row].used
    BY <1>7 DEF ReadIsFresh, ResetScan
  <2> QED  BY <2>1, <2>2 DEF ReadIsFresh, UserTokens, Live, Issued
<1> QED
  BY <1>1, <1>2, <1>4, <1>5, <1>6, <1>7
     DEF Continue, Respond, ReuseCommit, LogoutCommit, SendReset, ResetCommit

(* What a handler has read stays so while requests do not overlap.  About:
   the await between SELECT and COMMIT in every handler.                   *)
LEMMA StepReadsAreFresh ==
  ASSUME IInv, ReadsAreFresh, NoOverlap, NoOverlap', [Next]_vars
  PROVE  ReadsAreFresh'
<1>0. TypeOK
  BY DEF IInv
<1>1. ASSUME NEW r \in Requests, Arrive(r) \/ Continue(r) \/ Crash(r)
      PROVE  ReadsAreFresh'
  <2>1. \A q \in Requests \ {r} : ReadIsFresh(q)'
    BY <1>0, <1>1, OthersIdle, NothingRead
  <2>2. CASE Arrive(r)
    BY <1>0, <2>1, <2>2, ArrivalReadsFresh DEF ReadsAreFresh
  <2>3. CASE Continue(r)
    BY <2>1, <2>3, ContinuationReadsFresh DEF ReadsAreFresh
  <2>4. CASE Crash(r)
    BY <1>0, <2>1, <2>4, Becomes, NothingRead
       DEF Crash, Finish, Idle, ReadsAreFresh
  <2> QED  BY <1>1, <2>2, <2>3, <2>4
<1>2. ASSUME Tick \/ UNCHANGED vars PROVE ReadsAreFresh'
  <2>1. UNCHANGED <<refresh_tokens, nTokens, password_resets, req>>
    BY <1>2 DEF Tick, vars, db
  <2> QED  BY <2>1 DEF ReadsAreFresh, ReadIsFresh, Live, Issued,
     FamilyMembers, UserTokens, Family
<1> QED  BY <1>1, <1>2 DEF Next, Serve

-----------------------------------------------------------------------------
(* The tables.                                                             *)

(* Rows stay in their families and none comes to life.                     *)
LiveOnlyShrinks ==
    /\ nTokens' = nTokens
    /\ \A t \in Issued : /\ Family(t)' = Family(t)
                         /\ Live(t)' => Live(t)

(* Every step but the two that insert only lets live tokens die.           *)
LEMMA StepsThatInsert ==
  ASSUME IInv, [Next]_vars
  PROVE  \/ LiveOnlyShrinks
         \/ \E r \in Requests : IssueCommit(r) \/ RotateCommit(r)
<1>0. TypeOK /\ Issued \subseteq Tokens
  BY Basics DEF IInv
<1>1. ASSUME NoTokenWrite PROVE LiveOnlyShrinks
  BY <1>1 DEF NoTokenWrite, LiveOnlyShrinks, Family, Live, Issued
<1>2. ASSUME NEW S, refresh_tokens' = Revoke(S), nTokens' = nTokens
      PROVE  LiveOnlyShrinks
  BY <1>0, <1>2, RevokeRows DEF LiveOnlyShrinks, Family, Live, Issued
<1>3. ASSUME NEW r \in Requests,
             ReuseCommit(r) \/ LogoutCommit(r) \/ ResetCommit(r)
      PROVE  LiveOnlyShrinks
  BY <1>2, <1>3 DEF ReuseCommit, LogoutCommit, ResetCommit
<1>4. ASSUME Tick \/ UNCHANGED vars PROVE NoTokenWrite
  BY <1>4 DEF Tick, NoTokenWrite, vars, db
<1> QED
  BY <1>1, <1>3, <1>4, StepsWithoutTokenWrite DEF Next, Serve, Continue

(* What the two that insert do to the live tokens: a login adds the root
   of a family that nothing belongs to, a rotation replaces a live token.  *)
LEMMA IssuedLive ==
  ASSUME IInv, NEW r \in Requests, IssueCommit(r), NEW n, n = nTokens + 1
  PROVE  /\ n \in Tokens /\ n \notin Issued /\ Issued' = Issued \cup {n}
         /\ Family(n)' = n /\ Live(n)'
         /\ refresh_tokens'[n].user_id = req[r].user
         /\ purged' = purged
         /\ \A t \in Issued : /\ Family(t)' = Family(t)
                              /\ Live(t)' = Live(t)
                              /\ Family(t) \in Issued
                              /\ refresh_tokens'[t] = refresh_tokens[t]
<1>0. TypeOK /\ HandlersOK
  BY DEF IInv
<1>1. \A t \in Issued : Family(t) \in Issued
  BY <1>0 DEF TypeOK, Family
<1>2. purged' = purged
  BY DEF IssueCommit
<1>3. /\ n \in Tokens /\ n \notin Issued /\ Issued' = Issued \cup {n}
      /\ refresh_tokens'[n] = NewToken(req[r].user, n)
      /\ \A t \in Issued : refresh_tokens'[t] = refresh_tokens[t]
  BY <1>0, IssueRows
<1>4. /\ refresh_tokens'[n].family_id = n /\ ~refresh_tokens'[n].revoked
      /\ refresh_tokens'[n].user_id = req[r].user
  BY <1>3, NewTokenFields
<1> QED  BY <1>1, <1>2, <1>3, <1>4 DEF Family, Live

(* A rotation kills the token that was presented and inserts the next.
   About: auth_service.py:135-152.                                         *)
LEMMA RotatedTokens ==
  ASSUME IInv, NEW r \in Requests, RotateCommit(r),
         NEW n, n = nTokens + 1, NEW p, p = req[r].row
  PROVE  /\ n \in Tokens /\ n \notin Issued /\ Issued' = Issued \cup {n}
         /\ p \in Issued /\ ~Live(p)'
         /\ Family(p)' = Family(p) /\ Family(p) \in Issued
         /\ Family(n)' = Family(p) /\ Live(n)'
         /\ refresh_tokens'[p].user_id = refresh_tokens[p].user_id
         /\ purged' = purged
         /\ \A t \in Issued \ {p} : /\ Family(t)' = Family(t)
                                    /\ Live(t)' = Live(t)
                                    /\ refresh_tokens'[t] = refresh_tokens[t]
<1>0. TypeOK /\ HandlersOK
  BY DEF IInv
<1>2. purged' = purged
  BY DEF RotateCommit
<1>3. /\ n \in Tokens /\ n \notin Issued /\ Issued' = Issued \cup {n}
      /\ p \in Issued
      /\ refresh_tokens'[n] =
            NewToken(refresh_tokens[p].user_id, refresh_tokens[p].family_id)
      /\ refresh_tokens'[p].user_id = refresh_tokens[p].user_id
      /\ refresh_tokens'[p].family_id = refresh_tokens[p].family_id
      /\ refresh_tokens'[p].revoked
      /\ \A t \in Issued \ {p} : refresh_tokens'[t] = refresh_tokens[t]
  BY <1>0, RotateRows
<1>4. /\ refresh_tokens'[n].family_id = refresh_tokens[p].family_id
      /\ ~refresh_tokens'[n].revoked
  BY <1>3, NewTokenFields
<1>5. Family(p) \in Issued
  BY <1>0, <1>3 DEF TypeOK, Family
<1> QED  BY <1>2, <1>3, <1>4, <1>5 DEF Family, Live

(* If what it read is still so, the token that it kills was the live token
   of the family.                                                          *)
LEMMA RotatedLive ==
  ASSUME IInv, ReadsAreFresh, NEW r \in Requests, RotateCommit(r),
         NEW n, n = nTokens + 1, NEW p, p = req[r].row
  PROVE  /\ n \in Tokens /\ n \notin Issued /\ Issued' = Issued \cup {n}
         /\ p \in Issued /\ Live(p) /\ ~Live(p)'
         /\ Family(p)' = Family(p) /\ Family(p) \in Issued
         /\ Family(n)' = Family(p) /\ Live(n)'
         /\ refresh_tokens'[p].user_id = refresh_tokens[p].user_id
         /\ purged' = purged
         /\ \A t \in Issued \ {p} : /\ Family(t)' = Family(t)
                                    /\ Live(t)' = Live(t)
                                    /\ refresh_tokens'[t] = refresh_tokens[t]
<1>1. Live(p)
  BY DEF ReadsAreFresh, ReadIsFresh, RotateCommit
<1> QED  BY <1>1, RotatedTokens

(* No family is purged before its login.  About: auth_service.py:117-130,
   which purges the family of a row that it has found.                     *)
LEMMA StepPurgedAhead ==
  ASSUME IInv, NothingPurgedAhead, [Next]_vars
  PROVE  NothingPurgedAhead'
<1>0. /\ TypeOK /\ HandlersOK /\ MarksOK
      /\ \A t \in Issued : Family(t) \in Issued
  BY DEF IInv, TypeOK, Family
<1>1. Issued \subseteq Issued'
  <2>1. nTokens \in Nat /\ nTokens' \in Nat /\ nTokens <= nTokens'
    BY <1>0, Basics, StepRowsOnlyAge DEF RowsOnlyAge
  <2> QED  BY <2>1 DEF Issued
<1>2. ASSUME NEW f \in Tokens \ Issued PROVE purged'[f] = purged[f]
  <2>1. ASSUME NEW r \in Requests, ReuseCommit(r)
        PROVE  f # Family(req[r].row)
    BY <1>0, <2>1 DEF ReuseCommit, HandlersOK, RowsExist
  <2> QED  BY <1>0, <2>1, StepMarks
<1> QED  BY <1>1, <1>2 DEF NothingPurgedAhead

(* The live token of a family stays the only one.  About:
   rotate_refresh_token, which revokes the presented row in the transaction
   that inserts its successor.                                             *)
LEMMA StepOneLive ==
  ASSUME IInv, ReadsAreFresh, OneLivePerFamily, [Next]_vars
  PROVE  OneLivePerFamily'
<1>1. CASE LiveOnlyShrinks
  BY <1>1 DEF LiveOnlyShrinks, OneLivePerFamily, Issued
<1>2. ASSUME NEW r \in Requests, IssueCommit(r) PROVE OneLivePerFamily'
  <2>1. PICK n : n = nTokens + 1
    OBVIOUS
  <2> QED  BY <1>2, <2>1, IssuedLive DEF OneLivePerFamily
<1>3. ASSUME NEW r \in Requests, RotateCommit(r) PROVE OneLivePerFamily'
  <2>1. PICK n, p : n = nTokens + 1 /\ p = req[r].row
    OBVIOUS
  <2> QED  BY <1>3, <2>1, RotatedLive DEF OneLivePerFamily
<1> QED  BY <1>1, <1>2, <1>3, StepsThatInsert

(* Detected reuse stays the end of its family.                             *)
LEMMA StepDetectedReuse ==
  ASSUME IInv, ReadsAreFresh, NothingPurgedAhead, DetectedReuseEndsFamily,
         [Next]_vars
  PROVE  NothingPurgedAhead' /\ DetectedReuseEndsFamily'
<1>0. /\ TypeOK /\ HandlersOK /\ MarksOK /\ Issued \subseteq Tokens
      /\ \A t \in Issued : Family(t) \in Issued
  BY Basics DEF IInv, TypeOK, Family
<1>1. ASSUME NEW r \in Requests, IssueCommit(r)
      PROVE  NothingPurgedAhead' /\ DetectedReuseEndsFamily'
  <2>1. PICK n : n = nTokens + 1
    OBVIOUS
  <2>2. /\ n \in Tokens \ Issued /\ purged' = purged /\ Family(n)' = n
        /\ Issued' = Issued \cup {n}
        /\ \A t \in Issued : Family(t)' = Family(t) /\ Live(t)' = Live(t)
    BY <1>1, <2>1, IssuedLive
  <2>3. purged[n] = 0
    BY <2>2 DEF NothingPurgedAhead
  <2> QED  BY <2>2, <2>3 DEF NothingPurgedAhead, DetectedReuseEndsFamily
<1>2. ASSUME NEW r \in Requests, RotateCommit(r)
      PROVE  NothingPurgedAhead' /\ DetectedReuseEndsFamily'
  <2>1. PICK n, p : n = nTokens + 1 /\ p = req[r].row
    OBVIOUS
  <2>2. /\ n \in Tokens \ Issued /\ purged' = purged
        /\ Family(n)' = Family(p) /\ Issued' = Issued \cup {n}
        /\ p \in Issued /\ Live(p) /\ ~Live(p)'
        /\ \A t \in Issued \ {p} : Family(t)' = Family(t) /\ Live(t)' = Live(t)
    BY <1>2, <2>1, RotatedLive
  <2>3. ~(purged[Family(p)] > 0)
    BY <2>2 DEF DetectedReuseEndsFamily
  <2> QED  BY <2>2, <2>3 DEF NothingPurgedAhead, DetectedReuseEndsFamily
<1>3. ASSUME NEW r \in Requests, ReuseCommit(r)
      PROVE  NothingPurgedAhead' /\ DetectedReuseEndsFamily'
  <2>1. PICK f : f = Family(req[r].row)
    OBVIOUS
  <2>2. /\ req[r].row \in Issued
        /\ req[r].victims = FamilyMembers(req[r].row)
    BY <1>0, <1>3
       DEF ReuseCommit, HandlersOK, RowsExist, ReadsAreFresh, ReadIsFresh
  <2>3. f \in Issued /\ \A g \in Tokens \ {f} : purged'[g] = purged[g]
    BY <1>0, <1>3, <2>1, <2>2 DEF ReuseCommit, TypeOK
  <2>4. /\ nTokens' = nTokens /\ Issued' = Issued
        /\ \A t \in Issued : Family(t)' = Family(t) /\ (Live(t)' => Live(t))
        /\ \A t \in req[r].victims \cap Issued : ~Live(t)'
    <3>1. /\ refresh_tokens' = Revoke(req[r].victims) /\ nTokens' = nTokens
          /\ Issued' = Issued
      BY <1>3 DEF ReuseCommit, Issued
    <3> QED  BY <1>0, <3>1, RevokeRows DEF Family, Live
  <2>5. \A t \in Issued : Family(t) = f => ~Live(t)'
    BY <2>1, <2>2, <2>4 DEF FamilyMembers
  <2> QED
    BY <1>0, <2>3, <2>4, <2>5 DEF NothingPurgedAhead, DetectedReuseEndsFamily
<1>4. ASSUME LiveOnlyShrinks, ~ \E r \in Requests : ReuseCommit(r)
      PROVE  NothingPurgedAhead' /\ DetectedReuseEndsFamily'
  <2>1. \A f \in Tokens : purged'[f] = purged[f]
    BY <1>0, <1>4, StepMarks
  <2>2. Issued' = Issued
    BY <1>4 DEF LiveOnlyShrinks, Issued
  <2> QED  BY <1>0, <1>4, <2>1, <2>2
           DEF LiveOnlyShrinks, NothingPurgedAhead, DetectedReuseEndsFamily
<1> QED  BY <1>1, <1>2, <1>3, <1>4, StepsThatInsert

(* Every step that does not overlap another preserves the serial
   invariant.                                                              *)
LEMMA StepSerialInv ==
  /\ IInv /\ SerialInv /\ [Next]_vars /\ NoOverlap /\ NoOverlap'
  => SerialInv'
  BY StepReadsAreFresh, StepOneLive, StepDetectedReuse DEF SerialInv

(* No handler, no token.                                                   *)
LEMMA InitSerialInv == Init => SerialInv
<1> SUFFICES ASSUME Init PROVE SerialInv
  OBVIOUS
<1>1. Issued = {}
  BY DEF Init, Issued
<1>2. ReadsAreFresh
  BY DEF Init, ReadsAreFresh, ReadIsFresh, Idle
<1> QED  BY <1>1, <1>2 DEF Init, SerialInv, OneLivePerFamily,
                           NothingPurgedAhead, DetectedReuseEndsFamily

-----------------------------------------------------------------------------
(* Theorems: what serial requests promise.                                 *)

(* While requests do not overlap, what a handler read is still so when it
   writes, and a family has at most one live token.  About: every handler
   of auth_service.py that awaits between a SELECT and its commit.         *)
THEOREM SerialInvariant == Spec /\ []NoOverlap => []SerialInv
  BY InductiveInvariant, InitSerialInv, StepSerialInv, PTL DEF Spec

(* While requests do not overlap, a detected reuse ends its family for
   good.  About: auth_service.py:117-130 and
   tests/integration/test_auth_flow.py:89-93.                              *)
THEOREM DetectedReuseEnds ==
  Spec /\ []NoOverlap => []DetectedReuseEndsFamily
<1>1. SerialInv => DetectedReuseEndsFamily
  BY DEF SerialInv
<1> QED  BY <1>1, SerialInvariant, PTL

(* While requests do not overlap, a password reset leaves its user no live
   token.  About: the comment at auth_service.py:197.                      *)
THEOREM ResetRevokesAll ==
  Spec /\ []NoOverlap => ResetRevokesOutstandingTokens
<1>1. ASSUME IInv, SerialInv, NEW r \in Requests, ResetCommit(r)
      PROVE  \A t \in Issued :
                refresh_tokens[t].user_id = req[r].user => ~Live(t)'
  <2>1. /\ req[r].victims = UserTokens(req[r].user)
        /\ refresh_tokens' = Revoke(req[r].victims) /\ nTokens' = nTokens
        /\ TypeOK /\ Issued \subseteq Tokens
    BY <1>1, Basics
       DEF IInv, SerialInv, ReadsAreFresh, ReadIsFresh, ResetCommit
  <2> QED  BY <2>1, RevokeRows DEF UserTokens, Live
<1>2. IInv /\ SerialInv => [\A r \in Requests : ResetCommit(r) =>
          \A t \in Issued : refresh_tokens[t].user_id = req[r].user =>
                               ~Live(t)']_vars
  BY <1>1
<1> QED  BY <1>2, InductiveInvariant, SerialInvariant, PTL
         DEF ResetRevokesOutstandingTokens

-----------------------------------------------------------------------------
(* The refinement of SessionFamilies.                                      *)

(* The live token of a family is the one that continues it.                *)
LEMMA CurrentIsLive ==
  OneLivePerFamily =>
    \A t \in Issued : Live(t) => CurrentOf(Family(t)) = t
<1> SUFFICES ASSUME OneLivePerFamily, NEW t \in Issued, Live(t)
             PROVE  CurrentOf(Family(t)) = t
  OBVIOUS
<1>1. \A s \in Issued : Live(s) /\ Family(s) = Family(t) => s = t
  BY DEF OneLivePerFamily
<1> QED  BY <1>1 DEF CurrentOf

(* A family without a live token is not open.                              *)
LEMMA NothingIsCurrent ==
  \A f : (\A t \in Issued : ~(Live(t) /\ Family(t) = f)) => CurrentOf(f) = 0
  BY DEF CurrentOf

(* A token that continues a family is live and in it.                      *)
LEMMA CurrentCases ==
  ASSUME NEW f
  PROVE  \/ \E t \in Issued : Live(t) /\ Family(t) = f
         \/ \A t \in Issued : ~(Live(t) /\ Family(t) = f)
  OBVIOUS

(* The same in the next state.                                             *)
LEMMA CurrentNext ==
  /\ OneLivePerFamily' =>
       \A t \in Issued' : Live(t)' => CurrentOf(Family(t))' = t
  /\ \A f : (\A t \in Issued' : ~(Live(t)' /\ Family(t)' = f))
              => CurrentOf(f)' = 0
<1>1. (OneLivePerFamily =>
         \A t \in Issued : Live(t) => CurrentOf(Family(t)) = t)'
  BY CurrentIsLive, PTL
<1>2. (\A f : (\A t \in Issued : ~(Live(t) /\ Family(t) = f))
                => CurrentOf(f) = 0)'
  BY NothingIsCurrent, PTL
<1> QED  BY <1>1, <1>2
(* The sessions after a step that only lets tokens die: a session that lost
   nothing goes on, one that lost everything is closed.                    *)
LEMMA SessionsAfter ==
  ASSUME IInv, OneLivePerFamily, OneLivePerFamily', LiveOnlyShrinks, NEW f
  PROVE  /\ (\A t \in Issued : Family(t) = f /\ Live(t) => Live(t)')
              => CurrentOf(f)' = CurrentOf(f)
         /\ (\A t \in Issued : Family(t) = f => ~Live(t)')
              => CurrentOf(f)' = 0
<1>0. Issued' = Issued
  BY DEF LiveOnlyShrinks, Issued
<1>1. ASSUME \A t \in Issued : Family(t) = f => ~Live(t)'
      PROVE  CurrentOf(f)' = 0
  <2>1. \A t \in Issued' : ~(Live(t)' /\ Family(t)' = f)
    BY <1>0, <1>1 DEF LiveOnlyShrinks
  <2> QED  BY <2>1, CurrentNext
<1>2. ASSUME \A t \in Issued : Family(t) = f /\ Live(t) => Live(t)'
      PROVE  CurrentOf(f)' = CurrentOf(f)
  <2>1. CASE \E t \in Issued : Live(t) /\ Family(t) = f
    <3>1. PICK t \in Issued : Live(t) /\ Family(t) = f
      BY <2>1
    <3>2. t \in Issued' /\ Live(t)' /\ Family(t)' = f
      BY <1>0, <1>2, <3>1 DEF LiveOnlyShrinks
    <3>3. CurrentOf(f) = t
      BY <3>1, CurrentIsLive
    <3>4. CurrentOf(f)' = t
      BY <3>2, CurrentNext
    <3> QED  BY <3>3, <3>4
  <2>2. CASE \A t \in Issued : ~(Live(t) /\ Family(t) = f)
    <3>1. CurrentOf(f) = 0
      BY <2>2, NothingIsCurrent
    <3>2. \A t \in Issued : Family(t) = f => ~Live(t)'
      BY <2>2 DEF LiveOnlyShrinks
    <3> QED  BY <1>1, <3>1, <3>2
  <2> QED  BY <2>1, <2>2
<1> QED  BY <1>1, <1>2

(* While nothing is inserted a session keeps its owner.                    *)
LEMMA OwnersStand ==
  ASSUME IInv, [Next]_vars, LiveOnlyShrinks, NEW f
  PROVE  OwnerOf(f)' = OwnerOf(f)
<1>1. RowsOnlyAge
  BY StepRowsOnlyAge DEF IInv
<1> QED  BY <1>1 DEF RowsOnlyAge, LiveOnlyShrinks, OwnerOf, Family, Issued

(* How a step that lets tokens die looks to SessionFamilies, given what
   becomes of every session.                                               *)
LEMMA SessionsStand ==
  ASSUME nTokens' = nTokens, \A f \in Tokens : OwnerOf(f)' = OwnerOf(f),
         \A f \in Tokens : CurrentOf(f)' = CurrentOf(f)
  PROVE  UNCHANGED Families!vars
<1>1. [f \in Tokens |-> OwnerOf(f)]' = [f \in Tokens |-> OwnerOf(f)]
  BY DEF Tokens
<1>2. [f \in Tokens |-> CurrentOf(f)]' = [f \in Tokens |-> CurrentOf(f)]
  BY DEF Tokens
<1> QED  BY <1>1, <1>2 DEF Families!vars

(* When one family loses its live token, and owners stay, the step is End. *)
LEMMA OneSessionEnds ==
  ASSUME nTokens' = nTokens, \A f \in Tokens : OwnerOf(f)' = OwnerOf(f),
         NEW g \in Tokens, CurrentOf(g)' = 0,
         \A f \in Tokens \ {g} : CurrentOf(f)' = CurrentOf(f)
  PROVE  Families!Next
<1>1. [f \in Tokens |-> OwnerOf(f)]' = [f \in Tokens |-> OwnerOf(f)]
  BY DEF Tokens
<1>2. [f \in Tokens |-> CurrentOf(f)]'
        = [[f \in Tokens |-> CurrentOf(f)] EXCEPT ![g] = 0]
  BY DEF Tokens
<1>3. Families!End(g)
  BY <1>1, <1>2 DEF Families!End
<1> QED  BY <1>3 DEF Families!Next, Families!Sessions, Tokens

(* When all families of one user lose theirs, the step is EndAll.          *)
LEMMA AllSessionsEnd ==
  ASSUME nTokens' = nTokens, \A f \in Tokens : OwnerOf(f)' = OwnerOf(f),
         NEW u \in Users,
         \A f \in Tokens : OwnerOf(f) = u => CurrentOf(f)' = 0,
         \A f \in Tokens : OwnerOf(f) # u => CurrentOf(f)' = CurrentOf(f)
  PROVE  Families!Next
<1>1. [f \in Tokens |-> OwnerOf(f)]' = [f \in Tokens |-> OwnerOf(f)]
  BY DEF Tokens
<1>2. [f \in Tokens |-> CurrentOf(f)]'
        = [f \in Families!Sessions |->
             IF [g \in Tokens |-> OwnerOf(g)][f] = u
             THEN 0 ELSE [g \in Tokens |-> CurrentOf(g)][f]]
  BY DEF Tokens, Families!Sessions
<1>3. Families!EndAll(u)
  BY <1>1, <1>2 DEF Families!EndAll
<1> QED  BY <1>3 DEF Families!Next

(* Revoking S kills the tokens of S and no others.                         *)
LEMMA RevokeLive ==
  ASSUME IInv, NEW S, refresh_tokens' = Revoke(S), nTokens' = nTokens
  PROVE  /\ LiveOnlyShrinks
         /\ \A t \in Issued : Live(t)' <=> Live(t) /\ t \notin S
  BY RevokeRows, Basics DEF IInv, LiveOnlyShrinks, Live, Family, Issued

(* One lemma per kind of step.  A login opens a session.  About:
   auth_service.py:89-103.                                                 *)
LEMMA IssueOpens ==
  ASSUME IInv, OneLivePerFamily, OneLivePerFamily',
         NEW r \in Requests, IssueCommit(r)
  PROVE  Families!Next
<1>0. PICK n : n = nTokens + 1
  OBVIOUS
<1>1. /\ n \in Tokens /\ n \notin Issued /\ Issued' = Issued \cup {n}
      /\ Family(n)' = n /\ Live(n)'
      /\ refresh_tokens'[n].user_id = req[r].user
      /\ \A t \in Issued : /\ Family(t)' = Family(t)
                           /\ Live(t)' = Live(t)
                           /\ Family(t) \in Issued
                           /\ refresh_tokens'[t] = refresh_tokens[t]
  BY <1>0, IssuedLive
<1>2. /\ nTokens < MaxTokens /\ nTokens' = n /\ req[r].user \in Users
  BY <1>0 DEF IssueCommit, IInv, HandlersOK, RowsExist
<1>3. \A f \in Tokens \ {n} : OwnerOf(f)' = OwnerOf(f)
  BY <1>1 DEF OwnerOf, Family
<1>4. OwnerOf(n)' = req[r].user
  BY <1>1 DEF OwnerOf
<1>5. CurrentOf(n)' = n
  BY <1>1, CurrentNext
<1>6. ASSUME NEW f \in Tokens \ {n} PROVE CurrentOf(f)' = CurrentOf(f)
  <2>1. CASE \E t \in Issued : Live(t) /\ Family(t) = f
    <3>1. PICK t \in Issued : Live(t) /\ Family(t) = f
      BY <2>1
    <3>2. t \in Issued' /\ Live(t)' /\ Family(t)' = f
      BY <1>1, <3>1
    <3>3. CurrentOf(f) = t /\ CurrentOf(f)' = t
      BY <3>1, <3>2, CurrentIsLive, CurrentNext
    <3> QED  BY <3>3
  <2>2. CASE \A t \in Issued : ~(Live(t) /\ Family(t) = f)
    <3>1. \A t \in Issued' : ~(Live(t)' /\ Family(t)' = f)
      BY <1>1, <2>2
    <3> QED  BY <2>2, <3>1, NothingIsCurrent, CurrentNext
  <2> QED  BY <2>1, <2>2
<1>7. /\ [f \in Tokens |-> OwnerOf(f)]'
           = [[f \in Tokens |-> OwnerOf(f)] EXCEPT ![n] = req[r].user]
      /\ [f \in Tokens |-> CurrentOf(f)]'
           = [[f \in Tokens |-> CurrentOf(f)] EXCEPT ![n] = n]
  BY <1>3, <1>4, <1>5, <1>6 DEF Tokens
<1>8. Families!Open(req[r].user)
  BY <1>0, <1>2, <1>7 DEF Families!Open
<1> QED  BY <1>2, <1>8 DEF Families!Next

(* A rotation replaces the token that continues its session.  About:
   auth_service.py:135-152.                                                *)
LEMMA RotateReplaces ==
  ASSUME IInv, ReadsAreFresh, OneLivePerFamily, OneLivePerFamily',
         NEW r \in Requests, RotateCommit(r)
  PROVE  Families!Next
<1>0. PICK n, p, g : n = nTokens + 1 /\ p = req[r].row /\ g = Family(p)
  OBVIOUS
<1>1. /\ n \in Tokens /\ n \notin Issued /\ Issued' = Issued \cup {n}
      /\ p \in Issued /\ Live(p) /\ ~Live(p)'
      /\ Family(p)' = g /\ g \in Issued
      /\ Family(n)' = g /\ Live(n)'
      /\ refresh_tokens'[p].user_id = refresh_tokens[p].user_id
      /\ \A t \in Issued \ {p} : /\ Family(t)' = Family(t)
                                 /\ Live(t)' = Live(t)
                                 /\ refresh_tokens'[t] = refresh_tokens[t]
  BY <1>0, RotatedLive
<1>2. /\ nTokens < MaxTokens /\ nTokens' = n /\ n \notin Issued
      /\ Issued \subseteq Tokens /\ Issued \subseteq Nat /\ n # 0
  BY <1>0, <1>1, Basics DEF RotateCommit, IInv
<1>3. \A f \in Tokens : OwnerOf(f)' = OwnerOf(f)
  <2>1. OwnerOf(n)' = OwnerOf(n)
    BY <1>1 DEF OwnerOf
  <2>2. \A f \in Tokens \ {n} : OwnerOf(f)' = OwnerOf(f)
    BY <1>0, <1>1 DEF OwnerOf
  <2> QED  BY <2>1, <2>2
<1>4. CurrentOf(g) = p /\ CurrentOf(g)' = n
  BY <1>0, <1>1, CurrentIsLive, CurrentNext
<1>5. p # 0
  BY <1>1, <1>2 DEF Issued
<1>6. ASSUME NEW f \in Tokens \ {g} PROVE CurrentOf(f)' = CurrentOf(f)
  <2>1. CASE \E t \in Issued : Live(t) /\ Family(t) = f
    <3>1. PICK t \in Issued : Live(t) /\ Family(t) = f
      BY <2>1
    <3>2. t \in Issued' /\ Live(t)' /\ Family(t)' = f
      BY <1>0, <1>1, <3>1
    <3>3. CurrentOf(f) = t /\ CurrentOf(f)' = t
      BY <3>1, <3>2, CurrentIsLive, CurrentNext
    <3> QED  BY <3>3
  <2>2. CASE \A t \in Issued : ~(Live(t) /\ Family(t) = f)
    <3>1. \A t \in Issued' : ~(Live(t)' /\ Family(t)' = f)
      BY <1>0, <1>1, <2>2
    <3> QED  BY <2>2, <3>1, NothingIsCurrent, CurrentNext
  <2> QED  BY <2>1, <2>2
<1>7. /\ [f \in Tokens |-> OwnerOf(f)]' = [f \in Tokens |-> OwnerOf(f)]
      /\ [f \in Tokens |-> CurrentOf(f)]'
           = [[f \in Tokens |-> CurrentOf(f)] EXCEPT ![g] = n]
      /\ [f \in Tokens |-> CurrentOf(f)][g] # 0
  BY <1>1, <1>2, <1>3, <1>4, <1>5, <1>6 DEF Tokens
<1>8. Families!Rotate(g)
  BY <1>0, <1>2, <1>7 DEF Families!Rotate
<1>9. g \in Families!Sessions
  BY <1>1, <1>2 DEF Families!Sessions, Tokens
<1> QED  BY <1>8, <1>9 DEF Families!Next

(* Logout and detected reuse end one session.  About:
   auth_service.py:117-130 and 155-160.                                    *)
LEMMA PurgeEnds ==
  ASSUME IInv, ReadsAreFresh, OneLivePerFamily, OneLivePerFamily', [Next]_vars,
         NEW r \in Requests, ReuseCommit(r) \/ LogoutCommit(r)
  PROVE  Families!Next
<1>0. PICK g : g = Family(req[r].row)
  OBVIOUS
<1>1. req[r].row \in Issued /\ g \in Issued /\ Issued \subseteq Tokens
  <2>1. req[r].row \in Issued
    BY DEF IInv, HandlersOK, RowsExist, ReuseCommit, LogoutCommit
  <2> QED  BY <1>0, <2>1, Basics DEF IInv, TypeOK, Family
<1>2. PICK S : /\ refresh_tokens' = Revoke(S) /\ nTokens' = nTokens
               /\ \A t \in Issued : Live(t) /\ Family(t) = g => t \in S
               /\ \A t \in Issued : Family(t) # g => t \notin S
  <2>1. CASE ReuseCommit(r)
    <3>1. /\ req[r].victims = FamilyMembers(req[r].row)
          /\ refresh_tokens' = Revoke(req[r].victims) /\ nTokens' = nTokens
      BY <2>1 DEF ReadsAreFresh, ReadIsFresh, ReuseCommit
    <3> QED  BY <1>0, <3>1 DEF FamilyMembers
  <2>2. CASE LogoutCommit(r)
    <3>1. /\ Live(req[r].row)
          /\ refresh_tokens' = Revoke({req[r].row}) /\ nTokens' = nTokens
      BY <2>2 DEF ReadsAreFresh, ReadIsFresh, LogoutCommit
    <3> QED  BY <1>0, <1>1, <3>1 DEF OneLivePerFamily
  <2> QED  BY <2>1, <2>2
<1>3. /\ LiveOnlyShrinks
      /\ \A t \in Issued : Live(t)' <=> Live(t) /\ t \notin S
  BY <1>2, RevokeLive
<1>4. CurrentOf(g)' = 0
  BY <1>2, <1>3, SessionsAfter
<1>5. ASSUME NEW f \in Tokens \ {g} PROVE CurrentOf(f)' = CurrentOf(f)
  BY <1>2, <1>3, SessionsAfter
<1> QED  BY <1>1, <1>2, <1>3, <1>4, <1>5, OwnersStand, OneSessionEnds

(* A password reset ends the sessions of its user.  About:
   auth_service.py:197-202.                                                *)
LEMMA ResetEnds ==
  ASSUME IInv, ReadsAreFresh, OneLivePerFamily, OneLivePerFamily', [Next]_vars,
         NEW r \in Requests, ResetCommit(r)
  PROVE  Families!Next
<1>0. PICK u : u = req[r].user
  OBVIOUS
<1>1. /\ u \in Users
      /\ refresh_tokens' = Revoke(req[r].victims) /\ nTokens' = nTokens
      /\ req[r].victims = UserTokens(u)
  BY <1>0 DEF IInv, HandlersOK, RowsExist, ReadsAreFresh, ReadIsFresh,
     ResetCommit
<1>2. /\ LiveOnlyShrinks
      /\ \A t \in Issued : Live(t)' <=> Live(t) /\ t \notin UserTokens(u)
  BY <1>1, RevokeLive
<1>3. \A t \in Issued : OwnerOf(Family(t)) = refresh_tokens[t].user_id
  <2>1. \A t \in Issued : Family(t) \in Issued
    BY DEF IInv, TypeOK, Family
  <2> QED  BY <2>1 DEF IInv, FamiliesAreLineages, OwnerOf
<1>4. ASSUME NEW f \in Tokens, OwnerOf(f) = u PROVE CurrentOf(f)' = 0
  <2>1. \A t \in Issued : Family(t) = f => ~Live(t)'
    BY <1>2, <1>3, <1>4 DEF UserTokens
  <2> QED  BY <1>2, <2>1, SessionsAfter
<1>5. ASSUME NEW f \in Tokens, OwnerOf(f) # u
      PROVE  CurrentOf(f)' = CurrentOf(f)
  <2>1. \A t \in Issued : Family(t) = f /\ Live(t) => Live(t)'
    BY <1>2, <1>3, <1>5 DEF UserTokens
  <2> QED  BY <1>2, <2>1, SessionsAfter
<1> QED  BY <1>1, <1>2, <1>4, <1>5, OwnersStand, AllSessionsEnd

(* All other steps are stutters to SessionFamilies.                        *)
LEMMA OthersStutter ==
  ASSUME IInv, OneLivePerFamily, OneLivePerFamily', [Next]_vars, NoTokenWrite
  PROVE  UNCHANGED Families!vars
<1>1. LiveOnlyShrinks /\ \A t \in Issued : Live(t)' = Live(t)
  BY DEF NoTokenWrite, LiveOnlyShrinks, Family, Live, Issued
<1>2. \A f \in Tokens : CurrentOf(f)' = CurrentOf(f)
  BY <1>1, SessionsAfter
<1>3. \A f \in Tokens : OwnerOf(f)' = OwnerOf(f)
  BY <1>1, OwnersStand
<1> QED  BY <1>1, <1>2, <1>3, SessionsStand DEF LiveOnlyShrinks

(* Every step implements a step of SessionFamilies or a stutter.           *)
LEMMA StepImplements ==
  /\ IInv /\ SerialInv /\ SerialInv' /\ [Next]_vars
  => [Families!Next]_(Families!vars)
<1> SUFFICES ASSUME IInv, SerialInv, SerialInv', [Next]_vars
             PROVE  [Families!Next]_(Families!vars)
  OBVIOUS
<1>0. ReadsAreFresh /\ OneLivePerFamily /\ OneLivePerFamily'
  BY DEF SerialInv
<1>1. ASSUME NEW r \in Requests, IssueCommit(r) PROVE Families!Next
  BY <1>0, <1>1, IssueOpens
<1>2. ASSUME NEW r \in Requests, RotateCommit(r) PROVE Families!Next
  BY <1>0, <1>2, RotateReplaces
<1>3. ASSUME NEW r \in Requests, ReuseCommit(r) \/ LogoutCommit(r)
      PROVE  Families!Next
  BY <1>0, <1>3, PurgeEnds
<1>4. ASSUME NEW r \in Requests, ResetCommit(r) PROVE Families!Next
  BY <1>0, <1>4, ResetEnds
<1>5. ASSUME NoTokenWrite PROVE UNCHANGED Families!vars
  BY <1>0, <1>5, OthersStutter
<1>6. ASSUME Tick \/ UNCHANGED vars PROVE NoTokenWrite
  BY <1>6 DEF Tick, NoTokenWrite, vars, db
<1> QED
  BY <1>1, <1>2, <1>3, <1>4, <1>5, <1>6, StepsWithoutTokenWrite
     DEF Next, Serve, Continue

(* At the start there is no session.                                       *)
LEMMA InitImplements == Init => Families!Init
<1> SUFFICES ASSUME Init PROVE Families!Init
  OBVIOUS
<1>1. Issued = {} /\ nTokens = 0
  BY DEF Init, Issued
<1>2. \A f \in Tokens : OwnerOf(f) = None /\ CurrentOf(f) = 0
  BY <1>1 DEF OwnerOf, CurrentOf
<1> QED  BY <1>1, <1>2 DEF Families!Init, Families!Sessions, Tokens

(* While requests do not overlap the tables implement SessionFamilies: a
   login opens a session, a rotation replaces its only live token, and
   logout, detected reuse and password reset end sessions for good.
   About: login, refresh, logout and reset-password of auth_service.py.    *)
THEOREM SerialSessionsImplement ==
  Spec /\ []NoOverlap => ImplementsSessionFamilies
  BY InitImplements, StepImplements, InductiveInvariant, SerialInvariant, PTL
     DEF Spec, Families!Spec, ImplementsSessionFamilies
=============================================================================
