------------------ MODULE WorkspaceMembershipSerialProofs ------------------
(***************************************************************************)
(* What membership promises when requests do not overlap, however many     *)
(* slots there are: the permission and the rows that a handler read still  *)
(* stand when it commits, and the tables implement WorkspaceRoster.        *)
(***************************************************************************)
EXTENDS WorkspaceMembershipProofs, WorkspaceMembershipRefinement

-----------------------------------------------------------------------------
(* The hypothesis and the inductive invariant.                             *)

(* At most one handler is suspended.  (Creating a workspace is a single
   step and may still fall between the steps of another handler.)          *)
NoOverlap ==
    \A q, r \in Requests :
        req[q].pc # "idle" /\ req[r].pc # "idle" => q = r

ReadIsFresh(r) ==
    /\ req[r].pc \in {"authorized", "change", "remove"} =>
          CanManage(req[r].ws, req[r].actor)
    /\ req[r].pc \in {"change", "remove"} => RowStands(r)
    /\ req[r].pc = "remove" =>
          get_member_role(req[r].ws, req[r].target) # "owner"
    /\ req[r].pc \in {"accept", "expire", "join", "rejoin"} =>
          invitations[req[r].row].status = "pending"
    /\ req[r].pc = "join" => ~IsMember(req[r].ws, req[r].target)
    /\ req[r].pc = "rejoin" => IsMember(req[r].ws, req[r].target)

ReadsAreFresh == \A r \in Requests : ReadIsFresh(r)

PendingIsUnused ==
    \A i \in Invitations :
        invitations[i].status = "pending" => ~invitations[i].accepted

SerialInv == ReadsAreFresh /\ PendingIsUnused

-----------------------------------------------------------------------------
(* The handlers.                                                           *)

(* The slot of the handler that moves takes its new record, and no other
   slot changes.                                                           *)
LEMMA Becomes ==
  ASSUME TypeOK, NEW r \in Requests, NEW h, Become(r, h)
  PROVE  /\ req'[r] = h
         /\ \A q \in Requests \ {r} : req'[q] = req[q]
  BY DEF TypeOK, Become

(* A request that has arrived is busy, but for the creation of a workspace.
   What it has read is what is there.                                      *)
LEMMA ArrivalReadsFresh ==
  ASSUME IInv, NEW r \in Requests,
         \/ \E u \in Users, w \in Workspaces : Authorize(r, u, w)
         \/ \E u \in Users, i \in mailed : AcceptRead(r, u, i)
  PROVE  /\ req'[r].pc # "idle"
         /\ \A q \in Requests \ {r} : req'[q] = req[q]
         /\ ReadIsFresh(r)'
<1>0. TypeOK
  BY DEF IInv
<1>1. ASSUME NEW u \in Users, NEW w \in Workspaces, Authorize(r, u, w)
      PROVE  /\ req'[r].pc # "idle"
             /\ \A q \in Requests \ {r} : req'[q] = req[q]
             /\ ReadIsFresh(r)'
  <2>1. /\ req'[r].pc = "authorized" /\ req'[r].actor = u /\ req'[r].ws = w
        /\ \A q \in Requests \ {r} : req'[q] = req[q]
        /\ members' = members /\ CanManage(w, u)
    <3>1. Become(r, [Idle EXCEPT !.pc = "authorized", !.actor = u, !.ws = w])
      BY <1>1 DEF Authorize
    <3>2. /\ req'[r] = [Idle EXCEPT !.pc = "authorized", !.actor = u, !.ws = w]
          /\ \A q \in Requests \ {r} : req'[q] = req[q]
      BY <1>0, <3>1, Becomes
    <3>3. req'[r].pc = "authorized" /\ req'[r].actor = u /\ req'[r].ws = w
      BY <3>2 DEF Idle
    <3>4. members' = members /\ CanManage(w, u)
      BY <1>1 DEF Authorize, db
    <3> QED  BY <3>2, <3>3, <3>4
  <2> QED  BY <2>1 DEF ReadIsFresh, CanManage, get_member_role
<1>2. ASSUME NEW u \in Users, NEW i \in mailed, AcceptRead(r, u, i)
      PROVE  /\ req'[r].pc # "idle"
             /\ \A q \in Requests \ {r} : req'[q] = req[q]
             /\ ReadIsFresh(r)'
  <2>1. /\ req'[r].pc \in {"expire", "accept"} /\ req'[r].row = i
        /\ \A q \in Requests \ {r} : req'[q] = req[q]
    <3>1. \/ Become(r, [Idle EXCEPT !.pc = "expire", !.row = i])
          \/ Become(r, [Idle EXCEPT !.pc = "accept", !.ws = invitations[i].ws,
                                    !.target = u, !.row = i])
      BY <1>2 DEF AcceptRead
    <3>2. CASE Become(r, [Idle EXCEPT !.pc = "expire", !.row = i])
      <4>1. /\ req'[r] = [Idle EXCEPT !.pc = "expire", !.row = i]
            /\ \A q \in Requests \ {r} : req'[q] = req[q]
        BY <1>0, <3>2, Becomes
      <4>2. req'[r].pc = "expire" /\ req'[r].row = i
        BY <4>1 DEF Idle
      <4> QED  BY <4>1, <4>2
    <3>3. CASE Become(r, [Idle EXCEPT !.pc = "accept",
                                      !.ws = invitations[i].ws,
                                      !.target = u, !.row = i])
      <4>1. /\ req'[r] = [Idle EXCEPT !.pc = "accept",
                                      !.ws = invitations[i].ws,
                                      !.target = u, !.row = i]
            /\ \A q \in Requests \ {r} : req'[q] = req[q]
        BY <1>0, <3>3, Becomes
      <4>2. req'[r].pc = "accept" /\ req'[r].row = i
        BY <4>1 DEF Idle
      <4> QED  BY <4>1, <4>2
    <3> QED  BY <3>1, <3>2, <3>3
  <2>2. invitations' = invitations /\ invitations[i].status = "pending"
    BY <1>2 DEF AcceptRead, db
  <2> QED  BY <2>1, <2>2 DEF ReadIsFresh
<1> QED  BY <1>1, <1>2

(* A handler that goes on was busy and moves alone; it ends, or has read
   what is there.                                                          *)
LEMMA ContinuationReadsFresh ==
  ASSUME IInv, NEW r \in Requests, ReadIsFresh(r), Continue(r)
  PROVE  /\ req[r].pc # "idle"
         /\ \A q \in Requests \ {r} : req'[q] = req[q]
         /\ ReadIsFresh(r)'
<1> DEFINE Goal == /\ req[r].pc # "idle"
                   /\ \A q \in Requests \ {r} : req'[q] = req[q]
                   /\ ReadIsFresh(r)'
<1>0. TypeOK /\ req[r] \in Request
  BY DEF IInv, TypeOK
<1>1. ASSUME Finish(r), req[r].pc # "idle" PROVE Goal
  <2>1. req'[r].pc = "idle" /\ \A q \in Requests \ {r} : req'[q] = req[q]
    BY <1>0, <1>1, Becomes DEF Finish, Idle
  <2> QED  BY <1>1, <2>1 DEF ReadIsFresh
<1>2. ASSUME NEW e \in Users, NEW role \in PayloadRoles,
             InviteCommit(r, e, role)
      PROVE  Goal
  <2>1. /\ req'[r].pc = "mail" /\ req[r].pc = "authorized"
        /\ \A q \in Requests \ {r} : req'[q] = req[q]
    <3>1. /\ Become(r, [req[r] EXCEPT !.pc = "mail", !.row = nInvitations + 1])
          /\ req[r].pc = "authorized"
      BY <1>2 DEF InviteCommit
    <3>2. /\ req'[r] = [req[r] EXCEPT !.pc = "mail", !.row = nInvitations + 1]
          /\ \A q \in Requests \ {r} : req'[q] = req[q]
      BY <1>0, <3>1, Becomes
    <3>3. req'[r].pc = "mail"
      BY <1>0, <3>2 DEF Request
    <3> QED  BY <3>1, <3>2, <3>3
  <2> QED  BY <2>1 DEF ReadIsFresh
<1>3. ASSUME NEW u \in Users, NEW role \in PayloadRoles, ChangeRead(r, u, role)
      PROVE  Goal
  <2>1. req'[r] = [req[r] EXCEPT !.pc = "change", !.target = u, !.role = role,
                                 !.row = members[req[r].ws][u].id]
    BY <1>0, <1>3, Becomes DEF ChangeRead
  <2>2. /\ req'[r].pc = "change" /\ req[r].pc = "authorized"
        /\ req'[r].ws = req[r].ws /\ req'[r].actor = req[r].actor
        /\ req'[r].target = u /\ req'[r].row = members[req[r].ws][u].id
        /\ members' = members
        /\ \A q \in Requests \ {r} : req'[q] = req[q]
    BY <1>0, <1>3, <2>1, Becomes DEF ChangeRead, Request, db
  <2> QED  BY <2>2 DEF ReadIsFresh, CanManage, get_member_role, RowStands
<1>4. ASSUME NEW u \in Users, RemoveRead(r, u) PROVE Goal
  <2>1. req'[r] = [req[r] EXCEPT !.pc = "remove", !.target = u,
                                 !.row = members[req[r].ws][u].id]
    BY <1>0, <1>4, Becomes DEF RemoveRead
  <2>2. /\ req'[r].pc = "remove" /\ req[r].pc = "authorized"
        /\ req'[r].ws = req[r].ws /\ req'[r].actor = req[r].actor
        /\ req'[r].target = u /\ req'[r].row = members[req[r].ws][u].id
        /\ members' = members /\ get_member_role(req[r].ws, u) # "owner"
        /\ \A q \in Requests \ {r} : req'[q] = req[q]
    BY <1>0, <1>4, <2>1, Becomes DEF RemoveRead, Request, db
  <2> QED  BY <2>2 DEF ReadIsFresh, CanManage, get_member_role, RowStands
<1>5. ASSUME AcceptLookup(r) PROVE Goal
  <2>1. req'[r] = [req[r] EXCEPT !.pc = IF IsMember(req[r].ws, req[r].target)
                                        THEN "rejoin" ELSE "join"]
    BY <1>0, <1>5, Becomes DEF AcceptLookup
  <2>2. /\ req'[r].pc = IF IsMember(req[r].ws, req[r].target)
                        THEN "rejoin" ELSE "join"
        /\ req[r].pc = "accept"
        /\ req'[r].ws = req[r].ws /\ req'[r].target = req[r].target
        /\ req'[r].row = req[r].row
        /\ members' = members /\ invitations' = invitations
        /\ \A q \in Requests \ {r} : req'[q] = req[q]
    BY <1>0, <1>5, <2>1, Becomes DEF AcceptLookup, Request, db
  <2> QED  BY <2>2 DEF ReadIsFresh, IsMember
<1>6. ASSUME \/ Refuse(r) \/ SendInvitation(r) \/ ExpireCommit(r)
             \/ JoinCommit(r) \/ JoinConflict(r) \/ RejoinCommit(r)
             \/ ChangeCommit(r) \/ ChangeStale(r) \/ RemoveCommit(r)
      PROVE  Goal
  <2>1. Finish(r) /\ req[r].pc # "idle"
    BY <1>6 DEF Refuse, SendInvitation, ExpireCommit, JoinCommit, JoinConflict,
       RejoinCommit, ChangeCommit, ChangeStale, RemoveCommit
  <2> QED  BY <1>1, <2>1
<1> QED  BY <1>2, <1>3, <1>4, <1>5, <1>6 DEF Continue

(* A workspace that is created meanwhile is not one that a handler works
   in.  About: create_workspace, workspace_service.py:27-49.               *)
LEMMA CreationInterferesNot ==
  ASSUME IInv, ReadsAreFresh, NEW r \in Requests, NEW u \in Users,
         NEW w \in Workspaces, CreateWorkspace(r, u, w)
  PROVE  ReadsAreFresh'
<1>0. TypeOK /\ HandlersOK /\ InvitationsOK /\ ManagersNoted
  BY DEF IInv
<1>1. /\ owner[w] = None /\ invitations' = invitations /\ req' = req
      /\ \E row : members' = [members EXCEPT ![w][u] = row]
  BY DEF CreateWorkspace, SetMember
<1>2. \A v \in Workspaces \ {w} : members'[v] = members[v]
  BY <1>0, <1>1 DEF TypeOK
<1>3. managers[w] = {}
  BY <1>0, <1>1 DEF ManagersNoted
<1>4. ASSUME NEW s \in Requests PROVE ReadIsFresh(s)'
  <2>1. ReadIsFresh(s) /\ HandlerOK(s)
    BY <1>0 DEF ReadsAreFresh, HandlersOK
  <2>2. CASE req[s].pc \in {"authorized", "change", "remove"}
    <3>1. req[s].ws \in Workspaces \ {w}
      BY <1>3, <2>1, <2>2 DEF HandlerOK
    <3>2. members'[req[s].ws] = members[req[s].ws]
      BY <1>2, <3>1
    <3> QED  BY <1>1, <2>1, <2>2, <3>2
             DEF ReadIsFresh, CanManage, get_member_role, RowStands
  <2>3. CASE req[s].pc \in {"accept", "expire", "join", "rejoin"}
    <3>1. req[s].pc # "expire" => req[s].ws \in Workspaces \ {w}
      BY <1>0, <1>3, <2>1, <2>3 DEF HandlerOK, InvitationsOK
    <3>2. req[s].pc # "expire" => members'[req[s].ws] = members[req[s].ws]
      BY <1>2, <3>1
    <3> QED  BY <1>1, <2>1, <2>3, <3>2 DEF ReadIsFresh, IsMember
  <2>4. CASE req[s].pc \notin {"authorized", "change", "remove", "accept",
                               "expire", "join", "rejoin"}
    BY <1>1, <2>4 DEF ReadIsFresh
  <2> QED  BY <2>2, <2>3, <2>4
<1> QED  BY <1>4 DEF ReadsAreFresh

(* What a handler has read stays so while requests do not overlap.  About:
   the await between SELECT and COMMIT in every handler.                   *)
LEMMA StepReadsAreFresh ==
  ASSUME IInv, ReadsAreFresh, NoOverlap, NoOverlap', [Next]_vars
  PROVE  ReadsAreFresh'
<1>0. TypeOK
  BY DEF IInv
<1>1. ASSUME NEW q \in Requests, req'[q].pc = "idle" PROVE ReadIsFresh(q)'
  BY <1>1 DEF ReadIsFresh
<1>2. ASSUME NEW r \in Requests, Arrive(r),
             ~ \E u \in Users, w \in Workspaces : CreateWorkspace(r, u, w)
      PROVE  ReadsAreFresh'
  <2>1. /\ req'[r].pc # "idle" /\ ReadIsFresh(r)'
    BY <1>2, ArrivalReadsFresh DEF Arrive
  <2>2. \A q \in Requests \ {r} : req'[q].pc = "idle"
    BY <2>1 DEF NoOverlap
  <2> QED  BY <1>1, <2>1, <2>2 DEF ReadsAreFresh
<1>3. ASSUME NEW r \in Requests, Continue(r) PROVE ReadsAreFresh'
  <2>1. /\ req[r].pc # "idle" /\ ReadIsFresh(r)'
        /\ \A q \in Requests \ {r} : req'[q] = req[q]
    BY <1>3, ContinuationReadsFresh DEF ReadsAreFresh
  <2>2. \A q \in Requests \ {r} : req'[q].pc = "idle"
    BY <2>1 DEF NoOverlap
  <2> QED  BY <1>1, <2>1, <2>2 DEF ReadsAreFresh
<1>4. ASSUME NEW r \in Requests, Crash(r) PROVE ReadsAreFresh'
  <2>1. /\ req[r].pc # "idle" /\ req'[r].pc = "idle"
        /\ \A q \in Requests \ {r} : req'[q] = req[q]
    BY <1>0, <1>4, Becomes DEF Crash, Finish, Idle
  <2>2. \A q \in Requests : req'[q].pc = "idle"
    BY <2>1 DEF NoOverlap
  <2> QED  BY <1>1, <2>2 DEF ReadsAreFresh
<1>5. ASSUME Tick \/ UNCHANGED vars PROVE ReadsAreFresh'
  <2>1. UNCHANGED <<members, invitations, req>>
    BY <1>5 DEF Tick, vars, db
  <2> QED  BY <2>1 DEF ReadsAreFresh, ReadIsFresh, CanManage, get_member_role,
     RowStands, IsMember
<1> QED
  BY <1>2, <1>3, <1>4, <1>5, CreationInterferesNot DEF Next

-----------------------------------------------------------------------------
(* The invitations.                                                        *)

(* What the two writes to an invitation leave of its state.                *)
LEMMA AcceptedStatus ==
  ASSUME TypeOK, NEW i \in 1..nInvitations, invitations' = Accepted(i)
  PROVE  /\ invitations'[i].status = "accepted"
         /\ \A j \in Invitations \ {i} : invitations'[j] = invitations[j]
<1> DEFINE inv == [invitations[i] EXCEPT !.status = "accepted",
                                         !.accepted = TRUE]
<1>1. i \in Invitations /\ invitations[i] \in Invitation
  BY Fields
<1>2. inv.status = "accepted"
  BY <1>1 DEF Invitation
<1>3. invitations' = [invitations EXCEPT ![i] = inv]
  BY <1>1 DEF Accepted, TypeOK
<1> HIDE DEF inv
<1> QED  BY <1>1, <1>2, <1>3 DEF TypeOK

(* Expiry changes the state of one invitation.                             *)
LEMMA ExpiredStatus ==
  ASSUME TypeOK, NEW i \in 1..nInvitations,
         invitations' = [invitations EXCEPT ![i].status = "expired"]
  PROVE  /\ invitations'[i].status = "expired"
         /\ \A j \in Invitations \ {i} : invitations'[j] = invitations[j]
<1>1. i \in Invitations /\ invitations[i] \in Invitation
  BY Fields
<1>2. [invitations[i] EXCEPT !.status = "expired"].status = "expired"
  BY <1>1 DEF Invitation
<1> QED  BY <1>1, <1>2 DEF TypeOK

(* A new invitation is pending and changes no other.                       *)
LEMMA InvitedStatus ==
  ASSUME IInv, NEW r \in Requests, NEW e \in Users, NEW role \in PayloadRoles,
         InviteCommit(r, e, role), NEW n, n = nInvitations + 1
  PROVE  /\ n \in Invitations /\ nInvitations' = n
         /\ invitations'[n].status = "pending" /\ ~invitations'[n].accepted
         /\ invitations'[n].ws = req[r].ws /\ invitations'[n].email = e
         /\ invitations'[n].role = role
         /\ \A j \in Invitations \ {n} : invitations'[j] = invitations[j]
<1>1. TypeOK /\ nInvitations \in 0..MaxInvitations /\ MaxInvitations \in Nat
  BY ConstantsAssumption DEF IInv, TypeOK
<1>2. n \in Invitations /\ nInvitations' = n
  BY <1>1 DEF InviteCommit, Invitations
<1> QED  BY <1>1, <1>2 DEF InviteCommit, TypeOK

(* An invitation is pending only until it is used, and never again.        *)
LEMMA StepPending ==
  ASSUME IInv, PendingIsUnused, [Next]_vars
  PROVE  PendingIsUnused'
<1>0. TypeOK /\ HandlersOK
  BY DEF IInv
<1>1. ASSUME NEW r \in Requests, NEW e \in Users, NEW role \in PayloadRoles,
             InviteCommit(r, e, role)
      PROVE  PendingIsUnused'
  <2>1. PICK n : n = nInvitations + 1
    OBVIOUS
  <2> QED  BY <1>1, <2>1, InvitedStatus DEF PendingIsUnused
<1>2. ASSUME NEW r \in Requests, JoinCommit(r) \/ RejoinCommit(r)
      PROVE  PendingIsUnused'
  <2>1. req[r].row \in 1..nInvitations /\ invitations' = Accepted(req[r].row)
    BY <1>0, <1>2 DEF JoinCommit, RejoinCommit, HandlersOK, HandlerOK
  <2> QED  BY <1>0, <2>1, AcceptedStatus DEF PendingIsUnused
<1>3. ASSUME NEW r \in Requests, ExpireCommit(r) PROVE PendingIsUnused'
  <2>1. /\ req[r].row \in 1..nInvitations
        /\ invitations' = [invitations EXCEPT ![req[r].row].status = "expired"]
    BY <1>0, <1>3 DEF ExpireCommit, HandlersOK, HandlerOK
  <2> QED  BY <1>0, <2>1, ExpiredStatus DEF PendingIsUnused
<1>4. ASSUME invitations' = invitations PROVE PendingIsUnused'
  BY <1>4 DEF PendingIsUnused
<1>5. \/ invitations' = invitations
      \/ \E r \in Requests :
            \/ \E e \in Users, role \in PayloadRoles : InviteCommit(r, e, role)
            \/ JoinCommit(r) \/ RejoinCommit(r) \/ ExpireCommit(r)
  BY DEF Next, vars, db, Arrive, Continue, Crash, Tick, CreateWorkspace,
     Authorize, AcceptRead, ChangeRead, RemoveRead, Refuse, SendInvitation,
     AcceptLookup, JoinConflict, ChangeCommit, ChangeStale, RemoveCommit
<1> QED  BY <1>1, <1>2, <1>3, <1>4, <1>5

(* Every step that does not overlap another preserves the serial
   invariant.                                                              *)
LEMMA StepSerialInv ==
  /\ IInv /\ SerialInv /\ [Next]_vars /\ NoOverlap /\ NoOverlap'
  => SerialInv'
  BY StepReadsAreFresh, StepPending DEF SerialInv

(* No handler, no invitation.                                              *)
LEMMA InitSerialInv == Init => SerialInv
  BY DEF Init, SerialInv, ReadsAreFresh, ReadIsFresh, Idle, PendingIsUnused,
     NoInvitation

-----------------------------------------------------------------------------
(* Theorems: what serial requests promise.                                 *)

(* While requests do not overlap, the permission, the row and the
   invitation that a handler read still stand when it commits.  About: the
   handlers of workspace_service.py behind require_permission.             *)
THEOREM SerialInvariant == Spec /\ []NoOverlap => []SerialInv
  BY InductiveInvariant, InitSerialInv, StepSerialInv, PTL DEF Spec

(* While requests do not overlap, an invitation that was used gives no
   membership again.  About: workspace_service.py:114-115.                 *)
THEOREM InvitationsJoinOnce ==
  Spec /\ []NoOverlap => InvitationJoinsOnce
<1>1. IInv /\ SerialInv => [\A r \in Requests :
          JoinCommit(r) => ~invitations[req[r].row].accepted]_vars
  <2>1. ASSUME IInv, SerialInv, NEW r \in Requests, JoinCommit(r)
        PROVE  ~invitations[req[r].row].accepted
    <3>1. req[r].row \in Invitations
      BY <2>1, Fields DEF IInv, HandlersOK, HandlerOK, JoinCommit
    <3> QED  BY <2>1, <3>1 DEF SerialInv, ReadsAreFresh, ReadIsFresh,
                               PendingIsUnused, JoinCommit
  <2> QED  BY <2>1
<1> QED  BY <1>1, InductiveInvariant, SerialInvariant, PTL
         DEF InvitationJoinsOnce

-----------------------------------------------------------------------------
(* The refinement of WorkspaceRoster.                                      *)

(* The roster takes its permissions from the same table.                   *)
LEMMA SameRbac ==
  /\ Roster!WorkspaceRole = WorkspaceRole
  /\ \A role : role_has_permission(role, "manage_members")
                => Roster!role_has_permission(role, "manage_members")
  BY DEF Roster!WorkspaceRole, WorkspaceRole, Roster!ROLE_PERMISSIONS,
     ROLE_PERMISSIONS, Roster!role_has_permission, role_has_permission

(* A table of roles that differs from another in one place.                *)
LEMMA OneRole ==
  ASSUME NEW S, NEW R \in [Workspaces -> [Users -> S]],
         NEW Q \in [Workspaces -> [Users -> S]],
         NEW w \in Workspaces, NEW u \in Users, NEW x, Q[w][u] = x,
         \A v \in Workspaces, t \in Users :
            v # w \/ t # u => Q[v][t] = R[v][t]
  PROVE  Q = [R EXCEPT ![w][u] = x]
<1>1. ASSUME NEW v \in Workspaces
      PROVE  Q[v] = [R EXCEPT ![w][u] = x][v]
  <2>1. CASE v = w
    <3>1. Q[w] = [R[w] EXCEPT ![u] = x]
      OBVIOUS
    <3> QED  BY <2>1, <3>1
  <2>2. CASE v # w
    <3>1. Q[v] = R[v]
      BY <2>2
    <3> QED  BY <2>2, <3>1
  <2> QED  BY <2>1, <2>2
<1> QED  BY <1>1

(* A membership row that is written changes one role of the roster.        *)
LEMMA RosterAfter ==
  ASSUME IInv, NEW w \in Workspaces, NEW u \in Users, NEW row \in Member,
         members' = [members EXCEPT ![w][u] = row]
  PROVE  [v \in Workspaces |-> [t \in Users |-> get_member_role(v, t)]]'
           = [[v \in Workspaces |-> [t \in Users |-> get_member_role(v, t)]]
                EXCEPT ![w][u] = row.role]
<1>1. /\ members'[w][u] = row
      /\ \A v \in Workspaces, t \in Users :
            v # w \/ t # u => members'[v][t] = members[v][t]
  BY OneRow DEF IInv, TypeOK
<1>2. PICK R, Q :
        /\ R = [v \in Workspaces |-> [t \in Users |-> get_member_role(v, t)]]
        /\ Q = [v \in Workspaces |-> [t \in Users |-> get_member_role(v, t)]]'
  OBVIOUS
<1>3. /\ R \in [Workspaces -> [Users -> WorkspaceRole \cup {None}]]
      /\ \A v \in Workspaces, t \in Users : R[v][t] = members[v][t].role
  BY <1>2, Fields DEF IInv, get_member_role, Member
<1>4. \A v \in Workspaces, t \in Users : Q[v][t] = members'[v][t].role
  BY <1>2 DEF get_member_role
<1>5. \A v \in Workspaces, t \in Users :
        members'[v][t].role \in WorkspaceRole \cup {None}
  BY <1>1, Fields DEF IInv, Member
<1>6. Q \in [Workspaces -> [Users -> WorkspaceRole \cup {None}]]
  BY <1>2, <1>5 DEF get_member_role
<1>7. Q = [R EXCEPT ![w][u] = row.role]
  BY <1>1, <1>3, <1>4, <1>6, OneRole
<1> QED  BY <1>2, <1>7

(* Without a write the roster stays.                                       *)
LEMMA RosterStands ==
  ASSUME members' = members
  PROVE  [v \in Workspaces |-> [t \in Users |-> get_member_role(v, t)]]'
           = [v \in Workspaces |-> [t \in Users |-> get_member_role(v, t)]]
  BY DEF get_member_role

(* The same of the offers.                                                 *)
LEMMA OffersAfter ==
  ASSUME NEW i \in Invitations,
         \A j \in Invitations \ {i} : invitations'[j] = invitations[j]
  PROVE  [j \in Invitations |-> OfferOf(j)]'
           = [[j \in Invitations |-> OfferOf(j)] EXCEPT ![i] = OfferOf(i)']
  BY DEF OfferOf, Invitations

(* Without a write to the invitations the offers stay.                     *)
LEMMA OffersStand ==
  ASSUME invitations' = invitations
  PROVE  [j \in Invitations |-> OfferOf(j)]'
           = [j \in Invitations |-> OfferOf(j)]
  BY DEF OfferOf, Invitations

(* A pending invitation is an offer, any other is none.                    *)
LEMMA PendingIsAnOffer ==
  ASSUME IInv, NEW i \in 1..nInvitations
  PROVE  /\ i \in Invitations
         /\ invitations[i].status = "pending" =>
               OfferOf(i) # Roster!NoOffer
         /\ invitations[i].status # "pending" =>
               OfferOf(i) = Roster!NoOffer
  BY Fields, ConstantsAssumption
     DEF IInv, InvitationsOK, OfferOf, Roster!NoOffer

(* The owner of a new workspace founds it.  About:
   workspace_service.py:27-49.                                             *)
LEMMA CreationFounds ==
  ASSUME IInv, NEW r \in Requests, NEW u \in Users, NEW w \in Workspaces,
         CreateWorkspace(r, u, w)
  PROVE  Roster!Next
<1> DEFINE row == [id |-> nMembers + 1, role |-> "owner", invited_by |-> None]
<1>1. row \in Member /\ row.role = "owner"
  BY ConstantsAssumption
     DEF CreateWorkspace, IInv, TypeOK, Member, WorkspaceRole
<1>2. /\ owner[w] = None /\ owner' = [owner EXCEPT ![w] = u]
      /\ members' = [members EXCEPT ![w][u] = row]
      /\ invitations' = invitations /\ nInvitations' = nInvitations
  BY DEF CreateWorkspace, SetMember
<1> HIDE DEF row
<1>3. [v \in Workspaces |-> [t \in Users |-> get_member_role(v, t)]]'
        = [[v \in Workspaces |-> [t \in Users |-> get_member_role(v, t)]]
             EXCEPT ![w][u] = "owner"]
  BY <1>1, <1>2, RosterAfter
<1>4. {v \in Workspaces : owner[v] # None}'
        = {v \in Workspaces : owner[v] # None} \cup {w}
  BY <1>2, ConstantsAssumption DEF IInv, TypeOK
<1>5. w \notin {v \in Workspaces : owner[v] # None}
  BY <1>2
<1>6. Roster!Found(u, w)
  BY <1>2, <1>3, <1>4, <1>5, OffersStand DEF Roster!Found
<1> QED  BY <1>6 DEF Roster!Next

(* An invitation is an offer by somebody who decides.  About:
   workspace_service.py:80-106.                                            *)
LEMMA InvitationOffers ==
  ASSUME IInv, ReadsAreFresh, NEW r \in Requests, NEW e \in Users,
         NEW role \in PayloadRoles, InviteCommit(r, e, role)
  PROVE  Roster!Next
<1>0. PICK n, a, w : n = nInvitations + 1 /\ a = req[r].actor /\ w = req[r].ws
  OBVIOUS
<1>1. /\ a \in Users /\ w \in Workspaces /\ role \in WorkspaceRole
      /\ CanManage(w, a)
  <2>1. /\ req[r].ws \in Workspaces /\ req[r].actor \in managers[req[r].ws]
        /\ CanManage(req[r].ws, req[r].actor)
    BY DEF IInv, HandlersOK, HandlerOK, ReadsAreFresh, ReadIsFresh,
       InviteCommit
  <2> QED  BY <1>0, <2>1, Fields, ConstantsAssumption DEF IInv
<1>2. Roster!Decides(a, w)
  BY <1>1, SameRbac DEF CanManage, get_member_role, Roster!Decides
<1>3. /\ n \in Invitations /\ nInvitations' = n
      /\ invitations'[n].status = "pending"
      /\ invitations'[n].ws = w /\ invitations'[n].email = e
      /\ invitations'[n].role = role
      /\ \A j \in Invitations \ {n} : invitations'[j] = invitations[j]
  BY <1>0, InvitedStatus
<1>4. OfferOf(n)' = [ws |-> w, user |-> e, role |-> role]
  BY <1>3 DEF OfferOf
<1>5. [j \in Invitations |-> OfferOf(j)]'
        = [[j \in Invitations |-> OfferOf(j)]
             EXCEPT ![n] = [ws |-> w, user |-> e, role |-> role]]
  BY <1>3, <1>4, OffersAfter
<1>6. /\ nInvitations < MaxInvitations /\ owner' = owner /\ members' = members
  BY DEF InviteCommit
<1>7. Roster!Invite(a, w, e, role)
  BY <1>0, <1>2, <1>3, <1>5, <1>6, RosterStands DEF Roster!Invite
<1> QED  BY <1>1, <1>7, SameRbac DEF Roster!Next

(* An invitation read out of time lapses.  About:
   workspace_service.py:116-119.                                           *)
LEMMA ExpiryLapses ==
  ASSUME IInv, NEW r \in Requests, ExpireCommit(r)
  PROVE  Roster!Next
<1>0. PICK i : i = req[r].row
  OBVIOUS
<1>1. /\ i \in 1..nInvitations /\ i \in Invitations
      /\ invitations' = [invitations EXCEPT ![i].status = "expired"]
      /\ UNCHANGED <<owner, members, nInvitations>>
  BY <1>0, PendingIsAnOffer DEF IInv, HandlersOK, HandlerOK, ExpireCommit
<1>2. /\ invitations'[i].status = "expired"
      /\ \A j \in Invitations \ {i} : invitations'[j] = invitations[j]
  BY <1>1, ExpiredStatus DEF IInv
<1>3. OfferOf(i)' = Roster!NoOffer
  BY <1>2 DEF OfferOf, Roster!NoOffer
<1>4. [j \in Invitations |-> OfferOf(j)]'
        = [[j \in Invitations |-> OfferOf(j)] EXCEPT ![i] = Roster!NoOffer]
  BY <1>1, <1>2, <1>3, OffersAfter
<1>5. Roster!Lapse(i)
  BY <1>1, <1>4, RosterStands DEF Roster!Lapse
<1> QED  BY <1>1, <1>5 DEF Roster!Next, Invitations

(* An accepted invitation is an offer taken up, whether or not its user is
   a member already.  About: workspace_service.py:123-148.                 *)
LEMMA AcceptanceJoins ==
  ASSUME IInv, ReadsAreFresh, NEW r \in Requests,
         JoinCommit(r) \/ RejoinCommit(r)
  PROVE  Roster!Next
<1>0. PICK i, w, u : i = req[r].row /\ w = req[r].ws /\ u = req[r].target
  OBVIOUS
<1>1. /\ i \in 1..nInvitations /\ invitations[i].status = "pending"
      /\ w = invitations[i].ws /\ u = invitations[i].email
  BY <1>0 DEF IInv, HandlersOK, HandlerOK, ReadsAreFresh, ReadIsFresh,
     JoinCommit, RejoinCommit
<1>2. /\ i \in Invitations /\ OfferOf(i) # Roster!NoOffer
      /\ OfferOf(i) = [ws |-> w, user |-> u, role |-> invitations[i].role]
      /\ w \in Workspaces /\ u \in Users
      /\ invitations[i].role \in WorkspaceRole
      /\ invitations[i].invited_by \in Users \cup {None}
  <2>1. i \in Invitations /\ invitations[i] \in Invitation
    BY <1>1, Fields DEF IInv
  <2>2. OfferOf(i) # Roster!NoOffer
    BY <1>1, PendingIsAnOffer
  <2>3. OfferOf(i) = [ws |-> w, user |-> u, role |-> invitations[i].role]
    BY <1>1 DEF OfferOf
  <2>4. /\ w \in Workspaces /\ u \in Users
        /\ invitations[i].role \in WorkspaceRole
    BY <1>1 DEF IInv, InvitationsOK
  <2>5. invitations[i].invited_by \in Users \cup {None}
    BY <2>1 DEF Invitation
  <2> QED  BY <2>1, <2>2, <2>3, <2>4, <2>5
<1>3. invitations' = Accepted(i) /\ UNCHANGED <<owner, nInvitations>>
  BY <1>0 DEF JoinCommit, RejoinCommit
<1>4. [j \in Invitations |-> OfferOf(j)]'
        = [[j \in Invitations |-> OfferOf(j)] EXCEPT ![i] = Roster!NoOffer]
  <2>1. /\ invitations'[i].status = "accepted"
        /\ \A j \in Invitations \ {i} : invitations'[j] = invitations[j]
    BY <1>1, <1>3, AcceptedStatus DEF IInv
  <2>2. OfferOf(i)' = Roster!NoOffer
    BY <2>1 DEF OfferOf, Roster!NoOffer
  <2> QED  BY <1>2, <2>1, <2>2, OffersAfter
<1>5. [v \in Workspaces |-> [t \in Users |-> get_member_role(v, t)]]'
        = [[v \in Workspaces |-> [t \in Users |-> get_member_role(v, t)]]
             EXCEPT ![w][u] = IF @ = None THEN invitations[i].role ELSE @]
  <2>1. CASE JoinCommit(r)
    <3> DEFINE row == [id |-> nMembers + 1, role |-> invitations[i].role,
                       invited_by |-> invitations[i].invited_by]
    <3>1. row \in Member /\ row.role = invitations[i].role
      <4>1. nMembers + 1 \in 0..MaxMembers
        BY <2>1, ConstantsAssumption DEF JoinCommit, IInv, TypeOK
      <4> QED  BY <1>2, <4>1 DEF Member
    <3>2. /\ members' = [members EXCEPT ![w][u] = row]
          /\ ~IsMember(w, u)
      BY <1>0, <2>1 DEF JoinCommit, SetMember
    <3> HIDE DEF row
    <3>3. get_member_role(w, u) = None
      BY <1>2, <3>2 DEF IInv, TypeOK, get_member_role
    <3>4. [v \in Workspaces |-> [t \in Users |-> get_member_role(v, t)]]'
            = [[v \in Workspaces |-> [t \in Users |-> get_member_role(v, t)]]
                 EXCEPT ![w][u] = invitations[i].role]
      BY <1>2, <3>1, <3>2, RosterAfter
    <3> QED  BY <1>2, <3>3, <3>4
  <2>2. CASE RejoinCommit(r)
    <3>1. members' = members /\ IsMember(w, u)
      BY <1>0, <2>2 DEF RejoinCommit, ReadsAreFresh, ReadIsFresh
    <3>2. get_member_role(w, u) # None
      BY <1>2, <3>1 DEF IInv, TypeOK, get_member_role
    <3> QED  BY <1>2, <3>1, <3>2, RosterStands
  <2> QED  BY <2>1, <2>2
<1>6. Roster!Join(i)
  <2>1. /\ OfferOf(i).ws = w /\ OfferOf(i).user = u
        /\ OfferOf(i).role = invitations[i].role
    BY <1>2
  <2>2. [j \in Invitations |-> OfferOf(j)][i] = OfferOf(i)
    BY <1>2
  <2> QED  BY <1>2, <1>3, <1>4, <1>5, <2>1, <2>2 DEF Roster!Join
<1> QED  BY <1>2, <1>6 DEF Roster!Next, Invitations

(* What a handler is about to write to the row it read.                    *)
LEMMA DecidedOnTheRowRead ==
  ASSUME IInv, ReadsAreFresh, NEW r \in Requests,
         ChangeCommit(r) \/ RemoveCommit(r),
         NEW a, NEW w, NEW u,
         a = req[r].actor, w = req[r].ws, u = req[r].target
  PROVE  /\ a \in Users /\ w \in Workspaces /\ u \in Users
         /\ Roster!Decides(a, w) /\ RowStands(r)
         /\ IsMember(w, u) /\ get_member_role(w, u) # None
         /\ UNCHANGED <<owner, invitations, nInvitations>>
<1>1. /\ w \in Workspaces /\ a \in managers[w] /\ u \in Users
      /\ req[r].row \in 1..nMembers /\ CanManage(w, a) /\ RowStands(r)
      /\ UNCHANGED <<owner, invitations, nInvitations>>
  BY DEF IInv, HandlersOK, HandlerOK, ReadsAreFresh, ReadIsFresh,
     ChangeCommit, RemoveCommit
<1>2. a \in Users /\ nMembers \in Nat
  BY <1>1, Fields DEF IInv
<1>3. Roster!Decides(a, w)
  BY <1>1, <1>2, SameRbac DEF CanManage, get_member_role, Roster!Decides
<1>4. IsMember(w, u)
  BY <1>1, <1>2 DEF RowStands, IsMember
<1>5. get_member_role(w, u) # None
  BY <1>1, <1>4 DEF IInv, TypeOK, get_member_role
<1> QED  BY <1>1, <1>2, <1>3, <1>4, <1>5

(* A role is set by somebody who decides.  About:
   workspace_service.py:154-177.                                           *)
LEMMA ChangeSetsRole ==
  ASSUME IInv, ReadsAreFresh, NEW r \in Requests, ChangeCommit(r)
  PROVE  Roster!Next
<1>0. PICK a, w, u : a = req[r].actor /\ w = req[r].ws /\ u = req[r].target
  OBVIOUS
<1>1. /\ a \in Users /\ w \in Workspaces /\ u \in Users
      /\ Roster!Decides(a, w) /\ get_member_role(w, u) # None
      /\ UNCHANGED <<owner, invitations, nInvitations>>
  BY <1>0, DecidedOnTheRowRead
<1>2. PICK role : role = req[r].role
  OBVIOUS
<1>3. role \in WorkspaceRole
  BY <1>2 DEF IInv, HandlersOK, HandlerOK, ChangeCommit
<1>4. PICK row : row = [members[w][u] EXCEPT !.role = role]
  OBVIOUS
<1>5. row \in Member /\ row.role = role
  BY <1>1, <1>3, <1>4, Fields DEF IInv, Member
<1>6. members' = [members EXCEPT ![w][u] = row]
  BY <1>0, <1>2, <1>4 DEF ChangeCommit, SetMember
<1>7. [v \in Workspaces |-> [t \in Users |-> get_member_role(v, t)]]'
        = [[v \in Workspaces |-> [t \in Users |-> get_member_role(v, t)]]
             EXCEPT ![w][u] = role]
  BY <1>1, <1>5, <1>6, RosterAfter
<1>8. Roster!SetRole(a, w, u, role)
  BY <1>1, <1>7, OffersStand DEF Roster!SetRole
<1> QED  BY <1>1, <1>3, <1>8, SameRbac DEF Roster!Next

(* A member who is no owner is removed by somebody who decides.  About:
   workspace_service.py:180-201.                                           *)
LEMMA RemovalRemoves ==
  ASSUME IInv, ReadsAreFresh, NEW r \in Requests, RemoveCommit(r)
  PROVE  Roster!Next
<1>0. PICK a, w, u : a = req[r].actor /\ w = req[r].ws /\ u = req[r].target
  OBVIOUS
<1>1. /\ a \in Users /\ w \in Workspaces /\ u \in Users
      /\ Roster!Decides(a, w) /\ RowStands(r)
      /\ UNCHANGED <<owner, invitations, nInvitations>>
  BY <1>0, DecidedOnTheRowRead
<1>2. get_member_role(w, u) # "owner"
  BY <1>0 DEF ReadsAreFresh, ReadIsFresh, RemoveCommit
<1>3. members' = [members EXCEPT ![w][u] = NoMember]
  BY <1>0, <1>1 DEF RemoveCommit
<1>4. [v \in Workspaces |-> [t \in Users |-> get_member_role(v, t)]]'
        = [[v \in Workspaces |-> [t \in Users |-> get_member_role(v, t)]]
             EXCEPT ![w][u] = None]
  BY <1>1, <1>3, RecordsTyped, RosterAfter
<1>5. Roster!Remove(a, w, u)
  BY <1>1, <1>2, <1>4, OffersStand DEF Roster!Remove
<1> QED  BY <1>1, <1>5 DEF Roster!Next

(* Every step implements a step of WorkspaceRoster or a stutter.           *)
LEMMA StepImplementsRoster ==
  IInv /\ SerialInv /\ [Next]_vars => [Roster!Next]_(Roster!vars)
<1> SUFFICES ASSUME IInv, SerialInv, [Next]_vars
             PROVE  [Roster!Next]_(Roster!vars)
  OBVIOUS
<1>0. ReadsAreFresh
  BY DEF SerialInv
<1>1. ASSUME NEW r \in Requests,
             \/ \E u \in Users, w \in Workspaces : CreateWorkspace(r, u, w)
             \/ \E e \in Users, role \in PayloadRoles :
                   InviteCommit(r, e, role)
             \/ ExpireCommit(r) \/ JoinCommit(r) \/ RejoinCommit(r)
             \/ ChangeCommit(r) \/ RemoveCommit(r)
      PROVE  Roster!Next
  BY <1>0, <1>1, CreationFounds, InvitationOffers, ExpiryLapses,
     AcceptanceJoins, ChangeSetsRole, RemovalRemoves
<1>2. ASSUME UNCHANGED <<owner, members, invitations, nInvitations>>
      PROVE  UNCHANGED Roster!vars
  BY <1>2, RosterStands, OffersStand DEF Roster!vars
<1>3. \/ UNCHANGED <<owner, members, invitations, nInvitations>>
      \/ \E r \in Requests :
            \/ \E u \in Users, w \in Workspaces : CreateWorkspace(r, u, w)
            \/ \E e \in Users, role \in PayloadRoles :
                  InviteCommit(r, e, role)
            \/ ExpireCommit(r) \/ JoinCommit(r) \/ RejoinCommit(r)
            \/ ChangeCommit(r) \/ RemoveCommit(r)
  BY DEF Next, vars, db, Arrive, Continue, Crash, Tick, Authorize,
     AcceptRead, ChangeRead, RemoveRead, Refuse, SendInvitation,
     AcceptLookup, JoinConflict, ChangeStale
<1> QED  BY <1>1, <1>2, <1>3

(* At the start there is no workspace and no offer.                        *)
LEMMA InitImplementsRoster == Init => Roster!Init
  BY DEF Init, Roster!Init, Roster!NoOffer, OfferOf, NoMember, NoInvitation,
     get_member_role, Invitations

(* While requests do not overlap the tables implement WorkspaceRoster: who
   manages members decides at the moment of the change, an offer is used at
   most once and alters no role, an owner is not removed.  About: the
   service functions of workspace_service.py behind require_permission.    *)
THEOREM SerialRequestsImplement ==
  Spec /\ []NoOverlap => ImplementsWorkspaceRoster
  BY InitImplementsRoster, StepImplementsRoster, InductiveInvariant,
     SerialInvariant, PTL DEF Spec, Roster!Spec, ImplementsWorkspaceRoster
=============================================================================
