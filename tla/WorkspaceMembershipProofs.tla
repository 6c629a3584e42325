---------------------- MODULE WorkspaceMembershipProofs ----------------------
(***************************************************************************)
(* The safety properties of WorkspaceMembership, for every set of users,   *)
(* workspaces and request slots and for all bounds.                        *)
(***************************************************************************)
EXTENDS WorkspaceMembership, TLAPS

-----------------------------------------------------------------------------
(* The inductive invariant.                                                *)

(* An invitation that exists is one of a user into a workspace, by somebody
   who could manage its members.                                           *)
InvitationsOK ==
    \A i \in 1..nInvitations :
        /\ invitations[i].ws \in Workspaces
        /\ invitations[i].email \in Users
        /\ invitations[i].role \in WorkspaceRole
        /\ invitations[i].invited_by \in managers[invitations[i].ws]

(* Who can manage members is on record, and only in workspaces that exist. *)
ManagersNoted ==
    \A w \in Workspaces :
        /\ \A u \in Users : CanManage(w, u) => u \in managers[w]
        /\ managers[w] # {} => owner[w] # None

(* What a suspended handler holds: it was authorized as a manager, the row
   it read is one of those inserted so far, and an acceptance is of the
   workspace and by the user its invitation names.                         *)
HandlerOK(r) ==
    /\ req[r].pc \in {"authorized", "change", "remove", "mail"} =>
          req[r].ws \in Workspaces /\ req[r].actor \in managers[req[r].ws]
    /\ req[r].pc \in {"change", "remove"} =>
          req[r].target \in Users /\ req[r].row \in 1..nMembers
    /\ req[r].pc = "change" => req[r].role \in WorkspaceRole
    /\ req[r].pc \in {"mail", "accept", "expire", "join", "rejoin"} =>
          req[r].row \in 1..nInvitations
    /\ req[r].pc \in {"accept", "join", "rejoin"} =>
          /\ req[r].ws = invitations[req[r].row].ws
          /\ req[r].target = invitations[req[r].row].email

HandlersOK == \A r \in Requests : HandlerOK(r)

IInv ==
    /\ TypeOK
    /\ InvitationsOK
    /\ ManagersNoted
    /\ HandlersOK
    /\ MembersAreInvited

-----------------------------------------------------------------------------
(* Where a membership row comes from.  MembersAreInvited says it of all.   *)
Invited(w, u) ==
    LET m == members[w][u] IN
    \/ m.invited_by = None /\ u = owner[w]
    \/ \E i \in 1..nInvitations :
          /\ invitations[i].ws = w
          /\ invitations[i].email = u
          /\ invitations[i].accepted
          /\ invitations[i].invited_by = m.invited_by
          /\ m.invited_by \in managers[w]

(* What a step leaves of what is there: rows and managers are added, a
   workspace keeps its creator, an invitation what it says.                *)
OnlyGrows ==
    /\ nMembers' \in Nat /\ nMembers <= nMembers'
    /\ nInvitations' \in Nat /\ nInvitations <= nInvitations'
    /\ \A w \in Workspaces : /\ managers[w] \subseteq managers'[w]
                             /\ owner[w] # None => owner'[w] = owner[w]
    /\ \A i \in 1..nInvitations :
          /\ invitations'[i].ws = invitations[i].ws
          /\ invitations'[i].email = invitations[i].email
          /\ invitations'[i].role = invitations[i].role
          /\ invitations'[i].invited_by = invitations[i].invited_by
          /\ invitations[i].accepted => invitations'[i].accepted

(* The ids of rows, as TypeOK states them.                                 *)
IdsOK ==
    /\ \A w \in Workspaces, u \in Users :
          /\ members[w][u].id <= nMembers
          /\ IsMember(w, u) <=> members[w][u].role # None
    /\ \A w, v \in Workspaces, t, u \in Users :
          members[w][t].id = members[v][u].id /\ IsMember(w, t)
              => w = v /\ t = u

-----------------------------------------------------------------------------
(* Lemmas on the operators of the model.                                   *)

(* The facts of TypeOK in the form the proofs use.                         *)
LEMMA Fields ==
  ASSUME TypeOK
  PROVE  /\ \A w \in Workspaces, u \in Users : members[w][u] \in Member
         /\ \A i \in Invitations : invitations[i] \in Invitation
         /\ \A r \in Requests : req[r] \in Request
         /\ \A w \in Workspaces : managers[w] \subseteq Users
         /\ nMembers \in Nat /\ nInvitations \in Nat
         /\ 1..nInvitations \subseteq Invitations
         /\ mailed \subseteq 1..nInvitations
         /\ IdsOK
  BY ConstantsAssumption DEF TypeOK, Invitations, IdsOK

(* The slot of the handler that moves takes its new record, no other slot
   changes.                                                                *)
LEMMA BecomeOnly ==
  ASSUME TypeOK, NEW r \in Requests, NEW h \in Request, Become(r, h)
  PROVE  /\ req' \in [Requests -> Request]
         /\ req'[r] = h
         /\ \A s \in Requests : s # r => req'[s] = req[s]
  BY DEF TypeOK, Become

(* The empty slot and the empty rows are typed.                            *)
LEMMA RecordsTyped ==
  /\ Idle \in Request /\ Idle.pc = "idle"
  /\ NoMember \in Member /\ NoMember.id = 0 /\ NoMember.role = None
  /\ NoInvitation \in Invitation
  BY ConstantsAssumption DEF Idle, Request, Stages, NoMember, Member,
     NoInvitation, Invitation

(* Whoever has the permission has a role, so a membership row.             *)
LEMMA ManagersHaveRoles ==
  ASSUME NEW role, role_has_permission(role, "manage_members")
  PROVE  role # None
  BY ConstantsAssumption DEF role_has_permission

(* Writing one row of the table writes no other.                           *)
LEMMA OneRow ==
  ASSUME NEW M \in [Workspaces -> [Users -> Member]],
         NEW w \in Workspaces, NEW u \in Users, NEW row \in Member,
         NEW N, N = [M EXCEPT ![w][u] = row]
  PROVE  /\ N \in [Workspaces -> [Users -> Member]]
         /\ N[w][u] = row
         /\ \A v \in Workspaces, t \in Users :
               v # w \/ t # u => N[v][t] = M[v][t]
  OBVIOUS

(* A row is written, and the user noted if the role is a manager's.        *)
LEMMA SetMemberRows ==
  ASSUME TypeOK, ManagersNoted, NEW w \in Workspaces, NEW u \in Users,
         NEW row \in Member, SetMember(w, u, row)
  PROVE  /\ members' \in [Workspaces -> [Users -> Member]]
         /\ members'[w][u] = row
         /\ \A v \in Workspaces, t \in Users :
               v # w \/ t # u => members'[v][t] = members[v][t]
         /\ managers' \in [Workspaces -> SUBSET Users]
         /\ \A v \in Workspaces : managers[v] \subseteq managers'[v]
         /\ \A v \in Workspaces : v # w => managers'[v] = managers[v]
         /\ \A v \in Workspaces, t \in Users :
               CanManage(v, t)' => t \in managers'[v]
<1>1. members' = [members EXCEPT ![w][u] = row]
  BY DEF SetMember
<1>2. members \in [Workspaces -> [Users -> Member]]
  BY DEF TypeOK
<1>3. /\ members' \in [Workspaces -> [Users -> Member]]
      /\ members'[w][u] = row
      /\ \A v \in Workspaces, t \in Users :
            v # w \/ t # u => members'[v][t] = members[v][t]
  BY <1>1, <1>2, OneRow
<1>4. /\ managers' \in [Workspaces -> SUBSET Users]
      /\ \A v \in Workspaces : managers[v] \subseteq managers'[v]
      /\ \A v \in Workspaces : v # w => managers'[v] = managers[v]
      /\ role_has_permission(row.role, "manage_members") => u \in managers'[w]
  BY DEF SetMember, TypeOK
<1>5. ASSUME NEW v \in Workspaces, NEW t \in Users, CanManage(v, t)'
      PROVE  t \in managers'[v]
  <2>1. role_has_permission(members'[v][t].role, "manage_members")
    BY <1>5 DEF CanManage, get_member_role
  <2>2. CASE v = w /\ t = u
    BY <1>3, <1>4, <2>1, <2>2
  <2>3. CASE v # w \/ t # u
    <3>1. members'[v][t] = members[v][t]
      BY <1>3, <2>3
    <3>2. CanManage(v, t)
      BY <2>1, <3>1 DEF CanManage, get_member_role
    <3> QED  BY <1>4, <3>2 DEF ManagersNoted
  <2> QED  BY <2>2, <2>3
<1> QED  BY <1>3, <1>4, <1>5

(* An acceptance marks one invitation and changes nothing it says.         *)
LEMMA AcceptedRows ==
  ASSUME TypeOK, NEW i \in 1..nInvitations, invitations' = Accepted(i)
  PROVE  /\ invitations' \in [Invitations -> Invitation]
         /\ invitations'[i].accepted
         /\ \A j \in Invitations :
               /\ invitations'[j].ws = invitations[j].ws
               /\ invitations'[j].email = invitations[j].email
               /\ invitations'[j].role = invitations[j].role
               /\ invitations'[j].invited_by = invitations[j].invited_by
               /\ invitations[j].accepted => invitations'[j].accepted
<1> DEFINE inv == [invitations[i] EXCEPT !.status = "accepted",
                                         !.accepted = TRUE]
<1> USE Fields
<1>1. i \in Invitations /\ invitations[i] \in Invitation
  OBVIOUS
<1>2. /\ inv \in Invitation /\ inv.ws = invitations[i].ws
      /\ inv.email = invitations[i].email /\ inv.role = invitations[i].role
      /\ inv.invited_by = invitations[i].invited_by
  BY <1>1 DEF Invitation
<1>3. inv.accepted
  BY <1>1 DEF Invitation
<1>4. invitations' = [invitations EXCEPT ![i] = inv]
  BY <1>1 DEF Accepted, TypeOK
<1> HIDE DEF inv
<1>5. /\ invitations' \in [Invitations -> Invitation]
      /\ invitations'[i] = inv
      /\ \A j \in Invitations : j # i => invitations'[j] = invitations[j]
  BY <1>1, <1>2, <1>4 DEF TypeOK
<1> QED  BY <1>2, <1>3, <1>5

-----------------------------------------------------------------------------
(* What stands while another handler moves.                                *)

(* A handler that does not move still holds what it held, as tables only
   grow.                                                                   *)
LEMMA StandingHandler ==
  ASSUME IInv, OnlyGrows, NEW s \in Requests, req'[s] = req[s]
  PROVE  HandlerOK(s)'
<1> USE Fields DEF IInv
<1>1. HandlerOK(s)
  BY DEF HandlersOK
<1>2. /\ req[s].row \in 1..nMembers => req[s].row \in 1..nMembers'
      /\ req[s].row \in 1..nInvitations => req[s].row \in 1..nInvitations'
  BY DEF OnlyGrows
<1>3. req[s].row \in 1..nInvitations =>
         /\ invitations'[req[s].row].ws = invitations[req[s].row].ws
         /\ invitations'[req[s].row].email = invitations[req[s].row].email
  BY DEF OnlyGrows
<1>4. req[s].ws \in Workspaces =>
         managers[req[s].ws] \subseteq managers'[req[s].ws]
  BY DEF OnlyGrows
<1> QED  BY <1>1, <1>2, <1>3, <1>4 DEF HandlerOK

(* A row that keeps its id and its inviter has come from where it came.    *)
LEMMA StandingMember ==
  ASSUME IInv, OnlyGrows, NEW w \in Workspaces, NEW u \in Users,
         IsMember(w, u), members'[w][u].invited_by = members[w][u].invited_by
  PROVE  Invited(w, u)'
<1> DEFINE by == members[w][u].invited_by
<1> USE Fields DEF IInv
<1>1. Invited(w, u)
  BY DEF MembersAreInvited, Invited
<1>2. CASE by = None /\ u = owner[w]
  <2>1. owner[w] # None
    BY <1>2, ConstantsAssumption
  <2> QED  BY <1>2, <2>1 DEF OnlyGrows, Invited
<1>3. CASE \E i \in 1..nInvitations :
              /\ invitations[i].ws = w
              /\ invitations[i].email = u
              /\ invitations[i].accepted
              /\ invitations[i].invited_by = by
              /\ by \in managers[w]
  <2>1. PICK i \in 1..nInvitations :
              /\ invitations[i].ws = w
              /\ invitations[i].email = u
              /\ invitations[i].accepted
              /\ invitations[i].invited_by = by
              /\ by \in managers[w]
    BY <1>3
  <2>2. i \in 1..nInvitations'
    BY DEF OnlyGrows
  <2> QED  BY <2>1, <2>2 DEF OnlyGrows, Invited
<1> QED  BY <1>1, <1>2, <1>3 DEF Invited

(* The invitations that exist stay well-formed.                            *)
LEMMA StandingInvitations ==
  ASSUME IInv, OnlyGrows, NEW i \in 1..nInvitations
  PROVE  /\ invitations'[i].ws \in Workspaces
         /\ invitations'[i].email \in Users
         /\ invitations'[i].role \in WorkspaceRole
         /\ invitations'[i].invited_by \in managers'[invitations'[i].ws]
  BY DEF IInv, InvitationsOK, OnlyGrows

(* A step that touches none of the tables only grows them.                 *)
LEMMA TablesStand ==
  ASSUME TypeOK, UNCHANGED db
  PROVE  OnlyGrows
  BY Fields DEF db, OnlyGrows

(* A step that moves one handler and no table.                             *)
LEMMA HandlerMoves ==
  ASSUME IInv, UNCHANGED <<db, now, mailed>>,
         NEW r \in Requests, NEW h \in Request, Become(r, h), HandlerOK(r)'
  PROVE  IInv'
<1> USE DEF IInv
<1>1. /\ req' \in [Requests -> Request] /\ req'[r] = h
      /\ \A s \in Requests : s # r => req'[s] = req[s]
  BY BecomeOnly
<1>2. UNCHANGED <<owner, members, nMembers, invitations, nInvitations,
                  managers, now, mailed>>
  BY DEF db
<1>3. OnlyGrows
  BY TablesStand
<1>4. TypeOK'
  BY <1>1, <1>2 DEF TypeOK, IsMember
<1>5. InvitationsOK' /\ ManagersNoted' /\ MembersAreInvited'
  BY <1>2 DEF InvitationsOK, ManagersNoted, MembersAreInvited, CanManage,
     get_member_role, IsMember
<1>6. HandlersOK'
  BY <1>1, <1>3, StandingHandler DEF HandlersOK
<1> QED  BY <1>4, <1>5, <1>6

(* A handler that ends and has written nothing.                            *)
LEMMA HandlerEnds ==
  ASSUME IInv, UNCHANGED <<db, now, mailed>>, NEW r \in Requests, Finish(r)
  PROVE  IInv'
<1>1. HandlerOK(r)'
  BY RecordsTyped, BecomeOnly DEF HandlerOK, IInv, Finish
<1> QED  BY <1>1, RecordsTyped, HandlerMoves DEF Finish

(* A step that ends a handler, keeps the membership table and only grows
   the others.                                                             *)
LEMMA MembersStand ==
  ASSUME IInv, OnlyGrows, NEW r \in Requests, NEW h \in Request,
         Become(r, h), HandlerOK(r)',
         UNCHANGED <<owner, members, nMembers, managers, now>>,
         invitations' \in [Invitations -> Invitation],
         nInvitations' \in 0..MaxInvitations,
         mailed' \subseteq 1..nInvitations',
         InvitationsOK'
  PROVE  IInv'
<1> USE DEF IInv
<1>1. /\ req' \in [Requests -> Request]
      /\ \A s \in Requests : s # r => req'[s] = req[s]
  BY BecomeOnly
<1>2. TypeOK'
  BY <1>1 DEF TypeOK, IsMember
<1>3. ManagersNoted'
  BY DEF ManagersNoted, CanManage, get_member_role
<1>4. MembersAreInvited'
  BY StandingMember DEF MembersAreInvited, Invited, IsMember
<1>5. HandlersOK'
  BY <1>1, StandingHandler DEF HandlersOK
<1> QED  BY <1>2, <1>3, <1>4, <1>5

-----------------------------------------------------------------------------
(* One lemma per action: the step keeps the inductive invariant.           *)

(* require_permission reads the role of the caller.                        *)
LEMMA StepAuthorize ==
  ASSUME IInv, NEW r \in Requests, NEW u \in Users, NEW w \in Workspaces,
         Authorize(r, u, w)
  PROVE  IInv'
<1> DEFINE h == [Idle EXCEPT !.pc = "authorized", !.actor = u, !.ws = w]
<1>1. /\ h \in Request /\ h.pc = "authorized" /\ h.actor = u /\ h.ws = w
  BY RecordsTyped DEF Idle, Request, Stages
<1> HIDE DEF h
<1>2. Become(r, h) /\ UNCHANGED <<db, now, mailed>> /\ CanManage(w, u)
  BY DEF Authorize, h
<1>3. u \in managers'[w]
  BY <1>2 DEF IInv, ManagersNoted, db
<1>4. HandlerOK(r)'
  BY <1>1, <1>2, <1>3, BecomeOnly DEF HandlerOK, IInv
<1> QED  BY <1>1, <1>2, <1>4, HandlerMoves

(* accept_invitation reads the invitation of the token.                    *)
LEMMA StepAcceptRead ==
  ASSUME IInv, NEW r \in Requests, NEW u \in Users, NEW i \in mailed,
         AcceptRead(r, u, i)
  PROVE  IInv'
<1> DEFINE inv == invitations[i]
           e == [Idle EXCEPT !.pc = "expire", !.row = i]
           a == [Idle EXCEPT !.pc = "accept", !.ws = inv.ws,
                             !.target = u, !.row = i]
<1> USE Fields DEF IInv
<1>1. /\ i \in 1..nInvitations /\ i \in Nat
      /\ inv.ws \in Workspaces /\ UNCHANGED <<db, now, mailed>>
  BY DEF AcceptRead, InvitationsOK
<1>2. CASE Become(r, e)
  <2>1. e \in Request /\ e.pc = "expire" /\ e.row = i
    BY <1>1, RecordsTyped DEF Idle, Request, Stages
  <2> HIDE DEF e
  <2>2. HandlerOK(r)'
    BY <1>1, <1>2, <2>1, BecomeOnly DEF HandlerOK, db
  <2> QED  BY <1>1, <1>2, <2>1, <2>2, HandlerMoves
<1>3. CASE Become(r, a) /\ inv.email = u
  <2>1. a \in Request /\ a.pc = "accept" /\ a.ws = inv.ws
        /\ a.target = u /\ a.row = i
    BY <1>1, RecordsTyped DEF Idle, Request, Stages
  <2> HIDE DEF a
  <2>2. HandlerOK(r)'
    BY <1>1, <1>3, <2>1, BecomeOnly DEF HandlerOK, db
  <2> QED  BY <1>1, <1>3, <2>1, <2>2, HandlerMoves
<1> QED  BY <1>2, <1>3 DEF AcceptRead

(* accept_invitation looks the membership of the caller up.                *)
LEMMA StepAcceptLookup ==
  ASSUME IInv, NEW r \in Requests, AcceptLookup(r)
  PROVE  IInv'
<1> DEFINE p == IF IsMember(req[r].ws, req[r].target) THEN "rejoin" ELSE "join"
           h == [req[r] EXCEPT !.pc = p]
<1> USE Fields DEF IInv
<1>1. p \in {"join", "rejoin"} /\ HandlerOK(r) /\ req[r].pc = "accept"
  BY DEF HandlersOK, AcceptLookup
<1>2. Become(r, h) /\ UNCHANGED <<db, now, mailed>>
  BY DEF AcceptLookup
<1> HIDE DEF p
<1>3. /\ h \in Request /\ h.pc = p /\ h.ws = req[r].ws
      /\ h.target = req[r].target /\ h.row = req[r].row
  BY <1>1 DEF Request, Stages
<1> HIDE DEF h
<1>4. HandlerOK(r)'
  BY <1>1, <1>2, <1>3, BecomeOnly DEF HandlerOK, db
<1> QED  BY <1>2, <1>3, <1>4, HandlerMoves

(* change_member_role reads the row of its target.                         *)
LEMMA StepChangeRead ==
  ASSUME IInv, NEW r \in Requests, NEW u \in Users, NEW role \in PayloadRoles,
         ChangeRead(r, u, role)
  PROVE  IInv'
<1> DEFINE id == members[req[r].ws][u].id
           h == [req[r] EXCEPT !.pc = "change", !.target = u, !.role = role,
                               !.row = id]
<1> USE Fields DEF IInv
<1>1. /\ HandlerOK(r) /\ req[r].pc = "authorized" /\ role \in WorkspaceRole
      /\ req[r].ws \in Workspaces /\ IsMember(req[r].ws, u)
      /\ Become(r, h) /\ UNCHANGED <<db, now, mailed>>
  BY ConstantsAssumption DEF HandlersOK, HandlerOK, ChangeRead
<1>2. id \in 1..nMembers /\ id \in Nat
  BY <1>1 DEF IsMember, IdsOK, Member
<1> HIDE DEF id
<1>3. /\ h \in Request /\ h.pc = "change" /\ h.target = u /\ h.role = role
      /\ h.row = id /\ h.ws = req[r].ws /\ h.actor = req[r].actor
  BY <1>1, <1>2 DEF Request, Stages
<1> HIDE DEF h
<1>4. HandlerOK(r)'
  BY <1>1, <1>2, <1>3, BecomeOnly DEF HandlerOK, db
<1> QED  BY <1>1, <1>3, <1>4, HandlerMoves

(* remove_member reads the row of its target.                              *)
LEMMA StepRemoveRead ==
  ASSUME IInv, NEW r \in Requests, NEW u \in Users, RemoveRead(r, u)
  PROVE  IInv'
<1> DEFINE id == members[req[r].ws][u].id
           h == [req[r] EXCEPT !.pc = "remove", !.target = u, !.row = id]
<1> USE Fields DEF IInv
<1>1. /\ HandlerOK(r) /\ req[r].pc = "authorized"
      /\ req[r].ws \in Workspaces /\ IsMember(req[r].ws, u)
      /\ Become(r, h) /\ UNCHANGED <<db, now, mailed>>
  BY DEF HandlersOK, HandlerOK, RemoveRead
<1>2. id \in 1..nMembers /\ id \in Nat
  BY <1>1 DEF IsMember, IdsOK, Member
<1> HIDE DEF id
<1>3. /\ h \in Request /\ h.pc = "remove" /\ h.target = u
      /\ h.row = id /\ h.ws = req[r].ws /\ h.actor = req[r].actor
  BY <1>1, <1>2 DEF Request, Stages
<1> HIDE DEF h
<1>4. HandlerOK(r)'
  BY <1>1, <1>2, <1>3, BecomeOnly DEF HandlerOK, db
<1> QED  BY <1>1, <1>3, <1>4, HandlerMoves

(* An invitation is inserted, by a manager that is on record.              *)
LEMMA StepInviteCommit ==
  ASSUME IInv, NEW r \in Requests, NEW e \in Users, NEW role \in PayloadRoles,
         InviteCommit(r, e, role)
  PROVE  IInv'
<1> DEFINE n == nInvitations + 1
           inv == [ws |-> req[r].ws, email |-> e, role |-> role,
                   invited_by |-> req[r].actor,
                   expires_at |-> now + InvitationTTL,
                   status |-> "pending", accepted |-> FALSE]
           h == [req[r] EXCEPT !.pc = "mail", !.row = n]
<1> USE Fields DEF IInv
<1>1. /\ HandlerOK(r) /\ req[r].pc = "authorized" /\ role \in WorkspaceRole
      /\ req[r].ws \in Workspaces /\ req[r].actor \in managers[req[r].ws]
      /\ req[r].actor \in Users
      /\ Become(r, h) /\ nInvitations' = n
      /\ invitations' = [invitations EXCEPT ![n] = inv]
      /\ UNCHANGED <<owner, members, nMembers, managers, now, mailed>>
  BY ConstantsAssumption DEF HandlersOK, HandlerOK, InviteCommit
<1>2. /\ n \in Invitations /\ n \in 0..MaxInvitations
      /\ n \notin 1..nInvitations
      /\ 1..n = 1..nInvitations \cup {n} /\ n \in Nat /\ nInvitations <= n
  BY ConstantsAssumption DEF InviteCommit, Invitations, TypeOK
<1>3. inv \in Invitation
  BY <1>1, ConstantsAssumption DEF Invitation, TypeOK
<1>4. /\ h \in Request /\ h.pc = "mail" /\ h.row = n
      /\ h.ws = req[r].ws /\ h.actor = req[r].actor
  BY <1>1, <1>2 DEF Request, Stages
<1>5. /\ inv.ws = req[r].ws /\ inv.email = e /\ inv.role = role
      /\ inv.invited_by = req[r].actor
  OBVIOUS
<1> HIDE DEF n, inv, h
<1>6. /\ invitations' \in [Invitations -> Invitation] /\ invitations'[n] = inv
      /\ \A i \in 1..nInvitations : invitations'[i] = invitations[i]
  BY <1>1, <1>2, <1>3 DEF TypeOK
<1>7. OnlyGrows
  BY <1>1, <1>2, <1>6 DEF OnlyGrows
<1>8. HandlerOK(r)'
  BY <1>1, <1>2, <1>4, BecomeOnly DEF HandlerOK
<1>9. InvitationsOK'
  BY <1>1, <1>2, <1>5, <1>6, <1>7, StandingInvitations DEF InvitationsOK
<1>10. mailed' \subseteq 1..nInvitations'
  BY <1>1, <1>2
<1> QED  BY <1>1, <1>2, <1>4, <1>6, <1>7, <1>8, <1>9, <1>10, MembersStand

(* The mail carries the token of an invitation that is committed.          *)
LEMMA StepSendInvitation ==
  ASSUME IInv, NEW r \in Requests, SendInvitation(r)
  PROVE  IInv'
<1> USE Fields DEF IInv
<1>1. /\ Become(r, Idle) /\ UNCHANGED <<db, now>>
      /\ mailed' = mailed \cup {req[r].row} /\ req[r].row \in 1..nInvitations
  BY DEF SendInvitation, Finish, HandlersOK, HandlerOK
<1>2. OnlyGrows
  BY <1>1, TablesStand
<1>3. HandlerOK(r)'
  BY <1>1, RecordsTyped, BecomeOnly DEF HandlerOK
<1>4. /\ InvitationsOK' /\ mailed' \subseteq 1..nInvitations'
      /\ invitations' \in [Invitations -> Invitation]
      /\ nInvitations' \in 0..MaxInvitations
      /\ UNCHANGED <<owner, members, nMembers, managers, now>>
  BY <1>1 DEF db, InvitationsOK, TypeOK
<1> QED  BY <1>1, <1>2, <1>3, <1>4, RecordsTyped, MembersStand

(* An invitation is marked as expired and says what it said.               *)
LEMMA StepExpireCommit ==
  ASSUME IInv, NEW r \in Requests, ExpireCommit(r)
  PROVE  IInv'
<1> DEFINE i == req[r].row
           inv == [invitations[i] EXCEPT !.status = "expired"]
<1> USE Fields DEF IInv
<1>1. /\ Become(r, Idle) /\ i \in 1..nInvitations /\ i \in Invitations
      /\ invitations' = [invitations EXCEPT ![i] = inv]
      /\ UNCHANGED <<owner, members, nMembers, nInvitations, managers,
                     now, mailed>>
  BY DEF ExpireCommit, Finish, HandlersOK, HandlerOK
<1>2. /\ inv \in Invitation /\ inv.ws = invitations[i].ws
      /\ inv.email = invitations[i].email /\ inv.role = invitations[i].role
      /\ inv.invited_by = invitations[i].invited_by
      /\ inv.accepted = invitations[i].accepted
  BY <1>1 DEF Invitation
<1> HIDE DEF i, inv
<1>3. /\ invitations' \in [Invitations -> Invitation] /\ invitations'[i] = inv
      /\ \A j \in Invitations : j # i => invitations'[j] = invitations[j]
  BY <1>1, <1>2 DEF TypeOK
<1>4. OnlyGrows
  BY <1>1, <1>2, <1>3 DEF OnlyGrows
<1>5. HandlerOK(r)'
  BY <1>1, RecordsTyped, BecomeOnly DEF HandlerOK
<1>6. InvitationsOK'
  BY <1>1, <1>4, StandingInvitations DEF InvitationsOK
<1>7. nInvitations' \in 0..MaxInvitations /\ mailed' \subseteq 1..nInvitations'
  BY <1>1 DEF TypeOK
<1> QED  BY <1>1, <1>3, <1>4, <1>5, <1>6, <1>7, RecordsTyped, MembersStand

(* An invitation is marked as accepted, the membership stays.              *)
LEMMA StepRejoinCommit ==
  ASSUME IInv, NEW r \in Requests, RejoinCommit(r)
  PROVE  IInv'
<1> DEFINE i == req[r].row
<1> USE Fields DEF IInv
<1>1. /\ Become(r, Idle) /\ i \in 1..nInvitations
      /\ invitations' = Accepted(i)
      /\ UNCHANGED <<owner, members, nMembers, nInvitations, managers,
                     now, mailed>>
  BY DEF RejoinCommit, Finish, HandlersOK, HandlerOK
<1> HIDE DEF i
<1>2. OnlyGrows /\ invitations' \in [Invitations -> Invitation]
  BY <1>1, AcceptedRows DEF OnlyGrows
<1>3. HandlerOK(r)'
  BY <1>1, RecordsTyped, BecomeOnly DEF HandlerOK
<1>4. InvitationsOK'
  BY <1>1, <1>2, StandingInvitations DEF InvitationsOK
<1>5. nInvitations' \in 0..MaxInvitations /\ mailed' \subseteq 1..nInvitations'
  BY <1>1 DEF TypeOK
<1> QED  BY <1>1, <1>2, <1>3, <1>4, <1>5, RecordsTyped, MembersStand

-----------------------------------------------------------------------------
(* The steps that write a membership row.                                  *)

(* A row with a fresh id.  About: the INSERT of create_workspace and of
   accept_invitation.                                                      *)
LEMMA FreshId ==
  ASSUME TypeOK, NEW w \in Workspaces, NEW u \in Users,
         members' \in [Workspaces -> [Users -> Member]],
         members'[w][u].id = nMembers + 1, members'[w][u].role # None,
         nMembers' = nMembers + 1,
         \A v \in Workspaces, t \in Users :
            v # w \/ t # u => members'[v][t] = members[v][t]
  PROVE  IdsOK'
<1> USE Fields
<1>1. \A v \in Workspaces, t \in Users : members[v][t].id \in Nat
  BY DEF Member
<1>2. ASSUME NEW v \in Workspaces, NEW t \in Users
      PROVE  /\ members'[v][t].id <= nMembers'
             /\ IsMember(v, t)' <=> members'[v][t].role # None
  <2>1. CASE v = w /\ t = u
    BY <2>1 DEF IsMember
  <2>2. CASE v # w \/ t # u
    BY <1>1, <2>2 DEF IsMember, IdsOK
  <2> QED  BY <2>1, <2>2
<1>3. ASSUME NEW v \in Workspaces, NEW x \in Workspaces,
             NEW s \in Users, NEW t \in Users,
             members'[v][s].id = members'[x][t].id, IsMember(v, s)'
      PROVE  v = x /\ s = t
  <2>1. \A y \in Workspaces, q \in Users :
           y # w \/ q # u => members'[y][q].id # nMembers + 1
    BY <1>1 DEF IdsOK
  <2>2. CASE v = w /\ s = u
    BY <1>3, <2>1, <2>2
  <2>3. CASE v # w \/ s # u
    BY <1>3, <2>1, <2>3 DEF IdsOK, IsMember
  <2> QED  BY <2>2, <2>3
<1> QED  BY <1>2, <1>3 DEF IdsOK

(* A row that keeps its id, or goes.  About: the UPDATE of
   change_member_role and the DELETE of remove_member.                     *)
LEMMA SameId ==
  ASSUME TypeOK, NEW w \in Workspaces, NEW u \in Users,
         members' \in [Workspaces -> [Users -> Member]],
         \/ /\ members'[w][u].id = members[w][u].id
            /\ IsMember(w, u) /\ members'[w][u].role # None
         \/ members'[w][u] = NoMember,
         nMembers' = nMembers,
         \A v \in Workspaces, t \in Users :
            v # w \/ t # u => members'[v][t] = members[v][t]
  PROVE  IdsOK'
<1> USE Fields, RecordsTyped
<1>1. ASSUME NEW v \in Workspaces, NEW t \in Users
      PROVE  /\ members'[v][t].id <= nMembers'
             /\ IsMember(v, t)' <=> members'[v][t].role # None
             /\ IsMember(v, t)' =>
                   IsMember(v, t) /\ members'[v][t].id = members[v][t].id
  <2>1. CASE v = w /\ t = u
    BY <2>1 DEF IsMember, IdsOK
  <2>2. CASE v # w \/ t # u
    BY <2>2 DEF IsMember, IdsOK
  <2> QED  BY <2>1, <2>2
<1>2. ASSUME NEW v \in Workspaces, NEW x \in Workspaces,
             NEW s \in Users, NEW t \in Users,
             members'[v][s].id = members'[x][t].id, IsMember(v, s)'
      PROVE  v = x /\ s = t
  <2>1. IsMember(x, t)'
    BY <1>2 DEF IsMember
  <2> QED  BY <1>1, <1>2, <2>1 DEF IdsOK
<1> QED  BY <1>1, <1>2 DEF IdsOK

(* The first member of a workspace is its owner.                           *)
LEMMA StepCreateWorkspace ==
  ASSUME IInv, NEW r \in Requests, NEW u \in Users, NEW w \in Workspaces,
         CreateWorkspace(r, u, w)
  PROVE  IInv'
<1> DEFINE row == [id |-> nMembers + 1, role |-> "owner", invited_by |-> None]
<1> USE Fields DEF IInv
<1>1. /\ owner[w] = None /\ owner' = [owner EXCEPT ![w] = u]
      /\ nMembers' = nMembers + 1 /\ nMembers' \in 0..MaxMembers
      /\ SetMember(w, u, row)
      /\ UNCHANGED <<invitations, nInvitations, now, req, mailed>>
  BY ConstantsAssumption DEF CreateWorkspace, TypeOK
<1>2. /\ row \in Member /\ row.id = nMembers + 1 /\ row.invited_by = None
      /\ row.role = "owner" /\ row.role # None
  BY <1>1, ConstantsAssumption DEF Member, WorkspaceRole
<1> HIDE DEF row
<1>3. /\ members' \in [Workspaces -> [Users -> Member]]
      /\ members'[w][u] = row
      /\ \A v \in Workspaces, t \in Users :
            v # w \/ t # u => members'[v][t] = members[v][t]
      /\ managers' \in [Workspaces -> SUBSET Users]
      /\ \A v \in Workspaces : managers[v] \subseteq managers'[v]
      /\ \A v \in Workspaces : v # w => managers'[v] = managers[v]
      /\ \A v \in Workspaces, t \in Users :
            CanManage(v, t)' => t \in managers'[v]
  BY <1>1, <1>2, SetMemberRows
<1>4. /\ owner' \in [Workspaces -> Users \cup {None}] /\ owner'[w] = u
      /\ \A v \in Workspaces : v # w => owner'[v] = owner[v]
  BY <1>1 DEF TypeOK
<1>5. OnlyGrows
  BY <1>1, <1>3, <1>4 DEF OnlyGrows
<1>6. TypeOK'
  <2>1. IdsOK'
    BY <1>1, <1>2, <1>3, FreshId
  <2> QED  BY <1>1, <1>3, <1>4, <2>1 DEF TypeOK, IdsOK
<1>7. InvitationsOK'
  BY <1>1, <1>5, StandingInvitations DEF InvitationsOK
<1>8. ManagersNoted'
  BY <1>3, <1>4, ConstantsAssumption DEF ManagersNoted
<1>9. HandlersOK'
  BY <1>1, <1>5, StandingHandler DEF HandlersOK
<1>10. MembersAreInvited'
  <2>1. Invited(w, u)'
    BY <1>2, <1>3, <1>4 DEF Invited
  <2>2. ASSUME NEW v \in Workspaces, NEW t \in Users, v # w \/ t # u,
               IsMember(v, t)'
        PROVE  Invited(v, t)'
    BY <1>3, <1>5, <2>2, StandingMember DEF IsMember
  <2> QED  BY <2>1, <2>2 DEF MembersAreInvited, Invited
<1> QED  BY <1>6, <1>7, <1>8, <1>9, <1>10

(* A membership row is inserted as its accepted invitation says.           *)
LEMMA StepJoinCommit ==
  ASSUME IInv, NEW r \in Requests, JoinCommit(r)
  PROVE  IInv'
<1> DEFINE i == req[r].row
           w == req[r].ws
           u == req[r].target
           row == [id |-> nMembers + 1, role |-> invitations[i].role,
                   invited_by |-> invitations[i].invited_by]
<1> USE Fields DEF IInv
<1>1. /\ i \in 1..nInvitations /\ w = invitations[i].ws
      /\ u = invitations[i].email /\ Become(r, Idle)
      /\ nMembers' = nMembers + 1 /\ nMembers' \in 0..MaxMembers
      /\ SetMember(w, u, row) /\ invitations' = Accepted(i)
      /\ UNCHANGED <<owner, nInvitations, now, mailed>>
  BY ConstantsAssumption
     DEF JoinCommit, Finish, HandlersOK, HandlerOK, TypeOK
<1>2. /\ w \in Workspaces /\ u \in Users
      /\ invitations[i].role \in WorkspaceRole
      /\ invitations[i].invited_by \in managers[w]
      /\ invitations[i].invited_by \in Users
  BY <1>1 DEF InvitationsOK
<1>3. /\ row \in Member /\ row.id = nMembers + 1 /\ row.role # None
      /\ row.invited_by = invitations[i].invited_by
  BY <1>1, <1>2, ConstantsAssumption DEF Member
<1> HIDE DEF i, w, u, row
<1>4. /\ req' \in [Requests -> Request] /\ req'[r] = Idle
      /\ \A s \in Requests : s # r => req'[s] = req[s]
  BY <1>1, RecordsTyped, BecomeOnly
<1>5. /\ members' \in [Workspaces -> [Users -> Member]]
      /\ members'[w][u] = row
      /\ \A v \in Workspaces, t \in Users :
            v # w \/ t # u => members'[v][t] = members[v][t]
      /\ managers' \in [Workspaces -> SUBSET Users]
      /\ \A v \in Workspaces : managers[v] \subseteq managers'[v]
      /\ \A v \in Workspaces : v # w => managers'[v] = managers[v]
      /\ \A v \in Workspaces, t \in Users :
            CanManage(v, t)' => t \in managers'[v]
  BY <1>1, <1>2, <1>3, SetMemberRows
<1>6. /\ invitations' \in [Invitations -> Invitation]
      /\ invitations'[i].accepted
      /\ \A j \in Invitations :
            /\ invitations'[j].ws = invitations[j].ws
            /\ invitations'[j].email = invitations[j].email
            /\ invitations'[j].role = invitations[j].role
            /\ invitations'[j].invited_by = invitations[j].invited_by
            /\ invitations[j].accepted => invitations'[j].accepted
  BY <1>1, AcceptedRows
<1>7. OnlyGrows
  BY <1>1, <1>5, <1>6 DEF OnlyGrows
<1>8. TypeOK'
  <2>1. IdsOK'
    BY <1>1, <1>2, <1>3, <1>5, FreshId
  <2> QED  BY <1>1, <1>4, <1>5, <1>6, <2>1 DEF TypeOK, IdsOK
<1>9. InvitationsOK'
  BY <1>1, <1>7, StandingInvitations DEF InvitationsOK
<1>10. ManagersNoted'
  <2>1. owner[w] # None
    BY <1>2 DEF ManagersNoted
  <2> QED  BY <1>1, <1>5, <2>1 DEF ManagersNoted
<1>11. HandlersOK'
  <2>1. HandlerOK(r)'
    BY <1>4, RecordsTyped DEF HandlerOK
  <2> QED  BY <1>4, <1>7, <2>1, StandingHandler DEF HandlersOK
(* The new row names the invitation that this very step accepts.           *)
<1>12. MembersAreInvited'
  <2>1. ASSUME NEW v \in Workspaces, NEW t \in Users, v = w, t = u
        PROVE  Invited(v, t)'
    <3>1. i \in 1..nInvitations' /\ invitations[i].invited_by \in managers'[v]
      BY <1>1, <1>2, <1>5, <2>1
    <3>2. invitations'[i].ws = v /\ invitations'[i].email = t
      BY <1>1, <1>6, <2>1
    <3>3. members'[v][t].invited_by = invitations'[i].invited_by
      BY <1>1, <1>3, <1>5, <1>6, <2>1
    <3> QED  BY <1>1, <1>3, <1>5, <1>6, <2>1, <3>1, <3>2, <3>3 DEF Invited
  <2>2. ASSUME NEW v \in Workspaces, NEW t \in Users, v # w \/ t # u,
               IsMember(v, t)'
        PROVE  Invited(v, t)'
    BY <1>5, <1>7, <2>2, StandingMember DEF IsMember
  <2> QED  BY <2>1, <2>2 DEF MembersAreInvited, Invited
<1> QED  BY <1>8, <1>9, <1>10, <1>11, <1>12

(* A role is replaced in the row that was read.                            *)
LEMMA StepChangeCommit ==
  ASSUME IInv, NEW r \in Requests, ChangeCommit(r)
  PROVE  IInv'
<1> DEFINE w == req[r].ws
           u == req[r].target
           row == [members[w][u] EXCEPT !.role = req[r].role]
<1> USE Fields DEF IInv
<1>1. /\ w \in Workspaces /\ u \in Users /\ req[r].actor \in managers[w]
      /\ req[r].role \in WorkspaceRole /\ Become(r, Idle)
      /\ IsMember(w, u) /\ SetMember(w, u, row)
      /\ UNCHANGED <<owner, nMembers, invitations, nInvitations, now, mailed>>
  BY DEF ChangeCommit, RowStands, Finish, HandlersOK, HandlerOK, IsMember
<1>2. /\ row \in Member /\ row.id = members[w][u].id /\ row.role # None
      /\ row.invited_by = members[w][u].invited_by
  BY <1>1, ConstantsAssumption DEF Member
<1> HIDE DEF w, u, row
<1>3. /\ req' \in [Requests -> Request] /\ req'[r] = Idle
      /\ \A s \in Requests : s # r => req'[s] = req[s]
  BY <1>1, RecordsTyped, BecomeOnly
<1>4. /\ members' \in [Workspaces -> [Users -> Member]]
      /\ members'[w][u] = row
      /\ \A v \in Workspaces, t \in Users :
            v # w \/ t # u => members'[v][t] = members[v][t]
      /\ managers' \in [Workspaces -> SUBSET Users]
      /\ \A v \in Workspaces : managers[v] \subseteq managers'[v]
      /\ \A v \in Workspaces : v # w => managers'[v] = managers[v]
      /\ \A v \in Workspaces, t \in Users :
            CanManage(v, t)' => t \in managers'[v]
  BY <1>1, <1>2, SetMemberRows
<1>5. OnlyGrows
  BY <1>1, <1>4 DEF OnlyGrows
<1>6. TypeOK'
  <2>1. IdsOK'
    BY <1>1, <1>2, <1>4, SameId
  <2> QED  BY <1>1, <1>3, <1>4, <2>1 DEF TypeOK, IdsOK
<1>7. InvitationsOK'
  BY <1>1, <1>5, StandingInvitations DEF InvitationsOK
<1>8. ManagersNoted'
  <2>1. owner[w] # None
    BY <1>1 DEF ManagersNoted
  <2> QED  BY <1>1, <1>4, <2>1 DEF ManagersNoted
<1>9. HandlersOK'
  <2>1. HandlerOK(r)'
    BY <1>3, RecordsTyped DEF HandlerOK
  <2> QED  BY <1>3, <1>5, <2>1, StandingHandler DEF HandlersOK
<1>10. MembersAreInvited'
  <2>1. ASSUME NEW v \in Workspaces, NEW t \in Users, IsMember(v, t)'
        PROVE  Invited(v, t)'
    <3>1. IsMember(v, t) /\ members'[v][t].invited_by = members[v][t].invited_by
      BY <1>1, <1>2, <1>4, <2>1 DEF IsMember
    <3> QED  BY <1>5, <3>1, StandingMember
  <2> QED  BY <2>1 DEF MembersAreInvited, Invited
<1> QED  BY <1>6, <1>7, <1>8, <1>9, <1>10

(* The row that was read is deleted, if it is still there.                 *)
LEMMA StepRemoveCommit ==
  ASSUME IInv, NEW r \in Requests, RemoveCommit(r)
  PROVE  IInv'
<1> DEFINE w == req[r].ws
           u == req[r].target
<1> USE Fields DEF IInv
<1>1. /\ w \in Workspaces /\ u \in Users /\ Become(r, Idle)
      /\ UNCHANGED <<owner, nMembers, invitations, nInvitations, managers,
                     now, mailed>>
  BY DEF RemoveCommit, Finish, HandlersOK, HandlerOK
<1>2. CASE ~RowStands(r)
  BY <1>1, <1>2, HandlerEnds DEF RemoveCommit, db, Finish
<1>3. CASE RowStands(r)
  <2>1. members' = [members EXCEPT ![w][u] = NoMember]
    BY <1>3 DEF RemoveCommit
  <2> HIDE DEF w, u
  <2>2. /\ req' \in [Requests -> Request] /\ req'[r] = Idle
        /\ \A s \in Requests : s # r => req'[s] = req[s]
    BY <1>1, RecordsTyped, BecomeOnly
  <2>3. /\ members' \in [Workspaces -> [Users -> Member]]
        /\ members'[w][u] = NoMember
        /\ \A v \in Workspaces, t \in Users :
              v # w \/ t # u => members'[v][t] = members[v][t]
    <3>1. members \in [Workspaces -> [Users -> Member]]
      BY DEF TypeOK
    <3> QED  BY <1>1, <2>1, <3>1, RecordsTyped, OneRow
  <2>4. OnlyGrows
    BY <1>1 DEF OnlyGrows
  <2>5. TypeOK'
    <3>1. IdsOK'
      BY <1>1, <2>3, SameId
    <3> QED  BY <1>1, <2>2, <2>3, <3>1 DEF TypeOK, IdsOK
  <2>6. InvitationsOK'
    BY <1>1, <2>4, StandingInvitations DEF InvitationsOK
  <2>7. ManagersNoted'
    <3>1. ASSUME NEW v \in Workspaces, NEW t \in Users, CanManage(v, t)'
          PROVE  t \in managers'[v]
      <4>1. members'[v][t].role # None
        BY <3>1, ManagersHaveRoles DEF CanManage, get_member_role
      <4>2. members'[v][t] = members[v][t]
        BY <2>3, <4>1, RecordsTyped
      <4> QED  BY <1>1, <3>1, <4>2 DEF ManagersNoted, CanManage, get_member_role
    <3> QED  BY <1>1, <3>1 DEF ManagersNoted
  <2>8. HandlersOK'
    <3>1. HandlerOK(r)'
      BY <2>2, RecordsTyped DEF HandlerOK
    <3> QED  BY <2>2, <2>4, <3>1, StandingHandler DEF HandlersOK
  <2>9. MembersAreInvited'
    <3>1. ASSUME NEW v \in Workspaces, NEW t \in Users, IsMember(v, t)'
          PROVE  Invited(v, t)'
      <4>1. members'[v][t] = members[v][t]
        BY <2>3, <3>1, RecordsTyped DEF IsMember
      <4> QED  BY <2>4, <3>1, <4>1, StandingMember DEF IsMember
    <3> QED  BY <3>1 DEF MembersAreInvited, Invited
  <2> QED  BY <2>5, <2>6, <2>7, <2>8, <2>9
<1> QED  BY <1>2, <1>3

-----------------------------------------------------------------------------
(* Time goes on.                                                           *)
LEMMA StepTick ==
  ASSUME IInv, UNCHANGED <<db, req, mailed>>, now' \in Nat
  PROVE  IInv'
<1> USE DEF IInv
<1>1. UNCHANGED <<owner, members, nMembers, invitations, nInvitations,
                  managers, req, mailed>>
  BY DEF db
<1>2. OnlyGrows
  BY TablesStand
<1>3. TypeOK'
  BY <1>1 DEF TypeOK, IsMember
<1>4. InvitationsOK' /\ ManagersNoted' /\ MembersAreInvited'
  BY <1>1 DEF InvitationsOK, ManagersNoted, MembersAreInvited, CanManage,
     get_member_role, IsMember
<1>5. HandlersOK'
  BY <1>1, <1>2, StandingHandler DEF HandlersOK
<1> QED  BY <1>3, <1>4, <1>5
(* Every step of the system keeps the inductive invariant.                 *)
LEMMA StepIInv == IInv /\ [Next]_vars => IInv'
<1> SUFFICES ASSUME IInv, [Next]_vars PROVE IInv'
  OBVIOUS
<1>1. ASSUME NEW r \in Requests, Arrive(r)  PROVE IInv'
  BY <1>1, StepCreateWorkspace, StepAuthorize, StepAcceptRead DEF Arrive
<1>2. ASSUME NEW r \in Requests, Continue(r)  PROVE IInv'
  <2>1. CASE \E e \in Users, role \in PayloadRoles :
               InviteCommit(r, e, role) \/ ChangeRead(r, e, role)
    BY <2>1, StepInviteCommit, StepChangeRead
  <2>2. CASE \E u \in Users : RemoveRead(r, u)
    BY <2>2, StepRemoveRead
  <2>3. CASE Refuse(r) \/ JoinConflict(r) \/ ChangeStale(r)
    BY <2>3, HandlerEnds DEF Refuse, JoinConflict, ChangeStale
  <2>4. CASE SendInvitation(r) \/ ExpireCommit(r) \/ RejoinCommit(r)
    BY <2>4, StepSendInvitation, StepExpireCommit, StepRejoinCommit
  <2>5. CASE AcceptLookup(r) \/ JoinCommit(r)
    BY <2>5, StepAcceptLookup, StepJoinCommit
  <2>6. CASE ChangeCommit(r) \/ RemoveCommit(r)
    BY <2>6, StepChangeCommit, StepRemoveCommit
  <2> QED  BY <1>2, <2>1, <2>2, <2>3, <2>4, <2>5, <2>6 DEF Continue
<1>3. ASSUME NEW r \in Requests, Crash(r)  PROVE IInv'
  BY <1>3, HandlerEnds DEF Crash
<1>4. CASE Tick
  BY <1>4, StepTick DEF Tick, IInv, TypeOK
<1>5. CASE UNCHANGED vars
  BY <1>5, StepTick DEF vars, IInv, TypeOK
<1> QED  BY <1>1, <1>2, <1>3, <1>4, <1>5 DEF Next

(* The empty tables satisfy the invariant.                                 *)
LEMMA InitIInv == Init => IInv
<1> SUFFICES ASSUME Init PROVE IInv
  OBVIOUS
<1> USE ConstantsAssumption, RecordsTyped
<1>1. /\ \A w \in Workspaces, u \in Users : members[w][u] = NoMember
      /\ \A r \in Requests : req[r].pc = "idle"
      /\ \A w \in Workspaces : managers[w] = {}
      /\ nInvitations = 0 /\ nMembers = 0
  BY DEF Init
<1>2. TypeOK
  BY <1>1 DEF Init, TypeOK, IsMember
<1>3. InvitationsOK /\ HandlersOK /\ MembersAreInvited
  BY <1>1 DEF InvitationsOK, HandlersOK, HandlerOK, MembersAreInvited, IsMember
<1>4. ManagersNoted
  BY <1>1, ManagersHaveRoles DEF ManagersNoted, CanManage, get_member_role
<1> QED  BY <1>2, <1>3, <1>4 DEF IInv

-----------------------------------------------------------------------------
(* What may become of a membership row in one step.                        *)
RowAsRead(w, u) ==
    LET old == members[w][u]
        new == members'[w][u] IN
    IsMember(w, u) /\ new # old =>
        \E r \in Requests :
            /\ req[r].ws = w /\ req[r].target = u
            /\ req[r].row = old.id
            /\ req[r].actor \in managers[w]
            /\ \/ req[r].pc = "change" /\ new.id = old.id
               \/ req[r].pc = "remove" /\ new = NoMember

(* A workspace that is only now created has no members to overwrite.       *)
LEMMA NobodyBeforeTheOwner ==
  ASSUME IInv, NEW w \in Workspaces, owner[w] = None, NEW u \in Users
  PROVE  ~IsMember(w, u)
  BY ConstantsAssumption DEF IInv, MembersAreInvited, ManagersNoted, Invited

(* Every step changes membership rows only as a handler read them.         *)
LEMMA StepRows ==
  ASSUME IInv, [Next]_vars, NEW w \in Workspaces, NEW u \in Users
  PROVE  RowAsRead(w, u)
<1> USE Fields DEF IInv
<1>1. ASSUME NEW r \in Requests, NEW t \in Users, NEW v \in Workspaces,
             CreateWorkspace(r, t, v)
      PROVE  RowAsRead(w, u)
  <2>1. /\ \A s \in Users : ~IsMember(v, s)
        /\ \E row : members' = [members EXCEPT ![v][t] = row]
    BY <1>1, NobodyBeforeTheOwner DEF CreateWorkspace, SetMember
  <2>2. IsMember(w, u) => members'[w][u] = members[w][u]
    BY <2>1 DEF TypeOK
  <2> QED  BY <2>2 DEF RowAsRead
<1>2. ASSUME NEW r \in Requests, JoinCommit(r)
      PROVE  RowAsRead(w, u)
  <2>1. /\ ~IsMember(req[r].ws, req[r].target)
        /\ \E row :
              members' = [members EXCEPT ![req[r].ws][req[r].target] = row]
    BY <1>2 DEF JoinCommit, SetMember
  <2>2. IsMember(w, u) => members'[w][u] = members[w][u]
    BY <2>1 DEF TypeOK
  <2> QED  BY <2>2 DEF RowAsRead
<1>3. ASSUME NEW r \in Requests, ChangeCommit(r)
      PROVE  RowAsRead(w, u)
  <2> DEFINE v == req[r].ws
             t == req[r].target
             row == [members[v][t] EXCEPT !.role = req[r].role]
  <2>1. /\ v \in Workspaces /\ t \in Users /\ req[r].pc = "change"
        /\ req[r].row = members[v][t].id /\ req[r].actor \in managers[v]
        /\ members' = [members EXCEPT ![v][t] = row]
    BY <1>3 DEF ChangeCommit, SetMember, RowStands, HandlersOK, HandlerOK
  <2>2. row.id = members[v][t].id
    BY <2>1 DEF Member
  <2> HIDE DEF row
  <2>3. /\ w # v \/ u # t => members'[w][u] = members[w][u]
        /\ w = v /\ u = t => members'[w][u] = row
    BY <2>1 DEF TypeOK
  <2> QED  BY <2>1, <2>2, <2>3 DEF RowAsRead
<1>4. ASSUME NEW r \in Requests, RemoveCommit(r)
      PROVE  RowAsRead(w, u)
  <2> DEFINE v == req[r].ws
             t == req[r].target
  <2>1. CASE ~RowStands(r)
    BY <1>4, <2>1 DEF RemoveCommit, RowAsRead
  <2>2. CASE RowStands(r)
    <3>1. /\ v \in Workspaces /\ t \in Users /\ req[r].pc = "remove"
          /\ req[r].row = members[v][t].id /\ req[r].actor \in managers[v]
          /\ members' = [members EXCEPT ![v][t] = NoMember]
      BY <1>4, <2>2 DEF RemoveCommit, RowStands, HandlersOK, HandlerOK
    <3>2. /\ w # v \/ u # t => members'[w][u] = members[w][u]
          /\ w = v /\ u = t => members'[w][u] = NoMember
      BY <3>1 DEF TypeOK
    <3> QED  BY <3>1, <3>2 DEF RowAsRead
  <2> QED  BY <2>1, <2>2
<1>5. ASSUME members' = members  PROVE RowAsRead(w, u)
  BY <1>5 DEF RowAsRead
<1>6. \/ members' = members
      \/ \E r \in Requests :
            \/ \E t \in Users, v \in Workspaces : CreateWorkspace(r, t, v)
            \/ JoinCommit(r) \/ ChangeCommit(r) \/ RemoveCommit(r)
  BY DEF Next, vars, db, Arrive, Continue, Crash, Tick, Authorize, AcceptRead,
     InviteCommit, ChangeRead, RemoveRead, Refuse, SendInvitation,
     ExpireCommit, AcceptLookup, JoinConflict, RejoinCommit, ChangeStale
<1> QED  BY <1>1, <1>2, <1>3, <1>4, <1>5, <1>6

-----------------------------------------------------------------------------
(* The theorems.                                                           *)

(* The inductive invariant holds of every behaviour.  About: the handlers
   of app/services/workspace_service.py, run concurrently.                 *)
THEOREM InductiveInvariant == Spec => []IInv
<1>1. Init => IInv
  BY InitIInv
<1>2. IInv /\ [Next]_vars => IInv'
  BY StepIInv
<1> QED  BY <1>1, <1>2, PTL DEF Spec

(* Types, and: a row exists exactly if it has a role, and no two rows share
   an id.  About: models/workspace_member.py.                              *)
THEOREM TypeCorrect == Spec => []TypeOK
<1>1. IInv => TypeOK
  BY DEF IInv
<1> QED  BY <1>1, InductiveInvariant, PTL

(* Nobody is in a workspace but its creator and those whom a manager
   invited at their own address.  About: tenant isolation, deps.py:51-58,
   and accept_invitation, workspace_service.py:109-151.                    *)
THEOREM NobodyUninvited == Spec => []MembersAreInvited
<1>1. IInv => MembersAreInvited
  BY DEF IInv
<1> QED  BY <1>1, InductiveInvariant, PTL

(* No request changes or deletes a membership row other than the one a
   manager's request read, though it was replaced in between.  About:
   workspace_service.py:123-132, 154-201.                                  *)
THEOREM ChangesReachTheRowRead == Spec => RowsChangeAsRead
<1>1. IInv /\ [Next]_vars =>
         [\A w \in Workspaces, u \in Users : RowAsRead(w, u)]_vars
  BY StepRows
<1>2. Spec => [][\A w \in Workspaces, u \in Users : RowAsRead(w, u)]_vars
  BY <1>1, InductiveInvariant, PTL DEF Spec
<1> QED  BY <1>2 DEF RowsChangeAsRead, RowAsRead
=============================================================================
