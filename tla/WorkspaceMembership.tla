------------------------ MODULE WorkspaceMembership ------------------------
(***************************************************************************)
(* Workspaces, their members and invitations: app/services/                *)
(* workspace_service.py behind the authorization of app/api/deps.py, run   *)
(* by concurrent HTTP requests.                                            *)
(*                                                                         *)
(* A request first reads the caller's role (get_current_workspace), then   *)
(* the row it works on, then flushes and commits; each of the three is a   *)
(* step, and other requests commit between them.  The ORM addresses the    *)
(* row it read by primary key: an UPDATE of a row that is gone fails       *)
(* (StaleDataError, 500), a DELETE of a row that is gone only warns.       *)
(*                                                                         *)
(* An e-mail address is named by the user who registered it: users.email   *)
(* is unique and both sides of the comparison are lower-cased.             *)
(***************************************************************************)
EXTENDS Naturals, Rbac

CONSTANTS
    Users,           \* registered, active users
    Workspaces,      \* workspace ids: how many workspaces may be created
    Requests,        \* request slots: how many handlers may overlap
    None,            \* no user, no workspace
    PayloadRoles,    \* bound: roles that clients name in their payloads
    InvitationTTL,   \* INVITATION_TTL, in ticks
    MaxMembers,      \* bound: workspace_members rows ever inserted
    MaxInvitations,  \* bound: workspace_invitations rows ever inserted
    MaxTime          \* bound: ticks of the clock

ASSUME ConstantsAssumption ==
    /\ None \notin Users /\ None \notin Workspaces
    /\ None \notin WorkspaceRole
    /\ PayloadRoles \subseteq WorkspaceRole
    /\ InvitationTTL \in Nat
    /\ MaxMembers \in Nat
    /\ MaxInvitations \in Nat
    /\ MaxTime \in Nat

VARIABLES
    owner,         \* workspaces.owner_id, None before the workspace exists
    members,       \* the table, keyed by uq_workspace_member
    nMembers,      \* rows ever inserted; their ids are 1..nMembers
    invitations,   \* the table; rows above nInvitations do not exist yet
    nInvitations,
    now,           \* datetime.now(timezone.utc)
    req,           \* per request slot: where its handler is, what it read
    mailed,        \* invitations whose raw token reached a mailbox
    managers       \* history: per workspace, who ever could manage members

db == <<owner, members, nMembers, invitations, nInvitations, managers>>
vars == <<db, now, req, mailed>>

-----------------------------------------------------------------------------
(* Tables and request records.                                             *)

Invitations == 1..MaxInvitations

Member == [id : 0..MaxMembers, role : WorkspaceRole \cup {None},
           invited_by : Users \cup {None}]

NoMember == [id |-> 0, role |-> None, invited_by |-> None]

Invitation ==
    [ws : Workspaces \cup {None}, email : Users \cup {None},
     role : WorkspaceRole \cup {None}, invited_by : Users \cup {None},
     expires_at : Nat, status : {"none", "pending", "accepted", "expired"},
     accepted : BOOLEAN]

NoInvitation == [ws |-> None, email |-> None, role |-> None,
                 invited_by |-> None, expires_at |-> 0, status |-> "none",
                 accepted |-> FALSE]

(* Where a handler can be suspended:
     authorized  the caller's role was read and allows manage_members
     change      the target's row was read, its role is to be replaced
     remove      the target's row was read and is not an owner's
     mail        invitation committed, mail not sent yet
     accept      the invitation was pending when it was read
     expire      it was pending, but past its time
     join        the caller had no membership row when it was looked up
     rejoin      the caller already had one                              *)
Stages == {"idle", "authorized", "change", "remove", "mail", "accept",
           "expire", "join", "rejoin"}

Request ==
    [pc : Stages, actor : Users \cup {None}, ws : Workspaces \cup {None},
     target : Users \cup {None}, row : Nat,
     role : WorkspaceRole \cup {None}]

Idle == [pc |-> "idle", actor |-> None, ws |-> None, target |-> None,
         row |-> 0, role |-> None]

-----------------------------------------------------------------------------
get_member_role(w, u) == members[w][u].role

IsMember(w, u) == members[w][u].id # 0

CanManage(w, u) == role_has_permission(get_member_role(w, u), "manage_members")

(* The row of the handler's target is still the one that it read.          *)
RowStands(r) == members[req[r].ws][req[r].target].id = req[r].row

(* Writes the membership row of u in w, and notes a new manager.           *)
SetMember(w, u, row) ==
    /\ members' = [members EXCEPT ![w][u] = row]
    /\ managers' = IF role_has_permission(row.role, "manage_members")
                   THEN [managers EXCEPT ![w] = @ \cup {u}]
                   ELSE managers

Become(r, h) == req' = [req EXCEPT ![r] = h]
Finish(r) == Become(r, Idle)

-----------------------------------------------------------------------------
(* POST /workspaces: create_workspace.                                     *)

CreateWorkspace(r, u, w) ==
    /\ req[r].pc = "idle"
    /\ owner[w] = None
    /\ nMembers < MaxMembers
    /\ owner' = [owner EXCEPT ![w] = u]
    /\ nMembers' = nMembers + 1
    /\ SetMember(w, u, [id |-> nMembers + 1, role |-> "owner",
                        invited_by |-> None])
    /\ UNCHANGED <<invitations, nInvitations, now, req, mailed>>

(* require_permission(WORKSPACE_MANAGE_MEMBERS), before the handlers of
   invitations, role changes and removals.                                 *)
Authorize(r, u, w) ==
    /\ req[r].pc = "idle"
    /\ CanManage(w, u)
    /\ Become(r, [Idle EXCEPT !.pc = "authorized", !.actor = u, !.ws = w])
    /\ UNCHANGED <<db, now, mailed>>

(* The handler ends without touching a table of this module: the target is
   no member (404) or an owner (400), or the role asked for is the one that
   was read, so that the ORM has nothing to update.                        *)
Refuse(r) ==
    /\ req[r].pc = "authorized"
    /\ Finish(r)
    /\ UNCHANGED <<db, now, mailed>>

-----------------------------------------------------------------------------
(* POST /workspaces/{id}/invitations: invite_member.                       *)

InviteCommit(r, e, role) ==
    /\ req[r].pc = "authorized"
    /\ nInvitations < MaxInvitations
    /\ nInvitations' = nInvitations + 1
    /\ invitations' = [invitations EXCEPT ![nInvitations + 1] =
         [ws |-> req[r].ws, email |-> e, role |-> role,
          invited_by |-> req[r].actor, expires_at |-> now + InvitationTTL,
          status |-> "pending", accepted |-> FALSE]]
    /\ Become(r, [req[r] EXCEPT !.pc = "mail", !.row = nInvitations + 1])
    /\ UNCHANGED <<owner, members, nMembers, managers, now, mailed>>

SendInvitation(r) ==
    /\ req[r].pc = "mail"
    /\ mailed' = mailed \cup {req[r].row}
    /\ Finish(r)
    /\ UNCHANGED <<db, now>>

-----------------------------------------------------------------------------
(* POST /workspaces/invitations/accept: accept_invitation.                 *)

(* Mutant of AcceptRead: the address is not compared.                      *)
AcceptReadAnyone(r, u, i) ==
    LET inv == invitations[i] IN
    /\ req[r].pc = "idle"
    /\ inv.status = "pending"
    /\ inv.expires_at >= now
    /\ Become(r, [Idle EXCEPT !.pc = "accept", !.ws = inv.ws,
                              !.target = u, !.row = i])
    /\ UNCHANGED <<db, now, mailed>>

(* Mutant of AcceptRead: an accepted invitation is accepted again.         *)
AcceptReadUsed(r, u, i) ==
    LET inv == invitations[i] IN
    /\ req[r].pc = "idle"
    /\ inv.status \in {"pending", "accepted"}
    /\ inv.expires_at >= now
    /\ inv.email = u
    /\ Become(r, [Idle EXCEPT !.pc = "accept", !.ws = inv.ws,
                              !.target = u, !.row = i])
    /\ UNCHANGED <<db, now, mailed>>

(* The expiry is looked at before the address: whoever presents a token
   that is out of time expires the invitation.                             *)
AcceptRead(r, u, i) ==
    LET inv == invitations[i] IN
    /\ req[r].pc = "idle"
    /\ inv.status = "pending"
    /\ \/ /\ inv.expires_at < now
          /\ Become(r, [Idle EXCEPT !.pc = "expire", !.row = i])
       \/ /\ inv.expires_at >= now
          /\ inv.email = u
          /\ Become(r, [Idle EXCEPT !.pc = "accept", !.ws = inv.ws,
                                    !.target = u, !.row = i])
    /\ UNCHANGED <<db, now, mailed>>

ExpireCommit(r) ==
    /\ req[r].pc = "expire"
    /\ invitations' = [invitations EXCEPT ![req[r].row].status = "expired"]
    /\ Finish(r)
    /\ UNCHANGED <<owner, members, nMembers, nInvitations, managers,
                   now, mailed>>

AcceptLookup(r) ==
    /\ req[r].pc = "accept"
    /\ Become(r, [req[r] EXCEPT !.pc = IF IsMember(req[r].ws, req[r].target)
                                       THEN "rejoin" ELSE "join"])
    /\ UNCHANGED <<db, now, mailed>>

Accepted(i) == [invitations EXCEPT ![i].status = "accepted",
                                   ![i].accepted = TRUE]

(* Mutant of JoinCommit: the role of the invitation is not copied.         *)
JoinCommitNoRole(r) ==
    LET i == req[r].row IN
    /\ req[r].pc = "join"
    /\ ~IsMember(req[r].ws, req[r].target)
    /\ nMembers < MaxMembers
    /\ nMembers' = nMembers + 1
    /\ SetMember(req[r].ws, req[r].target,
                 [id |-> nMembers + 1, role |-> None,
                  invited_by |-> invitations[i].invited_by])
    /\ invitations' = Accepted(i)
    /\ Finish(r)
    /\ UNCHANGED <<owner, nInvitations, now, mailed>>

JoinCommit(r) ==
    LET i == req[r].row IN
    /\ req[r].pc = "join"
    /\ ~IsMember(req[r].ws, req[r].target)      \* uq_workspace_member
    /\ nMembers < MaxMembers
    /\ nMembers' = nMembers + 1
    /\ SetMember(req[r].ws, req[r].target,
                 [id |-> nMembers + 1, role |-> invitations[i].role,
                  invited_by |-> invitations[i].invited_by])
    /\ invitations' = Accepted(i)
    /\ Finish(r)
    /\ UNCHANGED <<owner, nInvitations, now, mailed>>

(* IntegrityError: the whole transaction rolls back, the client gets 500.  *)
JoinConflict(r) ==
    /\ req[r].pc = "join"
    /\ IsMember(req[r].ws, req[r].target)
    /\ Finish(r)
    /\ UNCHANGED <<db, now, mailed>>

(* The invitation is used up, the membership keeps its role.               *)
RejoinCommit(r) ==
    /\ req[r].pc = "rejoin"
    /\ invitations' = Accepted(req[r].row)
    /\ Finish(r)
    /\ UNCHANGED <<owner, members, nMembers, nInvitations, managers,
                   now, mailed>>

-----------------------------------------------------------------------------
(* PATCH /workspaces/{id}/members/{user}: change_member_role.              *)

ChangeRead(r, u, role) ==
    /\ req[r].pc = "authorized"
    /\ IsMember(req[r].ws, u)
    /\ role # get_member_role(req[r].ws, u)
    /\ Become(r, [req[r] EXCEPT !.pc = "change", !.target = u, !.role = role,
                                !.row = members[req[r].ws][u].id])
    /\ UNCHANGED <<db, now, mailed>>

(* Mutant of ChangeCommit: UPDATE ... WHERE workspace_id and user_id.      *)
ChangeCommitByUser(r) ==
    LET w == req[r].ws
        u == req[r].target IN
    /\ req[r].pc = "change"
    /\ IsMember(w, u)
    /\ SetMember(w, u, [members[w][u] EXCEPT !.role = req[r].role])
    /\ Finish(r)
    /\ UNCHANGED <<owner, nMembers, invitations, nInvitations, now, mailed>>

ChangeCommit(r) ==
    LET w == req[r].ws
        u == req[r].target IN
    /\ req[r].pc = "change"
    /\ RowStands(r)
    /\ SetMember(w, u, [members[w][u] EXCEPT !.role = req[r].role])
    /\ Finish(r)
    /\ UNCHANGED <<owner, nMembers, invitations, nInvitations, now, mailed>>

(* StaleDataError: 500, nothing is written.                                *)
ChangeStale(r) ==
    /\ req[r].pc = "change"
    /\ ~RowStands(r)
    /\ Finish(r)
    /\ UNCHANGED <<db, now, mailed>>

-----------------------------------------------------------------------------
(* DELETE /workspaces/{id}/members/{user}: remove_member.                  *)

(* Mutant of RemoveRead: owners are not protected.                         *)
RemoveReadOwnerToo(r, u) ==
    /\ req[r].pc = "authorized"
    /\ IsMember(req[r].ws, u)
    /\ Become(r, [req[r] EXCEPT !.pc = "remove", !.target = u,
                                !.row = members[req[r].ws][u].id])
    /\ UNCHANGED <<db, now, mailed>>

RemoveRead(r, u) ==
    /\ req[r].pc = "authorized"
    /\ IsMember(req[r].ws, u)
    /\ get_member_role(req[r].ws, u) # "owner"
    /\ Become(r, [req[r] EXCEPT !.pc = "remove", !.target = u,
                                !.row = members[req[r].ws][u].id])
    /\ UNCHANGED <<db, now, mailed>>

RemoveCommit(r) ==
    /\ req[r].pc = "remove"
    /\ members' = IF RowStands(r)
                  THEN [members EXCEPT ![req[r].ws][req[r].target] = NoMember]
                  ELSE members
    /\ Finish(r)
    /\ UNCHANGED <<owner, nMembers, invitations, nInvitations, managers,
                   now, mailed>>

-----------------------------------------------------------------------------
(* The environment.                                                        *)

(* The process dies, the database connection drops or the client is gone:
   the open transaction rolls back, and a mail not sent is never sent.     *)
Crash(r) ==
    /\ req[r].pc # "idle"
    /\ Finish(r)
    /\ UNCHANGED <<db, now, mailed>>

Tick ==
    /\ now < MaxTime
    /\ now' = now + 1
    /\ UNCHANGED <<db, req, mailed>>

-----------------------------------------------------------------------------
Init ==
    /\ owner = [w \in Workspaces |-> None]
    /\ members = [w \in Workspaces |-> [u \in Users |-> NoMember]]
    /\ nMembers = 0
    /\ invitations = [i \in Invitations |-> NoInvitation]
    /\ nInvitations = 0
    /\ now = 0
    /\ req = [r \in Requests |-> Idle]
    /\ mailed = {}
    /\ managers = [w \in Workspaces |-> {}]

(* A request arrives.  One that is turned away before it writes anything
   changes nothing here.                                                   *)
Arrive(r) ==
    \/ \E u \in Users, w \in Workspaces :
          CreateWorkspace(r, u, w) \/ Authorize(r, u, w)
    \/ \E u \in Users, i \in mailed : AcceptRead(r, u, i)

(* The handler of a request that has arrived goes on.                      *)
Continue(r) ==
    \/ \E e \in Users, role \in PayloadRoles :
          InviteCommit(r, e, role) \/ ChangeRead(r, e, role)
    \/ \E u \in Users : RemoveRead(r, u)
    \/ Refuse(r) \/ SendInvitation(r)
    \/ ExpireCommit(r) \/ AcceptLookup(r)
    \/ JoinCommit(r) \/ JoinConflict(r) \/ RejoinCommit(r)
    \/ ChangeCommit(r) \/ ChangeStale(r) \/ RemoveCommit(r)

Next ==
    \/ \E r \in Requests : Arrive(r) \/ Continue(r) \/ Crash(r)
    \/ Tick

Spec == Init /\ [][Next]_vars

(* The event loop resumes a handler whose await has completed.             *)
FairSpec == Spec /\ \A r \in Requests : WF_vars(Continue(r))

-----------------------------------------------------------------------------
(* Properties.                                                             *)

(* Types, and ids are not shared.  About: the columns and constraints of
   models/workspace_member.py and models/workspace_invitation.py.          *)
TypeOK ==
    /\ owner \in [Workspaces -> Users \cup {None}]
    /\ members \in [Workspaces -> [Users -> Member]]
    /\ nMembers \in 0..MaxMembers
    /\ invitations \in [Invitations -> Invitation]
    /\ nInvitations \in 0..MaxInvitations
    /\ now \in Nat
    /\ req \in [Requests -> Request]
    /\ mailed \subseteq 1..nInvitations
    /\ managers \in [Workspaces -> SUBSET Users]
    /\ \A w \in Workspaces, u \in Users :
          /\ members[w][u].id <= nMembers
          /\ IsMember(w, u) <=> members[w][u].role # None
    /\ \A w, v \in Workspaces, t, u \in Users :
          members[w][t].id = members[v][u].id /\ IsMember(w, t)
              => w = v /\ t = u

(* Nobody gets into a workspace uninvited: a membership row belongs to the
   user who created the workspace, or stems from an invitation that was
   sent to that user's address by somebody who could manage members, and
   that has been accepted.  About: tenant isolation, deps.py:51-58, and
   accept_invitation, workspace_service.py:109-151.                        *)
MembersAreInvited ==
    \A w \in Workspaces, u \in Users :
        LET m == members[w][u] IN
        IsMember(w, u) =>
            \/ m.invited_by = None /\ u = owner[w]
            \/ \E i \in 1..nInvitations :
                  /\ invitations[i].ws = w
                  /\ invitations[i].email = u
                  /\ invitations[i].accepted
                  /\ invitations[i].invited_by = m.invited_by
                  /\ m.invited_by \in managers[w]

(* A membership row changes only the way a manager's request that read this
   very row decided: a role change read before the member was removed and
   invited again does not reach the new row, a removal neither, and an
   invitation never overwrites a row.  About: workspace_service.py:123-132,
   154-201.                                                                *)
RowsChangeAsRead ==
    [][\A w \in Workspaces, u \in Users :
          LET old == members[w][u]
              new == members'[w][u] IN
          IsMember(w, u) /\ new # old =>
              \E r \in Requests :
                  /\ req[r].ws = w /\ req[r].target = u
                  /\ req[r].row = old.id
                  /\ req[r].actor \in managers[w]
                  /\ \/ req[r].pc = "change" /\ new.id = old.id
                     \/ req[r].pc = "remove" /\ new = NoMember]_vars

(* An invitation that was used before gives no membership again.  About:
   "Invalid or already-used invitation", workspace_service.py:114-115.     *)
InvitationJoinsOnce ==
    [][\A r \in Requests :
          JoinCommit(r) => ~invitations[req[r].row].accepted]_vars

(* The user who created a workspace stays a member of it.  About: "Cannot
   remove the workspace owner", workspace_service.py:189-190, where
   workspaces.owner_id says who that is.                                   *)
CreatorStays ==
    \A w \in Workspaces : owner[w] # None => IsMember(w, owner[w])
=============================================================================
