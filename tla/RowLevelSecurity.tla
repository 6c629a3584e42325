-------------------------- MODULE RowLevelSecurity --------------------------
(***************************************************************************)
(* The row-level security policies of alembic/versions/0003_enable_rls.py  *)
(* under the statements that the workspace endpoints send, on pooled       *)
(* connections.                                                            *)
(*                                                                         *)
(* get_current_user opens the transaction of a request and binds it to the *)
(* caller with SET LOCAL app.user_id and app.user_email.  The endpoint's   *)
(* statements follow, each under the policies of its table.  A commit ends *)
(* the transaction and with it the binding, and gives the connection back; *)
(* a statement after the commit (a refresh, the SELECTs at the end of      *)
(* accept) begins a new transaction, on any free connection, unbound.      *)
(*                                                                         *)
(* The policies bind every role but the owner of the tables, because no    *)
(* migration says FORCE ROW LEVEL SECURITY.  render.yaml gives one         *)
(* DATABASE_URL to "alembic upgrade head" and to the server: that role is  *)
(* the "owner".  A "bound" role is what the migration is written for.      *)
(*                                                                         *)
(* Primary keys are server defaults, so every INSERT is an INSERT ...      *)
(* RETURNING: PostgreSQL then asks the SELECT policies of the new row too, *)
(* before it is in the table.  An UPDATE or DELETE by primary key reads    *)
(* the row and needs them as well.                                         *)
(***************************************************************************)
EXTENDS Sequences

CONSTANTS
    Users,          \* each with one e-mail address, lower-cased
    Workspaces,     \* workspace ids: how many workspaces may be created
    Requests,       \* request slots: how many handlers may overlap
    Connections,    \* the engine's pool
    Roles,          \* database roles the server may connect as
    None,           \* no user, no workspace, no connection; SQL's NULL
    Blank           \* the empty string

ASSUME ConstantsAssumption ==
    /\ None \notin Users \cup Workspaces \cup Connections
    /\ Blank \notin Users \cup {None}
    /\ Roles \subseteq {"owner", "bound"}

VARIABLES
    role,         \* the database role of the server's connections
    owner,        \* workspaces.owner_id, None before the workspace exists
    members,      \* (workspace_id, user_id) of workspace_members
    invitations,  \* (workspace_id, email) of workspace_invitations; a pair
                  \* stands for all the rows that an address has
    mailed,       \* those with a pending row whose token reached its mailbox
    app_user_id,  \* per connection: current_setting('app.user_id', true);
                  \* app.user_email is set and reset together with it
    req           \* per request slot: the statements still to run

tables == <<owner, members, invitations, mailed>>
vars == <<role, tables, app_user_id, req>>

-----------------------------------------------------------------------------
(* A statement names its table and, for workspace_members, whose row it is
   about.  A "select" without a row ends the handler, a "list" goes on; a
   "lookup", the one of accept_invitation, goes on to an INSERT that it
   leaves out if there is a row.                                           *)

Stmt(c, t, u) == [cmd |-> c, table |-> t, of |-> u]

CallersRole == Stmt("select", "workspace_members", "caller")
ReadMember == Stmt("select", "workspace_members", "target")
AddMember == Stmt("insert", "workspace_members", "target")
ChangeMember == Stmt("update", "workspace_members", "target")
DropMember == Stmt("delete", "workspace_members", "target")
ReadWorkspace == Stmt("select", "workspaces", "target")
AddWorkspace == Stmt("insert", "workspaces", "target")
ReadInvitation == Stmt("select", "workspace_invitations", "target")
AddInvitation == Stmt("insert", "workspace_invitations", "target")
UseInvitation == Stmt("update", "workspace_invitations", "target")
Audit == Stmt("insert", "audit_logs", "target")
LookUpMember == Stmt("lookup", "workspace_members", "target")
ListWorkspace == Stmt("list", "workspaces", "target")
ListMember == Stmt("list", "workspace_members", "target")
ListOwn == Stmt("list", "workspace_members", "caller")
Commit == Stmt("commit", "none", "target")
Mail == Stmt("mail", "none", "target")

(* What each endpoint sends after get_current_user, dependencies first.  A
   flush may write the audit row and delete the member in either order.
   "mine" joins workspaces to the caller's memberships: it returns a row
   where the membership is visible, as the policy of workspaces then lets
   its workspace through.  "raw" is an endpoint with a bug: it queries a
   workspace and its members without a check, before and after a commit; raw
   writes are not tried.                                                   *)
Scripts ==
    [create |-> {<<AddWorkspace, AddMember, Audit, Commit, ReadWorkspace>>},
     mine   |-> {<<ListOwn>>},
     get    |-> {<<CallersRole, ReadWorkspace>>},
     invite |-> {<<CallersRole, ReadWorkspace, AddInvitation, Audit, Commit,
                   ReadInvitation, Mail>>},
     accept |-> {<<ReadInvitation, LookUpMember, AddMember, UseInvitation,
                   Audit, Commit, ReadWorkspace, CallersRole>>},
     change |-> {<<CallersRole, ReadMember, ChangeMember, Audit, Commit>>},
     remove |-> {<<CallersRole, ReadMember, DropMember, Audit, Commit>>,
                 <<CallersRole, ReadMember, Audit, DropMember, Commit>>},
     list   |-> {<<CallersRole, ListMember>>},
     raw    |-> {<<ListWorkspace, ListMember, Commit,
                   ListWorkspace, ListMember>>}]

WriteStatements == {AddWorkspace, AddMember, ChangeMember, DropMember,
                    AddInvitation, UseInvitation, Audit}

ReadStatements == {CallersRole, ReadMember, ReadWorkspace, ReadInvitation,
                   LookUpMember, ListWorkspace, ListMember, ListOwn}

Statements == WriteStatements \cup ReadStatements \cup {Commit, Mail}

Request ==
    [caller : Users \cup {None}, ws : Workspaces \cup {None},
     target : Users \cup {None}, conn : Connections \cup {None},
     todo : Seq(Statements), written : SUBSET WriteStatements,
     committed : BOOLEAN]

Idle == [caller |-> None, ws |-> None, target |-> None, conn |-> None,
         todo |-> <<>>, written |-> {}, committed |-> FALSE]

Become(r, h) == req' = [req EXCEPT ![r] = h]

(* Mutant of Free: a connection goes to two sessions.                      *)
FreeAlways(c) == TRUE

Free(c) == \A r \in Requests : req[r].conn # c

-----------------------------------------------------------------------------
(* The tables as the open transaction of request r sees them: what is
   committed, and what it wrote itself.                                    *)

Writes == {"insert", "update", "delete"}

Wrote(r, s) == s \in req[r].written

OwnerSeen(r) == IF Wrote(r, AddWorkspace) THEN req[r].caller
                ELSE owner[req[r].ws]

MemberSeen(r, u) ==
    /\ \/ <<req[r].ws, u>> \in members
       \/ Wrote(r, AddMember) /\ u = req[r].target
    /\ ~(Wrote(r, DropMember) /\ u = req[r].target)

InvitationSeen(r) ==
    <<req[r].ws, req[r].target>> \in invitations \/ Wrote(r, AddInvitation)

(* The row that statement s of r is about is in the table.                 *)
RowThere(r, s) ==
    CASE s.table = "workspaces"            -> OwnerSeen(r) # None
      [] s.table = "workspace_members"     ->
            MemberSeen(r, IF s.of = "caller" THEN req[r].caller
                          ELSE req[r].target)
      [] s.table = "workspace_invitations" -> InvitationSeen(r)
      [] OTHER                             -> FALSE

-----------------------------------------------------------------------------
(* The policies.  A setting that is NULL or the empty string is nobody.    *)

SessionUser(r) == app_user_id[req[r].conn]

(* Mutant of is_workspace_member: any member of the workspace will do.     *)
AnyWorkspaceMember(r) ==
    SessionUser(r) \in Users /\ \E u \in Users : MemberSeen(r, u)

is_workspace_member(r) ==
    SessionUser(r) \in Users /\ MemberSeen(r, SessionUser(r))

(* o is the row's owner_id, u its user_id, e its e-mail address.           *)
workspace_select(r, o) == is_workspace_member(r) \/ o = SessionUser(r)
workspace_insert(r, o) == o = SessionUser(r)

workspace_members_select(r) == is_workspace_member(r)
workspace_members_insert(r, u) == u = SessionUser(r) \/ is_workspace_member(r)
workspace_members_update(r) == is_workspace_member(r)
workspace_members_delete(r) == is_workspace_member(r)

workspace_invitations_select(r, e) ==
    is_workspace_member(r) \/ e = SessionUser(r)
workspace_invitations_insert(r) == is_workspace_member(r)
workspace_invitations_update(r, e) ==
    is_workspace_member(r) \/ e = SessionUser(r)

(* All rows of audit_logs here have a workspace.                           *)
audit_logs_select(r) == is_workspace_member(r)
audit_logs_insert(r) == is_workspace_member(r)

SelectPolicy(r, s) ==
    CASE s.table = "workspaces" ->
            workspace_select(r, IF s = AddWorkspace THEN req[r].caller
                                ELSE OwnerSeen(r))
      [] s.table = "workspace_members" -> workspace_members_select(r)
      [] s.table = "workspace_invitations" ->
            workspace_invitations_select(r, req[r].target)
      [] s.table = "audit_logs" -> audit_logs_select(r)

WritePolicy(r, s) ==
    CASE s = AddWorkspace  -> workspace_insert(r, req[r].caller)
      [] s = AddMember     -> workspace_members_insert(r, req[r].target)
      [] s = ChangeMember  -> workspace_members_update(r)
      [] s = DropMember    -> workspace_members_delete(r)
      [] s = AddInvitation -> workspace_invitations_insert(r)
      [] s = UseInvitation -> workspace_invitations_update(r, req[r].target)
      [] s = Audit         -> audit_logs_insert(r)
      [] OTHER             -> TRUE      \* it only reads

Admitted(r, s) ==
    \/ role = "owner"
    \/ /\ SessionUser(r) \in Users
       /\ SelectPolicy(r, s)
       /\ WritePolicy(r, s)

(* The next statement of r has an open transaction to run in.              *)
Ready(r) ==
    /\ req[r].conn # None
    /\ req[r].todo # <<>>
    /\ Head(req[r].todo).cmd \notin {"commit", "mail"}

(* It finds its row, or may insert it: an address may be invited again.    *)
Succeeds(r) ==
    LET s == Head(req[r].todo) IN
    /\ Admitted(r, s)
    /\ s = AddInvitation \/ (s.cmd = "insert" <=> ~RowThere(r, s))

-----------------------------------------------------------------------------
(* get_current_user: the transaction begins on a free connection and is
   bound to the caller.                                                    *)

Arrive(r, op, u, w, t, c) ==
    /\ req[r] = Idle
    /\ Free(c)
    /\ CASE op = "create" -> /\ t = u
                             /\ owner[w] = None
                             /\ \A q \in Requests : req[q].ws # w
         [] op = "accept" -> t = u /\ <<w, u>> \in mailed
         [] OTHER         -> owner[w] # None
    /\ \E script \in Scripts[op] :
          Become(r, [Idle EXCEPT !.caller = u, !.ws = w, !.target = t,
                                 !.conn = c, !.todo = script])
    /\ app_user_id' = [app_user_id EXCEPT ![c] = u]
    /\ UNCHANGED <<role, tables>>

(* Mutant of Unbind: SET instead of SET LOCAL.                             *)
UnbindSession(c) == UNCHANGED app_user_id

(* The end of a transaction takes back what SET LOCAL set; a setting that
   has been used once in a session is then the empty string, not NULL.     *)
Unbind(c) ==
    app_user_id' = IF c = None \/ app_user_id[c] = None THEN app_user_id
                   ELSE [app_user_id EXCEPT ![c] = Blank]

(* The handler ends, however: the session closes and rolls back.           *)
Close(r) ==
    /\ Become(r, Idle)
    /\ Unbind(req[r].conn)
    /\ UNCHANGED <<role, tables>>

-----------------------------------------------------------------------------
(* The first statement after a commit.                                     *)
BeginAgain(r, c) ==
    /\ req[r].conn = None
    /\ req[r].todo # <<>>
    /\ Head(req[r].todo).cmd # "mail"
    /\ Free(c)
    /\ Become(r, [req[r] EXCEPT !.conn = c])
    /\ UNCHANGED <<role, tables, app_user_id>>

Execute(r) ==
    LET s == Head(req[r].todo)
        rest == Tail(req[r].todo) IN
    /\ Ready(r)
    /\ Succeeds(r)
    /\ Become(r, [req[r] EXCEPT
                    !.todo = IF s.cmd = "lookup" THEN Tail(rest) ELSE rest,
                    !.written = IF s.cmd \in Writes THEN @ \cup {s} ELSE @])
    /\ UNCHANGED <<role, tables, app_user_id>>

(* No row: a list is empty, a lookup goes on to its INSERT, a DELETE only
   warns, and every other statement ends the handler: 403, 404 or 500.  The
   empty string, which does not convert to uuid, fails every statement.    *)
ExecuteInVain(r) ==
    LET s == Head(req[r].todo) IN
    /\ Ready(r)
    /\ ~Succeeds(r)
    /\ \/ /\ s.cmd \in {"list", "lookup", "delete"}
          /\ role = "owner" \/ SessionUser(r) # Blank
          /\ Become(r, [req[r] EXCEPT !.todo = Tail(@)])
          /\ UNCHANGED <<role, tables, app_user_id>>
       \/ /\ \/ s.cmd \notin {"list", "lookup", "delete"}
             \/ role = "bound" /\ SessionUser(r) = Blank
          /\ Close(r)

(* The writes become visible together.  When an invitation is used, others
   of its address may still be pending.                                    *)
CommitTransaction(r) ==
    LET row == <<req[r].ws, req[r].target>>
        RowIf(s) == IF Wrote(r, s) THEN {row} ELSE {} IN
    /\ req[r].todo # <<>>
    /\ Head(req[r].todo) = Commit
    /\ owner' = [owner EXCEPT ![req[r].ws] = OwnerSeen(r)]
    /\ members' = (members \cup RowIf(AddMember)) \ RowIf(DropMember)
    /\ invitations' = invitations \cup RowIf(AddInvitation)
    /\ mailed' \in {mailed, mailed \ RowIf(UseInvitation)}
    /\ Become(r, [req[r] EXCEPT !.todo = Tail(@), !.conn = None,
                                !.written = {}, !.committed = TRUE])
    /\ Unbind(req[r].conn)
    /\ UNCHANGED role

SendInvitation(r) ==
    /\ req[r].todo # <<>>
    /\ Head(req[r].todo) = Mail
    /\ mailed' = mailed \cup {<<req[r].ws, req[r].target>>}
    /\ Become(r, [req[r] EXCEPT !.todo = Tail(@)])
    /\ UNCHANGED <<role, owner, members, invitations, app_user_id>>

(* The endpoint is done, or the handler dies or turns the caller away (no
   permission, an owner to remove, an invitation already used).            *)
End(r) ==
    /\ req[r] # Idle
    /\ Close(r)

(* The server is started with another DATABASE_URL: its connections and its
   requests are gone.                                                      *)
Redeploy ==
    /\ role' \in Roles \ {role}
    /\ app_user_id' = [c \in Connections |-> None]
    /\ req' = [r \in Requests |-> Idle]
    /\ UNCHANGED tables

-----------------------------------------------------------------------------
Init ==
    /\ role \in Roles
    /\ owner = [w \in Workspaces |-> None]
    /\ members = {}
    /\ invitations = {}
    /\ mailed = {}
    /\ app_user_id = [c \in Connections |-> None]
    /\ req = [r \in Requests |-> Idle]

Continue(r) ==
    \/ \E c \in Connections : BeginAgain(r, c)
    \/ Execute(r) \/ ExecuteInVain(r)
    \/ CommitTransaction(r) \/ SendInvitation(r) \/ End(r)

Next ==
    \/ \E r \in Requests :
          \/ \E op \in DOMAIN Scripts, u, t \in Users, w \in Workspaces,
                c \in Connections : Arrive(r, op, u, w, t, c)
          \/ Continue(r)
    \/ Redeploy

Spec == Init /\ [][Next]_vars

-----------------------------------------------------------------------------
(* Properties.                                                             *)

(* Types, and: two handlers never share a connection.
   About: async_session_factory, core/db.py:12-22.                         *)
TypeOK ==
    /\ role \in Roles
    /\ owner \in [Workspaces -> Users \cup {None}]
    /\ members \subseteq Workspaces \X Users
    /\ mailed \subseteq invitations
    /\ invitations \subseteq Workspaces \X Users
    /\ app_user_id \in [Connections -> Users \cup {None, Blank}]
    /\ req \in [Requests -> Request]
    /\ \A r, q \in Requests :
          req[r].conn = req[q].conn /\ req[r].conn # None => r = q

(* A row that a statement may touch concerns its caller: the caller is a
   member or the owner of the workspace, or the invited address.           *)
Entitled(r) ==
    \/ MemberSeen(r, req[r].caller)
    \/ OwnerSeen(r) = req[r].caller
    \/ Head(req[r].todo) = AddWorkspace
    \/ /\ Head(req[r].todo).table = "workspace_invitations"
       /\ req[r].target = req[r].caller

(* No statement returns or writes a row that its caller is not entitled to,
   a raw query of an endpoint without checks included.  About: "a raw query
   against these tables cannot return rows the current session user isn't
   entitled to", 0003_enable_rls.py:7-11.                                  *)
RawQueriesAreConfined ==
    \A r \in Requests : Ready(r) /\ Succeeds(r) => Entitled(r)

(* The same for a role that the policies bind, on connections that other
   callers have used before, and while memberships come and go.            *)
PoliciesConfine == role = "bound" => RawQueriesAreConfined

(* A connection is bound to a user only while a request of that user has
   its first transaction open on it.  About: "transaction-scoped, can't
   leak across requests even on a pooled connection", core/db.py:26-28.    *)
BindingEndsWithTransaction ==
    \A c \in Connections : app_user_id[c] \in Users =>
        \E r \in Requests : /\ req[r].conn = c
                            /\ req[r].caller = app_user_id[c]
                            /\ ~req[r].committed

(* The INSERT of a membership is admitted for the caller's own row, which
   is how workspaces get their first member and invited users theirs.
   About: "Insert is allowed either for yourself (workspace creation,
   invitation acceptance)", 0003_enable_rls.py:81-82.                      *)
OwnMembershipIsAdmitted ==
    \A r \in Requests :
        /\ role = "bound"
        /\ Ready(r) /\ Head(req[r].todo) = AddMember
        /\ SessionUser(r) = req[r].caller /\ req[r].target = req[r].caller
        => Admitted(r, AddMember)
=============================================================================
