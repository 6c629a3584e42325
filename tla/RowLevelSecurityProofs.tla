----------------------- MODULE RowLevelSecurityProofs -----------------------
(***************************************************************************)
(* The safety properties of RowLevelSecurity, for every set of users,      *)
(* workspaces, request slots and pooled connections.                       *)
(***************************************************************************)
EXTENDS RowLevelSecurity, Naturals, TLAPS

-----------------------------------------------------------------------------
(* The inductive invariant.                                                *)

(* What holds of the record h of a handler, with inv the invitations that
   are committed and ro the role of the connections.                       *)

(* Who has still something to do does it for a user, about a user, in a
   workspace.                                                              *)
InWorkspace(h) ==
    h.todo # <<>> => h.caller \in Users /\ h.ws \in Workspaces
                                        /\ h.target \in Users

(* Members are only ever inserted for the caller, by create and accept.    *)
AddsItself(h) ==
    \A i \in 1..Len(h.todo) : h.todo[i] = AddMember => h.target = h.caller

(* A lookup comes just before the INSERT that it leaves out.               *)
LooksUpFirst(h) ==
    \A i \in 1..Len(h.todo) :
        h.todo[i] = LookUpMember =>
            i < Len(h.todo) /\ h.todo[i + 1] = AddMember

(* A mail is still to come only for an invitation that is in the table, or
   that the handler has inserted or will insert before it commits.         *)
MailsInvitation(h, inv) ==
    \A i \in 1..Len(h.todo) :
        h.todo[i] = Mail =>
            \/ <<h.ws, h.target>> \in inv
            \/ \E j \in 1..(i - 1) :
                  /\ h.todo[j] = Commit
                  /\ \/ AddInvitation \in h.written
                     \/ \E k \in 1..(j - 1) : h.todo[k] = AddInvitation

(* Between the commit and the mail there is a refresh of the invitation.   *)
RefreshesBeforeMail(h) ==
    \A i \in 1..Len(h.todo) :
        h.todo[i] = Mail =>
            \E j \in 1..(i - 1) :
                /\ h.todo[j] = ReadInvitation
                /\ h.committed \/ \E k \in 1..(j - 1) : h.todo[k] = Commit

HandlerOK(h, inv, ro) ==
    /\ InWorkspace(h)
    /\ AddsItself(h)
    /\ LooksUpFirst(h)
    /\ MailsInvitation(h, inv)
    /\ ro = "bound" => RefreshesBeforeMail(h) /\ AddMember \notin h.written

HandlersOK == \A r \in Requests : HandlerOK(req[r], invitations, role)

IInv ==
    /\ TypeOK
    /\ BindingEndsWithTransaction
    /\ HandlersOK

-----------------------------------------------------------------------------
(* Lemmas on statements and scripts.                                       *)

(* Reads and writes are statements, and they are told apart.               *)
LEMMA StatementKinds ==
  /\ \A s \in WriteStatements : s.cmd \in Writes
  /\ \A s \in ReadStatements : s.cmd \in {"select", "list", "lookup"}
  /\ \A s \in WriteStatements \cup ReadStatements :
        s.table \in {"workspaces", "workspace_members",
                     "workspace_invitations", "audit_logs"}
  /\ Commit.cmd = "commit" /\ Mail.cmd = "mail"
  /\ \A s \in ReadStatements : s.cmd = "lookup" => s = LookUpMember
<1> USE DEF CallersRole, ReadMember, AddMember, ChangeMember, DropMember,
      ReadWorkspace, AddWorkspace, ReadInvitation, AddInvitation,
      UseInvitation, Audit, LookUpMember, ListWorkspace, ListMember, ListOwn,
      Commit, Mail, Stmt
<1>1. \A s \in WriteStatements :
         /\ s.cmd \in Writes
         /\ s.table \in {"workspaces", "workspace_members",
                         "workspace_invitations", "audit_logs"}
  BY DEF WriteStatements, Writes
<1>2. \A s \in ReadStatements :
         /\ s.cmd \in {"select", "list", "lookup"}
         /\ s.table \in {"workspaces", "workspace_members",
                         "workspace_invitations", "audit_logs"}
  BY DEF ReadStatements
<1>3. \A s \in ReadStatements : s.cmd = "lookup" => s = LookUpMember
  BY DEF ReadStatements
<1>4. Commit.cmd = "commit" /\ Mail.cmd = "mail"
  OBVIOUS
<1> HIDE DEF CallersRole, ReadMember, AddMember, ChangeMember, DropMember,
      ReadWorkspace, AddWorkspace, ReadInvitation, AddInvitation,
      UseInvitation, Audit, LookUpMember, ListWorkspace, ListMember, ListOwn,
      Commit, Mail, Stmt
<1> QED  BY <1>1, <1>2, <1>3, <1>4

(* The statements that the invariants name differ from all the others.     *)
LEMMA StatementsDiffer ==
  /\ Mail \notin WriteStatements \cup ReadStatements \cup {Commit}
  /\ Commit \notin WriteStatements \cup ReadStatements
  /\ LookUpMember \notin (Statements \ {LookUpMember})
  /\ LookUpMember \notin WriteStatements
  /\ LookUpMember \notin {CallersRole, ReadMember, ReadWorkspace,
                          ReadInvitation, ListWorkspace, ListMember, ListOwn}
  /\ AddMember \notin {AddWorkspace, ChangeMember, DropMember, AddInvitation,
                       UseInvitation, Audit}
  /\ AddMember \notin ReadStatements
  /\ ReadInvitation # DropMember /\ ReadInvitation.cmd = "select"
  /\ AddInvitation.cmd = "insert"
  BY DEF Statements, WriteStatements, ReadStatements, CallersRole,
     ReadMember, AddMember, ChangeMember, DropMember, ReadWorkspace,
     AddWorkspace, ReadInvitation, AddInvitation, UseInvitation, Audit,
     LookUpMember, ListWorkspace, ListMember, ListOwn, Commit, Mail, Stmt

(* What every script has in common.  About: the order of the statements in
   the endpoints of workspace_service.py.                                  *)
LEMMA ScriptsInOrder ==
  ASSUME NEW op \in DOMAIN Scripts, NEW script \in Scripts[op]
  PROVE  /\ script \in Seq(Statements)
         /\ \A i \in 1..Len(script) :
               script[i] = AddMember => op \in {"create", "accept"}
         /\ \A i \in 1..Len(script) :
               script[i] = LookUpMember =>
                  i < Len(script) /\ script[i + 1] = AddMember
         /\ \A i \in 1..Len(script) :
               script[i] = Mail =>
                  /\ op = "invite" /\ i = 7
                  /\ script[3] = AddInvitation /\ script[5] = Commit
                  /\ script[6] = ReadInvitation
<1> USE StatementsDiffer
<1>1. op \in {"create", "mine", "get", "invite", "accept", "change",
              "remove", "list", "raw"}
  BY DEF Scripts
<1>2. CASE op = "create"
  <2>1. script = <<AddWorkspace, AddMember, Audit, Commit, ReadWorkspace>>
    BY <1>2 DEF Scripts
  <2> QED  BY <1>2, <2>1 DEF Statements, WriteStatements, ReadStatements
<1>3. CASE op = "get"
  <2>1. script = <<CallersRole, ReadWorkspace>>
    BY <1>3 DEF Scripts
  <2> QED  BY <2>1 DEF Statements, WriteStatements, ReadStatements
<1>4. CASE op = "invite"
  <2>1. script = <<CallersRole, ReadWorkspace, AddInvitation, Audit, Commit,
                   ReadInvitation, Mail>>
    BY <1>4 DEF Scripts
  <2> QED  BY <1>4, <2>1 DEF Statements, WriteStatements, ReadStatements
<1>5. CASE op = "accept"
  <2>1. script = <<ReadInvitation, LookUpMember, AddMember, UseInvitation,
                   Audit, Commit, ReadWorkspace, CallersRole>>
    BY <1>5 DEF Scripts
  <2> QED  BY <1>5, <2>1 DEF Statements, WriteStatements, ReadStatements
<1>6. CASE op = "change"
  <2>1. script = <<CallersRole, ReadMember, ChangeMember, Audit, Commit>>
    BY <1>6 DEF Scripts
  <2> QED  BY <2>1 DEF Statements, WriteStatements, ReadStatements
<1>7. CASE op = "remove"
  <2>1. CASE script = <<CallersRole, ReadMember, DropMember, Audit, Commit>>
    BY <2>1 DEF Statements, WriteStatements, ReadStatements
  <2>2. CASE script = <<CallersRole, ReadMember, Audit, DropMember, Commit>>
    BY <2>2 DEF Statements, WriteStatements, ReadStatements
  <2> QED  BY <1>7, <2>1, <2>2 DEF Scripts
<1>8. CASE op = "list"
  <2>1. script = <<CallersRole, ListMember>>
    BY <1>8 DEF Scripts
  <2> QED  BY <2>1 DEF Statements, WriteStatements, ReadStatements
<1>9. CASE op = "raw"
  <2>1. script = <<ListWorkspace, ListMember, Commit,
                   ListWorkspace, ListMember>>
    BY <1>9 DEF Scripts
  <2> QED  BY <2>1 DEF Statements, WriteStatements, ReadStatements
<1>10. CASE op = "mine"
  <2>1. script = <<ListOwn>>
    BY <1>10 DEF Scripts
  <2> QED  BY <2>1 DEF Statements, WriteStatements, ReadStatements
<1> QED  BY <1>1, <1>2, <1>3, <1>4, <1>5, <1>6, <1>7, <1>8, <1>9, <1>10

(* A handler that has run its first statement.                             *)
LEMMA TailOf ==
  ASSUME NEW S, NEW s \in Seq(S), s # <<>>
  PROVE  /\ Head(s) = s[1] /\ Head(s) \in S /\ Tail(s) \in Seq(S)
         /\ Len(s) \in Nat /\ Len(s) > 0 /\ Len(Tail(s)) = Len(s) - 1
         /\ \A i \in 1..Len(Tail(s)) : Tail(s)[i] = s[i + 1]
  OBVIOUS

(* The next statement is done, or has found nothing, and the handler goes
   on: what holds of it still holds.                                       *)
LEMMA Advance ==
  ASSUME NEW h \in Request, NEW g \in Request, NEW inv, NEW new, NEW ro,
         HandlerOK(h, inv, ro), inv \subseteq new,
         h.todo # <<>>, g.todo = Tail(h.todo),
         g.caller = h.caller, g.ws = h.ws, g.target = h.target,
         Head(h.todo) = AddInvitation => AddInvitation \in g.written,
         Head(h.todo) # Commit =>
            h.written \subseteq g.written /\ g.committed = h.committed,
         Head(h.todo) = Commit =>
            /\ AddInvitation \in h.written => <<h.ws, h.target>> \in new
            /\ g.committed,
         ro = "bound" /\ Head(h.todo) = ReadInvitation => ~h.committed,
         ro = "bound" => AddMember \notin g.written
  PROVE  HandlerOK(g, new, ro)
<1> DEFINE s == h.todo
           t == g.todo
<1>1. /\ s \in Seq(Statements) /\ Head(s) = s[1] /\ t \in Seq(Statements)
      /\ Len(s) \in Nat /\ Len(s) > 0 /\ Len(t) = Len(s) - 1
      /\ \A i \in 1..Len(t) : t[i] = s[i + 1] /\ i + 1 \in 1..Len(s)
  <2>1. s \in Seq(Statements)
    BY DEF Request
  <2> QED  BY <2>1, TailOf
<1>2. InWorkspace(g)
  BY DEF HandlerOK, InWorkspace
<1>3. AddsItself(g)
  BY <1>1 DEF HandlerOK, AddsItself
<1>4. LooksUpFirst(g)
  BY <1>1 DEF HandlerOK, LooksUpFirst
<1>5. MailsInvitation(g, new)
  <2> SUFFICES ASSUME NEW i \in 1..Len(t), t[i] = Mail,
                      <<h.ws, h.target>> \notin new
               PROVE  \E j \in 1..(i - 1) :
                         /\ t[j] = Commit
                         /\ \/ AddInvitation \in g.written
                            \/ \E k \in 1..(j - 1) : t[k] = AddInvitation
    BY DEF MailsInvitation
  <2>1. PICK j \in 1..i :
           /\ s[j] = Commit
           /\ \/ AddInvitation \in h.written
              \/ \E k \in 1..(j - 1) : s[k] = AddInvitation
    BY <1>1 DEF HandlerOK, MailsInvitation
  <2>2. j # 1
    BY <1>1, <2>1
  <2>3. j - 1 \in 1..(i - 1) /\ t[j - 1] = Commit
    BY <1>1, <2>1, <2>2
  <2>4. CASE AddInvitation \in h.written
    <3>1. Head(s) # Commit
      BY <2>4
    <3> QED  BY <2>3, <2>4, <3>1
  <2>5. CASE \E k \in 1..(j - 1) : s[k] = AddInvitation
    <3>1. PICK k \in 1..(j - 1) : s[k] = AddInvitation
      BY <2>5
    <3>2. CASE k = 1
      BY <1>1, <2>3, <3>1, <3>2
    <3>3. CASE k # 1
      <4>1. k - 1 \in 1..((j - 1) - 1) /\ t[k - 1] = AddInvitation
        BY <1>1, <3>1, <3>3
      <4> QED  BY <2>3, <4>1
    <3> QED  BY <3>2, <3>3
  <2> QED  BY <2>1, <2>4, <2>5
<1>6. ro = "bound" => RefreshesBeforeMail(g)
  <2> SUFFICES ASSUME ro = "bound", NEW i \in 1..Len(t), t[i] = Mail
               PROVE  \E j \in 1..(i - 1) :
                         /\ t[j] = ReadInvitation
                         /\ \/ g.committed
                            \/ \E k \in 1..(j - 1) : t[k] = Commit
    BY DEF RefreshesBeforeMail
  <2>1. PICK j \in 1..i :
           /\ s[j] = ReadInvitation
           /\ h.committed \/ \E k \in 1..(j - 1) : s[k] = Commit
    BY <1>1 DEF HandlerOK, RefreshesBeforeMail
  <2>2. j # 1
    BY <1>1, <2>1
  <2>3. j - 1 \in 1..(i - 1) /\ t[j - 1] = ReadInvitation
    BY <1>1, <2>1, <2>2
  <2>4. CASE h.committed
    BY <2>3, <2>4
  <2>5. CASE \E k \in 1..(j - 1) : s[k] = Commit
    <3>1. PICK k \in 1..(j - 1) : s[k] = Commit
      BY <2>5
    <3>2. CASE k = 1
      BY <1>1, <2>3, <3>1, <3>2
    <3>3. CASE k # 1
      <4>1. k - 1 \in 1..((j - 1) - 1) /\ t[k - 1] = Commit
        BY <1>1, <3>1, <3>3
      <4> QED  BY <2>3, <4>1
    <3> QED  BY <3>2, <3>3
  <2> QED  BY <2>1, <2>4, <2>5
<1> QED  BY <1>2, <1>3, <1>4, <1>5, <1>6 DEF HandlerOK

(* More invitations do not hurt.                                           *)
LEMMA MoreInvitations ==
  ASSUME NEW h, NEW inv, NEW new, NEW ro, inv \subseteq new,
         HandlerOK(h, inv, ro)
  PROVE  HandlerOK(h, new, ro)
  BY DEF HandlerOK, MailsInvitation

(* The connection does not matter.                                         *)
LEMMA SameScript ==
  ASSUME NEW h, NEW g, NEW inv, NEW ro, HandlerOK(h, inv, ro),
         g.caller = h.caller, g.ws = h.ws, g.target = h.target,
         g.todo = h.todo, g.written = h.written, g.committed = h.committed
  PROVE  HandlerOK(g, inv, ro)
<1>1. InWorkspace(g)
  BY DEF HandlerOK, InWorkspace
<1>2. AddsItself(g)
  BY DEF HandlerOK, AddsItself
<1>3. LooksUpFirst(g)
  BY DEF HandlerOK, LooksUpFirst
<1>4. MailsInvitation(g, inv)
  BY DEF HandlerOK, MailsInvitation
<1>5. ro = "bound" => RefreshesBeforeMail(g) /\ AddMember \notin g.written
  BY DEF HandlerOK, RefreshesBeforeMail
<1> QED  BY <1>1, <1>2, <1>3, <1>4, <1>5 DEF HandlerOK

(* An empty slot is a request.                                             *)
LEMMA IdleTyped ==
  /\ Idle \in Request /\ Idle.conn = None
  /\ Idle.todo = <<>> /\ Idle.written = {}
  BY DEF Idle, Request

(* An empty slot satisfies what is asked of a request.                     *)
LEMMA IdleOK ==
  ASSUME NEW inv, NEW ro
  PROVE  HandlerOK(Idle, inv, ro)
<1>1. Len(Idle.todo) = 0
  BY IdleTyped
<1> QED
  BY <1>1, IdleTyped DEF HandlerOK, InWorkspace, AddsItself, LooksUpFirst,
     MailsInvitation, RefreshesBeforeMail

(* The facts of TypeOK in the form the proofs use.                         *)
LEMMA Fields ==
  ASSUME TypeOK
  PROVE  /\ \A r \in Requests :
              /\ req[r] \in Request
              /\ req[r].todo \in Seq(Statements)
              /\ req[r].written \subseteq WriteStatements
              /\ req[r].conn \in Connections \cup {None}
              /\ req[r].caller \in Users \cup {None}
         /\ \A r, q \in Requests :
              req[r].conn = req[q].conn /\ req[r].conn # None => r = q
         /\ \A c \in Connections : c # None
         /\ None \notin Users /\ Blank \notin Users
  BY ConstantsAssumption DEF TypeOK, Request

(* The slot of the request that moves takes its new record, no other slot
   changes.                                                                *)
LEMMA BecomeOnly ==
  ASSUME TypeOK, NEW r \in Requests, NEW h \in Request, Become(r, h)
  PROVE  /\ req' \in [Requests -> Request]
         /\ req'[r] = h
         /\ \A q \in Requests : q # r => req'[q] = req[q]
  BY DEF TypeOK, Become

(* The user a statement runs for is the caller, before the first commit.
   About: current_app_user_id(), 0003_enable_rls.py, on a pooled connection. *)
LEMMA SessionIsCaller ==
  ASSUME IInv, NEW r \in Requests, req[r].conn # None, SessionUser(r) \in Users
  PROVE  SessionUser(r) = req[r].caller /\ ~req[r].committed
  BY Fields DEF IInv, BindingEndsWithTransaction, SessionUser

-----------------------------------------------------------------------------
(* A handler goes on with its connection.                                  *)
LEMMA HandlerMoves ==
  ASSUME IInv, NEW r \in Requests, NEW g \in Request, Become(r, g),
         g.conn = req[r].conn, g.caller = req[r].caller,
         g.committed = req[r].committed,
         HandlerOK(g, invitations, role), mailed' \subseteq invitations,
         UNCHANGED <<role, owner, members, invitations, app_user_id>>
  PROVE  IInv'
<1> USE DEF IInv
<1>1. /\ req' \in [Requests -> Request] /\ req'[r] = g
      /\ \A q \in Requests : q # r => req'[q] = req[q]
  BY BecomeOnly
<1>2. \A q \in Requests : /\ req'[q].conn = req[q].conn
                          /\ req'[q].caller = req[q].caller
                          /\ req'[q].committed = req[q].committed
  BY <1>1
<1>3. TypeOK'
  BY <1>1, <1>2 DEF TypeOK
<1>4. BindingEndsWithTransaction'
  BY <1>2 DEF BindingEndsWithTransaction
<1>5. HandlersOK'
  BY <1>1 DEF HandlersOK
<1> QED  BY <1>3, <1>4, <1>5

(* The end of a transaction frees the connection and resets what it was
   bound to; the bindings of the others stay.  About: SET LOCAL.           *)
LEMMA TransactionEnds ==
  ASSUME IInv, NEW r \in Requests, NEW g \in Request, Become(r, g),
         g.conn = None, Unbind(req[r].conn)
  PROVE  /\ app_user_id' \in [Connections -> Users \cup {None, Blank}]
         /\ BindingEndsWithTransaction'
         /\ \A q, p \in Requests :
              req'[q].conn = req'[p].conn /\ req'[q].conn # None => q = p
<1> DEFINE c == req[r].conn
<1> USE Fields DEF IInv
<1>1. /\ req' \in [Requests -> Request] /\ req'[r] = g
      /\ \A q \in Requests : q # r => req'[q] = req[q]
  BY BecomeOnly
<1>2. /\ app_user_id' \in [Connections -> Users \cup {None, Blank}]
      /\ \A d \in Connections :
            app_user_id'[d] \in Users =>
               app_user_id'[d] = app_user_id[d] /\ d # c
  BY DEF TypeOK, Unbind
<1>3. BindingEndsWithTransaction'
  BY <1>1, <1>2 DEF BindingEndsWithTransaction
<1> QED  BY <1>1, <1>2, <1>3

(* The session closes: its transaction and the binding end with it.        *)
LEMMA StepClose ==
  ASSUME IInv, NEW r \in Requests, Close(r)
  PROVE  IInv'
<1> USE DEF IInv
<1>1. /\ Become(r, Idle) /\ Unbind(req[r].conn)
      /\ UNCHANGED <<role, owner, members, invitations, mailed>>
  BY DEF Close, tables
<1>2. /\ req' \in [Requests -> Request] /\ req'[r] = Idle
      /\ \A q \in Requests : q # r => req'[q] = req[q]
  BY <1>1, IdleTyped, BecomeOnly
<1>3. /\ app_user_id' \in [Connections -> Users \cup {None, Blank}]
      /\ BindingEndsWithTransaction'
      /\ \A q, p \in Requests :
           req'[q].conn = req'[p].conn /\ req'[q].conn # None => q = p
  BY <1>1, IdleTyped, TransactionEnds
<1>4. TypeOK'
  BY <1>1, <1>2, <1>3 DEF TypeOK
<1>5. HandlersOK'
  BY <1>1, <1>2, IdleOK DEF HandlersOK
<1> QED  BY <1>3, <1>4, <1>5

(* A request arrives, with the statements that it will run.                *)
LEMMA StepArrive ==
  ASSUME IInv, NEW r \in Requests, NEW op \in DOMAIN Scripts,
         NEW u \in Users, NEW t \in Users, NEW w \in Workspaces,
         NEW c \in Connections, Arrive(r, op, u, w, t, c)
  PROVE  IInv'
<1> USE Fields DEF IInv
<1>1. PICK script \in Scripts[op] :
         Become(r, [Idle EXCEPT !.caller = u, !.ws = w, !.target = t,
                                !.conn = c, !.todo = script])
  BY DEF Arrive
<1> DEFINE h == [Idle EXCEPT !.caller = u, !.ws = w, !.target = t,
                             !.conn = c, !.todo = script]
<1>2. /\ req[r].conn = None /\ Free(c)
      /\ op \in {"create", "accept"} => t = u
      /\ app_user_id' = [app_user_id EXCEPT ![c] = u]
      /\ UNCHANGED <<role, owner, members, invitations, mailed>>
  BY IdleTyped DEF Arrive, tables
<1>3. /\ script \in Seq(Statements)
      /\ \A i \in 1..Len(script) :
            script[i] = AddMember => op \in {"create", "accept"}
      /\ \A i \in 1..Len(script) :
            script[i] = LookUpMember =>
               i < Len(script) /\ script[i + 1] = AddMember
      /\ \A i \in 1..Len(script) :
            script[i] = Mail =>
               /\ op = "invite" /\ i = 7
               /\ script[3] = AddInvitation /\ script[5] = Commit
               /\ script[6] = ReadInvitation
  BY ScriptsInOrder
<1>4. /\ h \in Request /\ h.caller = u /\ h.ws = w /\ h.target = t
      /\ h.conn = c /\ h.todo = script /\ h.written = {}
  BY <1>3 DEF Idle, Request
<1>5. ~h.committed
  BY DEF Idle
<1>6. Become(r, h)
  BY <1>1
<1> HIDE DEF h
<1>7. /\ req' \in [Requests -> Request] /\ req'[r] = h
      /\ \A q \in Requests : q # r => req'[q] = req[q]
  BY <1>4, <1>6, BecomeOnly
<1>8. TypeOK'
  <2>1. app_user_id' \in [Connections -> Users \cup {None, Blank}]
    BY <1>2 DEF TypeOK
  <2>2. \A q, p \in Requests :
           req'[q].conn = req'[p].conn /\ req'[q].conn # None => q = p
    BY <1>2, <1>4, <1>7 DEF Free
  <2> QED  BY <1>2, <1>7, <2>1, <2>2 DEF TypeOK
<1>9. BindingEndsWithTransaction'
  <2> SUFFICES ASSUME NEW d \in Connections, app_user_id'[d] \in Users
               PROVE  \E q \in Requests : /\ req'[q].conn = d
                                          /\ req'[q].caller = app_user_id'[d]
                                          /\ ~req'[q].committed
    BY DEF BindingEndsWithTransaction
  <2>1. CASE d = c
    BY <1>2, <1>4, <1>5, <1>7, <2>1 DEF TypeOK
  <2>2. CASE d # c
    <3>1. app_user_id'[d] = app_user_id[d]
      BY <1>2, <2>2 DEF TypeOK
    <3>2. PICK q \in Requests : /\ req[q].conn = d
                                /\ req[q].caller = app_user_id[d]
                                /\ ~req[q].committed
      BY <3>1 DEF BindingEndsWithTransaction
    <3>3. q # r
      BY <1>2, <3>2
    <3> QED  BY <1>7, <3>1, <3>2, <3>3
  <2> QED  BY <2>1, <2>2
<1>10. HandlerOK(h, invitations, role)
  <2>1. InWorkspace(h)
    BY <1>4 DEF InWorkspace
  <2>2. AddsItself(h)
    BY <1>2, <1>3, <1>4 DEF AddsItself
  <2>3. LooksUpFirst(h)
    BY <1>3, <1>4 DEF LooksUpFirst
  <2>4. MailsInvitation(h, invitations)
    <3>1. 3 \in 1..4 /\ 5 \in 1..6
      OBVIOUS
    <3> QED  BY <1>3, <1>4, <3>1 DEF MailsInvitation
  <2>5. RefreshesBeforeMail(h)
    <3>1. 5 \in 1..5 /\ 6 \in 1..6
      OBVIOUS
    <3> QED  BY <1>3, <1>4, <3>1 DEF RefreshesBeforeMail
  <2> QED  BY <1>4, <2>1, <2>2, <2>3, <2>4, <2>5 DEF HandlerOK
<1>11. HandlersOK'
  BY <1>2, <1>7, <1>10 DEF HandlersOK
<1> QED  BY <1>8, <1>9, <1>11

(* After a commit the session begins a transaction that has no binding.    *)
LEMMA StepBeginAgain ==
  ASSUME IInv, NEW r \in Requests, NEW c \in Connections, BeginAgain(r, c)
  PROVE  IInv'
<1> DEFINE h == [req[r] EXCEPT !.conn = c]
<1> USE Fields DEF IInv
<1>1. /\ req[r].conn = None /\ Free(c) /\ Become(r, h)
      /\ UNCHANGED <<role, owner, members, invitations, mailed, app_user_id>>
  BY DEF BeginAgain, tables
<1>2. /\ h \in Request /\ h.conn = c /\ h.caller = req[r].caller
      /\ h.ws = req[r].ws /\ h.target = req[r].target
      /\ h.todo = req[r].todo /\ h.written = req[r].written
      /\ h.committed = req[r].committed
  BY DEF Request
<1> HIDE DEF h
<1>3. /\ req' \in [Requests -> Request] /\ req'[r] = h
      /\ \A q \in Requests : q # r => req'[q] = req[q]
  BY <1>1, <1>2, BecomeOnly
<1>4. TypeOK'
  <2>1. \A q, p \in Requests :
           req'[q].conn = req'[p].conn /\ req'[q].conn # None => q = p
    BY <1>1, <1>2, <1>3 DEF Free
  <2> QED  BY <1>1, <1>3, <2>1 DEF TypeOK
<1>5. BindingEndsWithTransaction'
  BY <1>1, <1>3 DEF BindingEndsWithTransaction
<1>6. HandlersOK'
  <2>1. HandlerOK(h, invitations, role)
    BY <1>2, SameScript DEF HandlersOK
  <2> QED  BY <1>1, <1>3, <2>1 DEF HandlersOK
<1> QED  BY <1>4, <1>5, <1>6

-----------------------------------------------------------------------------
(* What a statement may do under a role that the policies bind.            *)

(* The statement that is next, when there is a transaction to run it in.   *)
LEMMA NextStatement ==
  ASSUME TypeOK, NEW r \in Requests, Ready(r)
  PROVE  LET s == Head(req[r].todo)
         IN  /\ req[r].todo # <<>> /\ s = req[r].todo[1]
             /\ s \in WriteStatements \cup ReadStatements
             /\ s # Commit /\ s # Mail
             /\ s.cmd \in Writes => s \in WriteStatements
             /\ s.cmd = "lookup" => s = LookUpMember
             /\ Tail(req[r].todo) \in Seq(Statements)
<1> DEFINE s == Head(req[r].todo)
<1>1. /\ req[r].todo # <<>> /\ req[r].todo \in Seq(Statements)
      /\ s.cmd \notin {"commit", "mail"}
  BY Fields DEF Ready
<1>2. /\ s = req[r].todo[1] /\ s \in Statements
      /\ Tail(req[r].todo) \in Seq(Statements)
  BY <1>1, TailOf
<1>3. s # Commit /\ s # Mail
  BY <1>1, StatementKinds
<1>4. s \in WriteStatements \cup ReadStatements
  BY <1>2, <1>3 DEF Statements
<1> QED  BY <1>1, <1>2, <1>3, <1>4, StatementKinds DEF Writes

(* The policies admit a statement only to its caller, in the transaction
   of the caller, about rows that concern the caller.                      *)
LEMMA BoundStatement ==
  ASSUME IInv, NEW r \in Requests, role = "bound", Ready(r), Succeeds(r)
  PROVE  LET s == Head(req[r].todo)
         IN  /\ SessionUser(r) = req[r].caller /\ ~req[r].committed
             /\ SelectPolicy(r, s)
             /\ Entitled(r)
<1> DEFINE s == Head(req[r].todo)
<1> USE DEF IInv
<1>1. SessionUser(r) \in Users /\ SelectPolicy(r, s)
  BY DEF Succeeds, Admitted
<1>2. SessionUser(r) = req[r].caller /\ ~req[r].committed
  BY <1>1, SessionIsCaller DEF Ready
<1>3. s.table \in {"workspaces", "workspace_members",
                   "workspace_invitations", "audit_logs"}
  BY NextStatement, StatementKinds
<1> HIDE DEF s
<1>4. is_workspace_member(r) => MemberSeen(r, req[r].caller)
  BY <1>2 DEF is_workspace_member
<1>5. Entitled(r)
  <2>1. CASE s.table = "workspaces"
    <3>1. workspace_select(r, IF s = AddWorkspace THEN req[r].caller
                              ELSE OwnerSeen(r))
      BY <1>1, <2>1 DEF SelectPolicy
    <3> QED  BY <1>2, <1>4, <3>1 DEF workspace_select, Entitled, s
  <2>2. CASE s.table = "workspace_members"
    <3>1. workspace_members_select(r)
      BY <1>1, <2>2 DEF SelectPolicy
    <3> QED  BY <1>4, <3>1 DEF workspace_members_select, Entitled
  <2>3. CASE s.table = "workspace_invitations"
    <3>1. workspace_invitations_select(r, req[r].target)
      BY <1>1, <2>3 DEF SelectPolicy
    <3> QED  BY <1>2, <1>4, <2>3, <3>1
             DEF workspace_invitations_select, Entitled, s
  <2>4. CASE s.table = "audit_logs"
    <3>1. audit_logs_select(r)
      BY <1>1, <2>4 DEF SelectPolicy
    <3> QED  BY <1>4, <3>1 DEF audit_logs_select, Entitled
  <2> QED  BY <1>3, <2>1, <2>2, <2>3, <2>4
<1> QED  BY <1>1, <1>2, <1>5 DEF s

(* The INSERT of a member is refused: its RETURNING would need the row that
   it is about to write.                                                   *)
LEMMA NoMemberInserted ==
  ASSUME IInv, NEW r \in Requests, role = "bound", Ready(r), Succeeds(r)
  PROVE  Head(req[r].todo) # AddMember
<1> SUFFICES ASSUME Head(req[r].todo) = AddMember PROVE FALSE
  OBVIOUS
<1> USE DEF IInv
<1>1. /\ AddMember.cmd = "insert" /\ AddMember.table = "workspace_members"
      /\ AddMember.of = "target"
  BY DEF AddMember, Stmt
<1>2. is_workspace_member(r) /\ SessionUser(r) = req[r].caller
  BY <1>1, BoundStatement DEF SelectPolicy, workspace_members_select
<1>3. req[r].target = req[r].caller
  <2>1. 1 \in 1..Len(req[r].todo) /\ req[r].todo[1] = AddMember
    BY Fields, NextStatement, TailOf
  <2> QED  BY <2>1 DEF HandlersOK, HandlerOK, AddsItself
<1>4. ~RowThere(r, AddMember)
  BY <1>1, StatementsDiffer DEF Succeeds
<1>5. ~MemberSeen(r, req[r].target)
  BY <1>1, <1>4 DEF RowThere
<1> QED  BY <1>2, <1>3, <1>5 DEF is_workspace_member

(* A statement passes the policies; a write is noted, not yet committed.   *)
LEMMA StepExecute ==
  ASSUME IInv, NEW r \in Requests, Execute(r)
  PROVE  IInv'
<1> DEFINE h == req[r]
           s == Head(h.todo)
           w == IF s.cmd \in Writes THEN h.written \cup {s} ELSE h.written
           f == [h EXCEPT !.todo = Tail(h.todo), !.written = w]
           g == [h EXCEPT !.todo = IF s.cmd = "lookup"
                                   THEN Tail(Tail(h.todo)) ELSE Tail(h.todo),
                          !.written = w]
<1> USE DEF IInv
<1>1. /\ Ready(r) /\ Succeeds(r) /\ Become(r, g)
      /\ UNCHANGED <<role, owner, members, invitations, mailed, app_user_id>>
  BY DEF Execute, tables
<1>2. /\ h.todo # <<>> /\ s = h.todo[1]
      /\ s \in WriteStatements \cup ReadStatements /\ s # Commit
      /\ s.cmd \in Writes => s \in WriteStatements
      /\ s.cmd = "lookup" => s = LookUpMember
      /\ Tail(h.todo) \in Seq(Statements)
  BY <1>1, NextStatement
<1>3. /\ h \in Request /\ h.written \subseteq WriteStatements
      /\ HandlerOK(h, invitations, role)
  BY Fields DEF HandlersOK
<1>4. /\ w \subseteq WriteStatements /\ h.written \subseteq w
      /\ s = AddInvitation => AddInvitation \in w
      /\ s = LookUpMember => w = h.written
  BY <1>2, <1>3, StatementsDiffer, StatementKinds DEF Writes
<1>5. role = "bound" =>
         /\ s = ReadInvitation => ~h.committed
         /\ AddMember \notin w
  BY <1>1, <1>3, BoundStatement, NoMemberInserted DEF HandlerOK
<1> HIDE DEF w
<1>6. /\ f \in Request /\ f.todo = Tail(h.todo) /\ f.written = w
      /\ f.caller = h.caller /\ f.ws = h.ws /\ f.target = h.target
      /\ f.conn = h.conn
  BY <1>2, <1>3, <1>4 DEF Request
<1>7. f.committed = h.committed
  BY <1>3 DEF Request
<1> HIDE DEF f
<1>8. HandlerOK(f, invitations, role)
  BY <1>2, <1>3, <1>4, <1>5, <1>6, <1>7, Advance
<1>9. CASE s.cmd # "lookup"
  <2>1. g = f
    BY <1>9 DEF f
  <2>2. mailed' \subseteq invitations
    BY <1>1 DEF TypeOK
  <2> HIDE DEF g
  <2> QED  BY <1>1, <1>6, <1>7, <1>8, <2>1, <2>2, HandlerMoves
<1>10. CASE s.cmd = "lookup"
  <2>1. s = LookUpMember
    BY <1>2, <1>10
  <2>2. h.todo \in Seq(Statements) /\ Len(h.todo) > 0 /\ 1 \in 1..Len(h.todo)
        /\ 1 < Len(h.todo) /\ h.todo[2] = AddMember
    <3>1. h.todo \in Seq(Statements) /\ Len(h.todo) \in Nat /\ Len(h.todo) > 0
      BY <1>2, Fields, TailOf
    <3>2. 1 \in 1..Len(h.todo)
      BY <3>1
    <3>3. 1 < Len(h.todo) /\ h.todo[1 + 1] = AddMember
      BY <1>2, <1>3, <2>1, <3>2 DEF HandlerOK, LooksUpFirst
    <3> QED  BY <3>1, <3>2, <3>3
  <2>3. f.todo \in Seq(Statements) /\ f.todo # <<>> /\ Head(f.todo) = AddMember
    <3>1. /\ Len(f.todo) = Len(h.todo) - 1 /\ f.todo \in Seq(Statements)
          /\ \A i \in 1..Len(f.todo) : f.todo[i] = h.todo[i + 1]
      BY <1>2, <1>6, <2>2, TailOf
    <3>2. Len(h.todo) \in Nat
      BY <2>2
    <3>3. 1 \in 1..Len(f.todo) /\ Len(f.todo) > 0
      BY <2>2, <3>1, <3>2
    <3>4. f.todo # <<>>
      BY <3>3
    <3>5. Head(f.todo) = f.todo[1]
      BY <3>1, <3>4, TailOf
    <3> QED  BY <2>2, <3>1, <3>3, <3>4, <3>5
  <2>4. Tail(f.todo) \in Seq(Statements)
    BY <2>3, TailOf
  <2>5. /\ g \in Request /\ g.todo = Tail(f.todo) /\ g.written = w
        /\ g.caller = h.caller /\ g.ws = h.ws /\ g.target = h.target
        /\ g.conn = h.conn
    BY <1>3, <1>4, <1>6, <1>10, <2>4 DEF Request
  <2>6. g.committed = h.committed
    BY <1>3 DEF Request
  <2>7. mailed' \subseteq invitations
    BY <1>1 DEF TypeOK
  <2> HIDE DEF g
  <2>8. AddMember \notin {AddInvitation, Commit, ReadInvitation}
    BY StatementsDiffer DEF ReadStatements, WriteStatements
  <2>9. HandlerOK(g, invitations, role)
    BY <1>5, <1>6, <1>7, <1>8, <2>3, <2>5, <2>6, <2>8, Advance
  <2> QED  BY <1>1, <2>5, <2>6, <2>7, <2>9, HandlerMoves
<1> QED  BY <1>9, <1>10

(* A statement that finds no row or is turned away writes nothing.         *)
LEMMA StepExecuteInVain ==
  ASSUME IInv, NEW r \in Requests, ExecuteInVain(r)
  PROVE  IInv'
<1> DEFINE h == req[r]
           s == Head(h.todo)
           g == [h EXCEPT !.todo = Tail(h.todo)]
<1> USE DEF IInv
<1>1. CASE Close(r)
  BY <1>1, StepClose
<1>2. CASE ~Close(r)
  <2>1. /\ Ready(r) /\ s.cmd \in {"list", "lookup", "delete"} /\ Become(r, g)
        /\ UNCHANGED <<role, owner, members, invitations, mailed, app_user_id>>
    BY <1>2 DEF ExecuteInVain, tables
  <2>2. h.todo # <<>> /\ s # Commit /\ Tail(h.todo) \in Seq(Statements)
    BY <2>1, NextStatement
  <2>3. s # AddInvitation /\ s # ReadInvitation
    BY <2>1, StatementsDiffer
  <2>4. h \in Request /\ HandlerOK(h, invitations, role)
    BY Fields DEF HandlersOK
  <2>5. /\ g \in Request /\ g.todo = Tail(h.todo) /\ g.written = h.written
        /\ g.caller = h.caller /\ g.ws = h.ws /\ g.target = h.target
        /\ g.conn = h.conn /\ g.committed = h.committed
    BY <2>2, <2>4 DEF Request
  <2>6. mailed' \subseteq invitations
    BY <2>1 DEF TypeOK
  <2> HIDE DEF g
  <2>7. HandlerOK(g, invitations, role)
    BY <2>2, <2>3, <2>4, <2>5, Advance DEF HandlerOK
  <2> QED  BY <2>1, <2>5, <2>6, <2>7, HandlerMoves
<1> QED  BY <1>1, <1>2

(* COMMIT makes the writes permanent and drops the binding.                *)
LEMMA StepCommit ==
  ASSUME IInv, NEW r \in Requests, CommitTransaction(r)
  PROVE  IInv'
<1> DEFINE h == req[r]
           row == <<h.ws, h.target>>
           g == [h EXCEPT !.todo = Tail(h.todo), !.conn = None,
                          !.written = {}, !.committed = TRUE]
<1> USE Fields DEF IInv
<1>1. /\ h.todo # <<>> /\ Head(h.todo) = Commit /\ Become(r, g)
      /\ owner' = [owner EXCEPT ![h.ws] = OwnerSeen(r)]
      /\ members' \subseteq members \cup {row}
      /\ AddInvitation \in h.written => invitations' = invitations \cup {row}
      /\ AddInvitation \notin h.written => invitations' = invitations
      /\ mailed' \subseteq mailed
      /\ Unbind(h.conn) /\ role' = role
  BY DEF CommitTransaction, Wrote
<1>2. /\ h \in Request /\ h.todo \in Seq(Statements)
      /\ h.caller \in Users /\ row \in Workspaces \X Users
      /\ HandlerOK(h, invitations, role)
  BY <1>1 DEF HandlersOK, HandlerOK, InWorkspace
<1>3. Tail(h.todo) \in Seq(Statements)
  BY <1>1, <1>2, TailOf
<1>4. /\ g \in Request /\ g.todo = Tail(h.todo) /\ g.conn = None
      /\ g.caller = h.caller /\ g.ws = h.ws /\ g.target = h.target
      /\ g.written = {}
  BY <1>2, <1>3 DEF Request
<1>5. g.committed
  BY <1>2 DEF Request
<1>6. /\ invitations \subseteq invitations'
      /\ invitations' \subseteq Workspaces \X Users
      /\ AddInvitation \in h.written => row \in invitations'
  BY <1>1, <1>2 DEF TypeOK
<1>7. OwnerSeen(r) \in Users \cup {None}
  BY <1>2 DEF OwnerSeen, TypeOK
<1> HIDE DEF g
<1>8. /\ req' \in [Requests -> Request] /\ req'[r] = g
      /\ \A q \in Requests : q # r => req'[q] = req[q]
  BY <1>1, <1>4, BecomeOnly
<1>9. /\ app_user_id' \in [Connections -> Users \cup {None, Blank}]
      /\ BindingEndsWithTransaction'
      /\ \A q, p \in Requests :
           req'[q].conn = req'[p].conn /\ req'[q].conn # None => q = p
  BY <1>1, <1>4, TransactionEnds
<1>10. TypeOK'
  <2>1. owner' \in [Workspaces -> Users \cup {None}]
    BY <1>1, <1>7 DEF TypeOK
  <2>2. members' \subseteq Workspaces \X Users
    BY <1>1, <1>2 DEF TypeOK
  <2>3. mailed' \subseteq invitations'
    BY <1>1, <1>6 DEF TypeOK
  <2>4. role' \in Roles
    BY <1>1 DEF TypeOK
  <2> QED  BY <1>6, <1>8, <1>9, <2>1, <2>2, <2>3, <2>4 DEF TypeOK
<1>11. HandlersOK'
  <2>1. Commit \notin {AddInvitation, ReadInvitation}
    BY StatementsDiffer DEF WriteStatements, ReadStatements
  <2>2. HandlerOK(g, invitations', role)
    BY <1>1, <1>2, <1>4, <1>5, <1>6, <2>1, Advance
  <2>3. \A q \in Requests : q # r => HandlerOK(req'[q], invitations', role)
    BY <1>6, <1>8, MoreInvitations DEF HandlersOK
  <2> QED  BY <1>1, <1>8, <2>2, <2>3 DEF HandlersOK
<1> QED  BY <1>9, <1>10, <1>11

(* A mail that is next is that of an invitation in the table.              *)
LEMMA StepSendInvitation ==
  ASSUME IInv, NEW r \in Requests, SendInvitation(r)
  PROVE  IInv'
<1> DEFINE h == req[r]
           g == [h EXCEPT !.todo = Tail(h.todo)]
<1> USE Fields DEF IInv
<1>1. /\ h.todo # <<>> /\ Head(h.todo) = Mail /\ Become(r, g)
      /\ mailed' = mailed \cup {<<h.ws, h.target>>}
      /\ UNCHANGED <<role, owner, members, invitations, app_user_id>>
  BY DEF SendInvitation
<1>2. h \in Request /\ HandlerOK(h, invitations, role)
  BY DEF HandlersOK
<1>3. /\ Tail(h.todo) \in Seq(Statements) /\ h.todo[1] = Mail
      /\ 1 \in 1..Len(h.todo)
  BY <1>1, TailOf
<1>4. /\ g \in Request /\ g.todo = Tail(h.todo) /\ g.written = h.written
      /\ g.caller = h.caller /\ g.ws = h.ws /\ g.target = h.target
      /\ g.conn = h.conn /\ g.committed = h.committed
  BY <1>2, <1>3 DEF Request
<1>5. mailed' \subseteq invitations
  <2>1. <<h.ws, h.target>> \in invitations
    BY <1>2, <1>3 DEF HandlerOK, MailsInvitation
  <2> QED  BY <1>1, <2>1 DEF TypeOK
<1>6. Mail \notin {Commit, AddInvitation, ReadInvitation}
  BY StatementsDiffer DEF WriteStatements, ReadStatements
<1> HIDE DEF g
<1>7. HandlerOK(g, invitations, role)
  BY <1>1, <1>2, <1>4, <1>6, Advance DEF HandlerOK
<1> QED  BY <1>1, <1>4, <1>5, <1>7, HandlerMoves

(* A redeployment replaces the database role; the tables stay.             *)
LEMMA StepRedeploy ==
  ASSUME IInv, Redeploy
  PROVE  IInv'
<1> USE Fields, IdleTyped DEF IInv
<1>1. /\ role' \in Roles /\ UNCHANGED <<owner, members, invitations, mailed>>
      /\ app_user_id' = [c \in Connections |-> None]
      /\ req' = [r \in Requests |-> Idle]
  BY DEF Redeploy, tables
<1>2. TypeOK'
  BY <1>1 DEF TypeOK
<1>3. BindingEndsWithTransaction'
  BY <1>1 DEF BindingEndsWithTransaction
<1>4. HandlersOK'
  BY <1>1, IdleOK DEF HandlersOK
<1> QED  BY <1>2, <1>3, <1>4

(* Every step preserves the invariant: one case per action.                *)
LEMMA StepIInv == IInv /\ [Next]_vars => IInv'
<1> SUFFICES ASSUME IInv, [Next]_vars PROVE IInv'
  OBVIOUS
<1>1. ASSUME NEW r \in Requests, NEW op \in DOMAIN Scripts,
             NEW u \in Users, NEW t \in Users, NEW w \in Workspaces,
             NEW c \in Connections, Arrive(r, op, u, w, t, c)
      PROVE  IInv'
  BY <1>1, StepArrive
<1>2. ASSUME NEW r \in Requests, Continue(r)  PROVE IInv'
  <2>1. CASE \E c \in Connections : BeginAgain(r, c)
    BY <2>1, StepBeginAgain
  <2>2. CASE Execute(r)
    BY <2>2, StepExecute
  <2>3. CASE ExecuteInVain(r)
    BY <2>3, StepExecuteInVain
  <2>4. CASE CommitTransaction(r)
    BY <2>4, StepCommit
  <2>5. CASE SendInvitation(r)
    BY <2>5, StepSendInvitation
  <2>6. CASE End(r)
    BY <2>6, StepClose DEF End
  <2> QED  BY <1>2, <2>1, <2>2, <2>3, <2>4, <2>5, <2>6 DEF Continue
<1>3. CASE Redeploy
  BY <1>3, StepRedeploy
<1>4. CASE UNCHANGED vars
  <2>1. UNCHANGED <<role, owner, members, invitations, mailed,
                    app_user_id, req>>
    BY <1>4 DEF vars, tables
  <2>2. TypeOK'
    BY <2>1 DEF IInv, TypeOK
  <2> QED  BY <2>1, <2>2 DEF IInv, BindingEndsWithTransaction, HandlersOK
<1> QED  BY <1>1, <1>2, <1>3, <1>4 DEF Next

(* The empty tables and idle slots satisfy the invariant.                  *)
LEMMA InitIInv == Init => IInv
<1> SUFFICES ASSUME Init PROVE IInv
  OBVIOUS
<1> USE ConstantsAssumption, IdleTyped
<1>1. TypeOK
  BY DEF Init, TypeOK
<1>2. BindingEndsWithTransaction
  BY DEF Init, BindingEndsWithTransaction
<1>3. HandlersOK
  BY IdleOK DEF Init, HandlersOK
<1> QED  BY <1>1, <1>2, <1>3 DEF IInv

-----------------------------------------------------------------------------
(* What becomes of the program under a role that the policies bind.        *)

(* Under a bound role no statement after a commit finds a row, so that an
   invitation that was committed is never mailed.  About: db.refresh after
   db.commit, workspace_service.py:47-48 and 102-105, and 148-151.         *)
NothingAfterCommit ==
    role = "bound" =>
        /\ \A r \in Requests : Ready(r) /\ req[r].committed => ~Succeeds(r)
        /\ \A r \in Requests : req[r].todo # <<Mail>>

(* Under a bound role nobody becomes a member: the row that a creator or an
   invited user inserts for themselves is refused by the SELECT policy of
   the INSERT's RETURNING.  About: workspace_members_select and _insert,
   0003_enable_rls.py:79-100.                                              *)
NobodyJoinsWhenBound == [][role = "bound" => members' \subseteq members]_vars

-----------------------------------------------------------------------------
(* The theorems.                                                           *)

(* The inductive invariant holds of every behaviour.  About: the statements
   of the workspace endpoints on pooled connections, core/db.py:12-40.     *)
THEOREM InductiveInvariant == Spec => []IInv
<1>1. Init => IInv
  BY InitIInv
<1>2. IInv /\ [Next]_vars => IInv'
  BY StepIInv
<1> QED  BY <1>1, <1>2, PTL DEF Spec

(* Types, no two handlers share a connection, and only what is in the table
   of invitations is mailed.  About: async_session_factory, core/db.py.    *)
THEOREM TypeCorrect == Spec => []TypeOK
<1>1. IInv => TypeOK
  BY DEF IInv
<1> QED  BY <1>1, InductiveInvariant, PTL

(* SET LOCAL does not leak: a connection is bound to a user only while the
   first transaction of a request of this user has it, however many users
   take turns on it.  About: bind_request_user, core/db.py:25-40.          *)
THEOREM BindingsDoNotLeak == Spec => []BindingEndsWithTransaction
<1>1. IInv => BindingEndsWithTransaction
  BY DEF IInv
<1> QED  BY <1>1, InductiveInvariant, PTL

(* Under a role that they bind, the policies confine every statement, with
   or without a check in the endpoint, to rows that concern its caller.
   About: the policies of 0003_enable_rls.py.                              *)
THEOREM TenantsAreConfined == Spec => []PoliciesConfine
<1>1. IInv => PoliciesConfine
  BY BoundStatement DEF PoliciesConfine, RawQueriesAreConfined
<1> QED  BY <1>1, InductiveInvariant, PTL

(* Under such a role no statement after a commit finds a row, and no mail
   of an invitation is ever next.  About: the statements after db.commit,
   workspace_service.py:47-48, 102-105 and 148-151.                        *)
THEOREM CommitEndsTheRequest == Spec => []NothingAfterCommit
<1>1. IInv => NothingAfterCommit
  <2> SUFFICES ASSUME IInv, role = "bound", NEW r \in Requests
               PROVE  /\ Ready(r) /\ req[r].committed => ~Succeeds(r)
                      /\ req[r].todo # <<Mail>>
    BY DEF NothingAfterCommit
  <2>1. Ready(r) /\ req[r].committed => ~Succeeds(r)
    BY BoundStatement
  <2>2. req[r].todo # <<Mail>>
    <3>1. SUFFICES ASSUME req[r].todo = <<Mail>> PROVE FALSE
      OBVIOUS
    <3>2. Len(req[r].todo) = 1 /\ req[r].todo[1] = Mail
      BY <3>1
    <3>3. RefreshesBeforeMail(req[r])
      BY DEF IInv, HandlersOK, HandlerOK
    <3> QED  BY <3>2, <3>3 DEF RefreshesBeforeMail
  <2> QED  BY <2>1, <2>2
<1> QED  BY <1>1, InductiveInvariant, PTL

(* Under such a role no step adds a member: the policies refuse the row
   that a creator or an invited user inserts.  About: workspace_members_select
   and workspace_members_insert, 0003_enable_rls.py:79-100.                *)
THEOREM MembershipIsClosed == Spec => NobodyJoinsWhenBound
<1>1. ASSUME IInv, [Next]_vars, role = "bound"
      PROVE  members' \subseteq members
  <2>1. ASSUME NEW r \in Requests, CommitTransaction(r)
        PROVE  members' \subseteq members
    <3>1. AddMember \notin req[r].written
      BY <1>1 DEF IInv, HandlersOK, HandlerOK
    <3> QED  BY <2>1, <3>1 DEF CommitTransaction, Wrote
  <2>2. \/ members' = members
        \/ \E r \in Requests : CommitTransaction(r)
    <3>1. ASSUME NEW r \in Requests, Continue(r), ~CommitTransaction(r)
          PROVE  members' = members
      BY <3>1 DEF Continue, BeginAgain, Execute, ExecuteInVain,
         SendInvitation, End, Close, tables
    <3>2. ASSUME NEW r \in Requests, NEW op, NEW u, NEW t, NEW w, NEW c,
                 Arrive(r, op, u, w, t, c)
          PROVE  members' = members
      BY <3>2 DEF Arrive, tables
    <3>3. Redeploy \/ UNCHANGED vars => members' = members
      BY DEF Redeploy, vars, tables
    <3> QED  BY <1>1, <3>1, <3>2, <3>3 DEF Next
  <2> QED  BY <2>1, <2>2
<1>2. IInv /\ [Next]_vars => [role = "bound" => members' \subseteq members]_vars
  BY <1>1
<1>3. Spec => [][role = "bound" => members' \subseteq members]_vars
  BY <1>2, InductiveInvariant, PTL DEF Spec
<1> QED  BY <1>3 DEF NobodyJoinsWhenBound
=============================================================================
