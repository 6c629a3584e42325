--------------------------- MODULE RequestContext ---------------------------
(***************************************************************************)
(* The context variables of the log, app/core/logging.py, between          *)
(* RequestContextMiddleware and the dependencies of the endpoint.          *)
(*                                                                         *)
(* A ContextVar belongs to the context of a task.  call_next of            *)
(* BaseHTTPMiddleware runs the endpoint in a task of its own, whose        *)
(* context is a copy: it sees what the middleware has set, and what it     *)
(* sets stays in the copy.  The middleware writes the access log in its    *)
(* own context; whatever the endpoint logs is written in the copy.         *)
(***************************************************************************)
CONSTANTS
    Users,
    Workspaces,
    Requests,     \* request slots: how many requests may overlap
    None          \* the empty string of a variable that is not set

VARIABLES
    outer,   \* per request: the context of the middleware
    inner,   \* per request: the context of the endpoint's task
    pc,      \* per request: how far it is
    caller,  \* per request: the user that the access token named, or None
    log      \* per request: user and workspace of its "http.request" line

vars == <<outer, inner, pc, caller, log>>

-----------------------------------------------------------------------------
Context == [user_id : Users \cup {None}, workspace_id : Workspaces \cup {None}]

Unset == [user_id |-> None, workspace_id |-> None]

Step(r, from, to) ==
    /\ pc[r] = from
    /\ pc' = [pc EXCEPT ![r] = to]

(* dispatch, up to call_next.                                              *)
Dispatch(r) ==
    /\ Step(r, "idle", "dispatched")
    /\ outer' = [outer EXCEPT ![r] = Unset]
    /\ caller' = [caller EXCEPT ![r] = None]
    /\ UNCHANGED <<inner, log>>

(* call_next: a task with a copy of the context.                           *)
CallNext(r) ==
    /\ Step(r, "dispatched", "endpoint")
    /\ inner' = [inner EXCEPT ![r] = outer[r]]
    /\ UNCHANGED <<outer, caller, log>>

(* The last line of get_current_user.                                      *)
BindUser(r, u) ==
    /\ Step(r, "endpoint", "authenticated")
    /\ caller' = [caller EXCEPT ![r] = u]
    /\ inner' = [inner EXCEPT ![r].user_id = u]
    /\ UNCHANGED <<outer, log>>

(* The same of get_current_workspace.                                      *)
BindWorkspace(r, w) ==
    /\ Step(r, "authenticated", "authorized")
    /\ inner' = [inner EXCEPT ![r].workspace_id = w]
    /\ UNCHANGED <<outer, caller, log>>

(* The response is back in dispatch, with whatever status; what
   _bind_context_vars finds is written.                                    *)
LogRequest(r) ==
    /\ pc[r] \in {"endpoint", "authenticated", "authorized"}
    /\ pc' = [pc EXCEPT ![r] = "logged"]
    /\ log' = [log EXCEPT ![r] = outer[r]]
    /\ UNCHANGED <<outer, inner, caller>>

(* The slot takes the next request.                                        *)
Finish(r) ==
    /\ Step(r, "logged", "idle")
    /\ UNCHANGED <<outer, inner, caller, log>>

-----------------------------------------------------------------------------
Init ==
    /\ outer = [r \in Requests |-> Unset]
    /\ inner = [r \in Requests |-> Unset]
    /\ pc = [r \in Requests |-> "idle"]
    /\ caller = [r \in Requests |-> None]
    /\ log = [r \in Requests |-> Unset]

Next ==
    \E r \in Requests :
        \/ Dispatch(r) \/ CallNext(r) \/ LogRequest(r) \/ Finish(r)
        \/ \E u \in Users : BindUser(r, u)
        \/ \E w \in Workspaces : BindWorkspace(r, w)

Spec == Init /\ [][Next]_vars

-----------------------------------------------------------------------------
(* The access log names the user of an authenticated request.  About:
   "user_id/workspace_id are bound later by the auth/tenant dependencies
   once resolved, and included automatically if set",
   middleware/request_context.py:13-15.                                    *)
AccessLogNamesUser ==
    \A r \in Requests :
        pc[r] = "logged" /\ caller[r] # None => log[r].user_id = caller[r]
=============================================================================
