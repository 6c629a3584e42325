-------------------------- MODULE SessionFamilies --------------------------
(***************************************************************************)
(* What refresh-token rotation promises: a session is opened by a login    *)
(* and owned by one user; while it is open exactly one refresh token       *)
(* continues it, each use replaces that token by a fresh one, and a        *)
(* session that was ended (logout, detected reuse, password reset) never   *)
(* comes back.                                                             *)
(***************************************************************************)
EXTENDS Naturals

CONSTANTS Users, None, MaxTokens

VARIABLES
    owner,      \* owner[f]: the user of session f, None before its login
    current,    \* current[f]: the token that continues f, 0 when not open
    last        \* the last token handed out

vars == <<owner, current, last>>

Sessions == 1..MaxTokens

Init ==
    /\ owner = [f \in Sessions |-> None]
    /\ current = [f \in Sessions |-> 0]
    /\ last = 0

(* A session takes the name of its first token.                            *)
Open(u) ==
    /\ last < MaxTokens
    /\ last' = last + 1
    /\ owner' = [owner EXCEPT ![last'] = u]
    /\ current' = [current EXCEPT ![last'] = last']

Rotate(f) ==
    /\ current[f] # 0
    /\ last < MaxTokens
    /\ last' = last + 1
    /\ current' = [current EXCEPT ![f] = last']
    /\ UNCHANGED owner

End(f) ==
    /\ current' = [current EXCEPT ![f] = 0]
    /\ UNCHANGED <<owner, last>>

EndAll(u) ==
    /\ current' = [f \in Sessions |-> IF owner[f] = u THEN 0 ELSE current[f]]
    /\ UNCHANGED <<owner, last>>

Next ==
    \/ \E u \in Users : Open(u) \/ EndAll(u)
    \/ \E f \in Sessions : Rotate(f) \/ End(f)

Spec == Init /\ [][Next]_vars
=============================================================================
