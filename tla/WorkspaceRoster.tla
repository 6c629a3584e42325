-------------------------- MODULE WorkspaceRoster --------------------------
(***************************************************************************)
(* What workspace membership promises: whoever can manage members decides  *)
(* who is in, at the moment the change happens; a newcomer needs an offer  *)
(* of their own, which is used at most once and never alters a role that   *)
(* its user already has; an owner is not removed.                          *)
(***************************************************************************)
EXTENDS Naturals, Rbac

CONSTANTS Users, Workspaces, None, MaxOffers

VARIABLES
    roster,   \* roster[w][u]: the role of u in w, None when not a member
    founded,  \* workspaces that exist
    offer,    \* outstanding offers by number, NoOffer when settled
    issued    \* offers made so far

vars == <<roster, founded, offer, issued>>

NoOffer == [ws |-> None, user |-> None, role |-> None]

Decides(a, w) == role_has_permission(roster[w][a], "manage_members")

Init ==
    /\ roster = [w \in Workspaces |-> [u \in Users |-> None]]
    /\ founded = {}
    /\ offer = [i \in 1..MaxOffers |-> NoOffer]
    /\ issued = 0

Found(u, w) ==
    /\ w \notin founded
    /\ founded' = founded \cup {w}
    /\ roster' = [roster EXCEPT ![w][u] = "owner"]
    /\ UNCHANGED <<offer, issued>>

Invite(a, w, u, role) ==
    /\ Decides(a, w)
    /\ issued < MaxOffers
    /\ issued' = issued + 1
    /\ offer' = [offer EXCEPT ![issued'] =
                    [ws |-> w, user |-> u, role |-> role]]
    /\ UNCHANGED <<roster, founded>>

Join(i) ==
    /\ offer[i] # NoOffer
    /\ roster' = [roster EXCEPT ![offer[i].ws][offer[i].user] =
                     IF @ = None THEN offer[i].role ELSE @]
    /\ offer' = [offer EXCEPT ![i] = NoOffer]
    /\ UNCHANGED <<founded, issued>>

Lapse(i) ==
    /\ offer' = [offer EXCEPT ![i] = NoOffer]
    /\ UNCHANGED <<roster, founded, issued>>

SetRole(a, w, u, role) ==
    /\ Decides(a, w)
    /\ roster[w][u] # None
    /\ roster' = [roster EXCEPT ![w][u] = role]
    /\ UNCHANGED <<founded, offer, issued>>

Remove(a, w, u) ==
    /\ Decides(a, w)
    /\ roster[w][u] # "owner"
    /\ roster' = [roster EXCEPT ![w][u] = None]
    /\ UNCHANGED <<founded, offer, issued>>

Next ==
    \/ \E u \in Users, w \in Workspaces : Found(u, w)
    \/ \E a, u \in Users, w \in Workspaces :
          \/ Remove(a, w, u)
          \/ \E role \in WorkspaceRole :
                Invite(a, w, u, role) \/ SetRole(a, w, u, role)
    \/ \E i \in 1..MaxOffers : Join(i) \/ Lapse(i)

Spec == Init /\ [][Next]_vars
=============================================================================
