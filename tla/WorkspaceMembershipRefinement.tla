------------------- MODULE WorkspaceMembershipRefinement -------------------
(***************************************************************************)
(* The membership tables seen as WorkspaceRoster.                          *)
(***************************************************************************)
EXTENDS WorkspaceMembership

OfferOf(i) ==
    IF invitations[i].status = "pending"
    THEN [ws |-> invitations[i].ws, user |-> invitations[i].email,
          role |-> invitations[i].role]
    ELSE [ws |-> None, user |-> None, role |-> None]

Roster == INSTANCE WorkspaceRoster WITH
    MaxOffers <- MaxInvitations,
    roster <- [w \in Workspaces |-> [u \in Users |-> get_member_role(w, u)]],
    founded <- {w \in Workspaces : owner[w] # None},
    offer <- [i \in Invitations |-> OfferOf(i)],
    issued <- nInvitations

(* The handlers implement WorkspaceRoster when requests do not overlap
   (Requests has one element): authorization still holds at the commit,
   invitations are used once, owners are not removed.  About: the service
   functions of workspace_service.py behind require_permission.            *)
ImplementsWorkspaceRoster == Roster!Spec
=============================================================================
