----------------------- MODULE MCWorkspaceMembership -----------------------
EXTENDS WorkspaceMembershipRefinement, TLC

(* Users, workspaces and request slots are interchangeable.                *)
Symmetry == Permutations(Users) \cup Permutations(Workspaces)
                \cup Permutations(Requests)
=============================================================================
