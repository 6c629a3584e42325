------------------------- MODULE MCRowLevelSecurity -------------------------
EXTENDS RowLevelSecurity, TLC

(* Users, workspaces, request slots and connections are interchangeable.   *)
Symmetry == Permutations(Users) \cup Permutations(Workspaces)
                \cup Permutations(Requests) \cup Permutations(Connections)
=============================================================================
