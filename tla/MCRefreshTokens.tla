-------------------------- MODULE MCRefreshTokens --------------------------
EXTENDS RefreshTokensRefinement, TLC

(* Request slots, passwords and users are interchangeable.                 *)
Symmetry == Permutations(Requests) \cup Permutations(Passwords)
                \cup Permutations(Users)
=============================================================================
