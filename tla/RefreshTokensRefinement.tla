---------------------- MODULE RefreshTokensRefinement ----------------------
(***************************************************************************)
(* The session tables seen as SessionFamilies.                             *)
(***************************************************************************)
EXTENDS RefreshTokens

OwnerOf(f) == IF f \in Issued /\ Family(f) = f
              THEN refresh_tokens[f].user_id
              ELSE None

CurrentOf(f) ==
    IF \E t \in Issued : Live(t) /\ Family(t) = f
    THEN CHOOSE t \in Issued : Live(t) /\ Family(t) = f
    ELSE 0

Families == INSTANCE SessionFamilies WITH
                owner <- [f \in Tokens |-> OwnerOf(f)],
                current <- [f \in Tokens |-> CurrentOf(f)],
                last <- nTokens

(* The handlers implement SessionFamilies when requests do not overlap
   (Requests has one element): a rotation replaces the session's only live
   token, and logout, reuse detection and reset end sessions for good.
   About: login, refresh, logout and reset-password of auth_service.py.    *)
ImplementsSessionFamilies == Families!Spec
=============================================================================
