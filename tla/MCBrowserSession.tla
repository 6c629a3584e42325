-------------------------- MODULE MCBrowserSession --------------------------
(***************************************************************************)
(* The sessions behind browsers, with the refinement that they keep.       *)
(***************************************************************************)
EXTENDS BrowserSession, RefreshTokensRefinement
=============================================================================
