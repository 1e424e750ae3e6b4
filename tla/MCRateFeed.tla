----------------------------- MODULE MCRateFeed -----------------------------
(***************************************************************************)
(* Instances of RateFeed for TLC.                                          *)
(***************************************************************************)
EXTENDS RateFeed, TLC

CONSTANTS home, other

=============================================================================
