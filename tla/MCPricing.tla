----------------------------- MODULE MCPricing -----------------------------
(***************************************************************************)
(* Instances of Pricing for TLC.  Amounts are small, to stay within TLC's  *)
(* 32-bit integers, and chosen so that every quotient has to be rounded.   *)
(***************************************************************************)
EXTENDS Pricing, TLC

CONSTANTS home, other

ItemSymmetry == Permutations(Items)
=============================================================================
