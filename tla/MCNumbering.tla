---------------------------- MODULE MCNumbering ----------------------------
(***************************************************************************)
(* Instances of Numbering for TLC.                                         *)
(***************************************************************************)
EXTENDS Numbering, TLC

IdSymmetry == Permutations(Workers) \cup Permutations(Dates) \cup Permutations(Phones)
=============================================================================
