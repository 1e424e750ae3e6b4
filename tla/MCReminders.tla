---------------------------- MODULE MCReminders ----------------------------
(***************************************************************************)
(* Instances of Reminders for TLC.                                         *)
(***************************************************************************)
EXTENDS Reminders, TLC

CONSTANTS t1, t2, l1, l2

TwoOfOneTenant == (l1 :> t1) @@ (l2 :> t1)
OneOfEach == (l1 :> t1) @@ (l2 :> t2)
\* Without a phone the address is not looked at.
AllKinds == {[phone |-> TRUE, email |-> TRUE], [phone |-> TRUE, email |-> FALSE],
             [phone |-> FALSE, email |-> FALSE]}
Reachable == [phone : {TRUE}, email : BOOLEAN]

RowSymmetry == Permutations(Loans) \cup Permutations(Workers)
=============================================================================
