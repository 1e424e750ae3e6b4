----------------------------- MODULE MCTenancy -----------------------------
(***************************************************************************)
(* Instances of Tenancy for TLC.                                           *)
(***************************************************************************)
EXTENDS Tenancy, TLC

CONSTANTS x, y, ann, bob, m1

Form(s, o, e) == [slug |-> s, owner |-> o, email |-> e]

\* One address for two shops; who is renamed takes the name of the other form.
Rivals == {Form(x, ann, m1), Form(y, bob, m1)}

\* The two forms are alike but for their names.
Swap == x :> y @@ y :> x @@ ann :> bob @@ bob :> ann

IdSymmetry == {Swap} \cup Permutations(TenantIds) \cup Permutations(Requests) \cup Permutations(Workers)
=============================================================================
