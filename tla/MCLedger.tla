------------------------------- MODULE MCLedger -------------------------------
(***************************************************************************)
(* Instances of Ledger for TLC: four charges, three of them to one user.   *)
(***************************************************************************)
EXTENDS Ledger, TLC

CONSTANTS c1, c2, c3, c4, alice, bob

AccountOf == (c1 :> alice) @@ (c2 :> alice) @@ (c3 :> alice) @@ (c4 :> bob)

Symmetry == Permutations({c1, c2, c3})
===============================================================================
