------------------------------ MODULE MCCheckout ------------------------------
(***************************************************************************)
(* Instances of Checkout for TLC.                                          *)
(***************************************************************************)
EXTENDS Checkout, TLC

Symmetry == Permutations(Users) \cup Permutations(Orders) \cup Permutations(Handlers)
===============================================================================
