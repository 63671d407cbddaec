---------------------------- MODULE MCApiAccess -----------------------------
(* ApiAccess with interchangeable requests, secrets and tokens.             *)
EXTENDS ApiAccess, TLC

\* Bound: while the second factor is in use nobody is blocked and nothing fails.
Focus == generated = {} \/ (~ blocked /\ faults = 0)

Same == Permutations(Handlers) \cup Permutations(Secrets) \cup Permutations(Tokens)
=============================================================================
