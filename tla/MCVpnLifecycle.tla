--------------------------- MODULE MCVpnLifecycle ---------------------------
(* Values for the constants of VpnLifecycle that a .cfg cannot write.       *)
EXTENDS VpnLifecycle, TLC

\* Two addresses where subscriptions are created, so that a migration lists both,
\* and one on the reserve, which the first of them exhausts.
Addresses == {2, 3}
LastAddress == [v \in Servers |-> IF v \in Reserve THEN 2 ELSE 3]

\* Where all are of one protocol, no definition tells the subscriptions apart.
Interchangeable == Permutations(Subs)
=============================================================================
