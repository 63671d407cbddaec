----------------------------- MODULE MCFulfilment -----------------------------
(***************************************************************************)
(* Instances of Fulfilment for TLC.  oNew buys a subscription and oRenew   *)
(* renews s1, both through a webhook gateway; oStars is paid through the   *)
(* bot.  Two webhook requests at once are enough for every race on one     *)
(* order, and the orders share nothing but workers and s1.                 *)
(***************************************************************************)
EXTENDS Fulfilment, TLC

CONSTANTS oNew, oRenew, oStars, s1, h1, h2

\* A new subscription and a renewal, both by webhook.
RenewsMixed == (oNew :> NoSub) @@ (oRenew :> s1)

\* A renewal by webhook and a new subscription by Stars.
RenewsStars == (oRenew :> s1) @@ (oStars :> NoSub)

\* A new subscription alone.
RenewsNothing == oNew :> NoSub

NoReversals == {}
AllReversals == {<<"paid", "refused">>, <<"refused", "paid">>}

Symmetry == Permutations(HttpWorkers)
===============================================================================
