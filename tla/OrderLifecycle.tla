---------------------------- MODULE OrderLifecycle ----------------------------
(***************************************************************************)
(* What internal/billing promises about one order, with the webhooks, the  *)
(* workers and the database left out: an order is claimed by one fulfiller *)
(* at a time and at most once in its life; only the fulfiller gives the    *)
(* service, at most once; the charge is written to the ledger together     *)
(* with the status "paid" and only after the service was given.  A gateway *)
(* may cancel an unpaid order at any time, even under a fulfiller, and a   *)
(* fulfiller may give up (an error or a crash).                            *)
(***************************************************************************)
CONSTANT Orders

VARIABLES
  status,   \* orders.status
  held,     \* the orders some fulfiller holds the claim on
  served,   \* the orders for which a VPN was issued or a subscription extended
  charged   \* the orders whose charge is in the ledger

vars == <<status, held, served, charged>>

Init ==
  /\ status = [o \in Orders |-> "wait_payment"]
  /\ held = {}
  /\ served = {}
  /\ charged = {}

Claim(o) ==
  /\ status[o] = "wait_payment"
  /\ o \notin held
  /\ status' = [status EXCEPT ![o] = "processing"]
  /\ held' = held \cup {o}
  /\ UNCHANGED <<served, charged>>

Serve(o) ==
  /\ o \in held \ served
  /\ served' = served \cup {o}
  /\ UNCHANGED <<status, held, charged>>

Settle(o) ==
  /\ o \in (held \cap served) \ charged
  /\ status[o] = "processing"
  /\ status' = [status EXCEPT ![o] = "paid"]
  /\ held' = held \ {o}
  /\ charged' = charged \cup {o}
  /\ UNCHANGED served

Cancel(o) ==
  /\ status[o] \in {"wait_payment", "processing"}
  /\ status' = [status EXCEPT ![o] = "failed"]
  /\ UNCHANGED <<held, served, charged>>

\* One fulfiller gives up on an error, or all of them at once in a crash.
Abandon(S) ==
  /\ held' = held \ S
  /\ UNCHANGED <<status, served, charged>>

Next ==
  \/ \E o \in Orders : Claim(o) \/ Serve(o) \/ Settle(o) \/ Cancel(o)
  \/ \E S \in SUBSET Orders : Abandon(S)

Spec == Init /\ [][Next]_vars
===============================================================================
