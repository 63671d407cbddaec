------------------------------ MODULE Fulfilment ------------------------------
(***************************************************************************)
(* internal/billing after checkout: a gateway (or the Telegram bot)        *)
(* announces the outcome of a payment, a worker of the API process claims  *)
(* the order, issues or extends the subscription, finalises the order and  *)
(* the ledger, and answers the gateway.  Every database statement that     *)
(* commits on its own is a step; a transaction is one step.  Workers run   *)
(* concurrently, a notice may be handled by two of them, is delivered      *)
(* again until it is acknowledged, and the process may crash between any   *)
(* two steps.                                                              *)
(*                                                                         *)
(* An order starts where Service.Buy leaves it: status wait_payment, one   *)
(* payments row.  The subscription issuer (vpn.Service.Create) is one step *)
(* that succeeds or fails; its own steps are in VpnLifecycle.              *)
(***************************************************************************)
EXTENDS Naturals, FiniteSets

CONSTANTS
  Orders,       \* the orders under way
  StarsOrders,  \* those paid with Telegram Stars, confirmed through the bot
  HttpWorkers,  \* webhook requests the API process can be handling at once
  Bot,          \* the goroutine of telegram.Bot.Run
  Subs,         \* subscriptions that exist before the orders
  NoSub,        \* orders.renew_subscription_id IS NULL
  Renews,       \* Renews[o]: the subscription o renews, or NoSub
  NoJob,        \* what an idle worker holds
  Reversals,    \* outcomes a gateway may still revise, as pairs <<from, to>>
  MaxFaults     \* bound on errors and crashes in a behaviour

Workers == HttpWorkers \cup {Bot}

Outcomes == {"open", "paid", "refused"}

ASSUME FulfilmentAssumption ==
  /\ StarsOrders \subseteq Orders
  /\ NoSub \notin Subs
  /\ Renews \in [Orders -> Subs \cup {NoSub}]
  /\ Reversals \subseteq {<<"paid", "refused">>, <<"refused", "paid">>}
  /\ MaxFaults \in Nat

Results == {"success", "failed", "pending"}
Notices == [order : Orders, result : Results]

ASSUME NoJobAssumption == NoJob \notin Notices

VARIABLES
  outcome,      \* outcome[o]: what the gateway knows of the payment of o
  inbox,        \* notices the gateway (or Telegram) will deliver again
  offset,       \* updates the bot has dispatched but not yet confirmed by polling
  orderStatus,  \* orders.status
  payment,      \* payments.status
  ledger,       \* ledger[o]: charges the ledger holds for o
  hook,         \* the webhook_events row of o
  credited,     \* credited[o]: how many times the service of o was given
  subStatus,    \* subscriptions.status of the subscriptions in Subs
  overdue,      \* expires_at < now() - grace
  pc, job,      \* where each worker is, and the notice it handles
  faults,       \* errors and crashes so far
  revised       \* history: orders whose payment a gateway revised after its end

gatewayVars == <<outcome, inbox, offset, revised>>
billingVars == <<orderStatus, payment, ledger, hook>>
serviceVars == <<credited, subStatus, overdue>>
workerVars  == <<pc, job>>
vars == <<gatewayVars, billingVars, serviceVars, workerVars, faults>>

PC == {"idle", "received", "claimed", "served", "handled"}

TypeOK ==
  /\ outcome \in [Orders -> Outcomes]
  /\ inbox \subseteq Notices
  /\ offset \subseteq Notices
  /\ orderStatus \in [Orders -> {"wait_payment", "processing", "paid", "failed"}]
  /\ payment \in [Orders -> {"pending", "success", "failed"}]
  /\ ledger \in [Orders -> Nat]
  /\ hook \in [Orders -> [result : Results \cup {"none"}, processed : BOOLEAN]]
  /\ credited \in [Orders -> Nat]
  /\ subStatus \in [Subs -> {"active", "expired", "deleted"}]
  /\ overdue \in [Subs -> BOOLEAN]
  /\ pc \in [Workers -> PC]
  /\ job \in [Workers -> Notices \cup {NoJob}]
  /\ \A w \in Workers : pc[w] = "idle" <=> job[w] = NoJob
  /\ faults \in 0 .. MaxFaults
  /\ revised \subseteq Orders

Init ==
  /\ outcome = [o \in Orders |-> "open"]
  /\ inbox = {}
  /\ offset = {}
  /\ orderStatus = [o \in Orders |-> "wait_payment"]
  /\ payment = [o \in Orders |-> "pending"]
  /\ ledger = [o \in Orders |-> 0]
  /\ hook = [o \in Orders |-> [result |-> "none", processed |-> FALSE]]
  /\ credited = [o \in Orders |-> 0]
  /\ subStatus = [s \in Subs |-> "active"]
  /\ overdue = [s \in Subs |-> FALSE]
  /\ pc = [w \in Workers |-> "idle"]
  /\ job = [w \in Workers |-> NoJob]
  /\ faults = 0
  /\ revised = {}

-------------------------------------------------------------------------------
(* The gateways, outside this repository.                                  *)

\* A confirmation in progress: the gateway announces a non-terminal status.
AnnouncePending(o) ==
  /\ o \notin StarsOrders
  /\ outcome[o] = "open"
  /\ inbox' = inbox \cup {[order |-> o, result |-> "pending"]}
  /\ UNCHANGED <<outcome, offset, revised, billingVars, serviceVars, workerVars, faults>>

\* The payment ends, or an ended payment is revised; Stars are never refused.
Conclude(o, end) ==
  /\ o \in StarsOrders => end = "paid"
  /\ \/ outcome[o] = "open" /\ end # "open"
     \/ <<outcome[o], end>> \in Reversals
  /\ outcome' = [outcome EXCEPT ![o] = end]
  /\ revised' = IF outcome[o] = "open" THEN revised ELSE revised \cup {o}
  /\ inbox' = inbox \cup
       {[order |-> o, result |-> IF end = "paid" THEN "success" ELSE "failed"]}
  /\ UNCHANGED <<offset, billingVars, serviceVars, workerVars, faults>>

-------------------------------------------------------------------------------
(* The predicates and row updates of the SQL statements, each after the    *)
(* plausible mistakes that the properties are shown to detect.             *)

Claimable_Retried(o) == orderStatus[o] \in {"wait_payment", "processing"}
Finalizable_Unclaimed(o) == orderStatus[o] = "wait_payment"
Cancellable_Always(o) == TRUE
PaymentSettled_Skipped(o) == payment

Claimable(o) == orderStatus[o] = "wait_payment"
Finalizable(o) == orderStatus[o] \in {"wait_payment", "processing"}
Cancellable(o) == orderStatus[o] \in {"wait_payment", "processing"}
PaymentSettled(o) == [payment EXCEPT ![o] = "success"]
Reactivated(s) == [subStatus EXCEPT ![s] = "active"]
Terminal(n) == n.result # "pending"
Succeeded(n) == n.result = "success"

-------------------------------------------------------------------------------
(* Service.HandleWebhook and Service.FulfillOrder, step by step.           *)

\* RecordWebhook and resolveOrder, or an update dispatched to handlePayment.
Receive(w, n) ==
  /\ pc[w] = "idle"
  /\ n \in inbox
  /\ (w = Bot) <=> (n.order \in StarsOrders)
  /\ w = Bot => n \notin offset
  /\ pc' = [pc EXCEPT ![w] = "received"]
  /\ job' = [job EXCEPT ![w] = n]
  /\ hook' = IF w = Bot THEN hook
             ELSE [hook EXCEPT ![n.order].result = n.result]
  /\ UNCHANGED <<gatewayVars, orderStatus, payment, ledger, serviceVars, faults>>

\* A mistake: every outcome is answered 200.
Answer_AlwaysOk(w, accepted) ==
  /\ pc' = [pc EXCEPT ![w] = "idle"]
  /\ job' = [job EXCEPT ![w] = NoJob]
  /\ inbox' = IF w # Bot THEN inbox \ {job[w]} ELSE inbox
  /\ offset' = IF w = Bot THEN offset \cup {job[w]} ELSE offset
  /\ UNCHANGED <<outcome, revised>>

\* The handler answers.  A gateway drops a notice answered 200 and keeps one
\* answered 500; the bot moves its offset past the update either way.
Answer(w, accepted) ==
  /\ pc' = [pc EXCEPT ![w] = "idle"]
  /\ job' = [job EXCEPT ![w] = NoJob]
  /\ inbox' = IF accepted /\ w # Bot THEN inbox \ {job[w]} ELSE inbox
  /\ offset' = IF w = Bot THEN offset \cup {job[w]} ELSE offset
  /\ UNCHANGED <<outcome, revised>>

\* A non-terminal status is only recorded.
IgnorePending(w) ==
  /\ pc[w] = "received"
  /\ ~Terminal(job[w])
  /\ Answer(w, TRUE)
  /\ UNCHANGED <<billingVars, serviceVars, faults>>

\* ClaimForProvisioning: UPDATE ... WHERE status = 'wait_payment'.
ClaimForProvisioning(w) ==
  LET o == job[w].order IN
  /\ pc[w] = "received"
  /\ Succeeded(job[w])
  /\ Claimable(o)
  /\ orderStatus' = [orderStatus EXCEPT ![o] = "processing"]
  /\ pc' = [pc EXCEPT ![w] = "claimed"]
  /\ UNCHANGED <<gatewayVars, payment, ledger, hook, serviceVars, job, faults>>

\* Not claimed: "order already fulfilled, skipping".
SkipClaimed(w) ==
  /\ pc[w] = "received"
  /\ Succeeded(job[w])
  /\ ~Claimable(job[w].order)
  /\ pc' = [pc EXCEPT ![w] = "handled"]
  /\ UNCHANGED <<gatewayVars, billingVars, serviceVars, job, faults>>

\* vpn.Service.Create succeeds.
Issue(w) ==
  LET o == job[w].order IN
  /\ pc[w] = "claimed"
  /\ Renews[o] = NoSub
  /\ credited' = [credited EXCEPT ![o] = @ + 1]
  /\ pc' = [pc EXCEPT ![w] = "served"]
  /\ UNCHANGED <<gatewayVars, billingVars, subStatus, overdue, job, faults>>

\* ExtendSubscription: also reactivates an expired subscription.
ExtendSubscription(w) ==
  LET o == job[w].order  s == Renews[o] IN
  /\ pc[w] = "claimed"
  /\ s # NoSub
  /\ subStatus[s] # "deleted"
  /\ subStatus' = Reactivated(s)
  /\ overdue' = [overdue EXCEPT ![s] = FALSE]
  /\ credited' = [credited EXCEPT ![o] = @ + 1]
  /\ pc' = [pc EXCEPT ![w] = "served"]
  /\ UNCHANGED <<gatewayVars, billingVars, job, faults>>

\* No row to extend: ErrOrderNotFound, which the handler answers with 200.
ExtendDeleted(w) ==
  LET s == Renews[job[w].order] IN
  /\ pc[w] = "claimed"
  /\ s # NoSub
  /\ subStatus[s] = "deleted"
  /\ Answer(w, TRUE)
  /\ UNCHANGED <<billingVars, serviceVars, faults>>

\* FinalizePaid: order, payment and ledger in one transaction.
FinalizePaid(w) ==
  LET o == job[w].order IN
  /\ pc[w] = "served"
  /\ Finalizable(o)
  /\ orderStatus' = [orderStatus EXCEPT ![o] = "paid"]
  /\ payment' = PaymentSettled(o)
  /\ ledger' = [ledger EXCEPT ![o] = @ + 1]
  /\ pc' = [pc EXCEPT ![w] = "handled"]
  /\ UNCHANGED <<gatewayVars, hook, serviceVars, job, faults>>

\* FinalizePaid finds the order failed meanwhile: ErrOrderNotFound, answered 200.
FinalizeRejected(w) ==
  /\ pc[w] = "served"
  /\ ~Finalizable(job[w].order)
  /\ Answer(w, TRUE)
  /\ UNCHANGED <<billingVars, serviceVars, faults>>

\* MarkFailed: the order only if unpaid, its payments unconditionally.
MarkFailed(w) ==
  LET o == job[w].order IN
  /\ pc[w] = "received"
  /\ Terminal(job[w]) /\ ~Succeeded(job[w])
  /\ orderStatus' = IF Cancellable(o)
                    THEN [orderStatus EXCEPT ![o] = "failed"] ELSE orderStatus
  /\ payment' = [payment EXCEPT ![o] = "failed"]
  /\ pc' = [pc EXCEPT ![w] = "handled"]
  /\ UNCHANGED <<gatewayVars, ledger, hook, serviceVars, job, faults>>

\* MarkWebhookProcessed (its error is dropped) and the answer; the bot has no row.
Finish(w) ==
  /\ pc[w] = "handled"
  /\ \/ /\ w # Bot
        /\ hook' = [hook EXCEPT ![job[w].order].processed = TRUE]
        /\ UNCHANGED faults
     \/ /\ w # Bot
        /\ faults < MaxFaults
        /\ faults' = faults + 1
        /\ UNCHANGED hook
     \/ w = Bot /\ UNCHANGED <<hook, faults>>
  /\ Answer(w, TRUE)
  /\ UNCHANGED <<orderStatus, payment, ledger, serviceVars>>

\* A database, gateway or node error ends the handler where it is, answered 500.
Fault(w) ==
  /\ pc[w] \in {"received", "claimed", "served"}
  /\ faults < MaxFaults
  /\ faults' = faults + 1
  /\ Answer(w, FALSE)
  /\ UNCHANGED <<billingVars, serviceVars>>

\* The process dies and restarts: no handler survives, nor does the bot's offset.
Crash ==
  /\ faults < MaxFaults
  /\ faults' = faults + 1
  /\ pc' = [w \in Workers |-> "idle"]
  /\ job' = [w \in Workers |-> NoJob]
  /\ offset' = {}
  /\ UNCHANGED <<outcome, inbox, revised, billingVars, serviceVars>>

\* getUpdates with the new offset confirms every update dispatched before it.
Poll ==
  /\ pc[Bot] = "idle"
  /\ offset # {}
  /\ inbox' = inbox \ offset
  /\ offset' = {}
  /\ UNCHANGED <<outcome, revised, billingVars, serviceVars, workerVars, faults>>

-------------------------------------------------------------------------------
(* The rest of the platform, as far as it touches renewed subscriptions.   *)

\* expires_at plus the grace period passes.
BecomeOverdue(s) ==
  /\ overdue' = [overdue EXCEPT ![s] = TRUE]
  /\ UNCHANGED <<gatewayVars, billingVars, credited, subStatus, workerVars, faults>>

\* Expirer.sweep: one UPDATE over every overdue active subscription.
Sweep ==
  /\ subStatus' = [s \in Subs |-> IF subStatus[s] = "active" /\ overdue[s]
                                  THEN "expired" ELSE subStatus[s]]
  /\ UNCHANGED <<gatewayVars, billingVars, credited, overdue, workerVars, faults>>

\* The user deletes the subscription (vpn.Service.Delete).
DeleteSub(s) ==
  /\ subStatus[s] # "deleted"
  /\ subStatus' = [subStatus EXCEPT ![s] = "deleted"]
  /\ UNCHANGED <<gatewayVars, billingVars, credited, overdue, workerVars, faults>>

-------------------------------------------------------------------------------
\* The steps a handler takes once it has received a notice.
Handle(w) ==
  \/ IgnorePending(w) \/ ClaimForProvisioning(w) \/ SkipClaimed(w)
  \/ Issue(w) \/ ExtendSubscription(w) \/ ExtendDeleted(w)
  \/ FinalizePaid(w) \/ FinalizeRejected(w) \/ MarkFailed(w) \/ Finish(w)

Next ==
  \/ \E o \in Orders : AnnouncePending(o) \/ \E end \in Outcomes : Conclude(o, end)
  \/ \E w \in Workers : Handle(w) \/ Fault(w) \/ \E n \in inbox : Receive(w, n)
  \/ Crash \/ Poll \/ Sweep
  \/ \E s \in Subs : BecomeOverdue(s) \/ DeleteSub(s)

Spec == Init /\ [][Next]_vars

\* A goroutine that can run runs, and a gateway repeats an unacknowledged notice.
\* Strong fairness for the receipt: the server starts a goroutine for every
\* request, so a notice never waits for a worker; HttpWorkers is a bound of ours.
Fairness ==
  /\ \A w \in Workers : WF_vars(Handle(w))
  /\ \A n \in Notices : SF_vars(\E w \in Workers : Receive(w, n))
  /\ WF_vars(Poll)

FairSpec == Spec /\ Fairness

-------------------------------------------------------------------------------
(* Properties.                                                             *)

\* w works for o between the claim and the end of its handler.
Fulfils(w, o) == pc[w] \in {"claimed", "served"} /\ job[w].order = o
InHand(o) == \E w \in Workers : Fulfils(w, o)

\* However often the success of a payment is announced, to however many workers
\* at once and across restarts, the service of an order is given at most once
\* (ClaimForProvisioning).
ServedAtMostOnce == \A o \in Orders : credited[o] <= 1

\* The ledger charges an order exactly when the order is paid, and once, whatever
\* order terminal notices arrive in (FinalizePaid, MarkFailed).
ChargedIffPaid ==
  \A o \in Orders : ledger[o] = IF orderStatus[o] = "paid" THEN 1 ELSE 0

\* No order is finalised as paid without its service having been given once
\* (the order of the steps of fulfill).
PaidWasServedOnce ==
  \A o \in Orders : orderStatus[o] = "paid" => credited[o] = 1

\* An order is left in "processing" with nobody working on it only after an
\* error or a crash, or because the subscription it renews was deleted: no
\* interleaving of duplicate notices alone strands a paid order (fulfill).
StrandedOnlyByFault ==
  \A o \in Orders :
    orderStatus[o] = "processing" /\ ~InHand(o) =>
      \/ faults > 0
      \/ Renews[o] # NoSub /\ subStatus[Renews[o]] = "deleted"

\* Unless the gateway revised the payment, the payments row and the order agree
\* on the outcome (FinalizePaid and MarkFailed write both).
PaymentAgrees ==
  \A o \in Orders \ revised :
    /\ payment[o] = "success" <=> orderStatus[o] = "paid"
    /\ payment[o] = "failed" <=> orderStatus[o] = "failed"

\* The success of a webhook payment is never acknowledged before the order was
\* claimed: while the order waits, the gateway still has the notice to deliver,
\* through errors and crashes (the 500 answer of the webhook handler).
NoSuccessLost ==
  \A o \in Orders \ StarsOrders :
    outcome[o] = "paid" /\ orderStatus[o] = "wait_payment" =>
      [order |-> o, result |-> "success"] \in inbox

\* When nothing fails, the gateway revises nothing and no renewed subscription is
\* deleted, a received payment is settled: VPN given, order paid
\* (Service.HandleWebhook, FulfillOrder).
PaidIsSettled ==
  \A o \in Orders :
    outcome[o] = "paid" ~>
      \/ orderStatus[o] = "paid"
      \/ faults > 0 \/ o \in revised
      \/ Renews[o] # NoSub /\ subStatus[Renews[o]] = "deleted"

\* A received webhook payment is claimed in the end, through any errors and
\* crashes before the claim (the gateway's redelivery after a 500 or no answer).
PaidIsClaimed ==
  \A o \in Orders \ StarsOrders :
    outcome[o] = "paid" ~> orderStatus[o] # "wait_payment"

\* What HandleWebhook says of a success: "it provisions the VPN (exactly once)
\* and finalizes the order".  Once a success is acknowledged and nobody works on
\* the order, the order is paid.
AcknowledgedIsSettled ==
  \A o \in Orders \ StarsOrders :
    /\ outcome[o] = "paid"
    /\ [order |-> o, result |-> "success"] \notin inbox
    /\ \A w \in Workers : job[w] = NoJob \/ job[w].order # o
    => orderStatus[o] = "paid"

\* Each order follows OrderLifecycle: one claim in its life, the service by the
\* claimant and at most once, the charge with the status and after the service.
Lifecycle ==
  INSTANCE OrderLifecycle WITH
    status  <- orderStatus,
    held    <- {o \in Orders : InHand(o)},
    served  <- {o \in Orders : credited[o] > 0},
    charged <- {o \in Orders : ledger[o] > 0}

ImplementsLifecycle == Lifecycle!Spec
===============================================================================
