------------------------------- MODULE Checkout -------------------------------
(***************************************************************************)
(* internal/billing up to the invoice: Service.Buy resolves a promo code,  *)
(* counts the user's recent unpaid orders, creates the order together with *)
(* the redemption of the promo, registers a payment at the gateway and     *)
(* records it.  Requests of one user may overlap: the count is taken       *)
(* before the order is created, with no lock between the two.  What        *)
(* happens to an invoiced order afterwards is Fulfilment's; here a webhook *)
(* only takes it out of wait_payment.                                      *)
(*                                                                         *)
(* Plans and prices do not change while a request runs, so looking up the  *)
(* plan is no step; one promo code is enough, as its rows are never        *)
(* combined with those of another.                                         *)
(***************************************************************************)
EXTENDS Naturals, FiniteSets

CONSTANTS
  Users,
  Orders,      \* order ids still unused at the start
  Handlers,    \* requests that can be under way at once
  Nobody,      \* the owner of an order that does not exist
  NoOrder,     \* a request that has created no order yet
  MaxPending,  \* maxPendingOrder
  MaxUses,     \* promocodes.max_uses
  MaxFaults    \* bound on database errors and crashes in a behaviour

ASSUME CheckoutAssumption ==
  /\ IsFiniteSet(Orders)
  /\ IsFiniteSet(Handlers) /\ Handlers # {}
  /\ Nobody \notin Users
  /\ NoOrder \notin Orders
  /\ MaxPending \in Nat /\ MaxUses \in Nat /\ MaxFaults \in Nat

VARIABLES
  status,       \* orders.status; "none" while the row does not exist
  owner,        \* orders.user_id
  discounted,   \* the orders with a promo_id
  recent,       \* the orders whose created_at is inside pendingWindow
  usedCount,    \* promocodes.used_count
  redemptions,  \* promo_redemptions, as pairs <<user, order>>
  promoOpen,    \* the promo code has not expired
  registered,   \* the orders the gateway knows
  payments,     \* the orders with a payments row
  pc, user, wantsPromo, order,  \* the request in each handler
  faults

orderVars   == <<status, owner, discounted, recent>>
promoVars   == <<usedCount, redemptions, promoOpen>>
paymentVars == <<registered, payments>>
requestVars == <<user, wantsPromo, order>>
vars == <<orderVars, promoVars, paymentVars, pc, requestVars, faults>>

PC == {"idle", "received", "priced", "admitted", "ordered", "refused", "invoiced"}

TypeOK ==
  /\ status \in [Orders -> {"none", "wait_payment", "processing", "failed"}]
  /\ owner \in [Orders -> Users \cup {Nobody}]
  /\ discounted \subseteq Orders
  /\ recent \subseteq Orders
  /\ usedCount \in Nat
  /\ redemptions \subseteq Users \X Orders
  /\ promoOpen \in BOOLEAN
  /\ registered \subseteq Orders
  /\ payments \subseteq Orders
  /\ pc \in [Handlers -> PC]
  /\ user \in [Handlers -> Users \cup {Nobody}]
  /\ wantsPromo \in [Handlers -> BOOLEAN]
  /\ order \in [Handlers -> Orders \cup {NoOrder}]
  /\ faults \in 0 .. MaxFaults

Init ==
  /\ status = [o \in Orders |-> "none"]
  /\ owner = [o \in Orders |-> Nobody]
  /\ discounted = {}
  /\ recent = {}
  /\ usedCount = 0
  /\ redemptions = {}
  /\ promoOpen = TRUE
  /\ registered = {}
  /\ payments = {}
  /\ pc = [h \in Handlers |-> "idle"]
  /\ user = [h \in Handlers |-> Nobody]
  /\ wantsPromo = [h \in Handlers |-> FALSE]
  /\ order = [h \in Handlers |-> NoOrder]
  /\ faults = 0

-------------------------------------------------------------------------------
(* The predicates of the SQL statements, after plausible mistakes.         *)

\* CountRecentPendingOrders.
Pending(u) ==
  {o \in recent : owner[o] = u /\ status[o] = "wait_payment"}

Admissible_AtLimit(u) == Cardinality(Pending(u)) <= MaxPending
Admissible(u) == Cardinality(Pending(u)) < MaxPending

UsesLeft_AtLimit == usedCount <= MaxUses
UsesLeft == usedCount < MaxUses

Redeemed(u) == \E r \in redemptions : r[1] = u

-------------------------------------------------------------------------------
(* Service.Buy, one action per statement or call.                          *)

\* The handler ends and answers, successfully or not.
Answer(h) ==
  /\ pc' = [pc EXCEPT ![h] = "idle"]
  /\ user' = [user EXCEPT ![h] = Nobody]
  /\ wantsPromo' = [wantsPromo EXCEPT ![h] = FALSE]
  /\ order' = [order EXCEPT ![h] = NoOrder]

\* A request with a known protocol, gateway and plan arrives.
Receive(h, u, promo) ==
  /\ pc[h] = "idle"
  /\ pc' = [pc EXCEPT ![h] = "received"]
  /\ user' = [user EXCEPT ![h] = u]
  /\ wantsPromo' = [wantsPromo EXCEPT ![h] = promo]
  /\ UNCHANGED <<orderVars, promoVars, paymentVars, order, faults>>

\* resolvePromo: no code, or a code that is valid now.
ResolvePromo(h) ==
  /\ pc[h] = "received"
  /\ wantsPromo[h] => promoOpen
  /\ pc' = [pc EXCEPT ![h] = "priced"]
  /\ UNCHANGED <<orderVars, promoVars, paymentVars, requestVars, faults>>

\* resolvePromo: ErrPromoInvalid.
PromoInvalid(h) ==
  /\ pc[h] = "received"
  /\ wantsPromo[h] /\ ~promoOpen
  /\ Answer(h)
  /\ UNCHANGED <<orderVars, promoVars, paymentVars, faults>>

\* The anti-fraud count is below the limit at this moment.
Admit(h) ==
  /\ pc[h] = "priced"
  /\ Admissible(user[h])
  /\ pc' = [pc EXCEPT ![h] = "admitted"]
  /\ UNCHANGED <<orderVars, promoVars, paymentVars, requestVars, faults>>

\* ErrTooManyPending.
TooManyPending(h) ==
  /\ pc[h] = "priced"
  /\ ~Admissible(user[h])
  /\ Answer(h)
  /\ UNCHANGED <<orderVars, promoVars, paymentVars, faults>>

\* CreateOrder commits: the order row and, with a promo, its use and redemption.
CreateOrder(h, o) ==
  LET u == user[h] IN
  /\ pc[h] = "admitted"
  /\ status[o] = "none"
  /\ status' = [status EXCEPT ![o] = "wait_payment"]
  /\ owner' = [owner EXCEPT ![o] = u]
  /\ recent' = recent \cup {o}
  /\ \/ /\ ~wantsPromo[h]
        /\ UNCHANGED <<discounted, usedCount, redemptions>>
     \/ /\ wantsPromo[h]
        /\ UsesLeft
        /\ ~Redeemed(u)
        /\ discounted' = discounted \cup {o}
        /\ usedCount' = usedCount + 1
        /\ redemptions' = redemptions \cup {<<u, o>>}
  /\ pc' = [pc EXCEPT ![h] = "ordered"]
  /\ order' = [order EXCEPT ![h] = o]
  /\ UNCHANGED <<promoOpen, paymentVars, user, wantsPromo, faults>>

\* CreateOrder rolls back: ErrPromoInvalid or ErrPromoUsed.
PromoRefused(h) ==
  /\ pc[h] = "admitted"
  /\ wantsPromo[h]
  /\ ~UsesLeft \/ Redeemed(user[h])
  /\ Answer(h)
  /\ UNCHANGED <<orderVars, promoVars, paymentVars, faults>>

\* provider.CreatePayment succeeds.
Register(h) ==
  /\ pc[h] = "ordered"
  /\ registered' = registered \cup {order[h]}
  /\ pc' = [pc EXCEPT ![h] = "invoiced"]
  /\ UNCHANGED <<orderVars, promoVars, payments, requestVars, faults>>

\* provider.CreatePayment fails; on a timeout the gateway may have registered it.
GatewayFails(h) ==
  /\ pc[h] = "ordered"
  /\ registered' \in {registered, registered \cup {order[h]}}
  /\ pc' = [pc EXCEPT ![h] = "refused"]
  /\ UNCHANGED <<orderVars, promoVars, payments, requestVars, faults>>

\* A mistake: the use of the promo is given back, its redemption is not.
MarkFailed_Released(h) ==
  /\ pc[h] = "refused"
  /\ status' = [status EXCEPT ![order[h]] = "failed"]
  /\ usedCount' = IF order[h] \in discounted THEN usedCount - 1 ELSE usedCount
  /\ Answer(h)
  /\ UNCHANGED <<owner, discounted, recent, redemptions, promoOpen, paymentVars, faults>>

\* MarkFailed after the gateway's error (no payments row to update).
MarkFailed(h) ==
  /\ pc[h] = "refused"
  /\ status' = [status EXCEPT ![order[h]] = "failed"]
  /\ Answer(h)
  /\ UNCHANGED <<owner, discounted, recent, promoVars, paymentVars, faults>>

\* repo.CreatePayment, and the answer with the payment URL.
RecordPayment(h) ==
  /\ pc[h] = "invoiced"
  /\ payments' = payments \cup {order[h]}
  /\ Answer(h)
  /\ UNCHANGED <<orderVars, promoVars, registered, faults>>

\* A database error; the error of MarkFailed is dropped, the others answered.
Fault(h) ==
  /\ pc[h] \in {"received", "priced", "admitted", "refused", "invoiced"}
  /\ faults < MaxFaults
  /\ faults' = faults + 1
  /\ Answer(h)
  /\ UNCHANGED <<orderVars, promoVars, paymentVars>>

\* The process dies: no request survives.
Crash ==
  /\ faults < MaxFaults
  /\ faults' = faults + 1
  /\ pc' = [h \in Handlers |-> "idle"]
  /\ user' = [h \in Handlers |-> Nobody]
  /\ wantsPromo' = [h \in Handlers |-> FALSE]
  /\ order' = [h \in Handlers |-> NoOrder]
  /\ UNCHANGED <<orderVars, promoVars, paymentVars>>

-------------------------------------------------------------------------------
(* Time and the gateway.                                                   *)

\* An order leaves the ten-minute window.
Age(o) ==
  /\ o \in recent
  /\ recent' = recent \ {o}
  /\ UNCHANGED <<status, owner, discounted, promoVars, paymentVars, pc, requestVars, faults>>

\* promocodes.expires_at passes.
PromoExpires ==
  /\ promoOpen
  /\ promoOpen' = FALSE
  /\ UNCHANGED <<orderVars, usedCount, redemptions, paymentVars, pc, requestVars, faults>>

\* The customer, who has the URL only once the payment is recorded, pays: a
\* webhook claims the order.  Or the gateway gives up on an invoice it knows.
Decide(o, outcome) ==
  /\ status[o] = "wait_payment"
  /\ o \in IF outcome = "processing" THEN payments ELSE registered
  /\ status' = [status EXCEPT ![o] = outcome]
  /\ UNCHANGED <<owner, discounted, recent, promoVars, paymentVars, pc, requestVars, faults>>

-------------------------------------------------------------------------------
Step(h) ==
  \/ ResolvePromo(h) \/ PromoInvalid(h) \/ Admit(h) \/ TooManyPending(h)
  \/ \E o \in Orders : CreateOrder(h, o)
  \/ PromoRefused(h) \/ Register(h) \/ GatewayFails(h) \/ MarkFailed(h)
  \/ RecordPayment(h)

Next ==
  \/ \E h \in Handlers :
       \/ Step(h) \/ Fault(h)
       \/ \E u \in Users, promo \in BOOLEAN : Receive(h, u, promo)
  \/ \E o \in Orders :
       Age(o) \/ \E outcome \in {"processing", "failed"} : Decide(o, outcome)
  \/ PromoExpires \/ Crash

Spec == Init /\ [][Next]_vars

-------------------------------------------------------------------------------
(* Properties.                                                             *)

\* A promo code is redeemed at most max_uses times, however many requests reach
\* CreateOrder at once (the condition of its UPDATE of promocodes).
PromoWithinLimit == usedCount <= MaxUses

\* The counter, the redemptions and the discounted orders tell the same story,
\* rolled-back and failed requests included (the transaction of CreateOrder).
PromoCounted ==
  /\ usedCount = Cardinality(redemptions)
  /\ redemptions = {<<owner[o], o>> : o \in discounted}

\* However requests overlap, fail or are rolled back, the discounts given are
\* those counted, and within the limit (CreateOrder and MarkFailed together).
PromoKept == PromoWithinLimit /\ PromoCounted

\* Nobody uses a promo code twice, overlapping requests included.
PromoOncePerUser ==
  \A r1, r2 \in redemptions : r1[1] = r2[1] => r1 = r2

\* The anti-fraud limit is exceeded by overlapping requests, each admitted before
\* the others created their order, and by no more than that (Buy counts first
\* and inserts later).  With one request at a time it is the limit itself.
PendingBounded ==
  \A u \in Users : Cardinality(Pending(u)) + 1 <= MaxPending + Cardinality(Handlers)

===============================================================================
