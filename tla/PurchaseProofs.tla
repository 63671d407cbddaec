---------------------------- MODULE PurchaseProofs ----------------------------
(***************************************************************************)
(* Proofs about the two ways to an order: Checkout, for any finite sets of *)
(* order ids and handlers, any users and any limits, and, in the last      *)
(* section, TelegramBot, for any buttons, drafts, faults and restarts.     *)
(***************************************************************************)
EXTENDS Checkout, TelegramBot, FiniteSetTheorems, SequenceTheorems, TLAPS

\* A handler at work knows its user, and its order once it has created one.
HandlerKnows ==
  \A h \in Handlers :
    /\ pc[h] # "idle" => user[h] \in Users
    /\ pc[h] \in {"ordered", "refused", "invoiced"} => order[h] \in Orders

LEMMA AnswerType ==
  ASSUME TypeOK, HandlerKnows, NEW h \in Handlers, Answer(h)
  PROVE  /\ pc' \in [Handlers -> PC]
         /\ user' \in [Handlers -> Users \cup {Nobody}]
         /\ wantsPromo' \in [Handlers -> BOOLEAN]
         /\ order' \in [Handlers -> Orders \cup {NoOrder}]
         /\ HandlerKnows'
<1>1. pc' \in [Handlers -> PC] /\ user' \in [Handlers -> Users \cup {Nobody}]
  BY DEF TypeOK, Answer, PC
<1>2. wantsPromo' \in [Handlers -> BOOLEAN]
  BY DEF TypeOK, Answer
<1>3. order' \in [Handlers -> Orders \cup {NoOrder}]
  BY DEF TypeOK, Answer
<1>4. HandlerKnows'
  BY DEF TypeOK, HandlerKnows, Answer
<1> QED BY <1>1, <1>2, <1>3, <1>4

\* A handler that goes on keeps its request.
LEMMA AdvanceType ==
  ASSUME TypeOK, HandlerKnows, NEW h \in Handlers, NEW place \in PC,
         pc[h] # "idle",
         place \in {"ordered", "refused", "invoiced"} =>
           pc[h] \in {"ordered", "refused", "invoiced"},
         pc' = [pc EXCEPT ![h] = place], UNCHANGED requestVars
  PROVE  /\ pc' \in [Handlers -> PC]
         /\ user' \in [Handlers -> Users \cup {Nobody}]
         /\ wantsPromo' \in [Handlers -> BOOLEAN]
         /\ order' \in [Handlers -> Orders \cup {NoOrder}]
         /\ HandlerKnows'
BY DEF TypeOK, HandlerKnows, PC, requestVars

LEMMA StepType ==
  ASSUME TypeOK, HandlerKnows, NEW h \in Handlers, Step(h)
  PROVE  TypeOK' /\ HandlerKnows'
<1> USE DEF orderVars, promoVars, paymentVars
<1>1. CASE ResolvePromo(h)
  BY <1>1, AdvanceType DEF ResolvePromo, TypeOK, PC
<1>2. CASE PromoInvalid(h)
  BY <1>2, AnswerType DEF PromoInvalid, TypeOK
<1>3. CASE Admit(h)
  BY <1>3, AdvanceType DEF Admit, TypeOK, PC
<1>4. CASE TooManyPending(h)
  BY <1>4, AnswerType DEF TooManyPending, TypeOK
<1>5. ASSUME NEW o \in Orders, CreateOrder(h, o) PROVE TypeOK' /\ HandlerKnows'
  <2>1. user[h] \in Users
    BY <1>5 DEF CreateOrder, HandlerKnows
  <2>2. /\ status' \in [Orders -> {"none", "wait_payment", "processing", "failed"}]
        /\ owner' \in [Orders -> Users \cup {Nobody}]
        /\ recent' \subseteq Orders
    BY <1>5, <2>1 DEF CreateOrder, TypeOK
  <2>3. /\ discounted' \subseteq Orders
        /\ usedCount' \in Nat
        /\ redemptions' \subseteq Users \X Orders
    BY <1>5, <2>1 DEF CreateOrder, TypeOK
  <2>4. /\ pc' \in [Handlers -> PC]
        /\ order' \in [Handlers -> Orders \cup {NoOrder}]
    BY <1>5 DEF CreateOrder, TypeOK, PC
  <2>5. HandlerKnows'
    BY <1>5 DEF CreateOrder, TypeOK, HandlerKnows
  <2> QED BY <1>5, <2>2, <2>3, <2>4, <2>5 DEF CreateOrder, TypeOK
<1>6. CASE PromoRefused(h)
  BY <1>6, AnswerType DEF PromoRefused, TypeOK
<1>7. CASE Register(h)
  BY <1>7, AdvanceType DEF Register, TypeOK, HandlerKnows, PC
<1>8. CASE GatewayFails(h)
  BY <1>8, AdvanceType DEF GatewayFails, TypeOK, HandlerKnows, PC
<1>9. CASE MarkFailed(h)
  BY <1>9, AnswerType DEF MarkFailed, TypeOK
<1>10. CASE RecordPayment(h)
  BY <1>10, AnswerType DEF RecordPayment, TypeOK, HandlerKnows
<1> QED
  BY <1>1, <1>2, <1>3, <1>4, <1>5, <1>6, <1>7, <1>8, <1>9, <1>10 DEF Step

LEMMA NextType ==
  ASSUME TypeOK, HandlerKnows, [Next]_vars
  PROVE  TypeOK' /\ HandlerKnows'
<1> USE DEF orderVars, promoVars, paymentVars, requestVars
<1>1. ASSUME NEW h \in Handlers, Step(h) PROVE TypeOK' /\ HandlerKnows'
  BY <1>1, StepType
<1>2. ASSUME NEW h \in Handlers, Fault(h) PROVE TypeOK' /\ HandlerKnows'
  BY <1>2, AnswerType, CheckoutAssumption DEF Fault, TypeOK
<1>3. ASSUME NEW h \in Handlers, NEW u \in Users, NEW promo \in BOOLEAN, Receive(h, u, promo)
      PROVE  TypeOK' /\ HandlerKnows'
  <2>1. /\ pc' \in [Handlers -> PC]
        /\ user' \in [Handlers -> Users \cup {Nobody}]
    BY <1>3 DEF Receive, TypeOK, PC
  <2>2. wantsPromo' \in [Handlers -> BOOLEAN]
    BY <1>3 DEF Receive, TypeOK
  <2>3. HandlerKnows'
    BY <1>3 DEF Receive, TypeOK, HandlerKnows
  <2> QED BY <1>3, <2>1, <2>2, <2>3 DEF Receive, TypeOK
<1>4. ASSUME NEW o \in Orders, Age(o) PROVE TypeOK' /\ HandlerKnows'
  BY <1>4 DEF Age, TypeOK, HandlerKnows
<1>5. ASSUME NEW o \in Orders, NEW outcome \in {"processing", "failed"}, Decide(o, outcome)
      PROVE  TypeOK' /\ HandlerKnows'
  BY <1>5 DEF Decide, TypeOK, HandlerKnows
<1>6. CASE PromoExpires
  BY <1>6 DEF PromoExpires, TypeOK, HandlerKnows
<1>7. CASE Crash
  BY <1>7, CheckoutAssumption DEF Crash, TypeOK, HandlerKnows, PC
<1>8. CASE UNCHANGED vars
  BY <1>8 DEF vars, TypeOK, HandlerKnows
<1> QED
  BY <1>1, <1>2, <1>3, <1>4, <1>5, <1>6, <1>7, <1>8 DEF Next

\* Every variable of Checkout keeps its type (the rows and the requests of
\* Service.Buy), for all values of the constants.
THEOREM TypeCorrect == Spec => []TypeOK
<1>1. Init => TypeOK /\ HandlerKnows
  BY CheckoutAssumption DEF Init, TypeOK, HandlerKnows, PC
<1>2. TypeOK /\ HandlerKnows /\ [Next]_vars => TypeOK' /\ HandlerKnows'
  BY NextType
<1> QED BY <1>1, <1>2, PTL DEF Spec

-------------------------------------------------------------------------------
(* The promo code.  Only CreateOrder writes promo rows, in one transaction. *)

\* A row that does not exist has no promo.
AbsentHasNoPromo == \A o \in discounted : status[o] # "none"

PromoInv ==
  /\ AbsentHasNoPromo
  /\ PromoCounted
  /\ PromoOncePerUser
  /\ PromoWithinLimit

\* A step that leaves the promo's rows, the owners and the existing orders alone.
LEMMA PromoUntouched ==
  ASSUME PromoInv, UNCHANGED <<usedCount, redemptions, discounted, owner>>,
         \A o \in discounted : status'[o] # "none"
  PROVE  PromoInv'
<1>1. AbsentHasNoPromo' /\ PromoCounted'
  BY DEF PromoInv, AbsentHasNoPromo, PromoCounted
<1>2. PromoOncePerUser' /\ PromoWithinLimit'
  BY DEF PromoInv, PromoOncePerUser, PromoWithinLimit
<1> QED BY <1>1, <1>2 DEF PromoInv

\* A new row adds its promo once: the redemption is new, and so is its user.
LEMMA PromoCreate ==
  ASSUME TypeOK, HandlerKnows, PromoInv, NEW h \in Handlers, NEW o \in Orders,
         CreateOrder(h, o)
  PROVE  PromoInv'
<1> DEFINE u == user[h]
<1>1. u \in Users /\ status[o] = "none" /\ o \notin discounted
  BY DEF CreateOrder, HandlerKnows, PromoInv, AbsentHasNoPromo
<1>2. /\ status' = [status EXCEPT ![o] = "wait_payment"]
      /\ owner' = [owner EXCEPT ![o] = u]
  BY DEF CreateOrder
<1>3. \A p \in discounted : owner'[p] = owner[p] /\ status'[p] = status[p]
  BY <1>1, <1>2 DEF TypeOK
<1>4. owner'[o] = u /\ status'[o] = "wait_payment"
  BY <1>2 DEF TypeOK
<1>5. CASE UNCHANGED <<discounted, usedCount, redemptions>>
  <2>1. AbsentHasNoPromo'
    BY <1>3, <1>5 DEF PromoInv, AbsentHasNoPromo
  <2>2. PromoCounted'
    BY <1>3, <1>5 DEF PromoInv, PromoCounted
  <2>3. PromoOncePerUser' /\ PromoWithinLimit'
    BY <1>5 DEF PromoInv, PromoOncePerUser, PromoWithinLimit
  <2> QED BY <2>1, <2>2, <2>3 DEF PromoInv
<1>6. CASE /\ UsesLeft
           /\ ~Redeemed(u)
           /\ discounted' = discounted \cup {o}
           /\ usedCount' = usedCount + 1
           /\ redemptions' = redemptions \cup {<<u, o>>}
  <2>1. AbsentHasNoPromo'
    BY <1>3, <1>4, <1>6 DEF PromoInv, AbsentHasNoPromo
  <2>2. redemptions = {<<owner[p], p>> : p \in discounted}
    BY DEF PromoInv, PromoCounted
  <2>3. redemptions' = {<<owner'[p], p>> : p \in discounted'}
    BY <1>3, <1>4, <1>6, <2>2
  <2>4. <<u, o>> \notin redemptions
    BY <1>6 DEF Redeemed
  <2>5. IsFiniteSet(redemptions)
    <3>1. IsFiniteSet(discounted)
      BY CheckoutAssumption, FS_Subset DEF TypeOK
    <3> DEFINE row == [p \in discounted |-> <<owner[p], p>>]
    <3>2. row \in Surjection(discounted, redemptions)
      BY <2>2 DEF Surjection
    <3> HIDE DEF row
    <3> QED BY <3>1, <3>2, FS_Surjection
  <2>6. Cardinality(redemptions') = Cardinality(redemptions) + 1
    BY <1>6, <2>4, <2>5, FS_AddElement
  <2>7. PromoCounted'
    BY <1>6, <2>3, <2>6 DEF PromoInv, PromoCounted
  <2>8. PromoOncePerUser'
    BY <1>6 DEF PromoInv, PromoOncePerUser, Redeemed, TypeOK
  <2>9. PromoWithinLimit'
    BY <1>6, CheckoutAssumption DEF UsesLeft, PromoWithinLimit, TypeOK
  <2> QED BY <2>1, <2>7, <2>8, <2>9 DEF PromoInv
<1> QED BY <1>5, <1>6 DEF CreateOrder

LEMMA PromoStep ==
  ASSUME TypeOK, HandlerKnows, PromoInv, NEW h \in Handlers, Step(h)
  PROVE  PromoInv'
<1> USE DEF orderVars, promoVars, PromoInv, AbsentHasNoPromo
<1>1. CASE ResolvePromo(h)
  BY <1>1, PromoUntouched DEF ResolvePromo
<1>2. CASE PromoInvalid(h)
  BY <1>2, PromoUntouched DEF PromoInvalid
<1>3. CASE Admit(h)
  BY <1>3, PromoUntouched DEF Admit
<1>4. CASE TooManyPending(h)
  BY <1>4, PromoUntouched DEF TooManyPending
<1>5. ASSUME NEW o \in Orders, CreateOrder(h, o) PROVE PromoInv'
  BY <1>5, PromoCreate
<1>6. CASE PromoRefused(h)
  BY <1>6, PromoUntouched DEF PromoRefused
<1>7. CASE Register(h)
  BY <1>7, PromoUntouched DEF Register
<1>8. CASE GatewayFails(h)
  BY <1>8, PromoUntouched DEF GatewayFails
<1>9. CASE MarkFailed(h)
  BY <1>9, PromoUntouched DEF MarkFailed, TypeOK
<1>10. CASE RecordPayment(h)
  BY <1>10, PromoUntouched DEF RecordPayment
<1> QED
  BY <1>1, <1>2, <1>3, <1>4, <1>5, <1>6, <1>7, <1>8, <1>9, <1>10 DEF Step

LEMMA PromoNext ==
  ASSUME TypeOK, HandlerKnows, PromoInv, [Next]_vars
  PROVE  PromoInv'
<1> USE DEF orderVars, promoVars
<1>1. \A o \in discounted : status[o] # "none"
  BY DEF PromoInv, AbsentHasNoPromo
<1>2. ASSUME NEW h \in Handlers, Step(h) PROVE PromoInv'
  BY <1>2, PromoStep
<1>3. ASSUME NEW h \in Handlers, Fault(h) PROVE PromoInv'
  BY <1>1, <1>3, PromoUntouched DEF Fault
<1>4. ASSUME NEW h \in Handlers, NEW u \in Users, NEW promo \in BOOLEAN, Receive(h, u, promo)
      PROVE  PromoInv'
  BY <1>1, <1>4, PromoUntouched DEF Receive
<1>5. ASSUME NEW o \in Orders, Age(o) PROVE PromoInv'
  BY <1>1, <1>5, PromoUntouched DEF Age
<1>6. ASSUME NEW o \in Orders, NEW outcome \in {"processing", "failed"}, Decide(o, outcome)
      PROVE  PromoInv'
  BY <1>1, <1>6, PromoUntouched DEF Decide, TypeOK
<1>7. CASE PromoExpires
  BY <1>1, <1>7, PromoUntouched DEF PromoExpires
<1>8. CASE Crash
  BY <1>1, <1>8, PromoUntouched DEF Crash
<1>9. CASE UNCHANGED vars
  BY <1>1, <1>9, PromoUntouched DEF vars
<1> QED
  BY <1>2, <1>3, <1>4, <1>5, <1>6, <1>7, <1>8, <1>9 DEF Next

LEMMA PromoInductive == Spec => []PromoInv
<1>1. Init => TypeOK /\ HandlerKnows
  BY CheckoutAssumption DEF Init, TypeOK, HandlerKnows, PC
<1>2. Init => PromoInv
  <2> SUFFICES ASSUME Init PROVE PromoInv
    OBVIOUS
  <2>1. Cardinality({}) = 0
    BY FS_EmptySet
  <2>2. PromoCounted
    BY <2>1 DEF Init, PromoCounted
  <2> QED
    BY <2>2, CheckoutAssumption
    DEF Init, PromoInv, AbsentHasNoPromo, PromoOncePerUser, PromoWithinLimit
<1>3. TypeOK /\ HandlerKnows /\ [Next]_vars => TypeOK' /\ HandlerKnows'
  BY NextType
<1>4. TypeOK /\ HandlerKnows /\ PromoInv /\ [Next]_vars => PromoInv'
  BY PromoNext
<1> QED BY <1>1, <1>2, <1>3, <1>4, PTL DEF Spec

\* However many requests redeem the code at once, it is used at most max_uses
\* times, and used_count, promo_redemptions and orders.promo_id always agree (the
\* transaction of CreateOrder).
THEOREM PromoAccounted == Spec => []PromoKept
<1>1. PromoInv => PromoKept
  BY DEF PromoInv, PromoKept
<1> QED BY <1>1, PromoInductive, PTL

\* A user redeems a promo code at most once (UNIQUE (promo_id, user_id)).
THEOREM PromoOnce == Spec => []PromoOncePerUser
BY PromoInductive, PTL DEF PromoInv

-------------------------------------------------------------------------------
(* The anti-fraud limit.  An admitted request is an order to come: orders   *)
(* and admitted requests of a user together exceed the limit by at most the *)
(* other handlers, since each admission saw the limit not reached.          *)

Admitted(u) == {h \in Handlers : pc[h] = "admitted" /\ user[h] = u}

PendingAdmitted ==
  \A u \in Users :
    Cardinality(Pending(u)) + Cardinality(Admitted(u)) + 1
      <= MaxPending + Cardinality(Handlers)

LEMMA Finite ==
  ASSUME TypeOK, NEW u \in Users
  PROVE  /\ IsFiniteSet(Pending(u)) /\ IsFiniteSet(Admitted(u))
         /\ Cardinality(Pending(u)) \in Nat
         /\ Cardinality(Admitted(u)) \in Nat
         /\ Cardinality(Handlers) \in Nat
         /\ Cardinality(Admitted(u)) <= Cardinality(Handlers)
<1>1. Pending(u) \subseteq Orders /\ Admitted(u) \subseteq Handlers
  BY DEF Pending, Admitted, TypeOK
<1>2. IsFiniteSet(Pending(u)) /\ IsFiniteSet(Admitted(u))
  BY <1>1, CheckoutAssumption, FS_Subset
<1>3. Cardinality(Admitted(u)) <= Cardinality(Handlers)
  BY <1>1, CheckoutAssumption, FS_Subset
<1> QED BY <1>2, <1>3, CheckoutAssumption, FS_CardinalityType

\* A step that adds neither pending orders nor admitted requests.
LEMMA Shrink ==
  ASSUME TypeOK, PendingAdmitted,
         \A u \in Users : Pending(u)' \subseteq Pending(u),
         \A u \in Users : Admitted(u)' \subseteq Admitted(u)
  PROVE  PendingAdmitted'
<1> SUFFICES ASSUME NEW u \in Users
             PROVE  Cardinality(Pending(u)') + Cardinality(Admitted(u)') + 1
                      <= MaxPending + Cardinality(Handlers)
  BY DEF PendingAdmitted
<1>1. /\ Cardinality(Pending(u)') <= Cardinality(Pending(u))
      /\ IsFiniteSet(Pending(u)')
  BY Finite, FS_Subset
<1>2. /\ Cardinality(Admitted(u)') <= Cardinality(Admitted(u))
      /\ IsFiniteSet(Admitted(u)')
  BY Finite, FS_Subset
<1>3. Cardinality(Pending(u)') \in Nat /\ Cardinality(Admitted(u)') \in Nat
  BY <1>1, <1>2, FS_CardinalityType
<1>4. /\ Cardinality(Pending(u)) \in Nat /\ Cardinality(Admitted(u)) \in Nat
      /\ Cardinality(Handlers) \in Nat
  BY Finite
<1>5. Cardinality(Pending(u)) + Cardinality(Admitted(u)) + 1
        <= MaxPending + Cardinality(Handlers)
  BY DEF PendingAdmitted
<1> QED BY <1>1, <1>2, <1>3, <1>4, <1>5, CheckoutAssumption

\* Admit saw fewer than MaxPending orders, and at most every handler is admitted.
LEMMA AdmitBound ==
  ASSUME TypeOK, TypeOK', HandlerKnows, PendingAdmitted, NEW h \in Handlers, Admit(h)
  PROVE  PendingAdmitted'
<1> SUFFICES ASSUME NEW u \in Users
             PROVE  Cardinality(Pending(u)') + Cardinality(Admitted(u)') + 1
                      <= MaxPending + Cardinality(Handlers)
  BY DEF PendingAdmitted
<1>1. Pending(u)' = Pending(u)
  BY DEF Admit, Pending, orderVars
<1>2. CASE u = user[h]
  <2>1. Cardinality(Pending(u)) < MaxPending
    BY <1>2 DEF Admit, Admissible
  <2>2. /\ IsFiniteSet(Admitted(u)')
        /\ Cardinality(Admitted(u)') <= Cardinality(Handlers)
    BY CheckoutAssumption, FS_Subset DEF Admitted
  <2>3. Cardinality(Admitted(u)') \in Nat
    BY <2>2, FS_CardinalityType
  <2>4. Cardinality(Pending(u)) \in Nat /\ Cardinality(Handlers) \in Nat
    BY Finite
  <2> QED BY <1>1, <2>1, <2>2, <2>3, <2>4, CheckoutAssumption
<1>3. CASE u # user[h]
  <2>1. Admitted(u)' = Admitted(u)
    BY <1>3 DEF Admit, Admitted, requestVars, TypeOK
  <2> QED BY <1>1, <2>1 DEF PendingAdmitted
<1> QED BY <1>2, <1>3

\* CreateOrder turns an admitted request into one order.
LEMMA CreateBound ==
  ASSUME TypeOK, HandlerKnows, PendingAdmitted, NEW h \in Handlers,
         NEW o \in Orders, CreateOrder(h, o)
  PROVE  PendingAdmitted'
<1> SUFFICES ASSUME NEW u \in Users
             PROVE  Cardinality(Pending(u)') + Cardinality(Admitted(u)') + 1
                      <= MaxPending + Cardinality(Handlers)
  BY DEF PendingAdmitted
<1>1. /\ status' = [status EXCEPT ![o] = "wait_payment"]
      /\ owner' = [owner EXCEPT ![o] = user[h]]
      /\ recent' = recent \cup {o}
      /\ pc' = [pc EXCEPT ![h] = "ordered"] /\ user' = user
      /\ pc[h] = "admitted"
  BY DEF CreateOrder
<1>2. Admitted(u)' = Admitted(u) \ {h}
  BY <1>1 DEF Admitted, TypeOK
<1>3. /\ Cardinality(Pending(u)) \in Nat /\ Cardinality(Admitted(u)) \in Nat
      /\ Cardinality(Handlers) \in Nat
      /\ IsFiniteSet(Pending(u)) /\ IsFiniteSet(Admitted(u))
  BY Finite
<1>4. Cardinality(Pending(u)) + Cardinality(Admitted(u)) + 1
        <= MaxPending + Cardinality(Handlers)
  BY DEF PendingAdmitted
<1>5. CASE u = user[h]
  <2>1. h \in Admitted(u)
    BY <1>1, <1>5 DEF Admitted
  <2>2. Cardinality(Admitted(u)') = Cardinality(Admitted(u)) - 1
    BY <1>2, <1>3, <2>1, FS_RemoveElement
  <2>3. Pending(u)' \subseteq Pending(u) \cup {o}
    BY <1>1 DEF Pending, TypeOK
  <2>4. /\ IsFiniteSet(Pending(u) \cup {o})
        /\ \/ Cardinality(Pending(u) \cup {o}) = Cardinality(Pending(u))
           \/ Cardinality(Pending(u) \cup {o}) = Cardinality(Pending(u)) + 1
    BY <1>3, FS_AddElement
  <2>5. /\ IsFiniteSet(Pending(u)')
        /\ Cardinality(Pending(u)') <= Cardinality(Pending(u) \cup {o})
    BY <2>3, <2>4, FS_Subset
  <2>6. Cardinality(Pending(u)') \in Nat
    BY <2>5, FS_CardinalityType
  <2> QED BY <1>3, <1>4, <2>2, <2>4, <2>5, <2>6, CheckoutAssumption
<1>6. CASE u # user[h]
  <2>1. Admitted(u)' = Admitted(u)
    BY <1>2, <1>6 DEF Admitted
  <2>2. Pending(u)' \subseteq Pending(u)
    BY <1>1, <1>6 DEF Pending, TypeOK
  <2>3. /\ IsFiniteSet(Pending(u)')
        /\ Cardinality(Pending(u)') <= Cardinality(Pending(u))
    BY <1>3, <2>2, FS_Subset
  <2>4. Cardinality(Pending(u)') \in Nat
    BY <2>3, FS_CardinalityType
  <2> QED BY <1>3, <1>4, <2>1, <2>3, <2>4, CheckoutAssumption
<1> QED BY <1>5, <1>6

\* The handler answers: it is admitted no more.
LEMMA AnswerShrinks ==
  ASSUME TypeOK, NEW h \in Handlers, Answer(h)
  PROVE  \A u \in Users : Admitted(u)' \subseteq Admitted(u)
BY DEF Answer, Admitted, TypeOK

\* The handler goes on to a place that is not "admitted".
LEMMA AdvanceShrinks ==
  ASSUME TypeOK, NEW h \in Handlers, NEW place, place # "admitted",
         pc' = [pc EXCEPT ![h] = place], user' = user
  PROVE  \A u \in Users : Admitted(u)' \subseteq Admitted(u)
BY DEF Admitted, TypeOK

LEMMA OrdersKept ==
  ASSUME UNCHANGED orderVars
  PROVE  \A u \in Users : Pending(u)' \subseteq Pending(u)
BY DEF orderVars, Pending

LEMMA PendingStep ==
  ASSUME TypeOK, TypeOK', HandlerKnows, PendingAdmitted, NEW h \in Handlers, Step(h)
  PROVE  PendingAdmitted'
<1>1. CASE ResolvePromo(h)
  BY <1>1, AdvanceShrinks, OrdersKept, Shrink DEF ResolvePromo, requestVars
<1>2. CASE PromoInvalid(h)
  BY <1>2, AnswerShrinks, OrdersKept, Shrink DEF PromoInvalid
<1>3. CASE Admit(h)
  BY <1>3, AdmitBound
<1>4. CASE TooManyPending(h)
  BY <1>4, AnswerShrinks, OrdersKept, Shrink DEF TooManyPending
<1>5. ASSUME NEW o \in Orders, CreateOrder(h, o) PROVE PendingAdmitted'
  BY <1>5, CreateBound
<1>6. CASE PromoRefused(h)
  BY <1>6, AnswerShrinks, OrdersKept, Shrink DEF PromoRefused
<1>7. CASE Register(h)
  BY <1>7, AdvanceShrinks, OrdersKept, Shrink DEF Register, requestVars
<1>8. CASE GatewayFails(h)
  BY <1>8, AdvanceShrinks, OrdersKept, Shrink DEF GatewayFails, requestVars
<1>9. CASE MarkFailed(h)
  <2>1. \A u \in Users : Pending(u)' \subseteq Pending(u)
    BY <1>9 DEF MarkFailed, Pending, TypeOK
  <2> QED BY <1>9, <2>1, AnswerShrinks, Shrink DEF MarkFailed
<1>10. CASE RecordPayment(h)
  BY <1>10, AnswerShrinks, OrdersKept, Shrink DEF RecordPayment
<1> QED
  BY <1>1, <1>2, <1>3, <1>4, <1>5, <1>6, <1>7, <1>8, <1>9, <1>10 DEF Step

LEMMA PendingNext ==
  ASSUME TypeOK, TypeOK', HandlerKnows, PendingAdmitted, [Next]_vars
  PROVE  PendingAdmitted'
<1>1. ASSUME NEW h \in Handlers, Step(h) PROVE PendingAdmitted'
  BY <1>1, PendingStep
<1>2. ASSUME NEW h \in Handlers, Fault(h) PROVE PendingAdmitted'
  BY <1>2, AnswerShrinks, OrdersKept, Shrink DEF Fault
<1>3. ASSUME NEW h \in Handlers, NEW u \in Users, NEW promo \in BOOLEAN, Receive(h, u, promo)
      PROVE  PendingAdmitted'
  <2>1. \A v \in Users : Admitted(v)' \subseteq Admitted(v)
    BY <1>3 DEF Receive, Admitted, TypeOK
  <2> QED BY <1>3, <2>1, OrdersKept, Shrink DEF Receive
<1>4. ASSUME NEW o \in Orders, Age(o) PROVE PendingAdmitted'
  <2>1. \A u \in Users : Pending(u)' \subseteq Pending(u)
    BY <1>4 DEF Age, Pending
  <2>2. \A u \in Users : Admitted(u)' \subseteq Admitted(u)
    BY <1>4 DEF Age, Admitted, requestVars
  <2> QED BY <2>1, <2>2, Shrink
<1>5. ASSUME NEW o \in Orders, NEW outcome \in {"processing", "failed"}, Decide(o, outcome)
      PROVE  PendingAdmitted'
  <2>1. \A u \in Users : Pending(u)' \subseteq Pending(u)
    BY <1>5 DEF Decide, Pending, TypeOK
  <2>2. \A u \in Users : Admitted(u)' \subseteq Admitted(u)
    BY <1>5 DEF Decide, Admitted, requestVars
  <2> QED BY <2>1, <2>2, Shrink
<1>6. CASE PromoExpires
  <2>1. \A u \in Users : Admitted(u)' \subseteq Admitted(u)
    BY <1>6 DEF PromoExpires, Admitted, requestVars
  <2> QED BY <1>6, <2>1, OrdersKept, Shrink DEF PromoExpires
<1>7. CASE Crash
  <2>1. \A u \in Users : Admitted(u)' \subseteq Admitted(u)
    BY <1>7 DEF Crash, Admitted
  <2> QED BY <1>7, <2>1, OrdersKept, Shrink DEF Crash
<1>8. CASE UNCHANGED vars
  <2>1. \A u \in Users : Admitted(u)' \subseteq Admitted(u)
    BY <1>8 DEF vars, Admitted, requestVars
  <2> QED BY <1>8, <2>1, OrdersKept, Shrink DEF vars
<1> QED
  BY <1>1, <1>2, <1>3, <1>4, <1>5, <1>6, <1>7, <1>8 DEF Next

\* The check-then-insert race of Buy lets a user exceed the limit on unpaid orders
\* by at most one order for each further request under way.
THEOREM PendingLimit == Spec => []PendingBounded
<1>1. Init => TypeOK /\ HandlerKnows
  BY CheckoutAssumption DEF Init, TypeOK, HandlerKnows, PC
<1>2. Init => PendingAdmitted
  <2> SUFFICES ASSUME Init, NEW u \in Users
               PROVE  Cardinality(Pending(u)) + Cardinality(Admitted(u)) + 1
                        <= MaxPending + Cardinality(Handlers)
    BY DEF PendingAdmitted
  <2>1. Pending(u) = {} /\ Admitted(u) = {}
    BY DEF Init, Pending, Admitted
  <2>2. Cardinality({}) = 0
    BY FS_EmptySet
  <2>3. Cardinality(Handlers) \in Nat /\ Cardinality(Handlers) # 0
    BY CheckoutAssumption, FS_CardinalityType, FS_EmptySet
  <2> QED BY <2>1, <2>2, <2>3, CheckoutAssumption
<1>3. TypeOK /\ HandlerKnows /\ [Next]_vars => TypeOK' /\ HandlerKnows'
  BY NextType
<1>4. TypeOK /\ TypeOK' /\ HandlerKnows /\ PendingAdmitted /\ [Next]_vars
        => PendingAdmitted'
  BY PendingNext
<1>5. TypeOK /\ PendingAdmitted => PendingBounded
  <2> SUFFICES ASSUME TypeOK, PendingAdmitted, NEW u \in Users
               PROVE  Cardinality(Pending(u)) + 1 <= MaxPending + Cardinality(Handlers)
    BY DEF PendingBounded
  <2> QED BY Finite, CheckoutAssumption DEF PendingAdmitted
<1> QED BY <1>1, <1>2, <1>3, <1>4, <1>5, PTL DEF Spec

-----------------------------------------------------------------------------
(* The bot's dialogue, the other way to an order.                           *)

\* The batch is a part of the updates, and drafts are drafts.
Typed ==
  /\ pending \in Seq(Update) /\ done \in Nat /\ fetched \in Nat
  /\ done <= fetched /\ fetched <= Len(pending)
  /\ draft \in Draft /\ chosen \in Draft /\ orders \in Seq(Draft)

\* A draft that has lost no more than whole choices of c: a country with its
\* renewal, a protocol with its routing, a plan.
Fits(d, c) ==
  /\ d.country # None => d.country = c.country /\ d.renew = c.renew
  /\ d.protocol # None => d.protocol = c.protocol /\ d.routing = c.routing
  /\ d.plan # None => d.plan = c.plan

\* A draft made by buttons of the kinds s.
Covers(s, d) ==
  /\ d.plan # None => "plan" \in s
  /\ d.renew # None => "renew" \in s
  /\ d.renew = None /\ d.country # None => "country" \in s
  /\ d.protocol # None => {"proto", "renew"} \cap s # {}

\* What is in the draft was chosen last, unless a write of it failed.
Follows == ~ staleDraft => Fits(draft, chosen)

\* What is in the draft was chosen since it was emptied.
Since == Covers(since, draft)

BInv == Typed /\ Follows /\ Since

LEMMA EmptyDraft ==
  /\ Empty \in Draft /\ Empty.country = None /\ Empty.protocol = None
  /\ Empty.plan = None /\ Empty.renew = None
BY DEF Empty, Draft

LEMMA RenewalDraft ==
  ASSUME NEW s \in Subs, NEW r, r = Renewal(s)
  PROVE  r \in Draft /\ r.renew = s /\ r.renew # None /\ r.plan = None
BY BotAssumption DEF Renewal, Empty, Draft

\* What an update of each kind carries.
LEMMA UpdateValue ==
  ASSUME NEW u \in Update
  PROVE  /\ u.kind = "country" => u.value \in Countries
         /\ u.kind = "proto" => u.value \in Protocols \cup {"wireguard_split"}
         /\ u.kind = "plan" => u.value \in Plans
         /\ u.kind = "renew" => u.value \in Subs
BY DEF Update, Button, ProtoButtons

\* One button: the draft it leaves was either not written, which is noted, or
\* was made from the stored one or, after a failed read, from an empty one.
LEMMA ChooseStep ==
  ASSUME Typed, Follows, Since, NEW kind, NEW fields, Choose(kind, fields),
         \A d \in Draft : With(d, fields) \in Draft,
         \A d \in Draft : \A c \in Draft : Fits(d, c) => Fits(With(d, fields), With(c, fields)),
         \A d \in Draft : Covers(since, d) => Covers(since \cup {kind}, With(d, fields))
  PROVE  draft' \in Draft /\ chosen' \in Draft /\ Follows' /\ Since'
<1>1. PICK d \in {draft, Empty} :
        /\ chosen' = With(chosen, fields) /\ since' = since \cup {kind}
        /\ \/ draft' = draft /\ staleDraft'
           \/ draft' = With(d, fields) /\ (staleDraft => staleDraft')
  <2>1. PICK d \in {draft, Empty}, f1 \in {0, 1}, f2 \in {0, 1} :
          /\ draft' = IF f2 = 1 THEN draft ELSE With(d, fields)
          /\ staleDraft' = (staleDraft \/ f2 = 1)
    BY DEF Choose, Rewrite
  <2>2. chosen' = With(chosen, fields) /\ since' = since \cup {kind}
    BY DEF Choose
  <2>3. CASE f2 = 1
    BY <2>1, <2>2, <2>3
  <2>4. CASE f2 = 0
    <3>1. draft' = With(d, fields)
      BY <2>1, <2>4
    <3>2. staleDraft => staleDraft'
      BY <2>1, Zenon
    <3> QED BY <2>2, <3>1, <3>2
  <2> QED BY <2>1, <2>3, <2>4
<1>2. d \in Draft /\ chosen \in Draft /\ draft \in Draft
  BY EmptyDraft DEF Typed
<1>3. Covers(since, d) /\ (~ staleDraft => Fits(d, chosen))
  BY EmptyDraft DEF Follows, Since, Fits, Covers
<1>4. draft' \in Draft /\ chosen' \in Draft
  BY <1>1, <1>2
<1>5. Follows'
  <2>1. SUFFICES ASSUME ~ staleDraft' PROVE Fits(draft', chosen')
    BY DEF Follows
  <2>2. draft' = With(d, fields) /\ ~ staleDraft
    BY <1>1, <2>1
  <2> QED BY <1>1, <1>2, <1>3, <2>2
<1>6. Since'
  <2>1. SUFFICES Covers(since', draft')
    BY DEF Since
  <2>2. CASE draft' = draft
    <3>1. Covers(since, draft)
      BY DEF Since
    <3> QED BY <1>1, <2>2, <3>1 DEF Covers
  <2>3. CASE draft' = With(d, fields)
    BY <1>1, <1>2, <1>3, <2>3
  <2> QED BY <1>1, <2>2, <2>3
<1> QED BY <1>4, <1>5, <1>6

\* A draft that is dropped, or is not.
LEMMA ClearStep ==
  ASSUME Typed, Follows, Since, NEW failures \in {0, 1}, ClearDraft(failures), UNCHANGED chosen
  PROVE  draft' \in Draft /\ chosen' \in Draft /\ Follows' /\ Since'
<1>1. CASE failures = 1
  <2>1. draft' = draft /\ since' = since /\ staleDraft'
    BY <1>1 DEF ClearDraft
  <2> QED BY <2>1 DEF Typed, Follows, Since
<1>2. CASE failures = 0
  <2>1. draft' = Empty
    BY <1>2 DEF ClearDraft
  <2> QED BY <2>1, EmptyDraft DEF Typed, Follows, Since, Fits, Covers
<1> QED BY <1>1, <1>2

LEMMA CountryStep ==
  ASSUME Typed, Follows, Since, NEW c \in Countries, Country(c)
  PROVE  draft' \in Draft /\ chosen' \in Draft /\ Follows' /\ Since'
<1> DEFINE fields == [country |-> c, renew |-> None]
<1>1. Choose("country", fields)
  BY DEF Country
<1>2. c # None
  BY BotAssumption
<1>3. ASSUME NEW d \in Draft
      PROVE  /\ With(d, fields) \in Draft
             /\ With(d, fields).country = c /\ With(d, fields).renew = None
             /\ With(d, fields).protocol = d.protocol /\ With(d, fields).routing = d.routing
             /\ With(d, fields).plan = d.plan
  BY DEF Draft, With
<1> HIDE DEF fields
<1>4. \A d \in Draft : \A e \in Draft : Fits(d, e) => Fits(With(d, fields), With(e, fields))
  BY <1>3 DEF Fits
<1>5. \A d \in Draft : Covers(since, d) => Covers(since \cup {"country"}, With(d, fields))
  BY <1>3 DEF Covers
<1> QED BY <1>1, <1>3, <1>4, <1>5, ChooseStep

LEMMA ProtoStep ==
  ASSUME Typed, Follows, Since, NEW p \in Protocols \cup {"wireguard_split"}, Proto(p)
  PROVE  draft' \in Draft /\ chosen' \in Draft /\ Follows' /\ Since'
<1>1. PICK q \in Protocols, r \in {"full", "split_ru"} : Choose("proto", [protocol |-> q, routing |-> r])
  BY BotAssumption DEF Proto
<1> DEFINE fields == [protocol |-> q, routing |-> r]
<1>2. Choose("proto", fields)
  BY <1>1
<1>3. ASSUME NEW d \in Draft
      PROVE  /\ With(d, fields) \in Draft
             /\ With(d, fields).protocol = q /\ With(d, fields).routing = r
             /\ With(d, fields).country = d.country /\ With(d, fields).renew = d.renew
             /\ With(d, fields).plan = d.plan
  <2>1. q \in Protocols /\ r \in {"full", "split_ru"}
    BY <1>1
  <2> QED BY <2>1 DEF Draft, With
<1> HIDE DEF fields
<1>4. \A d \in Draft : \A e \in Draft : Fits(d, e) => Fits(With(d, fields), With(e, fields))
  BY <1>3 DEF Fits
<1>5. \A d \in Draft : Covers(since, d) => Covers(since \cup {"proto"}, With(d, fields))
  BY <1>3 DEF Covers
<1> QED BY <1>2, <1>3, <1>4, <1>5, ChooseStep

LEMMA PlanStep ==
  ASSUME Typed, Follows, Since, NEW p \in Plans, Plan(p)
  PROVE  draft' \in Draft /\ chosen' \in Draft /\ Follows' /\ Since'
<1> DEFINE fields == [plan |-> p]
<1>2. Choose("plan", fields)
  BY DEF Plan
<1>3. ASSUME NEW d \in Draft
      PROVE  /\ With(d, fields) \in Draft /\ With(d, fields).plan = p
             /\ With(d, fields).country = d.country /\ With(d, fields).renew = d.renew
             /\ With(d, fields).protocol = d.protocol /\ With(d, fields).routing = d.routing
  BY DEF Draft, With
<1> HIDE DEF fields
<1>4. \A d \in Draft : \A e \in Draft : Fits(d, e) => Fits(With(d, fields), With(e, fields))
  BY <1>3 DEF Fits
<1>5. \A d \in Draft : Covers(since, d) => Covers(since \cup {"plan"}, With(d, fields))
  BY <1>3 DEF Covers
<1> QED BY <1>2, <1>3, <1>4, <1>5, ChooseStep

LEMMA RenewStep ==
  ASSUME Typed, Follows, Since, NEW s \in Subs, Renew(s)
  PROVE  draft' \in Draft /\ chosen' \in Draft /\ Follows' /\ Since'
<1>1. CASE UNCHANGED choice
  BY <1>1 DEF choice, Typed, Follows, Since
<1>2. ASSUME NEW failures \in {0, 1},
             draft' = IF failures = 1 THEN draft ELSE Renewal(s),
             since' = IF failures = 1 THEN since \cup {"renew"} ELSE {"renew"},
             staleDraft' = (staleDraft \/ failures = 1), chosen' = Renewal(s)
      PROVE  draft' \in Draft /\ chosen' \in Draft /\ Follows' /\ Since'
  <2>1. chosen' \in Draft
    BY <1>2, RenewalDraft
  <2>2. CASE failures = 1
    <3>1. draft' = draft /\ since' = since \cup {"renew"} /\ staleDraft'
      BY <1>2, <2>2
    <3> QED BY <2>1, <3>1 DEF Typed, Follows, Since, Covers
  <2>3. CASE failures = 0
    <3>1. draft' = Renewal(s) /\ since' = {"renew"}
      BY <1>2, <2>3
    <3>2. draft' \in Draft /\ draft'.renew # None /\ draft'.plan = None
      BY <3>1, RenewalDraft
    <3> QED BY <1>2, <2>1, <3>1, <3>2 DEF Follows, Since, Covers, Fits
  <2> QED BY <1>2, <2>2, <2>3
<1> QED BY <1>1, <1>2 DEF Renew

\* The update that is being handled.
LEMMA CurrentUpdate ==
  ASSUME Typed, done < fetched
  PROVE  pending[done + 1] \in Update
BY DEF Typed

LEMMA PressedUpdate ==
  ASSUME NEW k \in Kinds, NEW x \in Button(k)
  PROVE  [kind |-> k, value |-> x] \in Update
<1> DEFINE V == UNION {Button(j) : j \in Kinds}
           u == [kind |-> k, value |-> x]
<1>1. x \in V
  OBVIOUS
<1> HIDE DEF V
<1>2. u \in [kind : Kinds, value : V] /\ u.value \in Button(u.kind)
  BY <1>1
<1> QED BY <1>2 DEF Update, V

LEMMA PaymentUpdate ==
  ASSUME NEW o \in 1 .. MaxOrders
  PROVE  [kind |-> "payment", value |-> o] \in Update
BY DEF Update

\* The updates are appended by Telegram and cut off by the confirmed batch.
LEMMA PollingStep ==
  ASSUME Typed,
         \/ \E u \in Update : pending' = Append(pending, u) /\ UNCHANGED <<fetched, done>>
         \/ GetUpdates
         \/ UNCHANGED pending /\ fetched' = 0 /\ done' = 0
         \/ UNCHANGED <<pending, fetched>> /\ done' = done + 1 /\ done < fetched
         \/ UNCHANGED <<pending, fetched, done>>
  PROVE  /\ pending' \in Seq(Update) /\ done' \in Nat /\ fetched' \in Nat
         /\ done' <= fetched' /\ fetched' <= Len(pending')
<1>1. ASSUME NEW u \in Update, pending' = Append(pending, u), UNCHANGED <<fetched, done>>
      PROVE  /\ pending' \in Seq(Update) /\ done' \in Nat /\ fetched' \in Nat
             /\ done' <= fetched' /\ fetched' <= Len(pending')
  BY <1>1, AppendProperties DEF Typed
<1>2. CASE GetUpdates
  <2>1. pending' = SubSeq(pending, done + 1, Len(pending)) /\ fetched' = Len(pending') /\ done' = 0
    BY <1>2 DEF GetUpdates, Confirm
  <2>2. \A i \in done + 1 .. Len(pending) : pending[i] \in Update
    BY DEF Typed
  <2>3. pending' \in Seq(Update)
    BY <2>1, <2>2, SubSeqProperties DEF Typed
  <2> QED BY <2>1, <2>3
<1> QED BY <1>1, <1>2 DEF Typed

\* The order that pay makes is the draft.
LEMMA PayStep ==
  ASSUME Typed, Pay
  PROVE  \/ UNCHANGED orders
         \/ orders' = Append(orders, draft) /\ Payable(draft)
BY EmptyDraft DEF Pay, Payable

LEMMA DispatchStep ==
  ASSUME BInv, Dispatch
  PROVE  /\ draft' \in Draft /\ chosen' \in Draft /\ Follows' /\ Since'
         /\ \/ UNCHANGED orders
            \/ orders' = Append(orders, draft) /\ Payable(draft)
<1> DEFINE Goal == /\ draft' \in Draft /\ chosen' \in Draft /\ Follows' /\ Since'
                   /\ \/ UNCHANGED orders
                      \/ orders' = Append(orders, draft) /\ Payable(draft)
<1> USE DEF billing, choice, counters
<1>a. Typed /\ Follows /\ Since
  BY DEF BInv
<1>b. ASSUME UNCHANGED <<draft, chosen, since, staleDraft>> PROVE draft' \in Draft /\ chosen' \in Draft /\ Follows' /\ Since'
  BY <1>a, <1>b DEF Typed, Follows, Since
<1> DEFINE u == pending[done + 1]
<1>1. u \in Update
  BY <1>a, CurrentUpdate DEF Dispatch
<1>2. \/ u.kind = "/buy" /\ CommandBuy
      \/ u.kind = "buy" /\ Buy
      \/ u.kind = "country" /\ Country(u.value)
      \/ u.kind = "proto" /\ Proto(u.value)
      \/ u.kind = "plan" /\ Plan(u.value)
      \/ u.kind = "renew" /\ Renew(u.value)
      \/ u.kind = "pay" /\ Pay
      \/ u.kind = "payment" /\ Payment(u.value)
      \/ NoUser
  BY DEF Dispatch
<1> HIDE DEF u
<1>3. CASE CommandBuy \/ NoUser
  BY <1>b, <1>3 DEF CommandBuy, NoUser
<1>4. CASE Buy
  BY <1>a, <1>4, ClearStep DEF Buy
<1>5. CASE u.kind = "country" /\ Country(u.value)
  BY <1>a, <1>1, <1>5, UpdateValue, CountryStep DEF Country, Choose
<1>6. CASE u.kind = "proto" /\ Proto(u.value)
  BY <1>a, <1>1, <1>6, UpdateValue, ProtoStep DEF Proto, Choose
<1>7. CASE u.kind = "plan" /\ Plan(u.value)
  BY <1>a, <1>1, <1>7, UpdateValue, PlanStep DEF Plan, Choose
<1>8. CASE u.kind = "renew" /\ Renew(u.value)
  BY <1>a, <1>1, <1>8, UpdateValue, RenewStep DEF Renew
<1>9. CASE Pay
  <2>1. UNCHANGED <<draft, chosen, since, staleDraft>>
    BY <1>9 DEF Pay
  <2> QED BY <1>a, <1>b, <1>9, <2>1, PayStep
<1>10. CASE Payment(u.value)
  <2>1. UNCHANGED <<orders, chosen>>
    BY <1>10 DEF Payment
  <2>2. \/ UNCHANGED <<draft, since, staleDraft>>
        \/ \E failures \in {0, 1} : ClearDraft(failures)
    BY <1>10 DEF Payment
  <2> QED BY <1>a, <1>b, <2>1, <2>2, ClearStep
<1> QED BY <1>2, <1>3, <1>4, <1>5, <1>6, <1>7, <1>8, <1>9, <1>10

LEMMA BStep ==
  ASSUME BInv, [BotNext]_botVars
  PROVE  /\ BInv'
         /\ \/ UNCHANGED orders
            \/ orders' = Append(orders, draft) /\ Payable(draft)
<1> USE DEF polling, billing, choice, counters
<1>a. Typed /\ Follows /\ Since
  BY DEF BInv
<1>1. /\ draft' \in Draft /\ chosen' \in Draft /\ Follows' /\ Since'
      /\ \/ UNCHANGED orders
         \/ orders' = Append(orders, draft) /\ Payable(draft)
  <2>1. CASE UNCHANGED <<draft, chosen, since, staleDraft, orders>>
    BY <1>a, <2>1 DEF Typed, Follows, Since
  <2>2. CASE Expire
    <3>1. draft' = Empty /\ UNCHANGED <<chosen, orders>>
      BY <2>2 DEF Expire
    <3> QED BY <1>a, <3>1, EmptyDraft DEF Typed, Follows, Since, Fits, Covers
  <2>3. CASE Dispatch
    BY <2>3, DispatchStep
  <2>4. UNCHANGED <<draft, chosen, since, staleDraft, orders>> \/ Expire \/ Dispatch
    BY DEF BotNext, Press, PayInvoice, GetUpdates, Restart, botVars
  <2> QED BY <2>1, <2>2, <2>3, <2>4
<1>2. /\ pending' \in Seq(Update) /\ done' \in Nat /\ fetched' \in Nat
      /\ done' <= fetched' /\ fetched' <= Len(pending')
  <2>1. ASSUME NEW k \in Kinds, NEW x \in Button(k), Press([kind |-> k, value |-> x])
        PROVE  \E u \in Update : pending' = Append(pending, u) /\ UNCHANGED <<fetched, done>>
    BY <2>1, PressedUpdate DEF Press
  <2>2. ASSUME NEW o \in 1 .. MaxOrders, PayInvoice(o)
        PROVE  \E u \in Update : pending' = Append(pending, u) /\ UNCHANGED <<fetched, done>>
    BY <2>2, PaymentUpdate DEF PayInvoice
  <2>3. ASSUME Expire \/ UNCHANGED botVars PROVE UNCHANGED <<pending, fetched, done>>
    BY <2>3 DEF Expire, botVars
  <2>4. ASSUME Restart PROVE UNCHANGED pending /\ fetched' = 0 /\ done' = 0
    BY <2>4 DEF Restart
  <2>5. ASSUME Dispatch PROVE UNCHANGED <<pending, fetched>> /\ done' = done + 1 /\ done < fetched
    BY <2>5 DEF Dispatch
  <2>6. \/ \E u \in Update : pending' = Append(pending, u) /\ UNCHANGED <<fetched, done>>
        \/ GetUpdates
        \/ UNCHANGED pending /\ fetched' = 0 /\ done' = 0
        \/ UNCHANGED <<pending, fetched>> /\ done' = done + 1 /\ done < fetched
        \/ UNCHANGED <<pending, fetched, done>>
    BY <2>1, <2>2, <2>3, <2>4, <2>5 DEF BotNext
  <2> QED BY <1>a, <2>6, PollingStep
<1>3. orders' \in Seq(Draft)
  BY <1>a, <1>1, AppendProperties DEF Typed
<1> QED BY <1>1, <1>2, <1>3 DEF BInv, Typed

\* A step that makes an order appends the draft to the orders.
LEMMA NewOrder ==
  ASSUME BInv, [BotNext]_botVars, Len(orders') > Len(orders)
  PROVE  orders'[Len(orders')] = draft /\ Payable(draft)
<1>1. orders \in Seq(Draft) /\ draft \in Draft
  BY DEF BInv, Typed
<1>2. orders' = Append(orders, draft) /\ Payable(draft)
  BY BStep, <1>1
<1> QED BY <1>1, <1>2, AppendProperties

LEMMA BAlways == BotSpec => []BInv
<1>1. BotInit => BInv
  <2> SUFFICES ASSUME BotInit PROVE BInv
    OBVIOUS
  <2>1. draft = Empty /\ chosen = Empty /\ pending = <<>> /\ orders = <<>> /\ fetched = 0 /\ done = 0
    BY DEF BotInit
  <2> QED BY <2>1, EmptyDraft DEF BInv, Typed, Follows, Since, Fits, Covers
<1>2. BInv /\ [BotNext]_botVars => BInv'
  BY BStep
<1> QED BY <1>1, <1>2, PTL DEF BotSpec

\* pay: the order is what the buttons handled last say, unless a write of the
\* draft failed.
THEOREM OrderFollowsButtons == BotSpec => OrderIsLastChoice
<1>1. BInv /\ [BotNext]_botVars =>
        [Len(orders') > Len(orders) /\ ~ staleDraft => orders'[Len(orders')] = chosen]_botVars
  <2> SUFFICES ASSUME BInv, [BotNext]_botVars, Len(orders') > Len(orders), ~ staleDraft
               PROVE  orders'[Len(orders')] = chosen
    OBVIOUS
  <2>1. orders'[Len(orders')] = draft /\ Payable(draft)
    BY NewOrder
  <2>2. draft \in Draft /\ chosen \in Draft /\ Fits(draft, chosen)
    BY DEF BInv, Typed, Follows
  <2>3. /\ draft.country = chosen.country /\ draft.renew = chosen.renew /\ draft.plan = chosen.plan
        /\ draft.protocol = chosen.protocol /\ draft.routing = chosen.routing
    BY <2>1, <2>2 DEF Payable, Fits
  <2>4. draft = chosen
    BY <2>2, <2>3 DEF Draft
  <2> QED BY <2>1, <2>4
<1> QED BY <1>1, BAlways, PTL DEF BotSpec, OrderIsLastChoice

\* pay: every part of the order was chosen since the draft was last empty.
THEOREM OrderChosenAnew == BotSpec => OrderIsChosenAnew
<1> DEFINE A == Len(orders') > Len(orders) =>
                  LET o == orders'[Len(orders')]
                  IN  /\ "plan" \in since
                      /\ o.renew # None => "renew" \in since
                      /\ o.renew = None => /\ "country" \in since
                                           /\ {"proto", "renew"} \cap since # {}
<1>1. BInv /\ [BotNext]_botVars => [A]_botVars
  <2> SUFFICES ASSUME BInv, [BotNext]_botVars, Len(orders') > Len(orders)
               PROVE  /\ "plan" \in since
                      /\ draft.renew # None => "renew" \in since
                      /\ draft.renew = None => /\ "country" \in since
                                               /\ {"proto", "renew"} \cap since # {}
    BY NewOrder
  <2>1. Payable(draft)
    BY NewOrder
  <2>2. Covers(since, draft)
    BY DEF BInv, Since
  <2> QED BY <2>1, <2>2 DEF Payable, Covers
<1> QED BY <1>1, BAlways, PTL DEF BotSpec, OrderIsChosenAnew
===============================================================================
