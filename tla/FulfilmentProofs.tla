--------------------------- MODULE FulfilmentProofs ---------------------------
(***************************************************************************)
(* Proofs about Fulfilment, for any sets of orders, workers and            *)
(* subscriptions and any number of faults.                                 *)
(***************************************************************************)
EXTENDS Fulfilment, TLAPS

LEMMA TypeInit == Init => TypeOK
BY FulfilmentAssumption DEF Init, TypeOK, Outcomes, PC

\* The answer of a handler keeps the types of what it touches.
LEMMA AnswerType ==
  ASSUME TypeOK, NEW w \in Workers, NEW accepted \in BOOLEAN, pc[w] # "idle",
         Answer(w, accepted)
  PROVE  /\ outcome' \in [Orders -> Outcomes]
         /\ inbox' \subseteq Notices
         /\ offset' \subseteq Notices
         /\ revised' \subseteq Orders
         /\ pc' \in [Workers -> PC]
         /\ job' \in [Workers -> Notices \cup {NoJob}]
         /\ \A v \in Workers : pc'[v] = "idle" <=> job'[v] = NoJob
BY DEF TypeOK, Answer, PC

\* Moving a working handler to another working place keeps pc and job consistent.
LEMMA AdvanceType ==
  ASSUME TypeOK, NEW w \in Workers, NEW place \in PC \ {"idle"}, pc[w] # "idle",
         pc' = [pc EXCEPT ![w] = place], job' = job
  PROVE  /\ pc' \in [Workers -> PC]
         /\ job' \in [Workers -> Notices \cup {NoJob}]
         /\ \A v \in Workers : pc'[v] = "idle" <=> job'[v] = NoJob
BY DEF TypeOK, PC

\* The notice in the hands of a working handler.
LEMMA JobType ==
  ASSUME TypeOK, NEW w \in Workers, pc[w] # "idle"
  PROVE  job[w] \in Notices /\ job[w].order \in Orders /\ job[w].result \in Results
BY DEF TypeOK, Notices

LEMMA HandleType ==
  ASSUME TypeOK, NEW w \in Workers, Handle(w)
  PROVE  TypeOK'
<1> USE DEF gatewayVars, billingVars, serviceVars, workerVars
<1>1. CASE IgnorePending(w)
  BY <1>1, AnswerType DEF IgnorePending, TypeOK
<1>2. CASE ClaimForProvisioning(w)
  BY <1>2, AdvanceType, JobType DEF ClaimForProvisioning, TypeOK, PC
<1>3. CASE SkipClaimed(w)
  BY <1>3, AdvanceType DEF SkipClaimed, TypeOK, PC
<1>4. CASE Issue(w)
  BY <1>4, AdvanceType, JobType DEF Issue, TypeOK, PC
<1>5. CASE ExtendSubscription(w)
  <2>1. subStatus' \in [Subs -> {"active", "expired", "deleted"}]
    BY <1>5 DEF ExtendSubscription, Reactivated, TypeOK
  <2>2. overdue' \in [Subs -> BOOLEAN]
    BY <1>5 DEF ExtendSubscription, TypeOK
  <2>3. credited' \in [Orders -> Nat]
    <3>1. pc[w] # "idle"
      BY <1>5 DEF ExtendSubscription
    <3>2. job[w].order \in Orders
      BY <3>1, JobType
    <3> QED BY <1>5, <3>2 DEF ExtendSubscription, TypeOK
  <2> QED
    BY <1>5, <2>1, <2>2, <2>3, AdvanceType DEF ExtendSubscription, TypeOK, PC
<1>6. CASE ExtendDeleted(w)
  BY <1>6, AnswerType DEF ExtendDeleted, TypeOK
<1>7. CASE FinalizePaid(w)
  BY <1>7, AdvanceType, JobType DEF FinalizePaid, PaymentSettled, TypeOK, PC
<1>8. CASE FinalizeRejected(w)
  BY <1>8, AnswerType DEF FinalizeRejected, TypeOK
<1>9. CASE MarkFailed(w)
  BY <1>9, AdvanceType, JobType DEF MarkFailed, TypeOK, PC
<1>10. CASE Finish(w)
  <2>1. hook' \in [Orders -> [result : Results \cup {"none"}, processed : BOOLEAN]]
    <3>1. \/ hook' = hook
          \/ hook' = [hook EXCEPT ![job[w].order].processed = TRUE]
      BY <1>10 DEF Finish
    <3>2. job[w].order \in Orders
      BY <1>10, JobType DEF Finish
    <3>3. ASSUME hook' = [hook EXCEPT ![job[w].order].processed = TRUE]
          PROVE  hook' \in [Orders -> [result : Results \cup {"none"}, processed : BOOLEAN]]
      <4> DEFINE row == [hook[job[w].order] EXCEPT !.processed = TRUE]
      <4>1. hook[job[w].order] \in [result : Results \cup {"none"}, processed : BOOLEAN]
        BY <3>2 DEF TypeOK
      <4>2. row \in [result : Results \cup {"none"}, processed : BOOLEAN]
        BY <4>1
      <4>3. hook' = [hook EXCEPT ![job[w].order] = row]
        BY <3>3
      <4> HIDE DEF row
      <4> QED BY <4>2, <4>3 DEF TypeOK
    <3>4. hook \in [Orders -> [result : Results \cup {"none"}, processed : BOOLEAN]]
      BY DEF TypeOK
    <3> QED BY <3>1, <3>3, <3>4
  <2>2. faults' \in 0 .. MaxFaults
    BY <1>10, FulfilmentAssumption DEF Finish, TypeOK
  <2> QED BY <1>10, <2>1, <2>2, AnswerType DEF Finish, TypeOK
<1> QED
  BY <1>1, <1>2, <1>3, <1>4, <1>5, <1>6, <1>7, <1>8, <1>9, <1>10 DEF Handle

LEMMA ReceiveType ==
  ASSUME TypeOK, NEW w \in Workers, NEW n \in inbox, Receive(w, n)
  PROVE  TypeOK'
<1> USE DEF gatewayVars, serviceVars
<1>1. n \in Notices /\ n.order \in Orders /\ n.result \in Results
  BY DEF TypeOK, Notices
<1>2. hook' \in [Orders -> [result : Results \cup {"none"}, processed : BOOLEAN]]
  BY <1>1 DEF Receive, TypeOK
<1>3. /\ pc' \in [Workers -> PC]
      /\ job' \in [Workers -> Notices \cup {NoJob}]
      /\ \A v \in Workers : pc'[v] = "idle" <=> job'[v] = NoJob
  BY <1>1, NoJobAssumption DEF Receive, TypeOK, PC
<1> QED BY <1>2, <1>3 DEF Receive, TypeOK

LEMMA FaultType ==
  ASSUME TypeOK, NEW w \in Workers, Fault(w)
  PROVE  TypeOK'
<1>1. faults' \in 0 .. MaxFaults
  BY FulfilmentAssumption DEF Fault, TypeOK
<1> QED
  BY <1>1, AnswerType DEF Fault, TypeOK, billingVars, serviceVars

\* Everything that is not a step of a handler.
LEMMA RestType ==
  ASSUME TypeOK,
         \/ \E o \in Orders : AnnouncePending(o)
                              \/ \E end \in Outcomes : Conclude(o, end)
         \/ Crash \/ Poll \/ Sweep
         \/ \E s \in Subs : BecomeOverdue(s) \/ DeleteSub(s)
         \/ UNCHANGED vars
  PROVE  TypeOK'
<1> USE DEF gatewayVars, billingVars, serviceVars, workerVars
<1>1. ASSUME NEW o \in Orders, AnnouncePending(o) PROVE TypeOK'
  BY <1>1 DEF AnnouncePending, TypeOK, Notices, Results
<1>2. ASSUME NEW o \in Orders, NEW end \in Outcomes, Conclude(o, end) PROVE TypeOK'
  BY <1>2 DEF Conclude, TypeOK, Notices, Results, Outcomes
<1>3. CASE Crash
  BY <1>3, FulfilmentAssumption DEF Crash, TypeOK, PC
<1>4. CASE Poll
  BY <1>4 DEF Poll, TypeOK
<1>5. CASE Sweep
  BY <1>5 DEF Sweep, TypeOK
<1>6. ASSUME NEW s \in Subs, BecomeOverdue(s) PROVE TypeOK'
  BY <1>6 DEF BecomeOverdue, TypeOK
<1>7. ASSUME NEW s \in Subs, DeleteSub(s) PROVE TypeOK'
  BY <1>7 DEF DeleteSub, TypeOK
<1>8. CASE UNCHANGED vars
  BY <1>8 DEF vars, TypeOK
<1> QED BY <1>1, <1>2, <1>3, <1>4, <1>5, <1>6, <1>7, <1>8

LEMMA TypeStep == TypeOK /\ [Next]_vars => TypeOK'
BY HandleType, ReceiveType, FaultType, RestType DEF Next

\* Every variable keeps its type, whatever the gateways, handlers, crashes and
\* the expirer do.
THEOREM TypeCorrect == Spec => []TypeOK
<1>1. QED BY TypeInit, TypeStep, PTL DEF Spec

-------------------------------------------------------------------------------
(* The claim.  ServedAtMostOnce is not inductive: that the second of two   *)
(* successes finds nothing to do rests on the claimant being the only one, *)
(* on the claim being taken only from "wait_payment", where nothing was    *)
(* served yet, and on a claimed order never waiting again.                 *)

Working(w) == pc[w] \in {"claimed", "served"}

\* Two fulfillers never work on one order.
ClaimExclusive ==
  \A v, w \in Workers :
    Working(v) /\ Working(w) /\ job[v].order = job[w].order => v = w

\* Where a fulfiller stands tells what its order got so far.
ClaimProgress ==
  \A w \in Workers :
    /\ Working(w) => orderStatus[job[w].order] \in {"processing", "failed"}
    /\ pc[w] = "claimed" => credited[job[w].order] = 0
    /\ pc[w] = "served" => credited[job[w].order] = 1

\* What an order got, by its status.
OrderProgress ==
  \A o \in Orders :
    /\ credited[o] \in {0, 1}
    /\ orderStatus[o] = "wait_payment" => credited[o] = 0
    /\ orderStatus[o] = "paid" => credited[o] = 1

IInv == ClaimExclusive /\ ClaimProgress /\ OrderProgress /\ ChargedIffPaid

LEMMA ClaimInit == Init => IInv
BY DEF Init, IInv, ClaimExclusive, ClaimProgress, OrderProgress, ChargedIffPaid, Working

\* A step that gives no service, decides no order and gives no worker a claim.
LEMMA ClaimFrame ==
  ASSUME TypeOK, IInv,
         UNCHANGED <<orderStatus, ledger, credited>>,
         \A v \in Workers :
           pc'[v] \in {"claimed", "served"} => pc'[v] = pc[v] /\ job'[v] = job[v]
  PROVE  IInv'
<1>1. ClaimExclusive' /\ ClaimProgress'
  BY DEF IInv, ClaimExclusive, ClaimProgress, Working
<1>2. OrderProgress' /\ ChargedIffPaid'
  BY DEF IInv, OrderProgress, ChargedIffPaid
<1> QED BY <1>1, <1>2 DEF IInv

\* The answer of a handler gives no worker a claim.
LEMMA AnswerClaim ==
  ASSUME TypeOK, NEW w \in Workers, NEW accepted \in BOOLEAN, Answer(w, accepted)
  PROVE  \A v \in Workers :
           pc'[v] \in {"claimed", "served"} => pc'[v] = pc[v] /\ job'[v] = job[v]
BY DEF Answer, TypeOK

LEMMA ClaimStepClaim ==
  ASSUME TypeOK, IInv, NEW w \in Workers, ClaimForProvisioning(w)
  PROVE  IInv'
<1> DEFINE o == job[w].order
<1>1. /\ pc[w] = "received" /\ orderStatus[o] = "wait_payment" /\ o \in Orders
      /\ orderStatus' = [orderStatus EXCEPT ![o] = "processing"]
      /\ pc' = [pc EXCEPT ![w] = "claimed"]
      /\ UNCHANGED <<ledger, credited, job>>
  BY JobType DEF ClaimForProvisioning, Claimable, billingVars, serviceVars
<1>2. \A v \in Workers : Working(v) => job[v].order # o
  BY <1>1 DEF IInv, ClaimProgress
<1>3. credited[o] = 0 /\ ledger[o] = 0
  BY <1>1 DEF IInv, OrderProgress, ChargedIffPaid
<1>4. ClaimExclusive'
  BY <1>1, <1>2 DEF IInv, ClaimExclusive, Working, TypeOK
<1>5. ClaimProgress'
  BY <1>1, <1>2, <1>3 DEF IInv, ClaimProgress, Working, TypeOK
<1>6. OrderProgress' /\ ChargedIffPaid'
  BY <1>1, <1>3 DEF IInv, OrderProgress, ChargedIffPaid, TypeOK
<1> QED BY <1>4, <1>5, <1>6 DEF IInv

\* Issue and ExtendSubscription alike: the claimant gives the service.
LEMMA ClaimStepServe ==
  ASSUME TypeOK, IInv, NEW w \in Workers, Issue(w) \/ ExtendSubscription(w)
  PROVE  IInv'
<1> DEFINE o == job[w].order
<1>1. /\ pc[w] = "claimed" /\ o \in Orders
      /\ credited' = [credited EXCEPT ![o] = credited[o] + 1]
      /\ pc' = [pc EXCEPT ![w] = "served"]
      /\ UNCHANGED <<orderStatus, ledger, job>>
  BY JobType DEF Issue, ExtendSubscription, billingVars
<1>2. /\ credited[o] = 0 /\ orderStatus[o] \in {"processing", "failed"}
      /\ \A v \in Workers : Working(v) /\ job[v].order = o => v = w
  BY <1>1 DEF IInv, ClaimProgress, ClaimExclusive, Working
<1>3. credited'[o] = 1 /\ \A p \in Orders \ {o} : credited'[p] = credited[p]
  BY <1>1, <1>2 DEF TypeOK
<1>4. \A v \in Workers : Working(v)' <=> Working(v)
  BY <1>1 DEF Working, TypeOK
<1>5. ClaimExclusive'
  BY <1>1, <1>4 DEF IInv, ClaimExclusive
<1>6. ClaimProgress'
  <2> SUFFICES ASSUME NEW v \in Workers, Working(v)'
               PROVE  /\ orderStatus'[job'[v].order] \in {"processing", "failed"}
                      /\ pc'[v] = "claimed" => credited'[job'[v].order] = 0
                      /\ pc'[v] = "served" => credited'[job'[v].order] = 1
    BY DEF ClaimProgress, Working
  <2>1. Working(v) /\ pc[v] # "idle"
    BY <1>4 DEF Working
  <2>2. job[v].order \in Orders
    BY <2>1, JobType
  <2>3. CASE v = w
    BY <2>3, <1>1, <1>2, <1>3 DEF TypeOK
  <2>4. CASE v # w
    BY <2>1, <2>2, <2>4, <1>1, <1>2, <1>3 DEF IInv, ClaimProgress, TypeOK
  <2> QED BY <2>3, <2>4
<1>7. OrderProgress' /\ ChargedIffPaid'
  BY <1>1, <1>2, <1>3 DEF IInv, OrderProgress, ChargedIffPaid
<1> QED BY <1>5, <1>6, <1>7 DEF IInv

LEMMA ClaimStepFinalize ==
  ASSUME TypeOK, IInv, NEW w \in Workers, FinalizePaid(w)
  PROVE  IInv'
<1> DEFINE o == job[w].order
<1>1. /\ pc[w] = "served" /\ o \in Orders /\ Finalizable(o)
      /\ orderStatus' = [orderStatus EXCEPT ![o] = "paid"]
      /\ ledger' = [ledger EXCEPT ![o] = ledger[o] + 1]
      /\ pc' = [pc EXCEPT ![w] = "handled"]
      /\ UNCHANGED <<credited, job>>
  BY JobType DEF FinalizePaid, serviceVars
<1>2. /\ credited[o] = 1 /\ ledger[o] = 0
      /\ \A v \in Workers : Working(v) /\ job[v].order = o => v = w
  BY <1>1 DEF IInv, ClaimProgress, ClaimExclusive, ChargedIffPaid, Working, Finalizable
<1>3. \A v \in Workers : Working(v)' <=> Working(v) /\ v # w
  BY <1>1 DEF Working, TypeOK
<1>4. ClaimExclusive'
  BY <1>1, <1>3 DEF IInv, ClaimExclusive
<1>5. ClaimProgress'
  <2> SUFFICES ASSUME NEW v \in Workers, Working(v)'
               PROVE  /\ orderStatus'[job'[v].order] \in {"processing", "failed"}
                      /\ pc'[v] = "claimed" => credited'[job'[v].order] = 0
                      /\ pc'[v] = "served" => credited'[job'[v].order] = 1
    BY DEF ClaimProgress, Working
  <2>1. Working(v) /\ v # w /\ pc[v] # "idle" /\ pc'[v] = pc[v]
    BY <1>1, <1>3 DEF Working, TypeOK
  <2>2. job[v].order \in Orders \ {o}
    BY <2>1, <1>2, JobType
  <2> QED BY <2>1, <2>2, <1>1 DEF IInv, ClaimProgress, TypeOK
<1>6. OrderProgress' /\ ChargedIffPaid'
  BY <1>1, <1>2 DEF IInv, OrderProgress, ChargedIffPaid, TypeOK
<1> QED BY <1>4, <1>5, <1>6 DEF IInv

LEMMA ClaimStepMarkFailed ==
  ASSUME TypeOK, IInv, NEW w \in Workers, MarkFailed(w)
  PROVE  IInv'
<1> DEFINE o == job[w].order
<1>1. /\ pc[w] = "received" /\ o \in Orders
      /\ orderStatus' = IF Cancellable(o)
                        THEN [orderStatus EXCEPT ![o] = "failed"] ELSE orderStatus
      /\ pc' = [pc EXCEPT ![w] = "handled"]
      /\ UNCHANGED <<ledger, credited, job>>
  BY JobType DEF MarkFailed, serviceVars
<1>2. \A v \in Workers : Working(v)' <=> Working(v)
  BY <1>1 DEF Working, TypeOK
<1>3. ClaimExclusive'
  BY <1>1, <1>2 DEF IInv, ClaimExclusive
<1>4. \A p \in Orders : \/ orderStatus'[p] = orderStatus[p]
                        \/ /\ orderStatus'[p] = "failed"
                           /\ orderStatus[p] # "paid"
  BY <1>1 DEF TypeOK, Cancellable
<1>5. ClaimProgress'
  <2> SUFFICES ASSUME NEW v \in Workers, Working(v)'
               PROVE  /\ orderStatus'[job'[v].order] \in {"processing", "failed"}
                      /\ pc'[v] = "claimed" => credited'[job'[v].order] = 0
                      /\ pc'[v] = "served" => credited'[job'[v].order] = 1
    BY DEF ClaimProgress, Working
  <2>1. Working(v) /\ pc[v] # "idle" /\ pc'[v] = pc[v]
    BY <1>1, <1>2 DEF Working, TypeOK
  <2>2. job[v].order \in Orders
    BY <2>1, JobType
  <2> QED BY <2>1, <2>2, <1>1, <1>4 DEF IInv, ClaimProgress
<1>6. OrderProgress' /\ ChargedIffPaid'
  BY <1>1, <1>4 DEF IInv, OrderProgress, ChargedIffPaid
<1> QED BY <1>3, <1>5, <1>6 DEF IInv

LEMMA ClaimStep == TypeOK /\ IInv /\ [Next]_vars => IInv'
<1> SUFFICES ASSUME TypeOK, IInv, [Next]_vars PROVE IInv'
  OBVIOUS
<1> USE DEF gatewayVars, billingVars, serviceVars, workerVars
<1>1. ASSUME NEW w \in Workers, Handle(w) PROVE IInv'
  <2>1. CASE IgnorePending(w)
    BY <2>1, ClaimFrame, AnswerClaim DEF IgnorePending
  <2>2. CASE SkipClaimed(w)
    BY <2>2, ClaimFrame DEF SkipClaimed, TypeOK
  <2>3. CASE ExtendDeleted(w)
    BY <2>3, ClaimFrame, AnswerClaim DEF ExtendDeleted
  <2>4. CASE FinalizeRejected(w)
    BY <2>4, ClaimFrame, AnswerClaim DEF FinalizeRejected
  <2>5. CASE Finish(w)
    BY <2>5, ClaimFrame, AnswerClaim DEF Finish
  <2> QED
    BY <1>1, <2>1, <2>2, <2>3, <2>4, <2>5, ClaimStepClaim, ClaimStepServe,
       ClaimStepFinalize, ClaimStepMarkFailed DEF Handle
<1>2. ASSUME NEW w \in Workers, Fault(w) PROVE IInv'
  BY <1>2, ClaimFrame, AnswerClaim DEF Fault
<1>3. ASSUME NEW w \in Workers, NEW n \in inbox, Receive(w, n) PROVE IInv'
  BY <1>3, ClaimFrame DEF Receive, TypeOK
<1>4. CASE Crash
  BY <1>4, ClaimFrame DEF Crash
<1>5. CASE \/ \E o \in Orders : AnnouncePending(o)
                                \/ \E end \in Outcomes : Conclude(o, end)
           \/ Poll \/ Sweep
           \/ \E s \in Subs : BecomeOverdue(s) \/ DeleteSub(s)
           \/ UNCHANGED vars
  <2>1. UNCHANGED <<orderStatus, ledger, credited, pc, job>>
    BY <1>5 DEF AnnouncePending, Conclude, Poll, Sweep, BecomeOverdue, DeleteSub, vars
  <2> QED BY <2>1, ClaimFrame
<1> QED BY <1>1, <1>2, <1>3, <1>4, <1>5 DEF Next

LEMMA ClaimInvariant == Spec => [](TypeOK /\ IInv)
<1>1. QED BY TypeInit, ClaimInit, TypeStep, ClaimStep, PTL DEF Spec

\* No order is served twice, however its success is repeated and raced.
THEOREM AtMostOnce == Spec => []ServedAtMostOnce
<1>1. IInv => ServedAtMostOnce
  BY DEF IInv, OrderProgress, ServedAtMostOnce
<1> QED BY <1>1, ClaimInvariant, PTL

\* The ledger charges exactly the paid orders, each once.
THEOREM ChargedExactlyPaid == Spec => []ChargedIffPaid
<1>1. IInv => ChargedIffPaid
  BY DEF IInv
<1> QED BY <1>1, ClaimInvariant, PTL

\* Every paid order was served, once.
THEOREM PaidOnlyIfServed == Spec => []PaidWasServedOnce
<1>1. IInv => PaidWasServedOnce
  BY DEF IInv, OrderProgress, PaidWasServedOnce
<1> QED BY <1>1, ClaimInvariant, PTL

-------------------------------------------------------------------------------
(* Fulfilment implements OrderLifecycle.                                   *)

\* InHand, through the steps of the proofs above.
LEMMA InHandWorking ==
  /\ \A o \in Orders : InHand(o) <=> \E v \in Workers : Working(v) /\ job[v].order = o
  /\ \A o \in Orders :
       InHand(o)' <=> \E v \in Workers : Working(v)' /\ job'[v].order = o
BY DEF InHand, Fulfils, Working

\* A step that gives no worker a claim abandons the orders it takes out of hand.
LEMMA AbandonStep ==
  ASSUME UNCHANGED <<orderStatus, ledger, credited>>,
         \A v \in Workers :
           pc'[v] \in {"claimed", "served"} => pc'[v] = pc[v] /\ job'[v] = job[v]
  PROVE  Lifecycle!Next
<1> DEFINE S == {o \in Orders : ~InHand(o)'}
<1>1. \A o \in Orders : InHand(o)' <=> InHand(o) /\ o \notin S
  BY InHandWorking DEF Working
<1>2. Lifecycle!Abandon(S)
  BY <1>1 DEF Lifecycle!Abandon
<1> QED BY <1>2 DEF Lifecycle!Next

LEMMA LifecycleInit == Init => Lifecycle!Init
BY DEF Init, Lifecycle!Init, InHand, Fulfils

LEMMA LifecycleClaim ==
  ASSUME TypeOK, IInv, NEW w \in Workers, ClaimForProvisioning(w)
  PROVE  Lifecycle!Next
<1> DEFINE o == job[w].order
<1>1. /\ pc[w] = "received" /\ orderStatus[o] = "wait_payment" /\ o \in Orders
      /\ orderStatus' = [orderStatus EXCEPT ![o] = "processing"]
      /\ pc' = [pc EXCEPT ![w] = "claimed"]
      /\ UNCHANGED <<ledger, credited, job>>
  BY JobType DEF ClaimForProvisioning, Claimable, billingVars, serviceVars
<1>2. ~InHand(o)
  BY <1>1, InHandWorking DEF IInv, ClaimProgress
<1>3. \A v \in Workers : Working(v)' <=> Working(v) \/ v = w
  BY <1>1 DEF Working, TypeOK
<1>4. \A p \in Orders : InHand(p)' <=> InHand(p) \/ p = o
  BY <1>1, <1>3, InHandWorking
<1>6. Lifecycle!Claim(o)
  BY <1>1, <1>2, <1>4 DEF Lifecycle!Claim
<1> QED BY <1>1, <1>6 DEF Lifecycle!Next

LEMMA LifecycleServe ==
  ASSUME TypeOK, IInv, NEW w \in Workers, Issue(w) \/ ExtendSubscription(w)
  PROVE  Lifecycle!Next
<1>0. PICK o \in Orders : o = job[w].order
  BY JobType DEF Issue, ExtendSubscription
<1>1. /\ pc[w] = "claimed" /\ o \in Orders
      /\ credited' = [credited EXCEPT ![o] = credited[o] + 1]
      /\ pc' = [pc EXCEPT ![w] = "served"]
      /\ UNCHANGED <<orderStatus, ledger, job>>
  BY <1>0 DEF Issue, ExtendSubscription, billingVars
<1>2. credited[o] = 0 /\ InHand(o)
  BY <1>0, <1>1, InHandWorking DEF IInv, ClaimProgress, Working
<1>3. \A v \in Workers : Working(v)' <=> Working(v)
  BY <1>0, <1>1 DEF Working, TypeOK
<1>4. \A p \in Orders : InHand(p)' <=> InHand(p)
  BY <1>0, <1>1, <1>3, InHandWorking
<1>5. \A p \in Orders : credited'[p] = IF p = o THEN 1 ELSE credited[p]
  BY <1>0, <1>1, <1>2 DEF TypeOK
<1>6. Lifecycle!Serve(o)
  BY <1>0, <1>1, <1>2, <1>4, <1>5 DEF Lifecycle!Serve
<1> QED BY <1>6 DEF Lifecycle!Next

LEMMA LifecycleSettle ==
  ASSUME TypeOK, IInv, NEW w \in Workers, FinalizePaid(w)
  PROVE  Lifecycle!Next
<1>0. PICK o \in Orders : o = job[w].order
  BY JobType DEF FinalizePaid
<1>1. /\ pc[w] = "served" /\ o \in Orders /\ Finalizable(o)
      /\ orderStatus' = [orderStatus EXCEPT ![o] = "paid"]
      /\ ledger' = [ledger EXCEPT ![o] = ledger[o] + 1]
      /\ pc' = [pc EXCEPT ![w] = "handled"]
      /\ UNCHANGED <<credited, job>>
  BY <1>0 DEF FinalizePaid, serviceVars
<1>2. /\ credited[o] = 1 /\ orderStatus[o] = "processing" /\ ledger[o] = 0
      /\ \A v \in Workers : Working(v) /\ job[v].order = o => v = w
  BY <1>0, <1>1 DEF IInv, ClaimProgress, ClaimExclusive, ChargedIffPaid, Working, Finalizable
<1>3. InHand(o)
  BY <1>0, <1>1, InHandWorking DEF Working
<1>4. \A v \in Workers : Working(v)' <=> Working(v) /\ v # w
  BY <1>0, <1>1 DEF Working, TypeOK
<1>5. \A p \in Orders : InHand(p)' <=> InHand(p) /\ p # o
  BY <1>0, <1>1, <1>2, <1>4, InHandWorking
<1>6. \A p \in Orders : ledger'[p] = IF p = o THEN 1 ELSE ledger[p]
  BY <1>0, <1>1, <1>2 DEF TypeOK
<1>7. Lifecycle!Settle(o)
  BY <1>0, <1>1, <1>2, <1>3, <1>5, <1>6 DEF Lifecycle!Settle
<1> QED BY <1>7 DEF Lifecycle!Next

LEMMA LifecycleCancel ==
  ASSUME TypeOK, IInv, NEW w \in Workers, MarkFailed(w)
  PROVE  Lifecycle!Next
<1> DEFINE o == job[w].order
<1>1. /\ pc[w] = "received" /\ o \in Orders
      /\ pc' = [pc EXCEPT ![w] = "handled"]
      /\ UNCHANGED <<ledger, credited, job>>
  BY JobType DEF MarkFailed, serviceVars
<1>2. \A v \in Workers : Working(v)' <=> Working(v)
  BY <1>1 DEF Working, TypeOK
<1>3. \A p \in Orders : InHand(p)' <=> InHand(p)
  BY <1>1, <1>2, InHandWorking
<1>4. CASE Cancellable(o)
  <2>1. Lifecycle!Cancel(o)
    BY <1>1, <1>3, <1>4 DEF MarkFailed, Cancellable, Lifecycle!Cancel
  <2> QED BY <1>1, <2>1 DEF Lifecycle!Next
<1>5. CASE ~Cancellable(o)
  <2>1. orderStatus' = orderStatus
    BY <1>5 DEF MarkFailed
  <2> QED BY <1>1, <2>1, AbandonStep DEF TypeOK
<1> QED BY <1>4, <1>5

LEMMA LifecycleStep == TypeOK /\ IInv /\ [Next]_vars => Lifecycle!Next
<1> SUFFICES ASSUME TypeOK, IInv, [Next]_vars PROVE Lifecycle!Next
  OBVIOUS
<1> USE DEF gatewayVars, billingVars, serviceVars, workerVars
<1>1. ASSUME NEW w \in Workers, Handle(w) PROVE Lifecycle!Next
  <2>1. CASE IgnorePending(w)
    BY <2>1, AbandonStep, AnswerClaim DEF IgnorePending
  <2>2. CASE SkipClaimed(w)
    BY <2>2, AbandonStep DEF SkipClaimed, TypeOK
  <2>3. CASE ExtendDeleted(w)
    BY <2>3, AbandonStep, AnswerClaim DEF ExtendDeleted
  <2>4. CASE FinalizeRejected(w)
    BY <2>4, AbandonStep, AnswerClaim DEF FinalizeRejected
  <2>5. CASE Finish(w)
    BY <2>5, AbandonStep, AnswerClaim DEF Finish
  <2> QED
    BY <1>1, <2>1, <2>2, <2>3, <2>4, <2>5, LifecycleClaim, LifecycleServe,
       LifecycleSettle, LifecycleCancel DEF Handle
<1>2. ASSUME NEW w \in Workers, Fault(w) PROVE Lifecycle!Next
  BY <1>2, AbandonStep, AnswerClaim DEF Fault
<1>3. ASSUME NEW w \in Workers, NEW n \in inbox, Receive(w, n) PROVE Lifecycle!Next
  BY <1>3, AbandonStep DEF Receive, TypeOK
<1>4. CASE Crash
  BY <1>4, AbandonStep DEF Crash
<1>5. CASE \/ \E o \in Orders : AnnouncePending(o)
                                \/ \E end \in Outcomes : Conclude(o, end)
           \/ Poll \/ Sweep
           \/ \E s \in Subs : BecomeOverdue(s) \/ DeleteSub(s)
           \/ UNCHANGED vars
  <2>1. UNCHANGED <<orderStatus, ledger, credited, pc, job>>
    BY <1>5 DEF AnnouncePending, Conclude, Poll, Sweep, BecomeOverdue, DeleteSub, vars
  <2> QED BY <2>1, AbandonStep
<1> QED BY <1>1, <1>2, <1>3, <1>4, <1>5 DEF Next

\* Every behaviour of the handlers, seen order by order, is one of OrderLifecycle:
\* claim, serve, settle, cancel or give up, and nothing else.
THEOREM LifecycleImplemented == Spec => ImplementsLifecycle
<1>1. Spec => Lifecycle!Init
  BY LifecycleInit DEF Spec
<1>2. Spec => [][Lifecycle!Next]_(Lifecycle!vars)
  BY LifecycleStep, ClaimInvariant, PTL DEF Spec
<1> QED BY <1>1, <1>2 DEF ImplementsLifecycle, Lifecycle!Spec

-------------------------------------------------------------------------------
(* What the notices say.  PaymentAgrees and NoSuccessLost relate a row to  *)
(* a notice that may be repeated, delayed or out of order.  They rest on   *)
(* every notice in flight being true of its payment, on a success being    *)
(* acknowledged only once its order was claimed, and on the bot's offset   *)
(* confirming updates about Stars only.                                    *)

\* n says of its payment what the gateway says, unless that was revised since.
NoticeTrue(n) ==
  \/ n.order \in revised
  \/ ~Terminal(n)
  \/ n.result = "success" /\ outcome[n.order] = "paid"
  \/ n.result = "failed" /\ outcome[n.order] = "refused"

NoticesTrue ==
  /\ \A n \in inbox : NoticeTrue(n)
  /\ \A w \in Workers : pc[w] # "idle" => NoticeTrue(job[w])

\* An order is advanced or failed only as its payment ended.
OutcomeDecides ==
  \A o \in Orders \ revised :
    /\ orderStatus[o] \in {"processing", "paid"} => outcome[o] = "paid"
    /\ orderStatus[o] = "failed" => outcome[o] = "refused"

\* Only successes are fulfilled, and an acknowledged one has left "wait_payment".
SuccessHandled ==
  \A w \in Workers :
    /\ Working(w) => Succeeded(job[w])
    /\ pc[w] = "handled" /\ Succeeded(job[w]) => orderStatus[job[w].order] # "wait_payment"

\* The bot sees the notices of Stars orders and nothing else.
BotOnlyStars ==
  /\ \A n \in offset : n.order \in StarsOrders
  /\ \A w \in Workers : pc[w] # "idle" => (w = Bot <=> job[w].order \in StarsOrders)

NInv ==
  /\ NoticesTrue /\ OutcomeDecides /\ SuccessHandled /\ BotOnlyStars
  /\ PaymentAgrees /\ NoSuccessLost /\ StrandedOnlyByFault
LEMMA NoticeInit == Init => NInv
<1> SUFFICES ASSUME Init PROVE NInv
  OBVIOUS
<1>1. NoticesTrue /\ SuccessHandled /\ BotOnlyStars
  BY DEF Init, NoticesTrue, SuccessHandled, BotOnlyStars, Working
<1>2. OutcomeDecides /\ PaymentAgrees /\ NoSuccessLost /\ StrandedOnlyByFault
  BY DEF Init, OutcomeDecides, PaymentAgrees, NoSuccessLost, StrandedOnlyByFault
<1> QED BY <1>1, <1>2 DEF NInv

\* A step of the program: no payment ends, no notice appears, and a worker that
\* is busy afterwards was busy with the same notice before.
ProgramStep ==
  /\ UNCHANGED <<outcome, revised>>
  /\ inbox' \subseteq inbox
  /\ \A v \in Workers : pc'[v] # "idle" => pc[v] # "idle" /\ job'[v] = job[v]

LEMMA AnswerProgram ==
  ASSUME TypeOK, NEW w \in Workers, NEW accepted \in BOOLEAN, Answer(w, accepted)
  PROVE  ProgramStep
BY DEF Answer, ProgramStep, TypeOK

LEMMA ProgramSteps ==
  ASSUME TypeOK,
         \/ \E w \in Workers : Handle(w) \/ Fault(w)
         \/ Crash \/ Poll \/ Sweep
         \/ \E s \in Subs : BecomeOverdue(s) \/ DeleteSub(s)
         \/ UNCHANGED vars
  PROVE  ProgramStep
<1> USE DEF gatewayVars, billingVars, serviceVars, workerVars
<1>1. ASSUME NEW w \in Workers, Handle(w) PROVE ProgramStep
  <2>1. CASE IgnorePending(w) \/ ExtendDeleted(w) \/ FinalizeRejected(w) \/ Finish(w)
    BY <2>1, AnswerProgram DEF IgnorePending, ExtendDeleted, FinalizeRejected, Finish
  <2>2. CASE \/ ClaimForProvisioning(w) \/ SkipClaimed(w) \/ Issue(w)
             \/ ExtendSubscription(w) \/ FinalizePaid(w) \/ MarkFailed(w)
    <3>1. /\ UNCHANGED <<outcome, revised, inbox, job>>
          /\ pc[w] # "idle"
          /\ \A v \in Workers \ {w} : pc'[v] = pc[v]
      BY <2>2 DEF ClaimForProvisioning, SkipClaimed, Issue, ExtendSubscription,
                  FinalizePaid, MarkFailed, TypeOK
    <3> QED BY <3>1 DEF ProgramStep
  <2> QED BY <1>1, <2>1, <2>2 DEF Handle
<1>2. ASSUME NEW w \in Workers, Fault(w) PROVE ProgramStep
  BY <1>2, AnswerProgram DEF Fault
<1>3. CASE Crash
  BY <1>3 DEF Crash, ProgramStep
<1>4. CASE Poll \/ Sweep \/ (\E s \in Subs : BecomeOverdue(s) \/ DeleteSub(s)) \/ UNCHANGED vars
  BY <1>4 DEF Poll, Sweep, BecomeOverdue, DeleteSub, vars, ProgramStep
<1> QED BY <1>1, <1>2, <1>3, <1>4

\* The end of a payment, as every order and notice sees it.
LEMMA ConcludeStep ==
  ASSUME TypeOK, NEW o \in Orders, NEW end \in Outcomes, Conclude(o, end)
  PROVE  /\ end \in {"paid", "refused"}
         /\ outcome' = [outcome EXCEPT ![o] = end]
         /\ revised' \in SUBSET Orders /\ revised \subseteq revised'
         /\ outcome[o] = "open" \/ o \in revised'
         /\ inbox' = inbox \cup
              {[order |-> o, result |-> IF end = "paid" THEN "success" ELSE "failed"]}
         /\ UNCHANGED <<offset, billingVars, serviceVars, workerVars, faults>>
<1>1. end \in {"paid", "refused"}
  BY FulfilmentAssumption DEF Conclude, Outcomes
<1> QED BY <1>1 DEF Conclude, TypeOK

LEMMA NoticesTrueStep == TypeOK /\ NoticesTrue /\ [Next]_vars => NoticesTrue'
<1> SUFFICES ASSUME TypeOK, NoticesTrue, [Next]_vars PROVE NoticesTrue'
  OBVIOUS
<1>1. CASE ProgramStep
  BY <1>1 DEF ProgramStep, NoticesTrue, NoticeTrue, Terminal
<1>2. ASSUME NEW w \in Workers, NEW n \in inbox, Receive(w, n) PROVE NoticesTrue'
  BY <1>2 DEF Receive, NoticesTrue, NoticeTrue, Terminal, TypeOK, gatewayVars
<1>3. ASSUME NEW o \in Orders, AnnouncePending(o) PROVE NoticesTrue'
  BY <1>3 DEF AnnouncePending, NoticesTrue, NoticeTrue, Terminal, workerVars
<1>4. ASSUME NEW o \in Orders, NEW end \in Outcomes, Conclude(o, end) PROVE NoticesTrue'
  <2>1. ASSUME NEW n \in Notices, NoticeTrue(n) PROVE NoticeTrue(n)'
    BY <1>4, <2>1, ConcludeStep DEF NoticeTrue, Terminal, TypeOK, Notices
  <2>2. ASSUME NEW n, n = [order |-> o, result |-> IF end = "paid" THEN "success" ELSE "failed"]
        PROVE  NoticeTrue(n)'
    BY <1>4, <2>2, ConcludeStep DEF NoticeTrue, TypeOK
  <2>3. \A n \in inbox' : NoticeTrue(n)'
    BY <1>4, <2>1, <2>2, ConcludeStep DEF NoticesTrue, TypeOK
  <2>4. \A w \in Workers : pc[w] # "idle" => NoticeTrue(job[w])'
    BY <1>4, <2>1, ConcludeStep, JobType DEF NoticesTrue, workerVars
  <2>5. pc' = pc /\ job' = job
    BY <1>4, ConcludeStep DEF workerVars
  <2> QED BY <2>3, <2>4, <2>5 DEF NoticesTrue, NoticeTrue, Terminal
<1> QED BY <1>1, <1>2, <1>3, <1>4, ProgramSteps DEF Next

LEMMA BotOnlyStarsStep == TypeOK /\ BotOnlyStars /\ [Next]_vars => BotOnlyStars'
<1> SUFFICES ASSUME TypeOK, BotOnlyStars, [Next]_vars PROVE BotOnlyStars'
  OBVIOUS
<1>1. ASSUME NEW w \in Workers, NEW n \in inbox, Receive(w, n) PROVE BotOnlyStars'
  BY <1>1 DEF Receive, BotOnlyStars, TypeOK, gatewayVars
<1>2. CASE \E o \in Orders : AnnouncePending(o) \/ \E end \in Outcomes : Conclude(o, end)
  BY <1>2 DEF AnnouncePending, Conclude, BotOnlyStars, workerVars
<1>3. ASSUME ProgramStep, \A n \in offset' : n.order \in StarsOrders PROVE BotOnlyStars'
  BY <1>3 DEF ProgramStep, BotOnlyStars
<1>4. ASSUME NEW w \in Workers, pc[w] # "idle", NEW accepted \in BOOLEAN,
             Answer(w, accepted)
      PROVE  \A n \in offset' : n.order \in StarsOrders
  BY <1>4 DEF Answer, BotOnlyStars
<1>5. ASSUME NEW w \in Workers, Handle(w) \/ Fault(w)
      PROVE  \A n \in offset' : n.order \in StarsOrders
  <2>1. CASE \/ IgnorePending(w) \/ ExtendDeleted(w) \/ FinalizeRejected(w) \/ Finish(w)
             \/ Fault(w)
    BY <2>1, <1>4 DEF IgnorePending, ExtendDeleted, FinalizeRejected, Finish, Fault
  <2>2. CASE \/ ClaimForProvisioning(w) \/ SkipClaimed(w) \/ Issue(w)
             \/ ExtendSubscription(w) \/ FinalizePaid(w) \/ MarkFailed(w)
    BY <2>2 DEF ClaimForProvisioning, SkipClaimed, Issue, ExtendSubscription,
                FinalizePaid, MarkFailed, gatewayVars, BotOnlyStars
  <2> QED BY <1>5, <2>1, <2>2 DEF Handle
<1>6. CASE Crash \/ Poll \/ Sweep \/ (\E s \in Subs : BecomeOverdue(s) \/ DeleteSub(s))
           \/ UNCHANGED vars
  <2>1. \A n \in offset' : n.order \in StarsOrders
    BY <1>6 DEF Crash, Poll, Sweep, BecomeOverdue, DeleteSub, vars, gatewayVars, BotOnlyStars
  <2> QED BY <1>3, <1>6, <2>1, ProgramSteps
<1> QED BY <1>1, <1>2, <1>3, <1>5, <1>6, ProgramSteps DEF Next

\* What a program step does to the rows of an order: nothing, or one of the three
\* transactions.  No row moves when a notice appears or is received.
LEMMA RowsStep ==
  ASSUME TypeOK, [Next]_vars
  PROVE  \/ UNCHANGED <<orderStatus, payment>>
         \/ \E w \in Workers :
              ClaimForProvisioning(w) \/ FinalizePaid(w) \/ MarkFailed(w)
<1> USE DEF gatewayVars, billingVars, serviceVars, workerVars
<1>1. CASE \E w \in Workers : Handle(w) \/ Fault(w) \/ \E n \in inbox : Receive(w, n)
  BY <1>1 DEF Handle, Fault, Receive, IgnorePending, SkipClaimed, Issue, ExtendSubscription,
              ExtendDeleted, FinalizeRejected, Finish
<1>2. CASE \/ \E o \in Orders : AnnouncePending(o) \/ \E end \in Outcomes : Conclude(o, end)
           \/ Crash \/ Poll \/ Sweep
           \/ \E s \in Subs : BecomeOverdue(s) \/ DeleteSub(s)
           \/ UNCHANGED vars
  BY <1>2 DEF AnnouncePending, Conclude, Crash, Poll, Sweep, BecomeOverdue, DeleteSub, vars
<1> QED BY <1>1, <1>2 DEF Next

\* The three transactions, each on the order of its worker.
LEMMA RowChanges ==
  ASSUME TypeOK, IInv, NInv, NEW w \in Workers,
         ClaimForProvisioning(w) \/ FinalizePaid(w) \/ MarkFailed(w)
  PROVE  LET o == job[w].order IN
         /\ o \in Orders
         /\ \A p \in Orders \ {o} : orderStatus'[p] = orderStatus[p] /\ payment'[p] = payment[p]
         /\ UNCHANGED <<outcome, revised, inbox, offset, subStatus, faults, job>>
         /\ \A v \in Workers \ {w} : pc'[v] = pc[v]
         /\ \/ /\ ClaimForProvisioning(w) /\ pc'[w] = "claimed" /\ Succeeded(job[w])
               /\ orderStatus[o] = "wait_payment" /\ orderStatus'[o] = "processing"
               /\ payment'[o] = payment[o]
               /\ o \in revised \/ outcome[o] = "paid"
            \/ /\ FinalizePaid(w) /\ pc'[w] = "handled"
               /\ orderStatus[o] = "processing" /\ orderStatus'[o] = "paid"
               /\ payment'[o] = "success"
               /\ o \in revised \/ outcome[o] = "paid"
            \/ /\ MarkFailed(w) /\ pc'[w] = "handled" /\ ~Succeeded(job[w])
               /\ orderStatus'[o] = IF orderStatus[o] = "paid" THEN "paid" ELSE "failed"
               /\ payment'[o] = "failed"
               /\ o \in revised \/ outcome[o] = "refused"
<1> DEFINE o == job[w].order
<1>1. o \in Orders /\ pc[w] # "idle" /\ job[w].result \in Results
  BY JobType DEF ClaimForProvisioning, FinalizePaid, MarkFailed
<1>2. NoticeTrue(job[w])
  BY <1>1 DEF NInv, NoticesTrue
<1>3. CASE ClaimForProvisioning(w)
  <2>2. o \in revised \/ outcome[o] = "paid"
    BY <1>2, <1>3 DEF ClaimForProvisioning, NoticeTrue, Terminal, Succeeded
  <2> QED
    BY <1>1, <1>3, <2>2
       DEF ClaimForProvisioning, Claimable, TypeOK, gatewayVars, serviceVars
<1>4. CASE FinalizePaid(w)
  <2>2. Succeeded(job[w]) /\ orderStatus[o] = "processing"
    BY <1>4 DEF FinalizePaid, Finalizable, IInv, ClaimProgress, NInv, SuccessHandled, Working
  <2>3. o \in revised \/ outcome[o] = "paid"
    BY <1>2, <2>2 DEF NoticeTrue, Terminal, Succeeded
  <2> QED
    BY <1>1, <1>4, <2>2, <2>3
       DEF FinalizePaid, PaymentSettled, TypeOK, gatewayVars, serviceVars
<1>5. CASE MarkFailed(w)
  <2>1. o \in revised \/ outcome[o] = "refused"
    BY <1>2, <1>5 DEF MarkFailed, NoticeTrue, Succeeded
  <2>2. orderStatus'[o] = IF orderStatus[o] = "paid" THEN "paid" ELSE "failed"
    BY <1>1, <1>5 DEF MarkFailed, Cancellable, TypeOK
  <2> QED
    BY <1>1, <1>5, <2>1, <2>2
       DEF MarkFailed, TypeOK, gatewayVars, serviceVars
<1> QED BY <1>3, <1>4, <1>5

\* The payment of an order without a revision ends once.
LEMMA OutcomeStep ==
  ASSUME TypeOK, [Next]_vars
  PROVE  /\ revised \subseteq revised'
         /\ \A o \in Orders \ revised' : outcome[o] # "open" => outcome'[o] = outcome[o]
<1>1. CASE ProgramStep
  BY <1>1 DEF ProgramStep
<1>2. ASSUME NEW w \in Workers, NEW n \in inbox, Receive(w, n)
      PROVE  UNCHANGED <<outcome, revised>>
  BY <1>2 DEF Receive, gatewayVars
<1>3. ASSUME NEW o \in Orders, AnnouncePending(o)
      PROVE  UNCHANGED <<outcome, revised>>
  BY <1>3 DEF AnnouncePending
<1>4. ASSUME NEW o \in Orders, NEW end \in Outcomes, Conclude(o, end)
      PROVE  /\ revised \subseteq revised'
             /\ \A p \in Orders \ revised' : outcome[p] # "open" => outcome'[p] = outcome[p]
  BY <1>4, ConcludeStep DEF TypeOK
<1> QED BY <1>1, <1>2, <1>3, <1>4, ProgramSteps DEF Next

LEMMA OutcomeDecidesStep ==
  ASSUME TypeOK, IInv, NInv, [Next]_vars
  PROVE  OutcomeDecides' /\ PaymentAgrees'
<1>1. CASE UNCHANGED <<orderStatus, payment>>
  <2>1. OutcomeDecides'
    BY <1>1, OutcomeStep DEF NInv, OutcomeDecides, TypeOK
  <2>2. PaymentAgrees'
    BY <1>1, OutcomeStep DEF NInv, PaymentAgrees
  <2> QED BY <2>1, <2>2
<1>2. ASSUME NEW w \in Workers, ClaimForProvisioning(w) \/ FinalizePaid(w) \/ MarkFailed(w)
      PROVE  OutcomeDecides' /\ PaymentAgrees'
  <2>1. OutcomeDecides'
    <3> SUFFICES ASSUME NEW o \in Orders \ revised
                 PROVE  /\ orderStatus'[o] \in {"processing", "paid"} => outcome[o] = "paid"
                        /\ orderStatus'[o] = "failed" => outcome[o] = "refused"
      BY <1>2, RowChanges DEF OutcomeDecides
    <3>1. /\ orderStatus[o] \in {"processing", "paid"} => outcome[o] = "paid"
          /\ orderStatus[o] = "failed" => outcome[o] = "refused"
      BY DEF NInv, OutcomeDecides
    <3>2. CASE o # job[w].order
      BY <1>2, <3>1, <3>2, RowChanges
    <3>3. CASE o = job[w].order
      BY <1>2, <3>1, <3>3, RowChanges
    <3> QED BY <3>2, <3>3
  <2>2. PaymentAgrees'
    <3> SUFFICES ASSUME NEW o \in Orders \ revised
                 PROVE  /\ payment'[o] = "success" <=> orderStatus'[o] = "paid"
                        /\ payment'[o] = "failed" <=> orderStatus'[o] = "failed"
      BY <1>2, RowChanges DEF PaymentAgrees
    <3>1. /\ payment[o] = "success" <=> orderStatus[o] = "paid"
          /\ payment[o] = "failed" <=> orderStatus[o] = "failed"
          /\ orderStatus[o] \in {"processing", "paid"} => outcome[o] = "paid"
      BY DEF NInv, PaymentAgrees, OutcomeDecides
    <3>2. CASE o # job[w].order
      BY <1>2, <3>1, <3>2, RowChanges
    <3>3. CASE o = job[w].order
      BY <1>2, <3>1, <3>3, RowChanges
    <3> QED BY <3>2, <3>3
  <2> QED BY <2>1, <2>2
<1> QED BY <1>1, <1>2, RowsStep

\* A worker that answers 200 to a success answers it after the claim, and the
\* bot confirms no webhook notice: an unclaimed success stays with its gateway.
LEMMA AckedIsClaimed ==
  ASSUME TypeOK, IInv, NInv, [Next]_vars,
         NEW o \in Orders \ StarsOrders, orderStatus[o] = "wait_payment",
         [order |-> o, result |-> "success"] \in inbox
  PROVE  [order |-> o, result |-> "success"] \in inbox'
<1> DEFINE n == [order |-> o, result |-> "success"]
<1>1. ASSUME NEW w \in Workers, pc[w] # "idle", NEW accepted \in BOOLEAN,
             Answer(w, accepted), accepted => job[w] # n
      PROVE  n \in inbox'
  BY <1>1 DEF Answer
<1>2. ASSUME NEW w \in Workers, Handle(w) PROVE n \in inbox'
  <2>1. CASE IgnorePending(w)
    <3>1. pc[w] # "idle" /\ Answer(w, TRUE) /\ job[w].result = "pending"
      BY <2>1 DEF IgnorePending, Terminal
    <3>2. job[w] # n
      BY <3>1
    <3> HIDE DEF n
    <3> QED BY <1>1, <3>1, <3>2
  <2>2. CASE ExtendDeleted(w) \/ FinalizeRejected(w)
    <3>1. Working(w) /\ pc[w] # "idle" /\ Answer(w, TRUE)
      BY <2>2 DEF ExtendDeleted, FinalizeRejected, Working
    <3>2. orderStatus[job[w].order] # "wait_payment"
      BY <3>1 DEF IInv, ClaimProgress
    <3>3. job[w] # n
      BY <3>2
    <3> HIDE DEF n
    <3> QED BY <1>1, <3>1, <3>3
  <2>3. CASE Finish(w)
    <3>1. pc[w] = "handled" /\ Answer(w, TRUE)
      BY <2>3 DEF Finish
    <3>2. Succeeded(job[w]) => orderStatus[job[w].order] # "wait_payment"
      BY <3>1 DEF NInv, SuccessHandled
    <3>3. job[w] # n
      BY <3>2 DEF Succeeded
    <3> HIDE DEF n
    <3> QED BY <1>1, <3>1, <3>3
  <2>4. CASE \/ ClaimForProvisioning(w) \/ SkipClaimed(w) \/ Issue(w)
             \/ ExtendSubscription(w) \/ FinalizePaid(w) \/ MarkFailed(w)
    BY <2>4 DEF ClaimForProvisioning, SkipClaimed, Issue, ExtendSubscription,
                FinalizePaid, MarkFailed, gatewayVars
  <2> QED BY <1>2, <2>1, <2>2, <2>3, <2>4 DEF Handle
<1>3. ASSUME NEW w \in Workers, Fault(w) PROVE n \in inbox'
  BY <1>1, <1>3 DEF Fault
<1>4. CASE Poll
  BY <1>4 DEF Poll, NInv, BotOnlyStars
<1>5. CASE \/ \E p \in Orders : AnnouncePending(p) \/ \E end \in Outcomes : Conclude(p, end)
           \/ \E w \in Workers : \E m \in inbox : Receive(w, m)
           \/ Crash \/ Sweep \/ (\E s \in Subs : BecomeOverdue(s) \/ DeleteSub(s))
           \/ UNCHANGED vars
  BY <1>5 DEF AnnouncePending, Conclude, Receive, Crash, Sweep, BecomeOverdue, DeleteSub,
              vars, gatewayVars
<1> QED BY <1>2, <1>3, <1>4, <1>5 DEF Next

\* A payment that ends leaves its notice with the gateway.
LEMMA PaidIsAnnounced ==
  ASSUME TypeOK, [Next]_vars, NEW o \in Orders, outcome'[o] = "paid"
  PROVE  outcome[o] = "paid" \/ [order |-> o, result |-> "success"] \in inbox'
<1>1. CASE ProgramStep
  BY <1>1 DEF ProgramStep
<1>2. ASSUME NEW w \in Workers, NEW n \in inbox, Receive(w, n) PROVE UNCHANGED outcome
  BY <1>2 DEF Receive, gatewayVars
<1>3. ASSUME NEW p \in Orders, AnnouncePending(p) PROVE UNCHANGED outcome
  BY <1>3 DEF AnnouncePending
<1>4. ASSUME NEW p \in Orders, NEW end \in Outcomes, Conclude(p, end)
      PROVE  outcome[o] = "paid" \/ [order |-> o, result |-> "success"] \in inbox'
  BY <1>4, ConcludeStep DEF TypeOK
<1> QED BY <1>1, <1>2, <1>3, <1>4, ProgramSteps DEF Next

LEMMA NoSuccessLostStep ==
  ASSUME TypeOK, IInv, NInv, [Next]_vars
  PROVE  NoSuccessLost'
<1> SUFFICES ASSUME NEW o \in Orders \ StarsOrders,
                    outcome'[o] = "paid", orderStatus'[o] = "wait_payment"
             PROVE  [order |-> o, result |-> "success"] \in inbox'
  BY DEF NoSuccessLost
<1>1. orderStatus[o] = "wait_payment"
  BY RowsStep, RowChanges
<1>2. CASE outcome[o] = "paid"
  BY <1>1, <1>2, AckedIsClaimed DEF NInv, NoSuccessLost
<1>3. CASE outcome[o] # "paid"
  BY <1>3, PaidIsAnnounced
<1> QED BY <1>2, <1>3

\* Only a claim makes a worker a fulfiller, and only a handled notice is "handled".
LEMMA SuccessHandledStep ==
  ASSUME TypeOK, IInv, NInv, [Next]_vars
  PROVE  SuccessHandled'
<1>1. \A p \in Orders : orderStatus[p] # "wait_payment" => orderStatus'[p] # "wait_payment"
  BY RowsStep, RowChanges
<1>2. ASSUME \A v \in Workers :
               pc'[v] \in {"claimed", "served", "handled"} =>
                 /\ job'[v] = job[v] /\ pc[v] # "idle"
                 /\ pc'[v] = pc[v] \/ (Working(v) /\ Working(v)')
      PROVE  SuccessHandled'
  <2> SUFFICES ASSUME NEW v \in Workers
               PROVE  /\ Working(v)' => Succeeded(job'[v])
                      /\ pc'[v] = "handled" /\ Succeeded(job'[v]) =>
                           orderStatus'[job'[v].order] # "wait_payment"
    BY DEF SuccessHandled, Succeeded
  <2>1. CASE Working(v)'
    BY <1>2, <2>1 DEF Working, NInv, SuccessHandled
  <2>2. CASE pc'[v] = "handled"
    BY <1>1, <1>2, <2>2, JobType DEF Working, NInv, SuccessHandled
  <2> QED BY <2>1, <2>2
<1>3. ASSUME NEW w \in Workers, ClaimForProvisioning(w) \/ FinalizePaid(w) \/ MarkFailed(w)
      PROVE  SuccessHandled'
  <2> SUFFICES ASSUME NEW v \in Workers
               PROVE  /\ Working(v)' => Succeeded(job'[v])
                      /\ pc'[v] = "handled" /\ Succeeded(job'[v]) =>
                           orderStatus'[job'[v].order] # "wait_payment"
    BY DEF SuccessHandled, Succeeded
  <2>1. CASE v = w
    BY <1>3, <2>1, RowChanges DEF Working
  <2>2. CASE v # w
    BY <1>1, <1>3, <2>2, RowChanges, JobType DEF Working, NInv, SuccessHandled
  <2> QED BY <2>1, <2>2
<1>4. ASSUME NEW w \in Workers, SkipClaimed(w) PROVE SuccessHandled'
  <2>1. /\ pc' = [pc EXCEPT ![w] = "handled"] /\ job' = job /\ orderStatus' = orderStatus
        /\ orderStatus[job[w].order] # "wait_payment"
    BY <1>4 DEF SkipClaimed, Claimable, billingVars
  <2> QED BY <2>1 DEF NInv, SuccessHandled, Working, Succeeded, TypeOK
<1>5. ASSUME NEW w \in Workers, Issue(w) \/ ExtendSubscription(w) PROVE SuccessHandled'
  BY <1>2, <1>5 DEF Issue, ExtendSubscription, Working, TypeOK
<1>6. ASSUME NEW w \in Workers, NEW accepted \in BOOLEAN, Answer(w, accepted)
      PROVE  SuccessHandled'
  BY <1>2, <1>6 DEF Answer, TypeOK
<1>7. ASSUME NEW w \in Workers, NEW n \in inbox, Receive(w, n) PROVE SuccessHandled'
  BY <1>2, <1>7 DEF Receive, TypeOK
<1>8. CASE Crash
  BY <1>2, <1>8 DEF Crash
<1>9. CASE \/ \E o \in Orders : AnnouncePending(o) \/ \E end \in Outcomes : Conclude(o, end)
           \/ Poll \/ Sweep
           \/ \E s \in Subs : BecomeOverdue(s) \/ DeleteSub(s)
           \/ UNCHANGED vars
  <2>1. pc' = pc /\ job' = job
    BY <1>9 DEF AnnouncePending, Conclude, Poll, Sweep, BecomeOverdue, DeleteSub, vars,
                workerVars
  <2> QED BY <1>2, <2>1
<1>10. ASSUME NEW w \in Workers, Handle(w) \/ Fault(w) PROVE SuccessHandled'
  BY <1>3, <1>4, <1>5, <1>6, <1>10
     DEF Handle, Fault, IgnorePending, ExtendDeleted, FinalizeRejected, Finish
<1> QED BY <1>7, <1>8, <1>9, <1>10 DEF Next

\* No fault is forgotten, and a deleted subscription stays deleted.
LEMMA FaultsAndDeletionsStay ==
  ASSUME TypeOK, [Next]_vars
  PROVE  /\ faults > 0 => faults' > 0
         /\ \A s \in Subs : subStatus[s] = "deleted" => subStatus'[s] = "deleted"
<1>1. faults \in Nat
  BY FulfilmentAssumption DEF TypeOK
<1>2. faults' = faults \/ faults' = faults + 1
  BY DEF Next, Handle, IgnorePending, ClaimForProvisioning, SkipClaimed, Issue,
         ExtendSubscription, ExtendDeleted, FinalizePaid, FinalizeRejected, MarkFailed, Finish,
         Fault, Receive, AnnouncePending, Conclude, Crash, Poll, Sweep, BecomeOverdue,
         DeleteSub, vars
<1>3. \A s \in Subs : subStatus[s] = "deleted" => subStatus'[s] = "deleted"
  <2>1. ASSUME NEW w \in Workers, Handle(w) \/ Fault(w) \/ \E n \in inbox : Receive(w, n)
        PROVE  \A s \in Subs : subStatus[s] = "deleted" => subStatus'[s] = "deleted"
    <3>1. CASE ExtendSubscription(w)
      BY <3>1 DEF ExtendSubscription, Reactivated, TypeOK
    <3>2. CASE ~ExtendSubscription(w)
      BY <2>1, <3>2
         DEF Handle, IgnorePending, ClaimForProvisioning, SkipClaimed, Issue, ExtendDeleted,
             FinalizePaid, FinalizeRejected, MarkFailed, Finish, Fault, Receive, serviceVars
    <3> QED BY <3>1, <3>2
  <2>2. CASE Sweep \/ \E s \in Subs : BecomeOverdue(s) \/ DeleteSub(s)
    BY <2>2 DEF Sweep, BecomeOverdue, DeleteSub, TypeOK
  <2>3. CASE \/ \E o \in Orders : AnnouncePending(o) \/ \E end \in Outcomes : Conclude(o, end)
             \/ Crash \/ Poll \/ UNCHANGED vars
    BY <2>3 DEF AnnouncePending, Conclude, Crash, Poll, vars, serviceVars
  <2> QED BY <2>1, <2>2, <2>3 DEF Next
<1> QED BY <1>1, <1>2, <1>3

\* A fulfiller lets go of an order in "processing" only by a fault or because the
\* subscription is gone.
LEMMA LetsGo ==
  ASSUME TypeOK, IInv, NInv, [Next]_vars,
         NEW w \in Workers, NEW o \in Orders, Fulfils(w, o), ~Fulfils(w, o)',
         orderStatus'[o] = "processing"
  PROVE  \/ faults' > 0
         \/ Renews[o] # NoSub /\ subStatus[Renews[o]] = "deleted"
<1>1. pc[w] \in {"claimed", "served"} /\ job[w].order = o /\ Working(w)
  BY DEF Fulfils, Working
<1>2. faults \in Nat
  BY FulfilmentAssumption DEF TypeOK
<1>3. ASSUME NEW v \in Workers, v # w, Handle(v) \/ Fault(v) \/ \E n \in inbox : Receive(v, n)
      PROVE  FALSE
  <2>1. pc'[w] = pc[w] /\ job'[w] = job[w]
    BY <1>3 DEF Handle, IgnorePending, ClaimForProvisioning, SkipClaimed, Issue,
                ExtendSubscription, ExtendDeleted, FinalizePaid, FinalizeRejected, MarkFailed,
                Finish, Fault, Receive, Answer, TypeOK
  <2> QED BY <1>1, <2>1 DEF Fulfils
<1>4. CASE Fault(w) \/ Crash
  <2>1. faults' = faults + 1
    BY <1>4 DEF Fault, Crash
  <2> QED BY <1>2, <2>1
<1>5. CASE Handle(w)
  <2>1. CASE ExtendDeleted(w)
    BY <1>1, <2>1 DEF ExtendDeleted
  <2>2. CASE FinalizeRejected(w)
    <3>1. orderStatus[o] = "processing" /\ ~Finalizable(o)
      BY <1>1, <2>2 DEF FinalizeRejected, billingVars
    <3> QED BY <3>1 DEF Finalizable
  <2>3. CASE FinalizePaid(w)
    BY <1>1, <2>3 DEF FinalizePaid, TypeOK
  <2>4. CASE Issue(w) \/ ExtendSubscription(w)
    BY <1>1, <2>4 DEF Issue, ExtendSubscription, Fulfils, TypeOK
  <2>5. CASE \/ IgnorePending(w) \/ ClaimForProvisioning(w) \/ SkipClaimed(w)
             \/ MarkFailed(w) \/ Finish(w)
    BY <1>1, <2>5 DEF IgnorePending, ClaimForProvisioning, SkipClaimed, MarkFailed, Finish
  <2> QED BY <1>5, <2>1, <2>2, <2>3, <2>4, <2>5 DEF Handle
<1>6. CASE \E n \in inbox : Receive(w, n)
  BY <1>1, <1>6 DEF Receive
<1>7. CASE \/ \E p \in Orders : AnnouncePending(p) \/ \E end \in Outcomes : Conclude(p, end)
           \/ Poll \/ Sweep
           \/ \E s \in Subs : BecomeOverdue(s) \/ DeleteSub(s)
           \/ UNCHANGED vars
  <2>1. pc' = pc /\ job' = job
    BY <1>7 DEF AnnouncePending, Conclude, Poll, Sweep, BecomeOverdue, DeleteSub, vars,
                workerVars
  <2> QED BY <1>1, <2>1 DEF Fulfils
<1> QED BY <1>3, <1>4, <1>5, <1>6, <1>7 DEF Next

LEMMA StrandedStep ==
  ASSUME TypeOK, IInv, NInv, [Next]_vars
  PROVE  StrandedOnlyByFault'
<1> SUFFICES ASSUME NEW o \in Orders, orderStatus'[o] = "processing", ~InHand(o)'
             PROVE  \/ faults' > 0
                    \/ Renews[o] # NoSub /\ subStatus'[Renews[o]] = "deleted"
  BY DEF StrandedOnlyByFault
<1>1. Renews[o] # NoSub => Renews[o] \in Subs
  BY FulfilmentAssumption
<1>2. SUFFICES \/ faults > 0 \/ faults' > 0
               \/ Renews[o] # NoSub /\ subStatus[Renews[o]] = "deleted"
  BY <1>1, FaultsAndDeletionsStay
<1>3. CASE \E w \in Workers : Fulfils(w, o)
  BY <1>3, LetsGo DEF InHand
<1>4. CASE ~InHand(o) /\ orderStatus[o] = "processing"
  BY <1>4 DEF NInv, StrandedOnlyByFault
<1>5. CASE orderStatus[o] # "processing"
  <2>1. PICK w \in Workers : ClaimForProvisioning(w) /\ job[w].order = o
    BY <1>5, RowsStep, RowChanges
  <2>2. Fulfils(w, o)'
    BY <2>1 DEF ClaimForProvisioning, Fulfils, TypeOK
  <2> QED BY <2>2 DEF InHand
<1> QED BY <1>3, <1>4, <1>5 DEF InHand

LEMMA NoticeStep == TypeOK /\ IInv /\ NInv /\ [Next]_vars => NInv'
BY NoticesTrueStep, BotOnlyStarsStep, OutcomeDecidesStep, NoSuccessLostStep,
   SuccessHandledStep, StrandedStep DEF NInv

LEMMA NoticeInvariant == Spec => []NInv
<1>1. QED BY NoticeInit, NoticeStep, ClaimInvariant, PTL DEF Spec

\* An order nobody works on stays in "processing" only after a fault or the
\* deletion of the subscription it renews.
THEOREM OnlyFaultsStrand == Spec => []StrandedOnlyByFault
<1>1. NInv => StrandedOnlyByFault
  BY DEF NInv
<1> QED BY <1>1, NoticeInvariant, PTL

\* Unless a gateway revises it, the payments row agrees with the order.
THEOREM RowsAgree == Spec => []PaymentAgrees
<1>1. NInv => PaymentAgrees
  BY DEF NInv
<1> QED BY <1>1, NoticeInvariant, PTL

\* The notice of an unclaimed webhook success is never acknowledged.
THEOREM SuccessKept == Spec => []NoSuccessLost
<1>1. NInv => NoSuccessLost
  BY DEF NInv
<1> QED BY <1>1, NoticeInvariant, PTL
===============================================================================
