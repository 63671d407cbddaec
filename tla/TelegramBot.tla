---------------------------- MODULE TelegramBot ----------------------------
(***************************************************************************)
(* The purchase dialogue of one chat of the Telegram bot (internal/        *)
(* telegram: bot.go, handlers.go, fsm.go).                                 *)
(*                                                                         *)
(* One goroutine fetches updates in batches and handles them one after the *)
(* other; the offset that confirms a batch goes out with the request for   *)
(* the next one, so a restart is sent the whole batch again.  The choices  *)
(* of a chat are a draft in Redis that expires, and whose read and write   *)
(* errors the handlers ignore.                                             *)
(*                                                                         *)
(* A message keeps its buttons for ever and "/start" opens a new one, so   *)
(* any button that was once shown can be pressed at any time.  Screens     *)
(* without effect on the draft (menu, FAQ, list, configuration) are left   *)
(* out, and so are failures to send a screen, which only offer fewer       *)
(* buttons.  FulfillOrder is one step here; module Fulfilment takes it     *)
(* apart.                                                                  *)
(***************************************************************************)
EXTENDS Integers, Sequences

CONSTANTS
  Countries, Protocols, Plans, Subs, \* buttons; Subs are the user's subscriptions
  WireGuard,                         \* the protocol with a routing mode
  SubCountry, SubProtocol,           \* what each subscription was bought as
  None,                              \* an absent field of the draft
  MaxPresses, MaxOrders, MaxUpdates, MaxErrors, MaxCrashes  \* bounds

ASSUME BotAssumption ==
  /\ WireGuard \in Protocols
  /\ SubCountry \in [Subs -> Countries] /\ SubProtocol \in [Subs -> Protocols]
  /\ None \notin Countries \cup Protocols \cup Plans \cup Subs

VARIABLES
  pending,    \* updates Telegram holds unconfirmed, oldest first
  fetched,    \* how many of them are in the batch of the last GetUpdates
  done,       \* how many of the batch have been handled
  draft,      \* the chat's draft in Redis; an absent key reads as Empty
  shown,      \* kinds of buttons the chat has been shown
  orders,     \* orders created by pay, in order
  invoiced, paid, fulfilled, \* orders with an invoice, paid, fulfilled
  chosen,     \* history: what the handled buttons chose, whatever was stored
  since,      \* history: kinds of buttons handled since the draft was emptied
  staleDraft, \* history: a write of the draft failed
  lost,       \* history: paid orders whose FulfillOrder returned an error
  presses, errors, crashes  \* counters of the bounds

polling == <<pending, fetched, done>>
billing == <<orders, invoiced, paid, fulfilled, lost>>
choice  == <<draft, chosen, since, staleDraft>>
counters == <<presses, crashes>>
botVars == <<polling, billing, choice, shown, counters, errors>>

Empty == [country |-> None, protocol |-> None, routing |-> None,
          plan |-> None, renew |-> None]

Draft == [country : Countries \cup {None}, protocol : Protocols \cup {None},
          routing : {"full", "split_ru", None}, plan : Plans \cup {None},
          renew : Subs \cup {None}]

ProtoButtons == Protocols \cup {"wireguard_split"}

Button(kind) ==
  CASE kind = "country" -> Countries
    [] kind = "proto"   -> ProtoButtons
    [] kind = "plan"    -> Plans
    [] kind = "renew"   -> Subs
    [] OTHER            -> {None}

Kinds == {"/buy", "buy", "country", "proto", "plan", "renew", "pay"}

Update == {u \in [kind : Kinds, value : UNION {Button(k) : k \in Kinds}] :
             u.value \in Button(u.kind)}
          \cup [kind : {"payment"}, value : 1 .. MaxOrders]

\* Type invariant.
BotTypeOK ==
  /\ pending \in Seq(Update) /\ Len(pending) <= MaxUpdates + MaxOrders
  /\ done \in 0 .. fetched /\ fetched <= Len(pending)
  /\ draft \in Draft /\ chosen \in Draft
  /\ shown \subseteq Kinds /\ since \subseteq Kinds
  /\ orders \in Seq(Draft) /\ Len(orders) <= MaxOrders
  /\ paid \subseteq invoiced /\ invoiced \subseteq DOMAIN orders
  /\ fulfilled \subseteq paid /\ lost \subseteq paid
  /\ presses \in 0 .. MaxPresses
  /\ errors \in 0 .. MaxErrors /\ crashes \in 0 .. MaxCrashes
  /\ staleDraft \in BOOLEAN

BotInit ==
  /\ pending = <<>> /\ fetched = 0 /\ done = 0
  /\ draft = Empty /\ shown = {"/buy", "buy", "renew"}
  /\ orders = <<>> /\ invoiced = {} /\ paid = {} /\ fulfilled = {}
  /\ chosen = Empty /\ since = {} /\ staleDraft = FALSE /\ lost = {}
  /\ presses = 0 /\ errors = 0 /\ crashes = 0

----------------------------------------------------------------------------
(* The user, and time.                                                      *)

Press(u) ==
  /\ presses < MaxPresses /\ Len(pending) < MaxUpdates
  /\ u.kind \in shown
  /\ pending' = Append(pending, u)
  /\ presses' = presses + 1
  /\ UNCHANGED <<fetched, done, billing, choice, shown, crashes, errors>>

\* The pre-checkout query is always approved (dispatch), so an invoice can be
\* paid whenever the user likes.
PayInvoice(o) ==
  /\ o \in invoiced \ paid
  /\ paid' = paid \cup {o}
  /\ pending' = Append(pending, [kind |-> "payment", value |-> o])
  /\ UNCHANGED <<fetched, done, orders, invoiced, fulfilled, lost, choice, shown,
                 counters, errors>>

\* An hour after it was last written the draft expires.
Expire ==
  /\ draft # Empty
  /\ draft' = Empty /\ since' = {}
  /\ UNCHANGED <<polling, billing, chosen, staleDraft, shown, counters, errors>>

----------------------------------------------------------------------------
(* Run: batches, and the restart of the process.                            *)

Confirm(n) == pending' = SubSeq(pending, n + 1, Len(pending))

\* When the batch is handled, the next request confirms it.
GetUpdates ==
  /\ done = fetched /\ pending # <<>>
  /\ Confirm(done)
  /\ fetched' = Len(pending') /\ done' = 0
  /\ UNCHANGED <<billing, choice, shown, counters, errors>>

\* A mistake: the batch is confirmed when it is fetched.
Restart_Confirmed ==
  /\ crashes < MaxCrashes
  /\ crashes' = crashes + 1
  /\ Confirm(fetched) /\ fetched' = 0 /\ done' = 0
  /\ UNCHANGED <<billing, choice, shown, presses, errors>>

\* The process stops and starts: the offset starts from zero.
Restart ==
  /\ crashes < MaxCrashes
  /\ crashes' = crashes + 1
  /\ fetched' = 0 /\ done' = 0
  /\ UNCHANGED <<pending, billing, choice, shown, presses, errors>>

----------------------------------------------------------------------------
(* The draft in Redis.  Each reads and writes at most once per update.      *)

Failed(failures) ==
  /\ errors + failures <= MaxErrors
  /\ errors' = errors + failures

\* getDraft: an error reads as an empty draft.
Reads(d, failures) ==
  \/ d = draft /\ failures = 0
  \/ d = Empty /\ failures = 1

\* d with the named fields set.
With(d, fields) ==
  [x \in DOMAIN d |-> IF x \in DOMAIN fields THEN fields[x] ELSE d[x]]

\* getDraft, some fields set, saveDraft; errors of both calls are ignored.
Rewrite(fields) ==
  \E d \in {draft, Empty}, readFailed, saveFailed \in {0, 1} :
    /\ Reads(d, readFailed)
    /\ Failed(readFailed + saveFailed)
    /\ draft' = IF saveFailed = 1 THEN draft ELSE With(d, fields)
    /\ staleDraft' = (staleDraft \/ saveFailed = 1)

ClearDraft(failures) ==
  /\ draft' = IF failures = 1 THEN draft ELSE Empty
  /\ since' = IF failures = 1 THEN since ELSE {}
  /\ staleDraft' = (staleDraft \/ failures = 1)

Choose(kind, fields) ==
  /\ Rewrite(fields)
  /\ chosen' = With(chosen, fields)
  /\ since' = since \cup {kind}
  /\ UNCHANGED <<billing, counters>>

Show(kind) == shown' = shown \cup {kind}

----------------------------------------------------------------------------
(* handleCallback and handlePayment.                                        *)

\* "/buy" sends the countries and leaves the draft as it is.
CommandBuy ==
  /\ Show("country")
  /\ UNCHANGED <<billing, choice, counters, errors>>

Buy ==
  /\ \E failures \in {0, 1} : Failed(failures) /\ ClearDraft(failures)
  /\ Show("country")
  /\ UNCHANGED <<billing, chosen, counters>>

\* A mistake: the new country is chosen for the renewal begun before.
Country_KeepsRenew(c) ==
  /\ Rewrite([country |-> c])
  /\ chosen' = With(chosen, [country |-> c, renew |-> None])
  /\ since' = since \cup {"country"}
  /\ Show("proto")
  /\ UNCHANGED <<billing, counters>>

Country(c) == Choose("country", [country |-> c, renew |-> None]) /\ Show("proto")

Proto(p) ==
  /\ Choose("proto", IF p = "wireguard_split"
                     THEN [protocol |-> WireGuard, routing |-> "split_ru"]
                     ELSE [protocol |-> p, routing |-> "full"])
  /\ Show("plan")

Plan(p) == Choose("plan", [plan |-> p]) /\ Show("pay")

Renewal(s) == [Empty EXCEPT !.country = SubCountry[s], !.protocol = SubProtocol[s],
                            !.renew = s]

\* startRenew: a fresh draft with the country and protocol of the subscription.
Renew(s) ==
  /\ \/ \E failures \in {0, 1} :
          /\ Failed(failures)
          /\ draft' = IF failures = 1 THEN draft ELSE Renewal(s)
          /\ since' = IF failures = 1 THEN since \cup {"renew"} ELSE {"renew"}
          /\ staleDraft' = (staleDraft \/ failures = 1)
          /\ chosen' = Renewal(s)
          /\ Show("plan")
     \/ Failed(1) /\ UNCHANGED <<choice, shown>>  \* not listed: deleted, or an error
  /\ UNCHANGED <<billing, counters>>

Payable(d) == d.plan # None /\ d.country # None /\ d.protocol # None

\* The order of the draft, and its invoice, either of which may fail.
Pay ==
  \E d \in {draft, Empty}, readFailed \in {0, 1} :
    /\ Reads(d, readFailed)
    /\ \/ ~ Payable(d) /\ Failed(readFailed) /\ UNCHANGED <<orders, invoiced>>
       \/ Payable(d) /\ Failed(readFailed + 1) /\ UNCHANGED <<orders, invoiced>>
       \/ /\ Payable(d) /\ Len(orders) = MaxOrders  \* the bound: ErrTooManyPending
          /\ Failed(readFailed) /\ UNCHANGED <<orders, invoiced>>
       \/ /\ Payable(d) /\ Len(orders) < MaxOrders
          /\ orders' = Append(orders, d)
          /\ \/ Failed(readFailed) /\ invoiced' = invoiced \cup {Len(orders')}
             \/ Failed(readFailed + 1) /\ UNCHANGED invoiced
    /\ UNCHANGED <<paid, fulfilled, lost, choice, shown, counters>>

\* A mistake: the draft of the order is kept.
Payment_KeepsDraft(o) ==
  /\ \/ fulfilled' = fulfilled \cup {o} /\ UNCHANGED <<lost, errors>> /\ since' = {}
     \/ Failed(1) /\ lost' = lost \cup {o} /\ UNCHANGED <<fulfilled, since>>
  /\ UNCHANGED <<orders, invoiced, paid, draft, chosen, staleDraft, shown, counters>>

\* FulfillOrder, and the draft, whatever it holds by now, is cleared.
Payment(o) ==
  /\ \/ \E failures \in {0, 1} :
          /\ fulfilled' = fulfilled \cup {o}
          /\ Failed(failures) /\ ClearDraft(failures)
          /\ UNCHANGED lost
     \/ /\ Failed(1) /\ lost' = lost \cup {o}
        /\ UNCHANGED <<fulfilled, draft, since, staleDraft>>
  /\ UNCHANGED <<orders, invoiced, paid, chosen, shown, counters>>

\* ensureUser fails: a command or a press is answered with an error and forgotten.
NoUser == Failed(1) /\ UNCHANGED <<billing, choice, shown, counters>>

Dispatch ==
  /\ done < fetched
  /\ done' = done + 1 /\ UNCHANGED <<pending, fetched>>
  /\ LET u == pending[done + 1]
     IN  \/ u.kind = "/buy"    /\ CommandBuy
         \/ u.kind = "buy"     /\ Buy
         \/ u.kind = "country" /\ Country(u.value)
         \/ u.kind = "proto"   /\ Proto(u.value)
         \/ u.kind = "plan"    /\ Plan(u.value)
         \/ u.kind = "renew"   /\ Renew(u.value)
         \/ u.kind = "pay"     /\ Pay
         \/ u.kind = "payment" /\ Payment(u.value)
         \/ u.kind # "payment" /\ NoUser

BotNext ==
  \/ \E kind \in Kinds : \E value \in Button(kind) : Press([kind |-> kind, value |-> value])
  \/ \E o \in 1 .. MaxOrders : PayInvoice(o)
  \/ Expire \/ GetUpdates \/ Restart \/ Dispatch

\* Run loops until the process is told to stop.
Fairness == WF_botVars(GetUpdates) /\ WF_botVars(Dispatch)

BotSpec == BotInit /\ [][BotNext]_botVars /\ Fairness

----------------------------------------------------------------------------
(* Properties.                                                              *)

\* An order is what the buttons handled last say, field by field: expiry and
\* errors of getDraft lose choices, which pay refuses, but never bring back an
\* older one; only an ignored error of saveDraft or clearDraft does.
OrderIsLastChoice ==
  [][Len(orders') > Len(orders) /\ ~ staleDraft => orders'[Len(orders')] = chosen]_botVars

\* Once the draft is gone (paid for, begun anew, replaced by a renewal or
\* expired) nothing is ordered before every part of it was chosen again, so an
\* old pay button does not repeat the order; errors do not change this.
OrderIsChosenAnew ==
  [][Len(orders') > Len(orders) =>
       LET o == orders'[Len(orders')]
       IN  /\ "plan" \in since
           /\ o.renew # None => "renew" \in since
           /\ o.renew = None => /\ "country" \in since
                                /\ {"proto", "renew"} \cap since # {}]_botVars

\* Every payment is handled, however many presses came before it.
PaymentHandled == \A o \in 1 .. MaxOrders : o \in paid ~> o \in fulfilled \cup lost

----------------------------------------------------------------------------
(* A stronger statement that the code does not meet.                        *)

\* handlers.go:191 "handlePayment finalizes the order after a successful Stars
\* payment": every paid order is fulfilled.
PaymentFinalized == \A o \in 1 .. MaxOrders : o \in paid ~> o \in fulfilled
=============================================================================
