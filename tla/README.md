# A verification model of the VPN platform

TLA+ modules that model the stateful core of this repository, TLC configurations
that model-check them on small instances, and theorems that TLAPS proves for every
value of the constants. `PROJECT.json` lists the runs, the source lines each
definition stands for, the hazards the properties are aimed at and, for every
property, a mistake in the code (a definition named `X_SomeMistake`, next to the
definition `X` it replaces) under which the property fails.

    tlc -workers 2 -config fulfil.cfg MCFulfilment     # check a run
    tlapm FulfilmentProofs.tla                         # check the proofs of a module

Where this text and the modules cite a file, it is under `src/`.

## 1. The system and its parts

The API process (`cmd/api`) sells VPN subscriptions through a web cabinet and a
Telegram bot, keeps its state in Postgres, Redis and MinIO, and drives VPN nodes,
each with an agent process (`cmd/agent`). Every HTTP request has a goroutine; three
more run for ever: the bot's polling loop, the expirer and the monitoring engine.
The parts interact through database rows and function calls; there are no queues
and almost no locks, and each SQL statement or transaction commits on its own. That
is where the difficulty is: what a handler read may have changed before it writes,
and a handler may end between any two of its statements.

| Part | State | Operations | Interacts with | Modelled in |
|---|---|---|---|---|
| Order fulfilment, `billing/service.go`, `repository.go`, `handler.go`, `expirer.go` | orders, payments, webhook_events, ledger, subscriptions.status | HandleWebhook, FulfillOrder, ClaimForProvisioning, ExtendSubscription, FinalizePaid, MarkFailed, Expirer.sweep | gateways and the bot (notices that repeat), vpn.Service.Create | `Fulfilment`, abstractly `OrderLifecycle` |
| Checkout, same files | orders, promocodes, promo_redemptions, payments | Buy: promo lookup, limit on unpaid orders, order transaction, gateway invoice, payment row | gateways; fulfilment decides the order | `Checkout` |
| Ledger, `billing/repository.go` | ledger rows, each with the hash of one before it | appendLedger inside FinalizePaid | fulfilment | `Ledger` |
| Subscriptions and migration, `vpn/service.go`, `repository.go`, `provisioner.go` | subscriptions, vpn_configs, vpn_keys, servers.client_count; peers on nodes; objects in MinIO | Create, Delete, MigrateServer | node agents, object store, monitoring (calls MigrateServer), fulfilment (calls Create) | `VpnLifecycle` |
| Monitoring engine, `monitoring/engine.go` | servers.status | sweep, poll, score, mark offline or active, migrate | nodes, administrators, MigrateServer | `Monitoring` |
| Login sessions, `auth/service.go`, `repository.go` | user_sessions, users.status | Login, LoginTelegram, Refresh, Logout, LogoutAll, blocking | administration | `AuthSessions` |
| Second factor, same files | users.totp_secret, totp_enabled | Setup2FA, Enable2FA, Disable2FA | Login | `TwoFactor`, in `ApiAccess` |
| Access tokens, `auth/tokens.go`, `middleware.go`, `handler.go` | the blacklist in Redis; a token carries the role itself | IssueAccess, Authenticate, Logout, IsBlacklisted, RequireRole | every authenticated request | `AccessTokens`, in `ApiAccess` |
| Rate limiter, `platform/httpx/security.go` | a counter with an expiry in Redis | Middleware | every request (the module has the scope of the login routes) | `RateLimiter`, in `ApiAccess` |
| Administration, `admin/handler.go`, `repository.go`, `cmd/grantadmin` | users.status, users.role, servers.status, audit_log | userStatus, userRole, serverStatus, audited | access tokens, sessions, monitoring | `ApiAccess`, `AuthSessions`, `Monitoring` |
| Split routing, `vpn/routing.go` | none: a computation on 32-bit addresses | excludedRanges, mergeRanges, computeComplement, rangeToCIDRs | WireGuard configurations | `SplitRouting` |
| Address allocation, `vpn/wireguard.go` | none: the addresses of the active keys | allocateWireGuardIP | Create, MigrateServer | `AddressPool`; its use in `VpnLifecycle` |
| Telegram bot, `telegram/bot.go`, `handlers.go`, `fsm.go` | polling offset, a draft per chat in Redis | Run, dispatch, every button, successful_payment | Telegram, checkout, fulfilment | `TelegramBot` |
| Node agent, `cmd/agent/main.go` | Xray's file and process, the WireGuard interface and its file | add and remove clients and peers | provisioner.go | `NodeAgent` |

Not modelled, and why:

- *Pricing and Stars rounding*: one floating-point expression each; no property of the
  other modules tells prices apart.
- *User profile, metrics, Telegram's API client, configuration, wrappers of Postgres,
  Redis and MinIO*: single statements or I/O without state of their own.
- *The lists of the administration* change nothing; createPromo has the steps of
  serverStatus for the account that calls it.
- *Creating accounts*: EnsureTelegramUser reads and then inserts; of two first logins
  at once one gets the error of the unique index. No statement sets
  `users.deleted_at`.
- *Redis losing its last second of writes* when it crashes (a blacklist key among
  them), and two API processes at once: nothing in the code handles either.
- *Cryptography, QR codes, credentials and texts*: no state; a key, hash or
  configuration is a value that nothing else equals.
- *Web pages, deployment*: static.

What makes each part correct, and hard:

- **Fulfilment**: the service is given once and charged once, whatever is repeated,
  delayed, revised, or lost to a crash; what is answered 200 has been dealt with;
  a received payment ends in a served order. Duplicate notices run concurrently.
- **Checkout**: limits that are counted in one statement and used in another.
- **Ledger**: a chain built by transactions that do not see each other.
- **Subscriptions**: three stores (database, nodes, objects) with no transaction over
  them, and create, delete and migrate running over one another.
- **Monitoring**: decisions on statuses and reports that are old when they are used.
- **Sessions, second factor**: check-then-act on rows several requests share.
- **Access tokens**: what a token says is believed for its lifetime; only a key in
  Redis, written with the time that was left, takes it back.
- **Rate limiter, audit log**: two commands where the error of the second is ignored.
- **Address allocation**: the bounds of a loop that wrap at the smallest and the
  largest subnet.
- **Split routing**: borders, wrap-around and nesting in unsigned arithmetic.
- **Bot**: buttons that stay on screen for ever, batches re-delivered by restarts.
- **Node agent**: files and running processes that agree only if nothing overlaps.

## 2. The modules

`X` models a component, `MCX` gives values to constants that a configuration file
cannot write; section 5 names the modules of theorems. `Monitoring` and `TelegramBot`
prefix their common names (`EngineSpec`, `BotSpec`), because a module of proofs extends
each of them together with another component. A step is one SQL statement that
commits on its own, one transaction, or one call to another process; the state a
handler keeps between its statements is a program counter `pc` and a few fields per
handler. An early return or an error answer is an action of its own. Payloads are
reduced to what the code decides on. History variables say so where they are
declared; no guard reads them.

- **`OrderLifecycle`** is the abstract specification: claim, serve, settle, cancel
  and abandon, for one order.
- **`Fulfilment`** starts where `Service.Buy` leaves an order. A gateway concludes a
  payment (and, for the pairs in `Reversals`, revises it) and keeps a notice in
  `inbox` until it is answered 200; the bot keeps a handled update until its next
  poll. `Receive` is RecordWebhook; `ClaimForProvisioning`, `Issue` or
  `ExtendSubscription`, `FinalizePaid`, `MarkFailed`, `Finish` are the statements of
  HandleWebhook and fulfill in order; `Fault` ends a handler with a 500 anywhere,
  `Crash` ends them all. `vpn.Service.Create` is one step.
- **`Checkout`** has the statements of `Buy`: `ResolvePromo`, `Admit` (the count of
  unpaid recent orders), `CreateOrder` (a transaction), `Register` (the gateway),
  `RecordPayment`, and the error answers of each.
- **`Ledger`** splits the transaction of FinalizePaid at the read of the newest
  entry. `created_at` is the start of the transaction (`now()`), so the newest
  entry is the one *begun* last, not the one committed last.
- **`VpnLifecycle`** calls one issue of key material an *attempt* `<<s, n>>`; `phase`
  is the place it has reached and then the status of its `vpn_keys` row. Create and
  MigrateServer share the actions of an attempt, as they share `generate`,
  `provision` and `storeConfig`. An agent that times out may add a peer later
  (`late`). `GenerateFails` is every way generate gives up: a full subnet, a query that
  fails, a server that lacks a parameter. MigrateServer has its locals as variables: the
  listing, which may fail and end it, and the loop, which goes on after a subscription
  is given up (`Failed`). Delete is the SoftDelete transaction, then the node, then the
  objects; a subscription that a migration brought back may be deleted again before
  that is over.
- **`Monitoring`** has the engine's single goroutine with the list and the poll it
  holds while statuses and nodes change and subscriptions are created, deleted, expired
  and renewed. MigrateServer lists in one step and takes one for each subscription: it
  moves it to a reserve that takes it (`Accepts`: an address left, a node that answers),
  or skips it in silence.
- **`AuthSessions`** names by `chain` the tokens that come from one login by rotation.
- **`ApiAccess`** is the API as one account sees it. It composes, and takes the steps
  of, three modules that each own their variables: **`RateLimiter`** (the counter of
  one window, its expiry, and a request between INCR and EXPIRE), **`AccessTokens`**
  (the account's status and role, each token's claim and time left, the blacklist
  keys with theirs) and **`TwoFactor`** (the statements of the three operations; a
  TOTP code is represented by the secret it was computed from). A request is at one
  place at a time (`at`): past the limiter it presents credentials and reads the
  account (`Login`, `TelegramLogin`, which asks for no second factor, `Refresh`) and
  issues a token; or it presents a token that parses (`Present`), passes the
  blacklist (`Authenticate`) and logs out, changes the second factor or changes a
  status or a role and writes the audit row. `Drop` ends it anywhere with an error.
  One clock ages tokens and keys. Other administrators and `cmd/grantadmin` change
  the account underneath. Refresh tokens are left to `AuthSessions`.
- **`AddressSpace`** has the uint32 arithmetic (`Wrap`) for an address space of any
  size; **`SplitRouting`** has one loop iteration per step on it; **`AddressPool`** is
  the loop of allocateWireGuardIP as a set of offsets, and its result.
- **`TelegramBot`** has one chat: a press is possible for any button ever shown;
  `Dispatch` is one handler, which forgets the press if its user cannot be looked up
  (`NoUser`), and whose draft read and write may each fail unnoticed.
- **`NodeAgent`** has Xray edits (under `xrayMu`) and WireGuard requests (under
  nothing) of one agent, with failing commands, crashes and reboots. A write that fails
  may leave the file as it was, torn, or complete. A client of Xray
  and a peer of WireGuard are never the same (`AgentAssumption`): one is a UUID, the
  other a key.

The limiter counts by `r.Context()`: a client that disconnects between INCR and EXPIRE
is one of `RateLimiter`'s failing calls, as is a Redis error. It fails open; the
blacklist check fails closed (503).

`Fulfilment` uses `Checkout`'s result and `VpnLifecycle`'s Create; `Monitoring` and
`VpnLifecycle` meet in MigrateServer. Each of these calls is a single step on one
side (MigrateServer one for each subscription), whose outcomes (success, failure, failure after the effect) are those the
other module shows.

## 3. What each run checks

All but the last are expected to pass.

| Run | Instance | Properties |
|---|---|---|
| `fulfil` | a renewal paid by webhook, a Stars purchase, 2 webhook workers and the bot, payments revised freely, 1 error or crash | `ServedAtMostOnce`, `ChargedIffPaid`; `PaymentAgrees` where nothing was revised; `StrandedOnlyByFault`, `NoSuccessLost`; `ImplementsLifecycle` (refinement) |
| `fulfil_live` | the same two orders, no revisions, 1 error or crash, fair | `PaidIsClaimed` through faults, `PaidIsSettled` without |
| `checkout` | 2 users, 3 orders, 2 requests at once, a promo with one use, a limit of one unpaid order, 1 fault | `PromoKept`, `PendingBounded` |
| `ledger_chain` | 3 charges of one user, 1 of another | `ChainGrounded`, `SerialIsChain` |
| `vpn_lifecycle` | 2 WireGuard subscriptions, a server with two addresses and a reserve with one, 1 migration, 1 failing call | `OneActiveKey`, `NeverCutOff`, `ConfigServed`, `CountsClients`, `RouteLostOnlyToRace`, `DeleteIsClean`, `NobodyForgotten` |
| `monitor` | 2 servers, 2 clients, a reserve with room for one, reports that are healthy, blocked with a passing score, and below the threshold, 1 ignored error, fair engine | `DoesNotFlap`, `BadIsDrained` |
| `auth_sessions` | 2 users, 3 tokens, 2 requests at once, 1 ignored error | `OneLivePerChain`, `ReuseEndsLogins` |
| `api_access` | 2 requests at once, 1 token of lifetime 2, 2 secrets, a limit of 1, 1 failing call | `EnabledHasSecret`, `UnconfirmedOnlyByOverlap`, `LogoutSticks`, `RightsEndWithTokens`, `WindowWillClose`, `AuditComplete` |
| `routing` | every list of up to 3 networks among 16 addresses; every subnet of them and every set of used addresses | `TunnelsExactlyTheRest`, `Terminates`; `AllocatesLowestFree` |
| `bot` | 6 presses, 2 orders, batches of updates, 1 restart, 1 error | `OrderIsLastChoice`, `OrderIsChosenAnew`, `PaymentHandled` |
| `node_agent` | 2 Xray clients, 2 WireGuard peers, 2 requests at once, 1 failed command, crash or reboot | `AddedIsServed`, `RemovedIsGone`, `QuietSaveRepairs`, `Answered` |
| `fulfil_ack` | one order, 1 error; **expected violation** | `AcknowledgedIsSettled` |

Every module with variables defines its type invariant (`TypeOK`; `ApiTypeOK` covers
the three modules of the composition). Those of `Fulfilment`, `Checkout`, `Ledger`,
`SplitRouting` and `ApiAccess` are theorems (section 5). For the other modules it
holds in their configurations with the line `INVARIANT TypeOK` added; the runs spend
their time on what could be wrong.

**Bounds, and why they are enough.** Two handlers give every race on a row: the code
that guards a row (a conditional UPDATE, a unique index, a mutex) decides between the
one that comes first and any other. One fault at every possible place covers
every partial failure; a second one adds only retries of what the first left. Limits
of one or two are at their limit at once, and off by one as soon as one more is let
through. Two creations at once on a server race for its first address, and later ones
take both; a migration then lists two subscriptions, and has room for one: what becomes
of the second when the first was moved, or given up, is in the instance. Administrators
set `active` and `offline` in `monitor`: a server in `drain` is to the engine one that it
neither migrates nor recovers, and an archived one is never listed. A token of
lifetime 2 can be issued before, and used after, the moment its right is lost, and be at its last tick; one token is enough, since
an expired or logged-out one is issued anew. `api_access` has one constraint
(`Focus`): from the first Setup2FA on, nobody is blocked and no call fails,
because no statement of it reads what these change; the proofs have no such limit.
Sixteen addresses hold two networks of every size up to
half, nested, touching, at both ends, or wrapping, and a pool of every prefix length. Six presses reach an order by the
longest path (buy, country, protocol, plan, pay) with one press to spare, an order
by renewal (renew, plan, pay) twice. Symmetry reduction is used only in runs without
liveness, over sets no definition tells apart. Deadlock checking is off where the
bound on ids ends the behaviour (`checkout`, `bot`, and the configurations of `Ledger`).

**Fairness.** `Fulfilment`: weak on every step of a handler (a goroutine that can run
runs); strong on the receipt of each notice, because the server starts a goroutine
for every request and only our bound on workers makes one wait; weak on the bot's
poll. `Monitoring`: weak on the engine's steps together, MigrateServer among them.
`SplitRouting`: weak on the computation. `TelegramBot`: weak on fetching and dispatching. `NodeAgent`: strong on
taking the mutex (Go's `sync.Mutex` hands it to a waiter that starves), weak on the
steps of an edit. The others state none: their properties are safety. No fairness is assumed of users, gateways' decisions, clocks,
faults or restarts.

## 4. What the runs show

*Fulfilment.* No interleaving of duplicate, late or revised notices with two workers,
the bot, an error and a crash gives a service twice or charges it otherwise than
once. What they do allow is conditional, and each property names the condition: an
order can be left `processing` (`StrandedOnlyByFault`), the payments row can
contradict the order after a gateway revises (`PaymentAgrees`), a paid Stars order
or claimed order is not retried after an error (`PaidIsSettled` holds without faults
only).

*Finding* (`fulfil_ack`). An error after ClaimForProvisioning leaves the order
`processing`; the gateway delivers again, `fulfill` sees an order that is not
`wait_payment`, skips it and answers 200. The payment is acknowledged and nothing
will provision it. `billing/service.go:140` says that a success "provisions the VPN
(exactly once) and finalizes the order".

*Tokens.* A logout holds however the time left, SET and the check interleave
(`LogoutSticks`). A blocked user or a former administrator keeps what a token gives
for one lifetime (15 minutes by default), because the middleware reads neither status
nor role; and for one lifetime more if a login or refresh had read the account just
before (`RightsEndWithTokens` excepts these tokens). A limiter window whose EXPIRE
failed stays until Redis loses it (`WindowWillClose` excepts it), and an audit row is
missing only where its insert failed (`AuditComplete`).

*Migration.* Who is on a server when it is given up is listed by the migration, or got
there in one of the ways `NobodyForgotten` names: a creation that had already chosen
it, or a subscription that was expired, and is not listed, and is renewed later. When
the listing itself fails, MigrateServer returns and everybody stays. A subscription
that is given up never ends the loop: with a `return` in the place of the `continue`
the run fails.

*Monitoring.* Clients are moved by the sweep that finds the server active and bad. A
server found bad while offline keeps its clients, and so does one whose clients no
reserve takes: MigrateServer skips each without an error, sweep after sweep.
`BadIsDrained` therefore asks that sweeps find the server active again and again and
that, from some moment on, every server a subscription may be moved to takes it; what
was skipped or failed before that moment does not matter.

*Where the code keeps less than its comments say.* The passing properties are
conditional where the unconditional statement fails. The modules state the stronger
form at their end, under the heading "stronger statements that the code does not meet".
TLC finds each violated in the small instance of a configuration of its own:

    tlc -workers 2 -config ledger_fork.cfg MCLedger

| Statement | Configuration | Comment in the code | What happens instead |
|---|---|---|---|
| `NoFork` (`Ledger`) | `ledger_fork` | `migrations/00004_billing.sql:84` "Immutable financial ledger with a hash chain" | two orders of one user finalised at once follow the same entry: `billing/repository.go:303` reads without a lock |
| `AddressesSerialised` (`VpnLifecycle`) | `vpn_address` | `vpn/repository.go:97` "The server row is locked to serialise IP allocation" | `Persist` locks nothing and the address is chosen before it, at `:355`; two creations get one address |
| `DeleteDeprovisions` (`VpnLifecycle`) | `vpn_delete` | `vpn/service.go:310` "Delete revokes a VPN: deprovisions the node" | SoftDelete (`vpn/repository.go:487`) may take the key of a revoked row after a migration |
| `DeletedStaysDeleted` (`VpnLifecycle`) | `vpn_revive` | `vpn/service.go:421` "re-issues every active subscription" | Reassign (`vpn/repository.go:335`) activates one deleted since it was listed |
| `RotatedOnce` (`AuthSessions`) | `refresh_twice` | `auth/service.go:153` "the presented session is revoked and a new token pair is issued" | two overlapping Refreshes of one token each issue a pair (`auth/repository.go:234`) |
| `ReuseRevokesChain` (`AuthSessions`) | `refresh_escapes` | `auth/service.go:154` "Reusing a revoked token revokes the whole user chain" | a Refresh between its two statements escapes (`auth/service.go:163`) |
| `EnabledIsConfirmed` (`TwoFactor`) | `two_factor` | `auth/service.go:81` "2FA is not enabled until confirmed" | a setup inside a confirmation is enabled unconfirmed (`auth/repository.go:120`) |
| `WindowIsFixed` (`ApiAccess`) | `limiter` | `platform/httpx/security.go:26` "a fixed-window per-IP rate limiter" | the expiry is set only after an INCR that answered 1, and its error is ignored (`:47`): the window may never end |
| `OnlyAutoMarkedRecovered` (`Monitoring`) | `monitor_recover` | `monitoring/engine.go:143` "a server that was previously auto-marked offline" | one an administrator took offline is recovered too (`:144`) |
| `UnreachableIsEvacuated` (`Monitoring`) | `monitor_unmoved` | `monitoring/engine.go:110` "migrate its clients to a reserve" | only the sweep that finds it active migrates (`:113`) |
| `PaymentFinalized` (`TelegramBot`) | `bot_payment` | `telegram/handlers.go:191` "finalizes the order after a successful Stars payment" | the offset is advanced before the update is dispatched (`telegram/bot.go:61`): a payment whose fulfilment fails is not delivered again |
| `PeersSurviveRestart` (`NodeAgent`) | `agent_saves` | `cmd/agent/main.go:448` "so peers survive a restart" | saves are not serialised (`:126`): the older one may be written last |

*Split routing.* `mergeRanges` leaves ranges that lie inside one ending at the top of
the address space unmerged; this is harmless, since `computeComplement` returns at
such a range.

## 5. What is proved

TLAPS checks the theorems of eight modules; `PROJECT.json` lists 45 of them, and every
safety property and action property that a run checks is the conclusion of one. They
rest on the assumptions on constants that the modules name (`FulfilmentAssumption`,
`NoJobAssumption`, `CheckoutAssumption`, `LedgerAssumption`, `ConstantsAssumption`,
`NoKeyAssumption`, `AuthAssumption`, `AgentAssumption`, `AddressAssumption`,
`RoutingAssumption`, `MonitoringAssumption`, `BotAssumption`, `ApiAssumption` and those of the modules it
composes), which TLC evaluates in the runs. They hold for any number
of orders, users, workers, requests, tokens, servers, faults and addresses.

A proof has one invariant, usually named `IInv`, of which each theorem is a
consequence. Its parts, beyond the types and the properties themselves, say why none
of the properties is inductive alone:

- **`FulfilmentProofs`**: `TypeCorrect`, `AtMostOnce`, `ChargedExactlyPaid`,
  `PaidOnlyIfServed`. That an order is served once rests on who may serve it: no two
  workers hold one claim (`ClaimExclusive`); after the claim the order was not served,
  after the service it was, exactly once, and it is not charged (`ClaimProgress`);
  unclaimed orders have nothing, paid ones were served (`OrderProgress`).
  `LifecycleImplemented`: with `held` mapped to the orders in the hands of a worker,
  every step is a step of `OrderLifecycle` or a stutter. `OnlyFaultsStrand`,
  `RowsAgree`, `SuccessKept` need a second invariant (`NInv`), about notices: what a
  notice says is how the payment ended, an order moves only as it ended
  (`OutcomeDecides`), a handled success has left `wait_payment` (`SuccessHandled`), and
  the bot sees the Stars orders and nothing else (`BotOnlyStars`).
- **`PurchaseProofs`**, about `Checkout`: `TypeCorrect`, `PromoAccounted`, `PromoOnce` (no
  user redeems a code twice; with the one use a run gives it this follows from the
  limit), `PendingLimit`. The last needs the invariant that the unpaid orders of a user
  and the handlers already admitted, together, exceed the limit by at most the number
  of other handlers, and a count over sets that two steps move elements between. About
  `TelegramBot`: `OrderFollowsButtons` and `OrderChosenAnew`. Expiry and errors drop only whole choices, so a draft agrees with
  what was chosen wherever it says anything (`Fits`): a country together with its
  renewal, a protocol with its routing; and every part of it was chosen since it was
  emptied (`Covers`), which failed writes do not change.
- **`LedgerProofs`**: `TypeCorrect`, `Grounded`, `Serial`. The entry a charge names was
  the newest one at some moment of the charge's transaction (`ChainedOnce`), with the
  order of begins, commits and the clock (`Timing`).
- **`VpnLifecycleProofs`**: `TypeCorrect`, `OneKeyAtATime`, `NodeAcceptsTheKey`,
  `ConfigIsServed`, `RouteKeptButForRaces`, `NobodyLeftBehind`, `DeleteLeavesNothing`,
  `CountIsOfClients`. The invariant `MInv` says what Create, Delete and MigrateServer
  still hold when another of them runs: keys are taken in order, at most one of a
  subscription by each migration (`KeysInOrder`); a later key is under way only in the
  migration's hands, for a subscription still on the server it empties
  (`MigratorPlace`); the keys it and the Deletes will remove, and the objects to be
  purged, are of rows that are never active again (`MigratorOld`, `DeletesOld`); a live
  subscription's only active key is the last recorded one (`SubsServed`) and is on its
  node and in the store (`Placed`). Over it, four parts serve one theorem each: two
  keys at one address of one server raced (`RaceSeen`), where a removal is ruled out
  because it is of a key that has lost the route; what is on the server that was given
  up is being migrated or was skipped (`GivenUp`); how far a Delete that nothing
  disturbed has got (`CleanSoFar`); and the counts as cardinalities (`Counted`).
- **`NodeProofs`**, about `NodeAgent`: `TypeCorrect`, `AdditionsLast`, `RemovalsLast`,
  `QuietSavesRepair`. Under `xrayMu` the copy an edit holds is the file (`Edits`); a
  client being added is in no other request, one being removed was added (`Jobs`); a
  save that nothing has overlapped holds the interface as it is (`Saves`). About
  `Monitoring`: `StatusSettles`. What the engine has changed is settled (`Settled`: a bad
  node is offline, or a healthy one active) until another touches it, and only a check
  that was overtaken may find the list or the report wrong.
- **`AuthSessionsProofs`**: `TypeCorrect`, `OnePlaceAtATime`, `ReuseIsFinal`. A Refresh
  revokes whatever it checked before, even if a logout was faster, so the invariant
  counts what is owed with what is usable: a login has one place at a time
  (`OnePlace`). A chain that was ended has no Refresh that may still issue
  (`EndedStay`).
- **`ApiAccessProofs`**: `SecondFactorSafe` of `TwoFactor`, where a request between the
  check and the update of Enable2FA finds nothing to enable but a secret the user
  confirmed, one set during a confirmation, or none (`EnablesOnlyThese`); `ApiTypes`;
  `ApiImplementsTwoFactor`, every step of the API is a step of `TwoFactor` or leaves its
  variables alone, from which `ApiSecondFactorSafe` follows; `LogoutLasts`, because a
  key, and the lifetime a request is about to write, never ends before the token
  (`KeysOutliveTokens`); `RightsEnd`, because a token that was not carried over was
  issued before the right was lost and has aged as long since (`RightsInv`);
  `WindowCloses`; `AuditIsComplete`, a count over the requests about to insert.
- **`SplitRoutingProofs`**: `TypeCorrect`, `ExactComplement`, `NetworksOnly`. The
  invariant has a part for each loop: ranges sorted and covering what was excluded,
  merged ranges apart and covering what was merged so far, the cursor between two
  of them, and blocks covering exactly the addresses that were passed and not excluded.
  About `AddressPool`: `PoolIsExact` and from it `LowestFreeAllocated`. Neither the wrap
  of the size nor that of its decrement moves a candidate (`OffsetsAreHosts`), so the
  offsets of the loop are the hosts of the subnet, and the least free one exists
  because the naturals are well founded.

Model-checked only: everything under fairness, which is out of the prover's reach
(`PaidIsSettled`, `PaidIsClaimed`, `BadIsDrained`, `Answered`, `PaymentHandled` and
`Terminates`), and the violations of section 4.

## 6. Abstractions a reader should know

- A transaction is one step (READ COMMITTED, row locks), except in `Ledger`, whose
  point is what happens inside one.
- Hashes, tokens, keys and codes are values that only equal themselves.
- Time is nondeterministic: windows, expiry and grace periods may end at any moment.
- `VpnLifecycle` has servers of one country and one priority, and the full routing
  mode; migrations do not overlap, because one goroutine runs them.
- `Monitoring` has servers of one country; a reserve takes a subscription when it has
  room (`Room`) and its node answers, whatever else `VpnLifecycle` shows may fail.
- `TelegramBot` leaves out screens that change nothing, and failures to show one.
- Bounds on ids, faults, removals, presses and migrations are named in each module.

## 7. Plan

1. Theorems for the type invariants that no theorem states yet (`EngineTypeOK`,
   `BotTypeOK`), and the lemmas about numbers, greatest elements and counts that
   several proof modules state for themselves, kept once.
2. Safety parts of the liveness arguments, which can be proved: what a step that
   `PaidIsSettled` and `BadIsDrained` rely on does to their measure, and that it stays
   enabled in the sense of its guard.
3. `VpnLifecycle` driven by `Monitoring` instead of by an unconstrained migrator.
