# Verification of the Stripe payment backend

TLA+ models of the parts of this repository that are hard to test: webhook
processing, checkout with idempotency keys, what happens when the two meet on
one `orders` table, the browser tab in front of checkout, accounts, the browser
that signs in to them, and the rate limiter. TLC checks them on small instances;
TLAPS proves every safety property and every action property of all of them, for every
instance.

## The system

A Go backend (`src/backend`) and a React client (`src/frontend`) sell products
through Stripe Checkout. PostgreSQL holds all state; any number of backend
replicas serve requests, one goroutine each, and share nothing but the database.

| Component | State it keeps | Operations | Hard behaviour | What makes it correct |
|---|---|---|---|---|
| Webhook service (`service/webhook.go`, `db/webhooks.go`, `domain/webhook_order.go`) | `webhook_events` (status, start of processing), order status and payment intent | `Handle`: record, claim, build, complete, fail or ignore an event | concurrent deliveries, events out of order, stale claims, deadlines, crashes between two database calls, lost replies | an event takes effect once and atomically, is acknowledged only then, is never lost; orders only move forward and never ahead of Stripe |
| Checkout service (`service/order.go`, `service/checkout.go`, `db/orders.go`) | `orders` rows, idempotency key, session, access-token hash | `CreateCheckoutSession`: resolve the key, insert, call Stripe, persist with retries, compensate | requests racing for one key, lost replies, ended contexts, half-failed compensation | one purchase per key, what is shown is on record, a key becomes usable again |
| Stale-order cleanup (`cmd/server/main.go`) | none of its own | cancels old pending orders without a session | runs beside everything else | cancels nothing that can still be paid |
| Stripe (external) | sessions, payments, events | creates and expires sessions; delivers events until it sees a 200 | any order, any number of deliveries | assumed |
| Accounts and user sessions (`service/auth.go`, `db/auth_tokens.go`, `db/sessions.go`, `middleware/session.go`) | customers, sessions, one-time tokens | register, login, use of a session, logout, forgot, reset, verify | calls racing on one account, tokens consumed before their effect, expiry between lookup and extension | one account per address, one effect per token, ended sessions stay ended |
| Browser: signing in (`context/AuthContext.tsx`, login pages) | the session cookie, whom the page shows as signed in | load, sign in, sign out, read, verify an address | answers in any order, each with a cookie; lost answers | acts in no other name than it shows; signed out stays signed out |
| Rate limiter (`db/ratelimit.go`, `middleware/ratelimit_db.go`) | counters per client, route and minute | one upsert per request | replicas counting at once, lost replies, requests held up across windows | no more of a window pass than the limit, none is refused while there is room |
| Line items (`service/checkout.go`) | none: pure | totals in 32 bits | lines that wrap and come out positive | what is paid is the exact amount |
| Browser client (`api/client.ts`, `hooks/`, `lib/`, checkout pages) | idempotency key and order token in session storage, effects of mounted and unmounted pages, polls | request and repeat, redirect, confirm, poll | requests that outlive their page, reloads, going back, polling that ends | one purchase offered per stored key, the paid order can be read, the confirmation is true |
| Catalogue, config, metrics, tracing, health, other pages | - | reads and wiring | - | not modelled: no state of the domain changes |

Components interact through the `orders` table (checkout and cleanup write it,
the webhook reads and writes it), through Stripe (checkout opens and expires
sessions, Stripe posts events to the webhook) and through the customer, who pays
the session a checkout response showed. The browser joins checkout and accounts to what a
customer sees. Accounts share no table with orders as long
as `orders.customer_id` is never set, which is the case. No lock is
held across calls: between any two database calls of a request, everything else
can happen. That is the grain of the models: **one database or Stripe call per
action**.

## Modules

| Module | Models |
|---|---|
| `OrderDomain` | status values and the decision tables: allowed moves, and when a move that touched no row is already done |
| `Stripe` | external: at most one session per order, the fate of its payment, the set of emitted events |
| `Store` | the `orders` table and the budget of failures, shared by the services |
| `Webhook` | `Handle` and the calls it makes, deadlines, stale claims, crashes; its properties |
| `PaymentLedger` | abstract: an inbox that applies an event in one step, at most once, and moves a status only forward |
| `WebhookInv`, `WebhookProofs` | the inductive invariant, and the theorems with their proofs |
| `Checkout` | `CreateCheckoutSession`, its compensation, the cleanup; its properties |
| `PurchaseKeys` | abstract: a key stands for one purchase at a time, and what was given up stays so |
| `CheckoutProofs` | the inductive invariant of `Checkout`, and the theorems with their proofs |
| `LineItems`, `LineItemsProofs` | the stored and the collected total of a basket, and their comparison; the theorems with their proofs |
| `Backend` | `Webhook` and `Checkout` composed with customers and Stripe; end-to-end properties |
| `BackendProofs` | the inductive invariant of `Backend`, and the theorems with their proofs |
| `Browser` | extends `Checkout` by the one client of its keys: a tab |
| `BrowserProofs` | the inductive invariant of `Browser`, and the theorems with their proofs |
| `Accounts` | `AuthService` and `RequireUserSession`; its properties |
| `AccountsProofs` | the inductive invariant of `Accounts`, and the theorems with their proofs |
| `SignIn` | extends `Accounts` by one browser: cookie jar, `AuthContext`, answers in any order |
| `SignInProofs` | the inductive invariant of `SignIn`, and the theorems with their proofs |
| `RateLimit`, `RateLimitProofs` | the buckets and the middleware; the theorems with their proofs |
| `MCWebhook`, `MCCheckout`, `MCBackend`, `MCBrowser`, `MCAccounts`, `MCSignIn`, `MCRateLimit` | instances for TLC |

Definitions marked `Faulty` are deliberately wrong variants of the definition
that follows them. They are used by no specification; replacing the definition by
its variant must make the property named in `PROJECT.json` fail, which shows that
the property depends on that line of code.

### Webhook

`pc[h]` is where handler `h` is in `Handle`; each value names the next database
call. `webhookEvents[e]` is the row of an event (`absent` until inserted), with
the `age` of a processing row; `job`, `completion`, `outcome` are the local
variables that survive from one call to the next. `acked` is what Stripe has
been answered 200 for.

| Action | Code |
|---|---|
| `Deliver` | a request reaches `WebhooksHandler.ServeHTTP` |
| `GetEvent` | `GetWebhookEvent` and the switch on the status (`webhook.go:81-99`) |
| `InsertEvent`, `GetAfterInsertRace` | `InsertWebhookEvent`; on a unique violation `handleExistingAfterInsertRace` |
| `IgnoreEvent` | `MarkWebhookIgnored` for unhandled types; its error is logged and the event acknowledged |
| `ClaimEvent`, `GetUnclaimed` | `ClaimWebhookEvent`; `handleUnclaimedEvent` if no row was taken |
| `BuildEvent` | `buildCompletion`: look the order up, compare amounts, choose the target |
| `FailEvent` | `FailWebhookEvent`; its error is logged |
| `CompleteEvent` | the transaction of `CompleteWebhookProcessing`, to its commit if the update of the order touches a row or there is none to make |
| `EnsureEffect` | `ensureOrderWebhookEffect`, when that update touched no row: the order is read again, without a lock |
| `MarkEvent` | then the update of the event and the commit (`db/webhooks.go:111-124`) |
| `Respond` | `writeWebhookOutcome`, and whether the answer arrives |
| `CrashHandler`, `ContextDone`, `Tick` | a replica dies, or is shut down with requests under way (`main.go:102-115`); the client hangs up or a handler meets its deadline; time passes |

A database call of a live request succeeds, fails without effect, or takes effect
and loses its reply; when the request's context has ended every call fails. The
`RequestTimeout` (120 s, `router.go:125`) and `StaleAfter` (5 min, `db/webhooks.go:13`)
are constants with `RequestTimeout <= StaleAfter`; ages and elapsed times grow
together and saturate.

Abstractions: as long as the update of the order touches its row, the transaction of
`CompleteWebhookProcessing` is one step: the row stays locked until the commit, and the
status condition is re-evaluated on the locked row. If it touches no row nothing is locked,
and under READ COMMITTED everything else can happen between the update, the `SELECT` and the
commit: three steps. Of an order only its status, whether its session
id and its payment intent are stored; whether stored and collected amount agree
is a constant set `Mispriced`. The Go test for a stale row is `>=` and the SQL
one `<`; in units of time they coincide. A query that is already running when
the context ends is taken to have ended with it. Signature and API-version checks
come before any state is read and are left out, as are sessions that complete
with `no_payment_required` (prices are positive) or without being complete.
`MarkWebhookProcessed`, `UpdateOrderStatus` and `UpdateOrderStatusIfAllowed` have
no caller outside tests.

### Checkout

`Requests` are the orders they may create (an order id is a fresh xid, and is the
idempotency key of the Stripe call, so Stripe opens at most one session for it).
`rpc[r]` names the next call. `Key` and `Body` assign an `Idempotency-Key` and a
body to each request; `orderKey` is `orders.idempotency_key`, `token` the request
whose access token the order accepts.

`ResolveKey`, `ClearKey` and `RotateToken` are `resolveIdempotency`; `InsertOrder`
is the insert with the unique index on the key and the second resolution after a
violation; `CreateAtStripe` the call without a context, whose error may hide a
created session; `PersistSession` one attempt of `persistSessionWithRetry`;
`ExpireAtStripe` and `CancelFailed` the compensation, which uses the request's
context and so fails when that has ended; `CancelStalePendingOrders` the ticker.
An order is old enough for the ticker (15 min) once its request has been answered
or has outlived its deadline (60 s). Validation, URLs and the body of the
Stripe call change no state and are left out; totals are in `LineItems`; a failing product lookup is a
failing insert.

### Line items

`StoredTotal` adds the lines up as `buildCheckoutLineItems` does, in a signed integer
whose first unstorable value is `Half` (2^31 in the code); `Storable` are the `CHECK`s of the tables; `AmountTotal` is what
Stripe reckons from the same lines; `AmountMatches` is `verifyCheckoutSessionAmount`.
An order in `Mispriced` stands for all storable baskets whose amounts do not match,
any other order for those whose amounts do (`BasketsOf`).

### Backend

Both services on the same `orders`, with one budget of failures. A session can be
paid once some request has answered with it (`Shown`); that includes a replay
while the request that opened the session is still running.

### Browser

One tab buying one product in one mode (`uiMode`). `effect[p]` is where run `p` of
the effect of `useCreateCheckoutSession` is; several exist because unmounting a page
only makes its effect ignore the result (`mounted[p]` false), while the request and
its further tries go on. `storedKey` and `savedToken` are session storage.

| Action | Code |
|---|---|
| `Mount` | the effect starts: `getIdempotencyKey`, first request (`useCreateCheckoutSession.ts:23-34`) |
| `GetAnswer`, `TryAgain` | `createCheckoutSession`: repeat on `CHECKOUT_IN_PROGRESS`, else hand the result to the effect, which saves the token |
| `LoseConnection` | `fetch` fails while the server goes on |
| `Unmount`, `OpenShop` | leaving the page inside the shop; loading the shop anew (a reload, the cancel link, another purchase), which does end every effect |
| `Redirect` | `HostedCheckout` drops the key and goes to Stripe, in one step: the time until the document is gone is not modelled |
| `PayHosted`, `PayEmbedded` | the payment, and the page it leads to; `CheckoutComplete` drops the key |
| `Poll` | one poll of `useOrderPolling`: `GetOrderBySession` with the saved token, `verifyOrderAccess`; the next one, or what the page shows for good |
| `ReloadConfirmation` | the page after the payment is loaded anew and polls from the start |
| `PaymentSettles`, `OutcomeArrives` | a delayed payment is settled; the webhook has processed what Stripe says of a session |

`orders`, keys and requests are those of `Checkout`, with all its failures; a request
of an effect is one of its `Requests`. The webhook is the ledger it implements
(`Refinement` below): an order moves along an allowed edge, at any time after Stripe
knows the outcome. `MaxPolls` is `POLL_MAX_ATTEMPTS` (30); whether the last poll failed,
was refused, or found an order still processing decides what the page then shows. A
delayed payment that fails, and refunds, are left to `Backend`. Left out:
`saveCheckoutContext` (nothing reads it), more tabs (session storage is per tab, and
keys are random).
React's strict mode mounts every page twice in development, which is `Mount`,
`Unmount`, `Mount`.

`OneOffer` speaks of one stored key. The hosted page drops its key before the payment, so a
customer who cancels there and buys again does so with a new key, while the first session can
still be paid; nothing in the code ties the two.

### Accounts

Calls to the service run concurrently; `step[c]` names the next database call. `Emails` are
spellings, `Address` says which differ only in case: `GetCustomerByEmail` ignores case,
the unique index does not. A session, a reset token
and a verification token are named after the call that created them. Each database
call takes effect, takes effect and loses its reply, or fails; any error ends the
operation, except in `Logout`'s handler and in the extension of a session, where it is
ignored. Deadlines need no action of their own for that reason: a call that a context
ends is a failing call.

`LookUp` is the first call of registration, login, logout, `me` and the reset request;
the other actions are named after the store's methods. `TouchUserSession` extends a
session that is not revoked, whether or not it has expired meanwhile. `GrantExpires`
ends the validity of a session or token at any time. Clients bring sessions and tokens
that earlier answers or the log have given them. Left out: hashing, validation (it
precedes every state change).

### Signing in

`SignIn` adds one browser to `Accounts`. `cookie` is the session its jar names, `user`
whom `AuthContext` shows; `waiting` are the calls whose answer the document waits for,
and answers come in any order. An answer is handled in one step: its cookie goes to the
jar, its body to the page.

| Action | Code |
|---|---|
| `Load` | a document begins: the first effect of `AuthProvider` asks who is signed in (`AuthContext.tsx:36-68`) |
| `SubmitForm` | `Login`, `SignUp`, which send away who is signed in |
| `ListMyOrders`, `SignOut`, `OpenLink` | a page behind `ProtectedRoute`, the sign-out, `VerifyEmail` |
| `RefreshUser` | after a verification, `VerifyEmail` asks again who is signed in |
| `GetAnswer` | `SetSessionCookie` of a sign-in and of every request that passed `RequireUserSession`, `ClearSessionCookie`, and what the page makes of the body |
| `LoseAnswer` | the connection breaks, before the headers or between headers and body; a refusal whose body is lost is still a 401 for `refreshUser` |

Everything else is a step of `Accounts`. A passing request sets the cookie it came with
again (`session.go:41`), so late answers bring old sessions back to the jar. `crossed`
and `left` are history variables of the properties only.

`OneAccountAtATime` holds as long as no sign-in crosses (`Crosses`) another answer that says
who is signed in, or one that can bring back a session that has not ended on the server:
nothing in the code orders such answers. The second kind is rarer than it looks. After a
sign-out that revoked the session, late answers can only bring back a dead one. But if a
session expires between its lookup by a slow request and its extension, the page may meanwhile
find nobody signed in (the refresh after a verification is refused) and offer the forms; the
slow request then revives the session (`TouchUserSession` looks only at `revoked_at`), and its
answer replaces the cookie of the new sign-in by that of the earlier account, while the page
shows the new one. It takes five calls and the proof found it; the four of the run `sign_in`
do not reach it.

### Rate limiter

`requestCount` is the table, by bucket key and window. A request takes its window when
it arrives (`Arrive`), the upsert counts it and returns the count (`LetThrough`,
`Refuse`), or fails, perhaps after taking effect, and the request is turned away with
503 (`TurnAway`). The window is a fixed cut of the clock (`Truncate`); each replica reads its
own (`ratelimit_db.go:24`), and the model takes them to agree, which matters to
`BurstIsBounded` only; the request's
context (`Deadline`) ends a call that is held up. `CleanupRateLimitBuckets` has no
caller. Without a store, as in tests, the router falls back to a limiter of a library,
which is left out.

## What the runs check

All constants named in the `.cfg` files; `MaxFaults` (`MaxFailures`) bounds failed
calls, lost replies, hang-ups and crashes together.

| Run | Instance | Shows |
|---|---|---|
| `webhook` | one order; a delayed payment that succeeds, fails or never comes, its refund, an unhandled type; 2 handlers, 1 failure, fair | exclusive claims, no early acknowledgement, nothing reopened or lost, orders never ahead of Stripe; an event in a dead end stays there; the inductive invariant; refinement of the ledger; every event is processed in the end, or orphaned, blocked or overtaken |
| `webhook_stuck` | one event, 1 failure, fair | **violated**: a received event never moves on |
| `webhook_late` | two events, no failure, fair | **violated**: a late notice is never absorbed |
| `checkout_keys` | 3 requests with one key, 2 baskets, 3 attempts, 3 failures | one live order per key, nothing shown that is not on record, exactly once without failures; refinement of `PurchaseKeys` |
| `backend_safe` | 2 requests with one key, the second order mispriced, all kinds of events, 1 handler, 1 failure; all small baskets in 4 bits (`Half = 8`) | live orders agree with Stripe, canceled is final, processing takes effect, what comes too late for a canceled order is not taken, what is paid is the exact amount |
| `backend_live` | 1 keyed and 1 keyless request, 1 attempt, 1 failure, fair | a payment arrives; `CHECKOUT_IN_PROGRESS` ends |
| `backend_downgrade` | 2 requests with one key, card payment, 3 attempts, 3 failures | **violated**: a paid order can become canceled |
| `browser_safe` | 3 mounts, 3 requests with the first key and 1 with a second, 2 tries, 2 polls, card and delayed payment, 1 failure | one purchase offered per stored key, pages give up only after their tries, a page that met no other is confirmed, the confirmation is true |
| `browser_token` | card payment, no failure | **violated**: the page after a payment may be refused its order |
| `accounts` | 4 calls, 2 spellings of one address, 2 passwords, 1 failure | one account per address, one effect per token, ended sessions stay ended |
| `sign_in` | 4 calls, 2 addresses, one of which has an account, 1 failure | the page acts in no other name than it shows; a browser that signed out holds no working session |
| `rate_limit` | 4 requests, limits of 1 and 2, two windows of 3, deadline 3, 1 failure | the limit per window, the bound on bursts, no refusal while there is room |

Why the bounds are enough. Two handlers suffice for every race on an event: a
handler meets others only through the row, which remembers no more than one
claim. One order suffices for the webhook because an event touches only its own
order; the proofs do not depend on it. `webhook`
leaves out partial refunds, which move nothing, and card payments, which move an order like
the success of a delayed payment; that one is there because its events can find nothing left
to do, the way through `EnsureEffect` and `MarkEvent`. An event of an unhandled type touches
nothing but its own row, so that `webhook` lets Stripe tell of one at one time only
(`OtherTimes`), when the session has expired. The safety properties are proved for all kinds
and times; `backend_safe` runs all eight kinds at all times, and `backend_live` card
payments. `RequestTimeout = 2` and `StaleAfter = 3`
let a claim be taken before, at and after the deadline of its owner. Three
requests let a third one meet what a race of two left behind (a canceled order
whose key two requests clear). Three failures are what the longest compensation
needs (a lost reply and two failing attempts), and with `Attempts = 2` also a
failing expiry; `checkout_keys` and `backend_downgrade` have them, and the invariants of
`checkout_keys` are proved for any number. `backend_safe` and `backend_live` use one
attempt, so that the compensation is reached within their one failure. In the
compositions a single handler is used, and in `backend_safe` claims are stale at once:
races between handlers do not involve checkout. With `Half = 8`, units up to 7, quantities
up to 3 and 3 lines, single lines and sums of lines wrap to negative and to positive
numbers. In `browser_safe` a tab needs two mounts for
an overlap and a third to come back after it, one request for each and one more for a
second key; `MaxTries = 2` (five in the code) and `MaxPolls = 1` (thirty) reach both sides
of their bounds. The longest account story needs four calls: a registration, a reset
request, the reset, and one more call that races it. In `sign_in` four calls are two
answers that cross a sign-out, after the sign-in that precedes it; the one story known to need
a fifth is told above and covered by the proof. `rate_limit` covers
two full windows, so that a request held up to its deadline passes together with those of
the next window.

`checkout_keys`, `browser_safe`, `browser_token`, `accounts`, `sign_in` and `rate_limit`
set `CHECK_DEADLOCK FALSE`: all requests, or calls, may have been used up.

### Where the code departs from its texts

* `ReceivedMovesOn` (`webhook.go:92`). Every delivery of an event whose row is
  `received` is told to retry. A request that inserts the row and dies before the
  claim leaves it there for good, although `ClaimWebhookEvent` would accept it.
  `EventuallyProcessed` holds only with this escape (`Orphaned`), and with that of
  a refund waiting for an orphaned payment event (`Blocked`).
* `LateNoticeIsAbsorbed` (`webhook_order.go:13`). After `async_payment_failed`
  has moved an order to `failed`, the session's own completed event fails for ever
  (`Overtaken`).
* `NoDowngrade` (`db/orders.go:222`). `CancelOrder` ignores the status. With a lost
  reply of `UpdateOrderSession`, a replay shows the session, the customer pays, and
  the compensation of the first request cancels the paid order. `PaymentArrives`
  holds only up to that.
* `PaidOrderIsReadable` (`useCreateCheckoutSession.ts:60`). A request whose page was left
  goes on, and its replay replaces the token that the next page has saved; after the
  payment the customer's token is refused. `LonePageConfirms` holds if no effect
  overlaps another.

Seen while modelling and not stated as properties: the return URL of embedded
sessions (`checkout.go:133`) lacks the session id that the page behind it reads, so that
page reports it missing (`Poll` says `missing`); a registration that fails after its
first insert leaves an account that cannot get another verification link
(`auth.go:103`); a logout that finds its session expired leaves it to the extension of a
request under way (`session.go:40`), which `SignedOutIsOver` excludes.

### Fairness

* `WF` of each handler's and request's steps: a goroutine that is not killed goes on.
* `SF` of the redelivery of each handled event not yet acknowledged: Stripe repeats an event
  until it sees a 200 (the texts rely on it), and the server accepts every request;
  strong, because the model has few handler slots and other events may occupy them,
  which is not so in the code.
* `WF` of `Tick`: time passes, so that a stale claim becomes old.
* `WF` of the cleanup: the ticker fires every five minutes.

No fairness is assumed of Stripe's payments, of customers, or of failures not
happening; failures are bounded by `MaxFaults`.

## What is proved

### Webhook service

`WebhookProofs` proves, for any set of orders, handlers and kinds of event, any
number of failures, any set of mispriced orders and any deadlines with
`RequestTimeout <= StaleAfter` (assumptions `TimeoutAssumption`, `FaultsAssumption`,
`EventAssumption`, `KindsAssumption`):

| Theorem | Statement |
|---|---|
| `Invariance` | `Spec => []Inv` |
| `TypeCorrect`, `NeverAhead`, `NothingLost`, `NoFalseAck`, `ExclusiveClaim` | the safety invariants of `Webhook` |
| `ProcessedForever`, `SettledForever` | `Spec => ProcessedIsFinal`, `Spec => SettledIsFinal` |
| `Refinement` | `Spec => ImplementsLedger` |

None of the properties is inductive alone. `Inv` adds what makes them so:

* `ClaimIsHeld`: the row of a live owner is no older than the owner's request. With
  the deadline ending before the claim is stale, no other handler can claim the row
  while the owner can still write; hence `ClaimIsExclusive`, although the row names
  no owner and `FailWebhookEvent` checks none.
* `EventsAreTrue`: an emitted event constrains what Stripe's payment can be, so that
  two events of one order cannot contradict each other.
* `CompletionsFit`: a completion built from an order that has moved since is still
  right for its event, in particular a refund found already done.
* `MarksAreEarned`: a transaction that has found the effect of its event in the order, by the
  read without a lock, still finds it there when it marks the event: without checkout an
  order only moves forward.
* `AcksAreEarned`: a handler about to answer 200 has seen the event processed.
* `WorkIsEmitted`, `KindsAreSeparate`: only emitted events are worked on, and only
  handled kinds are claimed.

The conjuncts that speak of handlers, rows and acknowledgements only, and of no order, are
`RowsInv`. Their lemmas are stated for a step of the webhook or any other step that
leaves the handlers and rows alone and only adds events (`RowsStand`), so that `Backend` can
use them as they are.

`SettledIsFinal` is what `EventuallyProcessed` needs to mean anything: the ways in which an
event escapes it are no pauses. `OrphansStay` shows that the row of an orphaned event is
never claimed, because every delivery finds it received, and `FailuresStay` that an order
that failed stays failed, so that the notice it has overtaken never fits.

`InvInit` and `InvStep` are the induction; `InvStep` has one lemma per conjunct, each
with a step per action. `ProcessedStep` (no call reopens a processed row) is shared
by several. `OrdersMove` says that `orders` changes only in `CompleteEvent`, which
keeps the proofs of the order invariants short. `Refinement` maps a completing
transaction, or its last step `MarkEvent`, to `Apply`, a step of Stripe to itself, and everything else to a stutter.

### Checkout

`CheckoutProofs` proves, for any requests, keys, baskets, attempts and failures
(assumptions `AttemptsAssumption`, `ExpiryAssumption`, `FaultsAssumption`,
`KindsAssumption`):

| Theorem | Statement |
|---|---|
| `CheckoutInvariance` | `CheckoutSpec => []CheckoutInv` |
| `CheckoutTypeCorrect`, `OneLiveOrder`, `ShownSessionsAreRecorded`, `ExactlyOnceWithoutFaults` | the invariants of `Checkout` |
| `CheckoutImplementsKeys` | `CheckoutSpec => ImplementsPurchaseKeys` |

`CheckoutInv` is `RequestsInv`, which holds beside the webhook too, and `Faultless`. They
add to the types:

* `InsertedOnce`: a request's order is absent until its resolution is over, and there
  afterwards, so that no request inserts twice.
* `KeysAreHeld`: a key is on at most one row, only on rows requested with it, and on
  every row that is alive. The unique index gives the first; that only canceled rows lose
  their key gives the last, and with both `OneLiveOrderPerKey` follows.
* `AnswersAreRecorded`: what is about to be answered has been recorded, and opened at
  Stripe before that; a replay is about a row of the same key and basket, although the
  lookup and the rotation of the token are separate calls.
* `Faultless`: without failures nothing is compensated, canceled or cleared, so that a key
  that was taken stays taken.

There is one lemma per action. The refinement maps the alive orders to `open` and the
canceled ones to `givenUp`: an insert is a `Begin`, a compensation and the
cleanup a `GiveUp`, everything else stutters.

### Both on one table

`BackendProofs` proves, for any requests, orders, handlers, kinds of event, keys, bodies,
deadlines and failures (the assumptions of both services, and `OtherAssumption`: Stripe tells of
nothing before there is a session):

| Theorem | Statement |
|---|---|
| `BackendInvariance` | `BackendSpec => []BackendInv` |
| `BackendTypeCorrect`, `BackendFollowsStripe`, `PaidAmountsAreExact` | `BackendTypeOK`, `LiveOrdersFollowStripe`, `PaidAmountIsExact` |
| `OneLiveOrderInBackend`, `ShownInBackend` | the invariants of `Checkout` that hold beside the webhook: `OneLiveOrderPerKey`, `ShownIsRecorded` |
| `NoFalseAckInBackend`, `ExclusiveClaimInBackend`, `ProcessedForeverInBackend` | the properties of `Webhook` that hold beside checkout: `AckedIsProcessed`, `ClaimIsExclusive`, `ProcessedIsFinal` |
| `CanceledForever`, `EffectsAreTaken`, `NothingTakenLate` | `CanceledIsFinal`, `ProcessingTakesEffect`, `CanceledTakesNothing` |
| `BackendImplementsKeys` | `BackendSpec => ImplementsPurchaseKeys` |

Neither service's invariant holds as it is once the other writes to its rows: an order can
be canceled after it was paid, and a completion can be overtaken by a compensation.
`BackendInv` keeps `RequestsInv`, `RowsInv` and `EventsAreTrue` and replaces what breaks:

* `CompletionsStillFit`: a completion that a handler holds is right for its event whatever has become of
  the order since. A completion that moves an order says what its event says; one with nothing
  to do, built for a refund, means that the refund has been processed.
* `MarksStillFit`: what takes the place of `MarksAreEarned`. The effect that a transaction has
  found in an order is undone by nothing but a cancellation.
* `RefundsAreProcessed`: only its own event makes an order refunded. Without it,
  a refund could be marked processed over an order that was canceled in between.
* `SessionsHaveOrders`: Stripe has a session only for an order that is in the table, so that no
  event is about a row that is not there.
* `LiveOrdersFollowStripe` itself: it is inductive with the others, since only a customer who
  was shown a session can pay, and what is shown is recorded.

A step of checkout keeps the lemmas of `CheckoutProofs`; `WebhookWrites` says that the webhook
writes to orders only in `Completes`, to live ones (`CompletedRows`), which keeps `RequestsInv`.
`RowsInv` holds because checkout touches neither events nor handlers. `OrdersFollowStripe`
and `ProcessedIsReflected` of `Webhook` do not hold here, for the reason above;
`LiveOrdersFollowStripe` and `ProcessingTakesEffect` are what remains of them.
That no row is revived or lost (`RowsStay`) follows for checkout from its refinement of
`PurchaseKeys`.

An event does not always become processed over an order that shows its effect. If the order
shows it already, the update touches no row, the read that finds this takes no lock, and the
compensation of checkout (`CancelOrder`) can commit before the event is marked: a late
`completed_unpaid` of a paid order is then processed over a canceled one. This is as if the
cancellation had come right after the commit, and it is all that can happen:
`ProcessingTakesEffect` admits a canceled order only under a live request that has seen the
effect (`EffectSeen`), and `CanceledTakesNothing` says that an event whose effect nobody has
seen is never processed once its order is canceled. `TransactionGoesOn` and `SeenEffect` are the
lemmas behind both. Every delivery of such an event is answered 500, as are the expired events
of sessions that a compensation has closed.

`PaidAmountIsExact` follows from `LiveOrdersFollowStripe`, which keeps mispriced orders from
being paid, and from `AmountCheckIsExact` of the next section.

### Line items

`LineItemsProofs` proves, for every width (`WidthAssumption`) and all limits of a basket
(`BasketAssumption`):

| Theorem | Statement |
|---|---|
| `StoredTotalWraps` | the stored total is the exact one, wrapped once |
| `AmountCheckIsExact` | a storable basket is accepted exactly if its whole amount fits |
| `SmallAmountsAreExact` | if `MaxItems * MaxUnit * MaxQuantity < Half`, every basket is storable and accepted |

`Alike` amounts differ by a multiple of the range of the stored integer. Wrapping yields an amount
that is alike and fits (`WrapStores`), alike amounts add up (`AlikeSums`), and two that
fit are equal (`AlikeStored`); hence it does not matter where on the way a total wraps
(`WrapSums`). The totals are recursive functions over the lines. The library's induction theorems,
which take the property as an operator, cannot be used with the provers at hand, so the induction
is made over sets: `RunInduction` takes the least number outside a set by `WFMin`, and
`SumsExist` builds the sums in the same way. With the values of the code (2^31, 99, 20) the
condition of the last theorem is a unit price below about 1.08 million minor units; above it baskets
may be refused by the tables, or by the webhook after the payment, but are never accepted at a wrong
amount.

### Rate limiter

`RateLimitProofs` proves, for any requests, keys, limits, window and deadline
(`RateLimitAssumption`), that `RateSpec` keeps `RateInv` (`RateInvariance`), and with it
`RateTypeOK`, `LimitHolds` and `RefusedOnlyWhenFull` (`RateTypeCorrect`, `LimitIsKept`,
`RefusalIsEarned`), `BurstIsBounded` (`BurstsAreBounded`). `LimitHolds` says nothing of the counter, so `RateInv` ties the two:
the counter is the number of requests counted in its bucket (`CountsAreRequests`), each of
which holds a different number up to it (`TicketsDiffer`), and those that passed hold one
within the limit (`TicketsDecide`). A set of requests with different numbers up to the
limit is no larger than the limit.

`BurstIsBounded` speaks of handlers called within a stretch of one window's length, which may
have come in earlier windows. `CalledInTime` (`CallsAreInTime`) says that a handler is called
before its request's deadline; so a request of the stretch came in one of the last `Spread`
windows (`FromRecentWindow`, about `\div` and `%`), and the pair of that window and its ticket
differs from request to request: there are at most `Spread * Limit` such pairs.

### Accounts

`AccountsProofs` proves, for any calls, any spellings of any addresses, any passwords and
any number of failures (`FailuresAssumption`, and `NothingAssumption`: no row is
`Nothing`):

| Theorem | Statement |
|---|---|
| `AccountsInvariance` | `AccountsSpec => []AccountsInv` |
| `AccountsTypeCorrect`, `OneAccount` | `AccountsTypeOK`, `OneAccountPerAddress` |
| `OneChangePerToken`, `ResetsEndForGood`, `LogoutsEndForGood` | `TokenChangesOnce`, `ResetEndsSessions`, `SignedOutIsOver` |

`CallsInv` ties a call to its operation: it is on the way of it and has answered only at
the end (`OnTheWay`), it carries the input and has found the rows that its next step
uses (`CallsCarry`, `CallsHaveFound`), and a session or token appears with the
last statement of its call (`GrantsAreMade`). On top of it:

* `TokensAreSpent`: a reset that got past its consumption finds its token over, and no
  other reset with this token got that far. That the consuming statement tests and marks
  in one step gives the second; that no statement reopens a token gives the first.
* `ResetsEnd`: the sessions that were there when a reset consumed its token keep their
  owner until the reset ends them, and are over from then on.
* `LogoutsEnd`: a logout that has found its session is about to revoke it, or has.
* `RegistrationsAreAlone`: while registrations have not met, at most one is under way, and
  what its lookup found still holds when it inserts. `raced` is exactly what breaks this.

`SessionsMove`, `ResetsMove`, `LinksMove` and `CustomersMove` say what one step can do to
each table; the invariants about rows that are over follow from them without a look at the
actions. `Begins` treats the seven operations' first steps as one. `SpentLast`, `OlderLast` and
`LogoutsLast` say which changes of a call could break `TokensAreSpent`, `ResetsEnd` and
`LogoutsEnd`; most steps make none of them.

### Browser

`BrowserProofs` proves, for any number of mounts, requests, keys, tries, polls and failures:

| Theorem | Statement |
|---|---|
| `BrowserInvariance` | `BrowserSpec => []BrowserInv` |
| `BrowserTypeCorrect`, `OneOfferAtATime`, `PagesDoWork`, `LonePageReads`, `ConfirmationsAreTrue` | `BrowserTypeOK`, `OneOffer`, `PagesWork`, `LonePageConfirms`, `ConfirmationIsTrue` |
| `OneLiveOrderForTab`, `ShownToTabIsRecorded`, `ExactlyOnceForTab` | the invariants of `Checkout`, with the tab as its client: `OneLiveOrderPerKey`, `ShownIsRecorded`, `FaultFreeIsExactlyOnce` |
| `TabImplementsKeys` | `BrowserSpec => ImplementsPurchaseKeys` |

Besides those of checkout it assumes `TriesAssumption` and `StoredKeyAssumption`: requests
with one key have one body. That is what the client does: it keeps a key per product and page
(`idempotency.ts:5-17`) and its body is the product, a quantity of 1 and the mode of the page
(`useCreateCheckoutSession.ts:23-34`). Without it a request could fail as
`IDEMPOTENCY_CONFLICT`, which `PagesWork` excludes.

`BrowserInv` has the two parts of the invariant of checkout, which hold with the tab as well
(`TabRequestsStep`: the tab writes no row, and an outcome moves a live order like the webhook
does), and about the tab:

* `EffectsFollow`, `PagesAreShop`: an effect that runs has a request, goes on only from its
  answer, and a mounted page asks with the stored key.
* `OfferedUnderKey`: everything offered was asked for with the key that is stored now. With
  `KeysAreHeld` of checkout this gives `OneOffer`.
* `AnswersAreGood`, `FailedHaveTried`: without failures a request ends in success or
  in `CHECKOUT_IN_PROGRESS`.
* `OrdersFollow`, `BoughtIsPaid`: without failures nothing cancels the order a customer is
  sent to pay, and what the page says for good is what Stripe says.
* `LoneEffect`, `LonePage`: as long as no effect began before the others had ended, only the
  request of the one effect is under way; the token it is about to answer is the order's, and
  once it is shown the saved one is. `OwnTokenStep` says which steps change a token;
  `ServerKeepsTokens` that nobody else's do.

### Signing in

`SignInProofs` proves, for any calls, addresses, accounts among them, passwords and
failures (the assumptions of `AccountsProofs` and `KnownAssumption`):

| Theorem | Statement |
|---|---|
| `SignInInvariance` | `SignInSpec => []SignInInv` |
| `SignInTypeCorrect`, `ActsInShownName`, `SignOutsLast` | `SignInTypeOK`, `OneAccountAtATime`, `SignedOutForGood` |
| `LogoutsEndForBrowser` | `SignedOutIsOver` of `Accounts`, with the browser as its client |

The lemmas of `AccountsProofs` are stated for the steps of `Accounts` beside any clients
(`CallsNext`, which lets a call begin with any input); the browser is one such client, so
`CallsInv` and `LogoutsEnd` hold here too. On top of them, `Carried` are the sessions that
the jar holds or that an awaited answer can put there:

* `NamesAreSessions`, `AnswersAreTrue`: what is carried are sessions, and a request that was
  let through found the owner of the one it came with.
* `LoneSignIn`: while a sign-in is awaited nobody is shown, and every other answer can bring
  back only a session that has ended.
* `OneOwner`: the carried sessions that have not ended are one account's.
* `AnswersAgree`: and that of whoever an awaited answer will show. It compares with the owner
  of the session asked with even if that has ended since, because the answer is then
  already on its way.
* `ShownIsOwner`: and that of whom the page shows. `OneAccountAtATime` follows.
* `OnlyLeft`: after a sign-out with nothing else about, all that is carried is the session it
  ends; `LogoutsEnd` says that this session is over for good.

`Sending`, `Arriving` and `Serving` (joined in `StepsOfTab`) reduce the steps to three kinds,
a call that is made, an answer that arrives and a step of the server, which is all that the
proofs of the invariants about `crossed` look at.

### Only model-checked

The liveness properties `EventuallyProcessed`, `PaymentArrives` and `InProgressEnds`. Liveness under
fairness is out of the prover's reach. Every invariant and every action property of a
passing run has a theorem.

## Not modelled

The catalogue (reads of a table that the program never writes), configuration, logging,
metrics, tracing and health (no state of the domain), the pages that only render what the
API returns, the forms around a single call (`ForgotPassword`, `ResetPassword`), hashing and
signatures, and the test doubles under `testutil`. The route of orders by id reads what the
route by session reads. Several tabs and several browsers on one account are left out of
`Browser` and `SignIn`.

## Plan

Done in this order: `OrderDomain`, `Stripe`, `Store`, `Webhook` with its properties;
`PaymentLedger` and the refinement; the inductive invariant and the proofs;
`Checkout`; `Backend`; `Browser`; `Accounts`; `RateLimit` with its proofs; `LineItems`;
`PurchaseKeys`, the refinement and the proofs of `Checkout`; `SignIn`; polling in `Browser`;
the proofs of `Accounts` and of `Backend`; those of `BurstIsBounded`, `Browser` and `SignIn`;
the proofs of `LineItems` and `PaidAmountIsExact`, the properties of each service carried
over to the modules that compose it, and `SettledIsFinal`.

Next:

1. Several tabs of one browser, which share the cookie jar but not the session storage.
