------------------------------ MODULE Checkout ------------------------------
(***************************************************************************)
(* Creating checkout sessions: OrderService.CreateCheckoutSession and the  *)
(* periodic CancelStalePendingOrders.  Requests run concurrently, one      *)
(* database or Stripe call per action.  A request makes at most one order, *)
(* so the order is named after it (its id is a fresh xid, and also the     *)
(* idempotency key of the Stripe call).                                    *)
(***************************************************************************)
EXTENDS Store

CONSTANTS Key,       \* the Idempotency-Key header of a request, or NoKey
          Body,      \* the canonical hash of its body
          NoKey,
          NoOrder,   \* found nothing
          Attempts   \* attempts of persistSessionWithRetry (3)

ASSUME AttemptsAssumption == Attempts \in Nat \ {0}
ASSUME ExpiryAssumption == "expired" \in Kinds   \* the compensation expires

Requests == Orders

VARIABLES rpc,       \* where each request is in CreateCheckoutSession
          context,   \* its context has not ended
          second,    \* it is resolving its key for the second time
          attempt,   \* the attempt to persist the session it is making
          found,     \* the order its key led to
          reply,     \* what it answers
          orderKey,  \* orders.idempotency_key
          token      \* the request whose access token orders holds the hash of

requestVars  == <<rpc, context, second, attempt, found, reply>>
checkoutVars == <<requestVars, orderKey, token>>
checkoutAll  == <<stripeVars, orders, faults, checkoutVars>>

-----------------------------------------------------------------------------

RequestSteps == {"idle", "resolve", "clear", "rotate", "insert", "create",
                 "persist", "expire", "cancel", "answer", "done"}

Replies == {"none", "created", "replayed", "conflict", "in_progress",
            "error", "stripe_error"}

(* A row that has not been inserted yet is "absent".                       *)
CheckoutRow == [status : OrderStatuses \cup {"absent"},
                session : BOOLEAN, intent : BOOLEAN]

CheckoutTypeOK ==
  /\ StripeTypeOK
  /\ orders \in [Orders -> CheckoutRow]
  /\ faults \in 0 .. MaxFaults
  /\ rpc \in [Requests -> RequestSteps]
  /\ context \in [Requests -> BOOLEAN]
  /\ second \in [Requests -> BOOLEAN]
  /\ attempt \in [Requests -> 1 .. Attempts]
  /\ found \in [Requests -> Orders \cup {NoOrder}]
  /\ reply \in [Requests -> Replies]
  /\ orderKey \in [Orders -> {Key[r] : r \in Requests} \cup {NoKey}]
  /\ token \in [Orders -> Requests \cup {NoOrder}]

CheckoutInit ==
  /\ payment = [o \in Orders |-> "none"]
  /\ emitted = {}
  /\ orders = [o \in Orders |->
                 [status |-> "absent", session |-> FALSE, intent |-> FALSE]]
  /\ faults = 0
  /\ rpc = [r \in Requests |-> "idle"]
  /\ context = [r \in Requests |-> TRUE]
  /\ second = [r \in Requests |-> FALSE]
  /\ attempt = [r \in Requests |-> 1]
  /\ found = [r \in Requests |-> NoOrder]
  /\ reply = [r \in Requests |-> "none"]
  /\ orderKey = [o \in Orders |-> NoKey]
  /\ token = [o \in Orders |-> NoOrder]

-----------------------------------------------------------------------------
(* How a database call of a request can end.                               *)

CallSucceeds(r)   == context[r] /\ UNCHANGED faults
CallLosesReply(r) == context[r] /\ MayFault
CallFails(r)      == \/ ~context[r] /\ UNCHANGED faults
                     \/ context[r] /\ MayFault

Proceed(r, step) == /\ rpc' = [rpc EXCEPT ![r] = step]
                    /\ UNCHANGED <<context, second, attempt, found, reply>>

Finish(r, result) == /\ rpc' = [rpc EXCEPT ![r] = "answer"]
                     /\ reply' = [reply EXCEPT ![r] = result]
                     /\ UNCHANGED <<context, second, attempt, found>>

(* resolveIdempotency found nothing to replay: go on, or, the second time, *)
(* report the unique violation that led there.                             *)
NothingToReplay(r) == IF second[r] THEN Finish(r, "error") ELSE Proceed(r, "insert")

-----------------------------------------------------------------------------
(* resolveIdempotency.                                                     *)

Holders(k) == {o \in Orders : k # NoKey /\ orderKey[o] = k}

(* Equal canonicalBodyHash: mode, items in order, e-mail and metadata.     *)
SameBody(o, r) == Body[o] = Body[r]

Lead(r, o, step) == /\ found' = [found EXCEPT ![r] = o]
                    /\ rpc' = [rpc EXCEPT ![r] = step]
                    /\ UNCHANGED <<context, second, attempt, reply>>

(* Faulty: the body is not compared.                                       *)
ResolvedAnyBody(r, o) ==
  \/ orders[o].status = "canceled" /\ Lead(r, o, "clear")
  \/ /\ orders[o].status # "canceled"
     /\ \/ ~orders[o].session /\ Finish(r, "in_progress")
        \/ orders[o].session /\ Lead(r, o, "rotate")

(* Faulty: an order is replayed before its session is recorded.            *)
ResolvedEarly(r, o) ==
  \/ orders[o].status = "canceled" /\ Lead(r, o, "clear")
  \/ /\ orders[o].status # "canceled"
     /\ IF ~SameBody(o, r) THEN Finish(r, "conflict") ELSE Lead(r, o, "rotate")

(* The key leads to an order: what becomes of the request.                 *)
Resolved(r, o) ==
  \/ orders[o].status = "canceled" /\ Lead(r, o, "clear")
  \/ /\ orders[o].status # "canceled"
     /\ \/ ~SameBody(o, r) /\ Finish(r, "conflict")
        \/ SameBody(o, r) /\ ~orders[o].session /\ Finish(r, "in_progress")
        \/ SameBody(o, r) /\ orders[o].session /\ Lead(r, o, "rotate")

ResolveKey(r) ==
  /\ rpc[r] = "resolve"
  /\ \/ Key[r] = NoKey /\ NothingToReplay(r) /\ UNCHANGED faults
     \/ /\ Key[r] # NoKey /\ CallSucceeds(r)
        /\ \/ Holders(Key[r]) = {} /\ NothingToReplay(r)
           \/ \E o \in Holders(Key[r]) : Resolved(r, o)
     \/ Key[r] # NoKey /\ CallFails(r) /\ Finish(r, "error")
  /\ UNCHANGED <<stripeVars, orders, orderKey, token>>

ClearOrderIdempotencyKey(o) ==
  orderKey' = IF orders[o].status = "canceled"
              THEN [orderKey EXCEPT ![o] = NoKey] ELSE orderKey

ClearKey(r) ==
  /\ rpc[r] = "clear"
  /\ \/ /\ CallSucceeds(r)
        /\ ClearOrderIdempotencyKey(found[r])
        /\ NothingToReplay(r)
     \/ /\ CallLosesReply(r)
        /\ ClearOrderIdempotencyKey(found[r])
        /\ Finish(r, "error")
     \/ CallFails(r) /\ Finish(r, "error") /\ UNCHANGED orderKey
  /\ UNCHANGED <<stripeVars, orders, token>>

(* The replay gets a new access token; the old one stops working.          *)
RotateToken(r) ==
  /\ rpc[r] = "rotate"
  /\ \/ /\ CallSucceeds(r)
        /\ token' = [token EXCEPT ![found[r]] = r]
        /\ Finish(r, "replayed")
     \/ /\ CallLosesReply(r)
        /\ token' = [token EXCEPT ![found[r]] = r]
        /\ Finish(r, "error")
     \/ CallFails(r) /\ Finish(r, "error") /\ UNCHANGED token
  /\ UNCHANGED <<stripeVars, orders, orderKey>>

-----------------------------------------------------------------------------
(* A new order.                                                            *)

CreateOrderWithItems(r) ==
  /\ orders' = [orders EXCEPT ![r].status = "pending"]
  /\ orderKey' = [orderKey EXCEPT ![r] = Key[r]]
  /\ token' = [token EXCEPT ![r] = r]

(* Faulty: nothing but the lookup keeps a key from a second order.         *)
KeyUnchecked(r) == TRUE

(* idempotency_key is UNIQUE.                                              *)
KeyIsFree(r) == Holders(Key[r]) = {}

(* A failure stands for that of the product lookup as well.                *)
InsertOrder(r) ==
  /\ rpc[r] = "insert"
  /\ \/ /\ CallSucceeds(r) /\ KeyIsFree(r)
        /\ CreateOrderWithItems(r)
        /\ Proceed(r, "create")
     \/ /\ CallSucceeds(r) /\ ~KeyIsFree(r)
        /\ second' = [second EXCEPT ![r] = TRUE]
        /\ rpc' = [rpc EXCEPT ![r] = "resolve"]
        /\ UNCHANGED <<context, attempt, found, reply, orders, orderKey, token>>
     \/ /\ CallLosesReply(r) /\ KeyIsFree(r)
        /\ CreateOrderWithItems(r)
        /\ Finish(r, "error")
     \/ /\ CallFails(r)
        /\ Finish(r, "error")
        /\ UNCHANGED <<orders, orderKey, token>>
  /\ UNCHANGED stripeVars

(* The Stripe call has no context; an error may hide a created session.    *)
CreateAtStripe(r) ==
  /\ rpc[r] = "create"
  /\ \/ CreateSession(r) /\ Proceed(r, "persist") /\ UNCHANGED faults
     \/ CreateSession(r) /\ Proceed(r, "cancel") /\ MayFault
     \/ UNCHANGED stripeVars /\ Proceed(r, "cancel") /\ MayFault
  /\ UNCHANGED <<orders, orderKey, token>>

UpdateOrderSession(o) == orders' = [orders EXCEPT ![o].session = TRUE]

(* Faulty: one attempt too many.                                           *)
RetryOnceMore(r) ==
  IF context[r] /\ attempt[r] <= Attempts
  THEN /\ attempt' = [attempt EXCEPT ![r] = @ + 1]
       /\ UNCHANGED <<rpc, context, second, found, reply>>
  ELSE Proceed(r, "expire")

(* persistSessionWithRetry gives up with the context or the last attempt.  *)
RetryPersist(r) ==
  IF context[r] /\ attempt[r] < Attempts
  THEN /\ attempt' = [attempt EXCEPT ![r] = @ + 1]
       /\ UNCHANGED <<rpc, context, second, found, reply>>
  ELSE Proceed(r, "expire")

PersistSession(r) ==
  /\ rpc[r] = "persist"
  /\ \/ /\ CallSucceeds(r)
        /\ UpdateOrderSession(r)
        /\ Finish(r, "created")
     \/ /\ CallLosesReply(r)
        /\ UpdateOrderSession(r)
        /\ RetryPersist(r)
     \/ CallFails(r) /\ RetryPersist(r) /\ UNCHANGED orders
  /\ UNCHANGED <<stripeVars, orderKey, token>>

(* compensateFailedCheckout: close the session, whatever comes of it ...   *)
ExpireAtStripe(r) ==
  /\ rpc[r] = "expire"
  /\ \/ ExpireSession(r) /\ UNCHANGED faults
     \/ payment[r] # "open" /\ UNCHANGED <<stripeVars, faults>>
     \/ MayFault /\ UNCHANGED stripeVars
  /\ Proceed(r, "cancel")
  /\ UNCHANGED <<orders, orderKey, token>>

CancelOrder(o) == /\ orders' = [orders EXCEPT ![o].status = "canceled"]
                  /\ orderKey' = [orderKey EXCEPT ![o] = NoKey]

(* ... and cancel the order; also after a Stripe error.                    *)
CancelFailed(r) ==
  /\ rpc[r] = "cancel"
  /\ \/ (CallSucceeds(r) \/ CallLosesReply(r)) /\ CancelOrder(r)
     \/ CallFails(r) /\ UNCHANGED <<orders, orderKey>>
  /\ Finish(r, "stripe_error")
  /\ UNCHANGED <<stripeVars, token>>

(* The client sees the answer unless its connection or request has ended.  *)
AnswerRequest(r) ==
  /\ rpc[r] = "answer"
  /\ rpc' = [rpc EXCEPT ![r] = "done"]
  /\ \/ CallSucceeds(r) /\ UNCHANGED reply
     \/ CallFails(r) /\ reply' = [reply EXCEPT ![r] = "none"]
  /\ UNCHANGED <<stripeVars, orders, context, second, attempt, found, orderKey, token>>

RequestStep(r) ==
  \/ ResolveKey(r)     \/ ClearKey(r)       \/ RotateToken(r)
  \/ InsertOrder(r)    \/ CreateAtStripe(r) \/ PersistSession(r)
  \/ ExpireAtStripe(r) \/ CancelFailed(r)   \/ AnswerRequest(r)

-----------------------------------------------------------------------------

BeginRequest(r) ==
  /\ rpc[r] = "idle"
  /\ Proceed(r, "resolve")
  /\ UNCHANGED <<stripeVars, orders, faults, orderKey, token>>

InFlight(r) == rpc[r] \notin {"idle", "done"}

(* The client hangs up, or the 60 s deadline passes.                       *)
RequestContextEnds(r) ==
  /\ InFlight(r) /\ context[r] /\ MayFault
  /\ context' = [context EXCEPT ![r] = FALSE]
  /\ UNCHANGED <<stripeVars, orders, rpc, second, attempt, found, reply, orderKey, token>>

CrashRequest(r) ==
  /\ InFlight(r) /\ MayFault
  /\ rpc' = [rpc EXCEPT ![r] = "done"]
  /\ reply' = [reply EXCEPT ![r] = "none"]
  /\ UNCHANGED <<stripeVars, orders, context, second, attempt, found, orderKey, token>>

(* Faulty: the cleanup spares an order that still holds a key.             *)
StaleKeyless == {o \in Orders : /\ orders[o].status = "pending"
                                /\ ~orders[o].session
                                /\ orderKey[o] = NoKey}

(* Faulty: ... or takes orders that have a session.                        *)
StalePayable == {o \in Orders : /\ orders[o].status = "pending"
                                /\ ~(InFlight(o) /\ context[o])}

(* Old enough to be canceled (15 min): by then the request that inserted   *)
(* the order has been answered or has run out of its deadline (60 s).      *)
StaleOrders == {o \in Orders : /\ orders[o].status = "pending"
                               /\ ~orders[o].session
                               /\ ~(InFlight(o) /\ context[o])}

(* One statement for all orders that are old enough; keys are kept.        *)
CancelStalePendingOrders ==
  /\ \E S \in SUBSET StaleOrders :
       /\ S # {}
       /\ orders' = [o \in Orders |->
            IF o \in S THEN [orders[o] EXCEPT !.status = "canceled"] ELSE orders[o]]
  /\ UNCHANGED <<stripeVars, faults, checkoutVars>>

CheckoutStep ==
  \/ \E r \in Requests : \/ BeginRequest(r) \/ RequestStep(r)
                         \/ RequestContextEnds(r) \/ CrashRequest(r)
  \/ CancelStalePendingOrders

(* The orders whose payment page a customer has been given.                *)
Shown == {o \in Orders : \E r \in Requests :
            /\ rpc[r] = "done"
            /\ \/ reply[r] = "created" /\ o = r
               \/ reply[r] = "replayed" /\ o = found[r]}

CustomerPays == /\ \E o \in Shown : PayByCard(o) \/ PayLater(o)
                /\ UNCHANGED <<orders, faults, checkoutVars>>

SessionTimesOut == /\ \E o \in Orders : ExpireSession(o)
                   /\ UNCHANGED <<orders, faults, checkoutVars>>

CheckoutNext == CheckoutStep \/ CustomerPays \/ SessionTimesOut

CheckoutSpec == CheckoutInit /\ [][CheckoutNext]_checkoutAll

(* Requests do not stop by themselves and the cleanup ticker keeps firing. *)
CheckoutFairness == /\ \A r \in Requests : WF_checkoutAll(RequestStep(r))
                    /\ WF_checkoutAll(CancelStalePendingOrders)

FairCheckoutSpec == CheckoutSpec /\ CheckoutFairness

-----------------------------------------------------------------------------
(* Safety.                                                                 *)

SameKey(o, p) == Key[o] = Key[p] /\ Key[o] # NoKey

Alive(o) == orders[o].status \notin {"absent", "canceled"}

(* An Idempotency-Key stands for one purchase: of the orders inserted for  *)
(* it, by requests that race, fail half-way or are repeated after a        *)
(* cleanup, at most one has not been canceled.                             *)
OneLiveOrderPerKey ==
  \A o, p \in Orders : SameKey(o, p) /\ Alive(o) /\ Alive(p) => o = p

(* Whoever can pay is on record: a session a customer was shown, by the    *)
(* request that opened it or by a replay, is stored with its order, where  *)
(* the webhook looks for it; and it is the session of the customer's own   *)
(* basket.                                                                 *)
ShownIsRecorded ==
  /\ \A o \in Shown : orders[o].session /\ payment[o] # "none"
  /\ \A r \in Requests :
       reply[r] = "replayed" => SameBody(found[r], r) /\ SameKey(found[r], r)

(* As long as nothing has failed, requests with one key behave as one:     *)
(* however they interleave, nobody sees an internal error, and all of them *)
(* together open at most one session.                                      *)
FaultFreeIsExactlyOnce ==
  faults = 0 =>
    /\ \A r \in Requests : reply[r] \notin {"error", "stripe_error"}
    /\ \A o, p \in Orders :
         SameKey(o, p) /\ payment[o] # "none" /\ payment[p] # "none" => o = p

(* The service keeps what a key promises: purchases begin one at a time,   *)
(* and nothing that was given up, by a compensation or by the cleanup,     *)
(* comes back.                                                             *)
Purchases == INSTANCE PurchaseKeys
               WITH open    <- {o \in Orders : Alive(o)},
                    givenUp <- {o \in Orders : orders[o].status = "canceled"}

ImplementsPurchaseKeys == Purchases!KeysSpec

-----------------------------------------------------------------------------
(* Liveness.                                                               *)

(* A client that is told CHECKOUT_IN_PROGRESS can try again later: an      *)
(* order without a session gets one or is canceled, even if its request    *)
(* died, so that its key opens or replays a session in the end.            *)
InProgressEnds ==
  \A o \in Orders :
    (orders[o].status = "pending" /\ ~orders[o].session)
      ~> (orders[o].session \/ orders[o].status = "canceled")
=============================================================================
