--------------------------- MODULE CheckoutProofs ---------------------------
(***************************************************************************)
(* Theorems about Checkout, for every set of requests, every assignment of *)
(* keys and bodies to them, any number of attempts and of failures.        *)
(***************************************************************************)
EXTENDS Checkout, TLAPS

USE AttemptsAssumption, ExpiryAssumption, FaultsAssumption, KindsAssumption

(* A request inserts its order once, at the end of the resolution.         *)
InsertedOnce ==
  \A r \in Requests :
    /\ rpc[r] \in {"idle", "resolve", "clear", "rotate", "insert"} =>
         orders[r].status = "absent"
    /\ rpc[r] \in {"create", "persist", "expire", "cancel"} =>
         orders[r].status # "absent"

(* A key is held by orders that were requested with it, by one at a time,  *)
(* and by every order that is alive.                                       *)
KeysAreHeld ==
  /\ \A o \in Orders : orderKey[o] # NoKey =>
       orderKey[o] = Key[o] /\ orders[o].status # "absent"
  /\ \A o \in Orders : Alive(o) => orderKey[o] = Key[o]
  /\ \A o, p \in Orders : orderKey[o] = orderKey[p] /\ orderKey[o] # NoKey => o = p

(* What is answered has been recorded before, and at Stripe before that.   *)
AnswersAreRecorded ==
  /\ \A r \in Requests : rpc[r] \notin {"answer", "done"} => reply[r] = "none"
  /\ \A r \in Requests : orders[r].session \/ rpc[r] \in {"persist", "expire"} =>
       payment[r] # "none"
  /\ \A r \in Requests : reply[r] = "created" => orders[r].session
  /\ \A r \in Requests : rpc[r] = "rotate" \/ reply[r] = "replayed" =>
       /\ found[r] \in Orders
       /\ orders[found[r]].session
       /\ SameBody(found[r], r)
       /\ SameKey(found[r], r)

(* Without failures nothing is compensated, canceled or cleared, so that a *)
(* key that was taken stays taken.                                         *)
Faultless ==
  faults = 0 =>
    \A r \in Requests :
      /\ context[r]
      /\ rpc[r] \notin {"clear", "expire", "cancel"}
      /\ reply[r] \notin {"error", "stripe_error"}
      /\ second[r] => Holders(Key[r]) # {}
      /\ orders[r].status # "canceled"
      /\ orders[r].status = "pending" /\ ~orders[r].session =>
           rpc[r] \in {"create", "persist"}
      /\ payment[r] # "none" => orders[r].status # "absent"

(* What holds of the requests, also beside the webhook service.            *)
RequestsInv == CheckoutTypeOK /\ InsertedOnce /\ KeysAreHeld /\ AnswersAreRecorded

CheckoutInv == RequestsInv /\ Faultless

-----------------------------------------------------------------------------
(* What happens at Stripe happens to sessions that exist.                  *)
LEMMA PaymentsMoveOn ==
  ASSUME StripeTypeOK, NEW o \in Orders,
         \/ PayByCard(o) \/ PayLater(o) \/ ExpireSession(o) \/ CreateSession(o)
  PROVE  /\ StripeTypeOK'
         /\ payment'[o] # "none"
         /\ \A p \in Orders \ {o} : payment'[p] = payment[p]
BY DEF StripeTypeOK, PayByCard, PayLater, ExpireSession, CreateSession, Moves,
       Payments, Event

(* What a step that only moves payments, by hand or by time, leaves alone. *)
LEMMA PaymentStep ==
  ASSUME StripeTypeOK, CustomerPays \/ SessionTimesOut
  PROVE  /\ StripeTypeOK'
         /\ \A p \in Orders : payment[p] # "none" => payment'[p] # "none"
         /\ \A p \in Orders : payment'[p] # "none" => payment[p] # "none"
         /\ UNCHANGED <<orders, faults, checkoutVars>>
<1>1. PICK o \in Orders : PayByCard(o) \/ PayLater(o) \/ ExpireSession(o)
  BY DEF CustomerPays, SessionTimesOut, Shown
<1>2. payment[o] # "none"
  BY <1>1 DEF PayByCard, PayLater, ExpireSession, Moves
<1> QED
  BY <1>1, <1>2, PaymentsMoveOn DEF CustomerPays, SessionTimesOut

(* The rows that the statements on one order leave behind.                 *)
LEMMA OrderUpdates ==
  ASSUME CheckoutTypeOK, NEW o \in Orders
  PROVE  /\ CreateOrderWithItems(o) =>
              /\ orders' \in [Orders -> CheckoutRow]
              /\ orders'[o].status = "pending"
              /\ orders'[o].session = orders[o].session
              /\ \A p \in Orders \ {o} : orders'[p] = orders[p]
         /\ CancelOrder(o) =>
              /\ orders' \in [Orders -> CheckoutRow]
              /\ orders'[o].status = "canceled"
              /\ orders'[o].session = orders[o].session
              /\ \A p \in Orders \ {o} : orders'[p] = orders[p]
         /\ UpdateOrderSession(o) =>
              /\ orders' \in [Orders -> CheckoutRow]
              /\ orders'[o].status = orders[o].status
              /\ orders'[o].session
              /\ \A p \in Orders \ {o} : orders'[p] = orders[p]
<1>1. "pending" \in OrderStatuses /\ "canceled" \in OrderStatuses
  BY DEF OrderStatuses
<1>2. CreateOrderWithItems(o) => orders' = [orders EXCEPT ![o].status = "pending"]
  BY DEF CreateOrderWithItems
<1>3. CancelOrder(o) => orders' = [orders EXCEPT ![o].status = "canceled"]
  BY DEF CancelOrder
<1>4. ASSUME UpdateOrderSession(o)
      PROVE  /\ orders' \in [Orders -> CheckoutRow]
             /\ orders'[o].status = orders[o].status
             /\ orders'[o].session
             /\ \A p \in Orders \ {o} : orders'[p] = orders[p]
  BY <1>4 DEF UpdateOrderSession, CheckoutTypeOK, CheckoutRow
<1>5. /\ [orders EXCEPT ![o].status = "pending"] \in [Orders -> CheckoutRow]
      /\ [orders EXCEPT ![o].status = "pending"][o].status = "pending"
      /\ [orders EXCEPT ![o].status = "pending"][o].session = orders[o].session
      /\ \A p \in Orders \ {o} : [orders EXCEPT ![o].status = "pending"][p] = orders[p]
  BY <1>1 DEF CheckoutTypeOK, CheckoutRow
<1>6. /\ [orders EXCEPT ![o].status = "canceled"] \in [Orders -> CheckoutRow]
      /\ [orders EXCEPT ![o].status = "canceled"][o].status = "canceled"
      /\ [orders EXCEPT ![o].status = "canceled"][o].session = orders[o].session
      /\ \A p \in Orders \ {o} : [orders EXCEPT ![o].status = "canceled"][p] = orders[p]
  BY <1>1 DEF CheckoutTypeOK, CheckoutRow
<1>7. ASSUME CreateOrderWithItems(o)
      PROVE  /\ orders' \in [Orders -> CheckoutRow]
             /\ orders'[o].status = "pending"
             /\ orders'[o].session = orders[o].session
             /\ \A p \in Orders \ {o} : orders'[p] = orders[p]
  BY <1>2, <1>5, <1>7
<1>8. ASSUME CancelOrder(o)
      PROVE  /\ orders' \in [Orders -> CheckoutRow]
             /\ orders'[o].status = "canceled"
             /\ orders'[o].session = orders[o].session
             /\ \A p \in Orders \ {o} : orders'[p] = orders[p]
  BY <1>3, <1>6, <1>8
<1> QED
  BY <1>4, <1>7, <1>8

(* The keys and tokens those statements leave behind.                      *)
LEMMA KeyUpdates ==
  ASSUME CheckoutTypeOK, NEW o \in Orders
  PROVE  /\ CreateOrderWithItems(o) =>
              /\ orderKey' = [orderKey EXCEPT ![o] = Key[o]]
              /\ token' = [token EXCEPT ![o] = o]
         /\ CancelOrder(o) => orderKey' = [orderKey EXCEPT ![o] = NoKey]
BY DEF CreateOrderWithItems, CancelOrder

(* Step: every variable stays in its type.                                 *)
LEMMA CheckoutTypeStep == RequestsInv /\ [CheckoutNext]_checkoutAll => CheckoutTypeOK'
<1> SUFFICES ASSUME RequestsInv, [CheckoutNext]_checkoutAll PROVE CheckoutTypeOK'
  OBVIOUS
<1> USE DEF RequestsInv, CheckoutTypeOK, RequestSteps, Replies
<1>a. Requests = Orders
  BY DEF Requests
<1>1. ASSUME NEW r \in Requests, BeginRequest(r) PROVE CheckoutTypeOK'
  BY <1>1 DEF BeginRequest, Proceed, stripeVars, StripeTypeOK
<1>2. ASSUME NEW r \in Requests, ResolveKey(r) PROVE CheckoutTypeOK'
  BY <1>2 DEF ResolveKey, NothingToReplay, Resolved, Lead, Finish, Proceed, Holders,
     CallSucceeds, CallFails, MayFault, stripeVars, StripeTypeOK
<1>3. ASSUME NEW r \in Requests, ClearKey(r) PROVE CheckoutTypeOK'
  BY <1>3 DEF ClearKey, ClearOrderIdempotencyKey, NothingToReplay, Finish, Proceed,
     CallSucceeds, CallFails, CallLosesReply, MayFault, stripeVars, StripeTypeOK
<1>4. ASSUME NEW r \in Requests, RotateToken(r) PROVE CheckoutTypeOK'
  BY <1>4 DEF RotateToken, Finish,
     CallSucceeds, CallFails, CallLosesReply, MayFault, stripeVars, StripeTypeOK
<1>5. ASSUME NEW r \in Requests, InsertOrder(r) PROVE CheckoutTypeOK'
  <2>1. CASE CreateOrderWithItems(r) /\ (Proceed(r, "create") \/ Finish(r, "error"))
    <3>1. orders' \in [Orders -> CheckoutRow]
      BY <2>1, OrderUpdates, <1>a
    <3>2. /\ orderKey' \in [Orders -> {Key[q] : q \in Requests} \cup {NoKey}]
          /\ token' \in [Orders -> Requests \cup {NoOrder}]
      BY <2>1, KeyUpdates, <1>a
    <3> QED
      BY <1>5, <2>1, <3>1, <3>2 DEF InsertOrder, Finish, Proceed,
         CallSucceeds, CallFails, CallLosesReply, MayFault, stripeVars, StripeTypeOK
  <2>2. CASE /\ CallSucceeds(r) /\ ~KeyIsFree(r)
             /\ second' = [second EXCEPT ![r] = TRUE]
             /\ rpc' = [rpc EXCEPT ![r] = "resolve"]
             /\ UNCHANGED <<context, attempt, found, reply, orders, orderKey, token>>
    BY <1>5, <2>2 DEF InsertOrder, CallSucceeds, stripeVars, StripeTypeOK
  <2>3. CASE CallFails(r) /\ Finish(r, "error") /\ UNCHANGED <<orders, orderKey, token>>
    BY <1>5, <2>3 DEF InsertOrder, Finish, CallFails, MayFault, stripeVars, StripeTypeOK
  <2> QED
    BY <1>5, <2>1, <2>2, <2>3 DEF InsertOrder
<1>6. ASSUME NEW r \in Requests, CreateAtStripe(r) PROVE CheckoutTypeOK'
  BY <1>6, PaymentsMoveOn DEF CreateAtStripe, Proceed, Requests, MayFault,
     stripeVars, StripeTypeOK
<1>7. ASSUME NEW r \in Requests, PersistSession(r) PROVE CheckoutTypeOK'
  BY <1>7, OrderUpdates DEF PersistSession, RetryPersist, Finish, Proceed, Requests,
     CallSucceeds, CallFails, CallLosesReply, MayFault, stripeVars, StripeTypeOK
<1>8. ASSUME NEW r \in Requests, ExpireAtStripe(r) PROVE CheckoutTypeOK'
  BY <1>8, PaymentsMoveOn DEF ExpireAtStripe, Proceed, Requests, MayFault,
     stripeVars, StripeTypeOK
<1>9. ASSUME NEW r \in Requests, CancelFailed(r) PROVE CheckoutTypeOK'
  BY <1>9, OrderUpdates, KeyUpdates DEF CancelFailed, Finish, Requests,
     CallSucceeds, CallFails, CallLosesReply, MayFault, stripeVars, StripeTypeOK
<1>10. ASSUME NEW r \in Requests, AnswerRequest(r) PROVE CheckoutTypeOK'
  BY <1>10 DEF AnswerRequest, CallSucceeds, CallFails, MayFault, stripeVars, StripeTypeOK
<1>11. ASSUME NEW r \in Requests, RequestContextEnds(r) PROVE CheckoutTypeOK'
  BY <1>11 DEF RequestContextEnds, MayFault, stripeVars, StripeTypeOK
<1>12. ASSUME NEW r \in Requests, CrashRequest(r) PROVE CheckoutTypeOK'
  BY <1>12 DEF CrashRequest, MayFault, stripeVars, StripeTypeOK
<1>13. CASE CancelStalePendingOrders
  BY <1>13 DEF CancelStalePendingOrders, CheckoutRow, OrderStatuses, checkoutVars,
     requestVars, stripeVars, StripeTypeOK
<1>14. CASE CustomerPays \/ SessionTimesOut
  BY <1>14, PaymentStep DEF checkoutVars, requestVars
<1>15. CASE UNCHANGED checkoutAll
  BY <1>15 DEF checkoutAll, checkoutVars, requestVars, stripeVars, StripeTypeOK
<1> QED
  BY <1>1, <1>2, <1>3, <1>4, <1>5, <1>6, <1>7, <1>8, <1>9, <1>10, <1>11, <1>12,
     <1>13, <1>14, <1>15 DEF CheckoutNext, CheckoutStep, RequestStep

(* Step: a request's order is inserted by its insert, and stays.           *)
LEMMA InsertedOnceStep == RequestsInv /\ [CheckoutNext]_checkoutAll => InsertedOnce'
<1> SUFFICES ASSUME RequestsInv, [CheckoutNext]_checkoutAll PROVE InsertedOnce'
  OBVIOUS
<1> USE DEF RequestsInv, InsertedOnce
<1>a. Requests = Orders /\ CheckoutTypeOK /\ CheckoutTypeOK'
  BY CheckoutTypeStep DEF Requests, RequestsInv
<1>1. ASSUME NEW r \in Requests, BeginRequest(r) PROVE InsertedOnce'
  BY <1>1, <1>a DEF BeginRequest, Proceed, CheckoutTypeOK, stripeVars,
     StripeTypeOK
<1>2. ASSUME NEW r \in Requests, ResolveKey(r) PROVE InsertedOnce'
  BY <1>2, <1>a DEF ResolveKey, NothingToReplay, Resolved, Lead, Finish,
     Proceed, Holders, CallSucceeds, CallFails, CallLosesReply, MayFault,
     CheckoutTypeOK, stripeVars, StripeTypeOK
<1>3. ASSUME NEW r \in Requests, ClearKey(r) PROVE InsertedOnce'
  BY <1>3, <1>a DEF ClearKey, ClearOrderIdempotencyKey, NothingToReplay,
     Finish, Proceed, CallSucceeds, CallFails, CallLosesReply, MayFault,
     CheckoutTypeOK, stripeVars, StripeTypeOK
<1>4. ASSUME NEW r \in Requests, RotateToken(r) PROVE InsertedOnce'
  BY <1>4, <1>a DEF RotateToken, Finish, CallSucceeds, CallFails,
     CallLosesReply, MayFault, CheckoutTypeOK, stripeVars, StripeTypeOK
<1>5. ASSUME NEW r \in Requests, InsertOrder(r) PROVE InsertedOnce'
  BY <1>5, <1>a, OrderUpdates, KeyUpdates DEF InsertOrder, Finish, Proceed,
     KeyIsFree, Holders, CallSucceeds, CallFails, CallLosesReply, MayFault,
     CheckoutTypeOK, stripeVars, StripeTypeOK
<1>6. ASSUME NEW r \in Requests, CreateAtStripe(r) PROVE InsertedOnce'
  BY <1>6, <1>a, PaymentsMoveOn DEF CreateAtStripe, Proceed, MayFault,
     CheckoutTypeOK, stripeVars, StripeTypeOK
<1>7. ASSUME NEW r \in Requests, PersistSession(r) PROVE InsertedOnce'
  BY <1>7, <1>a, OrderUpdates DEF PersistSession, RetryPersist, Finish,
     Proceed, CallSucceeds, CallFails, CallLosesReply, MayFault,
     CheckoutTypeOK, stripeVars, StripeTypeOK
<1>8. ASSUME NEW r \in Requests, ExpireAtStripe(r) PROVE InsertedOnce'
  BY <1>8, <1>a, PaymentsMoveOn DEF ExpireAtStripe, Proceed, MayFault,
     CheckoutTypeOK, stripeVars, StripeTypeOK
<1>9. ASSUME NEW r \in Requests, CancelFailed(r) PROVE InsertedOnce'
  BY <1>9, <1>a, OrderUpdates, KeyUpdates DEF CancelFailed, Finish,
     CallSucceeds, CallFails, CallLosesReply, MayFault, CheckoutTypeOK,
     stripeVars, StripeTypeOK
<1>10. ASSUME NEW r \in Requests, AnswerRequest(r) PROVE InsertedOnce'
  BY <1>10, <1>a DEF AnswerRequest, CallSucceeds, CallFails, CallLosesReply,
     MayFault, CheckoutTypeOK, stripeVars, StripeTypeOK
<1>11. ASSUME NEW r \in Requests, RequestContextEnds(r) PROVE InsertedOnce'
  BY <1>11, <1>a DEF RequestContextEnds, MayFault, CheckoutTypeOK, stripeVars,
     StripeTypeOK
<1>12. ASSUME NEW r \in Requests, CrashRequest(r) PROVE InsertedOnce'
  BY <1>12, <1>a DEF CrashRequest, MayFault, CheckoutTypeOK, stripeVars,
     StripeTypeOK
<1>13. CASE CancelStalePendingOrders
  BY <1>13, <1>a DEF CancelStalePendingOrders, checkoutVars, requestVars,
     stripeVars, CheckoutTypeOK, CheckoutRow, StaleOrders, InFlight
<1>14. CASE CustomerPays \/ SessionTimesOut
  BY <1>14, <1>a, PaymentStep DEF checkoutVars, requestVars, CheckoutTypeOK
<1>15. CASE UNCHANGED checkoutAll
  BY <1>15, <1>a DEF checkoutAll, checkoutVars, requestVars, stripeVars
<1> QED
  BY <1>1, <1>2, <1>3, <1>4, <1>5, <1>6, <1>7, <1>8, <1>9, <1>10, <1>11,
     <1>12, <1>13, <1>14, <1>15 DEF CheckoutNext, CheckoutStep, RequestStep

(* Step: keys pass from one order to another only through none.            *)
LEMMA KeysAreHeldStep == RequestsInv /\ [CheckoutNext]_checkoutAll => KeysAreHeld'
<1> SUFFICES ASSUME RequestsInv, [CheckoutNext]_checkoutAll PROVE KeysAreHeld'
  OBVIOUS
<1> USE DEF RequestsInv, KeysAreHeld, InsertedOnce, Alive
<1>a. Requests = Orders /\ CheckoutTypeOK /\ CheckoutTypeOK'
  BY CheckoutTypeStep DEF Requests, RequestsInv
<1>1. ASSUME NEW r \in Requests, BeginRequest(r) PROVE KeysAreHeld'
  BY <1>1, <1>a DEF BeginRequest, Proceed, CheckoutTypeOK, stripeVars,
     StripeTypeOK, Holders
<1>2. ASSUME NEW r \in Requests, ResolveKey(r) PROVE KeysAreHeld'
  BY <1>2, <1>a DEF ResolveKey, NothingToReplay, Resolved, Lead, Finish,
     Proceed, Holders, CallSucceeds, CallFails, CallLosesReply, MayFault,
     CheckoutTypeOK, stripeVars, StripeTypeOK, Holders
<1>3. ASSUME NEW r \in Requests, ClearKey(r) PROVE KeysAreHeld'
  BY <1>3, <1>a DEF ClearKey, ClearOrderIdempotencyKey, NothingToReplay,
     Finish, Proceed, CallSucceeds, CallFails, CallLosesReply, MayFault,
     CheckoutTypeOK, stripeVars, StripeTypeOK, Holders
<1>4. ASSUME NEW r \in Requests, RotateToken(r) PROVE KeysAreHeld'
  BY <1>4, <1>a DEF RotateToken, Finish, CallSucceeds, CallFails,
     CallLosesReply, MayFault, CheckoutTypeOK, stripeVars, StripeTypeOK,
     Holders
<1>5. ASSUME NEW r \in Requests, InsertOrder(r) PROVE KeysAreHeld'
  <2>1. CASE CreateOrderWithItems(r) /\ KeyIsFree(r)
    <3>1. /\ orderKey'[r] = Key[r]
          /\ orders'[r].status = "pending"
          /\ \A p \in Orders \ {r} : orderKey'[p] = orderKey[p] /\ orders'[p] = orders[p]
      BY <2>1, <1>a, OrderUpdates, KeyUpdates DEF CheckoutTypeOK
    <3>2. \A p \in Orders : Key[r] # NoKey => orderKey[p] # Key[r]
      BY <2>1 DEF KeyIsFree, Holders
    <3> QED
      BY <3>1, <3>2, <1>a
  <2>2. CASE UNCHANGED <<orders, orderKey, token>>
    BY <2>2
  <2> QED
    BY <1>5, <2>1, <2>2 DEF InsertOrder
<1>6. ASSUME NEW r \in Requests, CreateAtStripe(r) PROVE KeysAreHeld'
  BY <1>6, <1>a, PaymentsMoveOn DEF CreateAtStripe, Proceed, MayFault,
     CheckoutTypeOK, stripeVars, StripeTypeOK, Holders
<1>7. ASSUME NEW r \in Requests, PersistSession(r) PROVE KeysAreHeld'
  BY <1>7, <1>a, OrderUpdates DEF PersistSession, RetryPersist, Finish,
     Proceed, CallSucceeds, CallFails, CallLosesReply, MayFault,
     CheckoutTypeOK, stripeVars, StripeTypeOK, Holders
<1>8. ASSUME NEW r \in Requests, ExpireAtStripe(r) PROVE KeysAreHeld'
  BY <1>8, <1>a, PaymentsMoveOn DEF ExpireAtStripe, Proceed, MayFault,
     CheckoutTypeOK, stripeVars, StripeTypeOK, Holders
<1>9. ASSUME NEW r \in Requests, CancelFailed(r) PROVE KeysAreHeld'
  <2>1. CASE CancelOrder(r)
    <3>1. /\ orderKey'[r] = NoKey
          /\ orders'[r].status = "canceled"
          /\ \A p \in Orders \ {r} : orderKey'[p] = orderKey[p] /\ orders'[p] = orders[p]
      BY <2>1, <1>a, OrderUpdates, KeyUpdates DEF CheckoutTypeOK
    <3> QED
      BY <3>1
  <2>2. CASE UNCHANGED <<orders, orderKey>>
    BY <2>2
  <2> QED
    BY <1>9, <2>1, <2>2 DEF CancelFailed
<1>10. ASSUME NEW r \in Requests, AnswerRequest(r) PROVE KeysAreHeld'
  BY <1>10, <1>a DEF AnswerRequest, CallSucceeds, CallFails, CallLosesReply,
     MayFault, CheckoutTypeOK, stripeVars, StripeTypeOK, Holders
<1>11. ASSUME NEW r \in Requests, RequestContextEnds(r) PROVE KeysAreHeld'
  BY <1>11, <1>a DEF RequestContextEnds, MayFault, CheckoutTypeOK, stripeVars,
     StripeTypeOK, Holders
<1>12. ASSUME NEW r \in Requests, CrashRequest(r) PROVE KeysAreHeld'
  BY <1>12, <1>a DEF CrashRequest, MayFault, CheckoutTypeOK, stripeVars,
     StripeTypeOK, Holders
<1>13. CASE CancelStalePendingOrders
  BY <1>13, <1>a DEF CancelStalePendingOrders, checkoutVars, requestVars,
     stripeVars, CheckoutTypeOK, CheckoutRow, StaleOrders, InFlight, Holders
<1>14. CASE CustomerPays \/ SessionTimesOut
  BY <1>14, <1>a, PaymentStep DEF checkoutVars, requestVars, CheckoutTypeOK,
     Holders
<1>15. CASE UNCHANGED checkoutAll
  BY <1>15, <1>a DEF checkoutAll, checkoutVars, requestVars, stripeVars,
     Holders
<1> QED
  BY <1>1, <1>2, <1>3, <1>4, <1>5, <1>6, <1>7, <1>8, <1>9, <1>10, <1>11,
     <1>12, <1>13, <1>14, <1>15 DEF CheckoutNext, CheckoutStep, RequestStep

(* Step: sessions stay recorded, and replays start from recorded ones.     *)
LEMMA AnswersAreRecordedStep == RequestsInv /\ [CheckoutNext]_checkoutAll => AnswersAreRecorded'
<1> SUFFICES ASSUME RequestsInv, [CheckoutNext]_checkoutAll PROVE AnswersAreRecorded'
  OBVIOUS
<1> USE DEF RequestsInv, AnswersAreRecorded, KeysAreHeld
<1>a. Requests = Orders /\ CheckoutTypeOK /\ CheckoutTypeOK'
  BY CheckoutTypeStep DEF Requests, RequestsInv
<1>1. ASSUME NEW r \in Requests, BeginRequest(r) PROVE AnswersAreRecorded'
  BY <1>1, <1>a DEF BeginRequest, Proceed, CheckoutTypeOK, stripeVars,
     StripeTypeOK, SameBody, SameKey
<1>2. ASSUME NEW r \in Requests, ResolveKey(r) PROVE AnswersAreRecorded'
  BY SMTT(30), <1>2, <1>a DEF ResolveKey, NothingToReplay, Resolved, Lead, Finish,
     Proceed, Holders, CallSucceeds, CallFails, CallLosesReply, MayFault,
     CheckoutTypeOK, stripeVars, StripeTypeOK, SameBody, SameKey
<1>3. ASSUME NEW r \in Requests, ClearKey(r) PROVE AnswersAreRecorded'
  <2>1. /\ rpc[r] = "clear"
        /\ \/ Proceed(r, "insert")
           \/ Finish(r, "error")
        /\ UNCHANGED <<payment, orders>>
    BY <1>3 DEF ClearKey, NothingToReplay, stripeVars
  <2>2. CASE Proceed(r, "insert")
    BY <2>1, <2>2, <1>a DEF Proceed, CheckoutTypeOK, SameBody, SameKey
  <2>3. CASE Finish(r, "error")
    BY <2>1, <2>3, <1>a DEF Finish, CheckoutTypeOK, SameBody, SameKey
  <2> QED
    BY <2>1, <2>2, <2>3
<1>4. ASSUME NEW r \in Requests, RotateToken(r) PROVE AnswersAreRecorded'
  BY SMTT(30), <1>4, <1>a DEF RotateToken, Finish, CallSucceeds, CallFails,
     CallLosesReply, MayFault, CheckoutTypeOK, stripeVars, StripeTypeOK,
     SameBody, SameKey
<1>5. ASSUME NEW r \in Requests, InsertOrder(r) PROVE AnswersAreRecorded'
  <2>1. /\ rpc[r] = "insert" /\ UNCHANGED <<payment, found>>
        /\ \A p \in Orders : orders'[p].session = orders[p].session
    BY <1>5, <1>a, OrderUpdates DEF InsertOrder, stripeVars, Finish, Proceed
  <2>2. /\ \A q \in Requests \ {r} : rpc'[q] = rpc[q] /\ reply'[q] = reply[q]
        /\ rpc'[r] \in {"create", "answer", "resolve"}
        /\ reply'[r] = "none" \/ (rpc'[r] = "answer" /\ reply'[r] = "error")
    BY <1>5, <1>a, <2>1 DEF InsertOrder, Finish, Proceed, CheckoutTypeOK
  <2>3. AnswersAreRecorded /\ found \in [Requests -> Orders \cup {NoOrder}]
    BY <1>a DEF CheckoutTypeOK
  <2>4. ASSUME NEW q \in Requests, rpc'[q] = "rotate" \/ reply'[q] = "replayed"
        PROVE  /\ found'[q] \in Orders
               /\ orders'[found'[q]].session
               /\ SameBody(found'[q], q)
               /\ SameKey(found'[q], q)
    <3>1. rpc[q] = "rotate" \/ reply[q] = "replayed"
      BY <2>2, <2>4
    <3> QED
      BY <2>1, <2>3, <3>1
  <2> QED
    BY <2>1, <2>2, <2>3, <2>4, <1>a DEF SameBody, SameKey
<1>6. ASSUME NEW r \in Requests, CreateAtStripe(r) PROVE AnswersAreRecorded'
  BY SMTT(30), <1>6, <1>a, PaymentsMoveOn DEF CreateAtStripe, Proceed, MayFault,
     CheckoutTypeOK, stripeVars, StripeTypeOK, SameBody, SameKey
<1>7. ASSUME NEW r \in Requests, PersistSession(r) PROVE AnswersAreRecorded'
  BY SMTT(30), <1>7, <1>a, OrderUpdates DEF PersistSession, RetryPersist, Finish,
     Proceed, CallSucceeds, CallFails, CallLosesReply, MayFault,
     CheckoutTypeOK, stripeVars, StripeTypeOK, SameBody, SameKey
<1>8. ASSUME NEW r \in Requests, ExpireAtStripe(r) PROVE AnswersAreRecorded'
  BY <1>8, <1>a, PaymentsMoveOn DEF ExpireAtStripe, Proceed, MayFault,
     CheckoutTypeOK, stripeVars, StripeTypeOK, SameBody, SameKey
<1>9. ASSUME NEW r \in Requests, CancelFailed(r) PROVE AnswersAreRecorded'
  BY <1>9, <1>a, OrderUpdates, KeyUpdates DEF CancelFailed, Finish,
     CallSucceeds, CallFails, CallLosesReply, MayFault, CheckoutTypeOK,
     stripeVars, StripeTypeOK, SameBody, SameKey
<1>10. ASSUME NEW r \in Requests, AnswerRequest(r) PROVE AnswersAreRecorded'
  BY <1>10, <1>a DEF AnswerRequest, CallSucceeds, CallFails, CallLosesReply,
     MayFault, CheckoutTypeOK, stripeVars, StripeTypeOK, SameBody, SameKey
<1>11. ASSUME NEW r \in Requests, RequestContextEnds(r) PROVE AnswersAreRecorded'
  BY <1>11, <1>a DEF RequestContextEnds, MayFault, CheckoutTypeOK, stripeVars,
     StripeTypeOK, SameBody, SameKey
<1>12. ASSUME NEW r \in Requests, CrashRequest(r) PROVE AnswersAreRecorded'
  BY <1>12, <1>a DEF CrashRequest, MayFault, CheckoutTypeOK, stripeVars,
     StripeTypeOK, SameBody, SameKey
<1>13. CASE CancelStalePendingOrders
  BY <1>13, <1>a DEF CancelStalePendingOrders, checkoutVars, requestVars,
     stripeVars, CheckoutTypeOK, CheckoutRow, StaleOrders, InFlight, SameBody,
     SameKey
<1>14. CASE CustomerPays \/ SessionTimesOut
  BY <1>14, <1>a, PaymentStep DEF checkoutVars, requestVars, CheckoutTypeOK,
     SameBody, SameKey
<1>15. CASE UNCHANGED checkoutAll
  BY <1>15, <1>a DEF checkoutAll, checkoutVars, requestVars, stripeVars,
     SameBody, SameKey
<1> QED
  BY <1>1, <1>2, <1>3, <1>4, <1>5, <1>6, <1>7, <1>8, <1>9, <1>10, <1>11,
     <1>12, <1>13, <1>14, <1>15 DEF CheckoutNext, CheckoutStep, RequestStep

(* Step: a fault-free step takes no way out of the happy path.             *)
LEMMA FaultlessStep == CheckoutInv /\ [CheckoutNext]_checkoutAll => Faultless'
<1> SUFFICES ASSUME CheckoutInv, [CheckoutNext]_checkoutAll PROVE Faultless'
  OBVIOUS
<1> USE DEF CheckoutInv, RequestsInv, Faultless, InsertedOnce, AnswersAreRecorded, KeysAreHeld, Alive
<1>a. Requests = Orders /\ CheckoutTypeOK /\ CheckoutTypeOK'
  BY CheckoutTypeStep DEF Requests, CheckoutInv, RequestsInv
<1>1. ASSUME NEW r \in Requests, BeginRequest(r) PROVE Faultless'
  BY <1>1, <1>a DEF BeginRequest, Proceed, CheckoutTypeOK, stripeVars,
     StripeTypeOK, Holders
<1>2. ASSUME NEW r \in Requests, ResolveKey(r) PROVE Faultless'
  BY <1>2, <1>a DEF ResolveKey, NothingToReplay, Resolved, Lead, Finish,
     Proceed, Holders, CallSucceeds, CallFails, CallLosesReply, MayFault,
     CheckoutTypeOK, stripeVars, StripeTypeOK, Holders
<1>3. ASSUME NEW r \in Requests, ClearKey(r) PROVE Faultless'
  BY <1>3, <1>a DEF ClearKey, ClearOrderIdempotencyKey, NothingToReplay,
     Finish, Proceed, CallSucceeds, CallFails, CallLosesReply, MayFault,
     CheckoutTypeOK, stripeVars, StripeTypeOK, Holders
<1>4. ASSUME NEW r \in Requests, RotateToken(r) PROVE Faultless'
  BY <1>4, <1>a DEF RotateToken, Finish, CallSucceeds, CallFails,
     CallLosesReply, MayFault, CheckoutTypeOK, stripeVars, StripeTypeOK,
     Holders
<1>5. ASSUME NEW r \in Requests, InsertOrder(r) PROVE Faultless'
  BY <1>5, <1>a, OrderUpdates, KeyUpdates DEF InsertOrder, Finish, Proceed,
     KeyIsFree, Holders, CallSucceeds, CallFails, CallLosesReply, MayFault,
     CheckoutTypeOK, stripeVars, StripeTypeOK, Holders
<1>6. ASSUME NEW r \in Requests, CreateAtStripe(r) PROVE Faultless'
  BY <1>6, <1>a, PaymentsMoveOn DEF CreateAtStripe, Proceed, MayFault,
     CheckoutTypeOK, stripeVars, StripeTypeOK, Holders
<1>7. ASSUME NEW r \in Requests, PersistSession(r) PROVE Faultless'
  BY <1>7, <1>a, OrderUpdates DEF PersistSession, RetryPersist, Finish,
     Proceed, CallSucceeds, CallFails, CallLosesReply, MayFault,
     CheckoutTypeOK, stripeVars, StripeTypeOK, Holders
<1>8. ASSUME NEW r \in Requests, ExpireAtStripe(r) PROVE Faultless'
  BY <1>8, <1>a, PaymentsMoveOn DEF ExpireAtStripe, Proceed, MayFault,
     CheckoutTypeOK, stripeVars, StripeTypeOK, Holders
<1>9. ASSUME NEW r \in Requests, CancelFailed(r) PROVE Faultless'
  BY <1>9, <1>a, OrderUpdates, KeyUpdates DEF CancelFailed, Finish,
     CallSucceeds, CallFails, CallLosesReply, MayFault, CheckoutTypeOK,
     stripeVars, StripeTypeOK, Holders
<1>10. ASSUME NEW r \in Requests, AnswerRequest(r) PROVE Faultless'
  BY <1>10, <1>a DEF AnswerRequest, CallSucceeds, CallFails, CallLosesReply,
     MayFault, CheckoutTypeOK, stripeVars, StripeTypeOK, Holders
<1>11. ASSUME NEW r \in Requests, RequestContextEnds(r) PROVE Faultless'
  BY <1>11, <1>a DEF RequestContextEnds, MayFault, CheckoutTypeOK, stripeVars,
     StripeTypeOK, Holders
<1>12. ASSUME NEW r \in Requests, CrashRequest(r) PROVE Faultless'
  BY <1>12, <1>a DEF CrashRequest, MayFault, CheckoutTypeOK, stripeVars,
     StripeTypeOK, Holders
<1>13. CASE CancelStalePendingOrders
  BY <1>13, <1>a DEF CancelStalePendingOrders, checkoutVars, requestVars,
     stripeVars, CheckoutTypeOK, CheckoutRow, StaleOrders, InFlight, Holders
<1>14. CASE CustomerPays \/ SessionTimesOut
  BY <1>14, <1>a, PaymentStep DEF checkoutVars, requestVars, CheckoutTypeOK,
     Holders
<1>15. CASE UNCHANGED checkoutAll
  BY <1>15, <1>a DEF checkoutAll, checkoutVars, requestVars, stripeVars,
     Holders
<1> QED
  BY <1>1, <1>2, <1>3, <1>4, <1>5, <1>6, <1>7, <1>8, <1>9, <1>10, <1>11,
     <1>12, <1>13, <1>14, <1>15 DEF CheckoutNext, CheckoutStep, RequestStep

(* Checkout keeps a status, or makes it pending or canceled; and it keeps  *)
(* recorded sessions.                                                      *)
LEMMA CheckoutKeepsOrders ==
  RequestsInv /\ [CheckoutNext]_checkoutAll =>
    \A o \in Orders :
      /\ orders[o].session => orders'[o].session
      /\ \/ orders'[o].status = orders[o].status
         \/ orders[o].status = "absent" /\ orders'[o].status = "pending"
         \/ orders'[o].status = "canceled"
<1> SUFFICES ASSUME RequestsInv, [CheckoutNext]_checkoutAll, NEW o \in Orders
             PROVE  /\ orders[o].session => orders'[o].session
                    /\ \/ orders'[o].status = orders[o].status
                       \/ orders[o].status = "absent" /\ orders'[o].status = "pending"
                       \/ orders'[o].status = "canceled"
  OBVIOUS
<1>a. CheckoutTypeOK /\ Requests = Orders
  BY DEF RequestsInv, Requests
<1>1. CASE UNCHANGED orders
  BY <1>1
<1>2. ASSUME NEW r \in Requests, InsertOrder(r) \/ PersistSession(r) \/ CancelFailed(r)
      PROVE  /\ orders[o].session => orders'[o].session
             /\ \/ orders'[o].status = orders[o].status
                \/ orders[o].status = "absent" /\ orders'[o].status = "pending"
                \/ orders'[o].status = "canceled"
  <2>1. \/ CreateOrderWithItems(r) /\ orders[r].status = "absent"
        \/ CancelOrder(r) \/ UpdateOrderSession(r)
        \/ UNCHANGED orders
    BY <1>2 DEF InsertOrder, PersistSession, CancelFailed, RequestsInv, InsertedOnce
  <2>2. o = r \/ orders'[o] = orders[o]
    BY <2>1, <1>a, OrderUpdates
  <2>3. CASE o = r
    BY <2>1, <2>3, <1>a, OrderUpdates
  <2> QED
    BY <2>2, <2>3
<1>3. CASE CancelStalePendingOrders
  <2>1. PICK S \in SUBSET StaleOrders :
          orders' = [p \in Orders |->
            IF p \in S THEN [orders[p] EXCEPT !.status = "canceled"] ELSE orders[p]]
    BY <1>3 DEF CancelStalePendingOrders
  <2> QED
    BY <2>1, <1>a DEF CheckoutTypeOK, CheckoutRow
<1> QED
  BY <1>1, <1>2, <1>3 DEF CheckoutNext, CheckoutStep, RequestStep, BeginRequest,
     ResolveKey, ClearKey, RotateToken, CreateAtStripe, ExpireAtStripe, AnswerRequest,
     RequestContextEnds, CrashRequest, CustomerPays, SessionTimesOut, checkoutAll

(* A checkout step opens a session for its own order, closes one, or       *)
(* leaves Stripe alone.                                                    *)
LEMMA CheckoutAtStripe ==
  RequestsInv /\ CheckoutStep =>
    \/ UNCHANGED stripeVars
    \/ \E o \in Orders : CreateSession(o) /\ orders[o].status # "absent"
    \/ \E o \in Orders : ExpireSession(o)
<1> SUFFICES ASSUME RequestsInv, CheckoutStep
             PROVE  \/ UNCHANGED stripeVars
                    \/ \E o \in Orders : CreateSession(o) /\ orders[o].status # "absent"
                    \/ \E o \in Orders : ExpireSession(o)
  OBVIOUS
<1>1. ASSUME NEW r \in Requests, CreateAtStripe(r)
      PROVE  \/ UNCHANGED stripeVars
             \/ \E o \in Orders : CreateSession(o) /\ orders[o].status # "absent"
  BY <1>1 DEF CreateAtStripe, RequestsInv, InsertedOnce, Requests
<1>2. ASSUME NEW r \in Requests, ExpireAtStripe(r)
      PROVE  UNCHANGED stripeVars \/ \E o \in Orders : ExpireSession(o)
  BY <1>2 DEF ExpireAtStripe, Requests, stripeVars
<1>3. ASSUME NEW r \in Requests,
             \/ BeginRequest(r) \/ ResolveKey(r) \/ ClearKey(r) \/ RotateToken(r)
             \/ InsertOrder(r) \/ PersistSession(r) \/ CancelFailed(r) \/ AnswerRequest(r)
             \/ RequestContextEnds(r) \/ CrashRequest(r)
      PROVE  UNCHANGED stripeVars
  BY <1>3 DEF BeginRequest, ResolveKey, ClearKey, RotateToken, InsertOrder,
     PersistSession, CancelFailed, AnswerRequest, RequestContextEnds, CrashRequest
<1>4. CASE CancelStalePendingOrders
  BY <1>4 DEF CancelStalePendingOrders
<1> QED
  BY <1>1, <1>2, <1>3, <1>4 DEF CheckoutStep, RequestStep

-----------------------------------------------------------------------------
(* The inductive invariant holds from the start ...                        *)
LEMMA CheckoutBegins == CheckoutInit => CheckoutInv
<1> SUFFICES ASSUME CheckoutInit PROVE CheckoutInv
  OBVIOUS
<1>a. Requests = Orders /\ 0 \in 0 .. MaxFaults /\ 1 \in 1 .. Attempts
  BY DEF Requests
<1>1. CheckoutTypeOK
  BY <1>a DEF CheckoutInit, CheckoutTypeOK, StripeTypeOK, Payments, CheckoutRow,
     RequestSteps, Replies
<1>2. InsertedOnce /\ KeysAreHeld /\ AnswersAreRecorded /\ Faultless
  BY <1>a DEF CheckoutInit, InsertedOnce, KeysAreHeld, AnswersAreRecorded, Faultless, Alive
<1> QED
  BY <1>1, <1>2 DEF CheckoutInv, RequestsInv

(* ... and forever.                                                        *)
THEOREM CheckoutInvariance == CheckoutSpec => []CheckoutInv
<1>1. CheckoutInit => CheckoutInv
  BY CheckoutBegins
<1>2. CheckoutInv /\ [CheckoutNext]_checkoutAll => CheckoutInv'
  BY CheckoutTypeStep, InsertedOnceStep, KeysAreHeldStep, AnswersAreRecordedStep,
     FaultlessStep DEF CheckoutInv, RequestsInv
<1> QED
  BY <1>1, <1>2, PTL DEF CheckoutSpec

(* Every variable keeps its type; in particular no call is attempted more  *)
(* often than persistSessionWithRetry may.                                 *)
THEOREM CheckoutTypeCorrect == CheckoutSpec => []CheckoutTypeOK
<1>1. CheckoutInv => CheckoutTypeOK
  BY DEF CheckoutInv, RequestsInv
<1> QED
  BY <1>1, CheckoutInvariance, PTL

(* Of the orders inserted for one Idempotency-Key at most one is alive,    *)
(* for any number of requests, keys and failures.                          *)
THEOREM OneLiveOrder == CheckoutSpec => []OneLiveOrderPerKey
<1>1. CheckoutInv => OneLiveOrderPerKey
  BY DEF CheckoutInv, RequestsInv, KeysAreHeld, OneLiveOrderPerKey, SameKey
<1> QED
  BY <1>1, CheckoutInvariance, PTL

(* A session that a customer was shown is recorded with its order and was  *)
(* opened for the customer's own key and basket.                           *)
THEOREM ShownSessionsAreRecorded == CheckoutSpec => []ShownIsRecorded
<1>1. CheckoutInv => ShownIsRecorded
  BY DEF CheckoutInv, RequestsInv, AnswersAreRecorded, ShownIsRecorded, Shown, SameKey,
     Requests
<1> QED
  BY <1>1, CheckoutInvariance, PTL

(* Until something fails, racing requests with one key open one session    *)
(* between them and none sees an internal error.                           *)
THEOREM ExactlyOnceWithoutFaults == CheckoutSpec => []FaultFreeIsExactlyOnce
<1>1. CheckoutInv => FaultFreeIsExactlyOnce
  BY DEF CheckoutInv, RequestsInv, Faultless, KeysAreHeld, FaultFreeIsExactlyOnce, SameKey,
     Alive, Requests
<1> QED
  BY <1>1, CheckoutInvariance, PTL

-----------------------------------------------------------------------------
(* The refinement of PurchaseKeys.                                         *)

open    == {o \in Orders : Alive(o)}
givenUp == {o \in Orders : orders[o].status = "canceled"}

(* A step that keeps every status takes no step of the purchases.          *)
LEMMA SameStatusIsStutter ==
  ASSUME \A o \in Orders : orders'[o].status = orders[o].status
  PROVE  UNCHANGED <<open, givenUp>>
BY DEF open, givenUp, Alive

(* Every step of checkout is a step of PurchaseKeys, or none.              *)
LEMMA PurchaseStep ==
  RequestsInv /\ [CheckoutNext]_checkoutAll => [Purchases!KeysNext]_<<open, givenUp>>
<1> SUFFICES ASSUME RequestsInv, [CheckoutNext]_checkoutAll
             PROVE  [Purchases!KeysNext]_<<open, givenUp>>
  OBVIOUS
<1>a. Requests = Orders /\ CheckoutTypeOK
  BY DEF Requests, RequestsInv
<1>1. ASSUME NEW r \in Requests, InsertOrder(r)
      PROVE  [Purchases!KeysNext]_<<open, givenUp>>
  <2>1. CASE CreateOrderWithItems(r) /\ KeyIsFree(r)
    <3>1. /\ orders[r].status = "absent"
          /\ orders'[r].status = "pending"
          /\ \A p \in Orders \ {r} : orders'[p] = orders[p]
      BY <1>1, <2>1, <1>a, OrderUpdates DEF InsertOrder, RequestsInv, InsertedOnce
    <3>2. \A p \in open : Key[p] # Key[r] \/ Key[r] = NoKey
      BY <2>1 DEF open, KeyIsFree, Holders, RequestsInv, KeysAreHeld
    <3>3. open' = open \cup {r} /\ givenUp' = givenUp /\ r \notin open \cup givenUp
      BY <3>1, <1>a DEF open, givenUp, Alive
    <3>4. Purchases!Begin(r)
      BY <3>2, <3>3 DEF Purchases!Begin, open, givenUp
    <3> QED
      BY <3>4, <1>a DEF Purchases!KeysNext
  <2>2. CASE UNCHANGED orders
    BY <2>2, SameStatusIsStutter
  <2> QED
    BY <1>1, <2>1, <2>2 DEF InsertOrder
<1>2. ASSUME NEW S \in SUBSET Orders, S # {},
             \A o \in S : Alive(o) /\ orders'[o].status = "canceled",
             \A o \in Orders \ S : orders'[o].status = orders[o].status
      PROVE  [Purchases!KeysNext]_<<open, givenUp>>
  <2>1. S \in (SUBSET open) \ {{}}
    BY <1>2 DEF open
  <2>2. open' = open \ S /\ givenUp' = givenUp \cup S
    BY <1>2 DEF open, givenUp, Alive
  <2>3. Purchases!GiveUp(S)
    BY <2>2 DEF Purchases!GiveUp, open, givenUp
  <2> QED
    BY <2>1, <2>3 DEF Purchases!KeysNext, open
<1>3. ASSUME NEW r \in Requests, CancelFailed(r)
      PROVE  [Purchases!KeysNext]_<<open, givenUp>>
  <2>1. CASE CancelOrder(r)
    <3>1. /\ orders[r].status # "absent"
          /\ orders'[r].status = "canceled"
          /\ \A p \in Orders \ {r} : orders'[p] = orders[p]
      BY <1>3, <2>1, <1>a, OrderUpdates DEF CancelFailed, RequestsInv, InsertedOnce
    <3>2. CASE orders[r].status = "canceled"
      BY <3>1, <3>2, SameStatusIsStutter
    <3>3. CASE orders[r].status # "canceled"
      BY <1>2, <3>1, <3>3, <1>a DEF Alive
    <3> QED
      BY <3>2, <3>3
  <2>2. CASE UNCHANGED orders
    BY <2>2, SameStatusIsStutter
  <2> QED
    BY <1>3, <2>1, <2>2 DEF CancelFailed
<1>4. ASSUME NEW r \in Requests, PersistSession(r)
      PROVE  [Purchases!KeysNext]_<<open, givenUp>>
  <2>1. \A o \in Orders : orders'[o].status = orders[o].status
    BY <1>4, <1>a, OrderUpdates DEF PersistSession
  <2> QED
    BY <2>1, SameStatusIsStutter
<1>5. CASE CancelStalePendingOrders
  <2>1. PICK S \in SUBSET StaleOrders :
          /\ S # {}
          /\ orders' = [o \in Orders |->
               IF o \in S THEN [orders[o] EXCEPT !.status = "canceled"] ELSE orders[o]]
    BY <1>5 DEF CancelStalePendingOrders
  <2>2. S \in SUBSET Orders /\ \A o \in S : orders[o].status = "pending"
    BY DEF StaleOrders
  <2>3. \A o \in Orders \ S : orders'[o].status = orders[o].status
    BY <2>1
  <2>4. \A o \in S : orders'[o].status = "canceled"
    BY <2>1, <2>2, <1>a DEF CheckoutTypeOK, CheckoutRow
  <2> QED
    BY <1>2, <2>1, <2>2, <2>3, <2>4 DEF Alive
<1>6. CASE UNCHANGED orders
  BY <1>6, SameStatusIsStutter
<1>7. ASSUME NEW r \in Requests,
             \/ BeginRequest(r) \/ ResolveKey(r) \/ ClearKey(r) \/ RotateToken(r)
             \/ CreateAtStripe(r) \/ ExpireAtStripe(r) \/ AnswerRequest(r)
             \/ RequestContextEnds(r) \/ CrashRequest(r)
      PROVE  UNCHANGED orders
  BY <1>7 DEF BeginRequest, ResolveKey, ClearKey, RotateToken, CreateAtStripe,
     ExpireAtStripe, AnswerRequest, RequestContextEnds, CrashRequest
<1>8. CASE CustomerPays \/ SessionTimesOut \/ UNCHANGED checkoutAll
  BY <1>6, <1>8 DEF CustomerPays, SessionTimesOut, checkoutAll
<1> QED
  BY <1>1, <1>3, <1>4, <1>5, <1>6, <1>7, <1>8 DEF CheckoutNext, CheckoutStep, RequestStep

(* The service implements PurchaseKeys: purchases begin one at a time per  *)
(* key, and what a compensation or the cleanup gave up never comes back.   *)
THEOREM CheckoutImplementsKeys == CheckoutSpec => ImplementsPurchaseKeys
<1>1. CheckoutInit => Purchases!KeysInit
  BY DEF CheckoutInit, Purchases!KeysInit, Alive
<1>2. CheckoutInv /\ [CheckoutNext]_checkoutAll => [Purchases!KeysNext]_<<open, givenUp>>
  BY PurchaseStep DEF CheckoutInv
<1> QED
  BY <1>1, <1>2, CheckoutInvariance, PTL
     DEF CheckoutSpec, ImplementsPurchaseKeys, Purchases!KeysSpec, open, givenUp
=============================================================================
