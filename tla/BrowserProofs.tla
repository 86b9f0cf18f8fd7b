---------------------------- MODULE BrowserProofs ----------------------------
(***************************************************************************)
(* Theorems about Browser, for any number of effects, requests, keys,      *)
(* attempts, polls and failures.                                           *)
(***************************************************************************)
EXTENDS Browser, CheckoutProofs

USE TriesAssumption, StoredKeyAssumption, FaultsAssumption

(* The types of the tab's own variables.                                   *)
TabTypeOK ==
  /\ uiMode \in {"hosted", "embedded"}
  /\ tab \in {"shop", "stripe", "confirm"}
  /\ storedKey \in Keys \cup {NoKey}
  /\ savedToken \in [Orders -> Requests \cup {NoOrder}]
  /\ effect \in [Effects -> {"unused", "waiting", "pausing", "shown", "failed", "gone"}]
  /\ mounted \in [Effects -> BOOLEAN]
  /\ tries \in [Effects -> 0 .. MaxTries]
  /\ request \in [Effects -> Requests \cup {NoOrder}]
  /\ bought \in Orders \cup {NoOrder}
  /\ confirmation \in FinalStatuses \cup
       {"loading", "timed_out", "denied", "unavailable", "missing"}
  /\ polls \in 0 .. MaxPolls
  /\ offered \subseteq Orders
  /\ overlap \in BOOLEAN

(* An effect that has begun has a request, and goes on from an answer.     *)
EffectsFollow ==
  \A p \in Effects :
    /\ effect[p] = "unused" => tries[p] = 0
    /\ effect[p] # "unused" => request[p] \in Requests
    /\ effect[p] = "pausing" => tries[p] < MaxTries
    /\ effect[p] \in {"pausing", "shown"} => rpc[request[p]] = "done"
    /\ effect[p] = "shown" => Succeeded(request[p]) /\ mounted[p]

(* Only the shop has pages, which ask with the stored key.                 *)
PagesAreShop ==
  /\ \A p \in Effects :
       /\ mounted[p] => /\ tab = "shop" /\ effect[p] # "unused"
                        /\ storedKey # NoKey /\ Key[request[p]] = storedKey
       /\ tab # "shop" => effect[p] \in {"unused", "gone"}
  /\ tab = "stripe" => bought \in Orders
  /\ tab = "shop" => bought = NoOrder

(* What has been offered was asked for with the stored key.                *)
OfferedUnderKey == \A o \in offered : storedKey # NoKey /\ Key[o] = storedKey

(* Without failures a request is answered, and with success unless another *)
(* one is at work.                                                         *)
AnswersAreGood ==
  faults = 0 =>
    \A r \in Requests : rpc[r] \in {"answer", "done"} =>
      reply[r] \in {"created", "replayed", "in_progress"}

FailedHaveTried ==
  faults = 0 =>
    \A p \in Effects : effect[p] = "failed" =>
      /\ rpc[request[p]] = "done"
      /\ reply[request[p]] = "in_progress"
      /\ tries[p] = MaxTries

(* Orders follow payments.                                                 *)
OrdersFollow ==
  \A o \in Orders :
    /\ orders[o].status \notin {"failed", "refunded"}
    /\ orders[o].status = "paid" => payment[o] = "paid"
    /\ orders[o].status = "expired" => payment[o] = "expired"

BoughtIsPaid ==
  /\ tab = "confirm" /\ bought # NoOrder => payment[bought] \in {"unpaid", "paid"}
  /\ confirmation \in FinalStatuses => bought # NoOrder
  /\ faults = 0 /\ confirmation \in FinalStatuses =>
       confirmation = "paid" /\ payment[bought] = "paid"

(* The token of the order a request brings is the one it got.              *)
OwnToken(r) ==
  /\ rpc[r] \in {"create", "persist"} \/ reply[r] = "created" => token[r] = r
  /\ reply[r] = "replayed" => token[found[r]] = r

LoneEffect ==
  ~overlap =>
    \A p \in Effects : Running(p) \/ effect[p] = "shown" =>
      /\ \A q \in Effects : Running(q) \/ effect[q] = "shown" => q = p
      /\ \A r \in Requests : InFlight(r) => effect[p] = "waiting" /\ r = request[p]
      /\ effect[p] = "waiting" => OwnToken(request[p])
      /\ effect[p] = "shown" => Readable(OrderOf(request[p]))

LonePage ==
  ~overlap =>
    /\ bought # NoOrder => /\ \A r \in Requests : ~InFlight(r)
                           /\ Readable(bought)
    /\ confirmation # "denied"

BrowserInv ==
  /\ RequestsInv /\ Faultless
  /\ TabTypeOK
  /\ EffectsFollow
  /\ PagesAreShop
  /\ OfferedUnderKey
  /\ AnswersAreGood
  /\ FailedHaveTried
  /\ OrdersFollow
  /\ BoughtIsPaid
  /\ LoneEffect
  /\ LonePage

-----------------------------------------------------------------------------
(* What a step does to the requests, the orders and the payments.          *)

(* A request that meets no failure answers with success, or with           *)
(* CHECKOUT_IN_PROGRESS.                                                   *)
LEMMA AnswersAreGoodStep ==
  RequestsInv /\ Faultless /\ AnswersAreGood /\ [CheckoutNext]_checkoutAll => AnswersAreGood'
<1> SUFFICES ASSUME RequestsInv, Faultless, AnswersAreGood, [CheckoutNext]_checkoutAll,
                    faults' = 0
             PROVE  \A r \in Requests : rpc'[r] \in {"answer", "done"} =>
                      reply'[r] \in {"created", "replayed", "in_progress"}
  BY DEF AnswersAreGood
<1> DEFINE Good == \A r \in Requests : rpc'[r] \in {"answer", "done"} =>
                     reply'[r] \in {"created", "replayed", "in_progress"}
<1>a. Requests = Orders /\ CheckoutTypeOK
  BY DEF Requests, RequestsInv
<1>b. ~MayFault
  BY <1>a DEF CheckoutTypeOK, MayFault
<1>c. faults = 0
  BY <1>a, <1>b DEF CheckoutTypeOK, MayFault, CheckoutNext, CheckoutStep, RequestStep,
     BeginRequest, ResolveKey, ClearKey, RotateToken, InsertOrder, CreateAtStripe,
     PersistSession, ExpireAtStripe, CancelFailed, AnswerRequest, RequestContextEnds,
     CrashRequest, CancelStalePendingOrders, CustomerPays, SessionTimesOut, checkoutAll,
     CallSucceeds, CallFails, CallLosesReply
<1>d. /\ \A r \in Requests : rpc[r] \in {"answer", "done"} =>
            reply[r] \in {"created", "replayed", "in_progress"}
      /\ \A r \in Requests : ~CallFails(r) /\ ~CallLosesReply(r)
      /\ \A r \in Requests : rpc[r] \notin {"clear", "expire", "cancel"}
      /\ \A r \in Requests : second[r] => Holders(Key[r]) # {}
  BY <1>b, <1>c DEF AnswersAreGood, Faultless, CallFails, CallLosesReply
<1>1. ASSUME NEW r \in Requests, BeginRequest(r) PROVE Good
  BY <1>1, <1>a, <1>d DEF BeginRequest, Proceed, CheckoutTypeOK
<1>2. ASSUME NEW r \in Requests, ResolveKey(r) PROVE Good
  <2>1. CASE NothingToReplay(r) /\ Holders(Key[r]) = {}
    BY <2>1, <1>a, <1>d DEF NothingToReplay, Proceed, CheckoutTypeOK
  <2>2. ASSUME NEW o \in Holders(Key[r]), Resolved(r, o) PROVE Good
    <3>1. SameBody(o, r)
      BY <1>a DEF Holders, RequestsInv, KeysAreHeld, SameBody
    <3> QED
      BY <2>2, <3>1, <1>a, <1>d DEF Resolved, Lead, Finish, CheckoutTypeOK
  <2>3. Key[r] = NoKey => Holders(Key[r]) = {}
    BY DEF Holders
  <2> QED
    BY <1>2, <1>d, <2>1, <2>2, <2>3 DEF ResolveKey
<1>3. ASSUME NEW r \in Requests, RotateToken(r) PROVE Good
  BY <1>3, <1>a, <1>d DEF RotateToken, Finish, CheckoutTypeOK
<1>4. ASSUME NEW r \in Requests, InsertOrder(r) PROVE Good
  BY <1>4, <1>a, <1>d DEF InsertOrder, Proceed, CheckoutTypeOK
<1>5. ASSUME NEW r \in Requests, CreateAtStripe(r) PROVE Good
  BY <1>5, <1>a, <1>b, <1>d DEF CreateAtStripe, Proceed, CheckoutTypeOK
<1>6. ASSUME NEW r \in Requests, PersistSession(r) PROVE Good
  BY <1>6, <1>a, <1>d DEF PersistSession, Finish, CheckoutTypeOK
<1>7. ASSUME NEW r \in Requests, AnswerRequest(r) PROVE Good
  BY <1>7, <1>a, <1>d DEF AnswerRequest, CheckoutTypeOK
<1>8. CASE UNCHANGED requestVars
  BY <1>8, <1>d DEF requestVars
<1> QED
  BY <1>1, <1>2, <1>3, <1>4, <1>5, <1>6, <1>7, <1>8, <1>b, <1>d
     DEF CheckoutNext, CheckoutStep, RequestStep, ClearKey, ExpireAtStripe, CancelFailed,
     RequestContextEnds, CrashRequest, CancelStalePendingOrders, CustomerPays,
     SessionTimesOut, checkoutAll, checkoutVars

(* In a step of the checkout service a payment that has begun stays as it  *)
(* is, and an answer that has been given stays given.                      *)
LEMMA CheckoutKeepsAnswers ==
  RequestsInv /\ [CheckoutNext]_checkoutAll =>
    /\ faults' \in Nat /\ faults <= faults'
    /\ \A r \in Requests : rpc[r] = "done" =>
         rpc'[r] = "done" /\ reply'[r] = reply[r] /\ found'[r] = found[r]
<1> SUFFICES ASSUME RequestsInv, [CheckoutNext]_checkoutAll
             PROVE  /\ faults' \in Nat /\ faults <= faults'
                    /\ \A r \in Requests : rpc[r] = "done" =>
                         rpc'[r] = "done" /\ reply'[r] = reply[r] /\ found'[r] = found[r]
  OBVIOUS
<1>a. CheckoutTypeOK /\ Requests = Orders
  BY DEF RequestsInv, Requests
<1>1. faults' \in Nat /\ faults <= faults'
  BY <1>a DEF CheckoutTypeOK, MayFault, CheckoutNext, CheckoutStep, RequestStep,
     BeginRequest, ResolveKey, ClearKey, RotateToken, InsertOrder, CreateAtStripe,
     PersistSession, ExpireAtStripe, CancelFailed, AnswerRequest, RequestContextEnds,
     CrashRequest, CancelStalePendingOrders, CustomerPays, SessionTimesOut, checkoutAll,
     CallSucceeds, CallFails, CallLosesReply
<1>2. ASSUME NEW r \in Requests,
             RequestStep(r) \/ BeginRequest(r) \/ CrashRequest(r) \/ RequestContextEnds(r)
      PROVE  /\ rpc[r] # "done"
             /\ \A q \in Requests \ {r} :
                  rpc'[q] = rpc[q] /\ reply'[q] = reply[q] /\ found'[q] = found[q]
  BY <1>2, <1>a DEF CheckoutTypeOK, RequestStep, BeginRequest, ResolveKey, ClearKey,
     RotateToken, InsertOrder, CreateAtStripe, PersistSession, ExpireAtStripe,
     CancelFailed, AnswerRequest, RequestContextEnds, CrashRequest, InFlight, Proceed,
     Finish, NothingToReplay, Resolved, Lead, RetryPersist
<1>3. CASE UNCHANGED requestVars
  BY <1>1, <1>3 DEF requestVars
<1>4. \/ UNCHANGED requestVars
      \/ \E r \in Requests :
           RequestStep(r) \/ BeginRequest(r) \/ CrashRequest(r) \/ RequestContextEnds(r)
  BY DEF CheckoutNext, CheckoutStep, CancelStalePendingOrders, CustomerPays,
     SessionTimesOut, checkoutAll, checkoutVars
<1> QED
  BY <1>1, <1>2, <1>3, <1>4

(* Beside checkout's steps the tab sees a failure of its own, a payment,   *)
(* or its outcome.                                                         *)
FailureOnly == MayFault /\ UNCHANGED <<stripeVars, orders, checkoutVars>>

PaymentOnly == /\ \E o \in Orders : PayByCard(o) \/ PayLater(o) \/ SettleLater(o)
               /\ UNCHANGED <<orders, faults, checkoutVars>>

StoreStep == \/ [CheckoutNext]_checkoutAll
             \/ FailureOnly
             \/ PaymentOnly
             \/ \E o \in Orders : OutcomeArrives(o)

(* The order an effect shows exists.                                       *)
LEMMA ShownOrders ==
  ASSUME RequestsInv, EffectsFollow, NEW p \in Effects, effect[p] = "shown"
  PROVE  OrderOf(request[p]) \in Orders /\ orders[OrderOf(request[p])].session
BY DEF EffectsFollow, Succeeded, OrderOf, RequestsInv, AnswersAreRecorded, Requests

(* Every step of the tab and the server is one of these.                   *)
LEMMA StoreSteps == BrowserInv /\ [BrowserNext]_browserVars => StoreStep
<1> SUFFICES ASSUME BrowserInv, [BrowserNext]_browserVars PROVE StoreStep
  OBVIOUS
<1> USE DEF StoreStep
<1>1. ASSUME NEW p \in Effects, NEW k, Send(p, k) PROVE StoreStep
  BY <1>1 DEF Send, CheckoutNext, CheckoutStep
<1>2. ASSUME NEW p \in Effects, Mount(p) \/ TryAgain(p) PROVE StoreStep
  BY <1>1, <1>2 DEF Mount, TryAgain
<1>3. ASSUME NEW p \in Effects, GetAnswer(p) \/ Unmount(p) \/ Redirect(p) PROVE StoreStep
  BY <1>3 DEF GetAnswer, Unmount, Redirect
<1>4. ASSUME NEW p \in Effects, LoseConnection(p) PROVE StoreStep
  BY <1>4 DEF LoseConnection, FailureOnly
<1>5. ASSUME NEW p \in Effects, PayEmbedded(p) PROVE StoreStep
  BY <1>5, ShownOrders DEF PayEmbedded, Pays, PaymentOnly, BrowserInv
<1>6. CASE OpenShop \/ ReloadConfirmation
  BY <1>6 DEF OpenShop, ReloadConfirmation
<1>7. CASE PayHosted
  BY <1>7 DEF PayHosted, Pays, PaymentOnly, BrowserInv, PagesAreShop
<1>8. CASE Poll
  BY <1>8 DEF Poll, FailureOnly, checkoutAll
<1>9. CASE ServerStep
  BY <1>9 DEF ServerStep, CheckoutNext, CheckoutStep, PaymentSettles, PaymentOnly
<1>10. CASE UNCHANGED browserVars
  BY <1>10 DEF browserVars
<1> QED
  BY <1>2, <1>3, <1>4, <1>5, <1>6, <1>7, <1>8, <1>9, <1>10 DEF BrowserNext

(* What a payment does ...                                                 *)
LEMMA PaymentOnlyMoves ==
  ASSUME StripeTypeOK, PaymentOnly
  PROVE  /\ StripeTypeOK'
         /\ \A o \in Orders :
              /\ payment'[o] # "none" <=> payment[o] # "none"
              /\ payment'[o] # payment[o] => /\ payment[o] \in {"open", "unpaid"}
                                             /\ payment'[o] \in {"unpaid", "paid"}
BY DEF PaymentOnly, StripeTypeOK, PayByCard, PayLater, SettleLater, Moves, Payments, Event

(* ... and what the news of one.                                           *)
LEMMA OutcomeMoves ==
  ASSUME CheckoutTypeOK, NEW o \in Orders, OutcomeArrives(o)
  PROVE  /\ orders' \in [Orders -> CheckoutRow]
         /\ orders[o].status \in {"pending", "processing"}
         /\ \/ payment[o] = "unpaid" /\ orders'[o].status = "processing"
            \/ payment[o] = "paid" /\ orders'[o].status = "paid"
            \/ payment[o] = "expired" /\ orders'[o].status = "expired"
         /\ \A q \in Orders : orders'[q].session = orders[q].session
         /\ \A q \in Orders \ {o} : orders'[q] = orders[q]
<1>1. \/ payment[o] = "unpaid" /\ Says[payment[o]] = "processing"
      \/ payment[o] = "paid" /\ Says[payment[o]] = "paid"
      \/ payment[o] = "expired" /\ Says[payment[o]] = "expired"
  BY DEF OutcomeArrives, Says
<1>2. Says[payment[o]] \in OrderStatuses
  BY <1>1 DEF OrderStatuses
<1>3. orders[o].status \in {"pending", "processing"}
  BY <1>1 DEF OutcomeArrives, AllowedFrom
<1>4. orders' = [orders EXCEPT ![o].status = Says[payment[o]]]
  BY DEF OutcomeArrives
<1> HIDE DEF Says
<1> QED
  BY <1>1, <1>2, <1>3, <1>4 DEF CheckoutTypeOK, CheckoutRow

(* The requests' invariants hold in the tab's world as well.               *)
LEMMA TabRequestsStep ==
  BrowserInv /\ StoreStep => RequestsInv' /\ Faultless' /\ AnswersAreGood'
<1> SUFFICES ASSUME BrowserInv, StoreStep
             PROVE  RequestsInv' /\ Faultless' /\ AnswersAreGood'
  OBVIOUS
<1>a. RequestsInv /\ Faultless /\ AnswersAreGood /\ CheckoutTypeOK /\ Requests = Orders
  BY DEF BrowserInv, RequestsInv, Requests
<1>1. CASE [CheckoutNext]_checkoutAll
  BY <1>1, <1>a, CheckoutTypeStep, InsertedOnceStep, KeysAreHeldStep,
     AnswersAreRecordedStep, FaultlessStep, AnswersAreGoodStep
     DEF RequestsInv, CheckoutInv
<1>2. CASE FailureOnly
  <2>1. CheckoutTypeOK' /\ faults' # 0
    BY <1>2, <1>a DEF MayFault, FailureOnly, CheckoutTypeOK, checkoutVars, requestVars,
       stripeVars, StripeTypeOK
  <2>2. InsertedOnce' /\ KeysAreHeld' /\ AnswersAreRecorded'
    BY <1>2, <1>a DEF FailureOnly, RequestsInv, InsertedOnce, KeysAreHeld, Alive,
       AnswersAreRecorded, checkoutVars, requestVars, stripeVars
  <2> QED
    BY <2>1, <2>2 DEF RequestsInv, Faultless, AnswersAreGood
<1>3. CASE PaymentOnly
  <2>1. UNCHANGED <<orders, faults, checkoutVars>> /\ StripeTypeOK
    BY <1>3, <1>a DEF PaymentOnly, CheckoutTypeOK
  <2>2. /\ StripeTypeOK'
        /\ \A o \in Orders : payment'[o] # "none" <=> payment[o] # "none"
    BY <1>3, <2>1, PaymentOnlyMoves
  <2>3. CheckoutTypeOK'
    BY <2>1, <2>2, <1>a DEF CheckoutTypeOK, checkoutVars, requestVars
  <2>4. InsertedOnce' /\ KeysAreHeld' /\ AnswersAreRecorded'
    BY <2>1, <2>2, <1>a DEF RequestsInv, InsertedOnce, KeysAreHeld, Alive,
       AnswersAreRecorded, checkoutVars, requestVars
  <2>5. Faultless' /\ AnswersAreGood'
    BY <2>1, <2>2, <1>a DEF Faultless, AnswersAreGood, Holders, checkoutVars, requestVars
  <2> QED
    BY <2>3, <2>4, <2>5 DEF RequestsInv
<1>4. ASSUME NEW o \in Orders, OutcomeArrives(o)
      PROVE  RequestsInv' /\ Faultless' /\ AnswersAreGood'
  <2>1. UNCHANGED <<stripeVars, faults, checkoutVars>>
    BY <1>4 DEF OutcomeArrives
  <2>2. /\ orders' \in [Orders -> CheckoutRow]
        /\ \A q \in Orders :
             /\ orders'[q].session = orders[q].session
             /\ orders'[q].status = "absent" <=> orders[q].status = "absent"
             /\ orders'[q].status = "canceled" <=> orders[q].status = "canceled"
             /\ orders'[q].status = "pending" => orders[q].status = "pending"
    BY <1>4, <1>a, OutcomeMoves
  <2>3. CheckoutTypeOK'
    BY <2>1, <2>2, <1>a DEF CheckoutTypeOK, checkoutVars, requestVars, stripeVars,
       StripeTypeOK
  <2>4. InsertedOnce' /\ KeysAreHeld' /\ AnswersAreRecorded'
    BY <2>1, <2>2, <1>a DEF RequestsInv, InsertedOnce, KeysAreHeld, Alive,
       AnswersAreRecorded, checkoutVars, requestVars, stripeVars
  <2>5. Faultless' /\ AnswersAreGood'
    BY <2>1, <2>2, <1>a DEF Faultless, AnswersAreGood, Holders, checkoutVars,
       requestVars, stripeVars
  <2> QED
    BY <2>3, <2>4, <2>5 DEF RequestsInv
<1> QED
  BY <1>1, <1>2, <1>3, <1>4 DEF StoreStep

(* What every step keeps: answers, recorded sessions, the fate of a        *)
(* payment that is settled; and failures are not forgotten.                *)
LastingFacts ==
  /\ faults' = 0 => faults = 0
  /\ \A r \in Requests : rpc[r] = "done" =>
       rpc'[r] = "done" /\ reply'[r] = reply[r] /\ found'[r] = found[r]
  /\ \A o \in Orders :
       /\ orders[o].session => orders'[o].session
       /\ payment[o] \in {"paid", "expired"} => payment'[o] = payment[o]
       /\ payment[o] = "unpaid" => payment'[o] \in {"unpaid", "paid"}

(* A step of checkout moves no payment but one that is open.               *)
LEMMA CheckoutKeepsPayments ==
  RequestsInv /\ [CheckoutNext]_checkoutAll =>
    \A o \in Orders : payment[o] \in {"unpaid", "paid", "expired"} => payment'[o] = payment[o]
<1> SUFFICES ASSUME RequestsInv, [CheckoutNext]_checkoutAll,
                    NEW o \in Orders, payment[o] \in {"unpaid", "paid", "expired"}
             PROVE  payment'[o] = payment[o]
  OBVIOUS
<1>a. StripeTypeOK
  BY DEF RequestsInv, CheckoutTypeOK
<1>1. CASE UNCHANGED stripeVars
  BY <1>1 DEF stripeVars
<1>2. ASSUME NEW q \in Orders,
             CreateSession(q) \/ ExpireSession(q) \/ PayByCard(q) \/ PayLater(q)
      PROVE  payment'[o] = payment[o]
  BY <1>2, <1>a DEF StripeTypeOK, CreateSession, ExpireSession, PayByCard, PayLater, Moves
<1> QED
  BY <1>1, <1>2, CheckoutAtStripe DEF CheckoutNext, CustomerPays, SessionTimesOut, Shown,
     checkoutAll

(* Every step keeps them.                                                  *)
LEMMA FactsLast == BrowserInv /\ StoreStep => LastingFacts
<1> SUFFICES ASSUME BrowserInv, StoreStep PROVE LastingFacts
  OBVIOUS
<1>a. RequestsInv /\ CheckoutTypeOK /\ faults \in Nat
  BY DEF BrowserInv, RequestsInv, CheckoutTypeOK
<1> USE DEF LastingFacts
<1>1. CASE [CheckoutNext]_checkoutAll
  BY <1>1, <1>a, CheckoutKeepsAnswers, CheckoutKeepsPayments, CheckoutKeepsOrders
<1>2. CASE FailureOnly
  BY <1>2, <1>a DEF FailureOnly, MayFault, checkoutVars, requestVars, stripeVars
<1>3. CASE PaymentOnly
  BY <1>3, <1>a, PaymentOnlyMoves DEF PaymentOnly, checkoutVars, requestVars,
     CheckoutTypeOK
<1>4. ASSUME NEW o \in Orders, OutcomeArrives(o) PROVE LastingFacts
  BY <1>4, <1>a, OutcomeMoves DEF OutcomeArrives, checkoutVars, requestVars, stripeVars
<1> QED
  BY <1>1, <1>2, <1>3, <1>4 DEF StoreStep

(* Only the news of a payment makes an order paid or expired.              *)
LEMMA OrdersFollowStep == BrowserInv /\ StoreStep => OrdersFollow'
<1> SUFFICES ASSUME BrowserInv, StoreStep, NEW o \in Orders
             PROVE  /\ orders'[o].status \notin {"failed", "refunded"}
                    /\ orders'[o].status = "paid" => payment'[o] = "paid"
                    /\ orders'[o].status = "expired" => payment'[o] = "expired"
  BY DEF OrdersFollow
<1>a. /\ RequestsInv /\ CheckoutTypeOK /\ LastingFacts
      /\ orders[o].status \notin {"failed", "refunded"}
      /\ orders[o].status = "paid" => payment[o] = "paid"
      /\ orders[o].status = "expired" => payment[o] = "expired"
  BY FactsLast DEF BrowserInv, RequestsInv, OrdersFollow
<1>1. CASE orders'[o].status = orders[o].status
  BY <1>1, <1>a DEF LastingFacts
<1>2. CASE orders'[o].status \in {"pending", "canceled"}
  BY <1>2
<1>3. ASSUME NEW q \in Orders, OutcomeArrives(q)
      PROVE  /\ orders'[o].status \notin {"failed", "refunded"}
             /\ orders'[o].status = "paid" => payment'[o] = "paid"
             /\ orders'[o].status = "expired" => payment'[o] = "expired"
  <2>1. payment'[o] = payment[o]
    BY <1>3 DEF OutcomeArrives, stripeVars
  <2> QED
    BY <1>1, <1>3, <1>a, <2>1, OutcomeMoves
<1>4. CASE [CheckoutNext]_checkoutAll
  BY <1>1, <1>2, <1>4, <1>a, CheckoutKeepsOrders
<1> QED
  BY <1>1, <1>3, <1>4 DEF StoreStep, FailureOnly, PaymentOnly

-----------------------------------------------------------------------------
(* What a step does to the tab.                                            *)

(* Every variable of the tab keeps its type.                               *)
LEMMA TabTypeStep == BrowserInv /\ [BrowserNext]_browserVars => TabTypeOK'
<1> SUFFICES ASSUME BrowserInv, [BrowserNext]_browserVars PROVE TabTypeOK'
  OBVIOUS
<1>a. TabTypeOK /\ EffectsFollow /\ RequestsInv /\ CheckoutTypeOK /\ Requests = Orders
  BY DEF BrowserInv, RequestsInv, Requests
<1> USE DEF TabTypeOK
<1>1. ASSUME NEW p \in Effects, Mount(p) PROVE TabTypeOK'
  <2>1. PICK k \in KeysToUse : Send(p, k) /\ storedKey' = k
    BY <1>1 DEF Mount
  <2>2. k \in Keys \cup {NoKey}
    BY <1>a DEF KeysToUse, UnusedKeys
  <2>3. tries[p] + 1 \in 0 .. MaxTries
    BY <1>1, <1>a DEF Mount, EffectsFollow
  <2> QED
    BY <1>1, <1>a, <2>1, <2>2, <2>3 DEF Mount, Send, orderPage
<1>2. ASSUME NEW p \in Effects, TryAgain(p) PROVE TabTypeOK'
  <2>1. tries[p] + 1 \in 0 .. MaxTries
    BY <1>2, <1>a DEF TryAgain, EffectsFollow
  <2> QED
    BY <1>2, <1>a, <2>1 DEF TryAgain, Send, tabVars, orderPage
<1>3. ASSUME NEW p \in Effects, GetAnswer(p) PROVE TabTypeOK'
  <2>1. effect[p] = "waiting" /\ request[p] \in Requests
    BY <1>3, <1>a DEF GetAnswer, EffectsFollow
  <2>2. Succeeded(request[p]) => OrderOf(request[p]) \in Orders
    BY <2>1, <1>a DEF Succeeded, OrderOf, RequestsInv, AnswersAreRecorded
  <2> QED
    BY <1>3, <1>a, <2>1, <2>2 DEF GetAnswer, SaveOrderAccessToken, orderPage
<1>4. ASSUME NEW p \in Effects, LoseConnection(p) \/ Unmount(p) PROVE TabTypeOK'
  BY <1>4, <1>a DEF LoseConnection, Unmount, tabVars, orderPage
<1>5. ASSUME NEW document \in {"shop", "stripe", "confirm"}, Load(document),
             storedKey' \in Keys \cup {NoKey}, bought' \in Orders \cup {NoOrder},
             offered' \subseteq Orders
      PROVE  TabTypeOK'
  BY <1>5, <1>a DEF Load
<1>6. ASSUME NEW p \in Effects, Redirect(p) PROVE TabTypeOK'
  BY <1>6, <1>5, <1>a, ShownOrders DEF Redirect, DropKey
<1>7. ASSUME NEW p \in Effects, PayEmbedded(p) PROVE TabTypeOK'
  BY <1>7, <1>5, <1>a DEF PayEmbedded, DropKey
<1>8. CASE OpenShop \/ PayHosted \/ ReloadConfirmation
  BY <1>8, <1>5, <1>a DEF OpenShop, PayHosted, ReloadConfirmation
<1>9. CASE Poll
  BY <1>9, <1>a DEF Poll, AskAgain, pageVars
<1>10. CASE UNCHANGED <<pageVars, tabVars>>
  BY <1>10, <1>a DEF pageVars, tabVars, orderPage
<1> QED
  BY <1>1, <1>2, <1>3, <1>4, <1>6, <1>7, <1>8, <1>9, <1>10 DEF BrowserNext, browserVars

(* An effect that has shown or put off something did so on an answer.      *)
LEMMA EffectsFollowStep == BrowserInv /\ [BrowserNext]_browserVars => EffectsFollow'
<1> SUFFICES ASSUME BrowserInv, [BrowserNext]_browserVars PROVE EffectsFollow'
  OBVIOUS
<1>a. /\ TabTypeOK /\ EffectsFollow /\ RequestsInv /\ CheckoutTypeOK /\ LastingFacts
      /\ PagesAreShop
  BY StoreSteps, FactsLast DEF BrowserInv, RequestsInv
<1> USE DEF TabTypeOK, EffectsFollow, LastingFacts, Succeeded
<1>1. ASSUME NEW p \in Effects, NEW k, Send(p, k) PROVE
        /\ request'[p] \in Requests /\ effect'[p] = "waiting"
        /\ \A q \in Effects \ {p} : /\ effect'[q] = effect[q] /\ tries'[q] = tries[q]
                                    /\ request'[q] = request[q]
  BY <1>1, <1>a DEF Send
<1>2. ASSUME NEW p \in Effects, Mount(p) PROVE EffectsFollow'
  <2>1. \A q \in Effects : ~mounted[q]
    BY <1>2 DEF Mount
  <2> QED
    BY <1>1, <1>2, <1>a, <2>1 DEF Mount
<1>3. ASSUME NEW p \in Effects, TryAgain(p) PROVE EffectsFollow'
  BY <1>1, <1>3, <1>a DEF TryAgain
<1>4. ASSUME NEW p \in Effects, GetAnswer(p) PROVE EffectsFollow'
  BY <1>4, <1>a DEF GetAnswer, TriesAgain, checkoutAll, checkoutVars, requestVars
<1>5. ASSUME NEW p \in Effects, LoseConnection(p) PROVE EffectsFollow'
  BY <1>5, <1>a DEF LoseConnection
<1>6. ASSUME NEW p \in Effects, Unmount(p) PROVE EffectsFollow'
  <2>1. effect[p] # "unused"
    BY <1>6, <1>a DEF Unmount, PagesAreShop
  <2> QED
    BY <1>6, <1>a, <2>1 DEF Unmount, Running
<1>7. ASSUME NEW document, Load(document) PROVE EffectsFollow'
  BY <1>7, <1>a DEF Load
<1>8. CASE UNCHANGED pageVars
  BY <1>8, <1>a DEF pageVars
<1> QED
  BY <1>2, <1>3, <1>4, <1>5, <1>6, <1>7, <1>8
     DEF BrowserNext, browserVars, Redirect, PayEmbedded, OpenShop, PayHosted,
         ReloadConfirmation, Poll

(* Pages are mounted in the shop, on the stored key.                       *)
LEMMA PagesAreShopStep == BrowserInv /\ [BrowserNext]_browserVars => PagesAreShop'
<1> SUFFICES ASSUME BrowserInv, [BrowserNext]_browserVars PROVE PagesAreShop'
  OBVIOUS
<1>a. TabTypeOK /\ PagesAreShop /\ RequestsInv /\ EffectsFollow
  BY DEF BrowserInv
<1> USE DEF TabTypeOK, PagesAreShop
<1>1. ASSUME NEW p \in Effects, Mount(p) PROVE PagesAreShop'
  <2>1. PICK k \in KeysToUse : Send(p, k) /\ storedKey' = k
    BY <1>1 DEF Mount
  <2>2. k # NoKey
    BY DEF KeysToUse, UnusedKeys, Keys
  <2>3. Key[request'[p]] = k /\ effect'[p] = "waiting"
    BY <2>1, <1>a DEF Send
  <2>4. /\ tab = "shop" /\ tab' = "shop" /\ bought' = bought
        /\ \A q \in Effects \ {p} : ~mounted'[q]
    BY <1>1, <1>a DEF Mount
  <2> QED
    BY <1>a, <2>1, <2>2, <2>3, <2>4
<1>2. ASSUME NEW p \in Effects, TryAgain(p) PROVE PagesAreShop'
  BY <1>2, <1>a DEF TryAgain, Send, tabVars
<1>3. ASSUME NEW p \in Effects, GetAnswer(p) \/ LoseConnection(p) \/ Unmount(p)
      PROVE  PagesAreShop'
  BY <1>3, <1>a DEF GetAnswer, LoseConnection, Unmount, Running, tabVars
<1>4. ASSUME NEW p \in Effects, Redirect(p) \/ PayEmbedded(p) PROVE PagesAreShop'
  BY <1>4, <1>a, ShownOrders DEF Redirect, PayEmbedded, Load
<1>5. CASE OpenShop \/ PayHosted \/ ReloadConfirmation
  BY <1>5, <1>a DEF OpenShop, PayHosted, ReloadConfirmation, Load
<1>6. CASE Poll
  BY <1>6, <1>a DEF Poll, pageVars
<1>7. CASE UNCHANGED <<pageVars, tabVars>>
  BY <1>7, <1>a DEF pageVars, tabVars
<1> QED
  BY <1>1, <1>2, <1>3, <1>4, <1>5, <1>6, <1>7 DEF BrowserNext, browserVars

(* The order a page is answered with was requested with the stored key.    *)
LEMMA OfferedStep == BrowserInv /\ [BrowserNext]_browserVars => OfferedUnderKey'
<1> SUFFICES ASSUME BrowserInv, [BrowserNext]_browserVars PROVE OfferedUnderKey'
  OBVIOUS
<1>a. TabTypeOK /\ PagesAreShop /\ RequestsInv /\ EffectsFollow /\ OfferedUnderKey
  BY DEF BrowserInv
<1> USE DEF OfferedUnderKey
<1>1. ASSUME NEW p \in Effects, Mount(p) PROVE OfferedUnderKey'
  BY <1>1, <1>a DEF Mount, KeysToUse
<1>2. ASSUME NEW p \in Effects, GetAnswer(p) PROVE OfferedUnderKey'
  <2>1. storedKey' = storedKey /\ request[p] \in Requests
    BY <1>2, <1>a DEF GetAnswer, EffectsFollow
  <2>2. \/ offered' = offered
        \/ /\ offered' = offered \cup {OrderOf(request[p])}
           /\ Succeeded(request[p]) /\ mounted[p]
    BY <1>2 DEF GetAnswer
  <2>3. Succeeded(request[p]) => Key[OrderOf(request[p])] = Key[request[p]]
    BY <2>1, <1>a DEF Succeeded, OrderOf, RequestsInv, AnswersAreRecorded, SameKey
  <2> QED
    BY <2>1, <2>2, <2>3, <1>a DEF PagesAreShop
<1>3. CASE DropKey
  BY <1>3 DEF DropKey
<1>4. CASE UNCHANGED <<storedKey, offered>>
  BY <1>4, <1>a
<1> QED
  BY <1>1, <1>2, <1>3, <1>4
     DEF BrowserNext, browserVars, tabVars, TryAgain, LoseConnection, Unmount, Redirect,
         PayEmbedded, OpenShop, PayHosted, ReloadConfirmation, Poll

(* Without failures a page fails on its last CHECKOUT_IN_PROGRESS.         *)
LEMMA FailedStep == BrowserInv /\ [BrowserNext]_browserVars => FailedHaveTried'
<1> SUFFICES ASSUME BrowserInv, [BrowserNext]_browserVars, faults' = 0,
                    NEW p \in Effects, effect'[p] = "failed"
             PROVE  /\ rpc'[request'[p]] = "done"
                    /\ reply'[request'[p]] = "in_progress"
                    /\ tries'[p] = MaxTries
  BY DEF FailedHaveTried
<1>a. /\ TabTypeOK /\ EffectsFollow /\ AnswersAreGood /\ FailedHaveTried /\ LastingFacts
      /\ faults = 0 /\ RequestsInv /\ CheckoutTypeOK
  BY StoreSteps, FactsLast DEF BrowserInv, LastingFacts, RequestsInv
<1>1. ASSUME effect[p] = "failed", UNCHANGED <<request, tries>>
      PROVE  /\ rpc'[request'[p]] = "done"
             /\ reply'[request'[p]] = "in_progress"
             /\ tries'[p] = MaxTries
  BY <1>1, <1>a DEF FailedHaveTried, EffectsFollow, LastingFacts
<1>2. ASSUME NEW q \in Effects, NEW k, Send(q, k)
      PROVE  /\ p # q /\ effect[p] = "failed"
             /\ request'[p] = request[p] /\ tries'[p] = tries[p]
  BY <1>2, <1>a DEF Send, TabTypeOK
<1>3. ASSUME NEW q \in Effects, Mount(q) \/ TryAgain(q)
      PROVE  /\ rpc'[request'[p]] = "done"
             /\ reply'[request'[p]] = "in_progress"
             /\ tries'[p] = MaxTries
  <2>1. effect[p] = "failed" /\ request'[p] = request[p] /\ tries'[p] = tries[p]
    BY <1>2, <1>3 DEF Mount, TryAgain
  <2> QED
    BY <2>1, <1>a DEF FailedHaveTried, EffectsFollow, LastingFacts
<1>4. ASSUME NEW q \in Effects, GetAnswer(q)
      PROVE  /\ rpc'[request'[p]] = "done"
             /\ reply'[request'[p]] = "in_progress"
             /\ tries'[p] = MaxTries
  <2>1. UNCHANGED <<request, tries, rpc, reply>>
    BY <1>4 DEF GetAnswer, checkoutAll, checkoutVars, requestVars
  <2>2. \/ effect[p] = "failed"
        \/ /\ p = q /\ effect[p] = "waiting" /\ rpc[request[p]] = "done"
           /\ ~Succeeded(request[p]) /\ ~TriesAgain(p)
    BY <1>4, <1>a DEF GetAnswer, TabTypeOK
  <2>3. CASE p = q /\ effect[p] = "waiting" /\ rpc[request[p]] = "done"
             /\ ~Succeeded(request[p]) /\ ~TriesAgain(p)
    <3>1. reply[request[p]] = "in_progress"
      BY <2>3, <1>a DEF EffectsFollow, AnswersAreGood, Succeeded
    <3>2. tries[p] = MaxTries
      BY <2>3, <3>1, <1>a DEF TriesAgain, TabTypeOK
    <3> QED
      BY <2>1, <2>3, <3>1, <3>2
  <2> QED
    BY <1>1, <2>1, <2>2, <2>3
<1>5. ASSUME NEW q \in Effects, LoseConnection(q) PROVE FALSE
  BY <1>5, <1>a DEF LoseConnection, MayFault, CheckoutTypeOK
<1>6. ASSUME NEW q \in Effects, Unmount(q)
      PROVE  effect[p] = "failed" /\ UNCHANGED <<request, tries>>
  BY <1>6, <1>a DEF Unmount, TabTypeOK
<1>7. ASSUME NEW document, Load(document) PROVE FALSE
  BY <1>7 DEF Load
<1>8. CASE UNCHANGED pageVars
  BY <1>1, <1>8 DEF pageVars
<1> QED
  BY <1>1, <1>3, <1>4, <1>5, <1>6, <1>7, <1>8
     DEF BrowserNext, browserVars, Redirect, PayEmbedded, OpenShop, PayHosted,
         ReloadConfirmation, Poll

(* A confirmation says "paid" of an order that is, and stays, paid.        *)
LEMMA BoughtStep == BrowserInv /\ [BrowserNext]_browserVars => BoughtIsPaid'
<1> SUFFICES ASSUME BrowserInv, [BrowserNext]_browserVars PROVE BoughtIsPaid'
  OBVIOUS
<1>a. /\ TabTypeOK /\ PagesAreShop /\ BoughtIsPaid /\ LastingFacts /\ OrdersFollow
      /\ Faultless /\ Requests = Orders /\ RequestsInv /\ CheckoutTypeOK
  BY StoreSteps, FactsLast DEF BrowserInv, Requests, RequestsInv
<1>b. "loading" \notin FinalStatuses
  BY DEF FinalStatuses
<1>1. CASE UNCHANGED <<tab, bought, orderPage>>
  BY <1>1, <1>a DEF BoughtIsPaid, LastingFacts, TabTypeOK, orderPage
<1>2. ASSUME NEW document, Load(document),
             document = "confirm" => \/ bought' = NoOrder
                                     \/ payment'[bought'] \in {"unpaid", "paid"}
      PROVE  BoughtIsPaid'
  BY <1>2, <1>b DEF BoughtIsPaid, Load
<1>3. ASSUME NEW p \in Effects, Redirect(p) PROVE BoughtIsPaid'
  BY <1>2, <1>3 DEF Redirect
<1>4. ASSUME NEW p \in Effects, PayEmbedded(p) PROVE BoughtIsPaid'
  <2>1. tab = "shop"
    BY <1>4, <1>a DEF PayEmbedded, PagesAreShop
  <2> QED
    BY <1>2, <1>4, <1>a, <2>1 DEF PayEmbedded, PagesAreShop
<1>5. CASE PayHosted
  <2>1. bought \in Orders /\ bought' = bought /\ Load("confirm")
    BY <1>5, <1>a DEF PayHosted, PagesAreShop
  <2>2. payment'[bought] \in {"unpaid", "paid"}
    BY <1>5, <2>1, <1>a DEF PayHosted, Pays, PayByCard, PayLater, Moves, CheckoutTypeOK,
       StripeTypeOK
  <2> QED
    BY <1>2, <2>1, <2>2
<1>6. CASE OpenShop
  BY <1>2, <1>6 DEF OpenShop
<1>7. CASE ReloadConfirmation
  BY <1>2, <1>7, <1>a DEF ReloadConfirmation, BoughtIsPaid, checkoutAll, stripeVars
<1>8. CASE Poll
  <2>1. UNCHANGED <<payment, orders, tab, bought>> /\ tab = "confirm"
    BY <1>8 DEF Poll, stripeVars
  <2>2. \/ confirmation' \notin FinalStatuses
        \/ bought # NoOrder /\ confirmation' = orders[bought].status
    BY <1>8, <1>b DEF Poll, AskAgain, FinalStatuses
  <2>3. ASSUME bought # NoOrder, faults' = 0, orders[bought].status \in FinalStatuses
        PROVE  orders[bought].status = "paid" /\ payment[bought] = "paid"
    BY <2>1, <2>3, <1>a DEF LastingFacts, Faultless, OrdersFollow, BoughtIsPaid,
       FinalStatuses, TabTypeOK
  <2> QED
    BY <2>1, <2>2, <2>3, <1>a DEF BoughtIsPaid
<1> QED
  BY <1>1, <1>3, <1>4, <1>5, <1>6, <1>7, <1>8
     DEF BrowserNext, browserVars, tabVars, Mount, TryAgain, GetAnswer, LoseConnection,
         Unmount

-----------------------------------------------------------------------------
(* Tokens.                                                                 *)

(* A step of a request keeps the token it gave; it gives one to the order  *)
(* it inserts or replays.                                                  *)
LEMMA OwnTokenStep ==
  ASSUME RequestsInv, NEW r \in Requests, OwnToken(r),
         RequestStep(r) \/ RequestContextEnds(r) \/ CrashRequest(r)
  PROVE  OwnToken(r)'
<1>a. CheckoutTypeOK /\ Requests = Orders
  BY DEF RequestsInv, Requests
<1>b. rpc[r] \notin {"answer", "done"} => reply[r] = "none"
  BY DEF RequestsInv, AnswersAreRecorded
<1> USE DEF OwnToken, CheckoutTypeOK
<1>1. CASE ResolveKey(r)
  BY <1>1, <1>a, <1>b DEF ResolveKey, NothingToReplay, Resolved, Lead, Finish, Proceed
<1>2. CASE ClearKey(r)
  BY <1>2, <1>a, <1>b DEF ClearKey, NothingToReplay, Finish, Proceed
<1>3. CASE RotateToken(r)
  <2>1. found[r] \in Orders
    BY <1>3 DEF RotateToken, RequestsInv, AnswersAreRecorded
  <2> QED
    BY <1>3, <1>a, <1>b, <2>1 DEF RotateToken, Finish
<1>4. CASE InsertOrder(r)
  BY <1>4, <1>a, <1>b DEF InsertOrder, CreateOrderWithItems, Finish, Proceed
<1>5. CASE CreateAtStripe(r)
  BY <1>5, <1>a, <1>b DEF CreateAtStripe, Proceed
<1>6. CASE PersistSession(r)
  BY <1>6, <1>a, <1>b DEF PersistSession, RetryPersist, Finish, Proceed
<1>7. CASE ExpireAtStripe(r)
  BY <1>7, <1>a, <1>b DEF ExpireAtStripe, Proceed
<1>8. CASE CancelFailed(r)
  BY <1>8, <1>a, <1>b DEF CancelFailed, Finish
<1>9. CASE AnswerRequest(r)
  BY <1>9, <1>a, <1>b DEF AnswerRequest
<1>10. CASE RequestContextEnds(r) \/ CrashRequest(r)
  BY <1>10, <1>a, <1>b DEF RequestContextEnds, CrashRequest
<1> QED
  BY <1>1, <1>2, <1>3, <1>4, <1>5, <1>6, <1>7, <1>8, <1>9, <1>10 DEF RequestStep

(* The server by itself begins no request, and only requests in flight     *)
(* change tokens.                                                          *)
LEMMA ServerKeepsTokens ==
  ASSUME BrowserInv, ServerStep
  PROVE  /\ \A r \in Requests : InFlight(r)' => InFlight(r)
         /\ (\A r \in Requests : ~InFlight(r)) => UNCHANGED token
         /\ \A q \in Requests :
              OwnToken(q) /\ (\A r \in Requests : InFlight(r) => r = q) => OwnToken(q)'
<1>a. RequestsInv /\ CheckoutTypeOK
  BY DEF BrowserInv, RequestsInv
<1>1. CASE UNCHANGED checkoutVars
  BY <1>1 DEF checkoutVars, requestVars, InFlight, OwnToken
<1>2. ASSUME NEW r \in Requests, RequestStep(r) \/ RequestContextEnds(r) \/ CrashRequest(r)
      PROVE  InFlight(r) /\ \A q \in Requests \ {r} : rpc'[q] = rpc[q]
  BY <1>2, <1>a DEF CheckoutTypeOK, InFlight, RequestStep, ResolveKey, ClearKey,
     RotateToken, InsertOrder, CreateAtStripe, PersistSession, ExpireAtStripe,
     CancelFailed, AnswerRequest, RequestContextEnds, CrashRequest, Proceed, Finish,
     NothingToReplay, Resolved, Lead, RetryPersist
<1>3. ASSUME NEW r \in Requests, RequestStep(r) \/ RequestContextEnds(r) \/ CrashRequest(r)
      PROVE  /\ \A q \in Requests : InFlight(q)' => InFlight(q)
             /\ ~ \A q \in Requests : ~InFlight(q)
             /\ \A q \in Requests :
                  OwnToken(q) /\ (\A s \in Requests : InFlight(s) => s = q) => OwnToken(q)'
  BY <1>2, <1>3, <1>a, OwnTokenStep DEF InFlight
<1> QED
  BY <1>1, <1>3 DEF ServerStep, CancelStalePendingOrders, SessionTimesOut,
     PaymentSettles, OutcomeArrives

(* While no effect overlaps another, the one at work and the page it       *)
(* showed have the current token.                                          *)
LEMMA LoneEffectStep == BrowserInv /\ [BrowserNext]_browserVars => LoneEffect'
<1> SUFFICES ASSUME BrowserInv, [BrowserNext]_browserVars, ~overlap' PROVE LoneEffect'
  BY DEF LoneEffect
<1>a. /\ TabTypeOK /\ EffectsFollow /\ PagesAreShop /\ LoneEffect /\ LastingFacts
      /\ RequestsInv /\ CheckoutTypeOK /\ Requests = Orders
  BY StoreSteps, FactsLast DEF BrowserInv, RequestsInv, Requests
<1>b. ~overlap
  BY DEF BrowserNext, browserVars, tabVars, Mount, TryAgain, GetAnswer, LoseConnection,
     Unmount, Redirect, PayEmbedded, OpenShop, PayHosted, ReloadConfirmation, Poll, Load
<1> DEFINE Active(p) == Running(p) \/ effect[p] = "shown"
<1>0. ASSUME NEW p \in Effects, Active(p)
         PROVE  /\ \A q \in Effects : Active(q) => q = p
                /\ \A r \in Requests : InFlight(r) => effect[p] = "waiting" /\ r = request[p]
                /\ effect[p] = "waiting" => OwnToken(request[p])
                /\ effect[p] = "shown" => Readable(OrderOf(request[p]))
  BY <1>0, <1>a, <1>b DEF LoneEffect
<1>1. ASSUME NEW p \in Effects, NEW k, Send(p, k),
             \A q \in Effects \ {p} : ~Active(q),
             \A r \in Requests : ~InFlight(r)
      PROVE  LoneEffect'
  <2>1. PICK r \in Requests :
          /\ rpc[r] = "idle" /\ rpc' = [rpc EXCEPT ![r] = "resolve"]
          /\ UNCHANGED <<reply, found, token>>
          /\ request' = [request EXCEPT ![p] = r]
          /\ effect' = [effect EXCEPT ![p] = "waiting"]
    BY <1>1 DEF Send, BeginRequest, Proceed
  <2>2. /\ effect'[p] = "waiting" /\ request'[p] = r
        /\ \A q \in Effects \ {p} : effect'[q] = effect[q]
        /\ rpc'[r] = "resolve"
        /\ \A q \in Requests \ {r} : rpc'[q] = rpc[q]
    BY <2>1, <1>a DEF TabTypeOK, CheckoutTypeOK
  <2>3. reply'[r] = "none"
    BY <2>1, <1>a DEF RequestsInv, AnswersAreRecorded
  <2>4. OwnToken(r)'
    BY <2>2, <2>3 DEF OwnToken
  <2>5. \A q \in Effects : (Running(q) \/ effect[q] = "shown")' => q = p
    BY <1>1, <2>2 DEF Running
  <2>6. \A q \in Requests : InFlight(q)' => q = r
    BY <1>1, <2>2 DEF InFlight
  <2> QED
    BY <2>2, <2>4, <2>5, <2>6 DEF LoneEffect, OwnToken, Readable, OrderOf
<1>2. ASSUME NEW p \in Effects, Mount(p) PROVE LoneEffect'
  <2>1. /\ \A q \in Effects : ~mounted[q] /\ ~Running(q)
        /\ \A r \in Requests : ~InFlight(r)
    BY <1>2 DEF Mount
  <2>2. \A q \in Effects : ~Active(q)
    BY <2>1, <1>a DEF EffectsFollow
  <2> QED
    BY <1>1, <1>2, <2>1, <2>2 DEF Mount
<1>3. ASSUME NEW p \in Effects, TryAgain(p) PROVE LoneEffect'
  <2>1. Active(p) /\ effect[p] # "waiting" /\ Send(p, Key[request[p]])
    BY <1>3 DEF TryAgain, Running
  <2> QED
    BY <1>1, <1>0, <2>1
<1>4. ASSUME NEW p \in Effects, GetAnswer(p) PROVE LoneEffect'
  <2> DEFINE r == request[p]
             o == OrderOf(r)
  <2>1. Active(p) /\ effect[p] = "waiting" /\ rpc[r] = "done" /\ r \in Requests
    BY <1>4, <1>a DEF GetAnswer, Running, EffectsFollow
  <2>2. /\ \A q \in Effects \ {p} : ~Active(q)
        /\ \A q \in Requests : ~InFlight(q)
        /\ OwnToken(r)
    BY <2>1, <1>0 DEF InFlight
  <2>3. /\ \A q \in Effects \ {p} : effect'[q] = effect[q]
        /\ UNCHANGED <<orders, rpc, reply, found, token, request>>
        /\ effect'[p] # "waiting"
    BY <1>4, <1>a DEF GetAnswer, checkoutAll, checkoutVars, requestVars, TabTypeOK
  <2>4. \A q \in Effects : (Running(q) \/ effect[q] = "shown")' => q = p
    BY <2>2, <2>3 DEF Running
  <2>5. \A q \in Requests : ~InFlight(q)'
    BY <2>2, <2>3 DEF InFlight
  <2>6. ASSUME effect'[p] = "shown" PROVE Readable(OrderOf(request[p]))'
    <3>1. Succeeded(r) /\ SaveOrderAccessToken(o, r)
      BY <1>4, <1>a, <2>6 DEF GetAnswer, TabTypeOK
    <3>2. o \in Orders /\ orders[o].session /\ token[o] = r
      BY <2>1, <2>2, <3>1, <1>a DEF Succeeded, OrderOf, OwnToken, RequestsInv,
         AnswersAreRecorded
    <3>3. savedToken'[o] = r
      BY <3>1, <3>2, <1>a DEF SaveOrderAccessToken, TabTypeOK
    <3>4. OrderOf(request[p])' = o
      BY <2>3 DEF OrderOf
    <3> QED
      BY <2>3, <3>2, <3>3, <3>4 DEF Readable
  <2> QED
    BY <2>3, <2>4, <2>5, <2>6 DEF LoneEffect
<1>5. ASSUME \A p \in Effects : effect'[p] = effect[p] \/ effect'[p] \in {"failed", "gone"},
             UNCHANGED <<orders, checkoutVars, request, savedToken>>
      PROVE  LoneEffect'
  <2>1. \A p \in Effects : (Running(p) \/ effect[p] = "shown")' =>
          Active(p) /\ effect'[p] = effect[p]
    BY <1>5 DEF Running
  <2>2. /\ \A r \in Requests : InFlight(r)' = InFlight(r)
        /\ \A r \in Requests : OwnToken(r)' = OwnToken(r)
        /\ \A p \in Effects : Readable(OrderOf(request[p]))' = Readable(OrderOf(request[p]))
    BY <1>5 DEF checkoutVars, requestVars, InFlight, OwnToken, Readable, OrderOf
  <2>3. \A p \in Effects : effect[p] = "waiting" =>
          OwnToken(request[p])' = OwnToken(request[p])
    BY <1>5 DEF checkoutVars, requestVars, OwnToken
  <2> QED
    BY <1>5, <1>0, <2>1, <2>2, <2>3 DEF LoneEffect
<1>6. ASSUME NEW p \in Effects, LoseConnection(p) \/ Unmount(p) PROVE LoneEffect'
  BY <1>5, <1>6, <1>a DEF LoseConnection, Unmount, Running, TabTypeOK, tabVars, checkoutAll
<1>7. ASSUME NEW document, Load(document) PROVE LoneEffect'
  <2>1. \A q \in Effects : effect'[q] \in {"unused", "gone"}
    BY <1>7 DEF Load
  <2> QED
    BY <2>1 DEF LoneEffect, Running
<1>8. CASE Poll
  BY <1>5, <1>8 DEF Poll, pageVars
<1>9. CASE ServerStep /\ UNCHANGED <<pageVars, tabVars>>
  <2>1. UNCHANGED <<effect, request, savedToken>>
    BY <1>9 DEF pageVars, tabVars
  <2>2. \A p \in Effects : (Running(p) \/ effect[p] = "shown")' => Active(p)
    BY <2>1 DEF Running
  <2>3. \A r \in Requests : InFlight(r)' => InFlight(r)
    BY <1>9, ServerKeepsTokens
  <2>4. ASSUME NEW p \in Effects, effect[p] = "waiting" PROVE OwnToken(request[p])'
    <3>1. /\ request[p] \in Requests /\ OwnToken(request[p])
          /\ \A r \in Requests : InFlight(r) => r = request[p]
      BY <2>4, <1>0, <1>a DEF EffectsFollow, Running
    <3>2. \A q \in Requests :
            OwnToken(q) /\ (\A r \in Requests : InFlight(r) => r = q) => OwnToken(q)'
      BY <1>9, ServerKeepsTokens
    <3>3. request'[p] = request[p]
      BY <2>1
    <3> QED
      BY <3>1, <3>2, <3>3 DEF OwnToken
  <2>5. ASSUME NEW p \in Effects, effect[p] = "shown"
        PROVE  Readable(OrderOf(request[p]))'
    <3> DEFINE o == OrderOf(request[p])
    <3>1. Readable(o) /\ \A r \in Requests : ~InFlight(r)
      BY <2>5, <1>0
    <3>2. o \in Orders /\ rpc[request[p]] = "done" /\ request[p] \in Requests
      BY <2>5, <1>a, ShownOrders DEF EffectsFollow
    <3>3. UNCHANGED token
      BY <1>9, <3>1, ServerKeepsTokens
    <3>4. OrderOf(request[p])' = o
      BY <2>1, <3>2, <1>a DEF LastingFacts, OrderOf
    <3> QED
      BY <2>1, <3>1, <3>2, <3>3, <3>4, <1>a DEF LastingFacts, Readable
  <2> QED
    BY <1>0, <2>1, <2>2, <2>3, <2>4, <2>5 DEF LoneEffect
<1>10. CASE UNCHANGED browserVars
  BY <1>5, <1>10 DEF browserVars, pageVars, tabVars, checkoutAll
<1> QED
  BY <1>2, <1>3, <1>4, <1>6, <1>7, <1>8, <1>9, <1>10
     DEF BrowserNext, Redirect, PayEmbedded, OpenShop, PayHosted, ReloadConfirmation

(* And so does the page its payment leads to.                              *)
LEMMA LonePageStep == BrowserInv /\ [BrowserNext]_browserVars => LonePage'
<1> SUFFICES ASSUME BrowserInv, [BrowserNext]_browserVars, ~overlap' PROVE LonePage'
  BY DEF LonePage
<1>a. /\ TabTypeOK /\ EffectsFollow /\ PagesAreShop /\ LoneEffect /\ LonePage
      /\ LastingFacts /\ RequestsInv /\ CheckoutTypeOK
  BY StoreSteps, FactsLast DEF BrowserInv, RequestsInv
<1>b. ~overlap
  BY DEF BrowserNext, browserVars, tabVars, Mount, TryAgain, GetAnswer, LoseConnection,
     Unmount, Redirect, PayEmbedded, OpenShop, PayHosted, ReloadConfirmation, Poll, Load
<1>c. /\ bought # NoOrder => Readable(bought) /\ \A r \in Requests : ~InFlight(r)
      /\ confirmation # "denied"
  BY <1>a, <1>b DEF LonePage
<1>1. ASSUME bought' = NoOrder, confirmation' # "denied" PROVE LonePage'
  BY <1>1 DEF LonePage
<1>2. ASSUME bought' = bought, confirmation' # "denied",
             UNCHANGED <<orders, checkoutVars, savedToken>>
      PROVE  LonePage'
  BY <1>2, <1>c DEF LonePage, Readable, InFlight, checkoutVars, requestVars
<1>3. ASSUME NEW p \in Effects, Mount(p) \/ TryAgain(p) \/ GetAnswer(p) PROVE LonePage'
  <2>1. tab = "shop" /\ UNCHANGED <<bought, confirmation>>
    BY <1>3, <1>a DEF Mount, TryAgain, GetAnswer, PagesAreShop, tabVars, orderPage
  <2> QED
    BY <2>1, <1>1, <1>a, <1>c DEF PagesAreShop
<1>4. ASSUME NEW p \in Effects, LoseConnection(p) \/ Unmount(p) PROVE LonePage'
  BY <1>2, <1>4, <1>c DEF LoseConnection, Unmount, tabVars, orderPage, checkoutAll
<1>5. ASSUME NEW p \in Effects, Redirect(p) PROVE LonePage'
  <2>1. /\ Readable(OrderOf(request[p])) /\ \A r \in Requests : ~InFlight(r)
    BY <1>5, <1>a, <1>b DEF Redirect, LoneEffect
  <2>2. /\ bought' = OrderOf(request[p]) /\ confirmation' = "loading"
        /\ UNCHANGED <<orders, rpc, token, savedToken>>
    BY <1>5 DEF Redirect, Load, checkoutAll, checkoutVars, requestVars
  <2> QED
    BY <2>1, <2>2 DEF LonePage, Readable, InFlight
<1>6. ASSUME NEW p \in Effects, PayEmbedded(p) PROVE LonePage'
  <2>1. tab = "shop"
    BY <1>6, <1>a DEF PayEmbedded, PagesAreShop
  <2> QED
    BY <1>1, <1>6, <2>1, <1>a DEF PayEmbedded, PagesAreShop, Load
<1>7. CASE OpenShop
  BY <1>1, <1>7 DEF OpenShop, Load
<1>8. CASE PayHosted \/ ReloadConfirmation
  BY <1>2, <1>8 DEF PayHosted, ReloadConfirmation, Pays, Load, checkoutAll
<1>9. CASE Poll
  <2>1. confirmation' # "denied"
    BY <1>9, <1>c DEF Poll, AskAgain, FinalStatuses
  <2> QED
    BY <1>2, <1>9, <2>1 DEF Poll
<1>10. CASE ServerStep /\ UNCHANGED <<pageVars, tabVars>>
  <2>1. UNCHANGED <<bought, confirmation, savedToken>>
    BY <1>10 DEF tabVars, orderPage
  <2>2. CASE bought # NoOrder
    <3>1. bought \in Orders /\ UNCHANGED token /\ \A r \in Requests : ~InFlight(r)'
      BY <1>10, <1>a, <1>c, <2>2, ServerKeepsTokens DEF TabTypeOK
    <3> QED
      BY <2>1, <3>1, <1>a, <1>c, <2>2 DEF LonePage, Readable, LastingFacts
  <2> QED
    BY <1>1, <1>c, <2>1, <2>2
<1>11. CASE UNCHANGED browserVars
  BY <1>2, <1>11, <1>c DEF browserVars, tabVars, orderPage, checkoutAll
<1> QED
  BY <1>3, <1>4, <1>5, <1>6, <1>7, <1>8, <1>9, <1>10, <1>11 DEF BrowserNext

-----------------------------------------------------------------------------
(* The inductive invariant.                                                *)

(* It holds of a tab that has just been opened.                            *)
LEMMA BrowserBegins == BrowserInit => BrowserInv
<1> SUFFICES ASSUME BrowserInit PROVE BrowserInv
  OBVIOUS
<1>1. RequestsInv /\ Faultless
  BY CheckoutBegins DEF BrowserInit, CheckoutInv
<1>2. TabTypeOK
  <2>1. 0 \in 0 .. MaxTries /\ 0 \in 0 .. MaxPolls
    OBVIOUS
  <2> QED
    BY <2>1 DEF BrowserInit, TabTypeOK
<1>3. /\ EffectsFollow /\ PagesAreShop /\ OfferedUnderKey /\ FailedHaveTried
      /\ LoneEffect /\ LonePage
  BY DEF BrowserInit, EffectsFollow, PagesAreShop, OfferedUnderKey, FailedHaveTried,
     LoneEffect, LonePage, Running
<1>4. AnswersAreGood /\ OrdersFollow /\ BoughtIsPaid
  BY DEF BrowserInit, CheckoutInit, AnswersAreGood, OrdersFollow, BoughtIsPaid,
     FinalStatuses
<1> QED
  BY <1>1, <1>2, <1>3, <1>4 DEF BrowserInv

(* The tab's invariant, with that of the requests it sends, is inductive.  *)
THEOREM BrowserInvariance == BrowserSpec => []BrowserInv
<1>1. BrowserInv /\ [BrowserNext]_browserVars => BrowserInv'
  BY StoreSteps, TabRequestsStep, TabTypeStep, EffectsFollowStep, PagesAreShopStep,
     OfferedStep, FailedStep, OrdersFollowStep, BoughtStep, LoneEffectStep, LonePageStep
     DEF BrowserInv
<1> QED
  BY <1>1, BrowserBegins, PTL DEF BrowserSpec

(* Every variable stays in its type: no effect tries more often than       *)
(* createCheckoutSession may, and no page asks more often than it polls.   *)
THEOREM BrowserTypeCorrect == BrowserSpec => []BrowserTypeOK
<1>1. BrowserInv => BrowserTypeOK
  BY DEF BrowserInv, RequestsInv, TabTypeOK, BrowserTypeOK
<1> QED
  BY <1>1, BrowserInvariance, PTL

(* Going back and forth, reloading and trying again under one stored key   *)
(* never offers two purchases that are both alive.                         *)
THEOREM OneOfferAtATime == BrowserSpec => []OneOffer
<1>1. BrowserInv => OneOffer
  BY DEF BrowserInv, TabTypeOK, OfferedUnderKey, RequestsInv, KeysAreHeld, OneOffer
<1> QED
  BY <1>1, BrowserInvariance, PTL

(* The service keeps its promises to a tab that repeats its requests: of   *)
(* the orders of one key at most one is alive, ...                         *)
THEOREM OneLiveOrderForTab == BrowserSpec => []OneLiveOrderPerKey
<1>1. BrowserInv => OneLiveOrderPerKey
  BY DEF BrowserInv, RequestsInv, KeysAreHeld, OneLiveOrderPerKey, SameKey
<1> QED
  BY <1>1, BrowserInvariance, PTL

(* ... a session it has been shown is on record with its order, ...        *)
THEOREM ShownToTabIsRecorded == BrowserSpec => []ShownIsRecorded
<1>1. BrowserInv => ShownIsRecorded
  BY DEF BrowserInv, RequestsInv, AnswersAreRecorded, ShownIsRecorded, Shown, SameKey, Requests
<1> QED
  BY <1>1, BrowserInvariance, PTL

(* ... and until something fails all requests of one key open one session. *)
THEOREM ExactlyOnceForTab == BrowserSpec => []FaultFreeIsExactlyOnce
<1>1. BrowserInv => FaultFreeIsExactlyOnce
  BY DEF BrowserInv, RequestsInv, Faultless, KeysAreHeld, FaultFreeIsExactlyOnce, SameKey,
     Alive, Requests
<1> QED
  BY <1>1, BrowserInvariance, PTL

(* Without failures a page gives up only on its last CHECKOUT_IN_PROGRESS. *)
THEOREM PagesDoWork == BrowserSpec => []PagesWork
<1>1. BrowserInv => PagesWork
  BY DEF BrowserInv, FailedHaveTried, PagesWork
<1> QED
  BY <1>1, BrowserInvariance, PTL

(* The token a tab keeps opens the order its customer has paid, if no      *)
(* effect overlapped another.                                              *)
THEOREM LonePageReads == BrowserSpec => []LonePageConfirms
<1>1. BrowserInv => LonePageConfirms
  BY DEF BrowserInv, LonePage, LonePageConfirms
<1> QED
  BY <1>1, BrowserInvariance, PTL

(* Without failures the page after the payment says "paid" of what is      *)
(* paid, and never that the order expired or was canceled.                 *)
THEOREM ConfirmationsAreTrue == BrowserSpec => []ConfirmationIsTrue
<1>1. BrowserInv => ConfirmationIsTrue
  BY DEF BrowserInv, BoughtIsPaid, ConfirmationIsTrue
<1> QED
  BY <1>1, BrowserInvariance, PTL

(* The promise of the keys holds under a tab that tries again, goes back   *)
(* and reloads: purchases begin one at a time for a key, and what was      *)
(* given up stays so.                                                      *)
THEOREM TabImplementsKeys == BrowserSpec => ImplementsPurchaseKeys
<1>1. BrowserInit => Purchases!KeysInit
  BY DEF BrowserInit, CheckoutInit, Purchases!KeysInit, Alive
<1>2. BrowserInv /\ [BrowserNext]_browserVars => [Purchases!KeysNext]_<<open, givenUp>>
  <2> SUFFICES ASSUME BrowserInv, StoreStep
               PROVE  [Purchases!KeysNext]_<<open, givenUp>>
    BY StoreSteps
  <2>1. CASE [CheckoutNext]_checkoutAll
    BY <2>1, PurchaseStep DEF BrowserInv
  <2>2. CASE FailureOnly \/ PaymentOnly
    BY <2>2, SameStatusIsStutter DEF FailureOnly, PaymentOnly
  <2>3. ASSUME NEW p \in Orders, OutcomeArrives(p)
        PROVE  [Purchases!KeysNext]_<<open, givenUp>>
    <3>1. \A o \in Orders : /\ Alive(o)' <=> Alive(o)
                            /\ orders'[o].status = "canceled" <=> orders[o].status = "canceled"
      BY <2>3, OutcomeMoves DEF BrowserInv, RequestsInv, Alive
    <3>2. open' = open /\ givenUp' = givenUp
      BY <3>1 DEF open, givenUp
    <3> QED
      BY <3>2
  <2> QED
    BY <2>1, <2>2, <2>3 DEF StoreStep
<1> QED
  BY <1>1, <1>2, BrowserInvariance, PTL
     DEF BrowserSpec, ImplementsPurchaseKeys, Purchases!KeysSpec, open, givenUp
=============================================================================
