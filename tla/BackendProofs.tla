--------------------------- MODULE BackendProofs ---------------------------
(***************************************************************************)
(* Theorems about Backend, for every set of requests, orders and handlers, *)
(* every assignment of keys and bodies, all deadlines and any failures:    *)
(* what the webhook and the checkout keep although each of them writes to  *)
(* the orders the other is working on.                                     *)
(***************************************************************************)
EXTENDS Backend, WebhookProofs, CheckoutProofs, LineItemsProofs

USE TimeoutAssumption, FaultsAssumption, EventAssumption, KindsAssumption,
    AttemptsAssumption, ExpiryAssumption

(* A session is opened for an order that is in the table, and what Stripe  *)
(* tells is about a session.                                               *)
SessionsHaveOrders ==
  /\ \A o \in Orders : payment[o] # "none" => orders[o].status # "absent"
  /\ \A e \in emitted : payment[e.order] # "none"

(* Only the refund's own event makes an order refunded.                    *)
RefundsAreProcessed ==
  \A e \in Event :
    e.kind = "refunded" /\ orders[e.order].status = "refunded" =>
      RowStatus(e) = "processed"

(* A completion is right for its event whatever has become of the order;   *)
(* a refund with nothing left to do is one that has been processed.        *)
StillFits(e, target) ==
  IF target = NoChange
  THEN /\ e.kind \notin SessionKinds
       /\ e.kind = "refunded" => RowStatus(e) = "processed"
  ELSE Fits(e, target)

(* Handlers hold such completions.                                         *)
CompletionsStillFit ==
  \A h \in Handlers : pc[h] \in {"complete", "ensure"} => StillFits(job[h], completion[h])

(* The effect a handler has found in an order is undone by nothing but a   *)
(* cancellation.                                                           *)
MarksStillFit ==
  \A h \in Handlers :
    /\ pc[h] = "ensure" => completion[h] # NoChange
    /\ pc[h] = "mark" =>
         orders[job[h].order].status \in Reflects[job[h].kind] \cup {"canceled"}

BackendInv ==
  /\ BackendTypeOK
  /\ RequestsInv
  /\ RowsInv
  /\ EventsAreTrue
  /\ SessionsHaveOrders
  /\ RefundsAreProcessed
  /\ CompletionsStillFit
  /\ MarksStillFit
  /\ LiveOrdersFollowStripe

-----------------------------------------------------------------------------
(* Of the two services, only a completed event touches an order that is    *)
(* there, and none but a live one.                                         *)
Completes(e, target) ==
  /\ e \in emitted
  /\ StillFits(e, target)
  /\ target # NoChange
  /\ Applies(e.order, target)
  /\ orders' = [orders EXCEPT ![e.order] = Updated(@, target)]
  /\ SetRow(e, "processed")

(* A busy handler works on an event.                                       *)
LEMMA BackendJobs == BackendInv => \A h \in Handlers : Busy(h) => job[h] \in Event
  BY JobsAreEvents DEF BackendInv

(* The webhook writes to orders only where it completes an event.          *)
LEMMA WebhookWrites ==
  BackendInv /\ WebhookStep =>
    \/ UNCHANGED orders
    \/ \E e \in Event, target \in Targets : Completes(e, target)
<1> SUFFICES ASSUME BackendInv, WebhookStep
             PROVE  \/ UNCHANGED orders
                    \/ \E e \in Event, target \in Targets : Completes(e, target)
  OBVIOUS
<1>1. CASE \E h \in Handlers : CompleteEvent(h)
  <2>1. PICK h \in Handlers : CompleteEvent(h)
    BY <1>1
  <2>2. /\ job[h] \in Event /\ job[h] \in emitted
        /\ StillFits(job[h], completion[h])
        /\ completion[h] \in Targets \cup {NoChange}
    BY <2>1, BackendJobs DEF CompleteEvent, Busy, BackendInv, CompletionsStillFit, RowsInv,
       WorkIsEmitted, BackendTypeOK, HandlersTypeOK
  <2>3. CASE CompleteWebhookProcessing(job[h], completion[h]) /\ ~UNCHANGED orders
    <3>1. completion[h] # NoChange /\ Applies(job[h].order, completion[h])
      BY <2>3 DEF CompleteWebhookProcessing
    <3>2. Completes(job[h], completion[h])
      BY <2>2, <2>3, <3>1 DEF Completes, CompleteWebhookProcessing
    <3> QED
      BY <2>2, <3>1, <3>2
  <2> QED
    BY <2>1, <2>3 DEF CompleteEvent, tables
<1>2. CASE ~\E h \in Handlers : CompleteEvent(h)
  BY <1>2 DEF WebhookStep, HandlerStep, Deliver, CrashHandler,
     ContextDone, Tick, GetEvent, InsertEvent, GetAfterInsertRace, IgnoreEvent,
     ClaimEvent, GetUnclaimed, BuildEvent, FailEvent,
     EnsureEffect, MarkEvent, Respond, tables
<1> QED
  BY <1>1, <1>2

(* What that does to the rows of the table.                                *)
LEMMA CompletedRows ==
  ASSUME CheckoutTypeOK, NEW e \in Event, NEW target \in Targets, Completes(e, target)
  PROVE  /\ orders' \in [Orders -> CheckoutRow]
         /\ e.order \in Orders
         /\ orders[e.order].status \in {"pending", "processing", "paid"}
         /\ orders'[e.order].status = target
         /\ orders'[e.order].session = orders[e.order].session
         /\ \A o \in Orders \ {e.order} : orders'[o] = orders[o]
<1>1. e.order \in Orders /\ orders[e.order] \in CheckoutRow
  BY DEF Event, CheckoutTypeOK
<1>2. target \in OrderStatuses
  BY DEF Targets, OrderStatuses
<1>3. /\ Updated(orders[e.order], target) \in CheckoutRow
      /\ Updated(orders[e.order], target).status = target
      /\ Updated(orders[e.order], target).session = orders[e.order].session
  BY <1>1, <1>2 DEF Updated, RecordsIntent, CheckoutRow
<1>4. orders' = [orders EXCEPT ![e.order] = Updated(orders[e.order], target)]
  BY DEF Completes
<1>5. orders[e.order].status \in {"pending", "processing", "paid"}
  BY DEF Completes, Applies, AllowedFrom, Targets
<1> QED
  BY <1>1, <1>3, <1>4, <1>5 DEF CheckoutTypeOK

(* The webhook keeps every order's session, and its life or death.         *)
LEMMA WebhookKeepsOrders ==
  BackendInv /\ WebhookStep =>
    /\ orders' \in [Orders -> CheckoutRow]
    /\ \A o \in Orders :
         /\ orders'[o].session = orders[o].session
         /\ \/ orders'[o].status = orders[o].status
            \/ /\ orders[o].status \in {"pending", "processing", "paid"}
               /\ orders'[o].status \in Targets
<1> SUFFICES ASSUME BackendInv, WebhookStep
             PROVE  /\ orders' \in [Orders -> CheckoutRow]
                    /\ \A o \in Orders :
                         /\ orders'[o].session = orders[o].session
                         /\ \/ orders'[o].status = orders[o].status
                            \/ /\ orders[o].status \in {"pending", "processing", "paid"}
                               /\ orders'[o].status \in Targets
  OBVIOUS
<1>1. CheckoutTypeOK
  BY DEF BackendInv, BackendTypeOK
<1>2. CASE UNCHANGED orders
  BY <1>1, <1>2 DEF CheckoutTypeOK
<1>3. ASSUME NEW e \in Event, NEW target \in Targets, Completes(e, target)
      PROVE  /\ orders' \in [Orders -> CheckoutRow]
             /\ \A o \in Orders :
                  /\ orders'[o].session = orders[o].session
                  /\ \/ orders'[o].status = orders[o].status
                     \/ /\ orders[o].status \in {"pending", "processing", "paid"}
                        /\ orders'[o].status \in Targets
  BY <1>1, <1>3, CompletedRows
<1> QED
  BY <1>2, <1>3, WebhookWrites

-----------------------------------------------------------------------------
(* What Stripe can do by itself, here as in the two components.            *)
LEMMA BackendStripeMoves ==
  ASSUME BackendInv, CustomerPays \/ SessionTimesOut \/ PaymentMovesOn
  PROVE  /\ StripeStep
         /\ StripeTypeOK'
         /\ \A o \in Orders : payment'[o] # "none" <=> payment[o] # "none"
         /\ UNCHANGED <<orders, faults, checkoutVars>>
<1>1. StripeStep /\ UNCHANGED <<orders, faults, checkoutVars>>
  BY DEF CustomerPays, SessionTimesOut, PaymentMovesOn, StripeStep, Shown
<1>2. StripeTypeOK
  BY DEF BackendInv, BackendTypeOK, CheckoutTypeOK
<1>3. PICK o \in Orders :
        \/ PayByCard(o)   \/ PayLater(o)
        \/ SettleLater(o) \/ BounceLater(o)
        \/ ExpireSession(o)
        \/ RefundFully(o) \/ RefundPartly(o)
        \/ TellOther(o)
  BY <1>1 DEF StripeStep
<1>4. StripeTypeOK' /\ \A p \in Orders : payment'[p] # "none" <=> payment[p] # "none"
  BY <1>2, <1>3 DEF PayByCard, PayLater, SettleLater, BounceLater, ExpireSession,
     RefundFully, RefundPartly, TellOther, Moves, Tells, StripeTypeOK, Payments, Event
<1> QED
  BY <1>1, <1>4

-----------------------------------------------------------------------------
(* The requests' invariant survives the webhook as well.                   *)
LEMMA RequestsStep == BackendInv /\ [BackendNext]_backendVars => RequestsInv'
<1> SUFFICES ASSUME BackendInv, [BackendNext]_backendVars PROVE RequestsInv'
  OBVIOUS
<1>a. RequestsInv /\ CheckoutTypeOK /\ Requests = Orders
  BY DEF BackendInv, BackendTypeOK, Requests
<1>1. CASE [CheckoutNext]_checkoutAll
  BY <1>1, <1>a, CheckoutTypeStep, InsertedOnceStep, KeysAreHeldStep,
     AnswersAreRecordedStep DEF RequestsInv
<1>2. CASE WebhookStep /\ UNCHANGED checkoutVars
  <2>1. /\ orders' \in [Orders -> CheckoutRow]
        /\ \A o \in Orders :
             /\ orders'[o].session = orders[o].session
             /\ orders'[o].status = "absent" <=> orders[o].status = "absent"
             /\ Alive(o)' <=> Alive(o)
    BY <1>2, WebhookKeepsOrders DEF Alive, Targets
  <2>2. UNCHANGED <<payment, emitted, rpc, context, second, attempt, found, reply,
                    orderKey, token>>
    BY <1>2, WebhookKeepsStripe DEF stripeVars, checkoutVars, requestVars
  <2>3. CheckoutTypeOK'
    BY <1>2, <1>a, <2>1, <2>2, HandlersTypedStep
       DEF BackendInv, CheckoutTypeOK, StripeTypeOK, HandlersTypeOK
  <2>4. InsertedOnce'
    BY <1>a, <2>1, <2>2 DEF RequestsInv, InsertedOnce
  <2>5. KeysAreHeld'
    BY <1>a, <2>1, <2>2 DEF RequestsInv, KeysAreHeld
  <2>6. AnswersAreRecorded'
    BY <1>a, <2>1, <2>2 DEF RequestsInv, AnswersAreRecorded, SameBody, SameKey
  <2> QED
    BY <2>3, <2>4, <2>5, <2>6 DEF RequestsInv
<1>3. CASE PaymentMovesOn
  <2>1. /\ StripeTypeOK'
        /\ \A o \in Orders : payment'[o] # "none" <=> payment[o] # "none"
        /\ UNCHANGED <<orders, faults, rpc, context, second, attempt, found, reply,
                       orderKey, token>>
    BY <1>3, BackendStripeMoves DEF checkoutVars, requestVars
  <2>2. CheckoutTypeOK'
    BY <1>a, <2>1 DEF CheckoutTypeOK
  <2>3. InsertedOnce' /\ KeysAreHeld'
    BY <1>a, <2>1 DEF RequestsInv, InsertedOnce, KeysAreHeld, Alive
  <2>4. AnswersAreRecorded'
    BY <1>a, <2>1 DEF RequestsInv, AnswersAreRecorded, SameBody, SameKey
  <2> QED
    BY <2>2, <2>3, <2>4 DEF RequestsInv
<1> QED
  BY <1>1, <1>2, <1>3 DEF BackendNext, CheckoutNext, backendVars, vars, checkoutAll

(* The types of both services' variables.                                  *)
LEMMA BackendTypeStep == BackendInv /\ [BackendNext]_backendVars => BackendTypeOK'
<1> SUFFICES ASSUME BackendInv, [BackendNext]_backendVars PROVE BackendTypeOK'
  OBVIOUS
<1>1. CheckoutTypeOK'
  BY RequestsStep DEF RequestsInv
<1>2. CASE WebhookStep
  BY <1>1, <1>2, HandlersTypedStep DEF BackendInv, BackendTypeOK
<1>3. CASE UNCHANGED webhookVars
  <2>1. UNCHANGED <<webhookEvents, pc, job, elapsed, completion, outcome, acked>>
    BY <1>3 DEF webhookVars, handlerVars
  <2> QED
    BY <1>1, <2>1 DEF BackendInv, BackendTypeOK, HandlersTypeOK, CheckoutTypeOK
<1> QED
  BY <1>2, <1>3 DEF BackendNext, backendVars, vars

(* What can happen at Stripe in one step of the whole.                     *)
LEMMA StripeInBackend ==
  BackendInv /\ [BackendNext]_backendVars =>
    \/ UNCHANGED stripeVars
    \/ \E o \in Orders : CreateSession(o) /\ orders[o].status # "absent"
    \/ StripeStep
<1> SUFFICES ASSUME BackendInv, [BackendNext]_backendVars
             PROVE  \/ UNCHANGED stripeVars
                    \/ \E o \in Orders : CreateSession(o) /\ orders[o].status # "absent"
                    \/ StripeStep
  OBVIOUS
<1>1. CASE WebhookStep \/ UNCHANGED backendVars
  BY <1>1, WebhookKeepsStripe DEF backendVars, vars
<1>2. CASE CheckoutStep
  BY <1>2, CheckoutAtStripe DEF BackendInv, StripeStep
<1>3. CASE CustomerPays \/ SessionTimesOut \/ PaymentMovesOn
  BY <1>3, BackendStripeMoves
<1> QED
  BY <1>1, <1>2, <1>3 DEF BackendNext

(* Rows stay in the table, and what is canceled stays canceled.            *)
RowsStay ==
  \A o \in Orders :
    /\ orders[o].status # "absent" => orders'[o].status # "absent"
    /\ orders[o].status = "canceled" => orders'[o].status = "canceled"

(* By checkout because it implements PurchaseKeys, by the webhook because  *)
(* it finds no canceled order to move.                                     *)
LEMMA RowsStayStep == BackendInv /\ [BackendNext]_backendVars => RowsStay
<1> SUFFICES ASSUME BackendInv, [BackendNext]_backendVars PROVE RowsStay
  OBVIOUS
<1>1. CASE [CheckoutNext]_checkoutAll
  <2>1. [Purchases!KeysNext]_<<open, givenUp>>
    BY <1>1, PurchaseStep DEF BackendInv
  <2>2. open \cup givenUp \subseteq (open \cup givenUp)' /\ givenUp \subseteq givenUp'
    BY <2>1 DEF Purchases!KeysNext, Purchases!Begin, Purchases!GiveUp, open, givenUp
  <2> QED
    BY <2>2 DEF RowsStay, open, givenUp, Alive
<1>2. CASE WebhookStep
  BY <1>2, WebhookKeepsOrders DEF RowsStay, Targets
<1>3. CASE PaymentMovesOn
  BY <1>3, BackendStripeMoves DEF RowsStay
<1> QED
  BY <1>1, <1>2, <1>3 DEF BackendNext, CheckoutNext, backendVars, vars, checkoutAll

(* What Stripe has told stays true while checkout opens and closes         *)
(* sessions.                                                               *)
LEMMA BackendTruthStep == BackendInv /\ [BackendNext]_backendVars => EventsAreTrue'
<1> SUFFICES ASSUME BackendInv, [BackendNext]_backendVars PROVE EventsAreTrue'
  OBVIOUS
<1>a. EventsAreTrue /\ SessionsHaveOrders /\ StripeTypeOK
  BY DEF BackendInv, BackendTypeOK, CheckoutTypeOK
<1>1. CASE UNCHANGED stripeVars
  BY <1>1, <1>a DEF stripeVars, EventsAreTrue
<1>2. ASSUME NEW o \in Orders, CreateSession(o) PROVE EventsAreTrue'
  BY <1>2, <1>a DEF CreateSession, EventsAreTrue, SessionsHaveOrders, StripeTypeOK
<1>3. CASE StripeStep
  BY <1>3, <1>a, EventsStayTrue
<1> QED
  BY <1>1, <1>2, <1>3, StripeInBackend

(* Sessions come after orders, and events after sessions.                  *)
LEMMA SessionsStep == BackendInv /\ [BackendNext]_backendVars => SessionsHaveOrders'
<1> SUFFICES ASSUME BackendInv, [BackendNext]_backendVars PROVE SessionsHaveOrders'
  OBVIOUS
<1>a. SessionsHaveOrders /\ StripeTypeOK /\ RowsStay
  BY RowsStayStep DEF BackendInv, BackendTypeOK, CheckoutTypeOK
<1> USE DEF SessionsHaveOrders, RowsStay
<1>1. CASE UNCHANGED stripeVars
  BY <1>1, <1>a DEF stripeVars
<1>2. ASSUME NEW o \in Orders, CreateSession(o), orders[o].status # "absent"
      PROVE  SessionsHaveOrders'
  BY <1>2, <1>a DEF CreateSession, StripeTypeOK
<1>3. CASE StripeStep
  <2>1. /\ \A o \in Orders : payment'[o] # "none" <=> payment[o] # "none"
        /\ \A e \in emitted' : e \in emitted \/ payment'[e.order] # "none"
        /\ emitted \subseteq Event
    BY <1>3, <1>a, OtherAssumption DEF StripeStep, PayByCard, PayLater, SettleLater,
       BounceLater, ExpireSession, RefundFully, RefundPartly, TellOther, Moves, Tells,
       StripeTypeOK, Payments
  <2> QED
    BY <1>a, <2>1 DEF Event
<1> QED
  BY <1>1, <1>2, <1>3, StripeInBackend

-----------------------------------------------------------------------------
(* Stripe takes back nothing that it has told.                             *)
LEMMA EventsStay == BackendInv /\ [BackendNext]_backendVars => emitted \subseteq emitted'
BY TellsMore, StripeInBackend DEF stripeVars, CreateSession

(* For the rows of webhook_events the checkout is a step beside them.      *)
LEMMA BackendRows ==
  BackendInv /\ [BackendNext]_backendVars => WebhookStep \/ RowsStand
BY EventsStay DEF BackendNext, RowsStand, backendVars, vars

(* So they keep their invariant.                                           *)
LEMMA BackendRowsStep == BackendInv /\ [BackendNext]_backendVars => RowsInv'
BY BackendRows, BackendTypeStep, RowsStep
   DEF BackendInv, BackendTypeOK, CheckoutTypeOK, StripeTypeOK

(* In particular, no call of Handle takes the mark of a processed event    *)
(* back.                                                                   *)
LEMMA BackendProcessedStep == BackendInv /\ [BackendNext]_backendVars => ProcessedStays
BY BackendRows, ProcessedStep DEF BackendInv

(* Every step of the whole writes to orders as a completion does, or keeps *)
(* statuses, inserts and cancels.                                          *)
LEMMA BackendWrites ==
  BackendInv /\ [BackendNext]_backendVars =>
    \/ /\ UNCHANGED stripeVars
       /\ \E e \in Event, target \in Targets : Completes(e, target)
    \/ \A o \in Orders :
         /\ orders[o].session => orders'[o].session
         /\ \/ orders'[o].status = orders[o].status
            \/ orders[o].status = "absent" /\ orders'[o].status = "pending"
            \/ orders'[o].status = "canceled"
<1> SUFFICES ASSUME BackendInv, [BackendNext]_backendVars
             PROVE  \/ /\ UNCHANGED stripeVars
                       /\ \E e \in Event, target \in Targets : Completes(e, target)
                    \/ \A o \in Orders :
                         /\ orders[o].session => orders'[o].session
                         /\ \/ orders'[o].status = orders[o].status
                            \/ orders[o].status = "absent" /\ orders'[o].status = "pending"
                            \/ orders'[o].status = "canceled"
  OBVIOUS
<1>1. CASE [CheckoutNext]_checkoutAll
  BY <1>1, CheckoutKeepsOrders DEF BackendInv
<1>2. CASE WebhookStep
  BY <1>2, WebhookWrites, WebhookKeepsStripe
<1>3. CASE PaymentMovesOn
  BY <1>3, BackendStripeMoves
<1> QED
  BY <1>1, <1>2, <1>3 DEF BackendNext, CheckoutNext, backendVars, vars, checkoutAll

(* What a completion that moves an order says of its event.                *)
LEMMA StillFitsMeans ==
  ASSUME NEW e \in Event, NEW target \in Targets, StillFits(e, target), target # NoChange
  PROVE  /\ e.kind \in SessionKinds \cup {"refunded"}
         /\ target = IF e.kind = "refunded" THEN "refunded" ELSE TargetOf[e.kind]
         /\ target \in {"processing", "paid", "refunded"} => e.order \notin Mispriced
BY FitsMeans DEF StillFits

(* An order becomes refunded in the step that processes its refund.        *)
LEMMA RefundsStep == BackendInv /\ [BackendNext]_backendVars => RefundsAreProcessed'
<1> SUFFICES ASSUME BackendInv, [BackendNext]_backendVars,
                    NEW e \in Event, e.kind = "refunded",
                    orders'[e.order].status = "refunded"
             PROVE  RowStatus(e)' = "processed"
  BY DEF RefundsAreProcessed
<1>a. CheckoutTypeOK /\ webhookEvents \in [Event -> EventRow] /\ e.order \in Orders
  BY DEF BackendInv, BackendTypeOK, HandlersTypeOK, Event
<1>1. CASE orders[e.order].status = "refunded"
  BY <1>1, BackendProcessedStep DEF BackendInv, RefundsAreProcessed, ProcessedStays
<1>2. CASE orders[e.order].status # "refunded"
  <2>1. PICK d \in Event, target \in Targets : Completes(d, target)
    BY <1>2, <1>a, BackendWrites
  <2>2. d.order = e.order /\ target = "refunded"
    BY <1>2, <1>a, <2>1, CompletedRows
  <2>3. d.kind = "refunded"
    BY <2>1, <2>2, StillFitsMeans DEF Completes, TargetOf, SessionKinds
  <2>4. d = e
    BY <2>2, <2>3 DEF Event
  <2> QED
    BY <1>a, <2>1, <2>4 DEF Completes, SetRow, RowStatus
<1> QED
  BY <1>1, <1>2

(* What fits goes on fitting, whatever becomes of the order.               *)
LEMMA FitsOn ==
  ASSUME NEW e \in Event, NEW target \in Targets \cup {NoChange},
         StillFits(e, target), ProcessedStays
  PROVE  StillFits(e, target)'
BY DEF StillFits, Fits, ProcessedStays

(* A completion that is built fits.                                        *)
LEMMA BuiltFits ==
  ASSUME BackendInv, NEW e \in Event, NEW target \in BuildCompletion(e)
  PROVE  StillFits(e, target)
<1>1. CASE e.kind \in SessionKinds
  <2>1. target \in SessionCompletions(e)
    BY <1>1 DEF BuildCompletion, SessionKinds
  <2>2. target = TargetOf[e.kind] /\ (e.kind \in ChecksAmount => e.order \notin Mispriced)
    BY <2>1 DEF SessionCompletions
  <2>3. target # NoChange
    BY <1>1, <2>2 DEF TargetOf, SessionKinds, NoChange
  <2> QED
    BY <1>1, <2>2, <2>3 DEF StillFits, Fits
<1>2. CASE e.kind = "refunded"
  <2>1. target \in RefundCompletions(e)
    BY <1>2 DEF BuildCompletion, SessionKinds
  <2>2. CASE target = NoChange
    <3>1. orders[e.order].status = "refunded"
      BY <2>1, <2>2 DEF RefundCompletions, NoChange
    <3> QED
      BY <1>2, <2>2, <3>1 DEF BackendInv, RefundsAreProcessed, StillFits, SessionKinds
  <2>3. CASE target # NoChange
    <3>1. target = "refunded" /\ e.order \notin Mispriced
      BY <2>1, <2>3 DEF RefundCompletions
    <3> QED
      BY <1>2, <2>3, <3>1 DEF StillFits, Fits
  <2> QED
    BY <2>2, <2>3
<1>3. CASE e.kind \notin SessionKinds /\ e.kind # "refunded"
  <2>1. target = NoChange
    BY <1>3 DEF BuildCompletion
  <2> QED
    BY <1>3, <2>1 DEF StillFits
<1> QED
  BY <1>1, <1>2, <1>3

(* A completion fits when it is built, and goes on to.                     *)
LEMMA StillFitStep == BackendInv /\ [BackendNext]_backendVars => CompletionsStillFit'
<1> SUFFICES ASSUME BackendInv, [BackendNext]_backendVars,
                    NEW h \in Handlers, pc'[h] \in {"complete", "ensure"}
             PROVE  StillFits(job[h], completion[h])'
  BY DEF CompletionsStillFit
<1>types. /\ pc \in [Handlers -> Steps]
          /\ job \in [Handlers -> Event \cup {NoEvent}]
          /\ completion \in [Handlers -> Targets \cup {NoChange}]
  BY DEF BackendInv, BackendTypeOK, HandlersTypeOK
<1>stay. ProcessedStays
  BY BackendProcessedStep
<1>1. CASE /\ pc[h] \in {"complete", "ensure"}
           /\ job'[h] = job[h] /\ completion'[h] = completion[h]
  <2>1. /\ StillFits(job[h], completion[h])
        /\ job[h] \in Event /\ completion[h] \in Targets \cup {NoChange}
    BY <1>1, <1>types, BackendJobs DEF BackendInv, CompletionsStillFit, Busy
  <2> QED
    BY <1>1, <1>stay, <2>1, FitsOn DEF StillFits, Fits, ProcessedStays
<1>2. CASE UNCHANGED webhookVars
  BY <1>1, <1>2 DEF webhookVars, handlerVars
<1>3. CASE Tick
  BY <1>1, <1>3 DEF Tick
<1>4. ASSUME NEW g \in Handlers, g # h,
             \/ \E e \in Event : Deliver(g, e)
             \/ HandlerStep(g) \/ CrashHandler(g) \/ ContextDone(g)
      PROVE  StillFits(job[h], completion[h])'
  <2>1. pc'[h] = pc[h] /\ job'[h] = job[h] /\ completion'[h] = completion[h]
    BY <1>4, <1>types DEF Deliver, CrashHandler, ContextDone, HandlerStep, GetEvent,
       InsertEvent, GetAfterInsertRace, IgnoreEvent, ClaimEvent, GetUnclaimed, BuildEvent,
       FailEvent, CompleteEvent, EnsureEffect, MarkEvent, Respond, Goto, Answer, Release
  <2> QED
    BY <1>1, <2>1
<1>5. CASE BuildEvent(h)
  <2>1. /\ Busy(h) /\ job'[h] = job[h]
        /\ completion'[h] \in BuildCompletion(job[h])
    BY <1>5, <1>types DEF BuildEvent, Goto, Busy
  <2>2. /\ StillFits(job[h], completion'[h])
        /\ job[h] \in Event /\ completion'[h] \in Targets \cup {NoChange}
    BY <2>1, BackendJobs, BuiltFits, CompletionsTyped
  <2> QED
    BY <1>stay, <2>1, <2>2 DEF StillFits, Fits, ProcessedStays
<1>6. CASE ContextDone(h)
  BY <1>1, <1>6 DEF ContextDone
<1>7. CASE /\ \/ \E e \in Event : Deliver(h, e)
              \/ HandlerStep(h) /\ ~BuildEvent(h)
              \/ CrashHandler(h)
  BY <1>1, <1>7, <1>types DEF Deliver, CrashHandler, HandlerStep, GetEvent, InsertEvent,
     GetAfterInsertRace, IgnoreEvent, ClaimEvent, GetUnclaimed, FailEvent,
     CompleteEvent, EnsureEffect, MarkEvent, Respond, Goto, Answer, Release, AfterRecording
<1> QED
  BY <1>2, <1>3, <1>4, <1>5, <1>6, <1>7
     DEF BackendNext, WebhookStep, backendVars, vars

-----------------------------------------------------------------------------
(* A handler gets to the step before the mark by the transaction's update  *)
(* or its read, and keeps its event on the way.                            *)
LEMMA TransactionGoesOn ==
  ASSUME BackendInv, [BackendNext]_backendVars, NEW h \in Handlers
  PROVE  /\ pc'[h] = "ensure" =>
              \/ /\ pc[h] = "ensure" /\ completion'[h] = completion[h]
              \/ /\ ~Touches(job[h], completion[h])
                 /\ completion'[h] = completion[h]
         /\ pc'[h] = "mark" =>
              \/ pc[h] = "mark" /\ job'[h] = job[h] /\ elapsed[h] <= elapsed'[h]
              \/ EnsureEffect(h) /\ job'[h] = job[h]
<1>types. /\ pc \in [Handlers -> Steps]
          /\ job \in [Handlers -> Event \cup {NoEvent}]
          /\ elapsed \in [Handlers -> 0 .. RequestTimeout]
          /\ completion \in [Handlers -> Targets \cup {NoChange}]
  BY DEF BackendInv, BackendTypeOK, HandlersTypeOK
<1>e. elapsed[h] \in Nat
  BY <1>types
<1> USE <1>types DEF Goto, Answer, Release
<1>1. CASE UNCHANGED webhookVars
  BY <1>1, <1>e DEF webhookVars, handlerVars
<1>2. CASE Tick
  <2>1. elapsed'[h] \in {elapsed[h], elapsed[h] + 1} /\ UNCHANGED <<pc, job, completion>>
    BY <1>2 DEF Tick, Older
  <2> QED
    BY <1>e, <2>1
<1>3. ASSUME NEW g \in Handlers, g # h,
             \/ \E e \in Event : Deliver(g, e)
             \/ HandlerStep(g) \/ CrashHandler(g) \/ ContextDone(g)
      PROVE  UNCHANGED <<pc[h], job[h], elapsed[h], completion[h]>>
  BY <1>3 DEF Deliver, CrashHandler, ContextDone, HandlerStep, GetEvent,
     InsertEvent, GetAfterInsertRace, IgnoreEvent, ClaimEvent, GetUnclaimed, BuildEvent,
     FailEvent, CompleteEvent, EnsureEffect, MarkEvent, Respond
<1>4. CASE ContextDone(h)
  BY <1>4, <1>e DEF ContextDone, Live
<1>5. CASE EnsureEffect(h)
  BY <1>5 DEF EnsureEffect
<1>6. CASE CompleteEvent(h)
  BY <1>6 DEF CompleteEvent
<1>7. CASE /\ \/ \E e \in Event : Deliver(h, e)
              \/ HandlerStep(h) /\ ~CompleteEvent(h) /\ ~EnsureEffect(h)
              \/ CrashHandler(h)
  BY <1>7 DEF Deliver, CrashHandler, HandlerStep, GetEvent, InsertEvent,
     GetAfterInsertRace, IgnoreEvent, ClaimEvent, GetUnclaimed, BuildEvent, FailEvent,
     MarkEvent, Respond, AfterRecording
<1> QED
  BY <1>e, <1>1, <1>2, <1>3, <1>4, <1>5, <1>6, <1>7
     DEF BackendNext, WebhookStep, backendVars, vars

(* What a handler reads as the effect of its event in a live order is it.  *)
LEMMA SeenEffect ==
  ASSUME BackendInv, NEW h \in Handlers, EnsureEffect(h), pc'[h] = "mark"
  PROVE  /\ job[h] \in Event
         /\ orders[job[h].order].status \in Reflects[job[h].kind]
<1>1. /\ pc[h] = "ensure" /\ Busy(h)
      /\ WebhookOrderEffectSatisfied(orders[job[h].order].status, completion[h])
  BY DEF EnsureEffect, Goto, Answer, Busy, BackendInv, BackendTypeOK, HandlersTypeOK
<1>2. job[h] \in Event /\ job[h] \in emitted
  BY <1>1, BackendJobs DEF BackendInv, RowsInv, WorkIsEmitted
<1>3. PICK e \in Event : e = job[h]
  BY <1>2
<1>4. PICK t \in Targets : t = completion[h]
  BY <1>1 DEF BackendInv, MarksStillFit, BackendTypeOK, HandlersTypeOK
<1>5. t # NoChange
  BY DEF Targets, NoChange
<1>6. /\ e.kind \in SessionKinds \cup {"refunded"}
      /\ t = IF e.kind = "refunded" THEN "refunded" ELSE TargetOf[e.kind]
  BY <1>1, <1>3, <1>4, <1>5, StillFitsMeans DEF BackendInv, CompletionsStillFit
<1>7. orders[e.order].status \in SatisfiedBy[t]
  BY <1>1, <1>3, <1>4 DEF WebhookOrderEffectSatisfied
<1>8. Alive(e.order)
  BY <1>7 DEF SatisfiedBy, Alive, Targets
<1>9. /\ payment[e.order] \in After[e.kind]
      /\ payment[e.order] \in Justifies[orders[e.order].status]
  BY <1>2, <1>3, <1>8 DEF BackendInv, EventsAreTrue, LiveOrdersFollowStripe, Event
<1>10. orders[e.order].status \in Reflects[e.kind]
  BY <1>6, <1>7, <1>9 DEF Reflects, TargetOf, SessionKinds, SatisfiedBy, Justifies, After
<1> QED
  BY <1>2, <1>3, <1>10

(* Neither completions nor the checkout take an effect from an order but   *)
(* by canceling it.                                                        *)
LEMMA EffectsStayOrCancel ==
  ASSUME BackendInv, [BackendNext]_backendVars, NEW d \in Event,
         orders[d.order].status \in Reflects[d.kind] \cup {"canceled"}
  PROVE  orders'[d.order].status \in Reflects[d.kind] \cup {"canceled"}
<1>types. /\ d.order \in Orders /\ d.kind \in AllKinds
          /\ CheckoutTypeOK
  BY DEF BackendInv, BackendTypeOK, Event
<1>1. ASSUME NEW e \in Event, NEW target \in Targets, Completes(e, target)
      PROVE  orders'[d.order].status \in Reflects[d.kind] \cup {"canceled"}
  <2>1. CASE e.order # d.order
    BY <1>1, <2>1, <1>types, CompletedRows
  <2>2. CASE e.order = d.order
    <3>1. orders'[d.order].status = target /\ orders[d.order].status \in AllowedFrom[target]
      BY <1>1, <1>types, <2>2, CompletedRows DEF Completes, Applies
    <3> QED
      BY <3>1, <1>types DEF Reflects, AllowedFrom, Targets, OrderStatuses, AllKinds,
         HandledKinds, SessionKinds, ChargeKinds
  <2> QED
    BY <2>1, <2>2
<1>2. orders[d.order].status # "absent"
  BY <1>types DEF Reflects, OrderStatuses, AllKinds, HandledKinds, SessionKinds, ChargeKinds
<1> QED
  BY <1>1, <1>2, <1>types, BackendWrites

(* What a handler has found it still finds, or the order is canceled.      *)
LEMMA MarksFitStep == BackendInv /\ [BackendNext]_backendVars => MarksStillFit'
<1> SUFFICES ASSUME BackendInv, [BackendNext]_backendVars, NEW h \in Handlers
             PROVE  /\ pc'[h] = "ensure" => completion'[h] # NoChange
                    /\ pc'[h] = "mark" =>
                         orders'[job'[h].order].status \in
                           Reflects[job'[h].kind] \cup {"canceled"}
  BY DEF MarksStillFit
<1>1. ASSUME pc'[h] = "ensure" PROVE completion'[h] # NoChange
  BY <1>1, TransactionGoesOn DEF BackendInv, MarksStillFit, Touches
<1>2. ASSUME pc'[h] = "mark", pc[h] = "mark", job'[h] = job[h]
      PROVE  orders'[job'[h].order].status \in Reflects[job'[h].kind] \cup {"canceled"}
  <2>1. job[h] \in Event
    BY <1>2, BackendJobs DEF Busy
  <2>2. orders[job[h].order].status \in Reflects[job[h].kind] \cup {"canceled"}
    BY <1>2 DEF BackendInv, MarksStillFit
  <2> QED
    BY <1>2, <2>1, <2>2, EffectsStayOrCancel
<1>3. ASSUME pc'[h] = "mark", EnsureEffect(h), job'[h] = job[h]
      PROVE  orders'[job'[h].order].status \in Reflects[job'[h].kind] \cup {"canceled"}
  <2>1. job[h] \in Event /\ orders[job[h].order].status \in Reflects[job[h].kind]
    BY <1>3, SeenEffect
  <2> QED
    BY <1>3, <2>1 DEF EnsureEffect, tables
<1> QED
  BY <1>1, <1>2, <1>3, TransactionGoesOn

-----------------------------------------------------------------------------
(* What a completion does is right although checkout moved on meanwhile.   *)
LEMMA CompletionFollows ==
  ASSUME BackendInv, NEW e \in Event, NEW target \in Targets, Completes(e, target)
  PROVE  /\ payment[e.order] \in Justifies[target]
         /\ target \in {"processing", "paid", "refunded"} => e.order \notin Mispriced
<1>1. payment[e.order] \in After[e.kind]
  BY DEF Completes, BackendInv, EventsAreTrue
<1>2. /\ e.kind \in SessionKinds \cup {"refunded"}
      /\ target = IF e.kind = "refunded" THEN "refunded" ELSE TargetOf[e.kind]
      /\ target \in {"processing", "paid", "refunded"} => e.order \notin Mispriced
  BY StillFitsMeans DEF Completes
<1> QED
  BY <1>1, <1>2 DEF After, Justifies, TargetOf, SessionKinds

(* Where Stripe's payment goes, a live order's status allows.              *)
LEMMA PaymentsFollow ==
  ASSUME BackendInv, [BackendNext]_backendVars, NEW o \in Orders, Alive(o)
  PROVE  payment'[o] \in Justifies[orders[o].status]
<1>a. /\ payment[o] \in Justifies[orders[o].status]
      /\ payment \in [Orders -> Payments]
      /\ orders[o].status \in OrderStatuses \ {"canceled"}
  BY DEF BackendInv, LiveOrdersFollowStripe, BackendTypeOK, CheckoutTypeOK, StripeTypeOK,
     CheckoutRow, Alive
<1> USE DEF Justifies, Payments, OrderStatuses
<1>1. CASE UNCHANGED stripeVars
  BY <1>1, <1>a DEF stripeVars
<1>2. ASSUME NEW p \in Orders, CreateSession(p)
      PROVE  payment'[o] \in Justifies[orders[o].status]
  BY <1>2, <1>a DEF CreateSession
<1>3. CASE StripeStep
  BY <1>3, <1>a DEF StripeStep, PayByCard, PayLater, SettleLater, BounceLater,
     ExpireSession, RefundFully, RefundPartly, TellOther, Moves, Tells
<1> QED
  BY <1>1, <1>2, <1>3, StripeInBackend

(* Nobody pays what is not on record.                                      *)
Taken == {"paid", "unpaid", "refunded"}

(* A session that is paid was recorded with its order before.              *)
LEMMA PaymentsAreRecorded ==
  ASSUME BackendInv, [BackendNext]_backendVars, NEW o \in Orders, payment'[o] \in Taken
  PROVE  orders[o].session
<1>a. /\ payment[o] \in Taken => orders[o].session
      /\ payment \in [Orders -> Payments]
  BY DEF BackendInv, LiveOrdersFollowStripe, BackendTypeOK, CheckoutTypeOK, StripeTypeOK, Taken
<1> USE DEF Taken
<1>1. CASE CustomerPays
  <2>1. PICK p \in Shown : PayByCard(p) \/ PayLater(p)
    BY <1>1 DEF CustomerPays
  <2>2. orders[p].session
    BY DEF Shown, Requests, BackendInv, RequestsInv, AnswersAreRecorded
  <2>3. o = p \/ payment'[o] = payment[o]
    BY <2>1, <1>a DEF PayByCard, PayLater, Moves, Shown
  <2> QED
    BY <1>a, <2>2, <2>3
<1>2. CASE SessionTimesOut
  BY <1>2, <1>a DEF SessionTimesOut, ExpireSession, Moves
<1>3. CASE PaymentMovesOn
  BY <1>3, <1>a DEF PaymentMovesOn, SettleLater, BounceLater, RefundFully, RefundPartly,
     TellOther, Moves, Tells
<1>4. CASE CheckoutStep
  BY <1>4, <1>a, CheckoutAtStripe
     DEF BackendInv, stripeVars, CreateSession, ExpireSession, Moves
<1>5. CASE WebhookStep \/ UNCHANGED backendVars
  BY <1>5, <1>a, WebhookKeepsStripe DEF backendVars, vars, stripeVars
<1> QED
  BY <1>1, <1>2, <1>3, <1>4, <1>5 DEF BackendNext

(* The orders and Stripe move together: one step of either keeps the       *)
(* other's place allowed.                                                  *)
LEMMA BackendFollowStep == BackendInv /\ [BackendNext]_backendVars => LiveOrdersFollowStripe'
<1> SUFFICES ASSUME BackendInv, [BackendNext]_backendVars, NEW o \in Orders
             PROVE  /\ Alive(o)' => payment'[o] \in Justifies[orders'[o].status]
                    /\ payment'[o] \in Taken => orders'[o].session
                    /\ orders'[o].status \in {"processing", "paid", "refunded"} =>
                         o \notin Mispriced
  BY DEF LiveOrdersFollowStripe, Taken
<1>a. /\ CheckoutTypeOK /\ StripeTypeOK'
      /\ orders[o].status \in {"processing", "paid", "refunded"} => o \notin Mispriced
  BY BackendTypeStep DEF BackendInv, BackendTypeOK, CheckoutTypeOK, LiveOrdersFollowStripe
<1>1. payment'[o] \in Taken => orders[o].session
  BY PaymentsAreRecorded
<1>2. Alive(o) => payment'[o] \in Justifies[orders[o].status]
  BY PaymentsFollow
<1>3. ASSUME NEW e \in Event, NEW target \in Targets, Completes(e, target),
             UNCHANGED stripeVars
      PROVE  /\ Alive(o)' => payment'[o] \in Justifies[orders'[o].status]
             /\ payment'[o] \in Taken => orders'[o].session
             /\ orders'[o].status \in {"processing", "paid", "refunded"} => o \notin Mispriced
  <2>1. CASE o = e.order
    <3>1. orders'[o].status = target /\ orders'[o].session = orders[o].session
      BY <1>3, <1>a, <2>1, CompletedRows
    <3> QED
      BY <1>1, <1>3, <2>1, <3>1, CompletionFollows DEF stripeVars
  <2>2. CASE o # e.order
    <3>1. orders'[o] = orders[o]
      BY <1>3, <1>a, <2>2, CompletedRows
    <3> QED
      BY <1>1, <1>2, <1>a, <3>1 DEF Alive
  <2> QED
    BY <2>1, <2>2
<1>4. CASE /\ orders[o].session => orders'[o].session
           /\ \/ orders'[o].status = orders[o].status
              \/ orders'[o].status \in {"pending", "canceled"}
  <2>1. payment'[o] \in Justifies["pending"]
    BY <1>a DEF StripeTypeOK, Justifies
  <2> QED
    BY <1>1, <1>2, <1>4, <1>a, <2>1 DEF Alive
<1> QED
  BY <1>3, <1>4, BackendWrites

-----------------------------------------------------------------------------
(* Nothing has been requested and no handler runs.                         *)
LEMMA BackendStart == BackendInit => BackendInv
<1> SUFFICES ASSUME BackendInit PROVE BackendInv
  OBVIOUS
<1>1. CheckoutInit /\ HandlersInit
  BY DEF BackendInit
<1>2. CheckoutInv
  BY <1>1, CheckoutBegins
<1>3. BackendTypeOK
  BY <1>1, <1>2 DEF CheckoutInv, RequestsInv, BackendTypeOK, CheckoutTypeOK, HandlersTypeOK,
     HandlersInit, EventRow, WebhookStatuses, Steps, Outcomes
<1>4. EventsAreTrue /\ SessionsHaveOrders /\ LiveOrdersFollowStripe
  BY <1>1 DEF CheckoutInit, EventsAreTrue, SessionsHaveOrders, LiveOrdersFollowStripe, Alive
<1>5. RefundsAreProcessed /\ CompletionsStillFit /\ MarksStillFit
  BY <1>1 DEF CheckoutInit, HandlersInit, RefundsAreProcessed, CompletionsStillFit,
     MarksStillFit, Event
<1>6. RowsInv
  <2>1. HandlersTypeOK /\ emitted \subseteq Event
    BY <1>3 DEF BackendTypeOK, CheckoutTypeOK, StripeTypeOK
  <2> QED
    BY <1>1, <2>1 DEF HandlersInit, RowsInv, WorkIsEmitted, KindsAreSeparate, AcksAreEarned,
       ClaimIsHeld, AckedIsProcessed, Busy, Owning, RowStatus
<1> QED
  BY <1>2, <1>3, <1>4, <1>5, <1>6 DEF BackendInv, CheckoutInv

(* The invariant behind the theorems below is inductive, though either     *)
(* service writes what the other has read.                                 *)
THEOREM BackendInvariance == BackendSpec => []BackendInv
<1>1. BackendInv /\ [BackendNext]_backendVars => BackendInv'
  BY BackendTypeStep, RequestsStep, BackendTruthStep, SessionsStep, RefundsStep,
     StillFitStep, MarksFitStep, BackendFollowStep, BackendRowsStep DEF BackendInv
<1> QED
  BY <1>1, BackendStart, PTL DEF BackendSpec

(* Every variable of both services stays in its type.                      *)
THEOREM BackendTypeCorrect == BackendSpec => []BackendTypeOK
BY BackendInvariance, PTL DEF BackendInv

(* A live order is where Stripe's account of its payment allows, money is  *)
(* taken only for sessions on record, and only in the order's own amount.  *)
THEOREM BackendFollowsStripe == BackendSpec => []LiveOrdersFollowStripe
BY BackendInvariance, PTL DEF BackendInv

(* No order moves towards paid by an amount other than that of its lines,  *)
(* although the stored total may have wrapped: the comparison of the       *)
(* webhook notices every loss, whatever the width and the limits are.      *)
THEOREM PaidAmountsAreExact == BackendSpec => []PaidAmountIsExact
<1>1. AmountFits[FALSE] \subseteq {TRUE}
  <2> SUFFICES ASSUME NEW items \in BasketsOf(FALSE)
               PROVE  AmountTotal(items) < Half
    BY DEF AmountFits
  <2>1. items \in Baskets /\ Storable(items) /\ AmountMatches(items)
    BY DEF BasketsOf
  <2> QED
    BY <2>1, AmountCheckIsExact
<1>2. LiveOrdersFollowStripe => PaidAmountIsExact
  <2> SUFFICES ASSUME LiveOrdersFollowStripe, NEW o \in Orders,
                      orders[o].status \in {"processing", "paid", "refunded"}
               PROVE  AmountFits[(o \in Mispriced)] \subseteq {TRUE}
    BY DEF PaidAmountIsExact
  <2>1. (o \in Mispriced) = FALSE
    BY DEF LiveOrdersFollowStripe
  <2> QED
    BY <1>1, <2>1
<1> QED
  BY <1>2, BackendFollowsStripe, PTL

(* Webhooks in between or not: a key has one live order.                   *)
THEOREM OneLiveOrderInBackend == BackendSpec => []OneLiveOrderPerKey
<1>1. BackendInv => OneLiveOrderPerKey
  BY DEF BackendInv, RequestsInv, KeysAreHeld, OneLiveOrderPerKey, SameKey
<1> QED
  BY <1>1, BackendInvariance, PTL

(* A session a customer was shown stays on record, with its order, under   *)
(* everything the webhooks do to that order.                               *)
THEOREM ShownInBackend == BackendSpec => []ShownIsRecorded
<1>1. BackendInv => ShownIsRecorded
  BY DEF BackendInv, RequestsInv, AnswersAreRecorded, ShownIsRecorded, Shown, SameKey, Requests
<1> QED
  BY <1>1, BackendInvariance, PTL

(* Stripe is told 200 for a handled event only when it is processed, also  *)
(* when the checkout cancels the order the event is about.                 *)
THEOREM NoFalseAckInBackend == BackendSpec => []AckedIsProcessed
BY BackendInvariance, PTL DEF BackendInv, RowsInv

(* A claim is exclusive for as long as its request lives.                  *)
THEOREM ExclusiveClaimInBackend == BackendSpec => []ClaimIsExclusive
<1>1. BackendInv => ClaimIsExclusive
  BY HeldIsExclusive DEF BackendInv
<1> QED
  BY <1>1, BackendInvariance, PTL

(* A processed event stays processed whatever the checkout does.           *)
THEOREM ProcessedForeverInBackend == BackendSpec => ProcessedIsFinal
<1>1. BackendInv /\ [BackendNext]_backendVars =>
        [\A e \in Event : RowStatus(e) = "processed" => RowStatus(e)' = "processed"]_vars
  BY BackendProcessedStep DEF ProcessedStays
<1> QED
  BY <1>1, BackendInvariance, PTL DEF BackendSpec, ProcessedIsFinal

(* No payment, settlement or refund revives an order that was given up.    *)
THEOREM CanceledForever == BackendSpec => CanceledIsFinal
<1>1. BackendInv /\ [BackendNext]_backendVars =>
        [\A o \in Orders :
           orders[o].status = "canceled" => orders'[o].status = "canceled"]_backendVars
  BY RowsStayStep DEF RowsStay
<1> QED
  BY <1>1, BackendInvariance, PTL DEF BackendSpec, CanceledIsFinal

-----------------------------------------------------------------------------
(* An event becomes processed by the transaction of a handler.             *)
LEMMA ProcessedByCompletion ==
  ASSUME BackendInv, [BackendNext]_backendVars, NEW e \in Event,
         RowStatus(e) # "processed", RowStatus(e)' = "processed"
  PROVE  \E h \in Handlers :
           (CompleteEvent(h) \/ MarkEvent(h)) /\ job[h] = e /\ job[h] \in emitted
<1>rows. webhookEvents \in [Event -> EventRow]
  BY DEF BackendInv, BackendTypeOK, HandlersTypeOK
<1> USE <1>rows DEF RowStatus
<1>1. CASE UNCHANGED webhookEvents
  BY <1>1
<1>2. CASE Tick
  BY <1>2 DEF Tick
<1>3. ASSUME NEW h \in Handlers, HandlerStep(h), ~UNCHANGED webhookEvents
      PROVE  (CompleteEvent(h) \/ MarkEvent(h)) /\ job[h] = e /\ job[h] \in emitted
  <2>job. job[h] \in Event /\ job[h] \in emitted
    BY <1>3, StepIsBusy, BackendJobs DEF BackendInv, RowsInv, WorkIsEmitted
  <2>1. CASE InsertEvent(h)
    BY <1>3, <2>job, <2>1 DEF InsertEvent, InsertWebhookEvent, SetRow
  <2>2. CASE IgnoreEvent(h)
    BY <1>3, <2>job, <2>2 DEF IgnoreEvent, MarkWebhookIgnored, SetRow
  <2>3. CASE ClaimEvent(h)
    BY <1>3, <2>job, <2>3 DEF ClaimEvent, ClaimWebhookEvent, SetRow
  <2>4. CASE FailEvent(h)
    BY <1>3, <2>job, <2>4 DEF FailEvent, FailWebhookEvent, SetRow
  <2>5. CASE CompleteEvent(h)
    BY <1>3, <2>job, <2>5 DEF CompleteEvent, CompleteWebhookProcessing, SetRow, tables
  <2>6. CASE MarkEvent(h)
    BY <1>3, <2>job, <2>6 DEF MarkEvent, SetRow
  <2> QED
    BY <1>3, <2>1, <2>2, <2>3, <2>4, <2>5, <2>6 DEF HandlerStep, tables, GetEvent,
       GetAfterInsertRace, GetUnclaimed, BuildEvent, EnsureEffect, Respond
<1> QED
  BY <1>1, <1>2, <1>3 DEF BackendNext, WebhookStep, backendVars, vars, webhookVars,
     tables, Deliver, CrashHandler, ContextDone

(* The transaction that goes through at once has its effect.               *)
LEMMA EffectIsTaken ==
  ASSUME BackendInv, NEW e \in Event, NEW h \in Handlers,
         CompleteEvent(h), job[h] = e, e \in emitted,
         RowStatus(e) # "processed", RowStatus(e)' = "processed"
  PROVE  /\ orders'[e.order].status \in Reflects[e.kind]
         /\ e.kind \in SessionKinds \cup {"refunded"} =>
              orders[e.order].status # "canceled"
<1>t. PICK t \in Targets \cup {NoChange} : t = completion[h]
  BY DEF BackendInv, BackendTypeOK, HandlersTypeOK
<1>1. /\ CanComplete(e, t) /\ CompleteWebhookProcessing(e, t)
      /\ StillFits(e, t)
  BY <1>t DEF CompleteEvent, tables, RowStatus, BackendInv, CompletionsStillFit
<1>2. /\ e.order \in Orders /\ e.kind \in AllKinds
      /\ payment[e.order] # "none" /\ CheckoutTypeOK
  BY DEF BackendInv, SessionsHaveOrders, BackendTypeOK, Event
<1>3. orders[e.order].status \in OrderStatuses
  BY <1>2 DEF BackendInv, SessionsHaveOrders, CheckoutTypeOK, CheckoutRow
<1>4. CASE t = NoChange
  <2>1. UNCHANGED orders /\ e.kind \in {"partially_refunded", "unhandled"}
    BY <1>1, <1>2, <1>4 DEF CompleteWebhookProcessing, StillFits, AllKinds, HandledKinds,
       ChargeKinds
  <2> QED
    BY <1>3, <2>1 DEF Reflects, SessionKinds
<1>5. CASE t # NoChange
  <2>1. Completes(e, t)
    BY <1>1, <1>5 DEF Completes, CompleteWebhookProcessing, CanComplete, Touches
  <2>2. /\ orders'[e.order].status = t
        /\ orders[e.order].status \in {"pending", "processing", "paid"}
    BY <1>2, <1>5, <2>1, CompletedRows
  <2> QED
    BY <1>1, <1>5, <2>2, StillFitsMeans DEF Reflects, TargetOf, SessionKinds
<1> QED
  BY <1>4, <1>5

(* The one that finds nothing left to do has seen its effect before.       *)
LEMMA MarkIsLive == \A h \in Handlers :
  MarkEvent(h) /\ ~UNCHANGED webhookEvents => pc[h] = "mark" /\ Live(h)
BY DEF MarkEvent, Succeeds, LosesReply

(* An event is recorded as processed only with its effect on the order,    *)
(* though a compensation or the cleanup may come in between; if they come  *)
(* after the effect was seen, the order is canceled as if they had come    *)
(* after the commit.                                                       *)
THEOREM EffectsAreTaken == BackendSpec => ProcessingTakesEffect
<1>1. ASSUME BackendInv, [BackendNext]_backendVars, NEW e \in Event,
             RowStatus(e) # "processed", RowStatus(e)' = "processed"
      PROVE  \/ orders'[e.order].status \in Reflects[e.kind]
             \/ orders'[e.order].status = "canceled" /\ EffectSeen(e)
  <2>1. PICK h \in Handlers :
          (CompleteEvent(h) \/ MarkEvent(h)) /\ job[h] = e /\ job[h] \in emitted
    BY <1>1, ProcessedByCompletion
  <2>2. CASE CompleteEvent(h)
    BY <1>1, <2>1, <2>2, EffectIsTaken
  <2>3. CASE MarkEvent(h)
    <3>1. pc[h] = "mark" /\ Live(h)
      BY <1>1, <2>3, MarkIsLive DEF RowStatus
    <3>2. orders[e.order].status \in Reflects[e.kind] \cup {"canceled"}
      BY <1>1, <2>1, <3>1 DEF BackendInv, MarksStillFit
    <3>3. EffectSeen(e)
      BY <2>1, <3>1 DEF EffectSeen
    <3>4. UNCHANGED orders
      BY <2>3 DEF MarkEvent
    <3> QED
      BY <3>2, <3>3, <3>4
  <2> QED
    BY <2>1, <2>2, <2>3
<1>2. BackendInv /\ [BackendNext]_backendVars =>
        [\A e \in Event :
           RowStatus(e) # "processed" /\ RowStatus(e)' = "processed" =>
             \/ orders'[e.order].status \in Reflects[e.kind]
             \/ orders'[e.order].status = "canceled" /\ EffectSeen(e)]_backendVars
  BY <1>1
<1> QED
  BY <1>2, BackendInvariance, PTL DEF BackendSpec, ProcessingTakesEffect

(* No request comes to see the effect of an event in a canceled order.     *)
LEMMA NothingSeenLater ==
  ASSUME BackendInv, [BackendNext]_backendVars, NEW e \in Event, TooLate(e),
         NEW h \in Handlers, pc'[h] = "mark", job'[h] = e, Live(h)'
  PROVE  FALSE
<1>1. CASE pc[h] = "mark" /\ job'[h] = job[h] /\ elapsed[h] <= elapsed'[h]
  <2>1. elapsed[h] \in Nat /\ elapsed'[h] \in Nat
    BY BackendTypeStep DEF BackendInv, BackendTypeOK, HandlersTypeOK
  <2>2. Live(h)
    BY <1>1, <2>1 DEF Live
  <2> QED
    BY <1>1, <2>2 DEF TooLate, EffectSeen
<1>2. CASE EnsureEffect(h) /\ job'[h] = job[h]
  <2>1. "canceled" \in Reflects[e.kind]
    BY <1>2, SeenEffect DEF TooLate
  <2> QED
    BY <2>1 DEF TooLate, Reflects, SessionKinds
<1> QED
  BY <1>1, <1>2, TransactionGoesOn

(* An event that comes too late for an order given up stays unprocessed:   *)
(* no completion fits a canceled order, and its effect is not found there. *)
THEOREM NothingTakenLate == BackendSpec => CanceledTakesNothing
<1>1. ASSUME BackendInv, [BackendNext]_backendVars, NEW e \in Event, TooLate(e)
      PROVE  TooLate(e)'
  <2>1. /\ e.kind \in SessionKinds \cup {"refunded"}
        /\ orders[e.order].status = "canceled" /\ RowStatus(e) # "processed"
        /\ ~EffectSeen(e)
    BY <1>1 DEF TooLate
  <2>2. orders'[e.order].status = "canceled"
    BY <1>1, <2>1, RowsStayStep DEF RowsStay, Event
  <2>3. ASSUME RowStatus(e)' = "processed" PROVE FALSE
    <3>1. PICK h \in Handlers :
            (CompleteEvent(h) \/ MarkEvent(h)) /\ job[h] = e /\ job[h] \in emitted
      BY <1>1, <2>1, <2>3, ProcessedByCompletion
    <3>2. CASE CompleteEvent(h)
      BY <1>1, <2>1, <2>3, <3>1, <3>2, EffectIsTaken
    <3>3. CASE MarkEvent(h)
      <4>1. pc[h] = "mark" /\ Live(h)
        BY <2>1, <2>3, <3>3, MarkIsLive DEF RowStatus
      <4> QED
        BY <2>1, <3>1, <4>1 DEF EffectSeen
    <3> QED
      BY <3>1, <3>2, <3>3
  <2>4. ASSUME NEW h \in Handlers, pc'[h] = "mark", job'[h] = e, Live(h)'
        PROVE  FALSE
    BY <1>1, <2>4, NothingSeenLater
  <2> QED
    BY <2>1, <2>2, <2>3, <2>4 DEF TooLate, EffectSeen
<1>2. BackendInv /\ [BackendNext]_backendVars =>
        [\A e \in Event : TooLate(e) => TooLate(e)']_backendVars
  BY <1>1
<1> QED
  BY <1>2, BackendInvariance, PTL DEF BackendSpec, CanceledTakesNothing

(* The promise of the keys holds beside the webhook: purchases begin one   *)
(* at a time, and what was given up stays so.                              *)
THEOREM BackendImplementsKeys == BackendSpec => ImplementsPurchaseKeys
<1>1. BackendInit => Purchases!KeysInit
  BY DEF BackendInit, CheckoutInit, Purchases!KeysInit, Alive
<1>2. BackendInv /\ [BackendNext]_backendVars => [Purchases!KeysNext]_<<open, givenUp>>
  <2> SUFFICES ASSUME BackendInv, [BackendNext]_backendVars
               PROVE  [Purchases!KeysNext]_<<open, givenUp>>
    OBVIOUS
  <2>1. CASE [CheckoutNext]_checkoutAll
    BY <2>1, PurchaseStep DEF BackendInv
  <2>2. CASE WebhookStep
    <3>1. \A o \in Orders : /\ Alive(o)' <=> Alive(o)
                            /\ orders'[o].status = "canceled" <=> orders[o].status = "canceled"
      BY <2>2, WebhookKeepsOrders DEF Alive, Targets
    <3>2. open' = open /\ givenUp' = givenUp
      BY <3>1 DEF open, givenUp
    <3> QED
      BY <3>2
  <2>3. CASE PaymentMovesOn
    BY <2>3, BackendStripeMoves, SameStatusIsStutter
  <2> QED
    BY <2>1, <2>2, <2>3 DEF BackendNext, CheckoutNext, backendVars, vars, checkoutAll
<1> QED
  BY <1>1, <1>2, BackendInvariance, PTL
     DEF BackendSpec, ImplementsPurchaseKeys, Purchases!KeysSpec, open, givenUp
=============================================================================
