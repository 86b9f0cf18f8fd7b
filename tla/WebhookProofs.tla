--------------------------- MODULE WebhookProofs ---------------------------
(***************************************************************************)
(* Theorems about Webhook, for every set of orders, kinds and handlers and *)
(* every choice of the time and fault bounds.                              *)
(***************************************************************************)
EXTENDS WebhookInv, TLAPS

USE TimeoutAssumption, FaultsAssumption, EventAssumption, KindsAssumption

(* What can be built is a completion.                                      *)
LEMMA CompletionsTyped ==
  ASSUME NEW e \in Event PROVE BuildCompletion(e) \subseteq Targets \cup {NoChange}
<1>1. CASE e.kind \in SessionKinds
  BY <1>1 DEF BuildCompletion, SessionCompletions, SessionKinds, TargetOf, Targets
<1>2. CASE e.kind = "refunded"
  BY <1>2 DEF BuildCompletion, RefundCompletions, SessionKinds, Targets
<1>3. CASE e.kind \notin SessionKinds /\ e.kind # "refunded"
  BY <1>3 DEF BuildCompletion
<1> QED
  BY <1>1, <1>2, <1>3

(* The order update of a completion leaves a table of orders.              *)
LEMMA OrdersTyped ==
  ASSUME orders \in [Orders -> OrderRow], NEW e \in Event,
         NEW target \in Targets \cup {NoChange},
         CompleteWebhookProcessing(e, target)
  PROVE  orders' \in [Orders -> OrderRow]
<1>1. e.order \in Orders
  BY DEF Event
<1>2. target # NoChange => target \in OrderStatuses
  BY DEF Targets, OrderStatuses
<1>3. orders[e.order] \in OrderRow
  BY <1>1
<1>4. target # NoChange => Updated(orders[e.order], target) \in OrderRow
  BY <1>2, <1>3 DEF Updated, RecordsIntent, OrderRow
<1>6. CASE target # NoChange /\ Applies(e.order, target)
  BY <1>1, <1>4, <1>6 DEF CompleteWebhookProcessing
<1>7. CASE ~(target # NoChange /\ Applies(e.order, target))
  BY <1>7 DEF CompleteWebhookProcessing
<1> QED
  BY <1>6, <1>7

(* A handler that takes a step has an event to work on.                    *)
LEMMA StepIsBusy == \A h \in Handlers : HandlerStep(h) => Busy(h)
  BY DEF HandlerStep, Busy, GetEvent, InsertEvent, GetAfterInsertRace,
     IgnoreEvent, ClaimEvent, GetUnclaimed, BuildEvent, FailEvent, CompleteEvent,
     EnsureEffect, MarkEvent, Respond

(* A busy handler works on an event, never on NoEvent.                     *)
LEMMA JobsAreEvents == RowsInv => \A h \in Handlers : Busy(h) => job[h] \in Event
  BY DEF RowsInv, WorkIsEmitted

(* The rows and handlers stand still while Stripe tells more.              *)
RowsStand == UNCHANGED webhookVars /\ emitted \subseteq emitted'

(* The service itself changes nothing at Stripe.                           *)
LEMMA WebhookKeepsStripe == WebhookStep => UNCHANGED stripeVars
  BY DEF WebhookStep, Deliver, HandlerStep, CrashHandler, ContextDone, Tick,
     GetEvent, InsertEvent, GetAfterInsertRace,
     IgnoreEvent, ClaimEvent, GetUnclaimed, BuildEvent, FailEvent, CompleteEvent,
     EnsureEffect, MarkEvent, Respond

(* The variables of the service keep their types.                          *)
LEMMA HandlersTypedStep == RowsInv /\ WebhookStep => HandlersTypeOK'
<1> SUFFICES ASSUME RowsInv, WebhookStep PROVE HandlersTypeOK'
  OBVIOUS
<1>job. \A h \in Handlers : Busy(h) => job[h] \in Event
  BY JobsAreEvents
<1>old. HandlersTypeOK
  BY DEF RowsInv
<1> USE DEF HandlersTypeOK
<1>1. CASE Tick
  BY <1>old, <1>1 DEF Tick, Older, EventRow
<1>2. ASSUME NEW h \in Handlers, NEW e \in Event, Deliver(h, e) PROVE HandlersTypeOK'
  BY <1>old, <1>2 DEF Deliver, Steps, tables
<1>3. ASSUME NEW h \in Handlers, CrashHandler(h) PROVE HandlersTypeOK'
  BY <1>old, <1>3 DEF CrashHandler, MayFault, Release, Steps, Outcomes, tables
<1>4. ASSUME NEW h \in Handlers, ContextDone(h) PROVE HandlersTypeOK'
  BY <1>old, <1>4 DEF ContextDone, MayFault, tables
<1>5. ASSUME NEW h \in Handlers, HandlerStep(h) PROVE HandlersTypeOK'
  <2> USE <1>old DEF Succeeds, Fails, LosesReply, MayFault, Goto, Answer, Steps, Outcomes
  <2>1. CASE GetEvent(h)
    BY <2>1 DEF GetEvent, AfterRecording, tables
  <2>2. CASE InsertEvent(h)
    <3>1. webhookEvents' \in [Event -> EventRow]
      BY <2>2 DEF InsertEvent, InsertWebhookEvent, SetRow, EventRow, WebhookStatuses
    <3> QED
      BY <2>2, <3>1 DEF InsertEvent, AfterRecording
  <2>3. CASE GetAfterInsertRace(h)
    BY <2>3 DEF GetAfterInsertRace, tables
  <2>4. CASE IgnoreEvent(h)
    BY <2>4 DEF IgnoreEvent, MarkWebhookIgnored, SetRow, EventRow, WebhookStatuses
  <2>5. CASE ClaimEvent(h)
    <3>1. webhookEvents' \in [Event -> EventRow]
      BY <2>5 DEF ClaimEvent, ClaimWebhookEvent, SetRow, EventRow, WebhookStatuses
    <3> QED
      BY <2>5, <3>1 DEF ClaimEvent
  <2>6. CASE GetUnclaimed(h)
    BY <2>6 DEF GetUnclaimed, tables
  <2>7. CASE BuildEvent(h)
    <3>1. job[h] \in Event
      BY <1>job, <2>7 DEF BuildEvent, Busy
    <3> QED
      BY <2>7, <3>1, CompletionsTyped DEF BuildEvent, tables
  <2>8. CASE FailEvent(h)
    BY <2>8 DEF FailEvent, FailWebhookEvent, SetRow, EventRow, WebhookStatuses
  <2>9. CASE CompleteEvent(h)
    <3>1. webhookEvents' \in [Event -> EventRow]
      BY <2>9 DEF CompleteEvent, CompleteWebhookProcessing, SetRow,
         EventRow, WebhookStatuses, tables
    <3> QED
      BY <2>9, <3>1 DEF CompleteEvent
  <2>10. CASE Respond(h)
    BY <1>job, <2>10 DEF Respond, Release, Busy, tables
  <2>11. CASE EnsureEffect(h)
    BY <2>11 DEF EnsureEffect, tables
  <2>12. CASE MarkEvent(h)
    BY <2>12 DEF MarkEvent, SetRow, EventRow, WebhookStatuses, tables
  <2> QED
    BY <1>5, <2>1, <2>2, <2>3, <2>4, <2>5, <2>6, <2>7, <2>8, <2>9, <2>10,
       <2>11, <2>12 DEF HandlerStep
<1> QED
  BY <1>1, <1>2, <1>3, <1>4, <1>5 DEF WebhookStep

(* Only emitted events are worked on and recorded.                         *)
LEMMA WorkStep == RowsInv /\ (WebhookStep \/ RowsStand) => WorkIsEmitted'
<1> SUFFICES ASSUME RowsInv, WebhookStep \/ RowsStand PROVE WorkIsEmitted'
  OBVIOUS
<1>types. /\ webhookEvents \in [Event -> EventRow]
          /\ pc \in [Handlers -> Steps]
          /\ job \in [Handlers -> Event \cup {NoEvent}]
          /\ emitted \subseteq Event
  BY DEF RowsInv, HandlersTypeOK
<1>old. WorkIsEmitted
  BY DEF RowsInv
<1> USE DEF WorkIsEmitted, Busy, RowStatus, stripeVars
<1>1. CASE RowsStand
  BY <1>1, <1>types, <1>old DEF RowsStand, webhookVars, handlerVars
<1>2. CASE Tick
  BY <1>2, <1>types, <1>old DEF Tick
<1>3. ASSUME NEW h \in Handlers, NEW e \in Event, Deliver(h, e) PROVE WorkIsEmitted'
  BY <1>3, <1>types, <1>old DEF Deliver, tables
<1>4. ASSUME NEW h \in Handlers, CrashHandler(h) PROVE WorkIsEmitted'
  BY <1>4, <1>types, <1>old DEF CrashHandler, Release, tables
<1>5. ASSUME NEW h \in Handlers, ContextDone(h) PROVE WorkIsEmitted'
  BY <1>5, <1>types, <1>old DEF ContextDone, tables
<1>6. ASSUME NEW h \in Handlers, HandlerStep(h) PROVE WorkIsEmitted'
  <2>job. Busy(h) /\ job[h] \in Event
    BY <1>6, StepIsBusy, JobsAreEvents
  <2> USE DEF Succeeds, Fails, LosesReply, MayFault, Goto, Answer
  <2>1. CASE GetEvent(h)
    BY <2>1, <2>job, <1>types, <1>old DEF GetEvent, AfterRecording, tables
  <2>2. CASE InsertEvent(h)
    BY <2>2, <2>job, <1>types, <1>old DEF InsertEvent, InsertWebhookEvent, SetRow,
       AfterRecording, tables
  <2>3. CASE GetAfterInsertRace(h)
    BY <2>3, <2>job, <1>types, <1>old DEF GetAfterInsertRace, tables
  <2>4. CASE IgnoreEvent(h)
    BY <2>4, <2>job, <1>types, <1>old DEF IgnoreEvent, MarkWebhookIgnored, SetRow, tables
  <2>5. CASE ClaimEvent(h)
    BY <2>5, <2>job, <1>types, <1>old DEF ClaimEvent, ClaimWebhookEvent, SetRow, tables
  <2>6. CASE GetUnclaimed(h)
    BY <2>6, <2>job, <1>types, <1>old DEF GetUnclaimed, tables
  <2>7. CASE BuildEvent(h)
    BY <2>7, <2>job, <1>types, <1>old DEF BuildEvent, tables
  <2>8. CASE FailEvent(h)
    BY <2>8, <2>job, <1>types, <1>old DEF FailEvent, FailWebhookEvent, SetRow, tables
  <2>9. CASE CompleteEvent(h)
    BY <2>9, <2>job, <1>types, <1>old DEF CompleteEvent, CompleteWebhookProcessing, SetRow,
       tables
  <2>10. CASE Respond(h)
    BY <2>10, <2>job, <1>types, <1>old DEF Respond, Release, tables
  <2>11. CASE EnsureEffect(h)
    BY <2>11, <2>job, <1>types, <1>old DEF EnsureEffect, tables
  <2>12. CASE MarkEvent(h)
    BY <2>12, <2>job, <1>types, <1>old DEF MarkEvent, SetRow, tables
  <2> QED
    BY <1>6, <2>1, <2>2, <2>3, <2>4, <2>5, <2>6, <2>7, <2>8, <2>9, <2>10,
       <2>11, <2>12 DEF HandlerStep
<1> QED
  BY <1>1, <1>2, <1>3, <1>4, <1>5, <1>6 DEF WebhookStep

(* Kinds stay apart in handlers and rows.                                  *)
LEMMA KindStep == RowsInv /\ (WebhookStep \/ RowsStand) => KindsAreSeparate'
<1> SUFFICES ASSUME RowsInv, WebhookStep \/ RowsStand PROVE KindsAreSeparate'
  OBVIOUS
<1>types. /\ webhookEvents \in [Event -> EventRow]
          /\ pc \in [Handlers -> Steps]
          /\ job \in [Handlers -> Event \cup {NoEvent}]
          /\ emitted \subseteq Event
  BY DEF RowsInv, HandlersTypeOK
<1>old. KindsAreSeparate
  BY DEF RowsInv
<1> USE DEF KindsAreSeparate, RowStatus
<1>1. CASE RowsStand
  BY <1>1, <1>types, <1>old DEF RowsStand, webhookVars, handlerVars
<1>2. CASE Tick
  BY <1>2, <1>types, <1>old DEF Tick
<1>3. ASSUME NEW h \in Handlers, NEW e \in Event, Deliver(h, e) PROVE KindsAreSeparate'
  BY <1>3, <1>types, <1>old DEF Deliver, tables
<1>4. ASSUME NEW h \in Handlers, CrashHandler(h) PROVE KindsAreSeparate'
  BY <1>4, <1>types, <1>old DEF CrashHandler, Release, tables
<1>5. ASSUME NEW h \in Handlers, ContextDone(h) PROVE KindsAreSeparate'
  BY <1>5, <1>types, <1>old DEF ContextDone, tables
<1>6. ASSUME NEW h \in Handlers, HandlerStep(h) PROVE KindsAreSeparate'
  <2>job. Busy(h) /\ job[h] \in Event
    BY <1>6, StepIsBusy, JobsAreEvents
  <2> USE DEF Succeeds, Fails, LosesReply, MayFault, Goto, Answer
  <2>1. CASE GetEvent(h)
    BY <2>1, <2>job, <1>types, <1>old DEF GetEvent, AfterRecording, tables
  <2>2. CASE InsertEvent(h)
    BY <2>2, <2>job, <1>types, <1>old DEF InsertEvent, InsertWebhookEvent, SetRow,
       AfterRecording, tables
  <2>3. CASE GetAfterInsertRace(h)
    BY <2>3, <2>job, <1>types, <1>old DEF GetAfterInsertRace, tables
  <2>4. CASE IgnoreEvent(h)
    BY <2>4, <2>job, <1>types, <1>old DEF IgnoreEvent, MarkWebhookIgnored, SetRow, tables
  <2>5. CASE ClaimEvent(h)
    BY <2>5, <2>job, <1>types, <1>old DEF ClaimEvent, ClaimWebhookEvent, SetRow, tables,
       Claimable, IsStale
  <2>6. CASE GetUnclaimed(h)
    BY <2>6, <2>job, <1>types, <1>old DEF GetUnclaimed, tables
  <2>7. CASE BuildEvent(h)
    BY <2>7, <2>job, <1>types, <1>old DEF BuildEvent, tables
  <2>8. CASE FailEvent(h)
    BY <2>8, <2>job, <1>types, <1>old DEF FailEvent, FailWebhookEvent, SetRow, tables
  <2>9. CASE CompleteEvent(h)
    BY <2>9, <2>job, <1>types, <1>old DEF CompleteEvent, CompleteWebhookProcessing, SetRow,
       tables
  <2>10. CASE Respond(h)
    BY <2>10, <2>job, <1>types, <1>old DEF Respond, Release, tables
  <2>11. CASE EnsureEffect(h)
    BY <2>11, <2>job, <1>types, <1>old DEF EnsureEffect, tables
  <2>12. CASE MarkEvent(h)
    BY <2>12, <2>job, <1>types, <1>old DEF MarkEvent, SetRow, tables
  <2> QED
    BY <1>6, <2>1, <2>2, <2>3, <2>4, <2>5, <2>6, <2>7, <2>8, <2>9, <2>10,
       <2>11, <2>12 DEF HandlerStep
<1> QED
  BY <1>1, <1>2, <1>3, <1>4, <1>5, <1>6 DEF WebhookStep

(* What an event tells stays true when Stripe moves on.                    *)
LEMMA EventsStayTrue ==
  ASSUME StripeTypeOK, EventsAreTrue, StripeStep
  PROVE  EventsAreTrue'
<1> SUFFICES ASSUME NEW d \in emitted' PROVE payment'[d.order] \in After[d.kind]
  BY DEF EventsAreTrue
<1>1. payment \in [Orders -> Payments]
  BY DEF StripeTypeOK
<1>2. d \in emitted => /\ d.order \in Orders
                       /\ d.kind \in AllKinds
                       /\ payment[d.order] \in After[d.kind]
  BY DEF StripeTypeOK, EventsAreTrue, Event
<1>3. PICK o \in Orders :
        \/ PayByCard(o)   \/ PayLater(o)
        \/ SettleLater(o) \/ BounceLater(o)
        \/ ExpireSession(o)
        \/ RefundFully(o) \/ RefundPartly(o)
        \/ TellOther(o)
  BY DEF StripeStep
<1> USE DEF Moves, Tells, After, Payments, AllKinds, HandledKinds, SessionKinds, ChargeKinds
<1>4. CASE PayByCard(o)
  BY <1>1, <1>2, <1>4 DEF PayByCard
<1>5. CASE PayLater(o)
  BY <1>1, <1>2, <1>5 DEF PayLater
<1>6. CASE SettleLater(o)
  BY <1>1, <1>2, <1>6 DEF SettleLater
<1>7. CASE BounceLater(o)
  BY <1>1, <1>2, <1>7 DEF BounceLater
<1>8. CASE ExpireSession(o)
  BY <1>1, <1>2, <1>8 DEF ExpireSession
<1>9. CASE RefundFully(o)
  BY <1>1, <1>2, <1>9 DEF RefundFully
<1>10. CASE RefundPartly(o)
  BY <1>1, <1>2, <1>10 DEF RefundPartly
<1>11. CASE TellOther(o)
  BY <1>1, <1>2, <1>11 DEF TellOther
<1> QED
  BY <1>3, <1>4, <1>5, <1>6, <1>7, <1>8, <1>9, <1>10, <1>11

(* Nor does the service make it untrue.                                    *)
LEMMA TruthStep == Inv /\ [Next]_vars => EventsAreTrue'
<1> SUFFICES ASSUME Inv, [Next]_vars PROVE EventsAreTrue'
  OBVIOUS
<1>1. CASE UNCHANGED stripeVars
  BY <1>1 DEF stripeVars, Inv, EventsAreTrue
<1>2. CASE StripeStep
  BY <1>2, EventsStayTrue DEF Inv, WebhookTypeOK
<1> QED
  BY <1>1, <1>2, WebhookKeepsStripe DEF Next, vars

ProcessedStays ==
  \A e \in Event : RowStatus(e) = "processed" => RowStatus(e)' = "processed"

(* Deliveries, claims, failure marks and ignore marks all miss a row that  *)
(* is processed: no database call of Handle takes the mark back.           *)
LEMMA ProcessedStep == RowsInv /\ (WebhookStep \/ RowsStand) => ProcessedStays
<1> SUFFICES ASSUME RowsInv, WebhookStep \/ RowsStand PROVE ProcessedStays
  OBVIOUS
<1>rows. webhookEvents \in [Event -> EventRow]
  BY DEF RowsInv, HandlersTypeOK
<1> USE DEF ProcessedStays, RowStatus
<1>1. CASE RowsStand
  BY <1>1, <1>rows DEF RowsStand, webhookVars, handlerVars
<1>2. CASE Tick
  BY <1>2, <1>rows DEF Tick
<1>3. ASSUME NEW h \in Handlers, NEW e \in Event, Deliver(h, e) PROVE ProcessedStays
  BY <1>3, <1>rows DEF Deliver, tables
<1>4. ASSUME NEW h \in Handlers, CrashHandler(h) PROVE ProcessedStays
  BY <1>4, <1>rows DEF CrashHandler, Release, tables
<1>5. ASSUME NEW h \in Handlers, ContextDone(h) PROVE ProcessedStays
  BY <1>5, <1>rows DEF ContextDone, tables
<1>6. ASSUME NEW h \in Handlers, HandlerStep(h) PROVE ProcessedStays
  <2>job. Busy(h) /\ job[h] \in Event
    BY <1>6, StepIsBusy, JobsAreEvents
  <2> USE DEF Succeeds, Fails, LosesReply, MayFault, Goto, Answer
  <2>1. CASE GetEvent(h)
    BY <2>1, <2>job, <1>rows DEF GetEvent, AfterRecording, tables
  <2>2. CASE InsertEvent(h)
    BY <2>2, <2>job, <1>rows DEF InsertEvent, InsertWebhookEvent, SetRow, AfterRecording,
       tables
  <2>3. CASE GetAfterInsertRace(h)
    BY <2>3, <2>job, <1>rows DEF GetAfterInsertRace, tables
  <2>4. CASE IgnoreEvent(h)
    BY <2>4, <2>job, <1>rows DEF IgnoreEvent, MarkWebhookIgnored, SetRow, tables, RowsInv,
       KindsAreSeparate
  <2>5. CASE ClaimEvent(h)
    BY <2>5, <2>job, <1>rows DEF ClaimEvent, ClaimWebhookEvent, SetRow, tables, Claimable,
       IsStale
  <2>6. CASE GetUnclaimed(h)
    BY <2>6, <2>job, <1>rows DEF GetUnclaimed, tables
  <2>7. CASE BuildEvent(h)
    BY <2>7, <2>job, <1>rows DEF BuildEvent, tables
  <2>8. CASE FailEvent(h)
    BY <2>8, <2>job, <1>rows DEF FailEvent, FailWebhookEvent, SetRow, tables
  <2>9. CASE CompleteEvent(h)
    BY <2>9, <2>job, <1>rows DEF CompleteEvent, CompleteWebhookProcessing, SetRow, tables
  <2>10. CASE Respond(h)
    BY <2>10, <2>job, <1>rows DEF Respond, Release, tables
  <2>11. CASE EnsureEffect(h)
    BY <2>11, <2>job, <1>rows DEF EnsureEffect, tables
  <2>12. CASE MarkEvent(h)
    BY <2>12, <2>job, <1>rows DEF MarkEvent, SetRow, tables
  <2> QED
    BY <1>6, <2>1, <2>2, <2>3, <2>4, <2>5, <2>6, <2>7, <2>8, <2>9, <2>10,
       <2>11, <2>12 DEF HandlerStep
<1> QED
  BY <1>1, <1>2, <1>3, <1>4, <1>5, <1>6 DEF WebhookStep

(* A handler about to answer 200 for a handled event has seen the event    *)
(* processed or has committed the completion itself.                       *)
LEMMA AckStep == RowsInv /\ (WebhookStep \/ RowsStand) => AcksAreEarned'
<1> SUFFICES ASSUME RowsInv, WebhookStep \/ RowsStand PROVE AcksAreEarned'
  OBVIOUS
<1>types. /\ webhookEvents \in [Event -> EventRow]
          /\ pc \in [Handlers -> Steps]
          /\ job \in [Handlers -> Event \cup {NoEvent}]
          /\ outcome \in [Handlers -> Outcomes]
  BY DEF RowsInv, HandlersTypeOK
<1>jobs. \A g \in Handlers : pc[g] = "respond" => job[g] \in Event
  BY JobsAreEvents DEF Busy
<1>stays. ProcessedStays
  BY ProcessedStep
<1>kinds. KindsAreSeparate
  BY DEF RowsInv
<1>old. AcksAreEarned
  BY DEF RowsInv
<1> USE DEF AcksAreEarned, ProcessedStays
<1>1. CASE RowsStand
  BY <1>1, <1>types, <1>jobs, <1>stays, <1>old DEF RowsStand, webhookVars, handlerVars
<1>2. CASE Tick
  BY <1>2, <1>types, <1>jobs, <1>stays, <1>old DEF Tick
<1>3. ASSUME NEW h \in Handlers, NEW e \in Event, Deliver(h, e) PROVE AcksAreEarned'
  BY <1>3, <1>types, <1>jobs, <1>stays, <1>old DEF Deliver, tables
<1>4. ASSUME NEW h \in Handlers, CrashHandler(h) PROVE AcksAreEarned'
  BY <1>4, <1>types, <1>jobs, <1>stays, <1>old DEF CrashHandler, Release, tables
<1>5. ASSUME NEW h \in Handlers, ContextDone(h) PROVE AcksAreEarned'
  BY <1>5, <1>types, <1>jobs, <1>stays, <1>old DEF ContextDone, tables
<1>6. ASSUME NEW h \in Handlers, HandlerStep(h) PROVE AcksAreEarned'
  <2>job. Busy(h) /\ job[h] \in Event
    BY <1>6, StepIsBusy, JobsAreEvents
  <2> USE DEF Succeeds, Fails, LosesReply, MayFault, Goto, Answer
  <2>1. CASE GetEvent(h)
    BY <2>1, <2>job, <1>types, <1>jobs, <1>stays, <1>old, <1>kinds DEF GetEvent,
       AfterRecording, KindsAreSeparate
  <2>2. CASE InsertEvent(h)
    BY <2>2, <2>job, <1>types, <1>jobs, <1>stays, <1>old DEF InsertEvent, InsertWebhookEvent,
       SetRow, AfterRecording, tables
  <2>3. CASE GetAfterInsertRace(h)
    BY <2>3, <2>job, <1>types, <1>jobs, <1>stays, <1>old, <1>kinds DEF GetAfterInsertRace,
       AfterRecording, KindsAreSeparate
  <2>4. CASE IgnoreEvent(h)
    BY <2>4, <2>job, <1>types, <1>jobs, <1>stays, <1>old, <1>kinds DEF IgnoreEvent,
       AfterRecording, KindsAreSeparate
  <2>5. CASE ClaimEvent(h)
    BY <2>5, <2>job, <1>types, <1>jobs, <1>stays, <1>old DEF ClaimEvent, ClaimWebhookEvent,
       SetRow, tables
  <2>6. CASE GetUnclaimed(h)
    BY <2>6, <2>job, <1>types, <1>jobs, <1>stays, <1>old DEF GetUnclaimed, tables
  <2>7. CASE BuildEvent(h)
    BY <2>7, <2>job, <1>types, <1>jobs, <1>stays, <1>old DEF BuildEvent, tables
  <2>8. CASE FailEvent(h)
    BY <2>8, <2>job, <1>types, <1>jobs, <1>stays, <1>old DEF FailEvent, FailWebhookEvent,
       SetRow, tables
  <2>9. CASE CompleteEvent(h)
    BY <2>9, <2>job, <1>types, <1>jobs, <1>stays, <1>old DEF CompleteEvent,
       CompleteWebhookProcessing, SetRow, tables, RowStatus
  <2>10. CASE Respond(h)
    BY <2>10, <2>job, <1>types, <1>jobs, <1>stays, <1>old DEF Respond, Release, tables
  <2>11. CASE EnsureEffect(h)
    BY <2>11, <2>job, <1>types, <1>jobs, <1>stays, <1>old DEF EnsureEffect, tables
  <2>12. CASE MarkEvent(h)
    BY <2>12, <2>job, <1>types, <1>jobs, <1>stays, <1>old DEF MarkEvent, SetRow, RowStatus
  <2> QED
    BY <1>6, <2>1, <2>2, <2>3, <2>4, <2>5, <2>6, <2>7, <2>8, <2>9, <2>10,
       <2>11, <2>12 DEF HandlerStep
<1> QED
  BY <1>1, <1>2, <1>3, <1>4, <1>5, <1>6 DEF WebhookStep

(* What Stripe was told 200 for stays processed.                           *)
LEMMA AckedStep == RowsInv /\ (WebhookStep \/ RowsStand) => AckedIsProcessed'
<1> SUFFICES ASSUME RowsInv, WebhookStep \/ RowsStand PROVE AckedIsProcessed'
  OBVIOUS
<1>stays. ProcessedStays
  BY ProcessedStep
<1>old. AckedIsProcessed /\ acked \subseteq Event
  BY DEF RowsInv, HandlersTypeOK
<1>1. CASE \E h \in Handlers : Respond(h)
  <2>1. PICK h \in Handlers : Respond(h)
    BY <1>1
  <2>2. job[h] \in Event
    BY <2>1, JobsAreEvents DEF Respond, Busy
  <2>3. outcome[h] = "acknowledged" /\ job[h].kind \in HandledKinds
          => RowStatus(job[h]) = "processed"
    BY <2>1 DEF Respond, RowsInv, AcksAreEarned
  <2> QED
    BY <2>1, <2>2, <2>3, <1>stays, <1>old DEF Respond, AckedIsProcessed, ProcessedStays
<1>2. CASE UNCHANGED acked
  BY <1>2, <1>stays, <1>old DEF AckedIsProcessed, ProcessedStays
<1> QED
  BY <1>1, <1>2 DEF RowsStand, WebhookStep, webhookVars, HandlerStep, Deliver,
     CrashHandler, ContextDone, Tick, GetEvent, InsertEvent, GetAfterInsertRace,
     IgnoreEvent, ClaimEvent, GetUnclaimed, BuildEvent, FailEvent, CompleteEvent,
     EnsureEffect, MarkEvent

(* A claim keeps the row processing and no older than its request, and no  *)
(* second live handler gets past the claim.                                *)
LEMMA ClaimStep == RowsInv /\ (WebhookStep \/ RowsStand) => ClaimIsHeld'
<1> SUFFICES ASSUME RowsInv, WebhookStep \/ RowsStand PROVE ClaimIsHeld'
  OBVIOUS
<1>types. /\ webhookEvents \in [Event -> EventRow]
          /\ pc \in [Handlers -> Steps]
          /\ job \in [Handlers -> Event \cup {NoEvent}]
          /\ elapsed \in [Handlers -> 0 .. RequestTimeout]
  BY DEF RowsInv, HandlersTypeOK
<1>jobs. \A g \in Handlers : Owning(g) => job[g] \in Event
  BY JobsAreEvents DEF Busy, Owning
<1>old. ClaimIsHeld
  BY DEF RowsInv
<1>kinds. KindsAreSeparate
  BY DEF RowsInv
<1> USE DEF ClaimIsHeld, Owning, Live, RowStatus, EventRow
<1>1. CASE RowsStand
  BY <1>1, <1>types, <1>jobs, <1>old DEF RowsStand, webhookVars, handlerVars
<1>2. CASE Tick
  BY <1>2, <1>types, <1>jobs, <1>old DEF Tick, Older, Busy
<1>3. ASSUME NEW h \in Handlers, NEW e \in Event, Deliver(h, e) PROVE ClaimIsHeld'
  BY <1>3, <1>types, <1>jobs, <1>old DEF Deliver, tables
<1>4. ASSUME NEW h \in Handlers, CrashHandler(h) PROVE ClaimIsHeld'
  BY <1>4, <1>types, <1>jobs, <1>old DEF CrashHandler, Release, tables
<1>5. ASSUME NEW h \in Handlers, ContextDone(h) PROVE ClaimIsHeld'
  BY <1>5, <1>types, <1>jobs, <1>old DEF ContextDone, tables
<1>6. ASSUME NEW h \in Handlers, HandlerStep(h) PROVE ClaimIsHeld'
  <2>job. Busy(h) /\ job[h] \in Event
    BY <1>6, StepIsBusy, JobsAreEvents
  <2> USE DEF Succeeds, Fails, LosesReply, MayFault, Goto, Answer
  <2>1. CASE GetEvent(h)
    BY <2>1, <2>job, <1>types, <1>jobs, <1>old DEF GetEvent, AfterRecording, tables,
       AfterRecording
  <2>2. CASE InsertEvent(h)
    BY <2>2, <2>job, <1>types, <1>jobs, <1>old DEF InsertEvent, InsertWebhookEvent, SetRow,
       AfterRecording, tables
  <2>3. CASE GetAfterInsertRace(h)
    BY <2>3, <2>job, <1>types, <1>jobs, <1>old DEF GetAfterInsertRace, tables
  <2>4. CASE IgnoreEvent(h)
    BY <2>4, <2>job, <1>types, <1>jobs, <1>old, <1>kinds DEF IgnoreEvent, MarkWebhookIgnored,
       SetRow, tables, KindsAreSeparate
  <2>5. CASE ClaimEvent(h)
    BY <2>5, <2>job, <1>types, <1>jobs, <1>old DEF ClaimEvent, ClaimWebhookEvent, SetRow,
       tables, Claimable, IsStale
  <2>6. CASE GetUnclaimed(h)
    BY <2>6, <2>job, <1>types, <1>jobs, <1>old DEF GetUnclaimed, tables
  <2>7. CASE BuildEvent(h)
    BY <2>7, <2>job, <1>types, <1>jobs, <1>old DEF BuildEvent, tables
  <2>8. CASE FailEvent(h)
    BY <2>8, <2>job, <1>types, <1>jobs, <1>old DEF FailEvent, FailWebhookEvent, SetRow, tables
  <2>9. CASE CompleteEvent(h)
    BY <2>9, <2>job, <1>types, <1>jobs, <1>old DEF CompleteEvent, CompleteWebhookProcessing,
       SetRow, tables
  <2>10. CASE Respond(h)
    BY <2>10, <2>job, <1>types, <1>jobs, <1>old DEF Respond, Release, tables
  <2>11. CASE EnsureEffect(h)
    BY <2>11, <2>job, <1>types, <1>jobs, <1>old DEF EnsureEffect, tables
  <2>12. CASE MarkEvent(h)
    BY <2>12, <2>job, <1>types, <1>jobs, <1>old DEF MarkEvent, SetRow, tables
  <2> QED
    BY <1>6, <2>1, <2>2, <2>3, <2>4, <2>5, <2>6, <2>7, <2>8, <2>9, <2>10,
       <2>11, <2>12 DEF HandlerStep
<1> QED
  BY <1>1, <1>2, <1>3, <1>4, <1>5, <1>6 DEF WebhookStep

(* The rows and handlers keep their invariant in every step of the service *)
(* and in every step that leaves them alone.                               *)
LEMMA RowsStep ==
  ASSUME RowsInv, WebhookStep \/ RowsStand, emitted' \subseteq Event,
         faults' \in 0 .. MaxFaults
  PROVE  RowsInv'
<1>1. CASE WebhookStep
  BY <1>1, HandlersTypedStep, WorkStep, KindStep, AckStep, ClaimStep, AckedStep DEF RowsInv
<1>2. CASE RowsStand
  <2>1. HandlersTypeOK'
    BY <1>2 DEF RowsInv, HandlersTypeOK, RowsStand, webhookVars, handlerVars
  <2> QED
    BY <1>2, <2>1, WorkStep, KindStep, AckStep, ClaimStep, AckedStep DEF RowsInv
<1> QED
  BY <1>1, <1>2

(* A claim that is held is exclusive: the row is younger than the request, *)
(* and the deadline is no longer than the age at which a claim is stale.   *)
LEMMA HeldIsExclusive == RowsInv => ClaimIsExclusive
<1> SUFFICES ASSUME RowsInv, NEW h \in Handlers, Owning(h)
             PROVE  /\ RowStatus(job[h]) = "processing"
                    /\ webhookEvents[job[h]].age < StaleAfter
                    /\ \A g \in Handlers : Owning(g) /\ job[g] = job[h] => g = h
  BY DEF ClaimIsExclusive
<1>1. /\ RowStatus(job[h]) = "processing"
      /\ webhookEvents[job[h]].age <= elapsed[h]
      /\ \A g \in Handlers : Owning(g) /\ job[g] = job[h] => g = h
  BY DEF RowsInv, ClaimIsHeld
<1>2. job[h] \in Event
  BY JobsAreEvents DEF Owning, Busy
<1>3. webhookEvents[job[h]].age \in Nat /\ elapsed[h] \in Nat
  BY <1>2 DEF RowsInv, HandlersTypeOK, EventRow
<1> QED
  BY <1>1, <1>3 DEF Owning, Live

-----------------------------------------------------------------------------
(* The invariant of the service by itself holds that of its rows.          *)
LEMMA InvRows == Inv => RowsInv
BY DEF Inv, RowsInv, WebhookTypeOK, StripeTypeOK

(* Stripe takes back nothing that it has told.                             *)
LEMMA TellsMore == StripeStep => emitted \subseteq emitted'
BY DEF StripeStep, PayByCard, PayLater, SettleLater, BounceLater, ExpireSession,
   RefundFully, RefundPartly, TellOther, Moves, Tells

(* Whatever happens, the service takes a step or its rows stand.           *)
LEMMA NextRows == [Next]_vars => WebhookStep \/ RowsStand
BY TellsMore DEF Next, RowsStand, vars, stripeVars

(* What happens at Stripe is a payment and the event that tells of it.     *)
LEMMA StripeTyped == StripeTypeOK /\ StripeStep => StripeTypeOK'
BY DEF StripeTypeOK, StripeStep, PayByCard, PayLater, SettleLater, BounceLater,
   ExpireSession, RefundFully, RefundPartly, TellOther, Moves, Tells, Event, Payments

(* Every variable keeps its type.                                          *)
LEMMA TypeStep == Inv /\ [Next]_vars => WebhookTypeOK'
<1> SUFFICES ASSUME Inv, [Next]_vars PROVE WebhookTypeOK'
  OBVIOUS
<1>old. WebhookTypeOK /\ RowsInv
  BY InvRows DEF Inv
<1>1. CASE UNCHANGED vars
  BY <1>1, <1>old DEF WebhookTypeOK, HandlersTypeOK, StripeTypeOK, vars, stripeVars,
     webhookVars, handlerVars
<1>2. CASE StripeStep /\ UNCHANGED <<orders, webhookVars, faults>>
  BY <1>2, <1>old, StripeTyped DEF WebhookTypeOK, HandlersTypeOK, webhookVars, handlerVars
<1>3. CASE WebhookStep
  <2>1. HandlersTypeOK' /\ StripeTypeOK'
    BY <1>3, <1>old, HandlersTypedStep, WebhookKeepsStripe
       DEF WebhookTypeOK, StripeTypeOK, stripeVars
  <2>2. orders' \in [Orders -> OrderRow]
    <3>1. ASSUME NEW h \in Handlers, CompleteEvent(h) PROVE orders' \in [Orders -> OrderRow]
      <4>1. job[h] \in Event /\ completion[h] \in Targets \cup {NoChange}
        BY <1>old, <3>1, JobsAreEvents DEF CompleteEvent, Busy, WebhookTypeOK, HandlersTypeOK
      <4> QED
        BY <1>old, <3>1, <4>1, OrdersTyped DEF CompleteEvent, tables, WebhookTypeOK
    <3>2. CASE ~\E h \in Handlers : CompleteEvent(h)
      BY <1>3, <1>old, <3>2 DEF WebhookTypeOK, WebhookStep, HandlerStep, Deliver,
         CrashHandler, ContextDone, Tick, GetEvent, InsertEvent, GetAfterInsertRace,
         IgnoreEvent, ClaimEvent, GetUnclaimed, BuildEvent, FailEvent,
         EnsureEffect, MarkEvent, Respond, tables
    <3> QED
      BY <3>1, <3>2
  <2> QED
    BY <2>1, <2>2 DEF WebhookTypeOK
<1> QED
  BY <1>1, <1>2, <1>3 DEF Next

(* Only a completion changes an order, from an allowed status to the       *)
(* target that fits its event, while Stripe stands still.                  *)
MovesTo(e, target) ==
  /\ e \in emitted
  /\ Fits(e, target)
  /\ target # NoChange
  /\ orders[e.order].status \in AllowedFrom[target]
  /\ orders' = [orders EXCEPT ![e.order] = Updated(@, target)]
  /\ UNCHANGED stripeVars

(* The orders table changes in one place only: where a handler carries     *)
(* out a fitting completion that is allowed from the current status.       *)
LEMMA OrdersMove ==
  Inv /\ [Next]_vars => \/ UNCHANGED orders
                       \/ \E e \in Event, target \in Targets : MovesTo(e, target)
<1> SUFFICES ASSUME Inv, [Next]_vars
             PROVE  \/ UNCHANGED orders
                    \/ \E e \in Event, target \in Targets : MovesTo(e, target)
  OBVIOUS
<1>1. CASE \E h \in Handlers : CompleteEvent(h)
  <2>1. PICK h \in Handlers : CompleteEvent(h)
    BY <1>1
  <2>2. pc[h] = "complete" /\ Busy(h)
    BY <2>1 DEF CompleteEvent, Busy
  <2>3. /\ job[h] \in emitted /\ job[h] \in Event
        /\ Fits(job[h], completion[h])
        /\ completion[h] \in Targets \cup {NoChange}
    BY <2>2, JobsAreEvents, InvRows DEF Inv, WorkIsEmitted, CompletionsFit, WebhookTypeOK,
       HandlersTypeOK
  <2>4. CASE UNCHANGED orders
    BY <2>4
  <2>5. CASE CompleteWebhookProcessing(job[h], completion[h]) /\ ~UNCHANGED orders
    <3>1. completion[h] # NoChange /\ Applies(job[h].order, completion[h])
      BY <2>5 DEF CompleteWebhookProcessing
    <3>2. orders' = [orders EXCEPT ![job[h].order] = Updated(@, completion[h])]
      BY <2>5, <3>1 DEF CompleteWebhookProcessing
    <3> QED
      BY <2>1, <2>3, <3>1, <3>2 DEF MovesTo, Applies, CompleteEvent
  <2> QED
    BY <2>1, <2>4, <2>5 DEF CompleteEvent, tables
<1>2. CASE ~\E h \in Handlers : CompleteEvent(h)
  BY <1>2 DEF Next, WebhookStep, vars, HandlerStep, Deliver, CrashHandler,
     ContextDone, Tick, GetEvent, InsertEvent, GetAfterInsertRace, IgnoreEvent,
     ClaimEvent, GetUnclaimed, BuildEvent, FailEvent, EnsureEffect, MarkEvent, Respond, tables
<1> QED
  BY <1>1, <1>2

(* What a move does to the statuses.                                       *)
LEMMA StatusMoves ==
  ASSUME Inv, NEW e \in Event, NEW target \in Targets, MovesTo(e, target)
  PROVE  /\ e.order \in Orders /\ e.kind \in AllKinds
         /\ orders'[e.order].status = target
         /\ \A o \in Orders : o # e.order => orders'[o] = orders[o]
  BY DEF MovesTo, Updated, Inv, WebhookTypeOK, OrderRow, Event

(* What a fitting completion says of the kind and amount of its event.     *)
LEMMA FitsMeans ==
  ASSUME NEW e \in Event, NEW target \in Targets, Fits(e, target), target # NoChange
  PROVE  /\ e.kind \in SessionKinds \cup {"refunded"}
         /\ target = IF e.kind = "refunded" THEN "refunded" ELSE TargetOf[e.kind]
         /\ target \in {"processing", "paid", "refunded"} => e.order \notin Mispriced
  BY DEF Fits, SessionKinds, TargetOf, ChecksAmount

(* The orders table stays behind Stripe.                                   *)
LEMMA FollowStep == Inv /\ [Next]_vars => OrdersFollowStripe'
<1> SUFFICES ASSUME Inv, [Next]_vars PROVE OrdersFollowStripe'
  OBVIOUS
<1>old. /\ OrdersFollowStripe
        /\ payment \in [Orders -> Payments]
        /\ orders \in [Orders -> OrderRow]
  BY DEF Inv, WebhookTypeOK, StripeTypeOK
<1>1. CASE UNCHANGED orders /\ UNCHANGED stripeVars
  BY <1>1, <1>old DEF OrdersFollowStripe, stripeVars
<1>2. CASE UNCHANGED orders /\ StripeStep
  BY <1>2, <1>old DEF OrdersFollowStripe, OrderRow, OrderStatuses, Justifies, Payments,
     StripeStep, PayByCard, PayLater, SettleLater, BounceLater,
     ExpireSession, RefundFully, RefundPartly, TellOther, Moves, Tells
<1>3. ASSUME NEW e \in Event, NEW target \in Targets, MovesTo(e, target)
      PROVE  OrdersFollowStripe'
  <2>1. payment[e.order] \in After[e.kind] /\ UNCHANGED payment
    BY <1>3 DEF MovesTo, Inv, EventsAreTrue, stripeVars
  <2>2. /\ e.kind \in SessionKinds \cup {"refunded"}
        /\ target = IF e.kind = "refunded" THEN "refunded" ELSE TargetOf[e.kind]
        /\ target \in {"processing", "paid", "refunded"} => e.order \notin Mispriced
    BY <1>3, FitsMeans DEF MovesTo
  <2>3. payment[e.order] \in Justifies[target]
    BY <2>1, <2>2 DEF After, Justifies, TargetOf, SessionKinds
  <2> QED
    BY <1>3, <1>old, <2>1, <2>2, <2>3, StatusMoves DEF OrdersFollowStripe
<1> QED
  BY <1>1, <1>2, <1>3, OrdersMove, WebhookKeepsStripe DEF Next, vars

(* A completion a handler holds keeps fitting its event.                   *)
LEMMA FitStep == Inv /\ [Next]_vars => CompletionsFit'
<1> SUFFICES ASSUME Inv, [Next]_vars, NEW h \in Handlers, pc'[h] \in {"complete", "ensure"}
             PROVE  Fits(job[h], completion[h])'
  BY DEF CompletionsFit
<1>types. /\ pc \in [Handlers -> Steps]
          /\ job \in [Handlers -> Event \cup {NoEvent}]
          /\ completion \in [Handlers -> Targets \cup {NoChange}]
          /\ orders \in [Orders -> OrderRow]
  BY DEF Inv, WebhookTypeOK, HandlersTypeOK
<1>1. CASE /\ pc[h] \in {"complete", "ensure"}
           /\ job'[h] = job[h] /\ completion'[h] = completion[h]
  <2>1. Fits(job[h], completion[h]) /\ job[h] \in Event
    BY <1>1, JobsAreEvents, InvRows DEF Inv, CompletionsFit, Busy
  <2>2. orders[job[h].order].status = "refunded" => orders'[job[h].order].status = "refunded"
    <3>1. ASSUME NEW e \in Event, NEW target \in Targets, MovesTo(e, target)
          PROVE  orders[job[h].order].status = "refunded" =>
                   orders'[job[h].order].status = "refunded"
      <4>1. orders[e.order].status # "refunded"
        BY <3>1 DEF MovesTo, AllowedFrom, Targets
      <4> QED
        BY <2>1, <3>1, <4>1, StatusMoves DEF Event
    <3> QED
      BY <3>1, OrdersMove
  <2> QED
    BY <1>1, <2>1, <2>2 DEF Fits
<1>2. CASE BuildEvent(h)
  <2>1. job[h] \in Event /\ job[h].kind \in HandledKinds
    BY <1>2, JobsAreEvents, InvRows DEF BuildEvent, Busy, Inv, KindsAreSeparate
  <2>2. /\ completion'[h] \in BuildCompletion(job[h])
        /\ job'[h] = job[h] /\ UNCHANGED orders
    BY <1>2, <1>types DEF BuildEvent, Goto, tables
  <2>3. CASE job[h].kind \in SessionKinds
    <3>1. completion'[h] \in SessionCompletions(job[h])
      BY <2>2, <2>3 DEF BuildCompletion, SessionKinds
    <3> QED
      BY <2>2, <2>3, <3>1 DEF SessionCompletions, Fits
  <2>4. CASE job[h].kind = "refunded"
    <3>1. completion'[h] \in RefundCompletions(job[h])
      BY <2>2, <2>4 DEF BuildCompletion, SessionKinds
    <3> QED
      BY <2>2, <2>4, <3>1 DEF RefundCompletions, Fits
  <2>5. CASE job[h].kind = "partially_refunded"
    <3>1. completion'[h] = NoChange
      BY <2>2, <2>5 DEF BuildCompletion, SessionKinds
    <3> QED
      BY <2>2, <2>5, <3>1 DEF Fits
  <2> QED
    BY <2>1, <2>3, <2>4, <2>5 DEF HandledKinds, ChargeKinds
<1>3. CASE ~BuildEvent(h)
  <2> USE <1>types, <1>3 DEF Goto, Answer, Release
  <2>1. CASE UNCHANGED vars
    BY <1>1, <2>1 DEF vars, webhookVars, handlerVars
  <2>2. CASE UNCHANGED webhookVars
    BY <1>1, <2>2 DEF webhookVars, handlerVars
  <2>3. CASE Tick
    BY <1>1, <2>3 DEF Tick
  <2>4. ASSUME NEW g \in Handlers,
               (\E e \in Event : Deliver(g, e)) \/ CrashHandler(g) \/ ContextDone(g)
        PROVE  Fits(job[h], completion[h])'
    BY <1>1, <2>4 DEF Deliver, CrashHandler, ContextDone
  <2>5. ASSUME NEW g \in Handlers, HandlerStep(g) PROVE Fits(job[h], completion[h])'
    <3>1. g # h => pc'[h] = pc[h] /\ job'[h] = job[h] /\ completion'[h] = completion[h]
      BY <2>5 DEF HandlerStep, GetEvent, InsertEvent, GetAfterInsertRace, IgnoreEvent,
         ClaimEvent, GetUnclaimed, BuildEvent, FailEvent, CompleteEvent,
         EnsureEffect, MarkEvent, Respond
    <3>2. g = h => pc[h] = "complete" /\ job'[h] = job[h] /\ completion'[h] = completion[h]
      BY <2>5 DEF HandlerStep, GetEvent, InsertEvent, GetAfterInsertRace, IgnoreEvent,
         ClaimEvent, GetUnclaimed, FailEvent, CompleteEvent,
         EnsureEffect, MarkEvent, Respond, AfterRecording
    <3> QED
      BY <1>1, <3>1, <3>2
  <2> QED
    BY <2>1, <2>2, <2>3, <2>4, <2>5 DEF Next, WebhookStep
<1> QED
  BY <1>2, <1>3

(* An effect that an order shows survives every later move.                *)
LEMMA EffectsStay ==
  ASSUME Inv, [Next]_vars, NEW d \in Event, orders[d.order].status \in Reflects[d.kind]
  PROVE  orders'[d.order].status \in Reflects[d.kind]
<1>types. /\ d.order \in Orders /\ d.kind \in AllKinds
          /\ orders \in [Orders -> OrderRow]
  BY DEF Inv, WebhookTypeOK, Event
<1>1. ASSUME NEW e \in Event, NEW target \in Targets, MovesTo(e, target)
      PROVE  orders'[d.order].status \in Reflects[d.kind]
  <2>1. CASE e.order # d.order
    BY <1>1, <2>1, <1>types, StatusMoves
  <2>2. CASE e.order = d.order
    <3>1. orders'[d.order].status = target /\ orders[d.order].status \in AllowedFrom[target]
      BY <1>1, <2>2, StatusMoves DEF MovesTo
    <3> QED
      BY <3>1, <1>types DEF Reflects, AllowedFrom, Targets, OrderStatuses, AllKinds,
         HandledKinds, SessionKinds, ChargeKinds
  <2> QED
    BY <2>1, <2>2
<1> QED
  BY <1>1, OrdersMove

(* What satisfies a fitting completion is the effect of its event, as the  *)
(* order is not ahead of Stripe and Stripe is where the event says.        *)
LEMMA SatisfiedShows ==
  ASSUME NEW e \in Event, NEW target \in Targets \cup {NoChange}, Fits(e, target),
         NEW status \in OrderStatuses, NEW paid \in Payments,
         orders[e.order].status = status,
         WebhookOrderEffectSatisfied(status, target),
         paid \in After[e.kind], paid \in Justifies[status]
  PROVE  status \in Reflects[e.kind]
<1>1. CASE target = NoChange
  BY <1>1 DEF Fits, Reflects, TargetOf, NoChange, SessionKinds
<1>2. CASE target # NoChange
  <2>1. status \in SatisfiedBy[target]
    BY <1>2 DEF WebhookOrderEffectSatisfied
  <2> QED
    BY <1>2, <2>1 DEF Fits, Reflects, TargetOf, SessionKinds, SatisfiedBy, Justifies, After
<1> QED
  BY <1>1, <1>2

(* A handler about to mark an event has seen its effect, and no completion *)
(* that comes between undoes it.                                           *)
LEMMA MarksStep == Inv /\ [Next]_vars => MarksAreEarned'
<1> SUFFICES ASSUME Inv, [Next]_vars, NEW h \in Handlers, pc'[h] = "mark"
             PROVE  orders'[job'[h].order].status \in Reflects[job'[h].kind]
  BY DEF MarksAreEarned
<1>types. /\ pc \in [Handlers -> Steps]
          /\ job \in [Handlers -> Event \cup {NoEvent}]
          /\ completion \in [Handlers -> Targets \cup {NoChange}]
          /\ payment \in [Orders -> Payments]
          /\ orders \in [Orders -> OrderRow]
  BY DEF Inv, WebhookTypeOK, HandlersTypeOK, StripeTypeOK
<1>1. CASE pc[h] = "mark" /\ job'[h] = job[h]
  <2>1. job[h] \in Event /\ orders[job[h].order].status \in Reflects[job[h].kind]
    BY <1>1, JobsAreEvents, InvRows DEF Inv, MarksAreEarned, Busy
  <2> QED
    BY <1>1, <2>1, EffectsStay
<1>2. CASE EnsureEffect(h)
  <2>1. /\ pc[h] = "ensure" /\ Busy(h)
        /\ WebhookOrderEffectSatisfied(orders[job[h].order].status, completion[h])
        /\ UNCHANGED orders /\ job'[h] = job[h]
    BY <1>2, <1>types DEF EnsureEffect, Goto, Answer, Busy, tables
  <2>2. job[h] \in Event /\ job[h] \in emitted
    BY <2>1, JobsAreEvents, InvRows DEF Inv, WorkIsEmitted
  <2>3. PICK e \in Event : e = job[h]
    BY <2>2
  <2>4. PICK t \in Targets \cup {NoChange} : t = completion[h]
    BY <1>types
  <2>5. Fits(e, t)
    BY <2>1, <2>3, <2>4 DEF Inv, CompletionsFit
  <2>6. e.order \in Orders
    BY DEF Event
  <2>7. /\ orders[e.order].status \in OrderStatuses /\ payment[e.order] \in Payments
        /\ payment[e.order] \in After[e.kind]
        /\ payment[e.order] \in Justifies[orders[e.order].status]
    BY <2>2, <2>3, <2>6, <1>types DEF Inv, EventsAreTrue, OrdersFollowStripe, OrderRow
  <2>8. orders[e.order].status \in Reflects[e.kind]
    BY <2>1, <2>3, <2>4, <2>5, <2>7, SatisfiedShows
  <2> QED
    BY <2>1, <2>3, <2>8
<1>3. CASE ~EnsureEffect(h)
  <2> USE <1>types, <1>3 DEF Goto, Answer, Release
  <2>1. CASE UNCHANGED vars \/ UNCHANGED webhookVars \/ Tick
    BY <1>1, <2>1 DEF vars, webhookVars, handlerVars, Tick
  <2>2. ASSUME NEW g \in Handlers,
               (\E e \in Event : Deliver(g, e)) \/ CrashHandler(g) \/ ContextDone(g)
        PROVE  pc[h] = "mark" /\ job'[h] = job[h]
    BY <2>2 DEF Deliver, CrashHandler, ContextDone
  <2>3. ASSUME NEW g \in Handlers, HandlerStep(g)
        PROVE  pc[h] = "mark" /\ job'[h] = job[h]
    <3>1. g # h => pc'[h] = pc[h] /\ job'[h] = job[h]
      BY <2>3 DEF HandlerStep, GetEvent, InsertEvent, GetAfterInsertRace, IgnoreEvent,
         ClaimEvent, GetUnclaimed, BuildEvent, FailEvent, CompleteEvent, EnsureEffect,
         MarkEvent, Respond
    <3>2. g # h
      BY <2>3 DEF HandlerStep, GetEvent, InsertEvent, GetAfterInsertRace, IgnoreEvent,
         ClaimEvent, GetUnclaimed, BuildEvent, FailEvent, CompleteEvent,
         MarkEvent, Respond, AfterRecording
    <3> QED
      BY <3>1, <3>2
  <2> QED
    BY <1>1, <2>1, <2>2, <2>3 DEF Next, WebhookStep
<1> QED
  BY <1>2, <1>3

(* The effect of a processed event survives every later move.              *)
LEMMA ReflectStep == Inv /\ [Next]_vars => ProcessedIsReflected'
<1> SUFFICES ASSUME Inv, [Next]_vars, NEW d \in Event, RowStatus(d)' = "processed"
             PROVE  orders'[d.order].status \in Reflects[d.kind]
  BY DEF ProcessedIsReflected
<1>types. /\ d.order \in Orders /\ d.kind \in AllKinds
          /\ orders \in [Orders -> OrderRow]
          /\ webhookEvents \in [Event -> EventRow]
          /\ webhookEvents' \in [Event -> EventRow]
          /\ orders' \in [Orders -> OrderRow]
  BY TypeStep DEF Inv, WebhookTypeOK, HandlersTypeOK, Event
<1>1. CASE RowStatus(d) = "processed"
  BY <1>1, EffectsStay DEF Inv, ProcessedIsReflected
<1>2. CASE RowStatus(d) # "processed"
  <2>1. \E h \in Handlers : (CompleteEvent(h) \/ MarkEvent(h)) /\ job[h] = d
    <3> USE <1>2, <1>types DEF RowStatus
    <3>1. CASE UNCHANGED webhookEvents
      BY <3>1
    <3>2. CASE Tick
      BY <3>2 DEF Tick
    <3>3. ASSUME NEW h \in Handlers, HandlerStep(h), ~UNCHANGED webhookEvents
          PROVE  (CompleteEvent(h) \/ MarkEvent(h)) /\ job[h] = d
      <4>1. job[h] \in Event
        BY <3>3, StepIsBusy, JobsAreEvents, InvRows
      <4>2. CASE InsertEvent(h)
        BY <3>3, <4>1, <4>2 DEF InsertEvent, InsertWebhookEvent, SetRow
      <4>3. CASE IgnoreEvent(h)
        BY <3>3, <4>1, <4>3 DEF IgnoreEvent, MarkWebhookIgnored, SetRow
      <4>4. CASE ClaimEvent(h)
        BY <3>3, <4>1, <4>4 DEF ClaimEvent, ClaimWebhookEvent, SetRow
      <4>5. CASE FailEvent(h)
        BY <3>3, <4>1, <4>5 DEF FailEvent, FailWebhookEvent, SetRow
      <4>6. CASE CompleteEvent(h)
        BY <3>3, <4>1, <4>6 DEF CompleteEvent, CompleteWebhookProcessing, SetRow, tables
      <4>7. CASE MarkEvent(h)
        BY <3>3, <4>1, <4>7 DEF MarkEvent, SetRow
      <4> QED
        BY <3>3, <4>2, <4>3, <4>4, <4>5, <4>6, <4>7 DEF HandlerStep, tables, GetEvent,
           GetAfterInsertRace, GetUnclaimed, BuildEvent, EnsureEffect, Respond
    <3> QED
      BY <3>1, <3>2, <3>3 DEF Next, WebhookStep, vars, webhookVars, tables,
         Deliver, CrashHandler, ContextDone
  <2>2. ASSUME NEW h \in Handlers, MarkEvent(h), job[h] = d
        PROVE  orders'[d.order].status \in Reflects[d.kind]
    BY <2>2 DEF MarkEvent, Inv, MarksAreEarned
  <2>3. ASSUME NEW h \in Handlers, CompleteEvent(h), job[h] = d
        PROVE  orders'[d.order].status \in Reflects[d.kind]
    <3>1. PICK t \in Targets \cup {NoChange} : t = completion[h]
      BY DEF Inv, WebhookTypeOK, HandlersTypeOK
    <3>2. CanComplete(d, t) /\ CompleteWebhookProcessing(d, t)
      BY <1>2, <2>3, <3>1 DEF CompleteEvent, tables, RowStatus
    <3>3. Fits(d, t)
      BY <2>3, <3>1 DEF CompleteEvent, Inv, CompletionsFit
    <3>4. CASE t = NoChange
      <4>1. UNCHANGED orders
        BY <3>2, <3>4 DEF CompleteWebhookProcessing
      <4> QED
        BY <3>3, <3>4, <4>1, <1>types DEF Fits, Reflects, OrderRow, TargetOf, NoChange,
           SessionKinds
    <3>5. CASE t # NoChange
      <4>1. orders' = [orders EXCEPT ![d.order] = Updated(orders[d.order], t)]
        BY <3>2, <3>5 DEF CanComplete, Touches, CompleteWebhookProcessing
      <4>2. orders[d.order] \in OrderRow
        BY <1>types
      <4>3. orders'[d.order].status = t
        BY <4>1, <4>2, <1>types DEF Updated, OrderRow
      <4> QED
        BY <3>3, <3>5, <4>3 DEF Fits, Reflects, TargetOf, SessionKinds
    <3> QED
      BY <3>4, <3>5
  <2> QED
    BY <2>1, <2>2, <2>3
<1> QED
  BY <1>1, <1>2


-----------------------------------------------------------------------------

(* The initial state satisfies the invariant.                              *)
LEMMA InvInit == WebhookInit => Inv
<1> SUFFICES ASSUME WebhookInit PROVE Inv
  OBVIOUS
<1> USE DEF WebhookInit, HandlersInit
<1>1. WebhookTypeOK
  BY DEF WebhookTypeOK, HandlersTypeOK, StripeTypeOK, Payments, OrderRow, OrderStatuses,
     EventRow,
     Steps, Outcomes
<1>2. EventsAreTrue /\ WorkIsEmitted /\ KindsAreSeparate
  BY DEF EventsAreTrue, WorkIsEmitted, KindsAreSeparate, Busy, RowStatus
<1>3. CompletionsFit /\ MarksAreEarned /\ AcksAreEarned /\ ClaimIsHeld
  BY DEF CompletionsFit, MarksAreEarned, AcksAreEarned, ClaimIsHeld, Owning
<1>4. OrdersFollowStripe
  BY DEF OrdersFollowStripe, Justifies, Payments
<1>5. ProcessedIsReflected /\ AckedIsProcessed
  BY DEF ProcessedIsReflected, AckedIsProcessed, RowStatus
<1> QED
  BY <1>1, <1>2, <1>3, <1>4, <1>5 DEF Inv

(* The invariant is inductive.                                             *)
LEMMA InvStep == Inv /\ [Next]_vars => Inv'
<1> SUFFICES ASSUME Inv, [Next]_vars PROVE Inv'
  OBVIOUS
<1>1. WebhookTypeOK'
  BY TypeStep
<1>2. RowsInv'
  BY <1>1, InvRows, NextRows, RowsStep DEF WebhookTypeOK, HandlersTypeOK, StripeTypeOK
<1> QED
  BY <1>1, <1>2, TruthStep, FitStep, MarksStep, FollowStep, ReflectStep DEF Inv, RowsInv

(* The inductive invariant holds in every reachable state.                 *)
THEOREM Invariance == Spec => []Inv
  BY InvInit, InvStep, PTL DEF Spec

(* Every variable keeps its type.                                          *)
THEOREM TypeCorrect == Spec => []WebhookTypeOK
  BY Invariance, PTL DEF Inv

(* The orders table is never ahead of Stripe.                              *)
THEOREM NeverAhead == Spec => []OrdersFollowStripe
  BY Invariance, PTL DEF Inv

(* The effect of a processed event is never lost.                          *)
THEOREM NothingLost == Spec => []ProcessedIsReflected
  BY Invariance, PTL DEF Inv

(* A handled event that Stripe was told 200 for has been processed.        *)
THEOREM NoFalseAck == Spec => []AckedIsProcessed
  BY Invariance, PTL DEF Inv

(* A claim is exclusive, and outlives the request that took it, because    *)
(* the request deadline is not longer than the age at which a claim is     *)
(* given up.                                                               *)
THEOREM ExclusiveClaim == Spec => []ClaimIsExclusive
<1>1. Inv => ClaimIsExclusive
  BY InvRows, HeldIsExclusive
<1> QED
  BY <1>1, Invariance, PTL

(* A processed event stays processed.                                      *)
THEOREM ProcessedForever == Spec => ProcessedIsFinal
<1>1. Inv /\ [Next]_vars =>
        [\A e \in Event : RowStatus(e) = "processed" => RowStatus(e)' = "processed"]_vars
  BY ProcessedStep, InvRows, NextRows DEF ProcessedStays
<1> QED
  BY <1>1, Invariance, PTL DEF Spec, ProcessedIsFinal

-----------------------------------------------------------------------------
(* Dead ends: what is stuck stays stuck.                                   *)

(* No call touches a received row but the claim of a handler on its way.   *)
LEMMA OrphansStay ==
  ASSUME RowsInv, WebhookStep \/ RowsStand,
         NEW e \in Event, e.kind \in HandledKinds, Orphaned(e)
  PROVE  Orphaned(e)'
<1>types. /\ webhookEvents \in [Event -> EventRow]
          /\ pc \in [Handlers -> Steps]
          /\ job \in [Handlers -> Event \cup {NoEvent}]
  BY DEF RowsInv, HandlersTypeOK
<1>old. /\ webhookEvents[e].status = "received"
        /\ \A g \in Handlers : pc[g] = "claim" => job[g] # e
  BY DEF Orphaned, RowStatus
<1>1. webhookEvents'[e].status = "received"
  <2> USE <1>types, <1>old DEF RowStatus
  <2>1. CASE UNCHANGED webhookEvents
    BY <2>1
  <2>2. CASE Tick
    BY <2>2 DEF Tick
  <2>3. ASSUME NEW h \in Handlers, HandlerStep(h), ~UNCHANGED webhookEvents
        PROVE  webhookEvents'[e].status = "received"
    <3>job. job[h] \in Event
      BY <2>3, StepIsBusy, JobsAreEvents
    <3>1. CASE InsertEvent(h)
      BY <2>3, <3>job, <3>1 DEF InsertEvent, InsertWebhookEvent, SetRow
    <3>2. CASE IgnoreEvent(h)
      <4>1. job[h].kind \notin HandledKinds
        BY <3>2 DEF IgnoreEvent, RowsInv, KindsAreSeparate
      <4> QED
        BY <2>3, <3>job, <3>2, <4>1 DEF IgnoreEvent, MarkWebhookIgnored, SetRow
    <3>3. CASE ClaimEvent(h)
      BY <2>3, <3>job, <3>3 DEF ClaimEvent, ClaimWebhookEvent, SetRow
    <3>4. CASE FailEvent(h)
      BY <2>3, <3>job, <3>4 DEF FailEvent, FailWebhookEvent, SetRow
    <3>5. CASE CompleteEvent(h)
      BY <2>3, <3>job, <3>5
         DEF CompleteEvent, CompleteWebhookProcessing, CanComplete, SetRow, tables
    <3>6. CASE MarkEvent(h)
      BY <2>3, <3>job, <3>6 DEF MarkEvent, SetRow
    <3> QED
      BY <2>3, <3>1, <3>2, <3>3, <3>4, <3>5, <3>6 DEF HandlerStep, tables, GetEvent,
         GetAfterInsertRace, GetUnclaimed, BuildEvent, EnsureEffect, Respond
  <2> QED
    BY <2>1, <2>2, <2>3 DEF RowsStand, WebhookStep, webhookVars, tables,
       Deliver, CrashHandler, ContextDone
<1>2. ASSUME NEW g \in Handlers, pc'[g] = "claim", job'[g] = e PROVE FALSE
  <2> USE <1>2, <1>types, <1>old DEF Goto, Answer, Release
  <2>1. CASE UNCHANGED <<pc, job>>
    BY <2>1
  <2>2. ASSUME NEW h \in Handlers, h # g,
               \/ \E d \in Event : Deliver(h, d)
               \/ HandlerStep(h) \/ CrashHandler(h)
        PROVE  FALSE
    BY <2>2 DEF Deliver, CrashHandler, HandlerStep, GetEvent, InsertEvent,
       GetAfterInsertRace, IgnoreEvent, ClaimEvent, GetUnclaimed, BuildEvent,
       FailEvent, CompleteEvent, EnsureEffect, MarkEvent, Respond
  <2>3. CASE GetEvent(g)
    BY <2>3 DEF GetEvent, IsStale, RowStatus
  <2>4. CASE InsertEvent(g)
    BY <2>4 DEF InsertEvent, RowStatus
  <2>5. CASE /\ \/ \E d \in Event : Deliver(g, d)
                \/ HandlerStep(g) /\ ~GetEvent(g) /\ ~InsertEvent(g)
                \/ CrashHandler(g)
    BY <2>5 DEF Deliver, CrashHandler, HandlerStep, GetAfterInsertRace, IgnoreEvent,
       ClaimEvent, GetUnclaimed, BuildEvent, FailEvent, CompleteEvent,
       EnsureEffect, MarkEvent, Respond
  <2> QED
    BY <2>1, <2>2, <2>3, <2>4, <2>5 DEF RowsStand, WebhookStep, webhookVars, handlerVars,
       ContextDone, Tick
<1> QED
  BY <1>1, <1>2 DEF Orphaned, RowStatus

(* No completion is for a failed order.                                    *)
LEMMA FailuresStay ==
  ASSUME Inv, [Next]_vars, NEW o \in Orders, orders[o].status = "failed"
  PROVE  orders'[o].status = "failed"
<1>1. ASSUME NEW e \in Event, NEW target \in Targets, MovesTo(e, target)
      PROVE  orders'[o].status = "failed"
  <2>1. orders[e.order].status # "failed"
    BY <1>1 DEF MovesTo, AllowedFrom, Targets
  <2> QED
    BY <1>1, <2>1, StatusMoves
<1> QED
  BY <1>1, OrdersMove

(* Whatever Stripe and the handlers do, an event that is stuck is not      *)
(* processed any more, and no processed one gets stuck: the exceptions of  *)
(* EventuallyProcessed are dead ends.                                      *)
THEOREM SettledForever == Spec => SettledIsFinal
<1>1. ASSUME Inv, [Next]_vars, NEW e \in Event, e.kind \in HandledKinds, Settled(e)
      PROVE  Settled(e)'
  <2>1. RowsInv /\ (WebhookStep \/ RowsStand)
    BY <1>1, InvRows, NextRows
  <2>2. CASE RowStatus(e) = "processed"
    BY <2>1, <2>2, ProcessedStep DEF ProcessedStays, Settled
  <2>3. CASE Orphaned(e)
    BY <1>1, <2>1, <2>3, OrphansStay DEF Settled
  <2>4. CASE Blocked(e)
    <3>1. PICK d \in Event : /\ d.order = e.order
                             /\ d.kind \in {"completed_paid", "async_succeeded"}
                             /\ Orphaned(d)
      BY <2>4 DEF Blocked
    <3>2. Orphaned(d)'
      BY <2>1, <3>1, OrphansStay DEF HandledKinds, SessionKinds
    <3> QED
      BY <2>4, <3>1, <3>2 DEF Blocked, Settled
  <2>5. CASE Overtaken(e)
    BY <1>1, <2>5, FailuresStay DEF Overtaken, Settled, Event
  <2>6. CASE Refused(e)
    BY <2>6 DEF Refused, Settled
  <2> QED
    BY <1>1, <2>2, <2>3, <2>4, <2>5, <2>6 DEF Settled
<1>2. Inv /\ [Next]_vars =>
        [\A e \in Event :
           e.kind \in HandledKinds /\ Settled(e) => Settled(e)']_vars
  BY <1>1
<1> QED
  BY <1>2, Invariance, PTL DEF Spec, SettledIsFinal

-----------------------------------------------------------------------------
(* Refinement: the service implements the ledger.                          *)

(* A completion carried out is one application of its event.               *)
LEMMA CompleteApplies ==
  ASSUME Inv, Inv', NEW h \in Handlers, CompleteEvent(h), ~UNCHANGED webhookEvents
  PROVE  Ledger!LedgerNext
<1>job. job[h] \in Event /\ completion[h] \in Targets \cup {NoChange}
  BY JobsAreEvents, InvRows DEF CompleteEvent, Busy, Inv, WebhookTypeOK, HandlersTypeOK
<1>e. PICK e \in Event : e = job[h]
  BY <1>job
<1>t. PICK t \in Targets \cup {NoChange} : t = completion[h]
  BY <1>job
<1> DEFINE status == [o \in Orders |-> orders[o].status]
           old == orders[e.order].status
           new == orders'[e.order].status
<1>1. /\ e \in emitted /\ e.kind \in HandledKinds
      /\ e.order \in Orders /\ e.kind \in AllKinds
  BY <1>e DEF CompleteEvent, Busy, Inv, WorkIsEmitted, KindsAreSeparate, Event
<1>2. CanComplete(e, t) /\ CompleteWebhookProcessing(e, t) /\ UNCHANGED stripeVars
  BY <1>e, <1>t DEF CompleteEvent, tables
<1>3. Fits(e, t)
  BY <1>e, <1>t DEF CompleteEvent, Inv, CompletionsFit
<1>types. /\ orders \in [Orders -> OrderRow]
          /\ orders' \in [Orders -> OrderRow]
          /\ webhookEvents \in [Event -> EventRow]
  BY DEF Inv, WebhookTypeOK, HandlersTypeOK
<1>4. RowStatus(e) = "processing" /\ RowStatus(e)' = "processed"
  BY <1>2, <1>types DEF CanComplete, CompleteWebhookProcessing, SetRow, RowStatus
<1>5. {d \in Event : RowStatus(d) = "processed"}' =
        {d \in Event : RowStatus(d) = "processed"} \cup {e}
  BY <1>2, <1>types DEF CompleteWebhookProcessing, SetRow, RowStatus
<1>6. \/ UNCHANGED orders
      \/ /\ t # NoChange /\ Applies(e.order, t)
         /\ orders' = [orders EXCEPT ![e.order] = Updated(orders[e.order], t)]
  BY <1>2 DEF CompleteWebhookProcessing
<1>7. status' = [status EXCEPT ![e.order] = new]
  <2>1. \A o \in Orders : o # e.order => orders'[o] = orders[o]
    BY <1>1, <1>6, <1>types
  <2> QED
    BY <1>1, <2>1
<1>8. new \in OrderStatuses
  BY <1>1, <1>types DEF OrderRow
<1>9. Ledger!Takes(e, new)
  <2>1. new \in Reflects[e.kind]
    BY <1>4 DEF Inv, ProcessedIsReflected
  <2>2. CASE UNCHANGED orders
    <3>1. new = old
      BY <2>2
    <3> QED
      BY <1>1, <2>1, <3>1 DEF Ledger!Takes, Ledger!Told, Ledger!Rank, Reflects, OrderStatuses,
         AllKinds, HandledKinds, SessionKinds, ChargeKinds
  <2>3. CASE /\ t # NoChange /\ Applies(e.order, t)
             /\ orders' = [orders EXCEPT ![e.order] = Updated(orders[e.order], t)]
    <3>1. new = t /\ old \in AllowedFrom[t]
      <4>1. orders[e.order] \in OrderRow
        BY <1>1, <1>types
      <4> QED
        BY <1>1, <2>3, <4>1, <1>types DEF Applies, Updated, OrderRow
    <3>2. /\ e.kind \in SessionKinds \cup {"refunded"}
          /\ t = IF e.kind = "refunded" THEN "refunded" ELSE TargetOf[e.kind]
      BY <1>3, <2>3, FitsMeans
    <3> HIDE DEF old, new
    <3>3. t = Ledger!Told[e.kind]
      BY <3>2 DEF Ledger!Told, TargetOf, SessionKinds
    <3>4. <<old, new>> \in Ledger!Forward
      BY <3>1, <3>2 DEF Ledger!Forward, AllowedFrom, TargetOf, SessionKinds
    <3> QED
      BY <1>1, <3>1, <3>2, <3>3, <3>4 DEF Ledger!Takes, Ledger!Told, Ledger!Rank,
         SessionKinds, old
  <2> QED
    BY <1>6, <2>2, <2>3
<1>10. Ledger!Apply(e)
  <2> HIDE DEF new
  <2> QED
    BY <1>1, <1>2, <1>4, <1>5, <1>7, <1>8, <1>9 DEF Ledger!Apply, Ledger!HandledKinds,
       Ledger!SessionKinds, Ledger!ChargeKinds, HandledKinds, SessionKinds, ChargeKinds,
       Ledger!OrderStatuses, OrderStatuses, Ledger!stripeVars, stripeVars
<1>11. Ledger!LedgerNext
  BY <1>10 DEF Ledger!LedgerNext, Ledger!Event, Event
<1> QED
  BY <1>11

(* Marking an event whose effect was found in its order applies it, too.   *)
LEMMA MarkApplies ==
  ASSUME Inv, NEW h \in Handlers, MarkEvent(h), ~UNCHANGED webhookEvents
  PROVE  Ledger!LedgerNext
<1>job. job[h] \in Event
  BY JobsAreEvents, InvRows DEF MarkEvent, Busy
<1>e. PICK e \in Event : e = job[h]
  BY <1>job
<1> DEFINE status == [o \in Orders |-> orders[o].status]
           old == orders[e.order].status
<1>1. /\ e \in emitted /\ e.kind \in HandledKinds
      /\ e.order \in Orders /\ e.kind \in AllKinds
      /\ old \in Reflects[e.kind]
  BY <1>e DEF MarkEvent, Busy, Inv, WorkIsEmitted, KindsAreSeparate, MarksAreEarned, Event
<1>types. /\ orders \in [Orders -> OrderRow]
          /\ webhookEvents \in [Event -> EventRow]
  BY DEF Inv, WebhookTypeOK, HandlersTypeOK
<1>2. /\ RowStatus(e) = "processing" /\ SetRow(e, "processed")
      /\ UNCHANGED orders /\ UNCHANGED stripeVars
  BY <1>e DEF MarkEvent
<1>3. {d \in Event : RowStatus(d) = "processed"}' =
        {d \in Event : RowStatus(d) = "processed"} \cup {e}
  BY <1>2, <1>types DEF SetRow, RowStatus
<1>4. status' = [status EXCEPT ![e.order] = old]
  BY <1>1, <1>2
<1>5. old \in OrderStatuses
  BY <1>1, <1>types DEF OrderRow
<1>6. Ledger!Takes(e, old)
  BY <1>1, <1>5 DEF Ledger!Takes, Ledger!Told, Ledger!Rank, Reflects, OrderStatuses,
     AllKinds, HandledKinds, SessionKinds, ChargeKinds
<1>7. Ledger!Apply(e)
  <2> HIDE DEF old
  <2> QED
    BY <1>1, <1>2, <1>3, <1>4, <1>5, <1>6 DEF Ledger!Apply, Ledger!HandledKinds,
       Ledger!SessionKinds, Ledger!ChargeKinds, HandledKinds, SessionKinds, ChargeKinds,
       Ledger!OrderStatuses, OrderStatuses, Ledger!stripeVars, stripeVars
<1> QED
  BY <1>7 DEF Ledger!LedgerNext, Ledger!Event, Event

(* Every other step leaves the ledger's view of the rows alone.            *)
LEMMA OthersStutter ==
  ASSUME Inv, [Next]_vars, ~\E h \in Handlers : CompleteEvent(h) \/ MarkEvent(h)
  PROVE  /\ UNCHANGED orders
         /\ {d \in Event : RowStatus(d) = "processed"}' =
              {d \in Event : RowStatus(d) = "processed"}
<1>types. webhookEvents \in [Event -> EventRow]
  BY DEF Inv, WebhookTypeOK, HandlersTypeOK
<1> USE DEF RowStatus
<1>0. UNCHANGED orders
  BY DEF Next, WebhookStep, vars, HandlerStep, Deliver, CrashHandler,
     ContextDone, Tick, GetEvent, InsertEvent, GetAfterInsertRace, IgnoreEvent,
     ClaimEvent, GetUnclaimed, BuildEvent, FailEvent, EnsureEffect, MarkEvent, Respond, tables
<1>1. SUFFICES \A d \in Event : RowStatus(d)' = "processed" => RowStatus(d) = "processed"
  BY <1>0, ProcessedStep, InvRows, NextRows DEF ProcessedStays
<1>2. SUFFICES ASSUME NEW d \in Event, webhookEvents'[d].status = "processed"
               PROVE  webhookEvents[d].status = "processed"
  OBVIOUS
<1>3. CASE UNCHANGED webhookEvents
  BY <1>2, <1>3
<1>4. CASE Tick
  BY <1>2, <1>4, <1>types DEF Tick
<1>5. ASSUME NEW h \in Handlers, HandlerStep(h)
      PROVE  webhookEvents[d].status = "processed"
  <2>1. job[h] \in Event
    BY <1>5, StepIsBusy, JobsAreEvents, InvRows
  <2> USE <1>2, <1>types
  <2>2. CASE InsertEvent(h)
    BY <2>1, <2>2 DEF InsertEvent, InsertWebhookEvent, SetRow
  <2>3. CASE IgnoreEvent(h)
    BY <2>1, <2>3 DEF IgnoreEvent, MarkWebhookIgnored, SetRow
  <2>4. CASE ClaimEvent(h)
    BY <2>1, <2>4 DEF ClaimEvent, ClaimWebhookEvent, SetRow
  <2>5. CASE FailEvent(h)
    BY <2>1, <2>5 DEF FailEvent, FailWebhookEvent, SetRow
  <2> QED
    BY <1>3, <1>5, <2>2, <2>3, <2>4, <2>5 DEF HandlerStep, tables, GetEvent,
       GetAfterInsertRace, GetUnclaimed, BuildEvent, EnsureEffect, Respond
<1> QED
  BY <1>3, <1>4, <1>5 DEF Next, WebhookStep, vars, webhookVars, tables,
     Deliver, CrashHandler, ContextDone

(* Events take effect in one step, at most once, and orders only move      *)
(* forward: the service implements the ledger.                             *)
THEOREM Refinement == Spec => ImplementsLedger
<1>1. WebhookInit => Ledger!LedgerInit
  BY DEF WebhookInit, HandlersInit, Ledger!LedgerInit, RowStatus
<1>2. Inv /\ Inv' /\ [Next]_vars => [Ledger!LedgerNext]_(Ledger!ledgerVars)
  <2> SUFFICES ASSUME Inv, Inv', [Next]_vars
               PROVE  [Ledger!LedgerNext]_(Ledger!ledgerVars)
    OBVIOUS
  <2>1. ASSUME NEW h \in Handlers, CompleteEvent(h)
        PROVE  [Ledger!LedgerNext]_(Ledger!ledgerVars)
    <3>1. job[h] \in Event
      BY <2>1, JobsAreEvents, InvRows DEF CompleteEvent, Busy
    <3>2. CASE ~UNCHANGED webhookEvents
      BY <2>1, <3>2, CompleteApplies
    <3>3. CASE UNCHANGED webhookEvents
      <4>1. UNCHANGED tables /\ UNCHANGED stripeVars
        <5>1. CASE /\ CanComplete(job[h], completion[h])
                   /\ CompleteWebhookProcessing(job[h], completion[h])
          BY <3>1, <3>3, <5>1 DEF CanComplete, CompleteWebhookProcessing, SetRow, RowStatus,
             Inv, WebhookTypeOK, HandlersTypeOK
        <5> QED
          BY <2>1, <5>1 DEF CompleteEvent
      <4> QED
        BY <4>1 DEF tables, stripeVars, RowStatus, Ledger!ledgerVars, Ledger!stripeVars
    <3> QED
      BY <3>2, <3>3
  <2>2. ASSUME NEW h \in Handlers, MarkEvent(h)
        PROVE  [Ledger!LedgerNext]_(Ledger!ledgerVars)
    <3>1. CASE ~UNCHANGED webhookEvents
      BY <2>2, <3>1, MarkApplies
    <3>2. CASE UNCHANGED webhookEvents
      BY <2>2, <3>2 DEF MarkEvent, stripeVars, RowStatus, Ledger!ledgerVars,
         Ledger!stripeVars
    <3> QED
      BY <3>1, <3>2
  <2>3. CASE ~\E h \in Handlers : CompleteEvent(h) \/ MarkEvent(h)
    <3>1. /\ UNCHANGED orders
          /\ {d \in Event : RowStatus(d) = "processed"}' =
               {d \in Event : RowStatus(d) = "processed"}
      BY <2>3, OthersStutter
    <3>2. CASE UNCHANGED stripeVars
      BY <3>1, <3>2 DEF stripeVars, Ledger!ledgerVars, Ledger!stripeVars
    <3>3. CASE StripeStep
      <4>1. StripeStep => Ledger!StripeStep
        BY DEF StripeStep, Ledger!StripeStep, PayByCard, PayLater, SettleLater,
           BounceLater, ExpireSession, RefundFully, RefundPartly, TellOther, Moves, Tells,
           Ledger!PayByCard, Ledger!PayLater, Ledger!SettleLater,
           Ledger!BounceLater, Ledger!ExpireSession, Ledger!RefundFully,
           Ledger!RefundPartly, Ledger!TellOther, Ledger!Moves, Ledger!Tells,
           Payments, Ledger!Payments
      <4> QED
        BY <3>1, <3>3, <4>1 DEF Ledger!LedgerNext
    <3> QED
      BY <3>2, <3>3, WebhookKeepsStripe DEF Next, vars
  <2> QED
    BY <2>1, <2>2, <2>3
<1> QED
  BY <1>1, <1>2, Invariance, PTL DEF Spec, ImplementsLedger, Ledger!LedgerSpec

=============================================================================
