------------------------------ MODULE Webhook ------------------------------
(***************************************************************************)
(* The webhook service: Handle and the database calls it makes.  Requests  *)
(* of any number of replicas run concurrently; each occupies a handler, and *)
(* every database call is one atomic step, so that other handlers, time    *)
(* and failures come between two calls.                                    *)
(*                                                                         *)
(* A request's context ends at its deadline (120 s) or when Stripe hangs   *)
(* up; from then on every database call of the request fails.  Time is     *)
(* counted in units: a handler's `elapsed' and a claimed row's `age' grow  *)
(* together and saturate at RequestTimeout and StaleAfter.                 *)
(***************************************************************************)
EXTENDS Store

CONSTANTS Handlers,        \* slots for concurrent webhook requests
          RequestTimeout,  \* the request deadline, in time units (120 s)
          StaleAfter,      \* staleWebhookProcessing, in time units (5 min)
          Mispriced,       \* orders whose stored total is not Stripe's
          NoEvent          \* the job of an idle handler

ASSUME TimeoutAssumption == /\ RequestTimeout \in Nat \ {0}
                            /\ StaleAfter \in Nat
                            /\ RequestTimeout <= StaleAfter
ASSUME EventAssumption == NoEvent \notin Event

VARIABLES webhookEvents,  \* the webhook_events table
          pc,             \* where each handler is in Handle
          job,            \* the event it was sent
          elapsed,        \* how long its request has been running
          completion,     \* the WebhookCompletion it has built
          outcome,        \* the WebhookOutcome it will answer with
          acked           \* events Stripe has been answered 200 for

tables      == <<orders, webhookEvents>>
handlerVars == <<pc, job, elapsed, completion, outcome>>
webhookVars == <<webhookEvents, handlerVars, acked>>
vars        == <<stripeVars, orders, webhookVars, faults>>

-----------------------------------------------------------------------------

EventRow == [status : WebhookStatuses \cup {"absent"}, age : 0 .. StaleAfter]

Steps == {"idle", "get", "insert", "race", "ignore", "claim", "unclaimed",
          "build", "fail", "complete", "ensure", "mark", "respond"}

Outcomes == {"acknowledged", "retry_later", "processing_failed"}

HandlersTypeOK ==
  /\ webhookEvents \in [Event -> EventRow]
  /\ pc \in [Handlers -> Steps]
  /\ job \in [Handlers -> Event \cup {NoEvent}]
  /\ elapsed \in [Handlers -> 0 .. RequestTimeout]
  /\ completion \in [Handlers -> Targets \cup {NoChange}]
  /\ outcome \in [Handlers -> Outcomes]
  /\ acked \subseteq Event
  /\ faults \in 0 .. MaxFaults

WebhookTypeOK == StripeTypeOK /\ orders \in [Orders -> OrderRow] /\ HandlersTypeOK

(* No event has been recorded and no request is running.                   *)
HandlersInit ==
  /\ webhookEvents = [e \in Event |-> [status |-> "absent", age |-> 0]]
  /\ pc = [h \in Handlers |-> "idle"]
  /\ job = [h \in Handlers |-> NoEvent]
  /\ elapsed = [h \in Handlers |-> 0]
  /\ completion = [h \in Handlers |-> NoChange]
  /\ outcome = [h \in Handlers |-> "retry_later"]
  /\ acked = {}

(* Checkout has answered: every order is pending and knows its session.    *)
WebhookInit ==
  /\ payment = [o \in Orders |-> "open"]
  /\ emitted = {}
  /\ orders = [o \in Orders |->
                 [status |-> "pending", session |-> TRUE, intent |-> FALSE]]
  /\ faults = 0
  /\ HandlersInit

-----------------------------------------------------------------------------
(* How a database call of a handler can end.                               *)

Live(h) == elapsed[h] < RequestTimeout

(* The call takes effect and the handler sees its result.                  *)
Succeeds(h) == Live(h) /\ UNCHANGED faults

(* The call takes effect and the handler sees an error.                    *)
LosesReply(h) == Live(h) /\ MayFault

(* The call has no effect and the handler sees an error.                   *)
Fails(h) == \/ ~Live(h) /\ UNCHANGED faults
            \/ Live(h) /\ MayFault

Goto(h, step) == /\ pc' = [pc EXCEPT ![h] = step]
                 /\ UNCHANGED <<job, elapsed, completion, outcome>>

Answer(h, result) == /\ pc' = [pc EXCEPT ![h] = "respond"]
                     /\ outcome' = [outcome EXCEPT ![h] = result]
                     /\ UNCHANGED <<job, elapsed, completion>>

Release(h) == /\ pc' = [pc EXCEPT ![h] = "idle"]
              /\ job' = [job EXCEPT ![h] = NoEvent]
              /\ elapsed' = [elapsed EXCEPT ![h] = 0]
              /\ completion' = [completion EXCEPT ![h] = NoChange]
              /\ outcome' = [outcome EXCEPT ![h] = "retry_later"]

-----------------------------------------------------------------------------
(* The database calls on webhook_events.                                   *)

RowStatus(e) == webhookEvents[e].status

SetRow(e, status) ==
  webhookEvents' = [webhookEvents EXCEPT ![e] = [status |-> status, age |-> 0]]

InsertWebhookEvent(e) == SetRow(e, "received")

IsStale(e) == RowStatus(e) = "processing" /\ webhookEvents[e].age >= StaleAfter

(* Faulty: the claim ignores the age of a processing row ...               *)
ClaimableYoung(e) == RowStatus(e) \in {"received", "failed", "processing"}

(* ... never takes over a stale one ...                                    *)
ClaimableFresh(e) == RowStatus(e) \in {"received", "failed"}

(* ... or takes any event that is recorded.                                *)
ClaimableAny(e) == RowStatus(e) \notin {"absent", "ignored"}

Claimable(e) == RowStatus(e) \in {"received", "failed"} \/ IsStale(e)

ClaimWebhookEvent(e) == SetRow(e, "processing")

FailWebhookEvent(e) == IF RowStatus(e) = "processing"
                       THEN SetRow(e, "failed") ELSE UNCHANGED webhookEvents

MarkWebhookIgnored(e) == SetRow(e, "ignored")

-----------------------------------------------------------------------------
(* buildCompletion: what an event asks of its order.                       *)

(* Faulty: a completed session counts as paid.                             *)
TargetUnread == [completed_paid   |-> "paid",
                 completed_unpaid |-> "paid",
                 async_succeeded  |-> "paid",
                 async_failed     |-> "failed",
                 expired          |-> "expired"]

TargetOf == [completed_paid   |-> "paid",
             completed_unpaid |-> "processing",
             async_succeeded  |-> "paid",
             async_failed     |-> "failed",
             expired          |-> "expired"]

ChecksAmount == {"completed_paid", "completed_unpaid", "async_succeeded"}

(* Faulty: the amount is not compared.                                     *)
UnpricedCompletions(e) == IF orders[e.order].session THEN {TargetOf[e.kind]} ELSE {}

SessionCompletions(e) ==
  IF /\ orders[e.order].session
     /\ e.kind \in ChecksAmount => e.order \notin Mispriced
  THEN {TargetOf[e.kind]} ELSE {}

(* Faulty: a refund that comes before its payment is taken as done.        *)
EarlyRefundCompletions(e) ==
  LET row == orders[e.order]
  IN  IF ~row.intent \/ row.status # "paid" THEN {NoChange} ELSE {"refunded"}

RefundCompletions(e) ==
  LET row == orders[e.order]
  IN  IF ~row.intent THEN {}
      ELSE CASE row.status = "refunded" -> {NoChange}
             [] row.status = "paid" /\ e.order \notin Mispriced -> {"refunded"}
             [] OTHER -> {}

(* The completion of an event; the empty set when building it is an error. *)
BuildCompletion(e) ==
  CASE e.kind \in SessionKinds -> SessionCompletions(e)
    [] e.kind = "refunded"     -> RefundCompletions(e)
    [] OTHER                   -> {NoChange}

(* The order update of a completion touches the order's row.               *)
Applies(o, target) == /\ orders[o].status \in AllowedFrom[target]
                      /\ target # "refunded" =>
                           orders[o].status \notin {"paid", "refunded"}

(* Faulty: the intent is recorded only when the session completes unpaid.  *)
RecordsIntentOnce(target) == target = "processing"

(* Only the completions of a paid or unpaid session carry an intent.       *)
RecordsIntent(target) == target \in {"paid", "processing"}

Updated(row, target) == [row EXCEPT !.status = target,
                                    !.intent = @ \/ RecordsIntent(target)]

(* The order update of a completion touches a row, or there is none.       *)
Touches(e, target) == target # NoChange => Applies(e.order, target)

(* Faulty: an update that touched no row is not looked into.               *)
CanCompleteAnyway(e, target) == RowStatus(e) = "processing"

(* The transaction of CompleteWebhookProcessing goes through at once when  *)
(* it has no order to update, or updates its order: the row stays locked   *)
(* until the commit ...                                                    *)
CanComplete(e, target) == RowStatus(e) = "processing" /\ Touches(e, target)

(* Faulty: the event is marked and the order update is lost.               *)
CompleteEventOnly(e, target) == SetRow(e, "processed") /\ UNCHANGED orders

(* ... and then does this, atomically.                                     *)
CompleteWebhookProcessing(e, target) ==
  /\ SetRow(e, "processed")
  /\ IF target # NoChange /\ Applies(e.order, target)
     THEN orders' = [orders EXCEPT ![e.order] = Updated(@, target)]
     ELSE UNCHANGED orders

-----------------------------------------------------------------------------
(* Handle, one database call per action.                                   *)

(* Stripe posts an emitted event, for the first time or again.             *)
Deliver(h, e) ==
  /\ pc[h] = "idle"
  /\ e \in emitted
  /\ pc' = [pc EXCEPT ![h] = "get"]
  /\ job' = [job EXCEPT ![h] = e]
  /\ UNCHANGED <<stripeVars, tables, elapsed, completion, outcome, acked, faults>>

AfterRecording(e) == IF e.kind \in HandledKinds THEN "claim" ELSE "ignore"

GetEvent(h) ==
  /\ pc[h] = "get"
  /\ \/ /\ Succeeds(h)
        /\ \/ RowStatus(job[h]) = "absent" /\ Goto(h, "insert")
           \/ /\ RowStatus(job[h]) \in {"processed", "ignored"}
              /\ Answer(h, "acknowledged")
           \/ /\ RowStatus(job[h]) = "failed" \/ IsStale(job[h])
              /\ Goto(h, AfterRecording(job[h]))
           \/ /\ RowStatus(job[h]) \in {"received", "processing"}
              /\ ~IsStale(job[h])
              /\ Answer(h, "retry_later")
     \/ Fails(h) /\ Answer(h, "retry_later")
  /\ UNCHANGED <<stripeVars, tables, acked>>

(* Faulty: the insert overwrites a row that is there.                      *)
OverwriteEvent(h) ==
  /\ pc[h] = "insert"
  /\ \/ /\ Succeeds(h)
        /\ InsertWebhookEvent(job[h])
        /\ Goto(h, AfterRecording(job[h]))
     \/ Fails(h) /\ Answer(h, "retry_later") /\ UNCHANGED webhookEvents
  /\ UNCHANGED <<stripeVars, orders, acked>>

InsertEvent(h) ==
  /\ pc[h] = "insert"
  /\ \/ /\ Succeeds(h) /\ RowStatus(job[h]) = "absent"
        /\ InsertWebhookEvent(job[h])
        /\ Goto(h, AfterRecording(job[h]))
     \/ /\ Succeeds(h) /\ RowStatus(job[h]) # "absent"
        /\ Goto(h, "race")
        /\ UNCHANGED webhookEvents
     \/ /\ LosesReply(h) /\ RowStatus(job[h]) = "absent"
        /\ InsertWebhookEvent(job[h])
        /\ Answer(h, "retry_later")
     \/ /\ Fails(h)
        /\ Answer(h, "retry_later")
        /\ UNCHANGED webhookEvents
  /\ UNCHANGED <<stripeVars, orders, acked>>

(* handleExistingAfterInsertRace                                           *)
GetAfterInsertRace(h) ==
  /\ pc[h] = "race"
  /\ \/ /\ Succeeds(h)
        /\ \/ /\ RowStatus(job[h]) \in {"processed", "ignored"}
              /\ Answer(h, "acknowledged")
           \/ /\ RowStatus(job[h]) \notin {"processed", "ignored"}
              /\ Answer(h, "retry_later")
     \/ Fails(h) /\ Answer(h, "retry_later")
  /\ UNCHANGED <<stripeVars, tables, acked>>

(* An event type without a builder; an error is logged and acknowledged.   *)
IgnoreEvent(h) ==
  /\ pc[h] = "ignore"
  /\ \/ (Succeeds(h) \/ LosesReply(h)) /\ MarkWebhookIgnored(job[h])
     \/ Fails(h) /\ UNCHANGED webhookEvents
  /\ Answer(h, "acknowledged")
  /\ UNCHANGED <<stripeVars, orders, acked>>

ClaimEvent(h) ==
  /\ pc[h] = "claim"
  /\ \/ /\ Succeeds(h) /\ Claimable(job[h])
        /\ ClaimWebhookEvent(job[h])
        /\ Goto(h, "build")
     \/ /\ Succeeds(h) /\ ~Claimable(job[h])
        /\ Goto(h, "unclaimed")
        /\ UNCHANGED webhookEvents
     \/ /\ LosesReply(h) /\ Claimable(job[h])
        /\ ClaimWebhookEvent(job[h])
        /\ Answer(h, "retry_later")
     \/ /\ Fails(h)
        /\ Answer(h, "retry_later")
        /\ UNCHANGED webhookEvents
  /\ UNCHANGED <<stripeVars, orders, acked>>

(* Faulty: an event that another handler is processing is acknowledged.    *)
AckUnclaimed(h) ==
  /\ pc[h] = "unclaimed"
  /\ \/ Succeeds(h) /\ Answer(h, "acknowledged")
     \/ Fails(h) /\ Answer(h, "retry_later")
  /\ UNCHANGED <<stripeVars, tables, acked>>

(* handleUnclaimedEvent                                                    *)
GetUnclaimed(h) ==
  /\ pc[h] = "unclaimed"
  /\ \/ /\ Succeeds(h)
        /\ \/ RowStatus(job[h]) = "processed" /\ Answer(h, "acknowledged")
           \/ RowStatus(job[h]) = "failed" /\ Answer(h, "processing_failed")
           \/ /\ RowStatus(job[h]) \notin {"processed", "failed"}
              /\ Answer(h, "retry_later")
     \/ Fails(h) /\ Answer(h, "retry_later")
  /\ UNCHANGED <<stripeVars, tables, acked>>

(* Every builder but that of a partial refund looks the order up.          *)
LooksUpOrder(e) == e.kind # "partially_refunded"

(* The order is looked up and the completion built, or building it fails.  *)
BuildEvent(h) ==
  /\ pc[h] = "build"
  /\ \/ /\ Succeeds(h) \/ (~LooksUpOrder(job[h]) /\ UNCHANGED faults)
        /\ \E c \in BuildCompletion(job[h]) :
             completion' = [completion EXCEPT ![h] = c]
        /\ pc' = [pc EXCEPT ![h] = "complete"]
        /\ UNCHANGED <<job, elapsed, outcome>>
     \/ /\ \/ Succeeds(h) /\ BuildCompletion(job[h]) = {}
           \/ Fails(h) /\ LooksUpOrder(job[h])
        /\ Goto(h, "fail")
  /\ UNCHANGED <<stripeVars, tables, acked>>

(* An error of FailWebhookEvent is only logged.                            *)
FailEvent(h) ==
  /\ pc[h] = "fail"
  /\ \/ (Succeeds(h) \/ LosesReply(h)) /\ FailWebhookEvent(job[h])
     \/ Fails(h) /\ UNCHANGED webhookEvents
  /\ Answer(h, "processing_failed")
  /\ UNCHANGED <<stripeVars, orders, acked>>

(* The transaction of CompleteWebhookProcessing, up to its commit unless   *)
(* the update of the order touches no row.                                 *)
CompleteEvent(h) ==
  /\ pc[h] = "complete"
  /\ \/ /\ Succeeds(h) /\ CanComplete(job[h], completion[h])
        /\ CompleteWebhookProcessing(job[h], completion[h])
        /\ Answer(h, "acknowledged")
     \/ /\ LosesReply(h) /\ CanComplete(job[h], completion[h])
        /\ CompleteWebhookProcessing(job[h], completion[h])
        /\ Answer(h, "processing_failed")
     \/ /\ Succeeds(h) /\ ~CanComplete(job[h], completion[h])
        /\ IF Touches(job[h], completion[h])
           THEN Answer(h, "processing_failed") ELSE Goto(h, "ensure")
        /\ UNCHANGED tables
     \/ /\ Fails(h)
        /\ Answer(h, "processing_failed")
        /\ UNCHANGED tables
  /\ UNCHANGED <<stripeVars, acked>>

(* ensureOrderWebhookEffect reads the order again, without a lock.         *)
EnsureEffect(h) ==
  /\ pc[h] = "ensure"
  /\ LET satisfied == WebhookOrderEffectSatisfied(orders[job[h].order].status, completion[h])
     IN  \/ Succeeds(h) /\ satisfied /\ Goto(h, "mark")
         \/ /\ (Succeeds(h) /\ ~satisfied) \/ Fails(h)
            /\ Answer(h, "processing_failed")
  /\ UNCHANGED <<stripeVars, tables, acked>>

(* The event is marked and the transaction committed.                      *)
MarkEvent(h) ==
  /\ pc[h] = "mark"
  /\ \/ /\ Succeeds(h) /\ RowStatus(job[h]) = "processing"
        /\ SetRow(job[h], "processed")
        /\ Answer(h, "acknowledged")
     \/ /\ LosesReply(h) /\ RowStatus(job[h]) = "processing"
        /\ SetRow(job[h], "processed")
        /\ Answer(h, "processing_failed")
     \/ /\ (Succeeds(h) /\ RowStatus(job[h]) # "processing") \/ Fails(h)
        /\ Answer(h, "processing_failed")
        /\ UNCHANGED webhookEvents
  /\ UNCHANGED <<stripeVars, orders, acked>>

(* Stripe takes a 200 as the end of the event, unless it never arrives.    *)
Respond(h) ==
  /\ pc[h] = "respond"
  /\ Release(h)
  /\ \/ /\ Succeeds(h)
        /\ acked' = IF outcome[h] = "acknowledged" THEN acked \cup {job[h]} ELSE acked
     \/ Fails(h) /\ UNCHANGED acked
  /\ UNCHANGED <<stripeVars, tables>>

HandlerStep(h) ==
  \/ GetEvent(h)     \/ InsertEvent(h)  \/ GetAfterInsertRace(h)
  \/ IgnoreEvent(h)  \/ ClaimEvent(h)   \/ GetUnclaimed(h)
  \/ BuildEvent(h)   \/ FailEvent(h)
  \/ CompleteEvent(h) \/ EnsureEffect(h) \/ MarkEvent(h)
  \/ Respond(h)

-----------------------------------------------------------------------------
(* Failures and time.                                                      *)

Busy(h) == pc[h] # "idle"

(* The process that runs the handler dies.                                 *)
CrashHandler(h) ==
  /\ Busy(h) /\ MayFault
  /\ Release(h)
  /\ UNCHANGED <<stripeVars, tables, acked>>

(* Stripe hangs up, or the handler is so slow that it meets its deadline.  *)
ContextDone(h) ==
  /\ Busy(h) /\ Live(h) /\ MayFault
  /\ elapsed' = [elapsed EXCEPT ![h] = RequestTimeout]
  /\ UNCHANGED <<stripeVars, tables, pc, job, completion, outcome, acked>>

(* Faulty: the age of a row is not bounded.                                *)
OlderForever(age, limit) == age + 1

Older(age, limit) == IF age < limit THEN age + 1 ELSE age

(* A unit of time passes; running into the deadline is left to ContextDone. *)
Tick ==
  /\ \A h \in Handlers : Busy(h) => elapsed[h] # RequestTimeout - 1
  /\ elapsed' = [h \in Handlers |->
       IF Busy(h) THEN Older(elapsed[h], RequestTimeout) ELSE elapsed[h]]
  /\ webhookEvents' = [e \in Event |->
       IF RowStatus(e) = "processing"
       THEN [webhookEvents[e] EXCEPT !.age = Older(@, StaleAfter)]
       ELSE webhookEvents[e]]
  /\ UNCHANGED <<stripeVars, orders, pc, job, completion, outcome, acked, faults>>

WebhookStep ==
  \/ \E h \in Handlers : \/ \E e \in Event : Deliver(h, e)
                         \/ HandlerStep(h)
                         \/ CrashHandler(h)
                         \/ ContextDone(h)
  \/ Tick

Next == \/ WebhookStep
        \/ StripeStep /\ UNCHANGED <<orders, webhookVars, faults>>

Spec == WebhookInit /\ [][Next]_vars

(* Handlers do not stop by themselves and time passes.  Stripe repeats an  *)
(* event until it is answered 200; the server accepts every request, so    *)
(* that a delivery is not starved by others (SF, as slots are few here).   *)
Redeliver(e) == e \notin acked /\ \E h \in Handlers : Deliver(h, e)

WebhookFairness == /\ \A h \in Handlers : WF_vars(HandlerStep(h))
                   /\ \A e \in {d \in Event : d.kind \in HandledKinds} :
                        SF_vars(Redeliver(e))
                   /\ WF_vars(Tick)

FairSpec == Spec /\ WebhookFairness

-----------------------------------------------------------------------------
(* Safety.                                                                 *)

(* What Stripe can know once an order has a status.                        *)
Justifies ==
  [pending    |-> Payments,
   processing |-> {"unpaid", "paid", "failed", "refunded"},
   paid       |-> {"paid", "refunded"},
   failed     |-> {"failed"},
   expired    |-> {"expired"},
   canceled   |-> {},
   refunded   |-> {"refunded"}]

(* The orders table is never ahead of Stripe: whatever the order in which  *)
(* events arrive and handlers run, an order is paid only if Stripe took    *)
(* the money, refunded only if it gave it back, failed or expired only if  *)
(* the payment was; and no amount but the order's own moves it forward.    *)
OrdersFollowStripe ==
  \A o \in Orders :
    /\ payment[o] \in Justifies[orders[o].status]
    /\ orders[o].status \in {"processing", "paid", "refunded"} => o \notin Mispriced

(* The statuses in which an order still shows the effect of an event.      *)
Reflects ==
  [completed_paid     |-> {"paid", "refunded"},
   completed_unpaid   |-> {"processing", "paid", "failed", "refunded"},
   async_succeeded    |-> {"paid", "refunded"},
   async_failed       |-> {"failed"},
   expired            |-> {"expired"},
   refunded           |-> {"refunded"},
   partially_refunded |-> OrderStatuses,
   unhandled          |-> OrderStatuses]

(* No effect is lost: as long as an event is recorded as processed, its    *)
(* order shows its effect, though later and older events have moved it.    *)
ProcessedIsReflected ==
  \A e \in Event :
    RowStatus(e) = "processed" => orders[e.order].status \in Reflects[e.kind]

(* Stripe is told 200, and so stops repeating a handled event, only when   *)
(* the event is recorded as processed.                                     *)
AckedIsProcessed ==
  \A e \in acked : e.kind \in HandledKinds => RowStatus(e) = "processed"

Owning(h) == pc[h] \in {"build", "fail", "complete", "ensure", "mark"} /\ Live(h)

(* A claim is exclusive: of the handlers that can still write, at most one *)
(* is past the claim of an event, and the event is processing, not stale,  *)
(* for as long as that handler lives (the deadline ends before the claim). *)
ClaimIsExclusive ==
  \A h \in Handlers : Owning(h) =>
    /\ RowStatus(job[h]) = "processing"
    /\ webhookEvents[job[h]].age < StaleAfter
    /\ \A g \in Handlers : Owning(g) /\ job[g] = job[h] => g = h

(* A processed event is never opened again: no claim, failure mark or      *)
(* ignore mark of a slower handler reaches it.                             *)
ProcessedIsFinal ==
  [][\A e \in Event : RowStatus(e) = "processed" => RowStatus(e)' = "processed"]_vars

(* The whole service implements the ledger: events take effect atomically, *)
(* at most once, and orders only move forward.                             *)
Ledger == INSTANCE PaymentLedger
            WITH status  <- [o \in Orders |-> orders[o].status],
                 applied <- {e \in Event : RowStatus(e) = "processed"}

ImplementsLedger == Ledger!LedgerSpec

-----------------------------------------------------------------------------
(* Liveness.                                                               *)

(* Recorded, and no handler left that will claim it: Handle answers every  *)
(* later delivery of a received event with RetryLater.                     *)
Orphaned(e) == /\ RowStatus(e) = "received"
               /\ \A h \in Handlers : pc[h] = "claim" => job[h] # e

(* The session completed unpaid, but the later failure was handled first.  *)
Overtaken(e) == e.kind = "completed_unpaid" /\ orders[e.order].status = "failed"

(* Its order's stored amount is not the one Stripe collected.              *)
Refused(e) == /\ e.order \in Mispriced
              /\ e.kind \in ChecksAmount \cup {"refunded"}

(* A refund waits for a payment event that is itself orphaned.             *)
Blocked(e) == /\ e.kind = "refunded"
              /\ \E d \in Event : /\ d.order = e.order
                                  /\ d.kind \in {"completed_paid", "async_succeeded"}
                                  /\ Orphaned(d)

Settled(e) == \/ RowStatus(e) = "processed"
              \/ Orphaned(e) \/ Blocked(e)
              \/ Overtaken(e) \/ Refused(e)

(* Every handled event Stripe emits is processed in the end, through       *)
(* errors, crashes, hang-ups and stale claims, but for the four ways in    *)
(* which an event gets stuck; and what is settled stays settled.           *)
EventuallyProcessed ==
  <>[](\A e \in emitted : e.kind \in HandledKinds => Settled(e))

(* Those ways are dead ends: no later delivery, retry, stale claim or      *)
(* other event of the order frees an event that is stuck, and none that is *)
(* processed gets stuck.                                                   *)
SettledIsFinal ==
  [][\A e \in Event :
       e.kind \in HandledKinds /\ Settled(e) => Settled(e)']_vars

-----------------------------------------------------------------------------
(* Two statements of the repository's texts that Handle does not meet.     *)

(* "WebhookOutcomeRetryLater means Stripe should retry the event later":   *)
(* the retries of an event that is received lead it on to processing or    *)
(* ignored.                                                                *)
ReceivedMovesOn ==
  \A e \in Event : RowStatus(e) = "received" ~> RowStatus(e) # "received"

(* "Webhooks may arrive out of order": the notice that a session completed *)
(* unpaid is absorbed even if the outcome of its payment is handled first. *)
LateNoticeIsAbsorbed ==
  \A e \in Event : e.kind = "completed_unpaid" =>
    (e \in emitted ~> RowStatus(e) = "processed")
=============================================================================
