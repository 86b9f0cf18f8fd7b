----------------------------- MODULE WebhookInv -----------------------------
(***************************************************************************)
(* The inductive invariant behind the safety properties of Webhook.        *)
(***************************************************************************)
EXTENDS Webhook

(* What Stripe can know once it has emitted an event.                      *)
After ==
  [completed_paid     |-> {"paid", "refunded"},
   completed_unpaid   |-> {"unpaid", "paid", "failed", "refunded"},
   async_succeeded    |-> {"paid", "refunded"},
   async_failed       |-> {"failed"},
   expired            |-> {"expired"},
   refunded           |-> {"refunded"},
   partially_refunded |-> {"paid", "refunded"},
   unhandled          |-> Payments]

EventsAreTrue == \A e \in emitted : payment[e.order] \in After[e.kind]

WorkIsEmitted ==
  /\ \A h \in Handlers : Busy(h) => job[h] \in emitted
  /\ \A e \in Event : RowStatus(e) # "absent" => e \in emitted

(* Only handled events are claimed, only the others are ignored.           *)
KindsAreSeparate ==
  /\ \A h \in Handlers :
       /\ pc[h] \in {"claim", "unclaimed", "build", "fail", "complete", "ensure", "mark"} =>
            job[h].kind \in HandledKinds
       /\ pc[h] = "ignore" => job[h].kind \notin HandledKinds
  /\ \A e \in Event :
       /\ RowStatus(e) \in {"processing", "processed", "failed"} => e.kind \in HandledKinds
       /\ RowStatus(e) = "ignored" => e.kind \notin HandledKinds

(* A completion is still right when it is carried out.                     *)
Fits(e, target) ==
  \/ /\ e.kind \in SessionKinds
     /\ target = TargetOf[e.kind]
     /\ e.kind \in ChecksAmount => e.order \notin Mispriced
  \/ /\ e.kind = "refunded"
     /\ \/ target = "refunded" /\ e.order \notin Mispriced
        \/ target = NoChange /\ orders[e.order].status = "refunded"
  \/ e.kind = "partially_refunded" /\ target = NoChange

CompletionsFit ==
  \A h \in Handlers : pc[h] \in {"complete", "ensure"} => Fits(job[h], completion[h])

(* The effect that a transaction has found in an order stays there while   *)
(* it goes on to mark the event.                                           *)
MarksAreEarned ==
  \A h \in Handlers :
    pc[h] = "mark" => orders[job[h].order].status \in Reflects[job[h].kind]

AcksAreEarned ==
  \A h \in Handlers :
    /\ pc[h] = "respond"
    /\ outcome[h] = "acknowledged"
    /\ job[h].kind \in HandledKinds
    => RowStatus(job[h]) = "processed"

(* A live owner's row is no older than its request.                        *)
ClaimIsHeld ==
  \A h \in Handlers : Owning(h) =>
    /\ RowStatus(job[h]) = "processing"
    /\ webhookEvents[job[h]].age <= elapsed[h]
    /\ \A g \in Handlers : Owning(g) /\ job[g] = job[h] => g = h

(* What the handlers and the rows of webhook_events keep between them,     *)
(* whoever else writes to the orders table and whatever becomes of the     *)
(* payments.                                                               *)
RowsInv ==
  /\ HandlersTypeOK
  /\ emitted \subseteq Event
  /\ WorkIsEmitted
  /\ KindsAreSeparate
  /\ AcksAreEarned
  /\ ClaimIsHeld
  /\ AckedIsProcessed

Inv ==
  /\ WebhookTypeOK
  /\ EventsAreTrue
  /\ WorkIsEmitted
  /\ KindsAreSeparate
  /\ CompletionsFit
  /\ MarksAreEarned
  /\ AcksAreEarned
  /\ ClaimIsHeld
  /\ OrdersFollowStripe
  /\ ProcessedIsReflected
  /\ AckedIsProcessed
=============================================================================
