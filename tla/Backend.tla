------------------------------ MODULE Backend ------------------------------
(***************************************************************************)
(* The webhook service and the checkout service at work on one orders      *)
(* table, with the customers and Stripe between them: a session opened by  *)
(* a checkout request, and shown by it or by a replay, is paid, and its    *)
(* events arrive while the request may still be running.                   *)
(***************************************************************************)
EXTENDS Webhook, Checkout, LineItems

backendVars == <<vars, checkoutVars>>

BackendInit == CheckoutInit /\ HandlersInit

(* What Stripe does by itself once a customer has used a session.          *)
PaymentMovesOn ==
  /\ \E o \in Orders : \/ SettleLater(o) \/ BounceLater(o)
                       \/ RefundFully(o) \/ RefundPartly(o) \/ TellOther(o)
  /\ UNCHANGED <<orders, faults, checkoutVars>>

BackendNext ==
  \/ WebhookStep /\ UNCHANGED checkoutVars
  \/ /\ CheckoutStep \/ CustomerPays \/ SessionTimesOut \/ PaymentMovesOn
     /\ UNCHANGED webhookVars

BackendSpec == BackendInit /\ [][BackendNext]_backendVars

FairBackendSpec == BackendSpec /\ WebhookFairness /\ CheckoutFairness

-----------------------------------------------------------------------------
(* Safety.                                                                 *)

BackendTypeOK == CheckoutTypeOK /\ HandlersTypeOK

(* Every order that is alive, whichever service wrote its status last, is  *)
(* where Stripe's account of its payment allows, and an order whose money  *)
(* Stripe has taken or is taking has its session on record; no amount but  *)
(* the order's own is accepted.                                            *)
LiveOrdersFollowStripe ==
  \A o \in Orders :
    /\ Alive(o) => payment[o] \in Justifies[orders[o].status]
    /\ payment[o] \in {"paid", "unpaid", "refunded"} => orders[o].session
    /\ orders[o].status \in {"processing", "paid", "refunded"} => o \notin Mispriced

(* Whatever wraps on the way to the stored total, no order is paid by      *)
(* another amount than that of its lines: the baskets an order that moves  *)
(* towards paid can be for are those whose whole amount fits its width.    *)
PaidAmountIsExact ==
  \A o \in Orders : orders[o].status \in {"processing", "paid", "refunded"} =>
    AmountFits[(o \in Mispriced)] \subseteq {TRUE}

(* The webhook never revives an order that the checkout gave up: what is   *)
(* canceled stays canceled, even when a completion was built before.       *)
CanceledIsFinal ==
  [][\A o \in Orders :
       orders[o].status = "canceled" => orders'[o].status = "canceled"]_backendVars

(* A live request has found the effect of an event in its order, by the    *)
(* read without a lock, and has only to mark the event.                    *)
EffectSeen(e) == \E h \in Handlers : pc[h] = "mark" /\ job[h] = e /\ Live(h)

(* When an event becomes processed, its order shows its effect, also when  *)
(* a cleanup or a compensation came between the lookup and the update.     *)
(* Only after the order was seen to show it can a compensation come before *)
(* the commit: then the order is canceled, as if it had come after it.     *)
ProcessingTakesEffect ==
  [][\A e \in Event :
       RowStatus(e) # "processed" /\ RowStatus(e)' = "processed" =>
         \/ orders'[e.order].status \in Reflects[e.kind]
         \/ orders'[e.order].status = "canceled" /\ EffectSeen(e)]_backendVars

(* An event that asks something of an order that is canceled by now, and   *)
(* of which no request has seen the effect before.                         *)
TooLate(e) == /\ e.kind \in SessionKinds \cup {"refunded"}
              /\ orders[e.order].status = "canceled"
              /\ RowStatus(e) # "processed"
              /\ ~EffectSeen(e)

(* It stays unprocessed for good: no completion that was built before the  *)
(* order was canceled, and no redelivery, makes it count as done, so that  *)
(* Stripe goes on reporting it.                                            *)
CanceledTakesNothing ==
  [][\A e \in Event : TooLate(e) => TooLate(e)']_backendVars

-----------------------------------------------------------------------------
(* Liveness.                                                               *)

(* What a customer has paid is shown as paid in the end, whatever fails on *)
(* the way, unless the payment event is orphaned (see Webhook) or the      *)
(* checkout gave the order up.                                             *)
PaymentArrives ==
  \A o \in Orders :
    payment[o] = "paid" ~>
      \/ orders[o].status \in {"paid", "refunded", "canceled"}
      \/ \E e \in Event : e.order = o /\ e.kind # "expired" /\ Orphaned(e)

-----------------------------------------------------------------------------
(* A statement of the repository's texts that the services together do not *)
(* meet.                                                                   *)

(* "Forward-only; no downgrade from paid/refunded".                        *)
NoDowngrade ==
  [][\A o \in Orders :
       /\ orders[o].status = "paid" => orders'[o].status \in {"paid", "refunded"}
       /\ orders[o].status = "refunded" => orders'[o].status = "refunded"]_backendVars
=============================================================================
