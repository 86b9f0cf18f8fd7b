------------------------------- MODULE Stripe -------------------------------
(***************************************************************************)
(* The part of Stripe the backend depends on, as src/ uses it: at most one *)
(* Checkout Session per order (the session is created with the order id as *)
(* idempotency key), the fate of its payment, and the events Stripe has    *)
(* emitted about it.  Events stay in `emitted' and are delivered in any    *)
(* order, any number of times.                                             *)
(***************************************************************************)

CONSTANTS Orders,     \* orders, and with them their Checkout Sessions
          Kinds,      \* the kinds of event that occur
          OtherTimes  \* when Stripe tells of something that is not handled

SessionKinds == {"completed_paid", "completed_unpaid", "async_succeeded",
                 "async_failed", "expired"}
ChargeKinds  == {"refunded", "partially_refunded"}
HandledKinds == SessionKinds \cup ChargeKinds
AllKinds     == HandledKinds \cup {"unhandled"}

ASSUME KindsAssumption == Kinds \subseteq AllKinds

(* What Stripe knows of the session of an order.                           *)
Payments == {"none", "open", "unpaid", "paid", "failed", "expired", "refunded"}

ASSUME OtherAssumption == OtherTimes \subseteq Payments \ {"none"}

Event == [order : Orders, kind : Kinds]

VARIABLES payment,    \* the fate of each order's session
          emitted     \* the events Stripe has created

stripeVars == <<payment, emitted>>

StripeTypeOK == /\ payment \in [Orders -> Payments]
                /\ emitted \subseteq Event

-----------------------------------------------------------------------------

(* Stripe moves a payment and records the event that tells of it.          *)
Moves(o, from, to, kind) ==
  /\ kind \in Kinds
  /\ payment[o] = from
  /\ payment' = [payment EXCEPT ![o] = to]
  /\ emitted' = emitted \cup {[order |-> o, kind |-> kind]}

(* An event that changes nothing about the payment.                        *)
Tells(o, in, kind) ==
  /\ kind \in Kinds
  /\ payment[o] \in in
  /\ [order |-> o, kind |-> kind] \notin emitted
  /\ emitted' = emitted \cup {[order |-> o, kind |-> kind]}
  /\ UNCHANGED payment

(* The API call of the backend that opens a session; it emits no event.    *)
CreateSession(o) == /\ payment[o] = "none"
                    /\ payment' = [payment EXCEPT ![o] = "open"]
                    /\ UNCHANGED emitted

PayByCard(o)     == Moves(o, "open", "paid", "completed_paid")
PayLater(o)      == Moves(o, "open", "unpaid", "completed_unpaid")
SettleLater(o)   == Moves(o, "unpaid", "paid", "async_succeeded")
BounceLater(o)   == Moves(o, "unpaid", "failed", "async_failed")
ExpireSession(o) == Moves(o, "open", "expired", "expired")
RefundFully(o)   == Moves(o, "paid", "refunded", "refunded")
RefundPartly(o)  == Tells(o, {"paid"}, "partially_refunded")
TellOther(o)     == Tells(o, OtherTimes, "unhandled")

StripeStep == \E o \in Orders :
  \/ PayByCard(o)   \/ PayLater(o)
  \/ SettleLater(o) \/ BounceLater(o)
  \/ ExpireSession(o)
  \/ RefundFully(o) \/ RefundPartly(o)
  \/ TellOther(o)
=============================================================================
