---------------------------- MODULE OrderDomain ----------------------------
(***************************************************************************)
(* The status values of an order and of a webhook event, and the tables    *)
(* the webhook code consults to move an order: which status an event aims  *)
(* at, from which statuses that move is allowed, and when a move that      *)
(* touched no row counts as already done.                                  *)
(***************************************************************************)

OrderStatuses ==
  {"pending", "processing", "paid", "failed", "expired", "canceled", "refunded"}

WebhookStatuses == {"received", "processing", "processed", "ignored", "failed"}

(* A WebhookCompletion that changes no order (NewStatus "" and no refund). *)
NoChange == "no_change"

Targets == {"processing", "paid", "failed", "expired", "refunded"}

(* Faulty: a payment or the end of a session revives a canceled order.     *)
RevivesCanceled ==
  [processing |-> {"pending"},
   paid       |-> {"pending", "processing", "canceled"},
   failed     |-> {"pending", "processing"},
   expired    |-> {"pending", "canceled"},
   refunded   |-> {"paid"}]

(* The AllowedFrom list each builder puts into its completion, and the     *)
(* status = 'paid' condition of the refund update.                         *)
AllowedFrom ==
  [processing |-> {"pending"},
   paid       |-> {"pending", "processing"},
   failed     |-> {"pending", "processing"},
   expired    |-> {"pending"},
   refunded   |-> {"paid"}]

(* The statuses that already reflect a move to a target.                   *)
SatisfiedBy ==
  [processing |-> {"processing", "paid", "refunded"},
   paid       |-> {"paid", "refunded"},
   failed     |-> {"failed", "paid", "refunded"},
   expired    |-> {"expired", "paid", "refunded"},
   refunded   |-> {"refunded"}]

(* Faulty: an update of no row always counts as done.                      *)
AlwaysSatisfied(current, target) == TRUE

WebhookOrderEffectSatisfied(current, target) == current \in SatisfiedBy[target]
=============================================================================
