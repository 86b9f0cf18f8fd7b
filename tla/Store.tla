------------------------------- MODULE Store -------------------------------
(***************************************************************************)
(* What the services share: the orders table and the failures around them. *)
(* Every failed or half-failed call, hang-up and crash is counted, so that *)
(* an instance has finitely many of them.                                  *)
(***************************************************************************)
EXTENDS OrderDomain, Stripe, Naturals

CONSTANT MaxFaults    \* bound on failed calls, hang-ups and crashes

ASSUME FaultsAssumption == MaxFaults \in Nat

VARIABLES orders,     \* the orders table
          faults      \* failures so far

(* Of an order row: its status, whether stripe_checkout_session_id is set, *)
(* and whether stripe_payment_intent_id is.                                *)
OrderRow == [status : OrderStatuses, session : BOOLEAN, intent : BOOLEAN]

MayFault == faults < MaxFaults /\ faults' = faults + 1
=============================================================================
