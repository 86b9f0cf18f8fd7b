--------------------------- MODULE PaymentLedger ---------------------------
(***************************************************************************)
(* What the webhook side promises: an inbox that applies every event it    *)
(* accepts to its order in one step and at most once, and a status that    *)
(* only moves forward.  Nothing is said of rows, claims, handlers or time. *)
(***************************************************************************)
EXTENDS OrderDomain, Stripe, Naturals

VARIABLES status,    \* the status of each order
          applied    \* the events that have taken effect

ledgerVars == <<stripeVars, status, applied>>

(* The moves of an order's status; paid and refunded are never left for    *)
(* anything but a refund.                                                  *)
Forward == {<<"pending", "processing">>, <<"pending", "paid">>,
            <<"pending", "failed">>, <<"pending", "expired">>,
            <<"processing", "paid">>, <<"processing", "failed">>,
            <<"paid", "refunded">>}

Rank == [pending |-> 0, processing |-> 1, failed |-> 2, expired |-> 2,
         canceled |-> 2, paid |-> 3, refunded |-> 4]

(* The status an event tells of; a partial refund tells of none.           *)
Told == [completed_paid   |-> "paid",   completed_unpaid |-> "processing",
         async_succeeded  |-> "paid",   async_failed     |-> "failed",
         expired          |-> "expired", refunded        |-> "refunded"]

LedgerInit ==
  /\ payment = [o \in Orders |-> "open"]
  /\ emitted = {}
  /\ status = [o \in Orders |-> "pending"]
  /\ applied = {}

(* The order moves forward to what the event tells, or is there already.   *)
Takes(e, new) ==
  LET old == status[e.order]
  IN  /\ new # old => e.kind \in DOMAIN Told /\ new = Told[e.kind] /\ <<old, new>> \in Forward
      /\ e.kind \in DOMAIN Told => Rank[new] >= Rank[Told[e.kind]]

Apply(e) ==
  /\ e \in emitted \ applied
  /\ e.kind \in HandledKinds
  /\ \E new \in OrderStatuses :
       /\ Takes(e, new)
       /\ status' = [status EXCEPT ![e.order] = new]
  /\ applied' = applied \cup {e}
  /\ UNCHANGED stripeVars

LedgerNext == \/ \E e \in Event : Apply(e)
              \/ StripeStep /\ UNCHANGED <<status, applied>>

LedgerSpec == LedgerInit /\ [][LedgerNext]_ledgerVars
=============================================================================
