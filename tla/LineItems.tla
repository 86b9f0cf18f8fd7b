----------------------------- MODULE LineItems -----------------------------
(***************************************************************************)
(* The amounts of an order.  buildCheckoutLineItems adds up the lines in   *)
(* int32, the tables refuse amounts that are not positive, and the webhook *)
(* compares the stored total with what Stripe has collected, which added   *)
(* the same lines without a width.                                         *)
(***************************************************************************)
EXTENDS Integers, Sequences

CONSTANTS Half,         \* the first amount too large to be stored (2^31)
          MaxUnit,      \* bound on unit_amount_cents
          MaxQuantity,  \* maxItemQuantity (99)
          MaxItems      \* maxCheckoutItems (20)

ASSUME WidthAssumption == Half \in Nat \ {0}
ASSUME BasketAssumption == MaxUnit \in Nat /\ MaxQuantity \in Nat /\ MaxItems \in Nat

(* Go's signed arithmetic.                                                 *)
Wrap(n) == ((n + Half) % (2 * Half)) - Half

(* What validateCheckoutInput and the products table let through.          *)
Item    == [unit : 1 .. MaxUnit, quantity : 1 .. MaxQuantity]
Baskets == UNION {[1 .. n -> Item] : n \in 1 .. MaxItems}

LineTotal(item) == Wrap(item.unit * item.quantity)

(* result.total, before the first line and after each of them.             *)
StoredTotals(items) ==
  LET total[i \in 0 .. Len(items)] ==
        IF i = 0 THEN 0 ELSE Wrap(total[i - 1] + LineTotal(items[i]))
  IN  total

StoredTotal(items) == StoredTotals(items)[Len(items)]

(* CHECK (line_total_cents > 0), CHECK (total_amount_cents > 0)            *)
Storable(items) == /\ \A i \in DOMAIN items : LineTotal(items[i]) > 0
                   /\ StoredTotal(items) > 0

(* amount_total, as Stripe reckons it.                                     *)
AmountTotals(items) ==
  LET total[i \in 0 .. Len(items)] ==
        IF i = 0 THEN 0 ELSE total[i - 1] + items[i].unit * items[i].quantity
  IN  total

AmountTotal(items) == AmountTotals(items)[Len(items)]

(* Faulty: Stripe's amount is narrowed before it is compared.              *)
NarrowAmountMatches(items) == StoredTotal(items) = Wrap(AmountTotal(items))

(* verifyCheckoutSessionAmount                                             *)
AmountMatches(items) == AmountTotal(items) > 0 /\ StoredTotal(items) = AmountTotal(items)

(* The storable baskets whose order the webhook finds mispriced, or does   *)
(* not find so.                                                            *)
BasketsOf(mispriced) ==
  {items \in Baskets : Storable(items) /\ (AmountMatches(items) <=> ~mispriced)}

(* Of either kind of basket: does the whole amount fit the stored width?   *)
AmountFits ==
  [mispriced \in BOOLEAN |->
     {AmountTotal(items) < Half : items \in BasketsOf(mispriced)}]
=============================================================================
