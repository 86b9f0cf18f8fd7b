-------------------------- MODULE LineItemsProofs --------------------------
(***************************************************************************)
(* Theorems about the amounts of LineItems, for every width of a stored    *)
(* amount and all limits of a basket: what overflow can do to a total, and *)
(* that the webhook's comparison notices it.                               *)
(***************************************************************************)
EXTENDS LineItems, WellFoundedInduction, TLAPS

USE WidthAssumption

(* Amounts that an integer of the stored width cannot tell apart.          *)
Alike(m, n) == \E q \in Int : m = n + 2 * Half * q

(* Overflows add up: the sums of amounts that are alike are alike.         *)
LEMMA AlikeSums ==
  ASSUME NEW k \in Int, NEW l \in Int, NEW m \in Int, NEW n \in Int,
         Alike(k, l), Alike(m, n)
  PROVE  Alike(k + m, l + n)
<1>1. PICK p \in Int : k = l + 2 * Half * p
  BY DEF Alike
<1>2. PICK q \in Int : m = n + 2 * Half * q
  BY DEF Alike
<1>3. Half * (p + q) = Half * p + Half * q
  BY <1>1, <1>2
<1>4. p + q \in Int
  OBVIOUS
<1>5. k + m = l + n + 2 * Half * (p + q)
  BY <1>1, <1>2, <1>3
<1> QED
  BY <1>4, <1>5 DEF Alike

(* No two amounts that can be stored are alike.                            *)
LEMMA AlikeStored ==
  ASSUME NEW m \in -Half .. Half - 1, NEW n \in -Half .. Half - 1, Alike(m, n)
  PROVE  m = n
<1>1. PICK q \in Int : m = n + 2 * Half * q
  BY DEF Alike
<1>2. q >= 1 => Half * q >= Half
  OBVIOUS
<1>3. q <= -1 => Half * q <= -Half
  OBVIOUS
<1> QED
  BY <1>1, <1>2, <1>3

(* Being alike passes on, in either direction.                             *)
LEMMA AlikeBoth ==
  ASSUME NEW k \in Int, NEW m \in Int, NEW n \in Int, Alike(k, n), Alike(m, n)
  PROVE  Alike(k, m)
<1>1. PICK p \in Int : k = n + 2 * Half * p
  BY DEF Alike
<1>2. PICK q \in Int : m = n + 2 * Half * q
  BY DEF Alike
<1>3. Half * (p - q) = Half * p - Half * q
  BY <1>1, <1>2
<1>4. p - q \in Int
  OBVIOUS
<1>5. k = m + 2 * Half * (p - q)
  BY <1>1, <1>2, <1>3
<1> QED
  BY <1>4, <1>5 DEF Alike

(* What is stored of an amount has the width and is like the amount.       *)
LEMMA WrapStores ==
  ASSUME NEW n \in Int
  PROVE  Wrap(n) \in -Half .. Half - 1 /\ Alike(Wrap(n), n)
<1> DEFINE d == 2 * Half
           q == (n + Half) \div d
<1>1. d \in Nat \ {0} /\ n + Half \in Int
  OBVIOUS
<1>2. Wrap(n) = ((n + Half) % d) - Half
  BY DEF Wrap
<1> HIDE DEF d
<1>3. q \in Int /\ (n + Half) % d \in 0 .. d - 1 /\ n + Half = d * q + ((n + Half) % d)
  BY <1>1
<1>4. d * (-q) = - (d * q) /\ -q \in Int
  BY <1>1, <1>3
<1>5. Wrap(n) = n + d * (-q)
  BY <1>1, <1>2, <1>3, <1>4
<1>6. Wrap(n) \in -Half .. Half - 1
  BY <1>2, <1>3 DEF d
<1> HIDE DEF q
<1>7. Alike(Wrap(n), n)
  BY <1>4, <1>5 DEF Alike, d
<1> QED
  BY <1>6, <1>7

(* An amount that has the width is stored as it is.                        *)
LEMMA WrapFits ==
  ASSUME NEW n \in -Half .. Half - 1
  PROVE  Wrap(n) = n
<1>1. Wrap(n) \in -Half .. Half - 1 /\ Alike(Wrap(n), n)
  BY WrapStores
<1> QED
  BY <1>1, AlikeStored

(* Wrapping a sum, or its parts before, stores the same.                   *)
LEMMA WrapSums ==
  ASSUME NEW m \in Int, NEW n \in Int
  PROVE  Wrap(Wrap(m) + Wrap(n)) = Wrap(m + n)
<1>1. /\ Wrap(m) \in Int /\ Alike(Wrap(m), m)
      /\ Wrap(n) \in Int /\ Alike(Wrap(n), n)
  BY WrapStores
<1>2. Alike(Wrap(m) + Wrap(n), m + n)
  BY <1>1, AlikeSums
<1>3. /\ Wrap(Wrap(m) + Wrap(n)) \in -Half .. Half - 1
      /\ Alike(Wrap(Wrap(m) + Wrap(n)), Wrap(m) + Wrap(n))
  BY <1>1, WrapStores
<1> QED
  BY <1>1, <1>2, <1>3, WrapStores, AlikeStored, AlikeBoth

-----------------------------------------------------------------------------
(* Induction along a finite run, for a set of numbers: the least number    *)
(* outside the set would have no place.                                    *)
LEMMA RunInduction ==
  ASSUME NEW n \in Nat, NEW S, 0 \in S, \A i \in 1 .. n : i - 1 \in S => i \in S
  PROVE  0 .. n \subseteq S
<1> DEFINE Out     == (0 .. n) \ S
           Smaller == {ss \in Nat \X Nat : ss[1] < ss[2]}
<1>1. SUFFICES ASSUME Out # {} PROVE FALSE
  OBVIOUS
<1>2. IsWellFoundedOn(Smaller, Nat)
  BY NatLessThanWellFounded DEF OpToRel
<1>3. \A i, j \in Nat : i < j => <<i, j>> \in Smaller
  OBVIOUS
<1>4. Out \subseteq Nat
  OBVIOUS
<1>5. PICK least \in Out : \A i \in Out : ~(i < least)
  <2> HIDE DEF Out, Smaller
  <2>1. PICK least \in Out : \A i \in Out : <<i, least>> \notin Smaller
    BY <1>1, <1>2, <1>4, WFMin
  <2> QED
    BY <1>3, <1>4, <2>1
<1>6. least \in 1 .. n /\ least - 1 \in 0 .. n
  OBVIOUS
<1> QED
  BY <1>5, <1>6

(* A sum along a run exists, and there is one to every number of steps.    *)
LEMMA SumsExist ==
  ASSUME NEW n \in Nat, NEW step \in [Int \X (1 .. n) -> Int]
  PROVE  \E sum \in [0 .. n -> Int] :
           sum[0] = 0 /\ \A i \in 1 .. n : sum[i] = step[<<sum[i - 1], i>>]
<1> DEFINE Sums(k) == {sum \in [0 .. k -> Int] :
             sum[0] = 0 /\ \A i \in 1 .. k : sum[i] = step[<<sum[i - 1], i>>]}
           Reached == {k \in 0 .. n : Sums(k) # {}}
<1>1. 0 \in Reached
  <2>1. [i \in 0 .. 0 |-> 0] \in Sums(0)
    OBVIOUS
  <2> QED
    BY <2>1
<1>2. ASSUME NEW k \in 1 .. n, k - 1 \in Reached PROVE k \in Reached
  <2>1. PICK sum : sum \in Sums(k - 1)
    BY <1>2
  <2> DEFINE more == [i \in 0 .. k |-> IF i = k THEN step[<<sum[k - 1], k>>] ELSE sum[i]]
  <2>2. k - 1 \in 0 .. k - 1 /\ sum[k - 1] \in Int
    BY <2>1
  <2>3. more \in [0 .. k -> Int]
    BY <2>1, <2>2
  <2>4. more[0] = 0
    BY <2>1
  <2>5. ASSUME NEW i \in 1 .. k PROVE more[i] = step[<<more[i - 1], i>>]
    <3>1. i - 1 \in 0 .. k /\ i - 1 # k /\ more[i - 1] = sum[i - 1]
      OBVIOUS
    <3>2. CASE i = k
      BY <3>1, <3>2
    <3>3. CASE i # k
      BY <2>1, <3>1, <3>3
    <3> QED
      BY <3>2, <3>3
  <2>6. more \in Sums(k)
    BY <2>3, <2>4, <2>5
  <2> HIDE DEF Sums
  <2> QED
    BY <2>6
<1> HIDE DEF Sums
<1>3. 0 .. n \subseteq Reached
  <2> HIDE DEF Reached
  <2> QED
    BY <1>1, <1>2, RunInduction
<1>4. PICK sum : sum \in Sums(n)
  BY <1>3
<1> QED
  BY <1>4 DEF Sums

(* A total that stays a number with every line is one throughout.          *)
LEMMA TotalsAreNumbers ==
  ASSUME NEW n \in Nat, NEW total, total[0] \in Int,
         \A i \in 1 .. n : total[i - 1] \in Int => total[i] \in Int
  PROVE  \A i \in 0 .. n : total[i] \in Int
<1> DEFINE Numbers == {i \in 0 .. n : total[i] \in Int}
<1>1. /\ 0 \in Numbers
      /\ \A i \in 1 .. n : i - 1 \in Numbers => i \in Numbers
  OBVIOUS
<1>2. 0 .. n \subseteq Numbers
  <2> HIDE DEF Numbers
  <2> QED
    BY <1>1, RunInduction
<1> QED
  BY <1>2

-----------------------------------------------------------------------------
(* A basket that is let through is a run of items.                         *)
LEMMA BasketRuns ==
  ASSUME NEW items \in Baskets
  PROVE  /\ Len(items) \in Nat /\ Len(items) \in 1 .. MaxItems
         /\ DOMAIN items = 1 .. Len(items)
         /\ \A i \in 1 .. Len(items) :
              /\ items[i].unit \in 1 .. MaxUnit
              /\ items[i].quantity \in 1 .. MaxQuantity
              /\ items[i].unit * items[i].quantity \in Nat
BY BasketAssumption DEF Baskets, Item

(* Stored lines are numbers.                                               *)
LEMMA LinesAreNumbers ==
  ASSUME NEW items \in Baskets
  PROVE  \A i \in 1 .. Len(items) : LineTotal(items[i]) \in Int
<1> SUFFICES ASSUME NEW i \in 1 .. Len(items) PROVE LineTotal(items[i]) \in Int
  OBVIOUS
<1>1. items[i].unit * items[i].quantity \in Int
  BY BasketRuns
<1> QED
  BY <1>1 DEF LineTotal, Wrap

(* The loop of buildCheckoutLineItems keeps a total for every line.        *)
LEMMA StoredTotalsAdd ==
  ASSUME NEW items \in Baskets
  PROVE  /\ StoredTotals(items) \in [0 .. Len(items) -> Int]
         /\ StoredTotals(items)[0] = 0
         /\ \A i \in 1 .. Len(items) : StoredTotals(items)[i] =
              Wrap(StoredTotals(items)[i - 1] + LineTotal(items[i]))
<1> DEFINE n         == Len(items)
           total     == StoredTotals(items)
           step      == [p \in Int \X (1 .. n) |-> Wrap(p[1] + LineTotal(items[p[2]]))]
           Runs(sum) == sum = [i \in 0 .. n |->
                          IF i = 0 THEN 0 ELSE Wrap(sum[i - 1] + LineTotal(items[i]))]
<1>1. n \in Nat /\ \A i \in 1 .. n : LineTotal(items[i]) \in Int
  BY LinesAreNumbers, BasketRuns
<1>2. total = CHOOSE sum : Runs(sum)
  BY DEF StoredTotals
<1>wrap. \A k \in Int : Wrap(k) \in Int
  BY DEF Wrap
<1> HIDE DEF n
<1>3. step \in [Int \X (1 .. n) -> Int]
  BY <1>1, <1>wrap
<1>4. PICK sum \in [0 .. n -> Int] :
        sum[0] = 0 /\ \A i \in 1 .. n : sum[i] = step[<<sum[i - 1], i>>]
  <2> HIDE DEF step
  <2> QED
    BY <1>1, <1>3, SumsExist
<1>5. \A i \in 1 .. n : sum[i] = Wrap(sum[i - 1] + LineTotal(items[i]))
  <2> SUFFICES ASSUME NEW i \in 1 .. n
               PROVE  sum[i] = Wrap(sum[i - 1] + LineTotal(items[i]))
    OBVIOUS
  <2>1. i - 1 \in 0 .. n
    BY <1>1
  <2>2. <<sum[i - 1], i>> \in Int \X (1 .. n)
    BY <2>1
  <2> QED
    BY <1>4, <2>2
<1>6. Runs(sum)
  BY <1>1, <1>4, <1>5
<1> HIDE DEF total
<1>7. Runs(total)
  BY <1>2, <1>6
<1>8. total[0] = 0
  BY <1>1, <1>7
<1>9. \A i \in 1 .. n : total[i] = Wrap(total[i - 1] + LineTotal(items[i]))
  BY <1>1, <1>7
<1>10. ASSUME NEW i \in 1 .. n, total[i - 1] \in Int PROVE total[i] \in Int
  <2>1. total[i - 1] + LineTotal(items[i]) \in Int
    BY <1>1, <1>10
  <2> QED
    BY <2>1, <1>9, <1>wrap
<1>11. \A i \in 0 .. n : total[i] \in Int
  <2>1. total[0] \in Int /\ \A i \in 1 .. n : total[i - 1] \in Int => total[i] \in Int
    BY <1>8, <1>10
  <2> QED
    BY <1>1, <2>1, TotalsAreNumbers
<1>12. total \in [0 .. n -> Int]
  BY <1>7, <1>11
<1> QED
  BY <1>8, <1>9, <1>12 DEF n, total

(* Stripe's total adds the same lines, whatever their amounts.             *)
LEMMA AmountTotalsAdd ==
  ASSUME NEW items \in Baskets
  PROVE  /\ AmountTotals(items) \in [0 .. Len(items) -> Int]
         /\ AmountTotals(items)[0] = 0
         /\ \A i \in 1 .. Len(items) : AmountTotals(items)[i] =
              AmountTotals(items)[i - 1] + items[i].unit * items[i].quantity
<1> DEFINE n         == Len(items)
           line(i)   == items[i].unit * items[i].quantity
           total     == AmountTotals(items)
           step      == [p \in Int \X (1 .. n) |-> p[1] + line(p[2])]
           Runs(sum) == sum = [i \in 0 .. n |-> IF i = 0 THEN 0 ELSE sum[i - 1] + line(i)]
<1>1. n \in Nat /\ \A i \in 1 .. n : line(i) \in Int
  BY BasketRuns
<1>2. total = CHOOSE sum : Runs(sum)
  BY DEF AmountTotals
<1> HIDE DEF n, line
<1>3. step \in [Int \X (1 .. n) -> Int]
  BY <1>1
<1>4. PICK sum \in [0 .. n -> Int] :
        sum[0] = 0 /\ \A i \in 1 .. n : sum[i] = step[<<sum[i - 1], i>>]
  <2> HIDE DEF step
  <2> QED
    BY <1>1, <1>3, SumsExist
<1>5. \A i \in 1 .. n : sum[i] = sum[i - 1] + line(i)
  <2> SUFFICES ASSUME NEW i \in 1 .. n PROVE sum[i] = sum[i - 1] + line(i)
    OBVIOUS
  <2>1. i - 1 \in 0 .. n
    BY <1>1
  <2>2. <<sum[i - 1], i>> \in Int \X (1 .. n)
    BY <2>1
  <2> QED
    BY <1>4, <2>2
<1>6. Runs(sum)
  BY <1>1, <1>4, <1>5
<1> HIDE DEF total
<1>7. Runs(total)
  BY <1>2, <1>6
<1>8. total[0] = 0
  BY <1>1, <1>7
<1>9. \A i \in 1 .. n : total[i] = total[i - 1] + line(i)
  BY <1>1, <1>7
<1>10. ASSUME NEW i \in 1 .. n, total[i - 1] \in Int PROVE total[i] \in Int
  BY <1>1, <1>9, <1>10
<1>11. \A i \in 0 .. n : total[i] \in Int
  <2>1. total[0] \in Int /\ \A i \in 1 .. n : total[i - 1] \in Int => total[i] \in Int
    BY <1>8, <1>10
  <2> QED
    BY <1>1, <2>1, TotalsAreNumbers
<1>12. total \in [0 .. n -> Int]
  BY <1>7, <1>11
<1> QED
  BY <1>8, <1>9, <1>12 DEF n, line, total

-----------------------------------------------------------------------------
(* The int32 total of a basket is Stripe's total, wrapped: that the lines  *)
(* wrap on their own, and the sum with each of them, changes nothing.      *)
THEOREM StoredTotalWraps ==
  ASSUME NEW items \in Baskets
  PROVE  StoredTotal(items) = Wrap(AmountTotal(items))
<1> DEFINE n       == Len(items)
           line(i) == items[i].unit * items[i].quantity
           Wrapped == {i \in 0 .. n : StoredTotals(items)[i] = Wrap(AmountTotals(items)[i])}
<1>1. n \in Nat /\ \A i \in 1 .. n : line(i) \in Int
  BY BasketRuns
<1>2. 0 \in Wrapped
  BY <1>1, StoredTotalsAdd, AmountTotalsAdd, WrapFits
<1>3. ASSUME NEW i \in 1 .. n, i - 1 \in Wrapped PROVE i \in Wrapped
  <2>1. i - 1 \in 0 .. n /\ AmountTotals(items)[i - 1] \in Int /\ line(i) \in Int
    BY <1>1, AmountTotalsAdd
  <2>2. /\ StoredTotals(items)[i] = Wrap(Wrap(AmountTotals(items)[i - 1]) + Wrap(line(i)))
        /\ AmountTotals(items)[i] = AmountTotals(items)[i - 1] + line(i)
    BY <1>3, StoredTotalsAdd, AmountTotalsAdd DEF LineTotal
  <2> HIDE DEF line
  <2>3. StoredTotals(items)[i] = Wrap(AmountTotals(items)[i])
    BY <2>1, <2>2, WrapSums
  <2> QED
    BY <1>1, <2>3
<1>4. 0 .. n \subseteq Wrapped
  <2> HIDE DEF Wrapped, n
  <2> QED
    BY <1>1, <1>2, <1>3, RunInduction
<1> QED
  BY <1>1, <1>4 DEF StoredTotal, AmountTotal

(* What both totals are: an amount and what is stored of it.               *)
LEMMA TotalsAreTyped ==
  ASSUME NEW items \in Baskets
  PROVE  AmountTotal(items) \in Int /\ StoredTotal(items) \in -Half .. Half - 1
<1>1. AmountTotal(items) \in Int
  BY BasketRuns, AmountTotalsAdd DEF AmountTotal
<1> QED
  BY <1>1, StoredTotalWraps, WrapStores

(* The webhook's comparison is exact: it passes a basket that has been     *)
(* stored just when nothing of Stripe's total has been lost.               *)
THEOREM AmountCheckIsExact ==
  ASSUME NEW items \in Baskets, Storable(items)
  PROVE  AmountMatches(items) <=> 0 < AmountTotal(items) /\ AmountTotal(items) < Half
<1>1. AmountTotal(items) \in Int /\ StoredTotal(items) \in -Half .. Half - 1
  BY TotalsAreTyped
<1>2. AmountTotal(items) \in 0 .. Half - 1 => StoredTotal(items) = AmountTotal(items)
  BY <1>1, StoredTotalWraps, WrapFits
<1> QED
  BY <1>1, <1>2 DEF AmountMatches

(* A line costs something, and no more than the dearest one can.           *)
LEMMA LineBounds ==
  ASSUME NEW items \in Baskets, NEW i \in 1 .. Len(items)
  PROVE  items[i].unit * items[i].quantity \in 1 .. MaxUnit * MaxQuantity
<1> DEFINE u == items[i].unit
           q == items[i].quantity
<1>1. u \in 1 .. MaxUnit /\ q \in 1 .. MaxQuantity /\ MaxUnit \in Nat /\ MaxQuantity \in Nat
  BY BasketRuns, BasketAssumption
<1> HIDE DEF u, q
<1>2. u * q >= 1
  BY <1>1
<1>3. u * q <= MaxUnit * q
  BY <1>1
<1>4. MaxUnit * q <= MaxUnit * MaxQuantity
  BY <1>1
<1>5. u * q \in Int /\ MaxUnit * q \in Int /\ MaxUnit * MaxQuantity \in Int
  BY <1>1
<1>6. u * q \in 1 .. MaxUnit * MaxQuantity
  BY <1>2, <1>3, <1>4, <1>5
<1> QED
  BY <1>6 DEF u, q

(* Where the largest basket of the dearest product stays below Half, there *)
(* is nothing to check: every basket is stored, and stored as it is.       *)
THEOREM SmallAmountsAreExact ==
  ASSUME MaxItems * (MaxUnit * MaxQuantity) < Half, NEW items \in Baskets
  PROVE  Storable(items) /\ AmountMatches(items)
<1> DEFINE n       == Len(items)
           most    == MaxUnit * MaxQuantity
           line(i) == items[i].unit * items[i].quantity
           Bounded == {i \in 0 .. n : AmountTotals(items)[i] \in i .. i * most}
<1>1. /\ n \in Nat /\ n \in 1 .. MaxItems /\ MaxItems \in Nat /\ most \in Nat
      /\ DOMAIN items = 1 .. n /\ \A i \in 1 .. n : line(i) \in 1 .. most
  BY BasketRuns, BasketAssumption, LineBounds
<1>2. AmountTotals(items) \in [0 .. n -> Int]
  BY AmountTotalsAdd
<1> HIDE DEF n, line, most
<1>3. 0 \in Bounded
  BY <1>1, AmountTotalsAdd
<1>4. ASSUME NEW i \in 1 .. n, i - 1 \in Bounded PROVE i \in Bounded
  <2>1. AmountTotals(items)[i] = AmountTotals(items)[i - 1] + line(i)
    BY AmountTotalsAdd DEF line, n
  <2> DEFINE before == (i - 1) * most
             after  == i * most
             sum    == AmountTotals(items)[i - 1]
  <2>2. after = before + most /\ before \in Int
    BY <1>1
  <2>3. line(i) \in 1 .. most /\ sum \in i - 1 .. before /\ i \in Int /\ most \in Int
    BY <1>1, <1>4
  <2> HIDE DEF before, after, sum
  <2>4. sum + line(i) \in i .. after
    BY <2>2, <2>3
  <2> QED
    BY <1>1, <2>1, <2>4 DEF after, sum
<1>5. n \in Bounded
  <2>1. 0 .. n \subseteq Bounded
    <3> HIDE DEF Bounded
    <3> QED
      BY <1>1, <1>3, <1>4, RunInduction
  <2> QED
    BY <1>1, <2>1
<1> DEFINE whole == n * most
<1>6. whole \in Int /\ whole < Half /\ most < Half
  <2>1. whole <= MaxItems * most /\ most <= MaxItems * most /\ whole \in Int
    BY <1>1
  <2>2. MaxItems * most < Half /\ MaxItems * most \in Int
    BY <1>1 DEF most
  <2> HIDE DEF whole
  <2> QED
    BY <1>1, <2>1, <2>2
<1>7. AmountTotal(items) \in n .. whole
  BY <1>5 DEF AmountTotal, n
<1> HIDE DEF whole
<1>8. AmountTotal(items) \in 1 .. Half - 1
  BY <1>1, <1>6, <1>7
<1>9. StoredTotal(items) = AmountTotal(items)
  BY <1>8, StoredTotalWraps, WrapFits
<1>10. ASSUME NEW i \in 1 .. n PROVE LineTotal(items[i]) > 0
  <2>1. line(i) \in 1 .. Half - 1
    BY <1>1, <1>6
  <2>2. Wrap(line(i)) = line(i)
    BY <2>1, WrapFits
  <2> QED
    BY <2>1, <2>2 DEF LineTotal, line
<1> QED
  BY <1>1, <1>8, <1>9, <1>10 DEF Storable, AmountMatches
=============================================================================
