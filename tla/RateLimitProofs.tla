-------------------------- MODULE RateLimitProofs --------------------------
(***************************************************************************)
(* Theorems about RateLimit, for every set of requests and keys and every  *)
(* choice of the limits, the window and the bounds.                        *)
(***************************************************************************)
EXTENDS RateLimit, FiniteSetTheorems, TLAPS

USE RateLimitAssumption

Counted(k, w) == {r \in Requests : ticket[r] # 0 /\ key[r] = k /\ WindowOf(r) = w}

(* A request has a ticket only once it has been counted; one that got      *)
(* through was within the limit, one that was refused was not.             *)
TicketsDecide ==
  \A r \in Requests :
    /\ state[r] \in {"idle", "counting"} => ticket[r] = 0
    /\ state[r] = "passed" => ticket[r] \in 1 .. Limit[key[r]]
    /\ state[r] = "limited" => ticket[r] > Limit[key[r]]

(* A bucket's count is the number of requests counted in it ...            *)
CountsAreRequests ==
  \A k \in Keys, w \in Windows : requestCount[k][w] = Cardinality(Counted(k, w))

(* ... whose tickets are different numbers up to it.                       *)
TicketsDiffer ==
  \A k \in Keys, w \in Windows : \A r \in Counted(k, w) :
    /\ ticket[r] <= requestCount[k][w]
    /\ \A q \in Counted(k, w) : ticket[q] = ticket[r] => q = r

RateInv == RateTypeOK /\ TicketsDecide /\ CountsAreRequests /\ TicketsDiffer

-----------------------------------------------------------------------------

(* What a row has counted are requests, so finitely many.                  *)
LEMMA CountedIsFinite ==
  ASSUME NEW k, NEW w
  PROVE  /\ IsFiniteSet(Counted(k, w))
         /\ Cardinality(Counted(k, w)) \in Nat
         /\ Cardinality(Counted(k, w)) <= Cardinality(Requests)
<1>1. Counted(k, w) \in SUBSET Requests
  BY DEF Counted
<1> QED
  BY <1>1, FS_Subset, FS_CardinalityType

(* A request that has not been counted leaves room for its own ticket.     *)
LEMMA RoomForOneMore ==
  ASSUME NEW k, NEW w, NEW r \in Requests, r \notin Counted(k, w)
  PROVE  Cardinality(Counted(k, w)) + 1 <= Cardinality(Requests)
<1>1. IsFiniteSet(Counted(k, w)) /\ Cardinality(Counted(k, w)) \in Nat
  BY CountedIsFinite
<1>2. Cardinality(Counted(k, w) \cup {r}) = Cardinality(Counted(k, w)) + 1
  BY <1>1, FS_AddElement
<1>3. Counted(k, w) \cup {r} \in SUBSET Requests
  BY DEF Counted
<1> QED
  BY <1>2, <1>3, FS_Subset

(* A request falls into one of the windows.                                *)
LEMMA WindowsTyped ==
  ASSUME arrived \in [Requests -> Times], NEW r \in Requests
  PROVE  WindowOf(r) \in Windows
BY DEF WindowOf, Windows

(* Empty buckets satisfy the invariant.                                    *)
LEMMA NothingIsCountedAtFirst == RateInit => RateInv
<1> SUFFICES ASSUME RateInit PROVE RateInv
  OBVIOUS
<1>1. \A k, w : Counted(k, w) = {}
  BY DEF RateInit, Counted
<1>2. Cardinality(Requests) \in Nat
  BY FS_CardinalityType
<1>3. RateTypeOK
  BY <1>2 DEF RateInit, RateTypeOK, States, Times
<1>4. TicketsDecide
  BY DEF RateInit, TicketsDecide
<1>5. CountsAreRequests
  BY <1>1, FS_EmptySet DEF RateInit, CountsAreRequests
<1>6. TicketsDiffer
  BY <1>1 DEF TicketsDiffer
<1> QED
  BY <1>3, <1>4, <1>5, <1>6 DEF RateInv

-----------------------------------------------------------------------------
(* Counting a request preserves the invariant, whatever it is answered.    *)

(* An increment stays within the number of requests.                       *)
LEMMA IncrementKeepsTables ==
  ASSUME RateInv, NEW r \in Requests, state[r] = "counting",
         IncrementRateLimitBucket(r), UNCHANGED <<key, arrived>>
  PROVE  /\ requestCount' \in [Keys -> [Windows -> 0 .. Cardinality(Requests)]]
         /\ ticket' \in [Requests -> 0 .. Cardinality(Requests)]
         /\ Count(r) \in Nat
         /\ ticket'[r] = Count(r) + 1
         /\ \A q \in Requests \ {r} : ticket'[q] = ticket[q]
         /\ CountsAreRequests'
         /\ TicketsDiffer'
<1> DEFINE k0 == key[r]
           w0 == WindowOf(r)
<1> USE DEF RateInv, RateTypeOK
<1>1. k0 \in Keys /\ w0 \in Windows
  BY WindowsTyped
<1>2. \A q : WindowOf(q)' = WindowOf(q)
  BY DEF WindowOf
<1>3. ticket[r] = 0 /\ \A k, w : r \notin Counted(k, w)
  BY DEF TicketsDecide, Counted
<1>4. Cardinality(Requests) \in Nat
  BY FS_CardinalityType
<1>5. Count(r) = Cardinality(Counted(k0, w0)) /\ Count(r) \in Nat
  BY <1>1, CountedIsFinite DEF CountsAreRequests, Count
<1>6. Count(r) + 1 \in 0 .. Cardinality(Requests)
  BY <1>3, <1>4, <1>5, RoomForOneMore
<1>7. requestCount' = [requestCount EXCEPT ![k0] = [@ EXCEPT ![w0] = Count(r) + 1]]
  BY <1>1 DEF IncrementRateLimitBucket, Count
<1>8. ticket' = [ticket EXCEPT ![r] = Count(r) + 1]
  BY DEF IncrementRateLimitBucket
<1>9. requestCount' \in [Keys -> [Windows -> 0 .. Cardinality(Requests)]]
  BY <1>1, <1>6, <1>7
<1>10. /\ ticket' \in [Requests -> 0 .. Cardinality(Requests)]
       /\ ticket'[r] = Count(r) + 1
       /\ \A q \in Requests \ {r} : ticket'[q] = ticket[q]
  BY <1>6, <1>8
<1>11. \A k \in Keys, w \in Windows :
         k = k0 /\ w = w0 => Counted(k, w)' = Counted(k, w) \cup {r}
  BY <1>2, <1>5, <1>10 DEF Counted
<1>12. \A k \in Keys, w \in Windows :
         ~(k = k0 /\ w = w0) => Counted(k, w)' = Counted(k, w)
  BY <1>2, <1>3, <1>10 DEF Counted
<1>13. \A k \in Keys, w \in Windows :
         requestCount'[k][w] = IF k = k0 /\ w = w0 THEN Count(r) + 1 ELSE requestCount[k][w]
  BY <1>1, <1>7
<1>14. Cardinality(Counted(k0, w0) \cup {r}) = Count(r) + 1
  <2>1. r \notin Counted(k0, w0) /\ IsFiniteSet(Counted(k0, w0))
    BY <1>3, CountedIsFinite
  <2>2. Cardinality(Counted(k0, w0) \cup {r}) = Cardinality(Counted(k0, w0)) + 1
    BY <2>1, FS_AddElement
  <2> QED
    BY <2>2, <1>5
<1>15. CountsAreRequests'
  <2> SUFFICES ASSUME NEW k \in Keys, NEW w \in Windows
               PROVE  requestCount'[k][w] = Cardinality(Counted(k, w)')
    BY DEF CountsAreRequests
  <2>1. CASE k = k0 /\ w = w0
    BY <2>1, <1>11, <1>13, <1>14
  <2>2. CASE ~(k = k0 /\ w = w0)
    BY <2>2, <1>12, <1>13 DEF CountsAreRequests
  <2> QED
    BY <2>1, <2>2
<1>16. TicketsDiffer'
  <2> SUFFICES ASSUME NEW k \in Keys, NEW w \in Windows,
                      NEW q \in Counted(k, w)'
               PROVE  /\ ticket'[q] <= requestCount'[k][w]
                      /\ \A p \in Counted(k, w)' : ticket'[p] = ticket'[q] => p = q
    BY DEF TicketsDiffer
  <2>1. \A p \in Counted(k, w) : p \in Requests \ {r} /\ ticket'[p] = ticket[p]
    BY <1>3, <1>10 DEF Counted
  <2>2. CASE ~(k = k0 /\ w = w0)
    <3>1. Counted(k, w)' = Counted(k, w) /\ requestCount'[k][w] = requestCount[k][w]
      BY <2>2, <1>12, <1>13
    <3> QED
      BY <2>1, <3>1 DEF TicketsDiffer
  <2>3. CASE k = k0 /\ w = w0
    <3>1. requestCount[k][w] = Count(r) /\ requestCount'[k][w] = Count(r) + 1
      BY <2>3, <1>13 DEF Count
    <3>2. \A p \in Counted(k, w) : ticket[p] \in Nat /\ ticket[p] <= Count(r)
      BY <3>1, <1>4 DEF TicketsDiffer, Counted
    <3>3. Counted(k, w)' = Counted(k, w) \cup {r}
      BY <2>3, <1>11
    <3>4. ticket'[q] <= Count(r) + 1
      BY <3>2, <3>3, <2>1, <1>5, <1>10
    <3>5. \A p \in Counted(k, w)' : ticket'[p] = ticket'[q] => p = q
      BY <3>2, <3>3, <2>1, <1>5, <1>10 DEF TicketsDiffer
    <3> QED
      BY <3>1, <3>4, <3>5
  <2> QED
    BY <2>2, <2>3
<1> QED
  BY <1>5, <1>9, <1>10, <1>15, <1>16

(* A step that counts nobody.                                              *)
LEMMA CountsUntouched ==
  ASSUME RateInv, UNCHANGED <<requestCount, key, ticket>>,
         \A r \in Requests : ticket[r] # 0 => arrived'[r] = arrived[r]
  PROVE  CountsAreRequests' /\ TicketsDiffer'
<1>1. \A k, w : Counted(k, w)' = Counted(k, w)
  BY DEF Counted, WindowOf
<1> QED
  BY <1>1 DEF RateInv, CountsAreRequests, TicketsDiffer

(* All parts together.                                                     *)
LEMMA RateStep == RateInv /\ [RateNext]_rateVars => RateInv'
<1> SUFFICES ASSUME RateInv, [RateNext]_rateVars PROVE RateInv'
  OBVIOUS
<1> USE DEF RateInv
<1>n. Cardinality(Requests) \in Nat
  BY FS_CardinalityType
<1>1. ASSUME NEW r \in Requests, Arrive(r) PROVE RateInv'
  <2>1. RateTypeOK'
    BY <1>1 DEF Arrive, RateTypeOK, States
  <2>2. TicketsDecide'
    BY <1>1 DEF Arrive, TicketsDecide, RateTypeOK
  <2>3. \A q \in Requests : ticket[q] # 0 => arrived'[q] = arrived[q]
    BY <1>1 DEF Arrive, TicketsDecide, RateTypeOK
  <2> QED
    BY <1>1, <2>1, <2>2, <2>3, CountsUntouched DEF Arrive
<1>2. ASSUME NEW r \in Requests, LetThrough(r) PROVE RateInv'
  <2>1. state[r] = "counting" /\ IncrementRateLimitBucket(r) /\ UNCHANGED <<key, arrived>>
    BY <1>2 DEF LetThrough
  <2>2. RateTypeOK'
    BY <1>2, <2>1, IncrementKeepsTables DEF LetThrough, RateTypeOK, States
  <2>3. Count(r) + 1 <= Limit[key[r]] /\ Limit[key[r]] \in Nat
    BY <1>2, <2>1, IncrementKeepsTables DEF LetThrough, OverLimit, RateTypeOK
  <2>4. TicketsDecide'
    BY <1>2, <2>1, <2>3, IncrementKeepsTables DEF LetThrough, TicketsDecide, RateTypeOK
  <2> QED
    BY <2>1, <2>2, <2>4, IncrementKeepsTables
<1>3. ASSUME NEW r \in Requests, Refuse(r) PROVE RateInv'
  <2>1. state[r] = "counting" /\ IncrementRateLimitBucket(r) /\ UNCHANGED <<key, arrived>>
    BY <1>3 DEF Refuse
  <2>2. RateTypeOK'
    BY <1>3, <2>1, IncrementKeepsTables DEF Refuse, RateTypeOK, States
  <2>3. TicketsDecide'
    BY <1>3, <2>1, IncrementKeepsTables DEF Refuse, TicketsDecide, OverLimit, RateTypeOK
  <2> QED
    BY <2>1, <2>2, <2>3, IncrementKeepsTables
<1>4. ASSUME NEW r \in Requests, TurnAway(r) PROVE RateInv'
  <2>1. CASE UNCHANGED <<requestCount, ticket>>
    <3>1. RateTypeOK' /\ TicketsDecide'
      BY <1>4, <2>1 DEF TurnAway, RateTypeOK, States, MayFail, TicketsDecide
    <3> QED
      BY <1>4, <2>1, <3>1, CountsUntouched DEF TurnAway
  <2>2. CASE IncrementRateLimitBucket(r)
    <3>1. state[r] = "counting" /\ UNCHANGED <<key, arrived>>
      BY <1>4 DEF TurnAway
    <3>2. RateTypeOK'
      BY <1>4, <2>2, <3>1, IncrementKeepsTables DEF TurnAway, RateTypeOK, States, MayFail
    <3>3. TicketsDecide'
      BY <1>4, <2>2, <3>1, IncrementKeepsTables DEF TurnAway, TicketsDecide, RateTypeOK
    <3> QED
      BY <2>2, <3>1, <3>2, <3>3, IncrementKeepsTables
  <2> QED
    BY <1>4, <2>1, <2>2 DEF TurnAway
<1>5. CASE Tick
  BY <1>5, CountsUntouched DEF Tick, requestVars, RateTypeOK, Times, TicketsDecide
<1>6. CASE UNCHANGED rateVars
  BY <1>6, CountsUntouched DEF rateVars, requestVars, RateTypeOK, TicketsDecide
<1> QED
  BY <1>1, <1>2, <1>3, <1>4, <1>5, <1>6 DEF RateNext

(* The invariant is inductive.                                             *)
THEOREM RateInvariance == RateSpec => []RateInv
<1> QED
  BY NothingIsCountedAtFirst, RateStep, PTL DEF RateSpec

-----------------------------------------------------------------------------

(* Every variable stays in its type; in particular no bucket counts more   *)
(* requests than there are.                                                *)
THEOREM RateTypeCorrect == RateSpec => []RateTypeOK
<1>1. RateInv => RateTypeOK
  BY DEF RateInv
<1> QED
  BY <1>1, RateInvariance, PTL

(* Of the requests that came in one window, a route lets no more through   *)
(* than its limit, however they interleave and whatever replies are lost.  *)
THEOREM LimitIsKept == RateSpec => []LimitHolds
<1>1. RateInv => LimitHolds
  <2> SUFFICES ASSUME RateInv, NEW k \in Keys, NEW w \in Windows
               PROVE  Cardinality({r \in Requests :
                         state[r] = "passed" /\ key[r] = k /\ WindowOf(r) = w}) <= Limit[k]
    BY DEF LimitHolds
  <2> DEFINE S == {r \in Requests : state[r] = "passed" /\ key[r] = k /\ WindowOf(r) = w}
             f == [r \in S |-> ticket[r]]
  <2>1. Limit[k] \in Nat
    OBVIOUS
  <2>2. \A r \in S : ticket[r] \in 1 .. Limit[k] /\ r \in Counted(k, w)
    BY <2>1 DEF RateInv, TicketsDecide, Counted
  <2>3. \A r, q \in S : ticket[r] = ticket[q] => r = q
    BY <2>2 DEF RateInv, TicketsDiffer
  <2>4. f \in Injection(S, 1 .. Limit[k])
    BY <2>2, <2>3 DEF Injection, IsInjective
  <2>5. IsFiniteSet(1 .. Limit[k]) /\ Cardinality(1 .. Limit[k]) = Limit[k]
    BY <2>1, FS_Interval
  <2> HIDE DEF S, f
  <2>6. Cardinality(S) <= Limit[k]
    BY <2>4, <2>5, FS_Injection
  <2> QED
    BY <2>6 DEF S
<1> QED
  BY <1>1, RateInvariance, PTL

(* A refusal is earned: as many other requests as the limit allows have    *)
(* been counted in the same window.                                        *)
THEOREM RefusalIsEarned == RateSpec => []RefusedOnlyWhenFull
<1>1. RateInv => RefusedOnlyWhenFull
  <2> SUFFICES ASSUME RateInv, NEW r \in Requests, state[r] = "limited"
               PROVE  Cardinality({q \in Requests \ {r} :
                         ticket[q] # 0 /\ key[q] = key[r] /\ WindowOf(q) = WindowOf(r)})
                        >= Limit[key[r]]
    BY DEF RefusedOnlyWhenFull
  <2> DEFINE C == Counted(key[r], WindowOf(r))
             Others == {q \in Requests \ {r} :
                          ticket[q] # 0 /\ key[q] = key[r] /\ WindowOf(q) = WindowOf(r)}
  <2>1. key[r] \in Keys /\ WindowOf(r) \in Windows /\ Limit[key[r]] \in Nat \ {0}
    BY WindowsTyped DEF RateInv, RateTypeOK
  <2>2. ticket[r] > Limit[key[r]] /\ ticket[r] \in Nat
    BY FS_CardinalityType DEF RateInv, RateTypeOK, TicketsDecide
  <2>3. r \in C
    BY <2>1, <2>2 DEF Counted
  <2>4. ticket[r] <= Cardinality(C)
    BY <2>1, <2>3 DEF RateInv, TicketsDiffer, CountsAreRequests
  <2>5. IsFiniteSet(C) /\ Cardinality(C) \in Nat
    BY CountedIsFinite
  <2>6. Others = C \ {r}
    BY DEF Counted
  <2> HIDE DEF C, Others
  <2>7. Cardinality(Others) = Cardinality(C) - 1
    BY <2>3, <2>5, <2>6, FS_RemoveElement
  <2>8. Cardinality(Others) >= Limit[key[r]]
    BY <2>1, <2>2, <2>4, <2>5, <2>7
  <2> QED
    BY <2>8 DEF Others
<1> QED
  BY <1>1, RateInvariance, PTL

-----------------------------------------------------------------------------
(* Requests that pass late.                                                *)

(* A handler is called after the request came and before its deadline.     *)
CalledInTime ==
  \A r \in Requests :
    /\ state[r] = "counting" => arrived[r] <= now
    /\ state[r] = "passed" => /\ arrived[r] <= passed[r]
                              /\ passed[r] < arrived[r] + Deadline

(* Step: a handler is called before the deadline of its request.           *)
LEMMA CalledInTimeStep ==
  RateTypeOK /\ CalledInTime /\ [RateNext]_rateVars => CalledInTime'
<1> SUFFICES ASSUME RateTypeOK, CalledInTime, [RateNext]_rateVars PROVE CalledInTime'
  OBVIOUS
<1> USE DEF RateTypeOK, Times, CalledInTime
<1>1. ASSUME NEW r \in Requests, Arrive(r) PROVE CalledInTime'
  BY <1>1 DEF Arrive
<1>2. ASSUME NEW r \in Requests, LetThrough(r) PROVE CalledInTime'
  BY <1>2 DEF LetThrough, ContextLives
<1>3. ASSUME NEW r \in Requests, Refuse(r) PROVE CalledInTime'
  BY <1>3 DEF Refuse
<1>4. ASSUME NEW r \in Requests, TurnAway(r) PROVE CalledInTime'
  BY <1>4 DEF TurnAway
<1>5. CASE Tick
  BY <1>5 DEF Tick, requestVars
<1>6. CASE UNCHANGED rateVars
  BY <1>6 DEF rateVars, requestVars
<1> QED
  BY <1>1, <1>2, <1>3, <1>4, <1>5, <1>6 DEF RateNext

(* No handler is called before its request came, or after its deadline.    *)
THEOREM CallsAreInTime == RateSpec => []CalledInTime
<1>1. RateInit => CalledInTime
  BY DEF RateInit, CalledInTime
<1>2. RateInv /\ CalledInTime /\ [RateNext]_rateVars => CalledInTime'
  BY CalledInTimeStep DEF RateInv
<1> QED
  BY <1>1, <1>2, RateInvariance, PTL DEF RateSpec

(* Windows have numbers, one after the other.                              *)
LEMMA WindowsAreNumbered ==
  ASSUME NEW t \in Nat
  PROVE  /\ t \div Window \in Nat
         /\ Truncate(t) = Window * (t \div Window)
         /\ Truncate(t) <= t
         /\ t < Truncate(t) + Window
<1>1. /\ t \div Window \in Nat
      /\ t % Window \in 0 .. Window - 1
      /\ t = Window * (t \div Window) + (t % Window)
  OBVIOUS
<1> QED
  BY <1>1 DEF Truncate

(* Spread counts enough windows to cover the deadline.                     *)
LEMMA SpreadCoversDeadline ==
  /\ (Deadline + Window - 1) \div Window \in Nat
  /\ Deadline <= Window * ((Deadline + Window - 1) \div Window)
<1> DEFINE d == Deadline + Window - 1
<1>1. d \in Nat
  OBVIOUS
<1>2. d \div Window \in Nat /\ d < Window * (d \div Window) + Window
  <2> HIDE DEF d
  <2> QED
    BY <1>1, WindowsAreNumbered
<1>3. Window * (d \div Window) \in Nat
  BY <1>2
<1> HIDE DEF d
<1>4. Deadline + Window - 1 < Window * (d \div Window) + Window
  BY <1>2 DEF d
<1>5. Deadline <= Window * (d \div Window)
  BY <1>3, <1>4
<1> QED
  BY <1>2, <1>5 DEF d

(* Arithmetic: what lies less than two windows and a deadline before an    *)
(* instant is fewer than Spread windows away.                              *)
LEMMA FewerThanSpread ==
  ASSUME NEW m \in Int, NEW i \in Int,
         Window * m - Window * i < 2 * Window + Deadline - 1
  PROVE  m - i < Spread
<1> DEFINE q == (Deadline + Window - 1) \div Window
<1>1. q \in Nat /\ Deadline <= Window * q
  BY SpreadCoversDeadline
<1> HIDE DEF q
<1>2. Window * (m - i) = Window * m - Window * i
  OBVIOUS
<1>3. Window * (m - i) < 2 * Window + Window * q
  BY <1>1, <1>2
<1>4. m - i < 2 + q
  BY <1>1, <1>3
<1> QED
  BY <1>4 DEF Spread, q

(* A request whose handler is called in a window's length from t on came   *)
(* in one of the last Spread windows up to that of t + Window - 1.         *)
LEMMA FromRecentWindow ==
  ASSUME NEW t \in Nat, NEW a \in Nat, NEW p \in Nat,
         a <= p, p < a + Deadline, p \in t .. t + Window - 1
  PROVE  ((t + Window - 1) \div Window) - (a \div Window) \in 0 .. Spread - 1
<1> DEFINE e == t + Window - 1
           m == e \div Window
           i == a \div Window
<1>1. e \in Nat /\ a <= e /\ e - a < Deadline + Window - 1
  OBVIOUS
<1>2. /\ m \in Nat /\ Truncate(e) = Window * m
      /\ Truncate(e) <= e /\ e < Truncate(e) + Window
  <2> HIDE DEF e
  <2> QED
    BY <1>1, WindowsAreNumbered
<1>3. /\ i \in Nat /\ Truncate(a) = Window * i
      /\ Truncate(a) <= a /\ a < Truncate(a) + Window
  BY WindowsAreNumbered
<1> HIDE DEF e, m, i
<1>4. Window * m \in Nat /\ Window * i \in Nat
  BY <1>2, <1>3
<1>5. Window * m - Window * i < 2 * Window + Deadline - 1
  BY <1>1, <1>2, <1>3, <1>4
<1>6. Window * i - Window * m < Window
  BY <1>1, <1>2, <1>3, <1>4
<1>7. m - i < Spread
  BY <1>2, <1>3, <1>5, FewerThanSpread
<1>8. Window * (i - m) < Window * 1
  BY <1>2, <1>3, <1>6
<1>9. i - m < 1
  BY <1>2, <1>3, <1>8
<1>10. Spread \in Nat
  BY SpreadCoversDeadline DEF Spread
<1>11. m - i \in 0 .. Spread - 1
  BY <1>2, <1>3, <1>7, <1>9, <1>10
<1> QED
  BY <1>11 DEF e, m, i

(* A handler is called, in any stretch of time as long as a window, at     *)
(* most as often as the limits of Spread windows together allow: a         *)
(* request is known by how far back its window lies and by its ticket.     *)
THEOREM BurstsAreBounded == RateSpec => []BurstIsBounded
<1>1. RateInv /\ CalledInTime => BurstIsBounded
  <2> SUFFICES ASSUME RateInv, CalledInTime, NEW k \in Keys, NEW t \in Times
               PROVE  Cardinality({r \in Requests : /\ state[r] = "passed" /\ key[r] = k
                                                    /\ passed[r] \in t .. t + Window - 1})
                        <= Spread * Limit[k]
    BY DEF BurstIsBounded
  <2> DEFINE S == {r \in Requests : /\ state[r] = "passed" /\ key[r] = k
                                    /\ passed[r] \in t .. t + Window - 1}
             Back(r) == ((t + Window - 1) \div Window) - (arrived[r] \div Window)
             f == [r \in S |-> <<Back(r), ticket[r]>>]
             Places == (0 .. Spread - 1) \X (1 .. Limit[k])
  <2>1. Limit[k] \in Nat /\ Spread \in Nat /\ t \in Nat
    BY SpreadCoversDeadline DEF Spread, Times
  <2>2. \A r \in S : /\ r \in Requests /\ key[r] = k
                     /\ arrived[r] \in Nat /\ passed[r] \in Nat
                     /\ arrived[r] <= passed[r] /\ passed[r] < arrived[r] + Deadline
                     /\ passed[r] \in t .. t + Window - 1
    BY DEF RateInv, RateTypeOK, Times, CalledInTime
  <2>3. \A r \in S : Back(r) \in 0 .. Spread - 1
    BY <2>1, <2>2, FromRecentWindow
  <2>4. \A r \in S : ticket[r] \in 1 .. Limit[k]
    BY <2>2 DEF RateInv, TicketsDecide
  <2>5. \A r \in S : r \in Counted(k, WindowOf(r)) /\ WindowOf(r) \in Windows
    <3> SUFFICES ASSUME NEW r \in S
                 PROVE  r \in Counted(k, WindowOf(r)) /\ WindowOf(r) \in Windows
      OBVIOUS
    <3>1. r \in Requests /\ key[r] = k /\ ticket[r] # 0
      BY <2>1, <2>2, <2>4
    <3>2. WindowOf(r) \in Windows
      BY <3>1, WindowsTyped DEF RateInv, RateTypeOK
    <3> QED
      BY <3>1, <3>2 DEF Counted
  <2>6. \A r, q \in S : Back(r) = Back(q) => WindowOf(r) = WindowOf(q)
    <3> SUFFICES ASSUME NEW r \in S, NEW q \in S, Back(r) = Back(q)
                 PROVE  WindowOf(r) = WindowOf(q)
      OBVIOUS
    <3>1. /\ arrived[r] \div Window \in Nat
          /\ WindowOf(r) = Window * (arrived[r] \div Window)
      BY <2>2, WindowsAreNumbered DEF WindowOf
    <3>2. /\ arrived[q] \div Window \in Nat
          /\ WindowOf(q) = Window * (arrived[q] \div Window)
      BY <2>2, WindowsAreNumbered DEF WindowOf
    <3>3. (t + Window - 1) \div Window \in Nat
      BY <2>1
    <3>4. arrived[r] \div Window = arrived[q] \div Window
      BY <3>1, <3>2, <3>3
    <3> QED
      BY <3>1, <3>2, <3>4
  <2>7. \A r, q \in S : Back(r) = Back(q) /\ ticket[r] = ticket[q] => r = q
    BY <2>5, <2>6 DEF RateInv, TicketsDiffer
  <2> HIDE DEF S, Back
  <2>8. f \in Injection(S, Places)
    BY <2>3, <2>4, <2>7 DEF Injection, IsInjective
  <2>9. IsFiniteSet(0 .. Spread - 1) /\ Cardinality(0 .. Spread - 1) = Spread
    <3>1. 0 \in Int /\ Spread - 1 \in Int /\ ~(0 > Spread - 1)
      BY <2>1, SpreadCoversDeadline DEF Spread
    <3>2. /\ IsFiniteSet(0 .. Spread - 1)
          /\ Cardinality(0 .. Spread - 1) = (Spread - 1) - 0 + 1
      BY <3>1, FS_Interval
    <3> QED
      BY <2>1, <3>2
  <2>10. IsFiniteSet(1 .. Limit[k]) /\ Cardinality(1 .. Limit[k]) = Limit[k]
    BY <2>1, FS_Interval
  <2>11. IsFiniteSet(Places) /\ Cardinality(Places) = Spread * Limit[k]
    <3> DEFINE A == 0 .. Spread - 1
               B == 1 .. Limit[k]
    <3> HIDE DEF A, B
    <3>1. IsFiniteSet(A) /\ IsFiniteSet(B)
      BY <2>9, <2>10 DEF A, B
    <3>2. IsFiniteSet(A \X B) /\ Cardinality(A \X B) = Cardinality(A) * Cardinality(B)
      BY <3>1, FS_Product
    <3> QED
      BY <2>9, <2>10, <3>2 DEF A, B
  <2> HIDE DEF f, Places
  <2>12. Cardinality(S) <= Spread * Limit[k]
    BY <2>8, <2>11, FS_Injection
  <2> QED
    BY <2>12 DEF S
<1> QED
  BY <1>1, RateInvariance, CallsAreInTime, PTL
=============================================================================
