----------------------------- MODULE RateLimit -----------------------------
(***************************************************************************)
(* RateLimitByIPPostgres in front of the routes: a request is counted in   *)
(* the bucket of its route and client for the window in which it arrived,  *)
(* by one statement on a table all replicas share, and then let through,   *)
(* refused (429), or turned away (503) if counting it failed.              *)
(***************************************************************************)
EXTENDS Naturals, FiniteSets

CONSTANTS Requests,
          Keys,         \* bucket keys: a route's limiter and a client address
          Limit,        \* of a key: requests per window
          Window,       \* length of a window, in time units (1 min)
          Deadline,     \* of a request's context (1 or 2 min)
          MaxTime,      \* bound on the clock
          MaxFailures   \* bound on failed calls, lost replies and hang-ups

ASSUME RateLimitAssumption ==
  /\ IsFiniteSet(Requests)
  /\ Limit \in [Keys -> Nat \ {0}]
  /\ Window \in Nat \ {0}
  /\ Deadline \in Nat \ {0}
  /\ MaxTime \in Nat
  /\ MaxFailures \in Nat

VARIABLES now,
          requestCount,  \* rate_limit_buckets, by key and window
          state,         \* where each request is
          key,           \* its bucket key
          arrived,       \* when it came
          passed,        \* when its handler was called
          ticket,        \* history: the count its increment made
          failures

requestVars == <<state, key, arrived, passed, ticket>>
rateVars    == <<now, requestCount, requestVars, failures>>

Times == 0 .. MaxTime

States == {"idle", "counting", "passed", "limited", "unavailable"}

(* Faulty: every instant has a bucket of its own.                          *)
Untruncated(t) == t

Truncate(t) == t - (t % Window)

Windows == {Truncate(t) : t \in Times}

RateTypeOK ==
  /\ now \in Times
  /\ requestCount \in [Keys -> [Windows -> 0 .. Cardinality(Requests)]]
  /\ state \in [Requests -> States]
  /\ key \in [Requests -> Keys]
  /\ arrived \in [Requests -> Times]
  /\ passed \in [Requests -> Times]
  /\ ticket \in [Requests -> 0 .. Cardinality(Requests)]
  /\ failures \in 0 .. MaxFailures

RateInit ==
  /\ now = 0
  /\ requestCount = [k \in Keys |-> [w \in Windows |-> 0]]
  /\ state = [r \in Requests |-> "idle"]
  /\ key \in [Requests -> Keys]
  /\ arrived = [r \in Requests |-> 0]
  /\ passed = [r \in Requests |-> 0]
  /\ ticket = [r \in Requests |-> 0]
  /\ failures = 0

-----------------------------------------------------------------------------

WindowOf(r) == Truncate(arrived[r])

(* Each replica reads its own clock; they are taken to agree.              *)
Arrive(r) ==
  /\ state[r] = "idle"
  /\ state' = [state EXCEPT ![r] = "counting"]
  /\ arrived' = [arrived EXCEPT ![r] = now]
  /\ UNCHANGED <<now, requestCount, key, passed, ticket, failures>>

Count(r) == requestCount[key[r]][WindowOf(r)]

(* Faulty: the row of a new window starts at two.                          *)
FirstCountsTwice(r) ==
  LET n == IF Count(r) = 0 THEN 2 ELSE Count(r) + 1
  IN  /\ requestCount' = [requestCount EXCEPT ![key[r]][WindowOf(r)] = n]
      /\ ticket' = [ticket EXCEPT ![r] = n]

(* INSERT ... ON CONFLICT ... DO UPDATE ... RETURNING request_count.       *)
IncrementRateLimitBucket(r) ==
  /\ requestCount' = [requestCount EXCEPT ![key[r]][WindowOf(r)] = @ + 1]
  /\ ticket' = [ticket EXCEPT ![r] = Count(r) + 1]

(* Faulty: one request too many ...                                        *)
OverByOne(count, k) == count > Limit[k] + 1

(* ... or one too few.                                                     *)
AtLimit(count, k) == count >= Limit[k]

OverLimit(count, k) == count > Limit[k]

ContextLives(r) == now < arrived[r] + Deadline

MayFail == failures < MaxFailures /\ failures' = failures + 1

LetThrough(r) ==
  /\ state[r] = "counting" /\ ContextLives(r)
  /\ ~OverLimit(Count(r) + 1, key[r])
  /\ IncrementRateLimitBucket(r)
  /\ state' = [state EXCEPT ![r] = "passed"]
  /\ passed' = [passed EXCEPT ![r] = now]
  /\ UNCHANGED <<now, key, arrived, failures>>

Refuse(r) ==
  /\ state[r] = "counting" /\ ContextLives(r)
  /\ OverLimit(Count(r) + 1, key[r])
  /\ IncrementRateLimitBucket(r)
  /\ state' = [state EXCEPT ![r] = "limited"]
  /\ UNCHANGED <<now, key, arrived, passed, failures>>

(* An error of the statement, which may have taken effect all the same.    *)
TurnAway(r) ==
  /\ state[r] = "counting"
  /\ \/ UNCHANGED <<requestCount, ticket, failures>> /\ ~ContextLives(r)
     \/ UNCHANGED <<requestCount, ticket>> /\ MayFail
     \/ IncrementRateLimitBucket(r) /\ ContextLives(r) /\ MayFail
  /\ state' = [state EXCEPT ![r] = "unavailable"]
  /\ UNCHANGED <<now, key, arrived, passed>>

Tick == /\ now < MaxTime
        /\ now' = now + 1
        /\ UNCHANGED <<requestCount, requestVars, failures>>

RateNext == \/ \E r \in Requests :
                 Arrive(r) \/ LetThrough(r) \/ Refuse(r) \/ TurnAway(r)
            \/ Tick

RateSpec == RateInit /\ [][RateNext]_rateVars

-----------------------------------------------------------------------------
(* Safety.                                                                 *)

(* However requests interleave at the table, whose answers are lost or     *)
(* late, no more of those that came in one window get through than the     *)
(* limit of their route says.                                              *)
LimitHolds ==
  \A k \in Keys, w \in Windows :
    Cardinality({r \in Requests : /\ state[r] = "passed"
                                  /\ key[r] = k /\ WindowOf(r) = w}) <= Limit[k]

(* The windows in which requests can have come that a handler gets within  *)
(* the length of one window.                                               *)
Spread == 2 + (Deadline + Window - 1) \div Window

(* The window is that of the arrival, not that of the call: requests held  *)
(* up at the table until their deadline pass together with later ones, and *)
(* a handler has to be ready for the limits of several windows at once,    *)
(* but not for more.                                                       *)
BurstIsBounded ==
  \A k \in Keys, t \in Times :
    Cardinality({r \in Requests : /\ state[r] = "passed" /\ key[r] = k
                                  /\ passed[r] \in t .. t + Window - 1})
      <= Spread * Limit[k]

(* A client is told 429 only when its window is used up by others, be it   *)
(* by requests whose answers were lost.                                    *)
RefusedOnlyWhenFull ==
  \A r \in Requests : state[r] = "limited" =>
    Cardinality({q \in Requests \ {r} : /\ ticket[q] # 0 /\ key[q] = key[r]
                                        /\ WindowOf(q) = WindowOf(r)}) >= Limit[key[r]]
=============================================================================
