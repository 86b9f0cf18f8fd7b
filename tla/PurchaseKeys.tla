---------------------------- MODULE PurchaseKeys ----------------------------
(***************************************************************************)
(* What an Idempotency-Key promises, whatever happens to the requests that *)
(* carry it: it stands for one purchase at a time, another can begin only  *)
(* when the one before has been given up, and what was given up stays so.  *)
(***************************************************************************)
CONSTANTS Orders,
          Key,       \* of an order: the key it was requested with
          NoKey      \* none: purchases without a key are independent

VARIABLES open,      \* purchases that can be paid or have been
          givenUp

Begin(o) ==
  /\ o \notin open \cup givenUp
  /\ \A p \in open : Key[p] # Key[o] \/ Key[o] = NoKey
  /\ open' = open \cup {o}
  /\ UNCHANGED givenUp

(* The cleanup gives up several at once.                                   *)
GiveUp(S) ==
  /\ open' = open \ S
  /\ givenUp' = givenUp \cup S

KeysInit == open = {} /\ givenUp = {}

KeysNext == \/ \E o \in Orders : Begin(o)
            \/ \E S \in (SUBSET open) \ {{}} : GiveUp(S)

KeysSpec == KeysInit /\ [][KeysNext]_<<open, givenUp>>
=============================================================================
