------------------------------ MODULE Browser ------------------------------
(***************************************************************************)
(* The client of Checkout: one browser tab buying one product.  Each time  *)
(* the checkout page is mounted, useCreateCheckoutSession runs its effect, *)
(* here one of Effects, which repeats the request while the answer is      *)
(* CHECKOUT_IN_PROGRESS.  Unmounting makes an effect ignore its result; it *)
(* does not stop it.  Only loading another document does.                  *)
(***************************************************************************)
EXTENDS Checkout

CONSTANTS Effects,    \* runs of the effect of useCreateCheckoutSession
          MaxTries,   \* CHECKOUT_IN_PROGRESS_MAX_RETRIES (5)
          MaxPolls    \* POLL_MAX_ATTEMPTS (30)

ASSUME TriesAssumption == MaxTries \in Nat \ {0} /\ MaxPolls \in Nat

(* A key is kept for one product and one page, which asks for one of it.   *)
ASSUME StoredKeyAssumption ==
  \A q, r \in Requests : Key[q] = Key[r] /\ Key[q] # NoKey => Body[q] = Body[r]

VARIABLES uiMode,       \* which checkout page
          tab,          \* the document the tab is at
          storedKey,    \* sessionStorage: the idempotency key
          savedToken,   \* sessionStorage: the token of an order, by session
          effect,       \* where each effect is
          mounted,      \* its page is still mounted (cancelled is false)
          tries,        \* the attempts it has begun
          request,      \* its latest request
          bought,       \* the order whose session the address bar names
          confirmation, \* what the page after the payment shows
          polls,        \* the times it has asked again
          offered,      \* history: orders shown since the key was drawn
          overlap       \* history: an effect began before others had ended

pageVars    == <<effect, mounted, tries, request>>
orderPage   == <<confirmation, polls>>
tabVars     == <<uiMode, tab, storedKey, savedToken, bought, orderPage,
                 offered, overlap>>
browserVars == <<checkoutAll, pageVars, tabVars>>

Keys == {Key[r] : r \in Requests} \ {NoKey}

(* TERMINAL_ORDER_STATUSES                                                 *)
FinalStatuses == {"paid", "failed", "expired", "canceled", "refunded"}

BrowserTypeOK ==
  /\ CheckoutTypeOK
  /\ uiMode \in {"hosted", "embedded"}
  /\ tab \in {"shop", "stripe", "confirm"}
  /\ storedKey \in Keys \cup {NoKey}
  /\ savedToken \in [Orders -> Requests \cup {NoOrder}]
  /\ effect \in [Effects -> {"unused", "waiting", "pausing", "shown", "failed", "gone"}]
  /\ mounted \in [Effects -> BOOLEAN]
  /\ tries \in [Effects -> 0 .. MaxTries]
  /\ request \in [Effects -> Requests \cup {NoOrder}]
  /\ bought \in Orders \cup {NoOrder}
  /\ confirmation \in FinalStatuses \cup
       {"loading", "timed_out", "denied", "unavailable", "missing"}
  /\ polls \in 0 .. MaxPolls
  /\ offered \subseteq Orders
  /\ overlap \in BOOLEAN

BrowserInit ==
  /\ CheckoutInit
  /\ uiMode \in {"hosted", "embedded"}
  /\ tab = "shop"
  /\ storedKey = NoKey
  /\ savedToken = [o \in Orders |-> NoOrder]
  /\ effect = [p \in Effects |-> "unused"]
  /\ mounted = [p \in Effects |-> FALSE]
  /\ tries = [p \in Effects |-> 0]
  /\ request = [p \in Effects |-> NoOrder]
  /\ bought = NoOrder
  /\ confirmation = "loading" /\ polls = 0
  /\ offered = {}
  /\ overlap = FALSE

-----------------------------------------------------------------------------
(* The effect.                                                             *)

Running(p) == effect[p] \in {"waiting", "pausing"}

(* POST /api/checkout/sessions with a key, as a request not used before.   *)
Send(p, k) == \E r \in Requests :
  /\ rpc[r] = "idle" /\ Key[r] = k
  /\ BeginRequest(r)
  /\ request' = [request EXCEPT ![p] = r]
  /\ effect' = [effect EXCEPT ![p] = "waiting"]
  /\ tries' = [tries EXCEPT ![p] = @ + 1]

(* crypto.randomUUID: a key nobody has used.                               *)
UnusedKeys == {k \in Keys : \A r \in Requests : Key[r] = k => rpc[r] = "idle"}

(* Faulty: every mount draws a key of its own.                             *)
FreshKeys == UnusedKeys

(* getIdempotencyKey.                                                      *)
KeysToUse == IF storedKey = NoKey THEN UnusedKeys ELSE {storedKey}

Mount(p) ==
  /\ tab = "shop" /\ effect[p] = "unused" /\ \A q \in Effects : ~mounted[q]
  /\ \E k \in KeysToUse : Send(p, k) /\ storedKey' = k
  /\ mounted' = [mounted EXCEPT ![p] = TRUE]
  /\ overlap' = \/ overlap
                 \/ \E q \in Effects : Running(q)
                 \/ \E r \in Requests : InFlight(r)
  /\ UNCHANGED <<uiMode, tab, savedToken, bought, orderPage, offered>>

(* The order a successful answer leads to.                                 *)
OrderOf(r) == IF reply[r] = "created" THEN r ELSE found[r]

Succeeded(r) == reply[r] \in {"created", "replayed"}

(* Faulty: CHECKOUT_IN_PROGRESS is an error like any other.                *)
NeverAgain(p) == FALSE

(* createCheckoutSession repeats a request that met another one at work.   *)
TriesAgain(p) == reply[request[p]] = "in_progress" /\ tries[p] < MaxTries

(* Faulty: a token that is there already is kept.                          *)
SaveFirstToken(o, r) ==
  savedToken' = [savedToken EXCEPT ![o] = IF @ = NoOrder THEN r ELSE @]

SaveOrderAccessToken(o, r) == savedToken' = [savedToken EXCEPT ![o] = r]

(* The answer to the latest request, and what the effect does with it.     *)
GetAnswer(p) ==
  LET r == request[p]
      o == OrderOf(r)
  IN  /\ effect[p] = "waiting" /\ rpc[r] = "done"
      /\ \/ /\ TriesAgain(p)
            /\ effect' = [effect EXCEPT ![p] = "pausing"]
            /\ UNCHANGED <<savedToken, offered>>
         \/ /\ Succeeded(r) /\ mounted[p]
            /\ effect' = [effect EXCEPT ![p] = "shown"]
            /\ SaveOrderAccessToken(o, r)
            /\ offered' = offered \cup {o}
         \/ /\ ~Succeeded(r) /\ ~TriesAgain(p) /\ mounted[p]
            /\ effect' = [effect EXCEPT ![p] = "failed"]
            /\ UNCHANGED <<savedToken, offered>>
         \/ /\ ~TriesAgain(p) /\ ~mounted[p]
            /\ effect' = [effect EXCEPT ![p] = "gone"]
            /\ UNCHANGED <<savedToken, offered>>
      /\ UNCHANGED <<checkoutAll, mounted, tries, request, uiMode, tab, storedKey,
                     bought, orderPage, overlap>>

(* The connection breaks before the server has finished.                   *)
LoseConnection(p) ==
  /\ effect[p] = "waiting" /\ InFlight(request[p]) /\ MayFault
  /\ effect' = [effect EXCEPT ![p] = IF mounted[p] THEN "failed" ELSE "gone"]
  /\ UNCHANGED <<stripeVars, orders, checkoutVars, mounted, tries, request, tabVars>>

TryAgain(p) ==
  /\ effect[p] = "pausing"
  /\ Send(p, Key[request[p]])
  /\ UNCHANGED <<mounted, tabVars>>

(* Navigation inside the shop, such as the back button.                    *)
Unmount(p) ==
  /\ mounted[p]
  /\ mounted' = [mounted EXCEPT ![p] = FALSE]
  /\ effect' = [effect EXCEPT ![p] = IF Running(p) THEN @ ELSE "gone"]
  /\ UNCHANGED <<checkoutAll, tries, request, tabVars>>

-----------------------------------------------------------------------------
(* Documents.  Loading one ends every effect of the one before.            *)

Load(document) ==
  /\ tab' = document
  /\ effect' = [p \in Effects |-> IF effect[p] = "unused" THEN "unused" ELSE "gone"]
  /\ mounted' = [p \in Effects |-> FALSE]
  /\ confirmation' = "loading" /\ polls' = 0
  /\ UNCHANGED <<tries, request, uiMode, savedToken, overlap>>

DropKey == storedKey' = NoKey /\ offered' = {}

(* A reload, the cancel link of the payment page, or buying once more.     *)
OpenShop == /\ Load("shop")
            /\ bought' = NoOrder
            /\ UNCHANGED <<checkoutAll, storedKey, offered>>

(* HostedCheckout drops the key and goes to the payment page.              *)
Redirect(p) ==
  /\ uiMode = "hosted" /\ effect[p] = "shown"
  /\ Load("stripe") /\ DropKey
  /\ bought' = OrderOf(request[p])
  /\ UNCHANGED checkoutAll

Pays(o) == /\ PayByCard(o) \/ PayLater(o)
           /\ UNCHANGED <<orders, faults, checkoutVars>>

(* Stripe's own page leads to CheckoutSuccess ...                          *)
PayHosted == /\ tab = "stripe" /\ Pays(bought)
             /\ Load("confirm")
             /\ UNCHANGED <<storedKey, bought, offered>>

(* ... its embedded form to CheckoutComplete, which drops the key; the     *)
(* return URL does not ask Stripe to name the session.                     *)
PayEmbedded(p) ==
  /\ uiMode = "embedded" /\ effect[p] = "shown" /\ Pays(OrderOf(request[p]))
  /\ Load("confirm") /\ DropKey
  /\ UNCHANGED bought

(* A reload of the page after the payment; its address names the session.  *)
ReloadConfirmation == /\ tab = "confirm" /\ Load("confirm")
                      /\ UNCHANGED <<checkoutAll, storedKey, bought, offered>>

(* verifyOrderAccess.                                                      *)
Readable(o) == orders[o].session /\ savedToken[o] = token[o]

(* Asks again later; after the last time, the page shows what it has got.  *)
AskAgain(last) ==
  \/ polls < MaxPolls /\ polls' = polls + 1 /\ UNCHANGED confirmation
  \/ polls = MaxPolls /\ confirmation' = last /\ UNCHANGED polls

(* A poll of useOrderPolling: GetOrderBySession with the saved token.      *)
Poll ==
  LET final == orders[bought].status \in FinalStatuses
  IN  /\ tab = "confirm" /\ confirmation = "loading"
      /\ \/ /\ bought = NoOrder
            /\ confirmation' = "missing" /\ UNCHANGED <<polls, faults>>
         \/ /\ bought # NoOrder /\ Readable(bought) /\ final
            /\ confirmation' = orders[bought].status /\ UNCHANGED <<polls, faults>>
         \/ /\ bought # NoOrder /\ Readable(bought) /\ ~final
            /\ AskAgain("timed_out") /\ UNCHANGED faults
         \/ /\ bought # NoOrder /\ ~Readable(bought)
            /\ AskAgain("denied") /\ UNCHANGED faults
         \/ /\ bought # NoOrder /\ MayFault
            /\ AskAgain("unavailable")
      /\ UNCHANGED <<stripeVars, orders, checkoutVars, pageVars, uiMode, tab,
                     storedKey, savedToken, bought, offered, overlap>>

-----------------------------------------------------------------------------

(* A delayed payment is settled; one that bounces is left to Backend.      *)
PaymentSettles == /\ \E o \in Orders : SettleLater(o)
                  /\ UNCHANGED <<orders, faults, checkoutVars>>

Says == [unpaid |-> "processing", paid |-> "paid", expired |-> "expired"]

(* The webhook service has processed what Stripe says of a session: the    *)
(* order moves as the payment ledger allows.                               *)
OutcomeArrives(o) ==
  /\ payment[o] \in DOMAIN Says /\ orders[o].session
  /\ orders[o].status \in AllowedFrom[Says[payment[o]]]
  /\ orders' = [orders EXCEPT ![o].status = Says[payment[o]]]
  /\ UNCHANGED <<stripeVars, faults, checkoutVars>>

ServerStep == \/ \E r \in Requests : \/ RequestStep(r)
                                     \/ RequestContextEnds(r)
                                     \/ CrashRequest(r)
              \/ CancelStalePendingOrders
              \/ SessionTimesOut \/ PaymentSettles
              \/ \E o \in Orders : OutcomeArrives(o)

BrowserNext ==
  \/ \E p \in Effects : \/ Mount(p)    \/ GetAnswer(p) \/ LoseConnection(p)
                        \/ TryAgain(p) \/ Unmount(p)
                        \/ Redirect(p) \/ PayEmbedded(p)
  \/ OpenShop \/ PayHosted \/ ReloadConfirmation \/ Poll
  \/ ServerStep /\ UNCHANGED <<pageVars, tabVars>>

BrowserSpec == BrowserInit /\ [][BrowserNext]_browserVars

-----------------------------------------------------------------------------
(* Safety.                                                                 *)

(* A customer who goes back and forth, reloads and tries again before      *)
(* paying is not offered two purchases: of the orders shown under one      *)
(* stored key, all but one have been canceled.                             *)
OneOffer == \A o, p \in offered : Alive(o) /\ Alive(p) => o = p

(* Without failures a page gives up only after it has been told            *)
(* CHECKOUT_IN_PROGRESS as often as it is willing to hear it.              *)
PagesWork ==
  faults = 0 =>
    \A p \in Effects : effect[p] = "failed" =>
      reply[request[p]] = "in_progress" /\ tries[p] = MaxTries

(* The token the tab keeps is the one the order accepts, so that the page  *)
(* a hosted payment leads to can read its order, however often the         *)
(* customer came back before paying, if no effect overlapped another.      *)
LonePageConfirms == ~overlap => confirmation # "denied"

(* Without failures, the page after the payment never says of a paid order *)
(* that it expired or was canceled, and never says paid of one that is     *)
(* not: neither the cleanup nor the session's timeout nor another request  *)
(* with the key gets in between.                                           *)
ConfirmationIsTrue ==
  faults = 0 /\ confirmation \in FinalStatuses =>
    (confirmation = "paid" <=> payment[bought] = "paid")

-----------------------------------------------------------------------------
(* A statement of the repository's texts that the client does not meet.    *)

(* "After payment, the success page polls order status using a per-order   *)
(* accessToken": that token opens the order.                               *)
PaidOrderIsReadable == confirmation # "denied"
=============================================================================
