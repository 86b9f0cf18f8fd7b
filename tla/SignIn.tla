------------------------------- MODULE SignIn -------------------------------
(***************************************************************************)
(* The client of Accounts: the cookie jar of one browser, and the          *)
(* AuthContext of the document in its tab, which shows somebody as signed  *)
(* in or nobody.  The calls of the document run side by side; an answer is *)
(* a cookie for the jar and something for the page, and answers come in    *)
(* any order.                                                              *)
(***************************************************************************)
EXTENDS Accounts

CONSTANT Known    \* the addresses that have an account at first

ASSUME KnownAssumption == Known \subseteq Emails

VARIABLES cookie,    \* the session the jar's cookie names
          user,      \* AuthContext: whom the page shows as signed in
          purpose,   \* what a call is for
          waiting,   \* the calls whose answer the document waits for
          crossed,   \* history: a sign-in was awaited at once with a call whose
                     \* answer can undo it
          left       \* history: the last sign-out, if by then nothing was under
                     \* way but calls with the session it was to end

tabVars    == <<cookie, user, purpose, waiting, crossed, left>>
signInVars == <<accountVars, tabVars>>

Purposes == {"load", "refresh", "orders", "sign_in", "sign_out", "verify"}

SignInTypeOK ==
  /\ AccountsTypeOK
  /\ cookie \in Calls \cup {Nothing}
  /\ user \in Emails \cup {Nothing}
  /\ purpose \in [Calls -> Purposes \cup {"none"}]
  /\ waiting \subseteq Calls
  /\ crossed \in BOOLEAN
  /\ left \in Calls \cup {Nothing}

(* The document has found nobody signed in.                                *)
SignInInit ==
  /\ \E w \in Passwords :
       AccountsInitWith([e \in Emails |->
         IF e \in Known THEN [password |-> w, verified |-> FALSE] ELSE Nothing])
  /\ cookie = Nothing
  /\ user = Nothing
  /\ purpose = [c \in Calls |-> "none"]
  /\ waiting = {}
  /\ crossed = FALSE
  /\ left = Nothing

-----------------------------------------------------------------------------
(* The calls of the document.                                              *)

(* The session cookie goes along with every call; what finds none answers  *)
(* without a look at the database.                                         *)
SendWithCookie(c, o, unsent) ==
  \/ /\ cookie # Nothing
     /\ Begin(c, o, "lookup", Nothing, Nothing, cookie)
  \/ /\ cookie = Nothing /\ step[c] = "idle"
     /\ op' = [op EXCEPT ![c] = o]
     /\ step' = [step EXCEPT ![c] = "done"]
     /\ result' = [result EXCEPT ![c] = unsent]
     /\ UNCHANGED <<tables, password, target, customer, failures, history>>

(* Me, and every handler behind RequireUserSession that only reads.        *)
SendMe(c) == SendWithCookie(c, "me", "refused")

(* The answers that make the page show an account.                         *)
SaysWho == {"load", "refresh", "sign_in"}

EndedOnServer(s) == s = Nothing \/ sessions[s].state = "over"

(* A sign-in and another call that says who is signed in, or one that may  *)
(* bring a session back that has not ended.                                *)
Crosses(why, d) ==
  \/ {why, purpose[d]} \subseteq SaysWho /\ "sign_in" \in {why, purpose[d]}
  \/ why = "sign_in" /\ op[d] = "me" /\ ~EndedOnServer(target[d])

Awaits(c, why) ==
  /\ purpose' = [purpose EXCEPT ![c] = why]
  /\ crossed' = (crossed \/ \E d \in waiting \ {c} : Crosses(why, d))

(* The first effect of AuthProvider; the document before it forgets its    *)
(* calls.                                                                  *)
Load(c) ==
  /\ SendMe(c)
  /\ purpose' = [purpose EXCEPT ![c] = "load"]
  /\ waiting' = {c}
  /\ user' = Nothing
  /\ UNCHANGED <<cookie, crossed, left>>

(* Faulty: the forms are also there for who is signed in.                  *)
FormKept == TRUE

(* Login and SignUp send somebody who is signed in elsewhere.              *)
FormShown == user = Nothing

SubmitForm(c) ==
  /\ FormShown
  /\ Login(c) \/ Register(c)
  /\ Awaits(c, "sign_in") /\ waiting' = waiting \cup {c}
  /\ left' = Nothing
  /\ UNCHANGED <<cookie, user>>

(* Behind ProtectedRoute.                                                  *)
ListMyOrders(c) ==
  /\ user # Nothing
  /\ SendMe(c)
  /\ Awaits(c, "orders") /\ waiting' = waiting \cup {c}
  /\ UNCHANGED <<cookie, user, left>>

(* Calls that can still change the jar or a session.                       *)
Pending == waiting \cup {c \in Calls : UnderWay(c)}

SignOut(c) ==
  /\ user # Nothing
  /\ SendWithCookie(c, "logout", "ok")
  /\ Awaits(c, "sign_out") /\ waiting' = waiting \cup {c}
  /\ left' = IF \A d \in Pending : purpose[d] # "sign_in" /\ target[d] = cookie
             THEN c ELSE Nothing
  /\ UNCHANGED <<cookie, user>>

OpenLink(c) ==
  /\ VerifyEmail(c)
  /\ Awaits(c, "verify") /\ waiting' = waiting \cup {c}
  /\ UNCHANGED <<cookie, user, left>>

-----------------------------------------------------------------------------
(* An answer arrives.                                                      *)

(* RequireUserSession found the session and let the request through.       *)
Passed(c) == op[c] = "me" /\ customer[c] # Nothing /\ result[c] # "none"

(* Faulty: a sign-out leaves an empty cookie behind.                       *)
EmptiedCookie(c) ==
  CASE purpose[c] = "sign_in" /\ result[c] = "ok"  -> c
    [] purpose[c] = "sign_out" /\ result[c] = "ok" -> "empty"
    [] Passed(c)                                   -> target[c]
    [] OTHER                                       -> cookie

(* SetSessionCookie of a sign-in, and of a request that passed, which      *)
(* brings the session back that the request came with; ClearSessionCookie. *)
CookieAfter(c) ==
  CASE purpose[c] = "sign_in" /\ result[c] = "ok"  -> c
    [] purpose[c] = "sign_out" /\ result[c] = "ok" -> Nothing
    [] Passed(c)                                   -> target[c]
    [] OTHER                                       -> cookie

UserAfter(c) ==
  CASE purpose[c] \in SaysWho /\ result[c] = "ok"          -> customer[c]
    [] purpose[c] = "load" /\ result[c] # "ok"             -> Nothing
    [] purpose[c] = "refresh" /\ result[c] = "refused"     -> Nothing
    [] purpose[c] = "sign_out"                             -> Nothing
    [] OTHER                                               -> user

Settled(c) == c \in waiting /\ step[c] = "done"

GetAnswer(c) ==
  /\ Settled(c)
  /\ cookie' = CookieAfter(c)
  /\ user' = UserAfter(c)
  /\ waiting' = waiting \ {c}
  /\ UNCHANGED <<accountVars, purpose, crossed, left>>

(* VerifyEmail, if its page is still there, asks again who is signed in.   *)
RefreshUser(c, d) ==
  /\ Settled(c) /\ purpose[c] = "verify" /\ result[c] = "ok"
  /\ SendMe(d)
  /\ Awaits(d, "refresh") /\ waiting' = (waiting \ {c}) \cup {d}
  /\ UNCHANGED <<cookie, user, left>>

(* For a refresh only an error that tells its refusal says that nobody is  *)
(* signed in.                                                              *)
UserOnError(c, told) ==
  IF purpose[c] \in {"load", "sign_out"} \/ (purpose[c] = "refresh" /\ told)
  THEN Nothing ELSE user

(* The connection breaks: for the page an error, of a known status if it   *)
(* breaks between the headers and the body.                                *)
LoseAnswer(c) ==
  /\ c \in waiting /\ MayFail
  /\ \/ UNCHANGED cookie /\ user' = UserOnError(c, FALSE)
     \/ /\ Settled(c)
        /\ cookie' = CookieAfter(c)
        /\ user' = UserOnError(c, result[c] = "refused")
  /\ waiting' = waiting \ {c}
  /\ UNCHANGED <<tables, callVars, history, purpose, crossed, left>>

-----------------------------------------------------------------------------

SessionExpires(s) ==
  /\ Expires(sessions, s)
  /\ UNCHANGED <<customers, resets, links, callVars, failures, history>>

SignInNext == \E c \in Calls :
  \/ Load(c)   \/ SubmitForm(c) \/ ListMyOrders(c)
  \/ SignOut(c) \/ OpenLink(c)
  \/ GetAnswer(c) \/ LoseAnswer(c)
  \/ \E d \in Calls : RefreshUser(c, d)
  \/ (CallStep(c) \/ CrashCall(c) \/ SessionExpires(c)) /\ UNCHANGED tabVars

SignInSpec == SignInInit /\ [][SignInNext]_signInVars

-----------------------------------------------------------------------------
(* Safety.                                                                 *)

(* The page does not act in another name than it shows: when it shows      *)
(* somebody as signed in, the session it sends along, if it is good for    *)
(* anything, is that account's.  Every request that passes sets the cookie *)
(* it came with again, whatever has happened to that session since, so     *)
(* this needs that no sign-in crosses an answer that says who is signed    *)
(* in or brings back a session that has not ended on the server; late      *)
(* answers with the dead sessions of sign-outs do no harm.                 *)
OneAccountAtATime ==
  ~crossed /\ user # Nothing /\ cookie # Nothing /\ Valid(sessions[cookie])
  => sessions[cookie].owner = user

(* Until somebody signs in again, a browser that has been signed out holds *)
(* no session that works, whatever late answers put into its jar: without  *)
(* failures, if the sign-out found its session, and what was under way     *)
(* then carried no other.                                                  *)
SignedOutForGood ==
  /\ failures = 0
  /\ left # Nothing /\ left \notin Pending /\ customer[left] # Nothing
  /\ cookie # Nothing
  => ~Valid(sessions[cookie])
=============================================================================
