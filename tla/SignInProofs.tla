---------------------------- MODULE SignInProofs ----------------------------
(***************************************************************************)
(* Theorems about SignIn, for every set of calls, every set of addresses   *)
(* and of accounts among them, and any number of failures.                 *)
(***************************************************************************)
EXTENDS SignIn, AccountsProofs

USE FailuresAssumption, NothingAssumption, KnownAssumption

TabTypeOK ==
  /\ cookie \in Calls \cup {Nothing}
  /\ user \in Emails \cup {Nothing}
  /\ purpose \in [Calls -> Purposes \cup {"none"}]
  /\ waiting \subseteq Calls
  /\ crossed \in BOOLEAN
  /\ left \in Calls \cup {Nothing}

(* What is called for each purpose.                                        *)
CalledFor == [none    |-> {"none"},
              load    |-> {"me"},
              refresh |-> {"me"},
              orders  |-> {"me"},
              sign_in |-> {"login", "register"},
              sign_out |-> {"logout"},
              verify  |-> {"verify"}]

CallsFit ==
  /\ \A c \in Calls : op[c] \in CalledFor[purpose[c]]
  /\ \A c \in waiting : step[c] # "idle"

(* A call that is not yet made carries nothing, and what the cookie or a   *)
(* call names is a session.                                                *)
NamesAreSessions ==
  /\ \A c \in Calls : step[c] = "idle" => customer[c] = Nothing /\ target[c] = Nothing
  /\ cookie # Nothing => sessions[cookie] # Nothing
  /\ \A c \in Calls : op[c] \in {"me", "logout"} /\ target[c] # Nothing =>
       sessions[target[c]] # Nothing

(* A request that passed found the owner of the session it came with; a    *)
(* sign-in has begun a session of its account.                             *)
AnswersAreTrue ==
  \A c \in Calls :
    /\ op[c] = "me" /\ customer[c] # Nothing =>
         target[c] # Nothing /\ sessions[target[c]].owner = customer[c]
    /\ op[c] = "me" /\ (step[c] \in {"touch", "profile"} \/ result[c] = "ok") =>
         customer[c] # Nothing
    /\ op[c] \in {"login", "register"} /\ result[c] = "ok" =>
         sessions[c] # Nothing /\ sessions[c].owner = customer[c]

(* The sessions that the jar holds or an awaited answer can put there.     *)
Carried == {s \in Calls : /\ s # Nothing
                          /\ \/ cookie = s
                             \/ \E d \in waiting : op[d] = "me" /\ target[d] = s}

Agree(s, t) == \/ EndedOnServer(s) \/ EndedOnServer(t)
               \/ sessions[s].owner = sessions[t].owner

(* While a sign-in is awaited nobody is shown as signed in, and nothing    *)
(* else that is awaited can change that, or bring a session back.          *)
LoneSignIn ==
  ~crossed => \A c \in waiting : purpose[c] = "sign_in" =>
    /\ user = Nothing
    /\ \A d \in waiting \ {c} :
         purpose[d] \notin SaysWho /\ (op[d] = "me" => EndedOnServer(target[d]))

(* The sessions about that have not ended are one account's: ...           *)
OneOwner == ~crossed => \A s, t \in Carried : Agree(s, t)

MayStillPass(d) ==
  /\ op[d] = "me" /\ target[d] # Nothing
  /\ customer[d] # Nothing \/ (step[d] = "lookup" /\ ~EndedOnServer(target[d]))

(* ... that of the session with which somebody asks who is signed in, even *)
(* if it ends before the answer is there; ...                              *)
AnswersAgree ==
  ~crossed => \A d \in waiting : purpose[d] \in {"load", "refresh"} /\ MayStillPass(d) =>
    \A t \in Carried : EndedOnServer(t) \/ sessions[t].owner = sessions[target[d]].owner

(* ... and that of the account the page shows.                             *)
ShownIsOwner ==
  ~crossed /\ user # Nothing =>
    \A t \in Carried : EndedOnServer(t) \/ sessions[t].owner = user

(* After a sign-out, until somebody signs in, all that is about is the     *)
(* session it ends.                                                        *)
OnlyLeft ==
  left # Nothing =>
    /\ purpose[left] = "sign_out"
    /\ cookie \in {Nothing, target[left]}
    /\ \A d \in waiting : /\ purpose[d] # "sign_in"
                          /\ op[d] = "me" => target[d] \in {Nothing, target[left]}

ServedInv == /\ CallsInv /\ LogoutsEnd /\ TabTypeOK
             /\ CallsFit /\ NamesAreSessions /\ AnswersAreTrue

SignInInv == /\ ServedInv
             /\ LoneSignIn /\ OneOwner /\ AnswersAgree /\ ShownIsOwner /\ OnlyLeft

-----------------------------------------------------------------------------
(* What a step of the server does to a call and to the sessions.           *)
CallMoves(d) ==
  /\ op'[d] = op[d]
  /\ step[d] \in {"idle", "done"} =>
       /\ step'[d] = step[d] /\ customer'[d] = customer[d]
       /\ target'[d] = target[d] /\ result'[d] = result[d]
  /\ step[d] # "idle" => step'[d] # "idle"
  /\ op[d] \in {"me", "logout"} => target'[d] = target[d]
  /\ op[d] = "me" /\ customer'[d] # customer[d] =>
       /\ step[d] = "lookup" /\ Valid(sessions[target[d]])
       /\ customer'[d] = sessions[target[d]].owner
  /\ op[d] = "me" /\ step'[d] \in {"touch", "profile"} =>
       customer'[d] \in Emails \/ step[d] \in {"touch", "profile"}
  /\ op[d] = "me" /\ step'[d] = "lookup" => step[d] = "lookup"
  /\ op[d] = "me" /\ result'[d] = "ok" => result[d] = "ok" \/ step[d] = "profile"
  /\ op[d] \in {"login", "register"} /\ result'[d] = "ok" =>
       step[d] = "done" \/ (sessions'[d] # Nothing /\ sessions'[d].owner = customer'[d])

ServerMoves == Kept(sessions, sessions') /\ \A d \in Calls : CallMoves(d)

ServerNext == \E c \in Calls : CallStep(c) \/ GrantExpires(c) \/ CrashCall(c)

(* A step of the server is a step of one call, on its way.                 *)
LEMMA ServerStep == CallsInv /\ ServerNext => ServerMoves
<1> SUFFICES ASSUME CallsInv, NEW c \in Calls,
                    CallStep(c) \/ GrantExpires(c) \/ CrashCall(c)
             PROVE  ServerMoves
  BY DEF ServerNext
<1> USE DEF OnTheWay, StepsOf, CallsTyped, Operations
<1>a. CallsTyped /\ OnTheWay
  BY DEF CallsInv, AccountsTypeOK, CallsTyped
<1>b. Kept(sessions, sessions')
  BY SessionsStep DEF CallsNext, SessionsMove
<1>c. SUFFICES ASSUME NEW d \in Calls PROVE CallMoves(d)
  BY <1>b DEF ServerMoves
<1>d. step[d] \notin {"idle", "done"} => step[d] \in StepsOf[op[d]] /\ result[d] = "none"
  BY <1>a DEF UnderWay
<1>1. CASE LookUp(c)
  <2>1. \A t \in Calls : sessions[t] # Nothing => sessions[t].owner \in Emails
    BY OwnersAreSpelled DEF CallsInv
  <2>2. target[d] \in Calls \/ op[d] # "me" \/ ~UnderWay(d)
    BY DEF CallsInv, CallsCarry
  <2> QED
    BY <1>1, <1>a, <1>d, <2>1, <2>2 DEF UnderWay, CallMoves, LookUp, Statement, Query,
       Fail, Goto, Answer, Find, GetCustomerByEmail, Valid
<1>2. CASE CreateCustomer(c)
  BY <1>2, <1>a, <1>d DEF CallMoves, CreateCustomer, Statement, Fail, Goto, Answer
<1>3. CASE CreateEmailVerificationToken(c)
  BY <1>3, <1>a, <1>d DEF CallMoves, CreateEmailVerificationToken, Statement, Fail, Answer
<1>4. CASE CreateUserSession(c)
  <2>1. step[c] = "session" /\ customer[c] \in Emails
    BY <1>4 DEF CreateUserSession, CallsInv, CallsHaveFound
  <2>2. result'[c] = "ok" => sessions'[c] # Nothing /\ sessions'[c].owner = customer[c]
    <3> SUFFICES ASSUME result'[c] = "ok"
                 PROVE  sessions'[c] # Nothing /\ sessions'[c].owner = customer[c]
      OBVIOUS
    <3>1. op[c] # "logout"
      BY <2>1, <1>a DEF UnderWay
    <3>2. sessions' = [sessions EXCEPT ![c] = [owner |-> customer[c], state |-> "valid"]]
      BY <1>4, <1>a, <3>1 DEF CreateUserSession, Statement, Insert, Fail, Answer
    <3> QED
      BY <2>1, <3>2, NewGrant DEF CallsInv, AccountsTypeOK, Grant
  <2> QED
    BY <1>4, <1>a, <1>d, <2>2 DEF CallMoves, CreateUserSession, Statement, Fail, Answer
<1>5. CASE CreatePasswordResetToken(c)
  BY <1>5, <1>a, <1>d DEF CallMoves, CreatePasswordResetToken, Statement, Fail, Answer
<1>6. CASE RevokeUserSession(c)
  BY <1>6, <1>a, <1>d DEF CallMoves, RevokeUserSession, Statement, Fail, Answer
<1>7. CASE ConsumePasswordResetToken(c)
  BY <1>7, <1>a, <1>d DEF CallMoves, ConsumePasswordResetToken, Statement, Query, Fail,
     Answer, Find
<1>8. CASE ConsumeEmailVerificationToken(c)
  BY <1>8, <1>a, <1>d DEF CallMoves, ConsumeEmailVerificationToken, Statement, Query, Fail,
     Answer, Find
<1>9. CASE UpdateCustomerPassword(c)
  BY <1>9, <1>a, <1>d DEF CallMoves, UpdateCustomerPassword, Statement, Fail, Goto, Answer
<1>10. CASE RevokeAllUserSessions(c)
  BY <1>10, <1>a, <1>d DEF CallMoves, RevokeAllUserSessions, Statement, Fail, Answer
<1>11. CASE MarkCustomerEmailVerified(c)
  BY <1>11, <1>a, <1>d DEF CallMoves, MarkCustomerEmailVerified, Statement, Fail, Answer
<1>12. CASE TouchUserSession(c)
  BY <1>12, <1>a, <1>d DEF CallMoves, TouchUserSession, Goto
<1>13. CASE GetCustomerByID(c)
  BY <1>13, <1>a, <1>d DEF CallMoves, GetCustomerByID, Statement, Query, Fail, Answer
<1>14. CASE GrantExpires(c)
  BY <1>14, <1>a, <1>d DEF CallMoves, GrantExpires, callVars
<1>15. CASE CrashCall(c)
  BY <1>15, <1>a, <1>d DEF CallMoves, CrashCall, UnderWay
<1> QED
  BY <1>1, <1>2, <1>3, <1>4, <1>5, <1>6, <1>7, <1>8, <1>9, <1>10, <1>11, <1>12,
     <1>13, <1>14, <1>15 DEF CallStep

(* A call is made; the others stay where they are.                         *)
Sent(c, o, t) ==
  /\ step[c] = "idle" /\ step'[c] # "idle"
  /\ op'[c] = o /\ target'[c] = t
  /\ o = "me" => customer'[c] = Nothing /\ step'[c] \in {"lookup", "done"}
  /\ result'[c] = "ok" => o = "logout"
  /\ sessions' = sessions
  /\ \A d \in Calls \ {c} : /\ op'[d] = op[d] /\ step'[d] = step[d]
                            /\ target'[d] = target[d] /\ customer'[d] = customer[d]
                            /\ result'[d] = result[d]

(* A call that is not idle before it is made has no answer yet.            *)
LEMMA Begun ==
  ASSUME CallsInv, NEW c \in Calls, NEW o, NEW s, NEW e, NEW w, NEW t,
         Begin(c, o, s, e, w, t), s # "idle",
         o = "me" => e = Nothing /\ s = "lookup"
  PROVE  Sent(c, o, t)
<1>1. /\ op \in [Calls -> Operations \cup {"none"}] /\ target \in [Calls -> Calls \cup {Nothing}]
      /\ customer \in [Calls -> Emails \cup {Nothing}]
      /\ DOMAIN step = Calls /\ DOMAIN result = Calls
  BY DEF CallsInv, AccountsTypeOK
<1>2. result[c] = "none"
  BY DEF Begin, CallsInv, OnTheWay
<1> QED
  BY <1>1, <1>2 DEF Begin, Sent, tables

(* What is answered without a session to look for.                         *)
AtOnce(c, o, unsent) ==
  /\ step[c] = "idle"
  /\ op' = [op EXCEPT ![c] = o]
  /\ step' = [step EXCEPT ![c] = "done"]
  /\ result' = [result EXCEPT ![c] = unsent]
  /\ UNCHANGED <<tables, password, target, customer, failures, history>>

(* A call that is answered at once touches no row.                         *)
LEMMA AtOnceStep ==
  ASSUME CallsInv, LogoutsEnd, NamesAreSessions, NEW c \in Calls,
         NEW o \in {"me", "logout"}, NEW u \in {"ok", "refused"}, o = "me" => u = "refused",
         AtOnce(c, o, u)
  PROVE  CallsInv' /\ LogoutsEnd' /\ Sent(c, o, Nothing)
<1>1. AccountsTypeOK /\ OnTheWay /\ CallsCarry /\ CallsHaveFound /\ GrantsAreMade
  BY DEF CallsInv
<1>2. customer[c] = Nothing /\ target[c] = Nothing
  BY DEF NamesAreSessions, AtOnce
<1>3. Sent(c, o, Nothing)
  BY <1>1, <1>2 DEF Sent, AtOnce, AccountsTypeOK, tables
<1>4. AccountsTypeOK'
  BY <1>1 DEF AccountsTypeOK, AtOnce, tables, history, Operations
<1>5. OnTheWay' /\ CallsCarry' /\ CallsHaveFound'
  BY <1>1, <1>2 DEF OnTheWay, CallsCarry, CallsHaveFound, AtOnce, AccountsTypeOK, tables,
     UnderWay
<1>6. GrantsAreMade'
  BY <1>1 DEF GrantsAreMade, AtOnce, AccountsTypeOK, tables
<1>7. LogoutsEnd'
  BY <1>1, <1>2 DEF LogoutsEnd, AtOnce, AccountsTypeOK, tables
<1> QED
  BY <1>3, <1>4, <1>5, <1>6, <1>7 DEF CallsInv

(* A request that carries the cookie is a call of Accounts with that       *)
(* session for its target.                                                 *)
LEMMA CookieSent ==
  ASSUME CallsInv, LogoutsEnd, NamesAreSessions, TabTypeOK, NEW c \in Calls,
         NEW o \in {"me", "logout"}, NEW u \in {"ok", "refused"}, o = "me" => u = "refused",
         SendWithCookie(c, o, u)
  PROVE  CallsInv' /\ LogoutsEnd' /\ Sent(c, o, cookie)
<1>1. CASE cookie # Nothing
  <2>1. Begin(c, o, "lookup", Nothing, Nothing, cookie) /\ cookie \in Calls
    BY <1>1 DEF SendWithCookie, TabTypeOK
  <2>2. Begins(c)
    BY <2>1 DEF Begins, Operations, StepsOf
  <2> QED
    BY <2>1, <2>2, Begun, CallsStep, LogoutsEndStep DEF CallsNext
<1>2. CASE cookie = Nothing
  <2>1. AtOnce(c, o, u)
    BY <1>2 DEF SendWithCookie, AtOnce
  <2> QED
    BY <1>2, <2>1, AtOnceStep
<1> QED
  BY <1>1, <1>2

(* A form that is submitted begins a login or a registration.              *)
LEMMA FormSent ==
  ASSUME CallsInv, LogoutsEnd, NEW c \in Calls, Login(c) \/ Register(c)
  PROVE  CallsInv' /\ LogoutsEnd' /\ \E o \in {"login", "register"} : Sent(c, o, Nothing)
<1>1. Begins(c)
  BY OperationsBegin
<1>2. \E o \in {"login", "register"} : Sent(c, o, Nothing)
  BY Begun DEF Login, Register
<1> QED
  BY <1>1, <1>2, CallsStep, LogoutsEndStep DEF CallsNext

(* A link that is opened begins a verification.                            *)
LEMMA LinkSent ==
  ASSUME CallsInv, LogoutsEnd, NEW c \in Calls, VerifyEmail(c)
  PROVE  CallsInv' /\ LogoutsEnd' /\ \E t \in Calls : Sent(c, "verify", t)
<1>1. Begins(c)
  BY OperationsBegin
<1>2. \E t \in Calls : Sent(c, "verify", t)
  BY Begun DEF VerifyEmail
<1> QED
  BY <1>1, <1>2, CallsStep, LogoutsEndStep DEF CallsNext

(* A failure that touches nothing else is a step for nobody.               *)
LEMMA FailureKeeps ==
  ASSUME CallsInv, LogoutsEnd, UNCHANGED <<tables, callVars, history>>, MayFail
  PROVE  CallsInv' /\ LogoutsEnd'
<1> USE DEF tables, callVars, history
<1>1. AccountsTypeOK'
  BY DEF CallsInv, AccountsTypeOK, MayFail
<1>2. OnTheWay' /\ CallsCarry' /\ CallsHaveFound' /\ GrantsAreMade'
  BY DEF CallsInv, OnTheWay, CallsCarry, CallsHaveFound, GrantsAreMade, UnderWay
<1>3. LogoutsEnd'
  BY DEF LogoutsEnd, MayFail, CallsInv, AccountsTypeOK
<1> QED
  BY <1>1, <1>2, <1>3 DEF CallsInv

-----------------------------------------------------------------------------
(* The browser makes a call, ...                                           *)
Makes(c, o, why) ==
  /\ o \in CalledFor[why] /\ why \in Purposes
  /\ \E t \in Calls \cup {Nothing} : Sent(c, o, t) /\ (o \in {"me", "logout"} => t = cookie)
  /\ purpose' = [purpose EXCEPT ![c] = why]
  /\ waiting' \subseteq waiting \cup {c} /\ (why = "load" => waiting' = {c})
  /\ cookie' = cookie
  /\ user' = IF why = "load" THEN Nothing ELSE user
  /\ why = "orders" => user # Nothing
  /\ why = "sign_in" => user = Nothing
  /\ crossed' \in BOOLEAN
  /\ ~crossed' => ~crossed /\ \A d \in waiting' \ {c} : ~Crosses(why, d)
  /\ \/ left' = Nothing
     \/ left' = left /\ why # "sign_in"
     \/ left' = c /\ why = "sign_out" /\
          \A d \in waiting : purpose[d] # "sign_in" /\ target[d] = cookie

(* ... or one that was awaited is answered or given up.                    *)
Arrives(c) ==
  /\ c \in waiting /\ waiting' = waiting \ {c}
  /\ UNCHANGED <<tables, callVars, history, purpose, crossed, left>>
  /\ cookie' = cookie \/ (step[c] = "done" /\ cookie' = CookieAfter(c))
  /\ \/ user' \in {user, Nothing}
     \/ /\ purpose[c] \in SaysWho /\ result[c] = "ok" /\ user' = customer[c]
        /\ step[c] = "done" /\ cookie' = CookieAfter(c)

(* Every step that sends something makes one call, with a purpose.         *)
LEMMA Sending ==
  ASSUME ServedInv, NEW c \in Calls,
         \/ Load(c) \/ SubmitForm(c) \/ ListMyOrders(c) \/ SignOut(c) \/ OpenLink(c)
         \/ \E d \in Calls : RefreshUser(d, c)
  PROVE  CallsInv' /\ LogoutsEnd' /\ \E o \in Operations, why \in Purposes : Makes(c, o, why)
<1> USE DEF Makes, CalledFor, Purposes, Operations
<1>a. /\ CallsInv /\ LogoutsEnd /\ NamesAreSessions /\ TabTypeOK
      /\ cookie \in Calls \cup {Nothing} /\ crossed \in BOOLEAN
  BY DEF ServedInv, TabTypeOK
<1>b. ASSUME SendMe(c) PROVE CallsInv' /\ LogoutsEnd' /\ Sent(c, "me", cookie)
  BY <1>a, <1>b, CookieSent DEF SendMe
<1>1. CASE Load(c)
  <2>1. Makes(c, "me", "load")
    BY <1>1, <1>a, <1>b DEF Load
  <2> QED
    BY <1>1, <1>b, <2>1 DEF Load
<1>2. CASE SubmitForm(c)
  <2>1. PICK o \in {"login", "register"} : Sent(c, o, Nothing)
    BY <1>2, <1>a, FormSent DEF SubmitForm
  <2>2. Makes(c, o, "sign_in")
    BY <1>2, <1>a, <2>1 DEF SubmitForm, Awaits, FormShown
  <2> QED
    BY <1>2, <1>a, <2>2, FormSent DEF SubmitForm
<1>3. CASE ListMyOrders(c)
  <2>1. Makes(c, "me", "orders")
    BY <1>3, <1>a, <1>b DEF ListMyOrders, Awaits
  <2> QED
    BY <1>3, <1>b, <2>1 DEF ListMyOrders
<1>4. CASE SignOut(c)
  <2>1. CallsInv' /\ LogoutsEnd' /\ Sent(c, "logout", cookie)
    BY <1>4, <1>a, CookieSent DEF SignOut
  <2>2. Makes(c, "logout", "sign_out")
    BY <1>4, <1>a, <2>1 DEF SignOut, Awaits, Pending
  <2> QED
    BY <2>1, <2>2
<1>5. CASE OpenLink(c)
  <2>1. PICK t \in Calls : Sent(c, "verify", t)
    BY <1>5, <1>a, LinkSent DEF OpenLink
  <2>2. Makes(c, "verify", "verify")
    BY <1>5, <1>a, <2>1 DEF OpenLink, Awaits
  <2> QED
    BY <1>5, <1>a, <2>2, LinkSent DEF OpenLink
<1>6. ASSUME NEW d \in Calls, RefreshUser(d, c)
      PROVE  CallsInv' /\ LogoutsEnd' /\ \E o \in Operations, why \in Purposes : Makes(c, o, why)
  <2>1. Makes(c, "me", "refresh")
    BY <1>6, <1>a, <1>b DEF RefreshUser, Awaits
  <2> QED
    BY <1>6, <1>b, <2>1 DEF RefreshUser
<1> QED
  BY <1>1, <1>2, <1>3, <1>4, <1>5, <1>6

(* An answer, or the loss of one, leaves the server alone.                 *)
LEMMA Arriving ==
  ASSUME ServedInv, NEW c \in Calls, GetAnswer(c) \/ LoseAnswer(c)
  PROVE  CallsInv' /\ LogoutsEnd' /\ Arrives(c)
<1>1. CASE GetAnswer(c)
  <2>1. CallsInv' /\ LogoutsEnd'
    BY <1>1, CallsStep, LogoutsEndStep DEF GetAnswer, ServedInv, accountVars
  <2>2. Arrives(c)
    BY <1>1 DEF GetAnswer, Arrives, Settled, UserAfter, accountVars
  <2> QED
    BY <2>1, <2>2
<1>2. CASE LoseAnswer(c)
  <2>1. CallsInv' /\ LogoutsEnd'
    BY <1>2, FailureKeeps DEF LoseAnswer, ServedInv
  <2>2. Arrives(c)
    BY <1>2 DEF LoseAnswer, UserOnError, Arrives, Settled
  <2> QED
    BY <2>1, <2>2
<1> QED
  BY <1>1, <1>2

(* The server works on the calls of the browser as on any others.          *)
LEMMA Serving ==
  ASSUME ServedInv, NEW c \in Calls, CallStep(c) \/ CrashCall(c) \/ SessionExpires(c)
  PROVE  CallsInv' /\ LogoutsEnd' /\ ServerMoves
<1>1. SessionExpires(c) => GrantExpires(c)
  BY DEF SessionExpires, GrantExpires
<1>2. ServerNext /\ CallsNext
  BY <1>1 DEF ServerNext, CallsNext
<1> QED
  BY <1>2, ServerStep, CallsStep, LogoutsEndStep DEF ServedInv

(* A step is one of these, or leaves all that matters as it is.            *)
LEMMA StepsOfTab ==
  ASSUME ServedInv, [SignInNext]_signInVars
  PROVE  /\ CallsInv' /\ LogoutsEnd'
         /\ \/ \E c \in Calls, o \in Operations, why \in Purposes : Makes(c, o, why)
            \/ \E c \in Calls : Arrives(c)
            \/ ServerMoves /\ UNCHANGED tabVars
            \/ UNCHANGED signInVars
<1>1. CASE UNCHANGED signInVars
  BY <1>1, CallsStep, LogoutsEndStep DEF signInVars, ServedInv
<1>2. CASE SignInNext
  BY <1>2, Sending, Arriving, Serving DEF SignInNext
<1> QED
  BY <1>1, <1>2

-----------------------------------------------------------------------------
(* Sessions stay, with their owners, and what has ended stays so.          *)
LEMMA SessionsStay ==
  ASSUME Kept(sessions, sessions'), NEW s \in Calls, s # Nothing => sessions[s] # Nothing
  PROVE  /\ EndedOnServer(s) => EndedOnServer(s)'
         /\ s # Nothing => sessions'[s] # Nothing /\ sessions'[s].owner = sessions[s].owner
BY DEF Kept, EndedOnServer

(* What the jar and the requests under way carry are rows of               *)
(* user_sessions.                                                          *)
LEMMA CarriedAreSessions ==
  ASSUME NamesAreSessions, waiting \subseteq Calls
  PROVE  \A s \in Carried : s \in Calls /\ s # Nothing /\ sessions[s] # Nothing
BY DEF Carried, NamesAreSessions

(* What an answer leaves in the jar.                                       *)
LEMMA JarAfter ==
  ASSUME ServedInv, NEW c \in waiting, step[c] = "done"
  PROVE  \/ CookieAfter(c) \in {cookie, Nothing}
         \/ purpose[c] = "sign_in" /\ result[c] = "ok" /\ CookieAfter(c) = c
         \/ op[c] = "me" /\ customer[c] # Nothing /\ CookieAfter(c) = target[c]
BY DEF CookieAfter, Passed

(* Step: the browser's own variables stay in their types, ...              *)
LEMMA TabTypeStep == ServedInv /\ [SignInNext]_signInVars => TabTypeOK'
<1> SUFFICES ASSUME ServedInv, [SignInNext]_signInVars PROVE TabTypeOK'
  OBVIOUS
<1>a. /\ TabTypeOK
      /\ target \in [Calls -> Calls \cup {Nothing}] /\ customer \in [Calls -> Emails \cup {Nothing}]
  BY DEF ServedInv, CallsInv, AccountsTypeOK
<1> USE DEF TabTypeOK
<1>1. ASSUME NEW c \in Calls, NEW o \in Operations, NEW why \in Purposes, Makes(c, o, why)
      PROVE  TabTypeOK'
  BY <1>1, <1>a DEF Makes
<1>2. ASSUME NEW c \in Calls, Arrives(c) PROVE TabTypeOK'
  BY <1>2, <1>a, JarAfter DEF Arrives
<1> QED
  BY <1>1, <1>2, <1>a, StepsOfTab DEF tabVars, signInVars

(* ... calls fit what they are for, ...                                    *)
LEMMA CallsFitStep == ServedInv /\ [SignInNext]_signInVars => CallsFit'
<1> SUFFICES ASSUME ServedInv, [SignInNext]_signInVars PROVE CallsFit'
  OBVIOUS
<1>a. CallsFit /\ TabTypeOK
  BY DEF ServedInv
<1> USE DEF CallsFit
<1>1. ASSUME NEW c \in Calls, NEW o \in Operations, NEW why \in Purposes, Makes(c, o, why)
      PROVE  CallsFit'
  BY <1>1, <1>a DEF Makes, Sent, TabTypeOK
<1>2. ASSUME NEW c \in Calls, Arrives(c) PROVE CallsFit'
  BY <1>2, <1>a DEF Arrives, callVars
<1>3. CASE ServerMoves /\ UNCHANGED tabVars
  BY <1>3, <1>a DEF ServerMoves, CallMoves, tabVars, TabTypeOK
<1>4. CASE UNCHANGED signInVars
  BY <1>4, <1>a DEF signInVars, accountVars, callVars, tabVars
<1> QED
  BY <1>1, <1>2, <1>3, <1>4, StepsOfTab

(* ... name sessions, ...                                                  *)
LEMMA NamesAreSessionsStep == ServedInv /\ [SignInNext]_signInVars => NamesAreSessions'
<1> SUFFICES ASSUME ServedInv, [SignInNext]_signInVars PROVE NamesAreSessions'
  OBVIOUS
<1>a. /\ NamesAreSessions /\ TabTypeOK /\ AnswersAreTrue /\ CallsFit
      /\ op \in [Calls -> Operations \cup {"none"}] /\ target \in [Calls -> Calls \cup {Nothing}]
  BY DEF ServedInv, CallsInv, AccountsTypeOK
<1>1. ASSUME NEW c \in Calls, NEW o \in Operations, NEW why \in Purposes, Makes(c, o, why)
      PROVE  NamesAreSessions'
  BY <1>1, <1>a DEF Makes, Sent, NamesAreSessions
<1>2. ASSUME NEW c \in Calls, Arrives(c) PROVE NamesAreSessions'
  <2>1. /\ UNCHANGED <<step, customer, target, op, sessions>> /\ c \in waiting
        /\ cookie' = cookie \/ (step[c] = "done" /\ cookie' = CookieAfter(c))
    BY <1>2 DEF Arrives, callVars, tables
  <2>2. purpose[c] = "sign_in" => op[c] \in {"login", "register"}
    BY <1>a DEF CallsFit, CalledFor
  <2>3. cookie' # Nothing => sessions[cookie'] # Nothing
    BY <1>a, <2>1, <2>2, JarAfter DEF NamesAreSessions, AnswersAreTrue
  <2> QED
    BY <1>a, <2>1, <2>3 DEF NamesAreSessions
<1>3. CASE ServerMoves /\ UNCHANGED tabVars
  BY <1>3, <1>a DEF ServerMoves, CallMoves, Kept, tabVars, NamesAreSessions, TabTypeOK
<1>4. CASE UNCHANGED signInVars
  BY <1>4, <1>a DEF signInVars, accountVars, callVars, tables, tabVars, NamesAreSessions
<1> QED
  BY <1>1, <1>2, <1>3, <1>4, StepsOfTab

(* ... and answer what is true.                                            *)
LEMMA AnswersAreTrueStep == ServedInv /\ [SignInNext]_signInVars => AnswersAreTrue'
<1> SUFFICES ASSUME ServedInv, [SignInNext]_signInVars PROVE AnswersAreTrue'
  OBVIOUS
<1>a. /\ NamesAreSessions /\ AnswersAreTrue
      /\ target \in [Calls -> Calls \cup {Nothing}]
  BY DEF ServedInv, CallsInv, AccountsTypeOK
<1>1. ASSUME NEW c \in Calls, NEW o \in Operations, NEW why \in Purposes, Makes(c, o, why)
      PROVE  AnswersAreTrue'
  BY <1>1, <1>a DEF Makes, Sent, AnswersAreTrue
<1>2. ASSUME NEW c \in Calls, Arrives(c) PROVE AnswersAreTrue'
  BY <1>2, <1>a DEF Arrives, callVars, tables, AnswersAreTrue
<1>3. CASE ServerMoves /\ UNCHANGED tabVars
  <2> SUFFICES ASSUME NEW c \in Calls
               PROVE  /\ op'[c] = "me" /\ customer'[c] # Nothing =>
                           target'[c] # Nothing /\ sessions'[target'[c]].owner = customer'[c]
                      /\ op'[c] = "me" /\ (step'[c] \in {"touch", "profile"} \/ result'[c] = "ok") =>
                           customer'[c] # Nothing
                      /\ op'[c] \in {"login", "register"} /\ result'[c] = "ok" =>
                           sessions'[c] # Nothing /\ sessions'[c].owner = customer'[c]
    BY DEF AnswersAreTrue
  <2>1. CallMoves(c) /\ Kept(sessions, sessions')
    BY <1>3 DEF ServerMoves
  <2>2. op[c] = "me" /\ step[c] = "lookup" => target[c] \in Calls
    BY DEF ServedInv, CallsInv, CallsCarry, UnderWay
  <2>3. op[c] = "me" /\ customer'[c] # Nothing =>
          /\ target[c] # Nothing /\ sessions[target[c]] # Nothing
          /\ sessions[target[c]].owner = customer'[c]
    BY <1>a, <2>1, <2>2 DEF CallMoves, NamesAreSessions, AnswersAreTrue, Valid
  <2>4. op[c] = "me" /\ (step'[c] \in {"touch", "profile"} \/ result'[c] = "ok") =>
          customer'[c] # Nothing
    BY <1>a, <2>1 DEF CallMoves, AnswersAreTrue
  <2>5. op[c] \in {"login", "register"} /\ result'[c] = "ok" =>
          sessions'[c] # Nothing /\ sessions'[c].owner = customer'[c]
    BY <1>a, <2>1 DEF CallMoves, AnswersAreTrue, Kept
  <2> QED
    BY <1>a, <2>1, <2>3, <2>4, <2>5 DEF CallMoves, Kept
<1>4. CASE UNCHANGED signInVars
  BY <1>4, <1>a DEF signInVars, accountVars, callVars, tables, AnswersAreTrue
<1> QED
  BY <1>1, <1>2, <1>3, <1>4, StepsOfTab

(* The parts of the invariant that do not depend on `crossed`.             *)
LEMMA ServedStep == ServedInv /\ [SignInNext]_signInVars => ServedInv'
BY StepsOfTab, TabTypeStep, CallsFitStep, NamesAreSessionsStep, AnswersAreTrueStep
   DEF ServedInv

-----------------------------------------------------------------------------
(* Step: whatever could change who is signed in while a sign-in is awaited *)
(* crosses it.                                                             *)
LEMMA LoneSignInStep == ServedInv /\ LoneSignIn /\ [SignInNext]_signInVars => LoneSignIn'
<1> SUFFICES ASSUME ServedInv, LoneSignIn, [SignInNext]_signInVars PROVE LoneSignIn'
  OBVIOUS
<1>a. /\ TabTypeOK /\ CallsFit /\ NamesAreSessions
      /\ target \in [Calls -> Calls \cup {Nothing}]
  BY DEF ServedInv, CallsInv, AccountsTypeOK
<1>b. SUFFICES ASSUME ~crossed', NEW c \in waiting', purpose'[c] = "sign_in"
               PROVE  /\ user' = Nothing
                      /\ \A d \in waiting' \ {c} : /\ purpose'[d] \notin SaysWho
                                                   /\ op'[d] = "me" => EndedOnServer(target[d])'
  BY DEF LoneSignIn
<1>1. ASSUME NEW n \in Calls, NEW o \in Operations, NEW why \in Purposes, Makes(n, o, why)
      PROVE  /\ user' = Nothing
             /\ \A d \in waiting' \ {c} : /\ purpose'[d] \notin SaysWho
                                          /\ op'[d] = "me" => EndedOnServer(target[d])'
  <2>1. /\ ~crossed /\ sessions' = sessions
        /\ purpose'[n] = why /\ \A d \in Calls \ {n} : purpose'[d] = purpose[d]
        /\ waiting' \subseteq waiting \cup {n} /\ waiting' \subseteq Calls
        /\ \A d \in Calls \ {n} : op'[d] = op[d] /\ target'[d] = target[d]
        /\ \A d \in waiting' \ {n} : d \in waiting /\ ~Crosses(why, d)
    BY <1>1, <1>a, <1>b DEF Makes, Sent, TabTypeOK
  <2>2. CASE c = n
    <3>1. why = "sign_in" /\ user' = Nothing
      BY <1>1, <1>b, <2>1, <2>2 DEF Makes
    <3> QED
      BY <2>1, <2>2, <3>1 DEF Crosses, SaysWho, EndedOnServer
  <2>3. CASE c # n
    <3>1. c \in waiting /\ purpose[c] = "sign_in" /\ user = Nothing
      BY <1>b, <2>1, <2>3 DEF LoneSignIn
    <3>2. why \notin SaysWho
      BY <1>b, <2>1, <2>3, <3>1 DEF Crosses, SaysWho
    <3>3. user' = Nothing /\ why # "orders" /\ o # "me"
      BY <1>1, <3>1, <3>2 DEF Makes, SaysWho, CalledFor, Purposes
    <3>4. \A d \in waiting' \ {c} : d # n =>
            /\ purpose'[d] \notin SaysWho
            /\ op'[d] = "me" => EndedOnServer(target[d])'
      BY <2>1, <2>3, <3>1 DEF LoneSignIn, EndedOnServer
    <3>5. purpose'[n] \notin SaysWho /\ op'[n] # "me"
      BY <1>1, <2>1, <3>2, <3>3 DEF Makes, Sent
    <3> QED
      BY <3>3, <3>4, <3>5
  <2> QED
    BY <2>2, <2>3
<1>2. ASSUME NEW n \in Calls, Arrives(n)
      PROVE  /\ user' = Nothing
             /\ \A d \in waiting' \ {c} : /\ purpose'[d] \notin SaysWho
                                          /\ op'[d] = "me" => EndedOnServer(target[d])'
  <2>1. /\ UNCHANGED <<op, target, sessions, purpose, crossed>>
        /\ waiting' = waiting \ {n} /\ n \in waiting
        /\ user' \in {user, Nothing} \/ purpose[n] \in SaysWho
    BY <1>2 DEF Arrives, callVars, tables
  <2> QED
    BY <1>b, <2>1 DEF LoneSignIn, EndedOnServer
<1>3. CASE ServerMoves /\ UNCHANGED tabVars
  <2>1. /\ UNCHANGED <<user, waiting, purpose, crossed>>
        /\ \A d \in waiting : op'[d] = op[d] /\ (op[d] = "me" => target'[d] = target[d])
    BY <1>3, <1>a DEF tabVars, ServerMoves, CallMoves, TabTypeOK
  <2>2. \A d \in waiting : op[d] = "me" /\ EndedOnServer(target[d]) => EndedOnServer(target[d])'
    BY <1>3, <1>a, <2>1 DEF NamesAreSessions, TabTypeOK, ServerMoves, Kept, EndedOnServer
  <2> QED
    BY <1>b, <2>1, <2>2 DEF LoneSignIn
<1>4. CASE UNCHANGED signInVars
  BY <1>4, <1>b DEF signInVars, accountVars, callVars, tables, tabVars, LoneSignIn,
     EndedOnServer
<1> QED
  BY <1>1, <1>2, <1>3, <1>4, StepsOfTab

-----------------------------------------------------------------------------
(* What is carried stays so, is answered, or is given up; a sign-in adds   *)
(* its session.                                                            *)
LEMMA CarriedAfter ==
  ASSUME ServedInv, [SignInNext]_signInVars
  PROVE  \/ Carried' \subseteq Carried
         \/ \E c \in waiting : /\ Arrives(c) /\ step[c] = "done" /\ cookie' = c
                               /\ purpose[c] = "sign_in" /\ result[c] = "ok"
<1>a. /\ TabTypeOK /\ CallsFit /\ NamesAreSessions
      /\ target \in [Calls -> Calls \cup {Nothing}]
  BY DEF ServedInv, CallsInv, AccountsTypeOK
<1>1. ASSUME NEW c \in Calls, NEW o \in Operations, NEW why \in Purposes, Makes(c, o, why)
      PROVE  Carried' \subseteq Carried
  <2>1. /\ cookie' = cookie /\ waiting' \subseteq waiting \cup {c} /\ waiting' \subseteq Calls
        /\ \A d \in Calls \ {c} : op'[d] = op[d] /\ target'[d] = target[d]
        /\ op'[c] = "me" => target'[c] = cookie
    BY <1>1, <1>a DEF Makes, Sent, TabTypeOK
  <2> QED
    BY <2>1 DEF Carried
<1>2. ASSUME NEW c \in Calls, Arrives(c),
             ~(purpose[c] = "sign_in" /\ result[c] = "ok" /\ step[c] = "done" /\ cookie' = c)
      PROVE  Carried' \subseteq Carried
  <2>1. /\ UNCHANGED <<op, target>> /\ waiting' \subseteq waiting /\ c \in waiting
        /\ \/ cookie' \in {cookie, Nothing}
           \/ op[c] = "me" /\ cookie' = target[c]
    BY <1>2, JarAfter DEF Arrives, callVars
  <2> QED
    BY <2>1 DEF Carried
<1>3. CASE ServerMoves /\ UNCHANGED tabVars
  BY <1>3, <1>a DEF Carried, ServerMoves, CallMoves, tabVars, TabTypeOK
<1>4. CASE UNCHANGED signInVars
  BY <1>4 DEF signInVars, accountVars, callVars, tabVars, Carried
<1> QED
  BY <1>1, <1>2, <1>3, <1>4, StepsOfTab DEF Arrives

(* In every step sessions stay.                                            *)
LEMMA SessionsLast ==
  ASSUME ServedInv, [SignInNext]_signInVars
  PROVE  Kept(sessions, sessions')
<1>1. sessions' = sessions \/ ServerMoves
  BY StepsOfTab DEF Makes, Sent, Arrives, tables, signInVars, accountVars
<1> QED
  BY <1>1 DEF ServerMoves, Kept

(* Sessions that agree go on to.                                           *)
LEMMA AgreementLasts ==
  ASSUME ServedInv, [SignInNext]_signInVars
  PROVE  /\ crossed => crossed'
         /\ \A s \in Carried : /\ EndedOnServer(s) => EndedOnServer(s)'
                               /\ sessions'[s].owner = sessions[s].owner
         /\ \A s, t \in Carried : Agree(s, t) => Agree(s, t)'
<1>1. crossed => crossed'
  BY StepsOfTab DEF Makes, Arrives, tabVars, signInVars, ServedInv, TabTypeOK
<1>2. \A s \in Carried : /\ EndedOnServer(s) => EndedOnServer(s)'
                         /\ sessions'[s].owner = sessions[s].owner
  BY SessionsLast, SessionsStay, CarriedAreSessions DEF ServedInv, TabTypeOK
<1> QED
  BY <1>1, <1>2 DEF Agree

(* A sign-in that has begun its session finds nothing about that has not   *)
(* ended.                                                                  *)
LEMMA FreshStart ==
  ASSUME ServedInv, LoneSignIn, [SignInNext]_signInVars, ~crossed',
         NEW c \in waiting, Arrives(c), step[c] = "done", cookie' = c,
         purpose[c] = "sign_in", result[c] = "ok"
  PROVE  /\ sessions'[c].owner = customer[c]
         /\ user' \in {Nothing, customer[c]}
         /\ \A t \in Carried' : t = c \/ EndedOnServer(t)'
         /\ \A d \in waiting' : purpose'[d] \notin {"load", "refresh"}
<1>1. /\ UNCHANGED <<op, target, sessions, purpose, customer, crossed>>
      /\ waiting' = waiting \ {c}
      /\ user' \in {user, Nothing, customer[c]}
  BY DEF Arrives, callVars, tables
<1>2. /\ user = Nothing
      /\ \A d \in waiting \ {c} : /\ purpose[d] \notin SaysWho
                                  /\ op[d] = "me" => EndedOnServer(target[d])
  BY <1>1 DEF LoneSignIn
<1>3. sessions[c].owner = customer[c]
  BY DEF ServedInv, AnswersAreTrue, CallsFit, CalledFor, TabTypeOK
<1>4. \A t \in Carried' : t = c \/ EndedOnServer(t)'
  BY <1>1, <1>2 DEF Carried, EndedOnServer
<1> QED
  BY <1>1, <1>2, <1>3, <1>4 DEF SaysWho

(* Step: what is about comes from the jar, one sign-in at a time.          *)
LEMMA OneOwnerStep == SignInInv /\ [SignInNext]_signInVars => OneOwner'
<1> SUFFICES ASSUME SignInInv, [SignInNext]_signInVars, ~crossed' PROVE \A s, t \in Carried' : Agree(s, t)'
  BY DEF OneOwner
<1>a. ServedInv /\ LoneSignIn /\ OneOwner
  BY DEF SignInInv
<1>1. CASE Carried' \subseteq Carried
  BY <1>1, <1>a, AgreementLasts DEF OneOwner
<1>2. CASE \E c \in waiting : /\ Arrives(c) /\ step[c] = "done" /\ cookie' = c
                              /\ purpose[c] = "sign_in" /\ result[c] = "ok"
  <2>1. PICK c \in waiting : /\ Arrives(c) /\ step[c] = "done" /\ cookie' = c
                             /\ purpose[c] = "sign_in" /\ result[c] = "ok"
    BY <1>2
  <2>2. \A t \in Carried' : t = c \/ EndedOnServer(t)'
    BY <1>a, <2>1, FreshStart
  <2> QED
    BY <2>2 DEF Agree
<1> QED
  BY <1>a, <1>1, <1>2, CarriedAfter

(* Step: who asks who is signed in asks with the session in the jar.       *)
LEMMA AnswersAgreeStep == SignInInv /\ [SignInNext]_signInVars => AnswersAgree'
<1> SUFFICES ASSUME SignInInv, [SignInNext]_signInVars, ~crossed',
                    NEW d \in waiting', purpose'[d] \in {"load", "refresh"}, MayStillPass(d)',
                    NEW t \in Carried'
             PROVE  EndedOnServer(t)' \/ sessions'[t].owner = sessions'[target'[d]].owner
  BY DEF AnswersAgree
<1>a. /\ ServedInv /\ LoneSignIn /\ OneOwner /\ AnswersAgree /\ ~crossed
      /\ TabTypeOK /\ CallsFit /\ NamesAreSessions
      /\ target \in [Calls -> Calls \cup {Nothing}]
  BY AgreementLasts DEF SignInInv, ServedInv, CallsInv, AccountsTypeOK
<1>b. d \in Calls
  BY TabTypeStep, <1>a DEF TabTypeOK
<1>c. /\ op'[d] = "me" /\ target'[d] # Nothing
      /\ customer'[d] # Nothing \/ (step'[d] = "lookup" /\ ~EndedOnServer(target[d])')
  BY DEF MayStillPass
<1>1. t \in Carried
  BY <1>a, CarriedAfter, FreshStart
<1> DEFINE Asked == /\ d \in waiting /\ purpose[d] \in {"load", "refresh"} /\ MayStillPass(d)
                    /\ target'[d] = target[d] /\ target[d] \in Calls
           Asks  == target'[d] = cookie /\ cookie \in Carried /\ ~EndedOnServer(cookie)
<1>2. Asked \/ Asks
  <2>1. ASSUME NEW c \in Calls, NEW o \in Operations, NEW why \in Purposes, Makes(c, o, why)
        PROVE  Asked \/ Asks
    <3>1. CASE c = d
      <4>1. /\ sessions' = sessions /\ target'[d] = cookie /\ cookie \in Carried
            /\ customer'[d] = Nothing
        BY <1>a, <1>c, <2>1, <3>1 DEF Makes, Sent, Carried, TabTypeOK
      <4> QED
        BY <1>c, <4>1 DEF EndedOnServer
    <3>2. CASE c # d
      <4>1. /\ d \in waiting /\ purpose'[d] = purpose[d] /\ sessions' = sessions
            /\ op'[d] = op[d] /\ step'[d] = step[d] /\ target'[d] = target[d]
            /\ customer'[d] = customer[d]
        BY <1>a, <1>b, <2>1, <3>2 DEF Makes, Sent, TabTypeOK
      <4> QED
        BY <1>a, <1>b, <1>c, <4>1 DEF MayStillPass, EndedOnServer
    <3> QED
      BY <3>1, <3>2
  <2>2. ASSUME NEW c \in Calls, Arrives(c) PROVE Asked \/ Asks
    BY <1>a, <1>b, <1>c, <2>2 DEF Arrives, callVars, tables, MayStillPass, EndedOnServer
  <2>3. CASE ServerMoves /\ UNCHANGED tabVars
    <3>1. /\ d \in waiting /\ purpose'[d] = purpose[d] /\ CallMoves(d)
      BY <1>b, <2>3 DEF ServerMoves, tabVars
    <3>2. op[d] = "me" /\ target'[d] = target[d] /\ target[d] \in Calls
      BY <1>a, <1>b, <1>c, <3>1 DEF CallMoves
    <3>3. EndedOnServer(target[d]) => EndedOnServer(target[d])'
      <4>1. target[d] # Nothing /\ sessions[target[d]] # Nothing
        BY <1>a, <1>b, <1>c, <3>2 DEF NamesAreSessions
      <4> QED
        BY <1>a, <3>2, <4>1, SessionsLast DEF EndedOnServer, Kept
    <3>4. customer[d] # Nothing \/ (step[d] = "lookup" /\ ~EndedOnServer(target[d]))
      BY <1>c, <3>1, <3>2, <3>3 DEF CallMoves, Valid, EndedOnServer
    <3> QED
      BY <1>c, <3>1, <3>2, <3>4 DEF MayStillPass
  <2>4. CASE UNCHANGED signInVars
    BY <1>a, <1>b, <1>c, <2>4 DEF signInVars, accountVars, callVars, tables, tabVars,
       MayStillPass, EndedOnServer
  <2> QED
    BY <1>a, <2>1, <2>2, <2>3, <2>4, StepsOfTab
<1>3. CASE Asked
  <2>1. target[d] \in Carried
    BY <1>3 DEF Carried, MayStillPass
  <2> QED
    BY <1>a, <1>1, <1>3, <2>1, AgreementLasts DEF AnswersAgree
<1>4. CASE Asks
  <2>1. EndedOnServer(t) \/ sessions[t].owner = sessions[cookie].owner
    BY <1>a, <1>1, <1>4 DEF OneOwner, Agree
  <2> QED
    BY <1>a, <1>1, <1>4, <2>1, AgreementLasts
<1> QED
  BY <1>2, <1>3, <1>4

(* Step: the page shows the account whose session its last answer brought. *)
LEMMA ShownIsOwnerStep == SignInInv /\ [SignInNext]_signInVars => ShownIsOwner'
<1> SUFFICES ASSUME SignInInv, [SignInNext]_signInVars, ~crossed', user' # Nothing, NEW t \in Carried'
             PROVE  EndedOnServer(t)' \/ sessions'[t].owner = user'
  BY DEF ShownIsOwner
<1>a. /\ ServedInv /\ LoneSignIn /\ AnswersAgree /\ ShownIsOwner /\ ~crossed
      /\ AnswersAreTrue /\ CallsFit /\ TabTypeOK
      /\ target \in [Calls -> Calls \cup {Nothing}]
  BY AgreementLasts DEF SignInInv, ServedInv, CallsInv, AccountsTypeOK
<1>1. CASE Carried' \subseteq Carried
  <2>1. CASE user' = user
    BY <1>1, <1>a, <2>1, AgreementLasts DEF ShownIsOwner
  <2>2. CASE user' # user
    <3>1. PICK c \in waiting : /\ purpose[c] \in SaysWho /\ result[c] = "ok" /\ step[c] = "done"
                               /\ user' = customer[c] /\ cookie' = CookieAfter(c) /\ Arrives(c)
      BY <1>a, <2>2, StepsOfTab DEF Makes, Arrives, tabVars, signInVars
    <3>2. CASE purpose[c] = "sign_in"
      <4>1. cookie' = c
        BY <1>a, <3>1, <3>2 DEF CookieAfter, Passed, CallsFit, CalledFor, TabTypeOK
      <4>2. /\ sessions'[c].owner = customer[c]
            /\ \A s \in Carried' : s = c \/ EndedOnServer(s)'
        BY <1>a, <3>1, <3>2, <4>1, FreshStart
      <4> QED
        BY <3>1, <4>2
    <3>3. CASE purpose[c] \in {"load", "refresh"}
      <4>1. op[c] = "me" /\ c \in Calls
        BY <1>a, <3>3 DEF CallsFit, CalledFor, TabTypeOK
      <4>2. customer[c] # Nothing /\ target[c] # Nothing /\ sessions[target[c]].owner = customer[c]
        BY <1>a, <3>1, <4>1 DEF AnswersAreTrue
      <4>3. MayStillPass(c)
        BY <4>1, <4>2 DEF MayStillPass
      <4>4. EndedOnServer(t) \/ sessions[t].owner = customer[c]
        BY <1>1, <1>a, <3>3, <4>2, <4>3 DEF AnswersAgree
      <4> QED
        BY <1>1, <1>a, <3>1, <4>4, AgreementLasts
    <3> QED
      BY <3>1, <3>2, <3>3 DEF SaysWho
  <2> QED
    BY <2>1, <2>2
<1>2. CASE \E c \in waiting : /\ Arrives(c) /\ step[c] = "done" /\ cookie' = c
                              /\ purpose[c] = "sign_in" /\ result[c] = "ok"
  BY <1>2, <1>a, FreshStart
<1> QED
  BY <1>a, <1>1, <1>2, CarriedAfter

(* Step: no call with another session is made before the next sign-in.     *)
LEMMA OnlyLeftStep == ServedInv /\ OnlyLeft /\ [SignInNext]_signInVars => OnlyLeft'
<1> SUFFICES ASSUME ServedInv, OnlyLeft, [SignInNext]_signInVars PROVE OnlyLeft'
  OBVIOUS
<1>a. /\ TabTypeOK /\ CallsFit /\ OnTheWay
      /\ target \in [Calls -> Calls \cup {Nothing}]
  BY DEF ServedInv, CallsInv, AccountsTypeOK
<1>b. left # Nothing => left \in Calls /\ op[left] = "logout"
  BY <1>a DEF OnlyLeft, TabTypeOK, CallsFit, CalledFor
<1>1. ASSUME NEW c \in Calls, NEW o \in Operations, NEW why \in Purposes, Makes(c, o, why)
      PROVE  OnlyLeft'
  <2>1. /\ step[c] = "idle" /\ op'[c] = o /\ (o \in {"me", "logout"} => target'[c] = cookie)
        /\ \A d \in Calls \ {c} : op'[d] = op[d] /\ target'[d] = target[d]
                                  /\ purpose'[d] = purpose[d]
        /\ purpose'[c] = why /\ waiting' \subseteq waiting \cup {c} /\ cookie' = cookie
        /\ waiting' \subseteq Calls
    BY <1>1, <1>a DEF Makes, Sent, TabTypeOK
  <2>2. CASE left' = left /\ why # "sign_in"
    <3>1. left # Nothing => left # c
      BY <1>a, <1>b, <2>1 DEF OnTheWay
    <3> QED
      BY <1>b, <2>1, <2>2, <3>1 DEF OnlyLeft
  <2>3. CASE left' = c /\ why = "sign_out"
             /\ \A d \in waiting : purpose[d] # "sign_in" /\ target[d] = cookie
    <3>1. o = "logout"
      BY <1>1, <2>3 DEF Makes, CalledFor
    <3> QED
      BY <2>1, <2>3, <3>1 DEF OnlyLeft
  <2>4. CASE left' = Nothing
    BY <2>4 DEF OnlyLeft
  <2> QED
    BY <1>1, <2>2, <2>3, <2>4 DEF Makes
<1>2. ASSUME NEW c \in Calls, Arrives(c) PROVE OnlyLeft'
  <2>1. /\ UNCHANGED <<op, target, purpose, left>> /\ waiting' \subseteq waiting /\ c \in waiting
        /\ cookie' = cookie \/ (step[c] = "done" /\ cookie' = CookieAfter(c))
    BY <1>2 DEF Arrives, callVars
  <2> QED
    BY <2>1, JarAfter DEF OnlyLeft
<1>3. CASE ServerMoves /\ UNCHANGED tabVars
  BY <1>3, <1>a, <1>b DEF OnlyLeft, ServerMoves, CallMoves, tabVars, TabTypeOK
<1>4. CASE UNCHANGED signInVars
  BY <1>4 DEF signInVars, accountVars, callVars, tabVars, OnlyLeft
<1> QED
  BY <1>1, <1>2, <1>3, <1>4, StepsOfTab

(* All parts together.                                                     *)
LEMMA SignInStep == SignInInv /\ [SignInNext]_signInVars => SignInInv'
BY ServedStep, LoneSignInStep, OneOwnerStep, AnswersAgreeStep, ShownIsOwnerStep, OnlyLeftStep
   DEF SignInInv

(* A browser that starts without a cookie satisfies the invariant.         *)
LEMMA SignInStart == SignInInit => SignInInv
<1> SUFFICES ASSUME SignInInit PROVE SignInInv
  OBVIOUS
<1> DEFINE rows(w) == [e \in Emails |-> IF e \in Known THEN [password |-> w, verified |-> FALSE]
                                        ELSE Nothing]
<1>1. PICK w \in Passwords : AccountsInitWith(rows(w))
  BY DEF SignInInit
<1>2. [password |-> w, verified |-> FALSE] \in Account
  BY DEF Account
<1>3. customers \in [Emails -> Account \cup {Nothing}]
  BY <1>1, <1>2 DEF AccountsInitWith
<1> HIDE DEF rows
<1> USE DEF AccountsInitWith
<1>4. failures \in 0 .. MaxFailures
  BY <1>1
<1>5. CallsTyped
  BY <1>1, <1>4, Zenon DEF CallsTyped, Operations
<1>6. /\ sessions \in [Calls -> Grant \cup {Nothing}]
      /\ resets \in [Calls -> Grant \cup {Nothing}]
      /\ links \in [Calls -> Grant \cup {Nothing}]
  BY <1>1
<1>7. CallsInv
  BY <1>1, <1>3, <1>5, <1>6 DEF CallsInv, CallsTyped, AccountsTypeOK, OnTheWay, CallsCarry,
     CallsHaveFound, GrantsAreMade, UnderWay
<1>8. LogoutsEnd /\ AnswersAreTrue
  BY <1>1 DEF LogoutsEnd, AnswersAreTrue
<1>9. TabTypeOK /\ CallsFit /\ NamesAreSessions
  BY <1>1 DEF SignInInit, TabTypeOK, CallsFit, CalledFor, NamesAreSessions
<1>10. LoneSignIn /\ OneOwner /\ AnswersAgree /\ ShownIsOwner /\ OnlyLeft
  BY DEF SignInInit, LoneSignIn, OneOwner, AnswersAgree, ShownIsOwner, OnlyLeft, Carried
<1> QED
  BY <1>7, <1>8, <1>9, <1>10 DEF SignInInv, ServedInv

-----------------------------------------------------------------------------
(* Theorems.                                                               *)

(* The invariant behind the theorems below is inductive.                   *)
THEOREM SignInInvariance == SignInSpec => []SignInInv
BY SignInStart, SignInStep, PTL DEF SignInSpec

(* Every variable stays in its type, whatever answers come when.           *)
THEOREM SignInTypeCorrect == SignInSpec => []SignInTypeOK
<1>1. SignInInv => SignInTypeOK
  BY DEF SignInInv, ServedInv, CallsInv, TabTypeOK, SignInTypeOK
<1> QED
  BY <1>1, SignInInvariance, PTL

(* The session a browser sends along is that of the account its page       *)
(* shows, or of no use, unless a sign-in crossed an answer that undoes it. *)
THEOREM ActsInShownName == SignInSpec => []OneAccountAtATime
<1>1. SignInInv => OneAccountAtATime
  <2> SUFFICES ASSUME SignInInv, ~crossed, user # Nothing, cookie # Nothing,
                      Valid(sessions[cookie])
               PROVE  sessions[cookie].owner = user
    BY DEF OneAccountAtATime
  <2>1. cookie \in Carried
    BY DEF SignInInv, ServedInv, TabTypeOK, Carried
  <2>2. ~EndedOnServer(cookie)
    BY DEF EndedOnServer, Valid
  <2> QED
    BY <2>1, <2>2 DEF SignInInv, ShownIsOwner
<1> QED
  BY <1>1, SignInInvariance, PTL

(* Without failures a logout that found its session has ended it, also     *)
(* when the browser sends more requests with it, or brings its cookie back *)
(* with their answers.                                                     *)
THEOREM LogoutsEndForBrowser == SignInSpec => []SignedOutIsOver
<1>1. SignInInv => SignedOutIsOver
  BY DEF SignInInv, ServedInv, CallsInv, OnTheWay, LogoutsEnd, SignedOutIsOver, Spent, Valid
<1> QED
  BY <1>1, SignInInvariance, PTL

(* What late answers bring back after a sign-out is the session that the   *)
(* sign-out has ended.                                                     *)
THEOREM SignOutsLast == SignInSpec => []SignedOutForGood
<1>1. SignInInv => SignedOutForGood
  <2> SUFFICES ASSUME SignInInv, failures = 0, left # Nothing, left \notin Pending,
                      customer[left] # Nothing, cookie # Nothing
               PROVE  ~Valid(sessions[cookie])
    BY DEF SignedOutForGood
  <2>1. left \in Calls /\ purpose[left] = "sign_out" /\ cookie = target[left]
    BY DEF SignInInv, ServedInv, TabTypeOK, OnlyLeft
  <2>2. op[left] = "logout"
    BY <2>1 DEF SignInInv, ServedInv, CallsFit, CalledFor
  <2>3. step[left] # "revoke"
    BY <2>1 DEF Pending, UnderWay
  <2>4. Spent(sessions[target[left]])
    BY <2>1, <2>2, <2>3 DEF SignInInv, ServedInv, LogoutsEnd
  <2> QED
    BY <2>1, <2>4 DEF Spent, Valid
<1> QED
  BY <1>1, SignInInvariance, PTL
=============================================================================
