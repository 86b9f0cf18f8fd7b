--------------------------- MODULE AccountsProofs ---------------------------
(***************************************************************************)
(* Theorems about Accounts, for every set of calls, every set of spellings *)
(* and which addresses they spell, and any number of failures.             *)
(***************************************************************************)
EXTENDS Accounts, FiniteSetTheorems, TLAPS

USE FailuresAssumption, NothingAssumption

(* Where the call of an operation can be while it is under way.            *)
StepsOf == [register |-> {"lookup", "insert", "link", "session"},
            login    |-> {"lookup", "session"},
            forgot   |-> {"lookup", "token"},
            logout   |-> {"lookup", "revoke"},
            me       |-> {"lookup", "touch", "profile"},
            reset    |-> {"consume", "update", "revoke_all"},
            verify   |-> {"consume", "mark"}]

(* A call is somewhere on the way of its operation, and has answered only  *)
(* at its end.                                                             *)
OnTheWay ==
  \A c \in Calls :
    /\ step[c] = "idle" <=> op[c] = "none"
    /\ UnderWay(c) => step[c] \in StepsOf[op[c]]
    /\ step[c] # "done" => result[c] = "none"

(* It carries what its operation needs: ...                                *)
CallsCarry ==
  \A c \in Calls :
    /\ op[c] \in {"register", "login", "reset"} => password[c] \in Passwords
    /\ op[c] \in {"register", "login", "forgot"} => customer[c] \in Emails
    /\ op[c] \in {"reset", "verify"} => target[c] \in Calls
    /\ op[c] \in {"logout", "me"} /\ (UnderWay(c) \/ customer[c] # Nothing) => target[c] \in Calls

(* ... an account to work on, a session to end or to extend.               *)
CallsHaveFound ==
  \A c \in Calls :
    /\ step[c] \in {"link", "session", "token", "update", "revoke_all", "mark"} =>
         customer[c] \in Emails /\ customers[customer[c]] # Nothing
    /\ step[c] \in {"revoke", "touch"} => sessions[target[c]] # Nothing

(* A session or a token appears when its call ends, a link after its       *)
(* account, and tokens belong to accounts.                                 *)
GrantsAreMade ==
  \A t \in Calls :
    /\ sessions[t] # Nothing => step[t] = "done"
    /\ resets[t] # Nothing =>
         step[t] = "done" /\ customers[resets[t].owner] # Nothing
    /\ links[t] # Nothing => customers[links[t].owner] # Nothing

Spent(row) == row # Nothing /\ row.state = "over"

(* Of the resets with one token, one has got past its consumption.         *)
TokensAreSpent ==
  \A c \in Calls : op[c] = "reset" /\ customer[c] # Nothing =>
    /\ Spent(resets[target[c]])
    /\ \A d \in Calls : op[d] = "reset" /\ customer[d] # Nothing /\ target[d] = target[c]
         => c = d

(* The sessions that a reset is to end stay its account's, and over.       *)
ResetsEnd ==
  \A c \in Calls :
    /\ step[c] = "revoke_all" =>
         \A s \in older[c] : sessions[s] # Nothing /\ sessions[s].owner = customer[c]
    /\ op[c] = "reset" /\ result[c] = "ok" => \A s \in older[c] : Spent(sessions[s])

(* Without failures a logout that has found its session ends it.           *)
LogoutsEnd ==
  failures = 0 =>
    \A c \in Calls : op[c] = "logout" /\ customer[c] # Nothing =>
      step[c] = "revoke" \/ Spent(sessions[target[c]])

Registers(c) == op[c] = "register" /\ UnderWay(c)

(* Registrations that never met: the one that is about to insert its       *)
(* account is alone, and still right to find none.                         *)
RegistrationsAreAlone ==
  ~raced =>
    /\ \A c, d \in Calls : Registers(c) /\ Registers(d) => c = d
    /\ \A c \in Calls : step[c] = "insert" => GetCustomerByEmail(customer[c]) = {}
    /\ \A d, e \in Emails :
         Address[d] = Address[e] /\ customers[d] # Nothing /\ customers[e] # Nothing => d = e

CallsInv == AccountsTypeOK /\ OnTheWay /\ CallsCarry /\ CallsHaveFound /\ GrantsAreMade

AccountsInv == /\ CallsInv
               /\ TokensAreSpent /\ ResetsEnd /\ LogoutsEnd /\ RegistrationsAreAlone

-----------------------------------------------------------------------------
(* The seven operations begin alike.                                       *)
Begins(c) == \E o \in Operations, s \in {"lookup", "consume"}, e \in Emails \cup {Nothing},
               w \in Passwords \cup {Nothing}, t \in Calls \cup {Nothing} :
  /\ Begin(c, o, s, e, w, t)
  /\ s \in StepsOf[o]
  /\ o \in {"register", "login", "reset"} => w \in Passwords
  /\ o \in {"register", "login", "forgot"} => e \in Emails
  /\ o \in {"logout", "me", "reset", "verify"} => t \in Calls /\ e = Nothing

(* Each operation of a client begins one call.                             *)
LEMMA OperationsBegin ==
  ASSUME NEW c \in Calls
  PROVE  \/ Register(c) \/ Login(c) \/ Logout(c) \/ Me(c)
         \/ RequestPasswordReset(c) \/ ResetPassword(c) \/ VerifyEmail(c)
         => Begins(c)
<1> USE DEF Begins, StepsOf, Operations
<1>1. Register(c) => Begins(c)
  BY DEF Register, ValidPasswords
<1>2. Login(c) => Begins(c)
  BY DEF Login, ValidPasswords
<1>3. Logout(c) => Begins(c)
  BY DEF Logout
<1>4. Me(c) => Begins(c)
  BY DEF Me
<1>5. RequestPasswordReset(c) => Begins(c)
  BY DEF RequestPasswordReset
<1>6. ResetPassword(c) => Begins(c)
  BY DEF ResetPassword
<1>7. VerifyEmail(c) => Begins(c)
  BY DEF VerifyEmail
<1> QED
  BY <1>1, <1>2, <1>3, <1>4, <1>5, <1>6, <1>7

(* What calls do, whoever makes them and when: the steps of Accounts and   *)
(* of its clients.                                                         *)
CallsNext == \E c \in Calls : Begins(c) \/ CallStep(c) \/ GrantExpires(c) \/ CrashCall(c)

(* The steps of Accounts are among them.                                   *)
LEMMA AccountsSteps == AccountsNext => CallsNext
BY OperationsBegin DEF AccountsNext, CallsNext

(* Rows stay, with their owners; what is over stays over.                  *)
Kept(T, U) ==
  \A t \in Calls : T[t] # Nothing =>
    /\ U[t] # Nothing /\ U[t].owner = T[t].owner
    /\ T[t].state = "over" => U[t].state = "over"

(* No row is new.                                                          *)
Updated(T, U) ==
  /\ U \in [Calls -> Grant \cup {Nothing}]
  /\ Kept(T, U)
  /\ \A t \in Calls : U[t] # Nothing => T[t] # Nothing /\ U[t].owner = T[t].owner

(* What an update of one row leaves behind.                                *)
LEMMA GrantRows ==
  ASSUME NEW T \in [Calls -> Grant \cup {Nothing}], NEW t \in Calls, T[t] # Nothing,
         NEW v \in {"valid", "expired", "over"}, T[t].state = "over" => v = "over",
         NEW U, U = [T EXCEPT ![t].state = v]
  PROVE  Updated(T, U)
<1>1. T[t] \in Grant
  OBVIOUS
<1>2. [T[t] EXCEPT !.state = v] \in Grant
  BY <1>1 DEF Grant
<1>3. U = [T EXCEPT ![t] = [T[t] EXCEPT !.state = v]]
  OBVIOUS
<1>4. [T[t] EXCEPT !.state = v].owner = T[t].owner /\ [T[t] EXCEPT !.state = v].state = v
  BY <1>1 DEF Grant
<1> QED
  BY <1>1, <1>2, <1>3, <1>4 DEF Updated, Kept

(* A token or session that is made is a row like the others.               *)
LEMMA NewGrant ==
  ASSUME NEW T \in [Calls -> Grant \cup {Nothing}], NEW t \in Calls, NEW e \in Emails
  PROVE  /\ [T EXCEPT ![t] = [owner |-> e, state |-> "valid"]] \in [Calls -> Grant \cup {Nothing}]
         /\ [T EXCEPT ![t] = [owner |-> e, state |-> "valid"]][t].owner = e
         /\ \A s \in Calls \ {t} : [T EXCEPT ![t] = [owner |-> e, state |-> "valid"]][s] = T[s]
<1>1. [owner |-> e, state |-> "valid"] \in Grant
  BY DEF Grant
<1> QED
  BY <1>1

(* An account whose password or verification is changed stays one.         *)
LEMMA AccountRows ==
  ASSUME NEW e \in Emails, customers \in [Emails -> Account \cup {Nothing}],
         customers[e] # Nothing, NEW w \in Passwords
  PROVE  /\ [customers EXCEPT ![e].password = w] \in [Emails -> Account \cup {Nothing}]
         /\ [customers EXCEPT ![e].password = w][e] # Nothing
         /\ [customers EXCEPT ![e].verified = TRUE] \in [Emails -> Account \cup {Nothing}]
         /\ [customers EXCEPT ![e].verified = TRUE][e] # Nothing
<1>1. customers[e] \in Account
  OBVIOUS
<1>2. /\ [customers[e] EXCEPT !.password = w] \in Account
      /\ [customers[e] EXCEPT !.verified = TRUE] \in Account
  BY <1>1 DEF Account
<1>3. /\ [customers EXCEPT ![e].password = w] =
           [customers EXCEPT ![e] = [customers[e] EXCEPT !.password = w]]
      /\ [customers EXCEPT ![e].verified = TRUE] =
           [customers EXCEPT ![e] = [customers[e] EXCEPT !.verified = TRUE]]
  OBVIOUS
<1> QED
  BY <1>2, <1>3

-----------------------------------------------------------------------------
(* What a step does to each table.                                         *)

SessionsMove ==
  /\ sessions' \in [Calls -> Grant \cup {Nothing}]
  /\ Kept(sessions, sessions')
  /\ \A t \in Calls : sessions[t] = Nothing /\ sessions'[t] # Nothing =>
       step[t] = "session" /\ step'[t] = "done"

ResetsMove ==
  /\ resets' \in [Calls -> Grant \cup {Nothing}]
  /\ Kept(resets, resets')
  /\ \A t \in Calls : resets[t] = Nothing /\ resets'[t] # Nothing =>
       step[t] = "token" /\ step'[t] = "done" /\ resets'[t].owner = customer[t]

LinksMove ==
  /\ links' \in [Calls -> Grant \cup {Nothing}]
  /\ \A t \in Calls : links'[t] # Nothing =>
       \/ links[t] # Nothing /\ links'[t].owner = links[t].owner
       \/ step[t] = "link" /\ links'[t].owner = customer[t]

CustomersMove ==
  /\ customers' \in [Emails -> Account \cup {Nothing}]
  /\ \A e \in Emails : customers[e] # Nothing => customers'[e] # Nothing
  /\ \A e \in Emails : customers[e] = Nothing /\ customers'[e] # Nothing =>
       \E c \in Calls : step[c] = "insert" /\ step'[c] # "insert" /\ customer[c] = e

(* Step: sessions are revoked and extended, never taken over or back.      *)
LEMMA SessionsStep == CallsInv /\ [CallsNext]_accountVars => SessionsMove
<1> SUFFICES ASSUME CallsInv, [CallsNext]_accountVars PROVE SessionsMove
  OBVIOUS
<1>a. AccountsTypeOK /\ OnTheWay /\ CallsCarry /\ CallsHaveFound /\ GrantsAreMade
  BY DEF CallsInv
<1>b. SUFFICES ASSUME sessions' # sessions PROVE SessionsMove
  BY <1>a DEF SessionsMove, Kept, AccountsTypeOK
<1>1. ASSUME NEW c \in Calls, CreateUserSession(c) PROVE SessionsMove
  <2>1. step[c] = "session" /\ step'[c] = "done" /\ customer[c] \in Emails
    BY <1>1, <1>a DEF CreateUserSession, Statement, Fail, Answer, MayFail,
       AccountsTypeOK, CallsHaveFound
  <2>2. sessions' = [sessions EXCEPT ![c] = [owner |-> customer[c], state |-> "valid"]]
    BY <1>1, <1>b DEF CreateUserSession, Statement, Insert
  <2>3. sessions[c] = Nothing
    BY <2>1, <1>a DEF GrantsAreMade
  <2> QED
    BY <2>1, <2>2, <2>3, <1>a, NewGrant DEF SessionsMove, Kept, AccountsTypeOK
<1>2. ASSUME NEW c \in Calls, RevokeUserSession(c) PROVE SessionsMove
  <2>1. /\ target[c] \in Calls /\ sessions[target[c]] # Nothing
        /\ sessions' = [sessions EXCEPT ![target[c]].state = "over"]
    BY <1>2, <1>a, <1>b DEF RevokeUserSession, Statement, Revoked, CallsHaveFound, CallsCarry,
       OnTheWay, UnderWay, StepsOf, AccountsTypeOK, Operations
  <2>2. Updated(sessions, sessions')
    BY <2>1, <1>a, GrantRows DEF AccountsTypeOK
  <2> QED
    BY <2>2 DEF Updated, SessionsMove
<1>3. ASSUME NEW c \in Calls, TouchUserSession(c) PROVE SessionsMove
  <2> DEFINE v == IF sessions[target[c]].state = "over" THEN "over" ELSE "valid"
  <2>1. /\ target[c] \in Calls /\ sessions[target[c]] # Nothing
        /\ sessions' = [sessions EXCEPT ![target[c]].state = v]
    BY <1>3, <1>a, <1>b DEF TouchUserSession, Touched, CallsHaveFound, CallsCarry,
       OnTheWay, UnderWay, StepsOf, AccountsTypeOK, Operations
  <2>2. v \in {"valid", "expired", "over"} /\ (sessions[target[c]].state = "over" => v = "over")
    OBVIOUS
  <2> HIDE DEF v
  <2>3. Updated(sessions, sessions')
    BY <2>1, <2>2, <1>a, GrantRows DEF AccountsTypeOK
  <2> QED
    BY <2>3 DEF Updated, SessionsMove
<1>4. ASSUME NEW c \in Calls, RevokeAllUserSessions(c) PROVE SessionsMove
  <2>1. sessions' = AllRevoked(c)
    BY <1>4, <1>b DEF RevokeAllUserSessions, Statement
  <2>2. ASSUME NEW s \in Calls, s \in Open(customer[c])
        PROVE  /\ [sessions[s] EXCEPT !.state = "over"] \in Grant
               /\ [sessions[s] EXCEPT !.state = "over"].owner = sessions[s].owner
               /\ [sessions[s] EXCEPT !.state = "over"].state = "over"
    <3>1. sessions[s] \in Grant
      BY <2>2, <1>a DEF Open, AccountsTypeOK
    <3> QED
      BY <3>1 DEF Grant
  <2>3. sessions' \in [Calls -> Grant \cup {Nothing}]
    BY <2>1, <2>2, <1>a DEF AllRevoked, AccountsTypeOK
  <2>4. ASSUME NEW s \in Calls, s \in Open(customer[c])
        PROVE  /\ sessions[s] # Nothing /\ sessions'[s] # Nothing
               /\ sessions'[s].owner = sessions[s].owner
               /\ sessions'[s].state = "over"
    BY <2>1, <2>2, <2>4 DEF AllRevoked, Open
  <2>5. \A s \in Calls : s \notin Open(customer[c]) => sessions'[s] = sessions[s]
    BY <2>1 DEF AllRevoked
  <2> QED
    BY <2>3, <2>4, <2>5 DEF SessionsMove, Kept
<1>5. ASSUME NEW c \in Calls, GrantExpires(c) PROVE SessionsMove
  <2>1. /\ sessions[c] # Nothing /\ sessions[c].state = "valid"
        /\ sessions' = [sessions EXCEPT ![c].state = "expired"]
    BY <1>5, <1>b DEF GrantExpires, Expires, Valid
  <2>2. Updated(sessions, sessions')
    BY <2>1, <1>a, GrantRows DEF AccountsTypeOK
  <2> QED
    BY <2>2 DEF Updated, SessionsMove
<1>6. ASSUME NEW c \in Calls,
            \/ Begins(c) \/ LookUp(c)
            \/ CreateCustomer(c) \/ CreateEmailVerificationToken(c)
            \/ CreatePasswordResetToken(c) \/ ConsumePasswordResetToken(c)
            \/ ConsumeEmailVerificationToken(c) \/ UpdateCustomerPassword(c)
            \/ MarkCustomerEmailVerified(c) \/ GetCustomerByID(c)
            \/ CrashCall(c)
     PROVE  FALSE
  BY <1>6, <1>b DEF Begins, LookUp, CreateCustomer,
     CreateEmailVerificationToken, CreatePasswordResetToken,
     ConsumePasswordResetToken, ConsumeEmailVerificationToken,
     UpdateCustomerPassword, MarkCustomerEmailVerified, GetCustomerByID,
     CrashCall, Begin, tables, callVars, Expires
<1>7. CASE UNCHANGED accountVars
  BY <1>7, <1>b DEF accountVars, tables
<1> QED
  BY <1>1, <1>2, <1>3, <1>4, <1>5, <1>6, <1>7 DEF CallsNext, CallStep

(* Step: a reset token is consumed or expires.                             *)
LEMMA ResetsStep == CallsInv /\ [CallsNext]_accountVars => ResetsMove
<1> SUFFICES ASSUME CallsInv, [CallsNext]_accountVars PROVE ResetsMove
  OBVIOUS
<1>a. AccountsTypeOK /\ OnTheWay /\ CallsCarry /\ CallsHaveFound /\ GrantsAreMade
  BY DEF CallsInv
<1>b. SUFFICES ASSUME resets' # resets PROVE ResetsMove
  BY <1>a DEF ResetsMove, Kept, AccountsTypeOK
<1>1. ASSUME NEW c \in Calls, CreatePasswordResetToken(c) PROVE ResetsMove
  <2>1. step[c] = "token" /\ step'[c] = "done" /\ customer[c] \in Emails
    BY <1>1, <1>a DEF CreatePasswordResetToken, Statement, Fail, Answer, MayFail,
       AccountsTypeOK, CallsHaveFound
  <2>2. resets' = [resets EXCEPT ![c] = [owner |-> customer[c], state |-> "valid"]]
    BY <1>1, <1>b DEF CreatePasswordResetToken, Statement, Insert
  <2>3. resets[c] = Nothing
    BY <2>1, <1>a DEF GrantsAreMade
  <2> QED
    BY <2>1, <2>2, <2>3, <1>a, NewGrant DEF ResetsMove, Kept, AccountsTypeOK
<1>2. ASSUME NEW c \in Calls, ConsumePasswordResetToken(c) PROVE ResetsMove
  <2>1. /\ target[c] \in Calls /\ resets[target[c]] # Nothing
        /\ resets' = [resets EXCEPT ![target[c]].state = "over"]
    BY <1>2, <1>a, <1>b DEF ConsumePasswordResetToken, Statement, Use, Usable, Valid,
       CallsCarry
  <2>2. Updated(resets, resets')
    BY <2>1, <1>a, GrantRows DEF AccountsTypeOK
  <2> QED
    BY <2>2 DEF Updated, ResetsMove
<1>3. ASSUME NEW c \in Calls, GrantExpires(c) PROVE ResetsMove
  <2>1. /\ resets[c] # Nothing /\ resets[c].state = "valid"
        /\ resets' = [resets EXCEPT ![c].state = "expired"]
    BY <1>3, <1>b DEF GrantExpires, Expires, Valid
  <2>2. Updated(resets, resets')
    BY <2>1, <1>a, GrantRows DEF AccountsTypeOK
  <2> QED
    BY <2>2 DEF Updated, ResetsMove
<1>4. ASSUME NEW c \in Calls,
            \/ Begins(c) \/ LookUp(c)
            \/ CreateCustomer(c) \/ CreateEmailVerificationToken(c)
            \/ CreateUserSession(c) \/ RevokeUserSession(c)
            \/ ConsumeEmailVerificationToken(c) \/ UpdateCustomerPassword(c)
            \/ RevokeAllUserSessions(c) \/ MarkCustomerEmailVerified(c)
            \/ TouchUserSession(c) \/ GetCustomerByID(c)
            \/ CrashCall(c)
     PROVE  FALSE
  BY <1>4, <1>b DEF Begins, LookUp, CreateCustomer,
     CreateEmailVerificationToken, CreateUserSession, RevokeUserSession,
     ConsumeEmailVerificationToken, UpdateCustomerPassword,
     RevokeAllUserSessions, MarkCustomerEmailVerified, TouchUserSession,
     GetCustomerByID, CrashCall, Begin, tables, callVars, Expires
<1>5. CASE UNCHANGED accountVars
  BY <1>5, <1>b DEF accountVars, tables
<1> QED
  BY <1>1, <1>2, <1>3, <1>4, <1>5 DEF CallsNext, CallStep

(* Step: a link is consumed or expires.                                    *)
LEMMA LinksStep == CallsInv /\ [CallsNext]_accountVars => LinksMove
<1> SUFFICES ASSUME CallsInv, [CallsNext]_accountVars PROVE LinksMove
  OBVIOUS
<1>a. AccountsTypeOK /\ OnTheWay /\ CallsCarry /\ CallsHaveFound /\ GrantsAreMade
  BY DEF CallsInv
<1>b. SUFFICES ASSUME links' # links PROVE LinksMove
  BY <1>a DEF LinksMove, Kept, AccountsTypeOK
<1>1. ASSUME NEW c \in Calls, CreateEmailVerificationToken(c) PROVE LinksMove
  <2>1. step[c] = "link" /\ customer[c] \in Emails
    BY <1>1, <1>a DEF CreateEmailVerificationToken, CallsHaveFound
  <2>2. links' = [links EXCEPT ![c] = [owner |-> customer[c], state |-> "valid"]]
    BY <1>1, <1>b DEF CreateEmailVerificationToken, Statement, Insert
  <2> QED
    BY <2>1, <2>2, <1>a, NewGrant DEF LinksMove, AccountsTypeOK
<1>2. ASSUME NEW c \in Calls, ConsumeEmailVerificationToken(c) PROVE LinksMove
  <2>1. /\ target[c] \in Calls /\ links[target[c]] # Nothing
        /\ links' = [links EXCEPT ![target[c]].state = "over"]
    BY <1>2, <1>a, <1>b DEF ConsumeEmailVerificationToken, Statement, Use, Usable, Valid,
       CallsCarry
  <2>2. Updated(links, links')
    BY <2>1, <1>a, GrantRows DEF AccountsTypeOK
  <2> QED
    BY <2>2 DEF Updated, LinksMove
<1>3. ASSUME NEW c \in Calls, GrantExpires(c) PROVE LinksMove
  <2>1. /\ links[c] # Nothing /\ links[c].state = "valid"
        /\ links' = [links EXCEPT ![c].state = "expired"]
    BY <1>3, <1>b DEF GrantExpires, Expires, Valid
  <2>2. Updated(links, links')
    BY <2>1, <1>a, GrantRows DEF AccountsTypeOK
  <2> QED
    BY <2>2 DEF Updated, LinksMove
<1>4. ASSUME NEW c \in Calls,
            \/ Begins(c) \/ LookUp(c)
            \/ CreateCustomer(c) \/ CreateUserSession(c)
            \/ CreatePasswordResetToken(c) \/ RevokeUserSession(c)
            \/ ConsumePasswordResetToken(c) \/ UpdateCustomerPassword(c)
            \/ RevokeAllUserSessions(c) \/ MarkCustomerEmailVerified(c)
            \/ TouchUserSession(c) \/ GetCustomerByID(c)
            \/ CrashCall(c)
     PROVE  FALSE
  BY <1>4, <1>b DEF Begins, LookUp, CreateCustomer, CreateUserSession,
     CreatePasswordResetToken, RevokeUserSession, ConsumePasswordResetToken,
     UpdateCustomerPassword, RevokeAllUserSessions, MarkCustomerEmailVerified,
     TouchUserSession, GetCustomerByID, CrashCall, Begin, tables, callVars,
     Expires
<1>5. CASE UNCHANGED accountVars
  BY <1>5, <1>b DEF accountVars, tables
<1> QED
  BY <1>1, <1>2, <1>3, <1>4, <1>5 DEF CallsNext, CallStep

(* Step: accounts are inserted and changed, never deleted.                 *)
LEMMA CustomersStep == CallsInv /\ [CallsNext]_accountVars => CustomersMove
<1> SUFFICES ASSUME CallsInv, [CallsNext]_accountVars PROVE CustomersMove
  OBVIOUS
<1>a. AccountsTypeOK /\ OnTheWay /\ CallsCarry /\ CallsHaveFound /\ GrantsAreMade
  BY DEF CallsInv
<1>b. SUFFICES ASSUME customers' # customers PROVE CustomersMove
  BY <1>a DEF CustomersMove, Kept, AccountsTypeOK
<1>1. ASSUME NEW c \in Calls, CreateCustomer(c) PROVE CustomersMove
  <2>1. /\ step[c] = "insert" /\ customer[c] \in Emails /\ password[c] \in Passwords
        /\ customers' = [customers EXCEPT ![customer[c]] =
                            [password |-> password[c], verified |-> FALSE]]
    BY SMTT(30), <1>1, <1>a, <1>b
       DEF CreateCustomer, Statement, OnTheWay, UnderWay, StepsOf, CallsCarry,
       AccountsTypeOK, Operations
  <2>2. [password |-> password[c], verified |-> FALSE] \in Account
    BY <2>1 DEF Account
  <2>3. step'[c] # "insert"
    BY <1>1, <1>a DEF CreateCustomer, Statement, Goto, Answer, Fail, AccountsTypeOK
  <2> QED
    BY <2>1, <2>2, <2>3, <1>a DEF CustomersMove, AccountsTypeOK
<1>2. ASSUME NEW c \in Calls, UpdateCustomerPassword(c) PROVE CustomersMove
  <2>1. /\ customer[c] \in Emails /\ customers[customer[c]] # Nothing /\ password[c] \in Passwords
        /\ customers' = [customers EXCEPT ![customer[c]].password = password[c]]
    BY <1>2, <1>a, <1>b DEF UpdateCustomerPassword, Statement, OnTheWay, UnderWay,
       StepsOf, CallsCarry, CallsHaveFound, AccountsTypeOK, Operations
  <2> QED
    BY <2>1, <1>a, AccountRows DEF CustomersMove, AccountsTypeOK
<1>3. ASSUME NEW c \in Calls, MarkCustomerEmailVerified(c) PROVE CustomersMove
  <2>1. /\ customer[c] \in Emails /\ customers[customer[c]] # Nothing
        /\ customers' = [customers EXCEPT ![customer[c]].verified = TRUE]
    BY <1>3, <1>a, <1>b DEF MarkCustomerEmailVerified, Statement, CallsHaveFound
  <2>2. customers[customer[c]].password \in Passwords
    BY <2>1, <1>a DEF AccountsTypeOK, Account
  <2> QED
    BY <2>1, <2>2, <1>a, AccountRows DEF CustomersMove, AccountsTypeOK
<1>4. ASSUME NEW c \in Calls,
            \/ Begins(c) \/ LookUp(c)
            \/ CreateEmailVerificationToken(c) \/ CreateUserSession(c)
            \/ CreatePasswordResetToken(c) \/ RevokeUserSession(c)
            \/ ConsumePasswordResetToken(c) \/ ConsumeEmailVerificationToken(c)
            \/ RevokeAllUserSessions(c) \/ TouchUserSession(c)
            \/ GetCustomerByID(c) \/ GrantExpires(c)
            \/ CrashCall(c)
     PROVE  FALSE
  BY <1>4, <1>b DEF Begins, LookUp, CreateEmailVerificationToken,
     CreateUserSession, CreatePasswordResetToken, RevokeUserSession,
     ConsumePasswordResetToken, ConsumeEmailVerificationToken,
     RevokeAllUserSessions, TouchUserSession, GetCustomerByID, GrantExpires,
     CrashCall, Begin, tables, callVars, Expires
<1>5. CASE UNCHANGED accountVars
  BY <1>5, <1>b DEF accountVars, tables
<1> QED
  BY <1>1, <1>2, <1>3, <1>4, <1>5 DEF CallsNext, CallStep

(* The part of the type invariant that is not about tables.                *)
CallsTyped ==
  /\ op \in [Calls -> Operations \cup {"none"}]
  /\ step \in [Calls -> {"idle", "lookup", "insert", "link", "session", "token",
                         "revoke", "consume", "update", "revoke_all", "mark",
                         "touch", "profile", "done"}]
  /\ password \in [Calls -> Passwords \cup {Nothing}]
  /\ target \in [Calls -> Calls \cup {Nothing}]
  /\ customer \in [Calls -> Emails \cup {Nothing}]
  /\ result \in [Calls -> {"none", "ok", "error", "refused"}]
  /\ failures \in 0 .. MaxFailures
  /\ older \in [Calls -> SUBSET Calls]
  /\ raced \in BOOLEAN

(* The owner of a row is an address somebody wrote.                        *)
LEMMA OwnersAreSpelled ==
  ASSUME AccountsTypeOK
  PROVE  \A t \in Calls : /\ sessions[t] # Nothing => sessions[t].owner \in Emails
                          /\ resets[t] # Nothing => resets[t].owner \in Emails
                          /\ links[t] # Nothing => links[t].owner \in Emails
BY DEF AccountsTypeOK, Grant

(* Step: what a call keeps for itself stays in its type.                   *)
LEMMA CallsTypedStep == CallsInv /\ [CallsNext]_accountVars => CallsTyped'
<1> SUFFICES ASSUME CallsInv, [CallsNext]_accountVars PROVE CallsTyped'
  OBVIOUS
<1> USE DEF CallsTyped, Operations
<1>a. CallsTyped /\ CallsCarry /\ OnTheWay
  BY DEF CallsInv, AccountsTypeOK
<1>b. \A t \in Calls :
        /\ sessions[t] # Nothing => sessions[t].owner \in Emails
        /\ resets[t] # Nothing => resets[t].owner \in Emails
        /\ links[t] # Nothing => links[t].owner \in Emails
  BY OwnersAreSpelled DEF CallsInv
<1>1. ASSUME NEW c \in Calls, Begins(c) PROVE CallsTyped'
  BY <1>1, <1>a DEF Begins, Begin, tables, history
<1>2. ASSUME NEW c \in Calls, LookUp(c) PROVE CallsTyped'
  <2>1. \/ Goto(c, "insert")
        \/ Answer(c, "ok") \/ Answer(c, "refused")
        \/ \E e \in Emails, s \in {"session", "token", "revoke", "touch"} : Find(c, e, s)
        \/ Fail(c)
    BY <1>2, <1>a, <1>b DEF LookUp, Query, Statement, Valid, GetCustomerByEmail,
       CallsCarry, UnderWay
  <2>2. UNCHANGED history /\ (UNCHANGED failures \/ MayFail)
    BY <1>2 DEF LookUp, Query, Statement, Fail
  <2> QED
    BY <1>a, <2>1, <2>2 DEF Goto, Answer, Find, Fail, MayFail, history
<1>3. ASSUME NEW c \in Calls, CreateCustomer(c) PROVE CallsTyped'
  BY <1>3, <1>a DEF CreateCustomer, Statement, Query, Fail, MayFail, Goto,
     Answer, Find, tables, history
<1>4. ASSUME NEW c \in Calls, CreateEmailVerificationToken(c) PROVE CallsTyped'
  BY <1>4, <1>a DEF CreateEmailVerificationToken, Statement, Query, Fail,
     MayFail, Goto, Answer, Find, tables, history
<1>5. ASSUME NEW c \in Calls, CreateUserSession(c) PROVE CallsTyped'
  BY <1>5, <1>a DEF CreateUserSession, Statement, Query, Fail, MayFail, Goto,
     Answer, Find, tables, history
<1>6. ASSUME NEW c \in Calls, CreatePasswordResetToken(c) PROVE CallsTyped'
  BY <1>6, <1>a DEF CreatePasswordResetToken, Statement, Query, Fail, MayFail,
     Goto, Answer, Find, tables, history
<1>7. ASSUME NEW c \in Calls, RevokeUserSession(c) PROVE CallsTyped'
  BY <1>7, <1>a DEF RevokeUserSession, Statement, Query, Fail, MayFail, Goto,
     Answer, Find, tables, history
<1>8. ASSUME NEW c \in Calls, ConsumePasswordResetToken(c) PROVE CallsTyped'
  <2>1. \/ Answer(c, "refused")
        \/ \E e \in Emails : Find(c, e, "update")
        \/ Fail(c)
    BY <1>8, <1>a, <1>b DEF ConsumePasswordResetToken, Query, Statement,
       Valid, Usable, CallsCarry
  <2>2. UNCHANGED history /\ (UNCHANGED failures \/ MayFail)
    BY <1>8 DEF ConsumePasswordResetToken, Query, Statement, Fail
  <2> QED
    BY <1>a, <2>1, <2>2 DEF Answer, Find, Fail, MayFail, history
<1>9. ASSUME NEW c \in Calls, ConsumeEmailVerificationToken(c) PROVE CallsTyped'
  <2>1. \/ Answer(c, "refused")
        \/ \E e \in Emails : Find(c, e, "mark")
        \/ Fail(c)
    BY <1>9, <1>a, <1>b DEF ConsumeEmailVerificationToken, Query, Statement,
       Valid, Usable, CallsCarry
  <2>2. UNCHANGED history /\ (UNCHANGED failures \/ MayFail)
    BY <1>9 DEF ConsumeEmailVerificationToken, Query, Statement, Fail
  <2> QED
    BY <1>a, <2>1, <2>2 DEF Answer, Find, Fail, MayFail, history
<1>10. ASSUME NEW c \in Calls, UpdateCustomerPassword(c) PROVE CallsTyped'
  BY <1>10, <1>a DEF UpdateCustomerPassword, Statement, Query, Fail, MayFail,
     Goto, Answer, Find, tables, history, Open
<1>11. ASSUME NEW c \in Calls, RevokeAllUserSessions(c) PROVE CallsTyped'
  BY <1>11, <1>a DEF RevokeAllUserSessions, Statement, Query, Fail, MayFail,
     Goto, Answer, Find, tables, history
<1>12. ASSUME NEW c \in Calls, MarkCustomerEmailVerified(c) PROVE CallsTyped'
  BY <1>12, <1>a DEF MarkCustomerEmailVerified, Statement, Query, Fail,
     MayFail, Goto, Answer, Find, tables, history
<1>13. ASSUME NEW c \in Calls, TouchUserSession(c) PROVE CallsTyped'
  BY <1>13, <1>a DEF TouchUserSession, MayFail, Goto, tables, history
<1>14. ASSUME NEW c \in Calls, GetCustomerByID(c) PROVE CallsTyped'
  BY <1>14, <1>a DEF GetCustomerByID, Statement, Query, Fail, MayFail, Goto,
     Answer, Find, tables, history
<1>15. ASSUME NEW c \in Calls, GrantExpires(c) PROVE CallsTyped'
  BY <1>15, <1>a DEF GrantExpires, callVars, tables, history
<1>16. ASSUME NEW c \in Calls, CrashCall(c) PROVE CallsTyped'
  BY <1>16, <1>a DEF CrashCall, MayFail, tables, history
<1>17. CASE UNCHANGED accountVars
  BY <1>17, <1>a DEF accountVars, tables, callVars, history
<1> QED
  BY <1>1, <1>2, <1>3, <1>4, <1>5, <1>6, <1>7, <1>8, <1>9,
     <1>10, <1>11, <1>12, <1>13, <1>14, <1>15, <1>16, <1>17 DEF CallsNext, CallStep

(* Step: all tables and calls stay in their types.                         *)
LEMMA AccountsTypeStep == CallsInv /\ [CallsNext]_accountVars => AccountsTypeOK'
BY SessionsStep, ResetsStep, LinksStep, CustomersStep, CallsTypedStep
   DEF AccountsTypeOK, SessionsMove, ResetsMove, LinksMove, CustomersMove, CallsTyped

(* Step: a call goes the way of its operation.                             *)
LEMMA OnTheWayStep == CallsInv /\ [CallsNext]_accountVars => OnTheWay'
<1> SUFFICES ASSUME CallsInv, [CallsNext]_accountVars PROVE OnTheWay'
  OBVIOUS
<1> USE DEF CallsInv, CallsTyped, OnTheWay, UnderWay, StepsOf, Operations
<1>a. CallsTyped /\ CallsTyped'
  BY CallsTypedStep DEF CallsInv, AccountsTypeOK, CallsTyped
<1>1. ASSUME NEW c \in Calls, Begins(c) PROVE OnTheWay'
  BY <1>1, <1>a DEF Begins, Begin, tables, history
<1>2. ASSUME NEW c \in Calls, LookUp(c) PROVE OnTheWay'
  BY <1>2, <1>a DEF LookUp, Statement, Query, Fail, MayFail, Goto, Answer,
     Find, GetCustomerByEmail, Valid, tables, history
<1>3. ASSUME NEW c \in Calls, CreateCustomer(c) PROVE OnTheWay'
  BY SMTT(30), <1>3, <1>a DEF CreateCustomer, Statement, Query, Fail, MayFail, Goto,
     Answer, Find, tables, history
<1>4. ASSUME NEW c \in Calls, CreateEmailVerificationToken(c) PROVE OnTheWay'
  BY <1>4, <1>a DEF CreateEmailVerificationToken, Statement, Query, Fail,
     MayFail, Goto, Answer, Find, tables, history
<1>5. ASSUME NEW c \in Calls, CreateUserSession(c) PROVE OnTheWay'
  BY <1>5, <1>a DEF CreateUserSession, Statement, Query, Fail, MayFail, Goto,
     Answer, Find, tables, history
<1>6. ASSUME NEW c \in Calls, CreatePasswordResetToken(c) PROVE OnTheWay'
  BY <1>6, <1>a DEF CreatePasswordResetToken, Statement, Query, Fail, MayFail,
     Goto, Answer, Find, tables, history
<1>7. ASSUME NEW c \in Calls, RevokeUserSession(c) PROVE OnTheWay'
  BY <1>7, <1>a DEF RevokeUserSession, Statement, Query, Fail, MayFail, Goto,
     Answer, Find, tables, history
<1>8. ASSUME NEW c \in Calls, ConsumePasswordResetToken(c) PROVE OnTheWay'
  BY <1>8, <1>a DEF ConsumePasswordResetToken, Statement, Query, Fail,
     MayFail, Goto, Answer, Find, Usable, Valid, tables, history
<1>9. ASSUME NEW c \in Calls, ConsumeEmailVerificationToken(c) PROVE OnTheWay'
  BY <1>9, <1>a DEF ConsumeEmailVerificationToken, Statement, Query, Fail,
     MayFail, Goto, Answer, Find, Usable, Valid, tables, history
<1>10. ASSUME NEW c \in Calls, UpdateCustomerPassword(c) PROVE OnTheWay'
  BY <1>10, <1>a DEF UpdateCustomerPassword, Statement, Query, Fail, MayFail,
     Goto, Answer, Find, tables, history
<1>11. ASSUME NEW c \in Calls, RevokeAllUserSessions(c) PROVE OnTheWay'
  BY <1>11, <1>a DEF RevokeAllUserSessions, Statement, Query, Fail, MayFail,
     Goto, Answer, Find, tables, history
<1>12. ASSUME NEW c \in Calls, MarkCustomerEmailVerified(c) PROVE OnTheWay'
  BY <1>12, <1>a DEF MarkCustomerEmailVerified, Statement, Query, Fail,
     MayFail, Goto, Answer, Find, tables, history
<1>13. ASSUME NEW c \in Calls, TouchUserSession(c) PROVE OnTheWay'
  BY <1>13, <1>a DEF TouchUserSession, MayFail, Goto, tables, history
<1>14. ASSUME NEW c \in Calls, GetCustomerByID(c) PROVE OnTheWay'
  BY <1>14, <1>a DEF GetCustomerByID, Statement, Query, Fail, MayFail, Goto,
     Answer, Find, tables, history
<1>15. ASSUME NEW c \in Calls, GrantExpires(c) PROVE OnTheWay'
  BY <1>15, <1>a DEF GrantExpires, callVars, tables, history
<1>16. ASSUME NEW c \in Calls, CrashCall(c) PROVE OnTheWay'
  BY <1>16, <1>a DEF CrashCall, MayFail, tables, history
<1>17. CASE UNCHANGED accountVars
  BY <1>17, <1>a DEF accountVars, tables, callVars, history
<1> QED
  BY <1>1, <1>2, <1>3, <1>4, <1>5, <1>6, <1>7, <1>8, <1>9,
     <1>10, <1>11, <1>12, <1>13, <1>14, <1>15, <1>16, <1>17 DEF CallsNext, CallStep

(* Step: a call keeps what it came with.                                   *)
LEMMA CallsCarryStep == CallsInv /\ [CallsNext]_accountVars => CallsCarry'
<1> SUFFICES ASSUME CallsInv, [CallsNext]_accountVars PROVE CallsCarry'
  OBVIOUS
<1> USE DEF CallsInv, CallsTyped, CallsCarry, OnTheWay, UnderWay, StepsOf,
    Operations
<1>a. CallsTyped /\ CallsTyped'
  BY CallsTypedStep DEF CallsInv, AccountsTypeOK, CallsTyped
<1>1. ASSUME NEW c \in Calls, Begins(c) PROVE CallsCarry'
  BY <1>1, <1>a DEF Begins, Begin, tables, history
<1>2. ASSUME NEW c \in Calls, LookUp(c) PROVE CallsCarry'
  BY <1>2, <1>a DEF LookUp, Statement, Query, Fail, MayFail, Goto, Answer,
     Find, GetCustomerByEmail, Valid, tables, history
<1>3. ASSUME NEW c \in Calls, CreateCustomer(c) PROVE CallsCarry'
  BY <1>3, <1>a DEF CreateCustomer, Statement, Query, Fail, MayFail, Goto,
     Answer, Find, tables, history
<1>4. ASSUME NEW c \in Calls, CreateEmailVerificationToken(c) PROVE CallsCarry'
  BY <1>4, <1>a DEF CreateEmailVerificationToken, Statement, Query, Fail,
     MayFail, Goto, Answer, Find, tables, history
<1>5. ASSUME NEW c \in Calls, CreateUserSession(c) PROVE CallsCarry'
  BY <1>5, <1>a DEF CreateUserSession, Statement, Query, Fail, MayFail, Goto,
     Answer, Find, tables, history
<1>6. ASSUME NEW c \in Calls, CreatePasswordResetToken(c) PROVE CallsCarry'
  BY <1>6, <1>a DEF CreatePasswordResetToken, Statement, Query, Fail, MayFail,
     Goto, Answer, Find, tables, history
<1>7. ASSUME NEW c \in Calls, RevokeUserSession(c) PROVE CallsCarry'
  BY <1>7, <1>a DEF RevokeUserSession, Statement, Query, Fail, MayFail, Goto,
     Answer, Find, tables, history
<1>8. ASSUME NEW c \in Calls, ConsumePasswordResetToken(c) PROVE CallsCarry'
  BY <1>8, <1>a DEF ConsumePasswordResetToken, Statement, Query, Fail,
     MayFail, Goto, Answer, Find, Usable, Valid, tables, history
<1>9. ASSUME NEW c \in Calls, ConsumeEmailVerificationToken(c) PROVE CallsCarry'
  BY <1>9, <1>a DEF ConsumeEmailVerificationToken, Statement, Query, Fail,
     MayFail, Goto, Answer, Find, Usable, Valid, tables, history
<1>10. ASSUME NEW c \in Calls, UpdateCustomerPassword(c) PROVE CallsCarry'
  BY <1>10, <1>a DEF UpdateCustomerPassword, Statement, Query, Fail, MayFail,
     Goto, Answer, Find, tables, history
<1>11. ASSUME NEW c \in Calls, RevokeAllUserSessions(c) PROVE CallsCarry'
  BY <1>11, <1>a DEF RevokeAllUserSessions, Statement, Query, Fail, MayFail,
     Goto, Answer, Find, tables, history
<1>12. ASSUME NEW c \in Calls, MarkCustomerEmailVerified(c) PROVE CallsCarry'
  BY <1>12, <1>a DEF MarkCustomerEmailVerified, Statement, Query, Fail,
     MayFail, Goto, Answer, Find, tables, history
<1>13. ASSUME NEW c \in Calls, TouchUserSession(c) PROVE CallsCarry'
  BY <1>13, <1>a DEF TouchUserSession, MayFail, Goto, tables, history
<1>14. ASSUME NEW c \in Calls, GetCustomerByID(c) PROVE CallsCarry'
  BY <1>14, <1>a DEF GetCustomerByID, Statement, Query, Fail, MayFail, Goto,
     Answer, Find, tables, history
<1>15. ASSUME NEW c \in Calls, GrantExpires(c) PROVE CallsCarry'
  BY <1>15, <1>a DEF GrantExpires, callVars, tables, history
<1>16. ASSUME NEW c \in Calls, CrashCall(c) PROVE CallsCarry'
  BY <1>16, <1>a DEF CrashCall, MayFail, tables, history
<1>17. CASE UNCHANGED accountVars
  BY <1>17, <1>a DEF accountVars, tables, callVars, history
<1> QED
  BY <1>1, <1>2, <1>3, <1>4, <1>5, <1>6, <1>7, <1>8, <1>9,
     <1>10, <1>11, <1>12, <1>13, <1>14, <1>15, <1>16, <1>17 DEF CallsNext, CallStep

(* Step: accounts and sessions that were found do not go away.             *)
LEMMA CallsHaveFoundStep == CallsInv /\ [CallsNext]_accountVars => CallsHaveFound'
<1> SUFFICES ASSUME CallsInv, [CallsNext]_accountVars PROVE CallsHaveFound'
  OBVIOUS
<1> USE DEF CallsInv, CallsTyped, CallsHaveFound, CallsCarry, OnTheWay,
    GrantsAreMade, UnderWay, StepsOf, Operations
<1>a. /\ CallsTyped /\ CallsTyped'
      /\ SessionsMove /\ ResetsMove /\ LinksMove /\ CustomersMove
  BY CallsTypedStep, SessionsStep, ResetsStep, LinksStep, CustomersStep
     DEF CallsInv, AccountsTypeOK, CallsTyped
<1>b. \A t \in Calls :
        /\ sessions[t] # Nothing => sessions[t].owner \in Emails
        /\ resets[t] # Nothing => resets[t].owner \in Emails
        /\ links[t] # Nothing => links[t].owner \in Emails
  BY OwnersAreSpelled DEF CallsInv
<1>1. ASSUME NEW c \in Calls, Begins(c) PROVE CallsHaveFound'
  BY <1>1, <1>a DEF Begins, Begin, tables, history, SessionsMove,
     CustomersMove, Kept
<1>2. ASSUME NEW c \in Calls, LookUp(c) PROVE CallsHaveFound'
  BY <1>2, <1>a, <1>b DEF LookUp, Statement, Query, Fail, MayFail, Goto, Answer,
     Find, GetCustomerByEmail, Valid, tables, history, SessionsMove,
     CustomersMove, Kept
<1>3. ASSUME NEW c \in Calls, CreateCustomer(c) PROVE CallsHaveFound'
  <2>1. step[c] = "insert" /\ customer[c] \in Emails /\ password[c] \in Passwords
    BY <1>3, <1>a DEF CreateCustomer
  <2>2. [password |-> password[c], verified |-> FALSE] \in Account
    BY <2>1 DEF Account
  <2>3. step'[c] = "link" => customers'[customer[c]] # Nothing
    <3>1. step'[c] = "link" =>
            customers' = [customers EXCEPT ![customer[c]] =
                            [password |-> password[c], verified |-> FALSE]]
      BY <1>3, <1>a DEF CreateCustomer, Statement, Goto, Answer, Fail
    <3>2. customers \in [Emails -> Account \cup {Nothing}]
      BY DEF AccountsTypeOK
    <3> QED
      BY <2>1, <2>2, <3>1, <3>2
  <2>4. /\ UNCHANGED <<op, password, target, customer, sessions>>
        /\ step'[c] \in {"link", "done"}
        /\ \A d \in Calls \ {c} : step'[d] = step[d]
    BY <1>3, <1>a DEF CreateCustomer, Statement, Goto, Answer, Fail
  <2> QED
    BY <1>a, <2>1, <2>3, <2>4 DEF CustomersMove
<1>4. ASSUME NEW c \in Calls, CreateEmailVerificationToken(c) PROVE CallsHaveFound'
  BY <1>4, <1>a DEF CreateEmailVerificationToken, Statement, Query, Fail,
     MayFail, Goto, Answer, Find, tables, history, SessionsMove,
     CustomersMove, Kept
<1>5. ASSUME NEW c \in Calls, CreateUserSession(c) PROVE CallsHaveFound'
  BY <1>5, <1>a DEF CreateUserSession, Statement, Query, Fail, MayFail, Goto,
     Answer, Find, tables, history, SessionsMove, CustomersMove, Kept
<1>6. ASSUME NEW c \in Calls, CreatePasswordResetToken(c) PROVE CallsHaveFound'
  BY <1>6, <1>a DEF CreatePasswordResetToken, Statement, Query, Fail, MayFail,
     Goto, Answer, Find, tables, history, SessionsMove, CustomersMove, Kept
<1>7. ASSUME NEW c \in Calls, RevokeUserSession(c) PROVE CallsHaveFound'
  <2>1. /\ UNCHANGED <<op, target, customer>> /\ step'[c] = "done"
        /\ \A d \in Calls \ {c} : step'[d] = step[d]
    BY <1>7, <1>a DEF RevokeUserSession, Statement, Answer, Fail
  <2> QED
    BY <1>a, <2>1 DEF SessionsMove, CustomersMove, Kept
<1>8. ASSUME NEW c \in Calls, ConsumePasswordResetToken(c) PROVE CallsHaveFound'
  BY <1>8, <1>a, <1>b DEF ConsumePasswordResetToken, Statement, Query, Fail,
     MayFail, Goto, Answer, Find, Usable, Valid, tables, history,
     SessionsMove, CustomersMove, Kept
<1>9. ASSUME NEW c \in Calls, ConsumeEmailVerificationToken(c) PROVE CallsHaveFound'
  BY <1>9, <1>a, <1>b DEF ConsumeEmailVerificationToken, Statement, Query, Fail,
     MayFail, Goto, Answer, Find, Usable, Valid, tables, history,
     SessionsMove, CustomersMove, Kept
<1>10. ASSUME NEW c \in Calls, UpdateCustomerPassword(c) PROVE CallsHaveFound'
  BY <1>10, <1>a DEF UpdateCustomerPassword, Statement, Query, Fail, MayFail,
     Goto, Answer, Find, tables, history, SessionsMove, CustomersMove, Kept
<1>11. ASSUME NEW c \in Calls, RevokeAllUserSessions(c) PROVE CallsHaveFound'
  BY <1>11, <1>a DEF RevokeAllUserSessions, Statement, Query, Fail, MayFail,
     Goto, Answer, Find, tables, history, SessionsMove, CustomersMove, Kept
<1>12. ASSUME NEW c \in Calls, MarkCustomerEmailVerified(c) PROVE CallsHaveFound'
  BY <1>12, <1>a DEF MarkCustomerEmailVerified, Statement, Query, Fail,
     MayFail, Goto, Answer, Find, tables, history, SessionsMove,
     CustomersMove, Kept
<1>13. ASSUME NEW c \in Calls, TouchUserSession(c) PROVE CallsHaveFound'
  BY <1>13, <1>a DEF TouchUserSession, MayFail, Goto, tables, history,
     SessionsMove, CustomersMove, Kept
<1>14. ASSUME NEW c \in Calls, GetCustomerByID(c) PROVE CallsHaveFound'
  BY <1>14, <1>a DEF GetCustomerByID, Statement, Query, Fail, MayFail, Goto,
     Answer, Find, tables, history, SessionsMove, CustomersMove, Kept
<1>15. ASSUME NEW c \in Calls, GrantExpires(c) PROVE CallsHaveFound'
  BY <1>15, <1>a DEF GrantExpires, callVars, tables, history, SessionsMove,
     CustomersMove, Kept
<1>16. ASSUME NEW c \in Calls, CrashCall(c) PROVE CallsHaveFound'
  BY <1>16, <1>a DEF CrashCall, MayFail, tables, history, SessionsMove,
     CustomersMove, Kept
<1>17. CASE UNCHANGED accountVars
  BY <1>17, <1>a DEF accountVars, tables, callVars, history, SessionsMove,
     CustomersMove, Kept
<1> QED
  BY <1>1, <1>2, <1>3, <1>4, <1>5, <1>6, <1>7, <1>8, <1>9,
     <1>10, <1>11, <1>12, <1>13, <1>14, <1>15, <1>16, <1>17 DEF CallsNext, CallStep

(* Step: a grant is inserted by the last statement of its call.            *)
LEMMA GrantsAreMadeStep == CallsInv /\ [CallsNext]_accountVars => GrantsAreMade'
<1> SUFFICES ASSUME CallsInv, [CallsNext]_accountVars PROVE GrantsAreMade'
  OBVIOUS
<1> USE DEF CallsInv, CallsTyped, CallsHaveFound, OnTheWay, GrantsAreMade
<1>a. /\ CallsTyped /\ CallsTyped'
      /\ SessionsMove /\ ResetsMove /\ LinksMove /\ CustomersMove
  BY CallsTypedStep, SessionsStep, ResetsStep, LinksStep, CustomersStep
     DEF CallsInv, AccountsTypeOK, CallsTyped
<1>b. \A t \in Calls :
        /\ resets[t] # Nothing => resets[t].owner \in Emails
        /\ links[t] # Nothing => links[t].owner \in Emails
  BY OwnersAreSpelled DEF CallsInv
<1>1. ASSUME NEW c \in Calls, Begins(c) PROVE GrantsAreMade'
  BY <1>1, <1>a, <1>b DEF Begins, Begin, tables, history, SessionsMove, ResetsMove,
     LinksMove, CustomersMove, Kept, UnderWay, StepsOf
<1>2. ASSUME NEW c \in Calls, LookUp(c) PROVE GrantsAreMade'
  BY <1>2, <1>a, <1>b DEF LookUp, Statement, Query, Fail, MayFail, Goto, Answer,
     Find, GetCustomerByEmail, Valid, tables, history, SessionsMove,
     ResetsMove, LinksMove, CustomersMove, Kept, UnderWay, StepsOf
<1>3. ASSUME NEW c \in Calls, CreateCustomer(c) PROVE GrantsAreMade'
  BY <1>3, <1>a, <1>b DEF CreateCustomer, Statement, Query, Fail, MayFail, Goto,
     Answer, Find, tables, history, SessionsMove, ResetsMove, LinksMove,
     CustomersMove, Kept, UnderWay, StepsOf
<1>4. ASSUME NEW c \in Calls, CreateEmailVerificationToken(c) PROVE GrantsAreMade'
  BY <1>4, <1>a, <1>b DEF CreateEmailVerificationToken, Statement, Query, Fail,
     MayFail, Goto, Answer, Find, tables, history, SessionsMove, ResetsMove,
     LinksMove, CustomersMove, Kept, UnderWay, StepsOf
<1>5. ASSUME NEW c \in Calls, CreateUserSession(c) PROVE GrantsAreMade'
  BY <1>5, <1>a, <1>b DEF CreateUserSession, Statement, Query, Fail, MayFail, Goto,
     Answer, Find, tables, history, SessionsMove, ResetsMove, LinksMove,
     CustomersMove, Kept, UnderWay, StepsOf
<1>6. ASSUME NEW c \in Calls, CreatePasswordResetToken(c) PROVE GrantsAreMade'
  BY <1>6, <1>a, <1>b DEF CreatePasswordResetToken, Statement, Query, Fail, MayFail,
     Goto, Answer, Find, tables, history, SessionsMove, ResetsMove, LinksMove,
     CustomersMove, Kept, UnderWay, StepsOf
<1>7. ASSUME NEW c \in Calls, RevokeUserSession(c) PROVE GrantsAreMade'
  BY <1>7, <1>a, <1>b DEF RevokeUserSession, Statement, Query, Fail, MayFail, Goto,
     Answer, Find, tables, history, SessionsMove, ResetsMove, LinksMove,
     CustomersMove, Kept, UnderWay, StepsOf
<1>8. ASSUME NEW c \in Calls, ConsumePasswordResetToken(c) PROVE GrantsAreMade'
  BY <1>8, <1>a, <1>b DEF ConsumePasswordResetToken, Statement, Query, Fail,
     MayFail, Goto, Answer, Find, Usable, Valid, tables, history,
     SessionsMove, ResetsMove, LinksMove, CustomersMove, Kept, UnderWay,
     StepsOf
<1>9. ASSUME NEW c \in Calls, ConsumeEmailVerificationToken(c) PROVE GrantsAreMade'
  BY <1>9, <1>a, <1>b DEF ConsumeEmailVerificationToken, Statement, Query, Fail,
     MayFail, Goto, Answer, Find, Usable, Valid, tables, history,
     SessionsMove, ResetsMove, LinksMove, CustomersMove, Kept, UnderWay,
     StepsOf
<1>10. ASSUME NEW c \in Calls, UpdateCustomerPassword(c) PROVE GrantsAreMade'
  BY <1>10, <1>a, <1>b DEF UpdateCustomerPassword, Statement, Query, Fail, MayFail,
     Goto, Answer, Find, tables, history, SessionsMove, ResetsMove, LinksMove,
     CustomersMove, Kept, UnderWay, StepsOf
<1>11. ASSUME NEW c \in Calls, RevokeAllUserSessions(c) PROVE GrantsAreMade'
  BY <1>11, <1>a, <1>b DEF RevokeAllUserSessions, Statement, Query, Fail, MayFail,
     Goto, Answer, Find, tables, history, SessionsMove, ResetsMove, LinksMove,
     CustomersMove, Kept, UnderWay, StepsOf
<1>12. ASSUME NEW c \in Calls, MarkCustomerEmailVerified(c) PROVE GrantsAreMade'
  BY <1>12, <1>a, <1>b DEF MarkCustomerEmailVerified, Statement, Query, Fail,
     MayFail, Goto, Answer, Find, tables, history, SessionsMove, ResetsMove,
     LinksMove, CustomersMove, Kept, UnderWay, StepsOf
<1>13. ASSUME NEW c \in Calls, TouchUserSession(c) PROVE GrantsAreMade'
  BY <1>13, <1>a, <1>b DEF TouchUserSession, MayFail, Goto, tables, history,
     SessionsMove, ResetsMove, LinksMove, CustomersMove, Kept, UnderWay,
     StepsOf
<1>14. ASSUME NEW c \in Calls, GetCustomerByID(c) PROVE GrantsAreMade'
  BY <1>14, <1>a, <1>b DEF GetCustomerByID, Statement, Query, Fail, MayFail, Goto,
     Answer, Find, tables, history, SessionsMove, ResetsMove, LinksMove,
     CustomersMove, Kept, UnderWay, StepsOf
<1>15. ASSUME NEW c \in Calls, GrantExpires(c) PROVE GrantsAreMade'
  BY <1>15, <1>a, <1>b DEF GrantExpires, callVars, tables, history, SessionsMove,
     ResetsMove, LinksMove, CustomersMove, Kept, UnderWay, StepsOf
<1>16. ASSUME NEW c \in Calls, CrashCall(c) PROVE GrantsAreMade'
  BY <1>16, <1>a, <1>b DEF CrashCall, MayFail, tables, history, SessionsMove,
     ResetsMove, LinksMove, CustomersMove, Kept, UnderWay, StepsOf
<1>17. CASE UNCHANGED accountVars
  BY <1>17, <1>a, <1>b DEF accountVars, tables, callVars, history, SessionsMove,
     ResetsMove, LinksMove, CustomersMove, Kept, UnderWay, StepsOf
<1> QED
  BY <1>1, <1>2, <1>3, <1>4, <1>5, <1>6, <1>7, <1>8, <1>9,
     <1>10, <1>11, <1>12, <1>13, <1>14, <1>15, <1>16, <1>17 DEF CallsNext, CallStep

(* Step: the part of the invariant every client relies on.                 *)
LEMMA CallsStep == CallsInv /\ [CallsNext]_accountVars => CallsInv'
BY AccountsTypeStep, OnTheWayStep, CallsCarryStep, CallsHaveFoundStep, GrantsAreMadeStep
   DEF CallsInv

-----------------------------------------------------------------------------
(* Resets get past their consumption only there, and keep their token.     *)
ResetCallsStay ==
  \A d \in Calls : op'[d] = "reset" /\ customer'[d] # Nothing =>
    op[d] = "reset" /\ customer[d] # Nothing /\ target'[d] = target[d]

(* What is over stays over, whoever holds it.                              *)
LEMMA SpentLast ==
  CallsInv /\ TokensAreSpent /\ ResetsMove /\ ResetCallsStay => TokensAreSpent'
<1> SUFFICES ASSUME CallsInv, TokensAreSpent, ResetsMove, ResetCallsStay,
                    NEW c \in Calls, op'[c] = "reset", customer'[c] # Nothing
             PROVE  /\ Spent(resets'[target'[c]])
                    /\ \A d \in Calls : /\ op'[d] = "reset" /\ customer'[d] # Nothing
                                        /\ target'[d] = target'[c]
                         => c = d
  BY DEF TokensAreSpent
<1>1. op[c] = "reset" /\ customer[c] # Nothing /\ target'[c] = target[c]
  BY DEF ResetCallsStay
<1>2. target[c] \in Calls /\ Spent(resets[target[c]])
  BY <1>1 DEF CallsInv, CallsCarry, TokensAreSpent
<1>3. Spent(resets'[target'[c]])
  BY <1>1, <1>2 DEF Spent, ResetsMove, Kept
<1> QED
  BY <1>1, <1>3 DEF ResetCallsStay, TokensAreSpent

(* Step: a token that is over is not consumed again.                       *)
LEMMA TokensAreSpentStep ==
  CallsInv /\ TokensAreSpent /\ [CallsNext]_accountVars => TokensAreSpent'
<1> SUFFICES ASSUME CallsInv, TokensAreSpent, [CallsNext]_accountVars PROVE TokensAreSpent'
  OBVIOUS
<1> USE DEF ResetCallsStay
<1>a. /\ CallsTyped /\ CallsTyped' /\ ResetsMove /\ OnTheWay
      /\ ResetCallsStay => TokensAreSpent'
  BY CallsTypedStep, ResetsStep, SpentLast DEF CallsInv, AccountsTypeOK, CallsTyped
<1>1. ASSUME NEW c \in Calls, Begins(c) PROVE ResetCallsStay
  BY <1>1, <1>a DEF Begins, Begin, CallsTyped, Operations
<1>2. ASSUME NEW c \in Calls, LookUp(c) PROVE ResetCallsStay
  BY <1>2, <1>a DEF LookUp, Statement, Query, Fail, Goto, Answer, Find, CallsTyped
<1>3. ASSUME NEW c \in Calls, CreateCustomer(c) PROVE ResetCallsStay
  BY <1>3 DEF CreateCustomer, Statement, Fail, Goto, Answer
<1>4. ASSUME NEW c \in Calls, CreateEmailVerificationToken(c) PROVE ResetCallsStay
  <2>1. op[c] # "reset"
    BY <1>4, <1>a DEF CreateEmailVerificationToken, OnTheWay, UnderWay, StepsOf
  <2> QED
    BY <1>4, <1>a, <2>1 DEF CreateEmailVerificationToken, Statement, Fail, Answer, CallsTyped
<1>5. ASSUME NEW c \in Calls, CreateUserSession(c) PROVE ResetCallsStay
  BY <1>5 DEF CreateUserSession, Statement, Fail, Answer
<1>6. ASSUME NEW c \in Calls, CreatePasswordResetToken(c) PROVE ResetCallsStay
  BY <1>6 DEF CreatePasswordResetToken, Statement, Fail, Answer
<1>7. ASSUME NEW c \in Calls, RevokeUserSession(c) PROVE ResetCallsStay
  BY <1>7 DEF RevokeUserSession, Statement, Fail, Answer
<1>8. ASSUME NEW c \in Calls, ConsumePasswordResetToken(c) PROVE TokensAreSpent'
  <2>1. /\ UNCHANGED <<op, target>>
        /\ \A d \in Calls \ {c} : customer'[d] = customer[d]
    BY <1>8, <1>a DEF ConsumePasswordResetToken, Statement, Query, Answer, Find, Fail,
       CallsTyped
  <2>2. CASE customer'[c] = customer[c]
    BY <1>a, <2>1, <2>2
  <2>3. CASE customer'[c] # customer[c]
    <3>1. /\ op[c] = "reset" /\ target[c] \in Calls /\ Valid(resets[target[c]])
          /\ resets' = [resets EXCEPT ![target[c]].state = "over"]
      BY <1>8, <1>a, <2>3
         DEF CallsInv, CallsCarry, ConsumePasswordResetToken, Statement, Query, Answer, Fail,
             Use, Usable
    <3>2. resets[target[c]] \in Grant /\ resets \in [Calls -> Grant \cup {Nothing}]
      BY <3>1 DEF CallsInv, AccountsTypeOK, Valid
    <3>3. Spent(resets'[target[c]])
      BY <1>a, <3>1, <3>2 DEF Grant, ResetsMove, Kept, Spent
    <3>4. \A d \in Calls : op[d] = "reset" /\ customer[d] # Nothing => target[d] # target[c]
      BY <3>1 DEF Valid, TokensAreSpent, Spent
    <3>5. \A d \in Calls \ {c} : op[d] = "reset" /\ customer[d] # Nothing =>
            Spent(resets'[target[d]])
      BY <1>a DEF TokensAreSpent, Spent, ResetsMove, Kept, CallsInv, CallsCarry
    <3> QED
      BY <2>1, <3>1, <3>3, <3>4, <3>5 DEF TokensAreSpent
  <2> QED
    BY <2>2, <2>3
<1>9. ASSUME NEW c \in Calls, ConsumeEmailVerificationToken(c) PROVE ResetCallsStay
  BY <1>9, <1>a DEF ConsumeEmailVerificationToken, Statement, Query, Fail, Answer, Find,
     CallsTyped
<1>10. ASSUME NEW c \in Calls, UpdateCustomerPassword(c) PROVE ResetCallsStay
  BY <1>10 DEF UpdateCustomerPassword, Statement, Fail, Goto, Answer
<1>11. ASSUME NEW c \in Calls, RevokeAllUserSessions(c) PROVE ResetCallsStay
  BY <1>11 DEF RevokeAllUserSessions, Statement, Fail, Answer
<1>12. ASSUME NEW c \in Calls, MarkCustomerEmailVerified(c) PROVE ResetCallsStay
  BY <1>12 DEF MarkCustomerEmailVerified, Statement, Fail, Answer
<1>13. ASSUME NEW c \in Calls, TouchUserSession(c) PROVE ResetCallsStay
  BY <1>13 DEF TouchUserSession, Goto
<1>14. ASSUME NEW c \in Calls, GetCustomerByID(c) PROVE ResetCallsStay
  BY <1>14 DEF GetCustomerByID, Statement, Query, Fail, Answer
<1>15. ASSUME NEW c \in Calls, GrantExpires(c) PROVE ResetCallsStay
  BY <1>15 DEF GrantExpires, callVars
<1>16. ASSUME NEW c \in Calls, CrashCall(c) PROVE ResetCallsStay
  BY <1>16 DEF CrashCall
<1>17. CASE UNCHANGED accountVars
  BY <1>17, <1>a DEF accountVars, callVars
<1> QED
  BY <1>a, <1>1, <1>2, <1>3, <1>4, <1>5, <1>6, <1>7, <1>8, <1>9,
     <1>10, <1>11, <1>12, <1>13, <1>14, <1>15, <1>16, <1>17 DEF CallsNext, CallStep

(* Resets arrive at their last statement, and succeed, only there.         *)
OlderStay ==
  \A d \in Calls :
    /\ step'[d] = "revoke_all" =>
         /\ step[d] = "revoke_all"
         /\ older'[d] = older[d] /\ customer'[d] = customer[d]
    /\ op'[d] = "reset" /\ result'[d] = "ok" =>
         op[d] = "reset" /\ result[d] = "ok" /\ older'[d] = older[d]

(* Rows keep their owners, and what is over stays over.                    *)
LEMMA OlderLast == CallsInv /\ ResetsEnd /\ SessionsMove /\ OlderStay => ResetsEnd'
<1> SUFFICES ASSUME CallsInv, ResetsEnd, SessionsMove, OlderStay, NEW c \in Calls
             PROVE  /\ step'[c] = "revoke_all" =>
                         \A s \in older'[c] : /\ sessions'[s] # Nothing
                                              /\ sessions'[s].owner = customer'[c]
                    /\ op'[c] = "reset" /\ result'[c] = "ok" =>
                         \A s \in older'[c] : Spent(sessions'[s])
  BY DEF ResetsEnd
<1>1. older[c] \subseteq Calls /\ Kept(sessions, sessions')
  BY DEF CallsInv, AccountsTypeOK, SessionsMove
<1> QED
  BY <1>1 DEF OlderStay, ResetsEnd, Kept, Spent

(* Step: a session that is over stays so; what is open can be revoked.     *)
LEMMA ResetsEndStep == CallsInv /\ ResetsEnd /\ [CallsNext]_accountVars => ResetsEnd'
<1> SUFFICES ASSUME CallsInv, ResetsEnd, [CallsNext]_accountVars PROVE ResetsEnd'
  OBVIOUS
<1>a. /\ CallsTyped /\ CallsTyped' /\ SessionsMove /\ OnTheWay
      /\ older \in [Calls -> SUBSET Calls]
      /\ OlderStay => ResetsEnd'
  BY CallsTypedStep, SessionsStep, OlderLast DEF CallsInv, AccountsTypeOK, CallsTyped
<1>b. \A c \in Calls :
        /\ step[c] # "done" => result[c] = "none"
        /\ step[c] \in {"update", "revoke_all"} => op[c] = "reset"
        /\ step[c] \in {"insert", "link", "session", "token", "revoke", "mark", "profile"} =>
             op[c] # "reset"
  BY SMTT(30), <1>a DEF OnTheWay, UnderWay, StepsOf, CallsTyped, Operations
<1>1. ASSUME NEW c \in Calls, Begins(c) PROVE OlderStay
  BY <1>1, <1>a, <1>b DEF Begins, Begin, OlderStay, CallsTyped, history
<1>2. ASSUME NEW c \in Calls, LookUp(c) PROVE OlderStay
  BY <1>2, <1>a, <1>b DEF LookUp, Statement, Query, Fail, Goto, Answer, Find, OlderStay,
     CallsTyped, history
<1>3. ASSUME NEW c \in Calls, CreateCustomer(c) PROVE OlderStay
  BY <1>3, <1>a, <1>b DEF CreateCustomer, Statement, Fail, Goto, Answer, OlderStay,
     CallsTyped, history
<1>4. ASSUME NEW c \in Calls, CreateEmailVerificationToken(c) PROVE OlderStay
  BY <1>4, <1>a, <1>b DEF CreateEmailVerificationToken, Statement, Fail, Answer, OlderStay,
     CallsTyped, history
<1>5. ASSUME NEW c \in Calls, CreateUserSession(c) PROVE OlderStay
  BY <1>5, <1>a, <1>b DEF CreateUserSession, Statement, Fail, Answer, OlderStay, CallsTyped,
     history
<1>6. ASSUME NEW c \in Calls, CreatePasswordResetToken(c) PROVE OlderStay
  BY <1>6, <1>a, <1>b DEF CreatePasswordResetToken, Statement, Fail, Answer, OlderStay,
     CallsTyped, history
<1>7. ASSUME NEW c \in Calls, RevokeUserSession(c) PROVE OlderStay
  BY <1>7, <1>a, <1>b DEF RevokeUserSession, Statement, Fail, Answer, OlderStay, CallsTyped,
     history
<1>8. ASSUME NEW c \in Calls, ConsumePasswordResetToken(c) PROVE OlderStay
  BY <1>8, <1>a, <1>b DEF ConsumePasswordResetToken, Statement, Query, Fail, Answer, Find,
     OlderStay, CallsTyped, history
<1>9. ASSUME NEW c \in Calls, ConsumeEmailVerificationToken(c) PROVE OlderStay
  BY <1>9, <1>a, <1>b DEF ConsumeEmailVerificationToken, Statement, Query, Fail, Answer, Find,
     OlderStay, CallsTyped, history
<1>10. ASSUME NEW c \in Calls, UpdateCustomerPassword(c) PROVE ResetsEnd'
  <2>1. /\ UNCHANGED <<op, customer, sessions>> /\ op[c] = "reset"
        /\ older' = [older EXCEPT ![c] = Open(customer[c])]
        /\ result'[c] # "ok"
        /\ \A d \in Calls \ {c} : step'[d] = step[d] /\ result'[d] = result[d]
    BY <1>10, <1>a, <1>b DEF UpdateCustomerPassword, Statement, Fail, Goto, Answer, CallsTyped
  <2>2. \A s \in Open(customer[c]) : sessions[s] # Nothing /\ sessions[s].owner = customer[c]
    BY DEF Open
  <2>3. /\ older'[c] = Open(customer[c])
        /\ \A d \in Calls \ {c} : older'[d] = older[d]
    BY <1>a, <2>1
  <2> QED
    BY <2>1, <2>2, <2>3 DEF ResetsEnd
<1>11. ASSUME NEW c \in Calls, RevokeAllUserSessions(c) PROVE ResetsEnd'
  <2>1. /\ UNCHANGED <<op, customer, older>>
        /\ step[c] = "revoke_all" /\ step'[c] = "done" /\ op[c] = "reset"
        /\ \A d \in Calls \ {c} : step'[d] = step[d] /\ result'[d] = result[d]
    BY <1>11, <1>a, <1>b DEF RevokeAllUserSessions, Statement, Answer, Fail, history,
       CallsTyped
  <2>2. ASSUME result'[c] = "ok", NEW s \in older[c]
        PROVE  Spent(sessions'[s])
    <3>1. sessions' = AllRevoked(c)
      BY <1>11, <1>a, <2>1, <2>2 DEF RevokeAllUserSessions, Statement, Answer, Fail, CallsTyped
    <3>2. /\ s \in Calls /\ sessions[s] # Nothing /\ sessions[s].owner = customer[c]
          /\ sessions[s] \in Grant
      BY <1>a, <2>1, <2>2 DEF CallsInv, AccountsTypeOK, ResetsEnd
    <3>3. CASE s \in Open(customer[c])
      BY <1>a, <3>1, <3>2, <3>3 DEF AllRevoked, Grant, SessionsMove, Kept, Spent
    <3>4. CASE s \notin Open(customer[c])
      BY <1>a, <3>2, <3>4 DEF Open, SessionsMove, Kept, Spent
    <3> QED
      BY <3>3, <3>4
  <2>3. \A d \in Calls \ {c} : step'[d] = "revoke_all" =>
          \A s \in older[d] : sessions'[s] # Nothing /\ sessions'[s].owner = customer[d]
    BY <1>a, <2>1 DEF SessionsMove, Kept, ResetsEnd
  <2>4. \A d \in Calls \ {c} : op[d] = "reset" /\ result[d] = "ok" =>
          \A s \in older[d] : Spent(sessions'[s])
    BY <1>a, <1>b DEF SessionsMove, Kept, ResetsEnd, Spent
  <2> QED
    BY <2>1, <2>2, <2>3, <2>4 DEF ResetsEnd
<1>12. ASSUME NEW c \in Calls, MarkCustomerEmailVerified(c) PROVE OlderStay
  BY <1>12, <1>a, <1>b DEF MarkCustomerEmailVerified, Statement, Fail, Answer, OlderStay,
     CallsTyped, history
<1>13. ASSUME NEW c \in Calls, TouchUserSession(c) PROVE OlderStay
  BY <1>13, <1>a, <1>b DEF TouchUserSession, Goto, OlderStay, CallsTyped, history
<1>14. ASSUME NEW c \in Calls, GetCustomerByID(c) PROVE OlderStay
  BY <1>14, <1>a, <1>b DEF GetCustomerByID, Statement, Query, Fail, Answer, OlderStay,
     CallsTyped, history
<1>15. ASSUME NEW c \in Calls, GrantExpires(c) PROVE OlderStay
  BY <1>15, <1>a, <1>b DEF GrantExpires, callVars, OlderStay, CallsTyped, history
<1>16. ASSUME NEW c \in Calls, CrashCall(c) PROVE OlderStay
  BY <1>16, <1>a, <1>b DEF CrashCall, OlderStay, CallsTyped, history
<1>17. CASE UNCHANGED accountVars
  BY <1>17, <1>a DEF accountVars, callVars, history, OlderStay
<1> QED
  BY <1>a, <1>1, <1>2, <1>3, <1>4, <1>5, <1>6, <1>7, <1>8, <1>9,
     <1>10, <1>11, <1>12, <1>13, <1>14, <1>15, <1>16, <1>17 DEF CallsNext, CallStep

(* A logout has found its session when it is about to revoke it, and stays *)
(* there until it does.                                                    *)
LogoutsStay ==
  failures' = 0 =>
    /\ failures = 0
    /\ \A d \in Calls : op'[d] = "logout" /\ customer'[d] # Nothing =>
         \/ step'[d] = "revoke"
         \/ /\ op[d] = "logout" /\ customer[d] # Nothing /\ step[d] # "revoke"
            /\ target'[d] = target[d]

(* A session that is over stays over.                                      *)
LEMMA LogoutsLast == CallsInv /\ LogoutsEnd /\ SessionsMove /\ LogoutsStay => LogoutsEnd'
<1> SUFFICES ASSUME CallsInv, LogoutsEnd, SessionsMove, LogoutsStay, failures' = 0,
                    NEW c \in Calls, op'[c] = "logout", customer'[c] # Nothing,
                    step'[c] # "revoke"
             PROVE  Spent(sessions'[target'[c]])
  BY DEF LogoutsEnd
<1>1. /\ failures = 0 /\ op[c] = "logout" /\ customer[c] # Nothing
      /\ step[c] # "revoke" /\ target'[c] = target[c]
  BY DEF LogoutsStay
<1>2. target[c] \in Calls /\ Spent(sessions[target[c]])
  BY <1>1 DEF CallsInv, CallsCarry, LogoutsEnd
<1> QED
  BY <1>1, <1>2 DEF Spent, SessionsMove, Kept

(* Step: without failures a revocation takes effect, and nothing undoes it. *)
LEMMA LogoutsEndStep == CallsInv /\ LogoutsEnd /\ [CallsNext]_accountVars => LogoutsEnd'
<1> SUFFICES ASSUME CallsInv, LogoutsEnd, [CallsNext]_accountVars PROVE LogoutsEnd'
  OBVIOUS
<1>a. /\ CallsTyped /\ CallsTyped' /\ SessionsMove /\ OnTheWay
      /\ failures \in 0 .. MaxFailures
      /\ LogoutsStay => LogoutsEnd'
  BY CallsTypedStep, SessionsStep, LogoutsLast DEF CallsInv, AccountsTypeOK, CallsTyped
<1>b. \A c \in Calls :
        /\ step[c] \notin {"lookup", "revoke", "done", "idle"} => op[c] # "logout"
        /\ step[c] = "revoke" => op[c] = "logout"
  BY SMTT(30), <1>a DEF OnTheWay, UnderWay, StepsOf, CallsTyped, Operations
<1>1. ASSUME NEW c \in Calls, Begins(c) PROVE LogoutsStay
  BY <1>1, <1>a, <1>b DEF Begins, Begin, MayFail, LogoutsStay, CallsTyped
<1>2. ASSUME NEW c \in Calls, LookUp(c) PROVE LogoutsStay
  BY <1>2, <1>a, <1>b DEF LookUp, Statement, Query, Fail, Goto, Answer, Find, MayFail,
     LogoutsStay, CallsTyped
<1>3. ASSUME NEW c \in Calls, CreateCustomer(c) PROVE LogoutsStay
  BY <1>3, <1>a, <1>b DEF CreateCustomer, Statement, Fail, Goto, Answer, MayFail, LogoutsStay,
     CallsTyped
<1>4. ASSUME NEW c \in Calls, CreateEmailVerificationToken(c) PROVE LogoutsStay
  BY <1>4, <1>a, <1>b DEF CreateEmailVerificationToken, Statement, Fail, Answer, MayFail,
     LogoutsStay, CallsTyped
<1>5. ASSUME NEW c \in Calls, CreateUserSession(c) PROVE LogoutsStay
  BY <1>5, <1>a, <1>b DEF CreateUserSession, Statement, Fail, Answer, MayFail, LogoutsStay,
     CallsTyped
<1>6. ASSUME NEW c \in Calls, CreatePasswordResetToken(c) PROVE LogoutsStay
  BY <1>6, <1>a, <1>b DEF CreatePasswordResetToken, Statement, Fail, Answer, MayFail,
     LogoutsStay, CallsTyped
<1>7. ASSUME NEW c \in Calls, RevokeUserSession(c) PROVE LogoutsEnd'
  <2>0. step[c] = "revoke" /\ op[c] = "logout"
    BY <1>7, <1>b DEF RevokeUserSession
  <2>1. /\ UNCHANGED <<op, customer, target>>
        /\ target[c] \in Calls /\ sessions[target[c]] # Nothing
        /\ \A d \in Calls \ {c} : step'[d] = step[d]
    <3>1. target[c] \in Calls /\ sessions[target[c]] # Nothing
      BY <2>0 DEF CallsInv, CallsHaveFound, CallsCarry, UnderWay
    <3> QED
      BY <1>7, <1>a, <3>1 DEF RevokeUserSession, Statement, Answer, Fail, CallsTyped
  <2>2. failures' = 0 =>
          failures = 0 /\ sessions' = [sessions EXCEPT ![target[c]].state = "over"]
    BY <1>7, <1>a, <1>b DEF RevokeUserSession, Statement, Fail, MayFail, Revoked, CallsTyped
  <2>3. sessions \in [Calls -> Grant \cup {Nothing}] /\ sessions[target[c]] \in Grant
    BY <2>1 DEF CallsInv, AccountsTypeOK
  <2>4. failures' = 0 => Spent(sessions'[target[c]])
    BY <1>a, <2>1, <2>2, <2>3 DEF Grant, SessionsMove, Kept, Spent
  <2>5. failures' = 0 =>
          \A d \in Calls \ {c} : op[d] = "logout" /\ customer[d] # Nothing =>
            step'[d] = "revoke" \/ Spent(sessions'[target[d]])
    BY <1>a, <2>1, <2>2 DEF LogoutsEnd, SessionsMove, Kept, Spent, CallsInv, CallsCarry
  <2> QED
    BY <2>1, <2>4, <2>5 DEF LogoutsEnd
<1>8. ASSUME NEW c \in Calls, ConsumePasswordResetToken(c) PROVE LogoutsStay
  BY <1>8, <1>a, <1>b DEF ConsumePasswordResetToken, Statement, Query, Fail, Answer, Find,
     MayFail, LogoutsStay, CallsTyped
<1>9. ASSUME NEW c \in Calls, ConsumeEmailVerificationToken(c) PROVE LogoutsStay
  BY <1>9, <1>a, <1>b DEF ConsumeEmailVerificationToken, Statement, Query, Fail, Answer, Find,
     MayFail, LogoutsStay, CallsTyped
<1>10. ASSUME NEW c \in Calls, UpdateCustomerPassword(c) PROVE LogoutsStay
  BY <1>10, <1>a, <1>b DEF UpdateCustomerPassword, Statement, Fail, Goto, Answer, MayFail,
     LogoutsStay, CallsTyped
<1>11. ASSUME NEW c \in Calls, RevokeAllUserSessions(c) PROVE LogoutsStay
  BY <1>11, <1>a, <1>b DEF RevokeAllUserSessions, Statement, Fail, Answer, MayFail,
     LogoutsStay, CallsTyped
<1>12. ASSUME NEW c \in Calls, MarkCustomerEmailVerified(c) PROVE LogoutsStay
  BY <1>12, <1>a, <1>b DEF MarkCustomerEmailVerified, Statement, Fail, Answer, MayFail,
     LogoutsStay, CallsTyped
<1>13. ASSUME NEW c \in Calls, TouchUserSession(c) PROVE LogoutsStay
  BY <1>13, <1>a, <1>b DEF TouchUserSession, Goto, MayFail, LogoutsStay, CallsTyped
<1>14. ASSUME NEW c \in Calls, GetCustomerByID(c) PROVE LogoutsStay
  BY <1>14, <1>a, <1>b DEF GetCustomerByID, Statement, Query, Fail, Answer, MayFail,
     LogoutsStay, CallsTyped
<1>15. ASSUME NEW c \in Calls, GrantExpires(c) PROVE LogoutsStay
  BY <1>15, <1>a, <1>b DEF GrantExpires, callVars, MayFail, LogoutsStay, CallsTyped
<1>16. ASSUME NEW c \in Calls, CrashCall(c) PROVE LogoutsStay
  BY <1>16, <1>a, <1>b DEF CrashCall, MayFail, LogoutsStay, CallsTyped
<1>17. CASE UNCHANGED accountVars
  BY <1>17, <1>a DEF accountVars, callVars, LogoutsStay, OnTheWay
<1> QED
  BY <1>a, <1>1, <1>2, <1>3, <1>4, <1>5, <1>6, <1>7, <1>8, <1>9,
     <1>10, <1>11, <1>12, <1>13, <1>14, <1>15, <1>16, <1>17 DEF CallsNext, CallStep

(* Step: nobody but the registration inserts an account.                   *)
Quiet ==
  /\ raced' = raced
  /\ \A c \in Calls : Registers(c)' => Registers(c)
  /\ \A c \in Calls : step'[c] = "insert" => step[c] = "insert" /\ customer'[c] = customer[c]
  /\ \A e \in Emails : customers'[e] # Nothing => customers[e] # Nothing

(* Steps that insert no row leave racing registrations as they are.        *)
LEMMA QuietSteps == RegistrationsAreAlone /\ Quiet => RegistrationsAreAlone'
BY DEF RegistrationsAreAlone, Quiet, GetCustomerByEmail

(* Step: who finds an address free is alone with it, unless two raced.     *)
LEMMA RegistrationsAreAloneStep ==
  CallsInv /\ RegistrationsAreAlone /\ [CallsNext]_accountVars => RegistrationsAreAlone'
<1> SUFFICES ASSUME CallsInv, RegistrationsAreAlone, [CallsNext]_accountVars PROVE RegistrationsAreAlone'
  OBVIOUS
<1> USE DEF CallsTyped, OnTheWay, UnderWay, StepsOf, Operations, Registers
<1>a. CallsTyped /\ CallsTyped' /\ CustomersMove
  BY CallsTypedStep, CustomersStep DEF CallsInv, AccountsTypeOK, CallsTyped
<1>b. AccountsTypeOK /\ OnTheWay /\ CallsCarry /\ RegistrationsAreAlone
  BY DEF CallsInv
<1>1. ASSUME NEW c \in Calls, Begins(c) PROVE RegistrationsAreAlone'
  <2>1. /\ UNCHANGED <<customers>> /\ (raced => raced')
        /\ op'[c] = "register" /\ ~raced' => \A d \in Calls : ~Registers(d)
        /\ \A d \in Calls \ {c} : step'[d] = step[d] /\ op'[d] = op[d] /\ customer'[d] = customer[d]
        /\ step'[c] \in {"lookup", "consume"}
    BY <1>1, <1>a DEF Begins, Begin, tables
  <2> QED
    BY SMTT(30), <1>a, <1>b, <2>1 DEF RegistrationsAreAlone, GetCustomerByEmail
<1>2. ASSUME NEW c \in Calls, LookUp(c) PROVE RegistrationsAreAlone'
  <2>1. /\ UNCHANGED <<customers, raced, op>> /\ step[c] = "lookup"
        /\ \A d \in Calls \ {c} : step'[d] = step[d] /\ customer'[d] = customer[d]
    BY <1>2, <1>a DEF LookUp, Query, Statement, Goto, Answer, Find, Fail, tables, history
  <2>2. step'[c] = "insert" => customer'[c] = customer[c] /\ GetCustomerByEmail(customer[c]) = {}
    BY <1>2, <1>a DEF LookUp, Query, Statement, Goto, Answer, Find, Fail
  <2> QED
    BY SMTT(30), <1>a, <1>b, <2>1, <2>2 DEF RegistrationsAreAlone, GetCustomerByEmail
<1>3. ASSUME NEW c \in Calls, CreateCustomer(c) PROVE RegistrationsAreAlone'
  <2>1. /\ UNCHANGED <<op, customer, raced>>
        /\ op[c] = "register" /\ step[c] = "insert" /\ step'[c] \in {"link", "done"}
        /\ \A d \in Calls \ {c} : step'[d] = step[d]
    BY <1>3, <1>a, <1>b DEF CreateCustomer, Statement, Goto, Answer, Fail, history
  <2>2. \A d \in Emails \ {customer[c]} : customers'[d] = customers[d]
    BY <1>3, <1>a, <1>b DEF CreateCustomer, Statement, AccountsTypeOK
  <2>3. SUFFICES ASSUME ~raced PROVE RegistrationsAreAlone'
    BY <2>1 DEF RegistrationsAreAlone
  <2>4. \A d \in Calls : step'[d] # "insert"
    BY SMTT(30), <1>a, <1>b, <2>1, <2>3 DEF RegistrationsAreAlone
  <2>5. \A d \in Emails : Address[d] = Address[customer[c]] => customers[d] = Nothing
    BY <1>b, <2>1, <2>3 DEF RegistrationsAreAlone, GetCustomerByEmail
  <2>6. \A d \in Calls : Registers(d)' => Registers(d)
    BY <1>a, <2>1
  <2>7. \A d \in Emails : d # customer[c] /\ customers'[d] # Nothing =>
          customers[d] # Nothing /\ Address[d] # Address[customer[c]]
    BY <2>2, <2>5
  <2>8. /\ \A b, d \in Calls : Registers(b) /\ Registers(d) => b = d
        /\ \A d, e \in Emails :
             Address[d] = Address[e] /\ customers[d] # Nothing /\ customers[e] # Nothing => d = e
    BY <1>b, <2>3 DEF RegistrationsAreAlone
  <2>9. \A d, e \in Emails :
          Address[d] = Address[e] /\ customers'[d] # Nothing /\ customers'[e] # Nothing => d = e
    BY <2>7, <2>8
  <2> QED
    BY <2>4, <2>6, <2>8, <2>9 DEF RegistrationsAreAlone
<1>4. ASSUME NEW c \in Calls, CreateEmailVerificationToken(c) PROVE Quiet
  BY <1>4, <1>a, <1>b DEF CreateEmailVerificationToken, Statement, Query,
     Fail, MayFail, Goto, Answer, Find, tables, history, Quiet, CustomersMove
<1>5. ASSUME NEW c \in Calls, CreateUserSession(c) PROVE Quiet
  BY <1>5, <1>a, <1>b DEF CreateUserSession, Statement, Query, Fail, MayFail,
     Goto, Answer, Find, tables, history, Quiet, CustomersMove
<1>6. ASSUME NEW c \in Calls, CreatePasswordResetToken(c) PROVE Quiet
  BY <1>6, <1>a, <1>b DEF CreatePasswordResetToken, Statement, Query, Fail,
     MayFail, Goto, Answer, Find, tables, history, Quiet, CustomersMove
<1>7. ASSUME NEW c \in Calls, RevokeUserSession(c) PROVE Quiet
  BY <1>7, <1>a, <1>b DEF RevokeUserSession, Statement, Query, Fail, MayFail,
     Goto, Answer, Find, tables, history, Quiet, CustomersMove
<1>8. ASSUME NEW c \in Calls, ConsumePasswordResetToken(c) PROVE Quiet
  BY <1>8, <1>a, <1>b DEF ConsumePasswordResetToken, Statement, Query, Fail,
     MayFail, Goto, Answer, Find, Usable, Valid, tables, history, Quiet,
     CustomersMove
<1>9. ASSUME NEW c \in Calls, ConsumeEmailVerificationToken(c) PROVE Quiet
  BY <1>9, <1>a, <1>b DEF ConsumeEmailVerificationToken, Statement, Query,
     Fail, MayFail, Goto, Answer, Find, Usable, Valid, tables, history, Quiet,
     CustomersMove
<1>10. ASSUME NEW c \in Calls, UpdateCustomerPassword(c) PROVE Quiet
  BY <1>10, <1>a, <1>b DEF UpdateCustomerPassword, Statement, Query, Fail,
     MayFail, Goto, Answer, Find, tables, history, Quiet, CustomersMove
<1>11. ASSUME NEW c \in Calls, RevokeAllUserSessions(c) PROVE Quiet
  BY <1>11, <1>a, <1>b DEF RevokeAllUserSessions, Statement, Query, Fail,
     MayFail, Goto, Answer, Find, tables, history, Quiet, CustomersMove
<1>12. ASSUME NEW c \in Calls, MarkCustomerEmailVerified(c) PROVE Quiet
  BY <1>12, <1>a, <1>b DEF MarkCustomerEmailVerified, Statement, Query, Fail,
     MayFail, Goto, Answer, Find, tables, history, Quiet, CustomersMove
<1>13. ASSUME NEW c \in Calls, TouchUserSession(c) PROVE Quiet
  BY <1>13, <1>a, <1>b DEF TouchUserSession, MayFail, Goto, tables, history,
     Quiet, CustomersMove
<1>14. ASSUME NEW c \in Calls, GetCustomerByID(c) PROVE Quiet
  BY <1>14, <1>a, <1>b DEF GetCustomerByID, Statement, Query, Fail, MayFail,
     Goto, Answer, Find, tables, history, Quiet, CustomersMove
<1>15. ASSUME NEW c \in Calls, GrantExpires(c) PROVE Quiet
  BY <1>15, <1>a, <1>b DEF GrantExpires, callVars, tables, history, Quiet,
     CustomersMove
<1>16. ASSUME NEW c \in Calls, CrashCall(c) PROVE Quiet
  BY <1>16, <1>a, <1>b DEF CrashCall, MayFail, tables, history, Quiet,
     CustomersMove
<1>17. CASE UNCHANGED accountVars
  BY <1>17, <1>b, QuietSteps DEF accountVars, tables, callVars, history, Quiet
<1> QED
  BY <1>b, QuietSteps, <1>1, <1>2, <1>3, <1>4, <1>5, <1>6, <1>7, <1>8, <1>9,
     <1>10, <1>11, <1>12, <1>13, <1>14, <1>15, <1>16, <1>17 DEF CallsNext, CallStep

(* All parts together.                                                     *)
LEMMA AccountsStep == AccountsInv /\ [AccountsNext]_accountVars => AccountsInv'
BY AccountsSteps, CallsStep, TokensAreSpentStep, ResetsEndStep, LogoutsEndStep,
   RegistrationsAreAloneStep DEF AccountsInv

(* Empty tables satisfy the invariant.                                     *)
LEMMA AccountsStart == AccountsInit => AccountsInv
<1> SUFFICES ASSUME AccountsInit PROVE AccountsInv
  OBVIOUS
<1> USE DEF AccountsInit, AccountsInitWith
<1>1. AccountsTypeOK
  <2>0. failures \in 0 .. MaxFailures
    OBVIOUS
  <2>1. CallsTyped
    BY <2>0, Zenon DEF CallsTyped, Operations
  <2>2. /\ customers \in [Emails -> Account \cup {Nothing}]
        /\ sessions \in [Calls -> Grant \cup {Nothing}]
        /\ resets \in [Calls -> Grant \cup {Nothing}]
        /\ links \in [Calls -> Grant \cup {Nothing}]
    OBVIOUS
  <2> QED
    BY <2>1, <2>2 DEF CallsTyped, AccountsTypeOK
<1>2. OnTheWay /\ CallsCarry /\ CallsHaveFound /\ GrantsAreMade
  BY DEF OnTheWay, CallsCarry, CallsHaveFound, GrantsAreMade, UnderWay
<1>3. TokensAreSpent /\ ResetsEnd /\ LogoutsEnd /\ RegistrationsAreAlone
  BY DEF TokensAreSpent, ResetsEnd, LogoutsEnd, RegistrationsAreAlone, Registers, UnderWay
<1> QED
  BY <1>1, <1>2, <1>3 DEF AccountsInv, CallsInv

-----------------------------------------------------------------------------
(* Theorems.                                                               *)

(* The invariant behind the theorems below is inductive.                   *)
THEOREM AccountsInvariance == AccountsSpec => []AccountsInv
BY AccountsStart, AccountsStep, PTL DEF AccountsSpec

(* Every variable stays in its type, whatever calls run side by side.      *)
THEOREM AccountsTypeCorrect == AccountsSpec => []AccountsTypeOK
BY AccountsInvariance, PTL DEF AccountsInv, CallsInv

(* What has no two members is empty or has one.                            *)
LEMMA AtMostOne ==
  ASSUME NEW S, \A x, y \in S : x = y
  PROVE  Cardinality(S) <= 1
<1>1. CASE S = {}
  BY <1>1, FS_EmptySet
<1>2. CASE S # {}
  <2>1. PICK x : S = {x}
    BY <1>2
  <2>2. Cardinality({x}) = 1
    BY FS_Singleton
  <2> QED
    BY <2>1, <2>2
<1> QED
  BY <1>1, <1>2

(* Registrations that never meet make one account of an address, in        *)
(* whatever spellings they come, fail and crash.                           *)
THEOREM OneAccount == AccountsSpec => []OneAccountPerAddress
<1>1. AccountsInv => OneAccountPerAddress
  BY AtMostOne DEF AccountsInv, RegistrationsAreAlone, OneAccountPerAddress
<1> QED
  BY <1>1, AccountsInvariance, PTL

(* Of all calls that carry one reset token, one changes the password.      *)
THEOREM OneChangePerToken == AccountsSpec => []TokenChangesOnce
<1>1. AccountsInv => TokenChangesOnce
  <2> SUFFICES ASSUME AccountsInv, NEW t \in Calls
               PROVE  Cardinality({c \in Calls : /\ op[c] = "reset"
                                                 /\ target[c] = t
                                                 /\ customer[c] # Nothing}) <= 1
    BY DEF TokenChangesOnce
  <2> QED
    BY AtMostOne DEF AccountsInv, TokensAreSpent
<1> QED
  BY <1>1, AccountsInvariance, PTL

(* A reset that succeeded has ended the sessions it found, for good.       *)
THEOREM ResetsEndForGood == AccountsSpec => []ResetEndsSessions
<1>1. AccountsInv => ResetEndsSessions
  BY DEF AccountsInv, ResetsEnd, ResetEndsSessions, Spent, Valid
<1> QED
  BY <1>1, AccountsInvariance, PTL

(* Without failures, a logout that found its session has ended it, for     *)
(* good.                                                                   *)
THEOREM LogoutsEndForGood == AccountsSpec => []SignedOutIsOver
<1>1. AccountsInv => SignedOutIsOver
  BY DEF AccountsInv, CallsInv, OnTheWay, LogoutsEnd, SignedOutIsOver, Spent, Valid
<1> QED
  BY <1>1, AccountsInvariance, PTL
=============================================================================
