------------------------------ MODULE Accounts ------------------------------
(***************************************************************************)
(* AuthService and RequireUserSession: registration, login, use of a       *)
(* session, logout, and the recovery of an account.  Calls run             *)
(* concurrently, one database call per action.  A session, a reset token   *)
(* and a verification token are named after the call that made them.       *)
(***************************************************************************)
EXTENDS Naturals, FiniteSets

CONSTANTS Calls,       \* requests to the service
          Emails,      \* spellings of addresses
          Address,     \* of a spelling: the address, which ignores case
          Passwords,
          Nothing,     \* no account, no call
          MaxFailures  \* bound on failed database calls and crashes

ASSUME FailuresAssumption == MaxFailures \in Nat

VARIABLES customers,   \* the row of each spelling, or Nothing
          sessions,    \* user_sessions
          resets,      \* password_reset_tokens
          links,       \* email_verification_tokens
          op,          \* what a call does
          step,        \* where it is
          password,    \* the password it brings
          target,      \* the session or token it brings; its own link once that is logged
          customer,    \* the account it has found
          result,      \* what it answers
          failures,
          older,       \* history: the sessions a reset found when it wrote
          raced        \* history: two registrations were under way at once

callVars == <<op, step, password, target, customer, result>>
tables   == <<customers, sessions, resets, links>>
history  == <<older, raced>>
accountVars == <<tables, callVars, failures, history>>

Operations == {"register", "login", "logout", "forgot", "reset", "verify", "me"}

Account == [password : Passwords, verified : BOOLEAN]

(* A row of a table of sessions or tokens: whose it is, and whether it has *)
(* expired or is over (used or revoked).                                   *)
Grant == [owner : Emails, state : {"valid", "expired", "over"}]

(* Nothing is no row, no address and no call.                              *)
ASSUME NothingAssumption == Nothing \notin Account \cup Grant \cup Emails \cup Calls

AccountsTypeOK ==
  /\ customers \in [Emails -> Account \cup {Nothing}]
  /\ sessions \in [Calls -> Grant \cup {Nothing}]
  /\ resets \in [Calls -> Grant \cup {Nothing}]
  /\ links \in [Calls -> Grant \cup {Nothing}]
  /\ op \in [Calls -> Operations \cup {"none"}]
  /\ step \in [Calls -> {"idle", "lookup", "insert", "link", "session", "token",
                         "revoke", "consume", "update", "revoke_all", "mark",
                         "touch", "profile", "done"}]
  /\ password \in [Calls -> Passwords \cup {Nothing}]
  /\ target \in [Calls -> Calls \cup {Nothing}]
  /\ customer \in [Calls -> Emails \cup {Nothing}]
  /\ result \in [Calls -> {"none", "ok", "error", "refused"}]
  /\ failures \in 0 .. MaxFailures
  /\ older \in [Calls -> SUBSET Calls]
  /\ raced \in BOOLEAN

(* Some accounts exist; nobody has a session or a link.                    *)
AccountsInitWith(rows) ==
  /\ customers = rows
  /\ sessions = [c \in Calls |-> Nothing]
  /\ resets = [c \in Calls |-> Nothing]
  /\ links = [c \in Calls |-> Nothing]
  /\ op = [c \in Calls |-> "none"]
  /\ step = [c \in Calls |-> "idle"]
  /\ password = [c \in Calls |-> Nothing]
  /\ target = [c \in Calls |-> Nothing]
  /\ customer = [c \in Calls |-> Nothing]
  /\ result = [c \in Calls |-> "none"]
  /\ failures = 0
  /\ older = [c \in Calls |-> {}]
  /\ raced = FALSE

AccountsInit == AccountsInitWith([e \in Emails |-> Nothing])

-----------------------------------------------------------------------------

MayFail == failures < MaxFailures /\ failures' = failures + 1

Goto(c, s) == /\ step' = [step EXCEPT ![c] = s]
              /\ UNCHANGED <<op, password, target, customer, result>>

Answer(c, r) == /\ step' = [step EXCEPT ![c] = "done"]
                /\ result' = [result EXCEPT ![c] = r]
                /\ UNCHANGED <<op, password, target, customer>>

Find(c, e, s) == /\ customer' = [customer EXCEPT ![c] = e]
                 /\ step' = [step EXCEPT ![c] = s]
                 /\ UNCHANGED <<op, password, target, result>>

(* An error of a database call ends the operation; Logout's handler does   *)
(* not look at it.                                                         *)
Fail(c) == /\ MayFail
           /\ Answer(c, IF op[c] = "logout" THEN "ok" ELSE "error")

(* A statement of a call takes effect, takes effect and loses its reply,   *)
(* or fails, which leaves its table as it was.                             *)
Statement(c, effect, onward, table) ==
  \/ effect /\ onward /\ UNCHANGED failures
  \/ effect /\ Fail(c)
  \/ UNCHANGED table /\ Fail(c)

Query(c, onward) == Statement(c, TRUE, onward, <<>>)

Insert(table, c) == table' = [table EXCEPT ![c] = [owner |-> customer[c], state |-> "valid"]]

Valid(row) == row # Nothing /\ row.state = "valid"

-----------------------------------------------------------------------------
(* Who has an account: the lookup ignores case, the index does not.        *)

(* Faulty: the lookup is as literal as the index.                          *)
LiteralMatch(e) == IF customers[e] = Nothing THEN {} ELSE {e}

GetCustomerByEmail(e) ==
  {d \in Emails : Address[d] = Address[e] /\ customers[d] # Nothing}

LookUp(c) ==
  LET rows == GetCustomerByEmail(customer[c]) IN
  /\ step[c] = "lookup"
  /\ Query(c,
       \/ /\ op[c] = "register"
          /\ IF rows = {} THEN Goto(c, "insert") ELSE Answer(c, "refused")
       \/ /\ op[c] = "login"
          /\ \/ rows = {} /\ Answer(c, "refused")
             \/ \E e \in rows : IF customers[e].password = password[c]
                                THEN Find(c, e, "session") ELSE Answer(c, "refused")
       \/ /\ op[c] = "forgot"
          /\ \/ rows = {} /\ Answer(c, "ok")
             \/ \E e \in rows : Find(c, e, "token")
       \/ /\ op[c] = "logout"
          /\ \/ Valid(sessions[target[c]]) /\ Find(c, sessions[target[c]].owner, "revoke")
             \/ ~Valid(sessions[target[c]]) /\ Answer(c, "ok")
       \/ /\ op[c] = "me"
          /\ \/ Valid(sessions[target[c]]) /\ Find(c, sessions[target[c]].owner, "touch")
             \/ ~Valid(sessions[target[c]]) /\ Answer(c, "refused"))
  /\ UNCHANGED <<tables, history>>

CreateCustomer(c) ==
  LET e == customer[c] IN
  /\ step[c] = "insert"
  /\ \/ /\ customers[e] = Nothing
        /\ Statement(c, customers' = [customers EXCEPT ![e] =
                          [password |-> password[c], verified |-> FALSE]],
                     Goto(c, "link"), customers)
     \/ /\ customers[e] # Nothing
        /\ Answer(c, "error") /\ UNCHANGED <<customers, failures>>
  /\ UNCHANGED <<sessions, resets, links, history>>

CreateEmailVerificationToken(c) ==
  /\ step[c] = "link"
  /\ Statement(c, Insert(links, c),
               /\ step' = [step EXCEPT ![c] = "session"]
               /\ target' = [target EXCEPT ![c] = c]
               /\ UNCHANGED <<op, password, customer, result>>,
               links)
  /\ UNCHANGED <<customers, sessions, resets, history>>

CreateUserSession(c) ==
  /\ step[c] = "session"
  /\ Statement(c, Insert(sessions, c), Answer(c, "ok"), sessions)
  /\ UNCHANGED <<customers, resets, links, history>>

CreatePasswordResetToken(c) ==
  /\ step[c] = "token"
  /\ Statement(c, Insert(resets, c), Answer(c, "ok"), resets)
  /\ UNCHANGED <<customers, sessions, links, history>>

-----------------------------------------------------------------------------
(* Ending sessions and using tokens.                                       *)

(* Faulty: the cookie is cleared, the session is not.                      *)
CookieOnly(c) == sessions

Revoked(c) == [sessions EXCEPT ![target[c]].state = "over"]

RevokeUserSession(c) ==
  /\ step[c] = "revoke"
  /\ Statement(c, sessions' = Revoked(c), Answer(c, "ok"), sessions)
  /\ UNCHANGED <<customers, resets, links, history>>

(* Faulty: a token that was used before is accepted again.                 *)
EverIssued(row) == row # Nothing

(* UPDATE ... WHERE used_at IS NULL AND expires_at > now().                *)
Usable(row) == Valid(row)

Use(table, t) == table' = [table EXCEPT ![t].state = "over"]

ConsumePasswordResetToken(c) ==
  LET t == target[c] IN
  /\ step[c] = "consume" /\ op[c] = "reset"
  /\ \/ /\ Usable(resets[t])
        /\ Statement(c, Use(resets, t), Find(c, resets[t].owner, "update"), resets)
     \/ /\ ~Usable(resets[t])
        /\ Query(c, Answer(c, "refused")) /\ UNCHANGED resets
  /\ UNCHANGED <<customers, sessions, links, history>>

ConsumeEmailVerificationToken(c) ==
  LET t == target[c] IN
  /\ step[c] = "consume" /\ op[c] = "verify"
  /\ \/ /\ Usable(links[t])
        /\ Statement(c, Use(links, t), Find(c, links[t].owner, "mark"), links)
     \/ /\ ~Usable(links[t])
        /\ Query(c, Answer(c, "refused")) /\ UNCHANGED links
  /\ UNCHANGED <<customers, sessions, resets, history>>

(* Of an owner's sessions, those that are not revoked.                     *)
Open(e) == {s \in Calls : /\ sessions[s] # Nothing
                          /\ sessions[s].owner = e /\ sessions[s].state # "over"}

(* Faulty: the extension clears the revocation, so that a revoked session  *)
(* works again.                                                            *)
TouchedAnyway(c) == [sessions EXCEPT ![target[c]].state = "valid"]

(* The expiry of a session that is not revoked moves seven days ahead.     *)
Touched(c) == [sessions EXCEPT ![target[c]].state = IF @ = "over" THEN "over" ELSE "valid"]

(* RequireUserSession does not look at the error of the extension.         *)
TouchUserSession(c) ==
  /\ step[c] = "touch"
  /\ \/ sessions' = Touched(c) /\ UNCHANGED failures
     \/ sessions' \in {sessions, Touched(c)} /\ MayFail
  /\ Goto(c, "profile")
  /\ UNCHANGED <<customers, resets, links, history>>

(* Me: GetUser finds the customer, for customers are never deleted.        *)
GetCustomerByID(c) ==
  /\ step[c] = "profile"
  /\ Query(c, Answer(c, "ok"))
  /\ UNCHANGED <<tables, history>>

UpdateCustomerPassword(c) ==
  /\ step[c] = "update"
  /\ Statement(c, customers' = [customers EXCEPT ![customer[c]].password = password[c]],
               Goto(c, "revoke_all"), customers)
  /\ older' = [older EXCEPT ![c] = Open(customer[c])]
  /\ UNCHANGED <<sessions, resets, links, raced>>

(* Faulty: a session that has expired is not worth revoking.               *)
UnexpiredRevoked(c) ==
  [s \in Calls |-> IF s \in Open(customer[c]) /\ Valid(sessions[s])
                   THEN [sessions[s] EXCEPT !.state = "over"] ELSE sessions[s]]

AllRevoked(c) ==
  [s \in Calls |-> IF s \in Open(customer[c])
                   THEN [sessions[s] EXCEPT !.state = "over"] ELSE sessions[s]]

RevokeAllUserSessions(c) ==
  /\ step[c] = "revoke_all"
  /\ Statement(c, sessions' = AllRevoked(c), Answer(c, "ok"), sessions)
  /\ UNCHANGED <<customers, resets, links, history>>

MarkCustomerEmailVerified(c) ==
  /\ step[c] = "mark"
  /\ Statement(c, customers' = [customers EXCEPT ![customer[c]].verified = TRUE],
               Answer(c, "ok"), customers)
  /\ UNCHANGED <<sessions, resets, links, history>>

CallStep(c) ==
  \/ LookUp(c)                   \/ CreateCustomer(c)
  \/ CreateUserSession(c)        \/ CreateEmailVerificationToken(c)
  \/ CreatePasswordResetToken(c) \/ RevokeUserSession(c)
  \/ ConsumePasswordResetToken(c) \/ ConsumeEmailVerificationToken(c)
  \/ UpdateCustomerPassword(c)   \/ RevokeAllUserSessions(c)
  \/ MarkCustomerEmailVerified(c) \/ TouchUserSession(c)
  \/ GetCustomerByID(c)

-----------------------------------------------------------------------------
(* A client calls, with what earlier answers have given it.                *)

UnderWay(c) == step[c] \notin {"idle", "done"}

Begin(c, o, s, e, w, t) ==
  /\ step[c] = "idle"
  /\ op' = [op EXCEPT ![c] = o]
  /\ step' = [step EXCEPT ![c] = s]
  /\ customer' = [customer EXCEPT ![c] = e]
  /\ password' = [password EXCEPT ![c] = w]
  /\ target' = [target EXCEPT ![c] = t]
  /\ raced' = \/ raced
               \/ (o = "register" /\ \E d \in Calls : op[d] = o /\ UnderWay(d))
  /\ UNCHANGED <<tables, result, failures, older>>

(* Faulty: an empty password passes.                                       *)
UncheckedPasswords == Passwords \cup {Nothing}

(* What validateCredentials lets through.                                  *)
ValidPasswords == Passwords

Register(c) == \E e \in Emails, w \in ValidPasswords :
  Begin(c, "register", "lookup", e, w, Nothing)

Login(c) == \E e \in Emails, w \in ValidPasswords :
  Begin(c, "login", "lookup", e, w, Nothing)

RequestPasswordReset(c) == \E e \in Emails :
  Begin(c, "forgot", "lookup", e, Nothing, Nothing)

(* The session cookie came with an answer.                                 *)
HasCookie(t) == sessions[t] # Nothing /\ result[t] = "ok"

Logout(c) == \E t \in Calls :
  HasCookie(t) /\ Begin(c, "logout", "lookup", Nothing, Nothing, t)

Me(c) == \E t \in Calls :
  HasCookie(t) /\ Begin(c, "me", "lookup", Nothing, Nothing, t)

(* The links are logged once their token is stored.                        *)
ResetPassword(c) == \E t \in Calls, w \in Passwords :
  /\ resets[t] # Nothing /\ result[t] = "ok"
  /\ Begin(c, "reset", "consume", Nothing, w, t)

VerifyEmail(c) == \E t \in Calls :
  /\ links[t] # Nothing /\ target[t] = t
  /\ Begin(c, "verify", "consume", Nothing, Nothing, t)

(* A reset token is valid for an hour, a link for a day, and a session for *)
(* the seven days after it was last used.                                  *)
Expires(table, t) == /\ Valid(table[t])
                     /\ table' = [table EXCEPT ![t].state = "expired"]

GrantExpires(t) ==
  /\ \/ Expires(resets, t) /\ UNCHANGED <<links, sessions>>
     \/ Expires(links, t) /\ UNCHANGED <<resets, sessions>>
     \/ Expires(sessions, t) /\ UNCHANGED <<resets, links>>
  /\ UNCHANGED <<customers, callVars, failures, history>>

(* A replica dies.                                                         *)
CrashCall(c) ==
  /\ UnderWay(c) /\ MayFail
  /\ step' = [step EXCEPT ![c] = "done"]
  /\ UNCHANGED <<tables, op, password, target, customer, result, history>>

AccountsNext == \E c \in Calls :
  \/ Register(c) \/ Login(c) \/ Logout(c) \/ Me(c)
  \/ RequestPasswordReset(c) \/ ResetPassword(c) \/ VerifyEmail(c)
  \/ CallStep(c) \/ GrantExpires(c) \/ CrashCall(c)

AccountsSpec == AccountsInit /\ [][AccountsNext]_accountVars

-----------------------------------------------------------------------------
(* Safety.                                                                 *)

(* However an address is spelled, it has one account, unless registrations *)
(* ran at the same time: only the index, which sees case, tells those      *)
(* apart.                                                                  *)
OneAccountPerAddress ==
  ~raced =>
    \A a \in {Address[e] : e \in Emails} :
      Cardinality({e \in Emails : Address[e] = a /\ customers[e] # Nothing}) <= 1

(* A reset token changes a password once, whatever calls carry it and      *)
(* however they interleave, fail or lose their replies.                    *)
TokenChangesOnce ==
  \A t \in Calls : Cardinality({c \in Calls : /\ op[c] = "reset"
                                              /\ target[c] = t
                                              /\ customer[c] # Nothing}) <= 1

(* Who has reset a password has also ended every session that was there    *)
(* when the new password was written, for good: a request that is still    *)
(* extending one does not bring it back.                                   *)
ResetEndsSessions ==
  \A c \in Calls : op[c] = "reset" /\ result[c] = "ok" =>
    \A s \in older[c] : ~Valid(sessions[s])

(* Without a failure, a logout that found its session has ended it on the  *)
(* server too, and no request that is using it brings it back.  (One that  *)
(* finds the session expired answers the same and leaves it to the         *)
(* extension of a request under way.)                                      *)
SignedOutIsOver ==
  failures = 0 =>
    \A c \in Calls : op[c] = "logout" /\ result[c] = "ok" /\ customer[c] # Nothing =>
      ~Valid(sessions[target[c]])
=============================================================================
