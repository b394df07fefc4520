------------------------------ MODULE Accounts ------------------------------
(***************************************************************************)
(* Accounts: CreateUser inserts an unverified row, stores a token in Redis *)
(* and mails it from a goroutine of its own; VerifyUser looks the token    *)
(* up, deletes it and updates the row; LoginUser opens a session,          *)
(* LogOutUser closes it, LoginTunnelUser stores a secret for the tunnel    *)
(* client (src/cmd/auth_handler.go, src/cmd/tunnel_handler.go,             *)
(* src/internal/store/auth.go, src/internal/store/redis.go,                *)
(* src/internal/gmail/gmail.go).                                           *)
(*                                                                         *)
(* Postgres, Redis and the mail are three systems that are written one     *)
(* after the other; nothing is taken back when a later one fails, and no   *)
(* page sends a second mail or deletes an account.                         *)
(***************************************************************************)
EXTENDS FiniteSets

CONSTANTS
  Emails, UserNames,
  Tokens,        \* of one registration each: a hash of e-mail, time and a UUID
  Requests,      \* handlers at work at the same time
  FailingSteps,  \* the steps whose call may fail
  Expires,       \* whether a token's or a secret's 24 hours may pass
  NoName, NoEmail, NoToken,
  Garbage        \* what VerifyUser takes for the e-mail in an error's text

Steps == {"insert", "setToken", "get", "del", "update", "selectVerified", "selectRow",
          "setSecret"}

ASSUME AccountsAssumption ==
  /\ NoEmail \notin Emails /\ Garbage \notin Emails /\ NoEmail # Garbage
  /\ NoName \notin UserNames /\ NoToken \notin Tokens
  /\ FailingSteps \subseteq Steps \cup {"mail"}
  /\ Expires \in BOOLEAN

VARIABLES
  user_name,   \* table users: the user_name of each e-mail (both UNIQUE)
  verified,    \* e-mails of the rows with verified = true
  stored,      \* Redis: the e-mail of each token
  issued,      \* the e-mail each token was generated for
  outbox,      \* tokens that SendMail's goroutines have still to send
  mailed,      \* tokens that were sent to their e-mail's owner
  sessions,    \* e-mails of the users that are signed in
  secrets,     \* e-mails of the users with a tunnel secret in Redis
  pc,          \* the next call of each handler
  email, name, token   \* its form values, and what it has looked up

tables == <<user_name, verified>>
redis == <<stored, secrets>>
mail == <<issued, outbox, mailed>>
locals == <<pc, email, name, token>>
vars == <<tables, redis, mail, sessions, locals>>

Init ==
  /\ user_name = [e \in Emails |-> NoName]
  /\ verified = {}
  /\ stored = [t \in Tokens |-> NoEmail]
  /\ issued = [t \in Tokens |-> NoEmail]
  /\ outbox = {} /\ mailed = {}
  /\ sessions = {} /\ secrets = {}
  /\ pc = [r \in Requests |-> "idle"]
  /\ email = [r \in Requests |-> NoEmail]
  /\ name = [r \in Requests |-> NoName]
  /\ token = [r \in Requests |-> NoToken]

Registered == {e \in Emails : user_name[e] # NoName}

GoTo(r, step) == pc' = [pc EXCEPT ![r] = step] /\ UNCHANGED <<email, name, token>>

Return(r) ==
  /\ pc' = [pc EXCEPT ![r] = "idle"]
  /\ email' = [email EXCEPT ![r] = NoEmail]
  /\ name' = [name EXCEPT ![r] = NoName]
  /\ token' = [token EXCEPT ![r] = NoToken]

Begin(r, e, n, t, step) ==
  /\ pc[r] = "idle"
  /\ pc' = [pc EXCEPT ![r] = step]
  /\ email' = [email EXCEPT ![r] = e]
  /\ name' = [name EXCEPT ![r] = n]
  /\ token' = [token EXCEPT ![r] = t]
  /\ UNCHANGED <<tables, redis, mail, sessions>>

-----------------------------------------------------------------------------
(* CreateUser *)

CreateUser(r, e, n) == Begin(r, e, n, NoToken, "insert")

CanInsert(e, n) == user_name[e] = NoName /\ \A f \in Emails : user_name[f] # n

\* The row, and GenerateToken.
InsertUser(r) ==
  /\ pc[r] = "insert"
  /\ \/ /\ CanInsert(email[r], name[r])
        /\ user_name' = [user_name EXCEPT ![email[r]] = name[r]]
        /\ \E t \in Tokens :
             /\ issued[t] = NoEmail
             /\ issued' = [issued EXCEPT ![t] = email[r]]
             /\ token' = [token EXCEPT ![r] = t]
        /\ pc' = [pc EXCEPT ![r] = "setToken"]
        /\ UNCHANGED <<email, name>>
     \/ ~CanInsert(email[r], name[r]) /\ Return(r) /\ UNCHANGED <<user_name, issued>>
  /\ UNCHANGED <<verified, redis, outbox, mailed, sessions>>

\* An error of Redis is not looked at; the mail's goroutine starts all the same.
SetEmailToken(r, done) ==
  /\ pc[r] = "setToken"
  /\ stored' = IF done THEN [stored EXCEPT ![token[r]] = email[r]] ELSE stored
  /\ outbox' = outbox \cup {token[r]}
  /\ Return(r)
  /\ UNCHANGED <<tables, secrets, issued, mailed, sessions>>

SendMail(t, done) ==
  /\ t \in outbox
  /\ outbox' = outbox \ {t}
  /\ mailed' = IF done THEN mailed \cup {t} ELSE mailed
  /\ UNCHANGED <<tables, redis, issued, sessions, locals>>

-----------------------------------------------------------------------------
(* VerifyUser *)

\* Variant: the token is deleted without having been looked up.
VerifyBlindly(r, t) == t \in mailed /\ Begin(r, Garbage, NoName, t, "del")

\* The link of a mail is followed, perhaps more than once.
VerifyUser(r, t) == t \in mailed /\ Begin(r, NoEmail, NoName, t, "get")

\* The third part of the command's text, cut at its colons: the e-mail of
\* "get <token>: email:<e-mail>", or what stands there in "redis: nil" or an error.
GetEmailFromToken(r, found) ==
  /\ pc[r] = "get"
  /\ email' = [email EXCEPT ![r] = IF found /\ stored[token[r]] # NoEmail
                                   THEN stored[token[r]] ELSE Garbage]
  /\ pc' = [pc EXCEPT ![r] = "del"]
  /\ UNCHANGED <<tables, redis, mail, sessions, name, token>>

\* Variant: the number of deleted keys is not looked at.
DeleteAnyToken(r) ==
  /\ pc[r] = "del"
  /\ stored' = [stored EXCEPT ![token[r]] = NoEmail]
  /\ GoTo(r, "update")
  /\ UNCHANGED <<tables, secrets, mail, sessions>>

DeleteEmailToken(r) ==
  /\ pc[r] = "del"
  /\ stored' = [stored EXCEPT ![token[r]] = NoEmail]
  /\ IF stored[token[r]] # NoEmail THEN GoTo(r, "update") ELSE Return(r)
  /\ UNCHANGED <<tables, secrets, mail, sessions>>

\* No row of that e-mail is not an error.
UpdateVerified(r) ==
  /\ pc[r] = "update"
  /\ verified' = verified \cup ({email[r]} \cap Registered)
  /\ Return(r)
  /\ UNCHANGED <<user_name, redis, mail, sessions>>

-----------------------------------------------------------------------------
(* LoginUser, LogOutUser, LoginTunnelUser *)

Login(r, n) == Begin(r, NoEmail, n, NoToken, "selectVerified")

\* Variant: the flag is not looked at.
IsRegistered(e, n) == user_name[e] = n

IsVerified(e, n) == user_name[e] = n /\ e \in verified

SelectVerified(r) ==
  /\ pc[r] = "selectVerified"
  /\ \/ \E e \in Emails :
          /\ IsVerified(e, name[r])
          /\ email' = [email EXCEPT ![r] = e]
          /\ pc' = [pc EXCEPT ![r] = "selectRow"]
          /\ UNCHANGED <<name, token>>
     \/ (\A e \in Emails : ~IsVerified(e, name[r])) /\ Return(r)
  /\ UNCHANGED <<tables, redis, mail, sessions>>

\* LoginUser puts the user into the session, LoginTunnelUser makes a secret, or
\* the password is wrong.
SelectRow(r) ==
  /\ pc[r] = "selectRow"
  /\ \/ sessions' = sessions \cup {email[r]} /\ Return(r)
     \/ GoTo(r, "setSecret") /\ UNCHANGED sessions
     \/ Return(r) /\ UNCHANGED sessions
  /\ UNCHANGED <<tables, redis, mail>>

SetTunnelLogin(r) ==
  /\ pc[r] = "setSecret"
  /\ secrets' = secrets \cup {email[r]}
  /\ Return(r)
  /\ UNCHANGED <<tables, stored, mail, sessions>>

\* Or the session's 24 hours are over.
LogOutUser(e) ==
  /\ e \in sessions
  /\ sessions' = sessions \ {e}
  /\ UNCHANGED <<tables, redis, mail, locals>>

-----------------------------------------------------------------------------
TokenExpires(t) ==
  /\ Expires /\ stored[t] # NoEmail
  /\ stored' = [stored EXCEPT ![t] = NoEmail]
  /\ UNCHANGED <<tables, secrets, mail, sessions, locals>>

SecretExpires(e) ==
  /\ Expires /\ e \in secrets
  /\ secrets' = secrets \ {e}
  /\ UNCHANGED <<tables, stored, mail, sessions, locals>>

\* Redis has deleted the token and its answer is lost; the client's own retry
\* of DEL then finds nothing to delete.
DeletedUnseen(r) ==
  /\ pc[r] = "del"
  /\ stored' = [stored EXCEPT ![token[r]] = NoEmail]
  /\ Return(r)
  /\ UNCHANGED <<tables, secrets, mail, sessions>>

\* A handler ends with the error, or with the panic that an error text of less
\* than three parts leads to; but SetEmailToken's error is passed over, and GET's
\* may be taken for an e-mail.
CallFails(r) ==
  /\ pc[r] \in FailingSteps
  /\ \/ pc[r] # "setToken" /\ Return(r) /\ UNCHANGED <<tables, redis, mail, sessions>>
     \/ SetEmailToken(r, FALSE)
     \/ GetEmailFromToken(r, FALSE)
     \/ DeletedUnseen(r)

MailFails(t) == "mail" \in FailingSteps /\ SendMail(t, FALSE)

Ask(r) ==
  \/ \E e \in Emails, n \in UserNames : CreateUser(r, e, n)
  \/ \E n \in UserNames : Login(r, n)

Work(r) ==
  \/ InsertUser(r) \/ SetEmailToken(r, TRUE)
  \/ GetEmailFromToken(r, TRUE) \/ DeleteEmailToken(r) \/ UpdateVerified(r)
  \/ SelectVerified(r) \/ SelectRow(r) \/ SetTunnelLogin(r)

Follow(t) == \E r \in Requests : VerifyUser(r, t)

Next ==
  \/ \E r \in Requests : Ask(r) \/ Work(r) \/ CallFails(r)
  \/ \E t \in Tokens : Follow(t) \/ SendMail(t, TRUE) \/ MailFails(t) \/ TokenExpires(t)
  \/ \E e \in Emails : LogOutUser(e) \/ SecretExpires(e)

Spec == Init /\ [][Next]_vars

\* Handlers and mail goroutines run, and who gets a link follows it.  Strong
\* fairness for the last: that all Requests are at work is a bound of the model.
Fairness ==
  /\ \A r \in Requests : WF_vars(Work(r))
  /\ \A t \in Tokens : WF_vars(SendMail(t, TRUE)) /\ SF_vars(Follow(t))

FairSpec == Spec /\ Fairness

-----------------------------------------------------------------------------
(* Properties *)

\* Also: only the verified are signed in or have a tunnel secret.
TypeOK ==
  /\ user_name \in [Emails -> UserNames \cup {NoName}]
  /\ verified \subseteq Registered
  /\ stored \in [Tokens -> Emails \cup {NoEmail}]
  /\ issued \in [Tokens -> Emails \cup {NoEmail}]
  /\ outbox \subseteq Tokens /\ mailed \subseteq Tokens
  /\ sessions \subseteq verified /\ secrets \subseteq verified
  /\ pc \in [Requests -> Steps \cup {"idle"}]
  /\ email \in [Requests -> Emails \cup {NoEmail, Garbage}]
  /\ name \in [Requests -> UserNames \cup {NoName}]
  /\ token \in [Requests -> Tokens \cup {NoToken}]

\* A link works once: however many requests follow it at the same time, at most
\* one has deleted the token and goes on to update the row, and from then on
\* the token is not in Redis.
LinkWorksOnce ==
  \A r \in Requests : pc[r] = "update" =>
    /\ stored[token[r]] = NoEmail
    /\ \A s \in Requests \ {r} : pc[s] = "update" => token[s] # token[r]

\* What an e-mail that is registered and not verified has still to hope for:
\* its registration, its mail or its link.
Hopeful(e) ==
  \/ \E r \in Requests : pc[r] \in {"setToken", "update"} /\ email[r] = e
  \/ \E t \in outbox \cup mailed : stored[t] = e
=============================================================================
