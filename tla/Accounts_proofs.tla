--------------------------- MODULE Accounts_proofs ---------------------------
(***************************************************************************)
(* Theorems about Accounts for every set of e-mails, tokens and requests   *)
(* and every choice of failing calls.                                      *)
(***************************************************************************)
EXTENDS MCAccounts, TLAPS

\* What a request's local variables hold, by its next call: in particular, who
\* is about to be signed in is verified.
LocalsOK ==
  \A r \in Requests :
    /\ pc[r] \in {"insert", "setToken"} => email[r] \in Emails
    /\ pc[r] = "insert" => name[r] \in UserNames
    /\ pc[r] \in {"setToken", "get", "del", "update"} => token[r] \in Tokens
    /\ pc[r] \in {"selectRow", "setSecret"} => email[r] \in verified

TypeInv == TypeOK /\ LocalsOK

\* A request that ends keeps the types, whatever it was doing.
LEMMA ReturnTypes ==
  ASSUME TypeInv, NEW r \in Requests, Return(r), verified \subseteq verified'
  PROVE  /\ pc' \in [Requests -> Steps \cup {"idle"}]
         /\ email' \in [Requests -> Emails \cup {NoEmail, Garbage}]
         /\ name' \in [Requests -> UserNames \cup {NoName}]
         /\ token' \in [Requests -> Tokens \cup {NoToken}]
         /\ LocalsOK'
BY DEF TypeInv, TypeOK, LocalsOK, Return, Steps

\* So does one that begins with the form values its first call needs.
LEMMA BeginTypes ==
  ASSUME TypeInv, NEW r \in Requests, NEW e \in Emails \cup {NoEmail},
         NEW n \in UserNames \cup {NoName}, NEW t \in Tokens \cup {NoToken},
         NEW step \in {"insert", "get", "selectVerified"}, Begin(r, e, n, t, step),
         step = "insert" => e \in Emails /\ n \in UserNames,
         step = "get" => t \in Tokens
  PROVE  TypeInv'
BY DEF TypeInv, TypeOK, LocalsOK, Begin, tables, redis, mail, Steps, Registered

\* Only registered users are verified, and only verified ones are signed in or
\* have a tunnel secret, with any number of requests and any pattern of failures.
THEOREM TypingInv == Spec => []TypeInv
<1>1. Init => TypeInv
  BY DEF Init, TypeInv, TypeOK, LocalsOK, Registered
<1>2. TypeInv /\ [Next]_vars => TypeInv'
  <2> SUFFICES ASSUME TypeInv, [Next]_vars PROVE TypeInv'
    OBVIOUS
  <2> USE DEF tables, redis, mail
  <2>1. ASSUME NEW r \in Requests, Ask(r) PROVE TypeInv'
    BY <2>1, BeginTypes DEF Ask, CreateUser, Login
  <2>2. ASSUME NEW t \in Tokens, Follow(t) PROVE TypeInv'
    BY <2>2, BeginTypes DEF Follow, VerifyUser
  <2>3. ASSUME NEW r \in Requests, InsertUser(r) PROVE TypeInv'
    <3>1. CASE CanInsert(email[r], name[r])
      <4>1. email[r] \in Emails /\ name[r] \in UserNames
        BY <2>3 DEF InsertUser, TypeInv, LocalsOK
      <4>2. verified \subseteq Registered'
        BY <4>1, <2>3, <3>1, AccountsAssumption DEF InsertUser, TypeInv, TypeOK, Registered
      <4>3. LocalsOK'
        BY <4>1, <2>3, <3>1 DEF InsertUser, TypeInv, TypeOK, LocalsOK
      <4>4. QED
        BY <4>1, <4>2, <4>3, <2>3, <3>1 DEF InsertUser, TypeInv, TypeOK, Steps
    <3>2. CASE ~CanInsert(email[r], name[r])
      BY <2>3, <3>2, ReturnTypes DEF InsertUser, TypeInv, TypeOK, Registered
    <3>3. QED
      BY <3>1, <3>2
  <2>4. ASSUME NEW r \in Requests, NEW done \in BOOLEAN, SetEmailToken(r, done)
        PROVE  TypeInv'
    <3>1. stored' \in [Tokens -> Emails \cup {NoEmail}] /\ outbox' \subseteq Tokens
      BY <2>4 DEF SetEmailToken, TypeInv, TypeOK, LocalsOK
    <3>2. QED
      BY <2>4, <3>1, ReturnTypes DEF SetEmailToken, TypeInv, TypeOK, Registered
  <2>5. ASSUME NEW t \in Tokens, NEW done \in BOOLEAN, SendMail(t, done) PROVE TypeInv'
    BY <2>5 DEF SendMail, TypeInv, TypeOK, LocalsOK, Registered, locals
  <2>6. ASSUME NEW r \in Requests, NEW found \in BOOLEAN, GetEmailFromToken(r, found)
        PROVE  TypeInv'
    BY <2>6 DEF GetEmailFromToken, TypeInv, TypeOK, LocalsOK, Registered, Steps
  <2>7. ASSUME NEW r \in Requests, DeleteEmailToken(r) \/ DeletedUnseen(r) PROVE TypeInv'
    <3>1. stored' \in [Tokens -> Emails \cup {NoEmail}]
      BY <2>7 DEF DeleteEmailToken, DeletedUnseen, TypeInv, TypeOK
    <3>2. CASE Return(r)
      BY <2>7, <3>1, <3>2, ReturnTypes DEF DeleteEmailToken, DeletedUnseen, TypeInv, TypeOK, Registered
    <3>3. CASE GoTo(r, "update") /\ pc[r] = "del"
      BY <2>7, <3>1, <3>3 DEF DeleteEmailToken, DeletedUnseen, GoTo, TypeInv, TypeOK, LocalsOK, Registered, Steps
    <3>4. QED
      BY <2>7, <3>2, <3>3 DEF DeleteEmailToken, DeletedUnseen
  <2>8. ASSUME NEW r \in Requests, UpdateVerified(r) PROVE TypeInv'
    BY <2>8, ReturnTypes DEF UpdateVerified, TypeInv, TypeOK, Registered
  <2>9. ASSUME NEW r \in Requests, SelectVerified(r) PROVE TypeInv'
    <3>1. CASE Return(r)
      BY <2>9, <3>1, ReturnTypes DEF SelectVerified, TypeInv, TypeOK, Registered
    <3>2. ASSUME NEW e \in Emails, IsVerified(e, name[r]), pc[r] = "selectVerified",
                 email' = [email EXCEPT ![r] = e], pc' = [pc EXCEPT ![r] = "selectRow"],
                 UNCHANGED <<name, token, tables, redis, mail, sessions>>
          PROVE  TypeInv'
      BY <3>2 DEF IsVerified, TypeInv, TypeOK, LocalsOK, Registered, Steps
    <3>3. QED
      BY <2>9, <3>1, <3>2 DEF SelectVerified
  <2>10. ASSUME NEW r \in Requests, SelectRow(r) \/ SetTunnelLogin(r) PROVE TypeInv'
    <3>1. email[r] \in verified
      BY <2>10 DEF SelectRow, SetTunnelLogin, TypeInv, LocalsOK
    <3>2. CASE Return(r)
      BY <2>10, <3>1, <3>2, ReturnTypes DEF SelectRow, SetTunnelLogin, TypeInv, TypeOK, Registered
    <3>3. CASE GoTo(r, "setSecret")
      BY <2>10, <3>1, <3>3 DEF SelectRow, SetTunnelLogin, GoTo, TypeInv, TypeOK, LocalsOK, Registered, Steps
    <3>4. QED
      BY <2>10, <3>2, <3>3 DEF SelectRow, SetTunnelLogin
  <2>11. ASSUME NEW e \in Emails, LogOutUser(e) \/ SecretExpires(e) PROVE TypeInv'
    BY <2>11 DEF LogOutUser, SecretExpires, TypeInv, TypeOK, LocalsOK, Registered, locals
  <2>12. ASSUME NEW t \in Tokens, TokenExpires(t) PROVE TypeInv'
    BY <2>12 DEF TokenExpires, TypeInv, TypeOK, LocalsOK, Registered, locals
  <2>13. ASSUME NEW r \in Requests, CallFails(r) PROVE TypeInv'
    <3>1. CASE Return(r) /\ UNCHANGED <<tables, redis, mail, sessions>>
      BY <3>1, ReturnTypes DEF TypeInv, TypeOK, Registered
    <3>2. QED
      BY <2>13, <2>4, <2>6, <2>7, <3>1 DEF CallFails
  <2>14. ASSUME UNCHANGED vars PROVE TypeInv'
    BY <2>14 DEF vars, locals, TypeInv, TypeOK, LocalsOK, Registered
  <2>15. QED
    BY <2>1, <2>2, <2>3, <2>4, <2>5, <2>6, <2>7, <2>8, <2>9, <2>10, <2>11, <2>12, <2>13, <2>14
    DEF Next, Work, MailFails
<1>3. QED
  BY <1>1, <1>2, PTL DEF Spec

\* The type invariant by itself, as the run checks it.
THEOREM Typing == Spec => []TypeOK
<1>1. TypeInv => TypeOK
  BY DEF TypeInv
<1>2. QED
  BY <1>1, TypingInv, PTL

-----------------------------------------------------------------------------
\* A token is known to nobody but its registration until its mail is on the
\* way, so a link that is followed is of a token that was stored before.
MailedOnce ==
  /\ \A r \in Requests : pc[r] = "setToken" =>
       /\ issued[token[r]] # NoEmail
       /\ token[r] \notin outbox \cup mailed
       /\ \A s \in Requests \ {r} : pc[s] = "setToken" => token[s] # token[r]
  /\ \A t \in outbox \cup mailed : issued[t] # NoEmail
  /\ \A r \in Requests : pc[r] \in {"get", "del", "update"} => token[r] \in mailed

\* LinkWorksOnce is not inductive: a registration might store again the token
\* that a link has just used up.
OneUseInv == MailedOnce /\ LinkWorksOnce

\* The end of a request disturbs neither.
LEMMA ReturnOneUse ==
  ASSUME TypeInv, OneUseInv, NEW r \in Requests, Return(r), UNCHANGED mail,
         \A t \in Tokens : stored[t] = NoEmail => stored'[t] = NoEmail
  PROVE  OneUseInv'
BY DEF TypeInv, TypeOK, LocalsOK, OneUseInv, MailedOnce, LinkWorksOnce, Return, mail

\* The inductive invariant behind OneUse and Hope.
THEOREM OneUseInvHolds == Spec => []OneUseInv
<1>1. Init => OneUseInv
  BY DEF Init, OneUseInv, MailedOnce, LinkWorksOnce
<1>2. TypeInv /\ OneUseInv /\ [Next]_vars => OneUseInv'
  <2> SUFFICES ASSUME TypeInv, OneUseInv, [Next]_vars PROVE OneUseInv'
    OBVIOUS
  <2> USE DEF tables, redis, mail
  <2>1. ASSUME NEW r \in Requests, Ask(r) PROVE OneUseInv'
    BY <2>1 DEF Ask, CreateUser, Login, Begin, TypeInv, TypeOK, OneUseInv, MailedOnce, LinkWorksOnce
  <2>2. ASSUME NEW t \in Tokens, Follow(t) PROVE OneUseInv'
    BY <2>2 DEF Follow, VerifyUser, Begin, TypeInv, TypeOK, OneUseInv, MailedOnce, LinkWorksOnce
  <2>3. ASSUME NEW r \in Requests, InsertUser(r) PROVE OneUseInv'
    <3>1. CASE CanInsert(email[r], name[r])
      <4>1. PICK t \in Tokens : /\ issued[t] = NoEmail
                               /\ issued' = [issued EXCEPT ![t] = email[r]]
                               /\ token' = [token EXCEPT ![r] = t]
        BY <2>3, <3>1 DEF InsertUser
      <4>2. email[r] # NoEmail
        BY <2>3, AccountsAssumption DEF InsertUser, TypeInv, LocalsOK
      <4>3. MailedOnce'
        BY <4>1, <4>2, <2>3, <3>1 DEF InsertUser, TypeInv, TypeOK, LocalsOK, OneUseInv, MailedOnce
      <4>4. LinkWorksOnce'
        BY <4>1, <2>3, <3>1 DEF InsertUser, TypeInv, TypeOK, OneUseInv, LinkWorksOnce
      <4>5. QED
        BY <4>3, <4>4 DEF OneUseInv
    <3>2. CASE ~CanInsert(email[r], name[r])
      BY <2>3, <3>2, ReturnOneUse DEF InsertUser
    <3>3. QED
      BY <3>1, <3>2
  <2>4. ASSUME NEW r \in Requests, NEW done \in BOOLEAN, SetEmailToken(r, done)
        PROVE  OneUseInv'
    <3>1. \A s \in Requests : pc'[s] # "idle" => s # r /\ pc'[s] = pc[s] /\ token'[s] = token[s]
      BY <2>4 DEF SetEmailToken, Return, TypeInv, TypeOK
    <3>2. MailedOnce'
      BY <2>4, <3>1 DEF SetEmailToken, TypeInv, TypeOK, LocalsOK, OneUseInv, MailedOnce
    <3>3. \A s \in Requests : pc[s] = "update" => token[s] # token[r]
      BY <2>4 DEF SetEmailToken, OneUseInv, MailedOnce
    <3>4. LinkWorksOnce'
      BY <2>4, <3>1, <3>3 DEF SetEmailToken, TypeInv, TypeOK, LocalsOK, OneUseInv, LinkWorksOnce
    <3>5. QED
      BY <3>2, <3>4 DEF OneUseInv
  <2>5. ASSUME NEW t \in Tokens, NEW done \in BOOLEAN, SendMail(t, done) PROVE OneUseInv'
    BY <2>5 DEF SendMail, OneUseInv, MailedOnce, LinkWorksOnce, locals
  <2>6. ASSUME NEW r \in Requests, NEW found \in BOOLEAN, GetEmailFromToken(r, found)
        PROVE  OneUseInv'
    BY <2>6 DEF GetEmailFromToken, TypeInv, TypeOK, OneUseInv, MailedOnce, LinkWorksOnce
  <2>7. ASSUME NEW r \in Requests, DeleteEmailToken(r) \/ DeletedUnseen(r) PROVE OneUseInv'
    <3>1. /\ stored' = [stored EXCEPT ![token[r]] = NoEmail]
          /\ token[r] \in Tokens
          /\ \A t \in Tokens : stored[t] = NoEmail => stored'[t] = NoEmail
      BY <2>7 DEF DeleteEmailToken, DeletedUnseen, TypeInv, TypeOK, LocalsOK
    <3>2. CASE Return(r)
      BY <2>7, <3>1, <3>2, ReturnOneUse DEF DeleteEmailToken, DeletedUnseen
    <3>3. CASE GoTo(r, "update") /\ stored[token[r]] # NoEmail /\ UNCHANGED mail /\ pc[r] = "del"
      <4>1. \A s \in Requests : pc[s] = "update" => token[s] # token[r]
        BY <3>3 DEF OneUseInv, LinkWorksOnce
      <4>2. MailedOnce'
        BY <3>1, <3>3 DEF GoTo, TypeInv, TypeOK, OneUseInv, MailedOnce
      <4>3. LinkWorksOnce'
        BY <3>1, <3>3, <4>1 DEF GoTo, TypeInv, TypeOK, LocalsOK, OneUseInv, LinkWorksOnce
      <4>4. QED
        BY <4>2, <4>3 DEF OneUseInv
    <3>4. QED
      BY <2>7, <3>2, <3>3 DEF DeleteEmailToken, DeletedUnseen
  <2>8. ASSUME NEW r \in Requests, UpdateVerified(r) PROVE OneUseInv'
    BY <2>8, ReturnOneUse DEF UpdateVerified
  <2>9. ASSUME NEW r \in Requests, SelectVerified(r) PROVE OneUseInv'
    <3>1. CASE Return(r)
      BY <2>9, <3>1, ReturnOneUse DEF SelectVerified
    <3>2. ASSUME pc' = [pc EXCEPT ![r] = "selectRow"], UNCHANGED <<token, stored, mail>>
          PROVE  OneUseInv'
      BY <3>2 DEF TypeInv, TypeOK, OneUseInv, MailedOnce, LinkWorksOnce
    <3>3. QED
      BY <2>9, <3>1, <3>2 DEF SelectVerified
  <2>10. ASSUME NEW r \in Requests, SelectRow(r) \/ SetTunnelLogin(r) PROVE OneUseInv'
    <3>1. CASE Return(r)
      BY <2>10, <3>1, ReturnOneUse DEF SelectRow, SetTunnelLogin
    <3>2. CASE GoTo(r, "setSecret")
      BY <2>10, <3>2 DEF SelectRow, SetTunnelLogin, GoTo, TypeInv, TypeOK, OneUseInv, MailedOnce, LinkWorksOnce
    <3>3. QED
      BY <2>10, <3>1, <3>2 DEF SelectRow, SetTunnelLogin
  <2>11. ASSUME NEW e \in Emails, LogOutUser(e) \/ SecretExpires(e) PROVE OneUseInv'
    BY <2>11 DEF LogOutUser, SecretExpires, OneUseInv, MailedOnce, LinkWorksOnce, locals
  <2>12. ASSUME NEW t \in Tokens, TokenExpires(t) PROVE OneUseInv'
    BY <2>12 DEF TokenExpires, TypeInv, TypeOK, LocalsOK, OneUseInv, MailedOnce, LinkWorksOnce, locals
  <2>13. ASSUME NEW r \in Requests, CallFails(r) PROVE OneUseInv'
    <3>1. CASE Return(r) /\ UNCHANGED <<tables, redis, mail, sessions>>
      BY <3>1, ReturnOneUse
    <3>2. QED
      BY <2>13, <2>4, <2>6, <2>7, <3>1 DEF CallFails
  <2>14. ASSUME UNCHANGED vars PROVE OneUseInv'
    BY <2>14 DEF vars, locals, OneUseInv, MailedOnce, LinkWorksOnce
  <2>15. QED
    BY <2>1, <2>2, <2>3, <2>4, <2>5, <2>6, <2>7, <2>8, <2>9, <2>10, <2>11, <2>12, <2>13, <2>14
    DEF Next, Work, MailFails
<1>3. QED
  BY <1>1, <1>2, TypingInv, PTL DEF Spec

\* However many requests follow the same link at the same time, one of them at
\* most goes on to verify somebody.
THEOREM OneUse == Spec => []LinkWorksOnce
<1>1. OneUseInv => LinkWorksOnce
  BY DEF OneUseInv
<1>2. QED
  BY <1>1, OneUseInvHolds, PTL
-----------------------------------------------------------------------------
\* With its history the system does what it does without.
LEMMA HistoryInvs == FairHistorySpec => [](TypeInv /\ OneUseInv)
<1>1. HistoryInit => Init
  BY DEF HistoryInit
<1>2. [HistoryNext]_<<vars, unlucky>> => [Next]_vars
  BY DEF HistoryNext, Next
<1>3. QED
  BY <1>1, <1>2, TypingInv, OneUseInvHolds, PTL DEF FairHistorySpec, Spec

\* A token stands for the e-mail it was made for, wherever it is, and who has
\* cut something else out of Redis' answer has a token that is used up, or whose
\* e-mail had bad luck.
TokenInv ==
  /\ \A t \in Tokens : stored[t] \in {NoEmail, issued[t]}
  /\ \A r \in Requests :
       /\ pc[r] = "setToken" => email[r] = issued[token[r]]
       /\ pc[r] \in {"del", "update"} => email[r] \in {issued[token[r]], Garbage}
       /\ pc[r] = "del" /\ email[r] = Garbage =>
            stored[token[r]] = NoEmail \/ issued[token[r]] \in unlucky
       /\ pc[r] = "update" /\ email[r] = Garbage => issued[token[r]] \in unlucky

HopeInv == TokenInv /\ NotStuckUnlessUnlucky

\* A request that ends takes the hope of nobody but an e-mail with bad luck.
LEMMA ReturnHope ==
  ASSUME TypeInv, HopeInv, NEW r \in Requests, Return(r),
         UNCHANGED <<user_name, stored, mail>>, verified \subseteq verified',
         unlucky \subseteq unlucky',
         pc[r] \in {"setToken", "update"} /\ email[r] \in Registered => email[r] \in unlucky' \cup verified'
  PROVE  HopeInv'
<1>1. \A s \in Requests : pc'[s] # "idle" => /\ s # r /\ pc'[s] = pc[s] /\ email'[s] = email[s]
                                            /\ token'[s] = token[s]
  BY DEF Return, TypeInv, TypeOK
<1>2. TokenInv'
  BY <1>1 DEF HopeInv, TokenInv, mail
<1>3. ASSUME NEW e \in Registered' \ verified', e \notin unlucky' PROVE Hopeful(e)'
  <2>1. e \in Registered \ verified /\ e \notin unlucky
    BY <1>3 DEF Registered
  <2>2. Hopeful(e)
    BY <2>1 DEF HopeInv, NotStuckUnlessUnlucky
  <2>3. CASE \E s \in Requests : pc[s] \in {"setToken", "update"} /\ email[s] = e
    <3>1. PICK s \in Requests : pc[s] \in {"setToken", "update"} /\ email[s] = e
      BY <2>3
    <3>2. s # r
      BY <1>3, <2>1, <3>1
    <3>3. pc'[s] = pc[s] /\ email'[s] = email[s]
      BY <3>2 DEF Return, TypeInv, TypeOK
    <3>4. QED
      BY <3>1, <3>3 DEF Hopeful
  <2>4. CASE \E t \in outbox \cup mailed : stored[t] = e
    BY <2>4 DEF Hopeful, mail
  <2>5. QED
    BY <2>2, <2>3, <2>4 DEF Hopeful
<1>4. QED
  BY <1>2, <1>3 DEF HopeInv, NotStuckUnlessUnlucky

\* A token that leaves Redis, unused, is bad luck for its e-mail.
LEMMA LostToken ==
  ASSUME TypeInv, HopeInv, NEW t \in Tokens, stored' = [stored EXCEPT ![t] = NoEmail],
         unlucky' = unlucky \cup {issued[t]}, UNCHANGED <<tables, mail>>,
         \A s \in Requests : \/ pc'[s] = pc[s] /\ email'[s] = email[s] /\ token'[s] = token[s]
                             \/ pc'[s] = "idle" /\ pc[s] = "del"
  PROVE  HopeInv'
<1>0. stored'[t] = NoEmail /\ \A x \in Tokens \ {t} : stored'[x] = stored[x]
  BY DEF TypeInv, TypeOK
<1>1. TokenInv'
  BY <1>0 DEF TypeInv, TypeOK, LocalsOK, HopeInv, TokenInv, mail
<1>2. ASSUME NEW e \in Registered' \ verified', e \notin unlucky' PROVE Hopeful(e)'
  <2>1. e \in Registered \ verified /\ e \notin unlucky /\ e # issued[t] /\ e # NoEmail
    BY <1>2, AccountsAssumption DEF Registered, tables
  <2>2. Hopeful(e)
    BY <2>1 DEF HopeInv, NotStuckUnlessUnlucky
  <2>3. stored[t] # e
    BY <2>1 DEF HopeInv, TokenInv
  <2>4. CASE \E s \in Requests : pc[s] \in {"setToken", "update"} /\ email[s] = e
    <3>1. PICK s \in Requests : pc[s] \in {"setToken", "update"} /\ email[s] = e
      BY <2>4
    <3>2. pc'[s] = pc[s] /\ email'[s] = email[s]
      BY <3>1
    <3>3. QED
      BY <3>1, <3>2 DEF Hopeful
  <2>5. CASE \E x \in outbox \cup mailed : stored[x] = e
    <3>1. PICK x \in outbox \cup mailed : stored[x] = e
      BY <2>5
    <3>2. x \in Tokens /\ x # t
      BY <2>3, <3>1 DEF TypeInv, TypeOK
    <3>3. stored'[x] = e
      BY <1>0, <3>1, <3>2
    <3>4. QED
      BY <3>1, <3>3 DEF Hopeful, mail
  <2>6. QED
    BY <2>2, <2>4, <2>5 DEF Hopeful
<1>3. QED
  BY <1>1, <1>2 DEF HopeInv, NotStuckUnlessUnlucky

\* A request at work that changes nothing outside and is of no hope to anybody
\* can go on to any step but those two.
LEMMA GoOnHope ==
  ASSUME TypeInv, HopeInv, NEW r \in Requests, UNCHANGED <<tables, stored, mail>>,
         unlucky \subseteq unlucky',
         pc[r] \notin {"setToken", "update"},
         pc'[r] \notin {"setToken", "del", "update"},
         \A s \in Requests \ {r} : pc'[s] = pc[s] /\ email'[s] = email[s] /\ token'[s] = token[s]
  PROVE  HopeInv'
<1>1. TokenInv'
  BY DEF HopeInv, TokenInv, mail
<1>2. ASSUME NEW e \in Registered' \ verified', e \notin unlucky' PROVE Hopeful(e)'
  <2>1. e \in Registered \ verified /\ e \notin unlucky
    BY <1>2 DEF Registered, tables
  <2>2. Hopeful(e)
    BY <2>1 DEF HopeInv, NotStuckUnlessUnlucky
  <2>3. QED
    BY <2>2 DEF Hopeful, mail
<1>3. QED
  BY <1>1, <1>2 DEF HopeInv, NotStuckUnlessUnlucky
\* The link's look-up: what it finds is the e-mail the token was made for.
LEMMA GetHope ==
  ASSUME TypeInv, HopeInv, NEW r \in Requests, NEW found \in BOOLEAN, GetEmailFromToken(r, found),
         unlucky \subseteq unlucky', ~found => issued[token[r]] \in unlucky'
  PROVE  HopeInv'
<1> USE DEF tables, redis, mail
<1>1. /\ pc[r] = "get" /\ pc'[r] = "del" /\ UNCHANGED <<tables, stored, mail, token>>
      /\ email'[r] = IF found /\ stored[token[r]] # NoEmail THEN stored[token[r]] ELSE Garbage
      /\ \A s \in Requests \ {r} : pc'[s] = pc[s] /\ email'[s] = email[s]
      /\ token[r] \in Tokens
  BY DEF GetEmailFromToken, TypeInv, TypeOK, LocalsOK
<1>2. TokenInv'
  <2>1. \A s \in Requests \ {r} :
          /\ pc'[s] = "setToken" => email'[s] = issued'[token'[s]]
          /\ pc'[s] \in {"del", "update"} => email'[s] \in {issued'[token'[s]], Garbage}
          /\ pc'[s] = "del" /\ email'[s] = Garbage =>
               stored'[token'[s]] = NoEmail \/ issued'[token'[s]] \in unlucky'
          /\ pc'[s] = "update" /\ email'[s] = Garbage => issued'[token'[s]] \in unlucky'
    BY <1>1 DEF HopeInv, TokenInv
  <2>2. /\ email'[r] \in {issued'[token'[r]], Garbage}
        /\ email'[r] = Garbage => stored'[token'[r]] = NoEmail \/ issued'[token'[r]] \in unlucky'
    BY <1>1, AccountsAssumption DEF HopeInv, TokenInv, TypeInv, TypeOK
  <2>3. \A t \in Tokens : stored'[t] \in {NoEmail, issued'[t]}
    BY <1>1 DEF HopeInv, TokenInv
  <2>4. QED
    BY <1>1, <2>1, <2>2, <2>3 DEF TokenInv
<1>3. ASSUME NEW e \in Registered' \ verified', e \notin unlucky' PROVE Hopeful(e)'
  <2>1. e \in Registered \ verified /\ e \notin unlucky
    BY <1>1, <1>3 DEF Registered
  <2>2. Hopeful(e)
    BY <2>1 DEF HopeInv, NotStuckUnlessUnlucky
  <2>3. \A s \in Requests : pc[s] \in {"setToken", "update"} => pc'[s] = pc[s] /\ email'[s] = email[s]
    BY <1>1
  <2>4. QED
    BY <1>1, <2>2, <2>3 DEF Hopeful
<1>4. QED
  BY <1>2, <1>3 DEF HopeInv, NotStuckUnlessUnlucky

\* The link's deletion: whoever goes on to the row has the token's e-mail with him.
LEMMA DeleteHope ==
  ASSUME TypeInv, HopeInv, NEW r \in Requests, DeleteEmailToken(r), UNCHANGED unlucky
  PROVE  HopeInv'
<1> USE DEF tables, redis, mail
<1>1. pc[r] = "del" /\ token[r] \in Tokens /\ stored' = [stored EXCEPT ![token[r]] = NoEmail]
      /\ UNCHANGED <<tables, mail>>
  BY DEF DeleteEmailToken, TypeInv, LocalsOK
<1>2. CASE stored[token[r]] = NoEmail
  <2>1. stored' = stored
    BY <1>1, <1>2 DEF TypeInv, TypeOK
  <2>2. Return(r)
    BY <1>2 DEF DeleteEmailToken
  <2>3. QED
    BY <1>1, <2>1, <2>2, ReturnHope
<1>3. CASE stored[token[r]] # NoEmail
  <2>1. GoTo(r, "update")
    BY <1>3 DEF DeleteEmailToken
  <2>2. /\ pc'[r] = "update" /\ UNCHANGED <<email, token>>
        /\ \A s \in Requests \ {r} : pc'[s] = pc[s]
        /\ stored'[token[r]] = NoEmail /\ \A x \in Tokens \ {token[r]} : stored'[x] = stored[x]
    BY <1>1, <2>1 DEF GoTo, TypeInv, TypeOK
  <2>3. stored[token[r]] = issued[token[r]]
    BY <1>1, <1>3 DEF HopeInv, TokenInv
  <2>4. TokenInv'
    <3>1. \A s \in Requests \ {r} :
            /\ pc'[s] = "setToken" => email'[s] = issued'[token'[s]]
            /\ pc'[s] \in {"del", "update"} => email'[s] \in {issued'[token'[s]], Garbage}
            /\ pc'[s] = "del" /\ email'[s] = Garbage =>
                 stored'[token'[s]] = NoEmail \/ issued'[token'[s]] \in unlucky'
            /\ pc'[s] = "update" /\ email'[s] = Garbage => issued'[token'[s]] \in unlucky'
      BY <1>1, <2>2 DEF HopeInv, TokenInv, TypeInv, LocalsOK
    <3>2. /\ email'[r] \in {issued'[token'[r]], Garbage}
          /\ email'[r] = Garbage => issued'[token'[r]] \in unlucky'
      BY <1>1, <1>3, <2>2 DEF HopeInv, TokenInv
    <3>3. \A t \in Tokens : stored'[t] \in {NoEmail, issued'[t]}
      BY <1>1, <2>2 DEF HopeInv, TokenInv
    <3>4. QED
      BY <2>2, <3>1, <3>2, <3>3 DEF TokenInv
  <2>5. ASSUME NEW e \in Registered' \ verified', e \notin unlucky' PROVE Hopeful(e)'
    <3>1. e \in Registered \ verified /\ e \notin unlucky
      BY <1>1, <2>5 DEF Registered
    <3>2. CASE e = issued[token[r]]
      <4>1. email[r] = e
        BY <1>1, <1>3, <3>1, <3>2 DEF HopeInv, TokenInv
      <4>2. QED
        BY <2>2, <4>1 DEF Hopeful
    <3>3. CASE e # issued[token[r]] /\ \E s \in Requests : pc[s] \in {"setToken", "update"} /\ email[s] = e
      <4>1. PICK s \in Requests : pc[s] \in {"setToken", "update"} /\ email[s] = e
        BY <3>3
      <4>2. pc'[s] = pc[s] /\ email'[s] = email[s]
        BY <1>1, <2>2, <4>1
      <4>3. QED
        BY <4>1, <4>2 DEF Hopeful
    <3>4. CASE e # issued[token[r]] /\ \E x \in outbox \cup mailed : stored[x] = e
      <4>1. PICK x \in outbox \cup mailed : stored[x] = e
        BY <3>4
      <4>2. x \in Tokens /\ x # token[r]
        BY <2>3, <3>4, <4>1 DEF TypeInv, TypeOK
      <4>3. stored'[x] = e
        BY <2>2, <4>1, <4>2
      <4>4. QED
        BY <1>1, <4>1, <4>3 DEF Hopeful
    <3>5. Hopeful(e)
      BY <3>1 DEF HopeInv, NotStuckUnlessUnlucky
    <3>6. QED
      BY <3>2, <3>3, <3>4, <3>5 DEF Hopeful
  <2>6. QED
    BY <2>4, <2>5 DEF HopeInv, NotStuckUnlessUnlucky
<1>4. QED
  BY <1>2, <1>3

\* The registration's insertion and its token.
LEMMA InsertHope ==
  ASSUME TypeInv, OneUseInv, HopeInv, NEW r \in Requests, InsertUser(r), UNCHANGED unlucky
  PROVE  HopeInv'
<1> USE AccountsAssumption DEF tables, redis, mail
<1>1. CASE CanInsert(email[r], name[r])
  <2>1. PICK t \in Tokens : /\ issued[t] = NoEmail
                           /\ issued' = [issued EXCEPT ![t] = email[r]]
                           /\ token' = [token EXCEPT ![r] = t]
    BY <1>1 DEF InsertUser
  <2>2. /\ pc[r] = "insert" /\ pc'[r] = "setToken" /\ email' = email
        /\ \A s \in Requests \ {r} : pc'[s] = pc[s] /\ token'[s] = token[s]
        /\ token'[r] = t /\ issued'[t] = email[r] /\ email[r] \in Emails
        /\ \A x \in Tokens \ {t} : issued'[x] = issued[x]
        /\ user_name' = [user_name EXCEPT ![email[r]] = name[r]]
        /\ UNCHANGED <<verified, stored, outbox, mailed>>
    BY <1>1, <2>1 DEF InsertUser, TypeInv, TypeOK, LocalsOK
  <2>3. \A s \in Requests : pc[s] \in {"setToken", "del", "update"} => token[s] # t /\ token[s] \in Tokens
    BY <2>1 DEF OneUseInv, MailedOnce, TypeInv, LocalsOK
  <2>4. TokenInv'
    BY <2>1, <2>2, <2>3 DEF HopeInv, TokenInv
  <2>5. ASSUME NEW e \in Registered' \ verified', e \notin unlucky' PROVE Hopeful(e)'
    <3>1. CASE e = email[r]
      BY <2>2, <3>1 DEF Hopeful
    <3>2. CASE e # email[r]
      <4>1. e \in Registered \ verified /\ e \notin unlucky
        BY <2>2, <2>5, <3>2 DEF Registered, TypeInv, TypeOK
      <4>2. Hopeful(e)
        BY <4>1 DEF HopeInv, NotStuckUnlessUnlucky
      <4>3. QED
        BY <2>2, <4>2 DEF Hopeful
    <3>3. QED
      BY <3>1, <3>2
  <2>6. QED
    BY <2>4, <2>5 DEF HopeInv, NotStuckUnlessUnlucky
<1>2. CASE ~CanInsert(email[r], name[r])
  BY <1>2, ReturnHope DEF InsertUser
<1>3. QED
  BY <1>1, <1>2

\* The token is stored and its mail on its way, or its e-mail has bad luck.
LEMMA SetTokenHope ==
  ASSUME TypeInv, OneUseInv, HopeInv, NEW r \in Requests, NEW done \in BOOLEAN, SetEmailToken(r, done),
         unlucky \subseteq unlucky', ~done => issued[token[r]] \in unlucky'
  PROVE  HopeInv'
<1> USE DEF tables, redis, mail
<1>1. /\ pc[r] = "setToken" /\ token[r] \in Tokens /\ email[r] = issued[token[r]]
      /\ UNCHANGED <<tables, issued, mailed>> /\ outbox' = outbox \cup {token[r]}
      /\ stored' = IF done THEN [stored EXCEPT ![token[r]] = email[r]] ELSE stored
  BY DEF SetEmailToken, TypeInv, LocalsOK, HopeInv, TokenInv
<1>2. \A s \in Requests : pc'[s] # "idle" => /\ s # r /\ pc'[s] = pc[s] /\ email'[s] = email[s]
                                            /\ token'[s] = token[s]
  BY DEF SetEmailToken, Return, TypeInv, TypeOK
<1>3. \A s \in Requests \ {r} : pc'[s] = pc[s] /\ email'[s] = email[s]
  BY DEF SetEmailToken, Return, TypeInv, TypeOK
<1>4. \A s \in Requests : pc[s] = "del" => token[s] # token[r]
  BY <1>1 DEF OneUseInv, MailedOnce
<1>5. \A t \in Tokens : t # token[r] => stored'[t] = stored[t]
  BY <1>1 DEF TypeInv, TypeOK
<1>6. stored'[token[r]] = IF done THEN email[r] ELSE stored[token[r]]
  BY <1>1 DEF TypeInv, TypeOK
<1>7. TokenInv'
  BY <1>1, <1>2, <1>4, <1>5, <1>6 DEF HopeInv, TokenInv, TypeInv, LocalsOK
<1>8. ASSUME NEW e \in Registered' \ verified', e \notin unlucky' PROVE Hopeful(e)'
  <2>1. e \in Registered \ verified /\ e \notin unlucky
    BY <1>1, <1>8 DEF Registered
  <2>2. Hopeful(e)
    BY <2>1 DEF HopeInv, NotStuckUnlessUnlucky
  <2>3. CASE e = email[r]
    BY <1>1, <1>6, <1>8, <2>3 DEF Hopeful
  <2>4. CASE e # email[r] /\ \E s \in Requests : pc[s] \in {"setToken", "update"} /\ email[s] = e
    <3>1. PICK s \in Requests : pc[s] \in {"setToken", "update"} /\ email[s] = e
      BY <2>4
    <3>2. pc'[s] = pc[s] /\ email'[s] = email[s]
      BY <1>3, <2>4, <3>1
    <3>3. QED
      BY <3>1, <3>2 DEF Hopeful
  <2>5. CASE \E x \in outbox \cup mailed : stored[x] = e
    <3>1. PICK x \in outbox \cup mailed : stored[x] = e
      BY <2>5
    <3>2. x \in Tokens /\ x # token[r]
      BY <1>1, <3>1 DEF OneUseInv, MailedOnce, TypeInv, TypeOK
    <3>3. stored'[x] = e /\ x \in outbox' \cup mailed'
      BY <1>1, <1>5, <3>1, <3>2
    <3>4. QED
      BY <3>3 DEF Hopeful
  <2>6. QED
    BY <2>2, <2>3, <2>4, <2>5 DEF Hopeful
<1>9. QED
  BY <1>7, <1>8 DEF HopeInv, NotStuckUnlessUnlucky

\* Nobody who registers is left with a row that can never be verified, by
\* whatever interleaving of registrations and links, but for a call that failed or
\* a token that expired.
THEOREM Hope == FairHistorySpec => []NotStuckUnlessUnlucky
<1>1. HistoryInit => HopeInv
  BY DEF HistoryInit, Init, HopeInv, TokenInv, NotStuckUnlessUnlucky, Registered
<1>2. TypeInv /\ OneUseInv /\ HopeInv /\ [HistoryNext]_<<vars, unlucky>> => HopeInv'
  <2> SUFFICES ASSUME TypeInv, OneUseInv, HopeInv, [HistoryNext]_<<vars, unlucky>> PROVE HopeInv'
    OBVIOUS
  <2> USE DEF tables, redis, mail
  <2>1. ASSUME NEW r \in Requests, Ask(r), UNCHANGED unlucky PROVE HopeInv'
    <3>1. PICK e \in Emails \cup {NoEmail}, n \in UserNames, step \in {"insert", "selectVerified"} :
            Begin(r, e, n, NoToken, step)
      BY <2>1 DEF Ask, CreateUser, Login
    <3>2. QED
      BY <2>1, <3>1, GoOnHope DEF Begin, TypeInv, TypeOK
  <2>2. ASSUME NEW t \in Tokens, Follow(t), UNCHANGED unlucky PROVE HopeInv'
    BY <2>2, GoOnHope DEF Follow, VerifyUser, Begin, TypeInv, TypeOK
  <2>3. ASSUME NEW r \in Requests, UpdateVerified(r), UNCHANGED unlucky PROVE HopeInv'
    <3>1. pc[r] = "update" /\ verified' = verified \cup ({email[r]} \cap Registered) /\ Return(r)
      BY <2>3 DEF UpdateVerified
    <3>2. email[r] \in Registered => email[r] \in verified'
      BY <3>1
    <3>3. QED
      BY <2>3, <3>1, <3>2, ReturnHope DEF UpdateVerified
  <2>4. ASSUME NEW r \in Requests, SelectVerified(r) \/ SelectRow(r) \/ SetTunnelLogin(r),
               UNCHANGED unlucky
        PROVE  HopeInv'
    <3>1. /\ pc[r] \in {"selectVerified", "selectRow", "setSecret"}
          /\ UNCHANGED <<tables, stored, mail>>
      BY <2>4 DEF SelectVerified, SelectRow, SetTunnelLogin
    <3>2. CASE Return(r)
      BY <2>4, <3>1, <3>2, ReturnHope
    <3>3. CASE ~Return(r)
      <4>1. /\ pc'[r] \in {"selectRow", "setSecret"}
            /\ \A s \in Requests \ {r} : pc'[s] = pc[s] /\ email'[s] = email[s] /\ token'[s] = token[s]
        BY <2>4, <3>3 DEF SelectVerified, SelectRow, SetTunnelLogin, GoTo, TypeInv, TypeOK
      <4>2. QED
        BY <2>4, <3>1, <4>1, GoOnHope
    <3>4. QED
      BY <3>2, <3>3
  <2>5. ASSUME NEW r \in Requests, Work(r), UNCHANGED unlucky PROVE HopeInv'
    BY <2>3, <2>4, <2>5, InsertHope, SetTokenHope, GetHope, DeleteHope DEF Work
  <2>6. ASSUME NEW r \in Requests, CallFails(r), unlucky' = unlucky \cup Subject(r) PROVE HopeInv'
    <3>1. CASE pc[r] # "setToken" /\ Return(r) /\ UNCHANGED <<tables, redis, mail, sessions>>
      <4>1. pc[r] = "update" /\ email[r] \in Registered => email[r] \in unlucky'
        BY <2>6, AccountsAssumption DEF Subject, HopeInv, TokenInv, Registered
      <4>2. QED
        BY <2>6, <3>1, <4>1, ReturnHope
    <3>2. CASE SetEmailToken(r, FALSE)
      BY <2>6, <3>2, SetTokenHope DEF Subject, SetEmailToken
    <3>3. CASE GetEmailFromToken(r, FALSE)
      BY <2>6, <3>3, GetHope DEF Subject, GetEmailFromToken
    <3>4. CASE DeletedUnseen(r)
      <4>1. pc[r] = "del" /\ token[r] \in Tokens /\ Subject(r) = {issued[token[r]]}
        BY <3>4 DEF DeletedUnseen, Subject, TypeInv, LocalsOK
      <4>2. \A s \in Requests : \/ pc'[s] = pc[s] /\ email'[s] = email[s] /\ token'[s] = token[s]
                                \/ pc'[s] = "idle" /\ pc[s] = "del"
        BY <3>4, <4>1 DEF DeletedUnseen, Return, TypeInv, TypeOK
      <4>3. QED
        BY <2>6, <3>4, <4>1, <4>2, LostToken DEF DeletedUnseen
    <3>5. QED
      BY <2>6, <3>1, <3>2, <3>3, <3>4 DEF CallFails
  <2>7. ASSUME NEW t \in Tokens, NEW done \in BOOLEAN, SendMail(t, done),
               unlucky' = IF done THEN unlucky ELSE unlucky \cup {issued[t]}
        PROVE  HopeInv'
    <3>1. /\ outbox' = outbox \ {t} /\ mailed' = IF done THEN mailed \cup {t} ELSE mailed
          /\ UNCHANGED <<tables, stored, issued, pc, email, token>>
      BY <2>7 DEF SendMail, locals
    <3>2. TokenInv'
      BY <2>7, <3>1 DEF HopeInv, TokenInv
    <3>3. ASSUME NEW e \in Registered' \ verified', e \notin unlucky' PROVE Hopeful(e)'
      <4>1. e \in Registered \ verified /\ e \notin unlucky /\ e # NoEmail
        BY <2>7, <3>1, <3>3, AccountsAssumption DEF Registered
      <4>2. Hopeful(e)
        BY <4>1 DEF HopeInv, NotStuckUnlessUnlucky
      <4>3. ~done => stored[t] # e
        BY <2>7, <3>3, <4>1 DEF HopeInv, TokenInv
      <4>4. QED
        BY <3>1, <4>2, <4>3 DEF Hopeful
    <3>4. QED
      BY <3>2, <3>3 DEF HopeInv, NotStuckUnlessUnlucky
  <2>8. ASSUME NEW t \in Tokens, TokenExpires(t), unlucky' = unlucky \cup {issued[t]} PROVE HopeInv'
    BY <2>8, LostToken DEF TokenExpires, locals
  <2>9. ASSUME UNCHANGED <<user_name, verified, stored, mail, pc, email, token, unlucky>> PROVE HopeInv'
    BY <2>9 DEF HopeInv, TokenInv, NotStuckUnlessUnlucky, Registered, Hopeful
  <2>10. ASSUME NEW e \in Emails, LogOutUser(e) \/ SecretExpires(e), UNCHANGED unlucky PROVE HopeInv'
    BY <2>9, <2>10 DEF LogOutUser, SecretExpires, locals
  <2>11. ASSUME UNCHANGED <<vars, unlucky>> PROVE HopeInv'
    BY <2>9, <2>11 DEF vars, locals
  <2>12. QED
    BY <2>1, <2>2, <2>5, <2>6, <2>7, <2>8, <2>10, <2>11 DEF HistoryNext, MailFails
<1>3. HopeInv => NotStuckUnlessUnlucky
  BY DEF HopeInv
<1>4. QED
  BY <1>1, <1>2, <1>3, HistoryInvs, PTL DEF FairHistorySpec
=============================================================================
