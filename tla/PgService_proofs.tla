-------------------------- MODULE PgService_proofs --------------------------
(***************************************************************************)
(* Theorems about PgService for every set of users, names, databases and   *)
(* requests, every limit, and clients that leave anywhere.                 *)
(***************************************************************************)
EXTENDS MCPgService, FiniteSetTheorems, TLAPS

\* The end of a request, and its next call, keep the types.
LEMMA ReturnTypes ==
  ASSUME TypeOK, NEW r \in Requests, Return(r), UNCHANGED <<tables, server>>
  PROVE  TypeOK'
BY DEF TypeOK, Return, Forget, tables, server

\* A request's next call keeps the types, if it has a database to call for.
LEMMA GoToTypes ==
  ASSUME TypeOK, NEW r \in Requests, pc[r] # "idle", NEW step \in Steps, GoTo(r, step),
         step \in {"findPID", "countDbs", "insertDb", "createDb", "revoke",
                   "rowPID", "deleteDb", "dropDb"} => db[r] \in Dbs,
         UNCHANGED <<tables, server>>
  PROVE  TypeOK'
BY DEF TypeOK, GoTo, Steps, tables, server

\* Looking a pid up goes on with the pid of a row that is there, or ends.
LEMMA SelectTypes ==
  ASSUME TypeOK, NEW r \in Requests, NEW at \in Steps, NEW next \in Steps,
         SelectPID(r, at, next),
         next \in {"countDbs", "deleteDb"} => db[r] \in Dbs,
         next \in {"countDbs", "deleteDb", "listDbs"}
  PROVE  TypeOK'
<1>1. at # "idle"
  BY DEF Steps
<1>2. CASE Return(r)
  BY <1>2, ReturnTypes DEF SelectPID
<1>3. CASE Matches(r) /\ ~Return(r)
  BY <1>1, <1>3 DEF SelectPID, Matches, TypeOK, tables, server
<1>4. QED
  BY <1>2, <1>3 DEF SelectPID

\* Rows of databases have the row of their user, and a request's pid is that of
\* the present row of the name it works for.
THEOREM Typing == Spec => []TypeOK
<1>1. Init => TypeOK
  BY DEF Init, TypeOK
<1>2. TypeOK /\ [Next]_vars => TypeOK'
  <2> SUFFICES ASSUME TypeOK, [Next]_vars PROVE TypeOK'
    OBVIOUS
  <2> USE PgServiceAssumption DEF tables, server
  <2>1. ASSUME NEW r \in Requests, Ask(r) PROVE TypeOK'
    <3>1. ASSUME NEW u \in Users, NEW n \in Names, NEW d \in Dbs \cup {NoDb},
                 NEW step \in {"countUsers", "findPID", "listPID", "dropDb"},
                 step \in {"findPID", "dropDb"} => d \in Dbs, Begin(r, u, n, d, step)
          PROVE  TypeOK'
      BY <3>1 DEF Begin, TypeOK, Steps
    <3>2. QED
      BY <2>1, <3>1 DEF Ask, CreatePGUser, RemovePgUser, CreatePgDatabase, RemovePgDatabase
  <2>2. ASSUME NEW r \in Requests, CountUsers(r) \/ CountDbs(r) PROVE TypeOK'
    <3>1. CASE Return(r)
      BY <2>2, <3>1, ReturnTypes DEF CountUsers, CountDbs
    <3>2. CASE ~Return(r)
      BY <2>2, <3>2, GoToTypes DEF CountUsers, CountDbs, TypeOK, Steps
    <3>3. QED
      BY <3>1, <3>2
  <2>3. ASSUME NEW r \in Requests, InsertUser(r) PROVE TypeOK'
    <3>1. CASE owner[name[r]] = NoUser
      <4>1. pc[r] = "insertUser" /\ name[r] \in Names /\ uid[r] \in Users
        BY <2>3 DEF InsertUser, TypeOK
      <4>2. \A s \in linked : name[s] # name[r]
        BY <3>1 DEF TypeOK
      <4>3. QED
        BY <2>3, <3>1, <4>1, <4>2 DEF InsertUser, GoTo, TypeOK, Steps
    <3>2. CASE owner[name[r]] # NoUser
      BY <2>3, <3>2, ReturnTypes DEF InsertUser
    <3>3. QED
      BY <3>1, <3>2
  <2>4. ASSUME NEW r \in Requests, Revert(r), UNCHANGED <<tables, server>>,
               pc[r] \in {"createRole", "createDb", "revoke"}
        PROVE  TypeOK'
    BY <2>4, GoToTypes DEF Revert, TypeOK, Steps
  <2>5. ASSUME NEW r \in Requests, CreateRole(r) PROVE TypeOK'
    <3>1. CASE name[r] \notin role
      BY <2>5, <3>1 DEF CreateRole, Return, Forget, TypeOK
    <3>2. CASE name[r] \in role
      BY <2>4, <2>5, <3>2 DEF CreateRole
    <3>3. QED
      BY <3>1, <3>2
  <2>6. ASSUME NEW r \in Requests, DeleteUser(r) PROVE TypeOK'
    <3>1. CASE Matches(r)
      <4>1. name[r] \in Names
        BY <2>6 DEF DeleteUser, TypeOK
      <4>2. QED
        BY <2>6, <3>1, <4>1 DEF DeleteUser, Matches, Forget, TypeOK
    <3>2. CASE ~Matches(r)
      BY <2>6, <3>2, ReturnTypes DEF DeleteUser
    <3>3. QED
      BY <3>1, <3>2
  <2>7. ASSUME NEW r \in Requests, FindPID(r) \/ VerifyUser(r) \/ ListPID(r) PROVE TypeOK'
    BY <2>7, SelectTypes DEF FindPID, VerifyUser, ListPID, SelectPID, TypeOK, Steps
  <2>8. ASSUME NEW r \in Requests, InsertDb(r) PROVE TypeOK'
    <3>1. CASE r \in linked /\ db[r] \notin rows[name[r]]
      BY <2>8, <3>1 DEF InsertDb, GoTo, TypeOK, Steps
    <3>2. CASE r \notin linked \/ db[r] \in rows[name[r]]
      BY <2>8, <3>2, ReturnTypes DEF InsertDb
    <3>3. QED
      BY <3>1, <3>2
  <2>9. ASSUME NEW r \in Requests, CreateDb(r) PROVE TypeOK'
    <3>1. CASE CanCreateDb(r)
      BY <2>9, <3>1 DEF CreateDb, GoTo, TypeOK, Steps
    <3>2. CASE ~CanCreateDb(r)
      BY <2>4, <2>9, <3>2 DEF CreateDb
    <3>3. QED
      BY <3>1, <3>2
  <2>10. ASSUME NEW r \in Requests, RevokeConnect(r) \/ Leave(r) PROVE TypeOK'
    BY <2>10, ReturnTypes DEF RevokeConnect, Leave
  <2>11. ASSUME NEW r \in Requests, DeleteDb(r) PROVE TypeOK'
    BY <2>11 DEF DeleteDb, Return, Forget, TypeOK
  <2>12. ASSUME NEW r \in Requests, GetUserDatabases(r) PROVE TypeOK'
    BY <2>12 DEF GetUserDatabases, RowsOfPID, TypeOK, Steps
  <2>13. ASSUME NEW r \in Requests, DropListed(r) PROVE TypeOK'
    BY <2>13 DEF DropListed, TypeOK
  <2>14. ASSUME NEW r \in Requests, DropRole(r) PROVE TypeOK'
    <3>1. CASE OwnsNothing(name[r])
      BY <2>14, <3>1 DEF DropRole, GoTo, TypeOK, Steps
    <3>2. CASE ~OwnsNothing(name[r])
      BY <2>14, <3>2, ReturnTypes DEF DropRole
    <3>3. QED
      BY <3>1, <3>2
  <2>15. ASSUME NEW r \in Requests, DropDatabase(r) PROVE TypeOK'
    BY <2>15 DEF DropDatabase, GoTo, TypeOK, Steps
  <2>16. ASSUME NEW r \in Requests, CallFails(r) PROVE TypeOK'
    BY <2>4, <2>16, ReturnTypes DEF CallFails
  <2>17. ASSUME UNCHANGED vars PROVE TypeOK'
    BY <2>17 DEF vars, locals, TypeOK
  <2>18. QED
    BY <2>1, <2>2, <2>3, <2>5, <2>6, <2>7, <2>8, <2>9, <2>10, <2>11, <2>12, <2>13, <2>14, <2>15,
       <2>16, <2>17
    DEF Next, Work
<1>3. QED
  BY <1>1, <1>2, PTL DEF Spec

-----------------------------------------------------------------------------
\* What a request does about a pg user leaves all others as they are, but for the
\* databases it drops; and it leaves the other requests where they are.
Frame(r) ==
  /\ \A m \in Names \ {name[r]} :
       /\ owner'[m] = owner[m] /\ rows'[m] = rows[m] /\ (m \in role' <=> m \in role)
       /\ \A d \in Dbs : datdba'[d] = m => datdba[d] = m
  /\ \A s \in Requests \ {r} :
       /\ pc'[s] = pc[s] /\ uid'[s] = uid[s] /\ name'[s] = name[s] /\ db'[s] = db[s]
       /\ todo'[s] = todo[s]
       /\ name[s] # name[r] => (s \in linked' <=> s \in linked)

\* One that is at work keeps its pg user or forgets him.
LEMMA StepFrame ==
  ASSUME TypeOK, NEW r \in Requests, Ask(r) \/ Work(r) \/ CallFails(r) \/ Leave(r)
  PROVE  Frame(r) /\ (~Ask(r) => pc[r] # "idle" /\ name'[r] \in {name[r], NoName})
<1> DEFINE Locals == /\ \A s \in Requests \ {r} :
                          /\ pc'[s] = pc[s] /\ uid'[s] = uid[s] /\ name'[s] = name[s] /\ db'[s] = db[s]
                          /\ todo'[s] = todo[s]
                          /\ name[s] # name[r] => (s \in linked' <=> s \in linked)
                     /\ Ask(r) \/ name'[r] \in {name[r], NoName}
           Tables == \A m \in Names \ {name[r]} : owner'[m] = owner[m] /\ rows'[m] = rows[m]
           Server1 == \A m \in Names \ {name[r]} : /\ m \in role' <=> m \in role
                                                   /\ \A d \in Dbs : datdba'[d] = m => datdba[d] = m
<1>1. ASSUME Return(r) \/ (Forget(r) /\ linked' = {s \in linked : name[s] # name[r]}) PROVE Locals
  BY <1>1 DEF Return, Forget, TypeOK
<1>2. ASSUME NEW step, GoTo(r, step) PROVE Locals
  BY <1>2 DEF GoTo, TypeOK
<1> HIDE DEF Locals
<1>3. CASE Ask(r)
  BY <1>3
  DEF Ask, CreatePGUser, RemovePgUser, CreatePgDatabase, RemovePgDatabase, Begin, TypeOK, tables, server, Frame
<1>4. CASE CallFails(r) \/ Leave(r)
  <2>1. Locals
    BY <1>1, <1>2, <1>4 DEF CallFails, Leave, Revert
  <2>2. pc[r] # "idle"
    BY <1>4, PgServiceAssumption DEF CallFails, Leave, Steps
  <2>3. QED
    BY <1>4, <2>1, <2>2 DEF CallFails, Leave, tables, server, Frame, Locals
<1>5. CASE Work(r)
  <2>1. pc[r] # "idle"
    BY <1>5
    DEF Work, CountUsers, InsertUser, CreateRole, DeleteUser, FindPID, CountDbs, InsertDb, CreateDb,
        RevokeConnect, VerifyUser, DeleteDb, ListPID, SelectPID, GetUserDatabases, DropListed,
        DropRole, DropDatabase
  <2>2. Locals
    <3> SUFFICES Locals
      OBVIOUS
    <3>1. CASE FindPID(r) \/ VerifyUser(r) \/ ListPID(r)
      <4>1. CASE Return(r)
        BY <1>1, <4>1
      <4>2. CASE ~Return(r)
        BY <3>1, <4>2 DEF FindPID, VerifyUser, ListPID, SelectPID, TypeOK, Locals
      <4>3. QED
        BY <4>1, <4>2
    <3>2. CASE GetUserDatabases(r) \/ DropListed(r)
      BY <3>2 DEF GetUserDatabases, DropListed, TypeOK, Locals
    <3>3. QED
      BY <1>1, <1>2, <1>5, <3>1, <3>2
      DEF Work, CountUsers, InsertUser, CreateRole, Revert, DeleteUser, CountDbs, InsertDb, CreateDb,
          RevokeConnect, DeleteDb, DropRole, DropDatabase
  <2>3. Tables
    BY <1>5, <2>1
    DEF Work, CountUsers, InsertUser, CreateRole, DeleteUser, FindPID, CountDbs, InsertDb, CreateDb,
        RevokeConnect, VerifyUser, DeleteDb, ListPID, SelectPID, GetUserDatabases, DropListed,
        DropRole, DropDatabase, TypeOK, tables
  <2>4. Server1
    BY <1>5, <2>1, PgServiceAssumption
    DEF Work, CountUsers, InsertUser, CreateRole, DeleteUser, FindPID, CountDbs, InsertDb, CreateDb,
        RevokeConnect, VerifyUser, DeleteDb, ListPID, SelectPID, GetUserDatabases, DropListed,
        DropRole, DropDatabase, TypeOK, server
  <2>5. QED
    BY <2>1, <2>2, <2>3, <2>4 DEF Frame, Locals, Ask, CreatePGUser, RemovePgUser, CreatePgDatabase,
       RemovePgDatabase, Begin
<1>6. QED
  BY <1>3, <1>4, <1>5

-----------------------------------------------------------------------------
\* The requests about pg user n come one after the other.
InTurn(n) == \A r, s \in Requests : name[r] = n /\ name[s] = n => r = s

\* What a request at work knows of its pg user: a role or a database is created under
\* its row, and a row goes when nothing is left.
UnderWay(r) ==
  /\ pc[r] = "createRole" => owner[name[r]] # NoUser
  /\ pc[r] \in {"createRole", "deleteUser"} => name[r] \notin role /\ OwnsNothing(name[r])
  /\ pc[r] = "createDb" => db[r] \in rows[name[r]]
  /\ pc[r] \in {"createDb", "rowPID", "deleteDb"} => datdba[db[r]] # name[r]

OrphanInv(n) == InTurn(n) /\ NoOrphan(n) /\ \A r \in Requests : name[r] = n => UnderWay(r)

\* Requests about other pg users ...
LEMMA OthersOrphan ==
  ASSUME TypeOK, NEW n \in Names, OrphanInv(n), NEW r \in Requests, Frame(r),
         name[r] # n, name'[r] # n
  PROVE  OrphanInv(n)'
BY DEF TypeOK, OrphanInv, InTurn, UnderWay, NoOrphan, OwnsNothing, Frame

\* ... and new ones change nothing of n.
LEMMA AskOrphan ==
  ASSUME TypeOK, NEW n \in Names, OrphanInv(n), NEW r \in Requests, Ask(r), InTurn(n)'
  PROVE  OrphanInv(n)'
<1>1. /\ UNCHANGED <<owner, rows, role, datdba>>
      /\ pc'[r] \in {"countUsers", "findPID", "listPID", "dropDb"}
      /\ \A s \in Requests \ {r} : pc'[s] = pc[s] /\ name'[s] = name[s] /\ db'[s] = db[s]
  BY DEF Ask, CreatePGUser, RemovePgUser, CreatePgDatabase, RemovePgDatabase, Begin, TypeOK, tables, server
<1>2. NoOrphan(n)'
  BY <1>1 DEF OrphanInv, NoOrphan
<1>3. ASSUME NEW s \in Requests, name'[s] = n PROVE UnderWay(s)'
  BY <1>1, <1>3 DEF OrphanInv, UnderWay, OwnsNothing
<1>4. QED
  BY <1>2, <1>3 DEF OrphanInv

\* What the request about n has done so far decides what it may do next.
LEMMA OwnOrphan ==
  ASSUME TypeOK, NEW n \in Names, OrphanInv(n), NEW r \in Requests, name[r] = n,
         Work(r) \/ CallFails(r) \/ Leave(r), ~RevertsRevoke(r)
  PROVE  OrphanInv(n)'
<1> USE PgServiceAssumption DEF tables, server
<1> DEFINE Good == NoOrphan(n)' /\ (pc'[r] # "idle" => UnderWay(r)')
<1>0. Frame(r) /\ name'[r] \in {n, NoName}
  <2>1. ~Ask(r)
    <3>1. pc[r] # "idle"
      BY DEF Work, CountUsers, InsertUser, CreateRole, DeleteUser, FindPID, CountDbs, InsertDb, CreateDb,
          RevokeConnect, VerifyUser, DeleteDb, ListPID, SelectPID, GetUserDatabases, DropListed,
          DropRole, DropDatabase, CallFails, Leave, Steps
    <3>2. QED
      BY <3>1 DEF Ask, CreatePGUser, RemovePgUser, CreatePgDatabase, RemovePgDatabase, Begin
  <2>2. QED
    BY <2>1, StepFrame
<1>1. NoOrphan(n) /\ UnderWay(r) /\ \A s \in Requests \ {r} : name[s] # n
  BY DEF OrphanInv, InTurn
<1> SUFFICES Good
  BY <1>0, <1>1 DEF OrphanInv, InTurn, Frame, UnderWay
<1>2. ASSUME Return(r), UNCHANGED <<tables, server>> PROVE Good
  BY <1>1, <1>2 DEF NoOrphan, Return, Forget, TypeOK
<1>3. ASSUME NEW step, GoTo(r, step), UNCHANGED <<tables, server>>, pc[r] \in Steps,
             step \notin {"createRole", "createDb"},
             step = "deleteUser" => n \notin role /\ OwnsNothing(n),
             step \in {"rowPID", "deleteDb"} => datdba[db[r]] # n
      PROVE  Good
  BY <1>1, <1>3 DEF NoOrphan, UnderWay, OwnsNothing, GoTo, TypeOK
<1>4. ASSUME Revert(r), UNCHANGED <<tables, server>>, pc[r] \in {"createRole", "createDb"} PROVE Good
  BY <1>1, <1>3, <1>4 DEF Revert, UnderWay, Steps
<1>5. CASE CountUsers(r) \/ CountDbs(r)
  BY <1>2, <1>3, <1>5 DEF CountUsers, CountDbs, Steps
<1>6. CASE InsertUser(r)
  <2>1. CASE owner[n] = NoUser
    <3>1. n \notin role /\ OwnsNothing(n)
      BY <1>1, <2>1 DEF NoOrphan, OwnsNothing, TypeOK
    <3>2. uid[r] # NoUser
      BY <1>6 DEF InsertUser, TypeOK
    <3>3. QED
      BY <1>1, <1>6, <2>1, <3>1, <3>2 DEF InsertUser, GoTo, NoOrphan, UnderWay, OwnsNothing, TypeOK
  <2>2. CASE owner[n] # NoUser
    BY <1>2, <1>6, <2>2 DEF InsertUser
  <2>3. QED
    BY <2>1, <2>2
<1>7. CASE CreateRole(r)
  <2>1. CASE n \notin role
    BY <1>1, <1>7, <2>1 DEF CreateRole, NoOrphan, UnderWay, Return, Forget, TypeOK
  <2>2. CASE n \in role
    BY <1>4, <1>7, <2>2 DEF CreateRole
  <2>3. QED
    BY <2>1, <2>2
<1>8. CASE DeleteUser(r)
  <2>1. CASE Matches(r)
    BY <1>1, <1>8, <2>1 DEF DeleteUser, NoOrphan, UnderWay, OwnsNothing, Forget, TypeOK
  <2>2. CASE ~Matches(r)
    BY <1>2, <1>8, <2>2 DEF DeleteUser
  <2>3. QED
    BY <2>1, <2>2
<1>9. CASE FindPID(r) \/ VerifyUser(r) \/ ListPID(r)
  <2>1. CASE Return(r)
    BY <1>2, <1>9, <2>1 DEF FindPID, VerifyUser, ListPID, SelectPID
  <2>2. CASE ~Return(r)
    BY <1>1, <1>9, <2>2 DEF FindPID, VerifyUser, ListPID, SelectPID, NoOrphan, UnderWay, OwnsNothing, TypeOK
  <2>3. QED
    BY <2>1, <2>2
<1>10. CASE InsertDb(r)
  <2>1. CASE r \in linked /\ db[r] \notin rows[n]
    <3>1. db[r] \in Dbs /\ pc[r] = "insertDb"
      BY <1>10 DEF InsertDb, TypeOK
    <3>2. datdba[db[r]] # n
      BY <1>1, <2>1, <3>1 DEF NoOrphan
    <3>3. QED
      BY <1>1, <1>10, <2>1, <3>1, <3>2 DEF InsertDb, GoTo, NoOrphan, UnderWay, TypeOK
  <2>2. CASE r \notin linked \/ db[r] \in rows[n]
    BY <1>2, <1>10, <2>2 DEF InsertDb
  <2>3. QED
    BY <2>1, <2>2
<1>11. CASE CreateDb(r)
  <2>1. CASE CanCreateDb(r)
    BY <1>1, <1>11, <2>1 DEF CreateDb, GoTo, NoOrphan, UnderWay, TypeOK
  <2>2. CASE ~CanCreateDb(r)
    BY <1>4, <1>11, <2>2 DEF CreateDb
  <2>3. QED
    BY <2>1, <2>2
<1>12. CASE RevokeConnect(r) \/ Leave(r)
  BY <1>2, <1>12 DEF RevokeConnect, Leave
<1>13. CASE DeleteDb(r)
  BY <1>1, <1>13 DEF DeleteDb, NoOrphan, UnderWay, Return, Forget, TypeOK
<1>14. CASE GetUserDatabases(r)
  BY <1>1, <1>14 DEF GetUserDatabases, NoOrphan, UnderWay, TypeOK
<1>15. CASE DropListed(r)
  BY <1>1, <1>15 DEF DropListed, NoOrphan, UnderWay, OwnsNothing, TypeOK
<1>16. CASE DropRole(r)
  <2>1. CASE OwnsNothing(n)
    BY <1>1, <1>16, <2>1 DEF DropRole, GoTo, NoOrphan, UnderWay, OwnsNothing, TypeOK
  <2>2. CASE ~OwnsNothing(n)
    BY <1>2, <1>16, <2>2 DEF DropRole
  <2>3. QED
    BY <2>1, <2>2
<1>17. CASE DropDatabase(r)
  BY <1>1, <1>17 DEF DropDatabase, GoTo, NoOrphan, UnderWay, OwnsNothing, TypeOK
<1>18. CASE CallFails(r)
  <2>1. CASE Return(r)
    BY <1>2, <1>18, <2>1 DEF CallFails
  <2>2. CASE ~Return(r)
    <3>1. pc[r] \in {"createRole", "createDb", "revoke"} /\ Revert(r) /\ UNCHANGED <<tables, server>>
      BY <1>18, <2>2 DEF CallFails
    <3>2. pc[r] # "revoke"
      BY <3>1 DEF RevertsRevoke, Revert, GoTo, TypeOK
    <3>3. QED
      BY <1>4, <3>1, <3>2
  <2>3. QED
    BY <2>1, <2>2
<1>19. QED
  BY <1>5, <1>6, <1>7, <1>8, <1>9, <1>10, <1>11, <1>12, <1>13, <1>14, <1>15, <1>16, <1>17, <1>18 DEF Work

\* With its history the system does what it does without.
LEMMA HistoryTypes == HistorySpec => []TypeOK
<1>1. HistoryInit => Init
  BY DEF HistoryInit
<1>2. [HistoryNext]_<<vars, history>> => [Next]_vars
  BY DEF HistoryNext, Next
<1>3. QED
  BY <1>1, <1>2, Typing, PTL DEF HistorySpec, Spec

\* The inductive invariant behind Orphans and Refinement.
OrphansInv == \A n \in Names \ troubled : OrphanInv(n)

LEMMA OrphansInvHolds == HistorySpec => []OrphansInv
<1>1. HistoryInit => OrphansInv
  BY PgServiceAssumption DEF HistoryInit, Init, OrphansInv, OrphanInv, InTurn, UnderWay, NoOrphan
<1>2. TypeOK /\ OrphansInv /\ [HistoryNext]_<<vars, history>> => OrphansInv'
  <2> SUFFICES ASSUME TypeOK, OrphansInv, [HistoryNext]_<<vars, history>>, NEW n \in Names \ troubled'
               PROVE  OrphanInv(n)'
    BY DEF OrphansInv
  <2>1. CASE HistoryNext
    <3>1. PICK r \in Requests :
            /\ Ask(r) \/ Work(r) \/ CallFails(r) \/ Leave(r)
            /\ troubled' = troubled \cup Shared(Names, name') \cup {m \in {name[r]} : RevertsRevoke(r)}
      BY <2>1 DEF HistoryNext
    <3>2. n \notin troubled /\ n \notin Shared(Names, name') /\ (name[r] = n => ~RevertsRevoke(r))
      BY <3>1
    <3>3. OrphanInv(n) /\ InTurn(n)'
      BY <3>2 DEF OrphansInv, Shared, InTurn
    <3>4. CASE Ask(r)
      BY <3>3, <3>4, AskOrphan
    <3>5. CASE ~Ask(r) /\ name[r] = n
      BY <3>1, <3>2, <3>3, <3>5, OwnOrphan
    <3>6. CASE ~Ask(r) /\ name[r] # n
      <4>1. Frame(r) /\ name'[r] # n
        BY <3>1, <3>6, StepFrame, PgServiceAssumption
      <4>2. QED
        BY <3>3, <3>6, <4>1, OthersOrphan
    <3>7. QED
      BY <3>4, <3>5, <3>6
  <2>2. CASE UNCHANGED <<vars, history>>
    BY <2>2
    DEF vars, tables, server, locals, history, OrphansInv, OrphanInv, InTurn, UnderWay, NoOrphan, OwnsNothing
  <2>3. QED
    BY <2>1, <2>2
<1>3. QED
  BY <1>1, <1>2, HistoryTypes, PTL DEF HistorySpec

\* Nothing exists on the shared server that no row speaks of, whatever statement is
\* refused, wherever clients leave and whatever requests about other pg users do: until
\* two requests about its pg user are at work at once, or his REVOKE is refused.
THEOREM Orphans == HistorySpec => []NoOrphanUnlessTroubled
<1>1. OrphansInv => NoOrphanUnlessTroubled
  BY DEF OrphansInv, OrphanInv, NoOrphanUnlessTroubled
<1>2. QED
  BY <1>1, OrphansInvHolds, PTL

-----------------------------------------------------------------------------
\* What the mirror sees does not change with what it does not speak of.
LEMMA SameRegistered ==
  ASSUME NEW n, owner'[n] = NoUser <=> owner[n] = NoUser, rows'[n] = rows[n]
  PROVE  Registered(n)' = Registered(n)
BY DEF Registered

\* What exists on the server is unchanged if no role and no owner changes.
LEMMA SamePresent ==
  ASSUME NEW n, n \in role' <=> n \in role, \A d \in Dbs : datdba'[d] = n <=> datdba[d] = n
  PROVE  Present(n)' = Present(n)
BY DEF Present

\* DROP DATABASE, whoever asks for it and whosever the database is.
LEMMA DropMirrored ==
  ASSUME TypeOK, NEW n \in Names, NEW d \in Dbs, datdba' = [datdba EXCEPT ![d] = NoName],
         UNCHANGED <<owner, rows, role>>
  PROVE  [Server(n)!Next]_<<Registered(n), Present(n)>>
<1>1. Registered(n)' = Registered(n)
  BY SameRegistered
<1>2. CASE datdba[d] = n
  <2> DEFINE x == <<n, d>>
  <2>1. x \in Present(n) /\ x \in ThingsOf(n)
    BY <1>2 DEF Present, ThingsOf
  <2>2. Present(n)' = Present(n) \ {x}
    <3>1. \A e \in Dbs : datdba'[e] = n <=> datdba[e] = n /\ e # d
      BY PgServiceAssumption DEF TypeOK
    <3>2. x # <<n>>
      OBVIOUS
    <3>3. \A p \in {n} \X Dbs : p = <<n, p[2]>> /\ (p = x <=> p[2] = d)
      OBVIOUS
    <3>4. QED
      BY <3>1, <3>2, <3>3 DEF Present
  <2>3. Server(n)!Drop(x)
    BY <1>1, <2>1, <2>2 DEF Server!Drop
  <2>4. QED
    BY <2>1, <2>3 DEF Server!Next
<1>3. CASE datdba[d] # n
  <2>1. Present(n)' = Present(n)
    BY <1>3, PgServiceAssumption, SamePresent DEF TypeOK
  <2>2. QED
    BY <1>1, <2>1
<1>4. QED
  BY <1>2, <1>3

\* A request about another pg user leaves the mirror of n alone, or drops one database.
LEMMA OthersMirrored ==
  ASSUME TypeOK, NEW n \in Names, NEW r \in Requests, Work(r), name[r] # n
  PROVE  [Server(n)!Next]_<<Registered(n), Present(n)>>
<1>1. CASE DropListed(r) \/ DropDatabase(r)
  <2>1. PICK d \in Dbs : datdba' = [datdba EXCEPT ![d] = NoName] /\ UNCHANGED <<owner, rows, role>>
    BY <1>1 DEF DropListed, DropDatabase, TypeOK, tables
  <2>2. QED
    BY <2>1, DropMirrored
<1>2. CASE ~(DropListed(r) \/ DropDatabase(r))
  <2>1. Frame(r)
    BY StepFrame
  <2>2. \A d \in Dbs : datdba[d] = n => datdba'[d] = n
    <3>1. CASE CreateDb(r)
      BY <3>1, PgServiceAssumption DEF CreateDb, CanCreateDb, TypeOK
    <3>2. CASE ~CreateDb(r)
      BY <1>2, <3>2
      DEF Work, CountUsers, InsertUser, CreateRole, DeleteUser, FindPID, CountDbs, InsertDb,
          RevokeConnect, VerifyUser, DeleteDb, ListPID, SelectPID, GetUserDatabases, DropRole, server
    <3>3. QED
      BY <3>1, <3>2
  <2>3. Registered(n)' = Registered(n) /\ Present(n)' = Present(n)
    BY <2>1, <2>2, SameRegistered, SamePresent DEF Frame
  <2>4. QED
    BY <2>3
<1>3. QED
  BY <1>1, <1>2

\* A request about n registers, creates, drops or unregisters, or changes nothing.
LEMMA OwnMirrored ==
  ASSUME TypeOK, NEW n \in Names, OrphanInv(n), NEW r \in Requests, Work(r), name[r] = n
  PROVE  [Server(n)!Next]_<<Registered(n), Present(n)>>
<1> USE PgServiceAssumption DEF tables, server
<1> DEFINE Kept == [Server(n)!Next]_<<Registered(n), Present(n)>>
<1> SUFFICES Kept
  OBVIOUS
<1>0. ASSUME UNCHANGED <<tables, server>> PROVE Kept
  BY <1>0, SameRegistered, SamePresent
<1>a. UnderWay(r)
  BY DEF OrphanInv
<1> HIDE DEF Kept
<1>1. CASE InsertUser(r)
  <2>1. CASE owner[n] = NoUser
    <3>1. uid[r] \in Users /\ owner' = [owner EXCEPT ![n] = uid[r]] /\ UNCHANGED <<rows, server>>
      BY <1>1, <2>1 DEF InsertUser, TypeOK
    <3>2. Present(n)' = Present(n)
      BY <3>1, SamePresent
    <3>3. <<n>> \in ThingsOf(n) /\ <<n>> \notin Registered(n)
      BY <2>1 DEF ThingsOf, Registered
    <3>4. Registered(n)' = Registered(n) \cup {<<n>>}
      BY <3>1 DEF Registered, TypeOK
    <3>5. Server(n)!Register(<<n>>)
      BY <3>2, <3>3, <3>4 DEF Server!Register
    <3>6. QED
      BY <3>3, <3>5 DEF Server!Next, Kept
  <2>2. CASE owner[n] # NoUser
    BY <1>0, <1>1, <2>2 DEF InsertUser
  <2>3. QED
    BY <2>1, <2>2
<1>2. CASE CreateRole(r)
  <2>1. CASE n \notin role
    <3>1. pc[r] = "createRole" /\ role' = role \cup {n} /\ UNCHANGED <<tables, datdba>>
      BY <1>2, <2>1 DEF CreateRole, TypeOK
    <3>2. Registered(n)' = Registered(n)
      BY <3>1, SameRegistered
    <3>3. <<n>> \in ThingsOf(n) /\ <<n>> \in Registered(n) \ Present(n)
      BY <1>a, <2>1, <3>1 DEF ThingsOf, Registered, Present, UnderWay
    <3>4. Present(n)' = Present(n) \cup {<<n>>}
      BY <3>1 DEF Present
    <3>5. Server(n)!Create(<<n>>)
      BY <3>2, <3>3, <3>4 DEF Server!Create
    <3>6. QED
      BY <3>3, <3>5 DEF Server!Next, Kept
  <2>2. CASE n \in role
    BY <1>0, <1>2, <2>2 DEF CreateRole
  <2>3. QED
    BY <2>1, <2>2
<1>3. CASE DeleteUser(r)
  <2>1. CASE Matches(r)
    <3>1. /\ owner[n] # NoUser
          /\ owner' = [owner EXCEPT ![n] = NoUser]
          /\ rows' = [rows EXCEPT ![n] = {}]
          /\ UNCHANGED server
      BY <1>3, <2>1 DEF DeleteUser, Matches, TypeOK
    <3>2. Present(n)' = Present(n)
      BY <3>1, SamePresent
    <3>3. n \notin role /\ OwnsNothing(n)
      BY <1>3, <1>a DEF DeleteUser, UnderWay
    <3>4. Registered(n) \in SUBSET ThingsOf(n) /\ Registered(n) \cap Present(n) = {}
      BY <3>3 DEF ThingsOf, Registered, Present, OwnsNothing, TypeOK
    <3>5. Registered(n)' = Registered(n) \ Registered(n)
      BY <3>1 DEF Registered, TypeOK
    <3>6. Server(n)!Unregister(Registered(n))
      BY <3>2, <3>4, <3>5 DEF Server!Unregister
    <3>7. QED
      BY <3>4, <3>6 DEF Server!Next, Kept
  <2>2. CASE ~Matches(r)
    BY <1>0, <1>3, <2>2 DEF DeleteUser
  <2>3. QED
    BY <2>1, <2>2
<1>4. CASE InsertDb(r)
  <2> DEFINE x == <<n, db[r]>>
  <2>1. CASE r \in linked /\ db[r] \notin rows[n]
    <3>1. db[r] \in Dbs /\ rows' = [rows EXCEPT ![n] = @ \cup {db[r]}] /\ UNCHANGED <<owner, server>>
      BY <1>4, <2>1 DEF InsertDb, TypeOK
    <3>2. Present(n)' = Present(n)
      BY <3>1, SamePresent
    <3>3. x \in ThingsOf(n) /\ x \notin Registered(n)
      BY <2>1, <3>1 DEF ThingsOf, Registered
    <3>4. Registered(n)' = Registered(n) \cup {x}
      BY <3>1 DEF Registered, TypeOK
    <3>5. Server(n)!Register(x)
      BY <3>2, <3>3, <3>4 DEF Server!Register
    <3>6. QED
      BY <3>3, <3>5 DEF Server!Next, Kept
  <2>2. CASE r \notin linked \/ db[r] \in rows[n]
    BY <1>0, <1>4, <2>2 DEF InsertDb
  <2>3. QED
    BY <2>1, <2>2
<1>5. CASE CreateDb(r)
  <2> DEFINE x == <<n, db[r]>>
  <2>1. CASE CanCreateDb(r)
    <3>1. /\ db[r] \in Dbs /\ pc[r] = "createDb" /\ datdba[db[r]] = NoName
          /\ datdba' = [datdba EXCEPT ![db[r]] = n]
          /\ UNCHANGED <<tables, role>>
      BY <1>5, <2>1 DEF CreateDb, CanCreateDb, TypeOK
    <3>2. Registered(n)' = Registered(n)
      BY <3>1, SameRegistered
    <3>3. x \in ThingsOf(n) /\ x \in Registered(n) \ Present(n)
      BY <1>a, <3>1 DEF ThingsOf, Registered, Present, UnderWay
    <3>4. Present(n)' = Present(n) \cup {x}
      BY <3>1 DEF Present, TypeOK
    <3>5. Server(n)!Create(x)
      BY <3>2, <3>3, <3>4 DEF Server!Create
    <3>6. QED
      BY <3>3, <3>5 DEF Server!Next, Kept
  <2>2. CASE ~CanCreateDb(r)
    BY <1>0, <1>5, <2>2 DEF CreateDb
  <2>3. QED
    BY <2>1, <2>2
<1>6. CASE DeleteDb(r)
  <2> DEFINE x == <<n, db[r]>>
  <2>1. db[r] \in Dbs /\ pc[r] = "deleteDb" /\ UNCHANGED <<owner, server>>
    BY <1>6 DEF DeleteDb, TypeOK
  <2>2. CASE r \in linked /\ db[r] \in rows[n]
    <3>1. rows' = [rows EXCEPT ![n] = @ \ {db[r]}]
      BY <1>6, <2>2 DEF DeleteDb
    <3>2. {x} \in SUBSET ThingsOf(n) /\ {x} \subseteq Registered(n)
      BY <2>1, <2>2 DEF ThingsOf, Registered
    <3>3. {x} \cap Present(n) = {}
      BY <1>a, <2>1 DEF Present, UnderWay
    <3>4. Registered(n)' = Registered(n) \ {x}
      BY <2>1, <3>1 DEF Registered, TypeOK
    <3>5. Present(n)' = Present(n)
      BY <2>1, SamePresent
    <3>6. Server(n)!Unregister({x})
      BY <3>2, <3>3, <3>4, <3>5 DEF Server!Unregister
    <3>7. QED
      BY <3>2, <3>6 DEF Server!Next, Kept
  <2>3. CASE ~(r \in linked /\ db[r] \in rows[n])
    <3>1. rows' = IF r \in linked THEN [rows EXCEPT ![n] = @ \ {db[r]}] ELSE rows
      BY <1>6 DEF DeleteDb
    <3>2. rows[n] \ {db[r]} = rows[n] \/ r \notin linked
      BY <2>3
    <3>3. rows' = rows
      BY <2>1, <3>1, <3>2 DEF TypeOK
    <3>4. QED
      BY <1>0, <2>1, <3>3
  <2>4. QED
    BY <2>2, <2>3
<1>7. CASE DropListed(r) \/ DropDatabase(r)
  <2>1. pc[r] = "dropDb" => db[r] \in Dbs
    BY DEF TypeOK
  <2>2. QED
    BY <1>7, <2>1, DropMirrored DEF DropListed, DropDatabase, TypeOK, Kept
<1>8. CASE DropRole(r)
  <2>1. CASE OwnsNothing(n) /\ n \in role
    <3>1. role' = role \ {n} /\ UNCHANGED <<tables, datdba>>
      BY <1>8, <2>1 DEF DropRole
    <3>2. Registered(n)' = Registered(n)
      BY <3>1, SameRegistered
    <3>3. <<n>> \in ThingsOf(n) /\ <<n>> \in Present(n)
      BY <2>1 DEF ThingsOf, Present
    <3>4. Present(n)' = Present(n) \ {<<n>>}
      BY <3>1 DEF Present
    <3>5. Server(n)!Drop(<<n>>)
      BY <3>2, <3>3, <3>4 DEF Server!Drop
    <3>6. QED
      BY <3>3, <3>5 DEF Server!Next, Kept
  <2>2. CASE ~(OwnsNothing(n) /\ n \in role)
    <3>1. role \ {n} = role \/ ~OwnsNothing(n)
      BY <2>2
    <3>2. QED
      BY <1>0, <1>8, <3>1 DEF DropRole
  <2>3. QED
    BY <2>1, <2>2
<1>9. CASE CountUsers(r) \/ CountDbs(r) \/ RevokeConnect(r) \/ GetUserDatabases(r)
           \/ FindPID(r) \/ VerifyUser(r) \/ ListPID(r)
  BY <1>0, <1>9 DEF CountUsers, CountDbs, RevokeConnect, GetUserDatabases, FindPID, VerifyUser, ListPID, SelectPID
<1>10. QED
  BY <1>1, <1>2, <1>3, <1>4, <1>5, <1>6, <1>7, <1>8, <1>9 DEF Work

\* Until then the handlers keep the rows about each pg user a mirror of the server: a thing is
\* registered before it is created, and dropped before its registration goes.
THEOREM Refinement == HistorySpec => ImplementsMirrorUnlessTroubled
<1> DEFINE Mirrored == \A n \in Names \ troubled' : [Server(n)!Next]_<<Registered(n), Present(n)>>
<1>1. HistoryInit => \A n \in Names : Server(n)!Init
  BY PgServiceAssumption DEF HistoryInit, Init, Server!Init, Registered, Present
<1>2. TypeOK /\ OrphansInv /\ [HistoryNext]_<<vars, history>> => [Mirrored]_<<tables, server>>
  <2> SUFFICES ASSUME TypeOK, OrphansInv, HistoryNext, NEW n \in Names \ troubled'
               PROVE  [Server(n)!Next]_<<Registered(n), Present(n)>>
    BY DEF vars
  <2>1. PICK r \in Requests : /\ Ask(r) \/ Work(r) \/ CallFails(r) \/ Leave(r)
                              /\ troubled \subseteq troubled'
    BY DEF HistoryNext
  <2>2. OrphanInv(n)
    BY <2>1 DEF OrphansInv
  <2>3. CASE Work(r)
    BY <2>2, <2>3, OwnMirrored, OthersMirrored
  <2>4. CASE ~Work(r)
    <3>1. UNCHANGED <<tables, server>>
      BY <2>1, <2>4
      DEF Ask, CreatePGUser, RemovePgUser, CreatePgDatabase, RemovePgDatabase, Begin, CallFails, Leave
    <3>2. UNCHANGED <<Registered(n), Present(n)>>
      BY <3>1, SameRegistered, SamePresent DEF tables, server
    <3>3. QED
      BY <3>2
  <2>5. QED
    BY <2>3, <2>4
<1>3. QED
  BY <1>1, <1>2, HistoryTypes, OrphansInvHolds, PTL DEF HistorySpec, ImplementsMirrorUnlessTroubled
-----------------------------------------------------------------------------
\* A request that was let past the count still finds room when it inserts.
RoomInv(u) ==
  /\ UserLimitHolds(u)
  /\ \A r \in Requests : pc[r] = "insertUser" /\ uid[r] = u => Count(u) < UserLimit

\* The requests of account u come one after the other.
UserInTurn(u) == \A r, s \in Requests : uid[r] = u /\ uid[s] = u => r = s

OwnedBy(u) == {n \in Names : owner[n] = u}

\* The pg users of an account can be counted.
LEMMA CountType ==
  ASSUME IsFiniteSet(Names), NEW u
  PROVE  IsFiniteSet(OwnedBy(u)) /\ Count(u) = Cardinality(OwnedBy(u)) /\ Count(u) \in Nat
BY FS_Subset, FS_CardinalityType DEF OwnedBy, Count

\* An inserted row is one more for its owner and none for anybody else.
LEMMA InsertCounts ==
  ASSUME IsFiniteSet(Names), TypeOK, NEW n \in Names, NEW v \in Users, owner[n] = NoUser,
         owner' = [owner EXCEPT ![n] = v], NEW u \in Users
  PROVE  Count(u)' = IF u = v THEN Count(u) + 1 ELSE Count(u)
<1> DEFINE D == OwnedBy(u)
           E == OwnedBy(u)'
<1>1. IsFiniteSet(D) /\ Count(u) = Cardinality(D) /\ n \notin D
  BY CountType, PgServiceAssumption DEF OwnedBy
<1>2. E = IF u = v THEN D \cup {n} ELSE D
  BY PgServiceAssumption DEF OwnedBy, TypeOK
<1>3. Count(u)' = Cardinality(E)
  BY DEF OwnedBy, Count
<1> HIDE DEF D, E
<1>4. Cardinality(D \cup {n}) = Cardinality(D) + 1
  BY <1>1, FS_AddElement
<1>5. QED
  BY <1>1, <1>2, <1>3, <1>4

\* A row that goes is no more for anybody.
LEMMA DeleteCounts ==
  ASSUME IsFiniteSet(Names), TypeOK, NEW n \in Names, owner' = [owner EXCEPT ![n] = NoUser],
         NEW u \in Users
  PROVE  Count(u)' \in Nat /\ Count(u)' <= Count(u)
<1>1. OwnedBy(u)' \subseteq OwnedBy(u)
  BY PgServiceAssumption DEF OwnedBy, TypeOK
<1>2. Count(u)' = Cardinality(OwnedBy(u)')
  BY DEF OwnedBy, Count
<1>3. QED
  BY <1>1, <1>2, CountType, FS_Subset, FS_CardinalityType

\* No step takes an account past the limit whose requests come one after the other.
LEMMA StepRoom ==
  ASSUME IsFiniteSet(Names), TypeOK, NEW u \in Users, RoomInv(u), UserInTurn(u), NEW r \in Requests,
         Ask(r) \/ Work(r) \/ CallFails(r) \/ Leave(r)
  PROVE  RoomInv(u)'
<1> USE PgServiceAssumption DEF tables, server
<1>1. \A s \in Requests \ {r} : pc'[s] = pc[s] /\ uid'[s] = uid[s]
  BY StepFrame DEF Frame
<1>2. Count(u) \in Nat
  BY CountType
<1>3. ASSUME UNCHANGED owner, pc'[r] # "insertUser" PROVE RoomInv(u)'
  <2>1. Count(u)' = Count(u)
    BY <1>3 DEF Count
  <2>2. QED
    BY <1>1, <1>3, <2>1 DEF RoomInv, UserLimitHolds
<1>4. CASE CountUsers(r)
  <2>1. CASE HitsUserLimit(uid[r])
    BY <1>3, <1>4, <2>1 DEF CountUsers, Return, Forget, TypeOK
  <2>2. CASE ~HitsUserLimit(uid[r])
    <3>1. UNCHANGED <<owner, uid>> /\ pc'[r] = "insertUser"
      BY <1>4, <2>2 DEF CountUsers, GoTo, TypeOK
    <3>2. uid[r] = u => Count(u) < UserLimit
      BY <1>2, <2>2 DEF HitsUserLimit
    <3>3. Count(u)' = Count(u)
      BY <3>1 DEF Count
    <3>4. QED
      BY <1>1, <3>1, <3>2, <3>3 DEF RoomInv, UserLimitHolds
  <2>3. QED
    BY <2>1, <2>2
<1>5. CASE InsertUser(r)
  <2>1. CASE owner[name[r]] = NoUser
    <3>1. /\ pc[r] = "insertUser" /\ pc'[r] = "createRole" /\ name[r] \in Names /\ uid[r] \in Users
          /\ owner' = [owner EXCEPT ![name[r]] = uid[r]] /\ UNCHANGED uid
      BY <1>5, <2>1 DEF InsertUser, GoTo, TypeOK
    <3>2. Count(u)' = IF u = uid[r] THEN Count(u) + 1 ELSE Count(u)
      BY <2>1, <3>1, InsertCounts
    <3>3. u = uid[r] => Count(u) < UserLimit /\ \A s \in Requests \ {r} : uid'[s] # u
      BY <3>1 DEF RoomInv, UserInTurn
    <3>4. QED
      BY <1>1, <1>2, <3>1, <3>2, <3>3 DEF RoomInv, UserLimitHolds
  <2>2. CASE owner[name[r]] # NoUser
    BY <1>3, <1>5, <2>2 DEF InsertUser, Return, Forget, TypeOK
  <2>3. QED
    BY <2>1, <2>2
<1>6. CASE DeleteUser(r)
  <2>1. CASE Matches(r)
    <3>1. name[r] \in Names /\ owner' = [owner EXCEPT ![name[r]] = NoUser] /\ pc'[r] = "idle"
      BY <1>6, <2>1 DEF DeleteUser, Forget, TypeOK
    <3>2. Count(u)' \in Nat /\ Count(u)' <= Count(u)
      BY <3>1, DeleteCounts
    <3>3. QED
      BY <1>1, <1>2, <3>1, <3>2 DEF RoomInv, UserLimitHolds
  <2>2. CASE ~Matches(r)
    BY <1>3, <1>6, <2>2 DEF DeleteUser, Return, Forget, TypeOK
  <2>3. QED
    BY <2>1, <2>2
<1>7. CASE Ask(r)
  BY <1>3, <1>7
  DEF Ask, CreatePGUser, RemovePgUser, CreatePgDatabase, RemovePgDatabase, Begin, TypeOK
<1>8. CASE CallFails(r) \/ Leave(r)
  BY <1>3, <1>8 DEF CallFails, Leave, Revert, GoTo, Return, Forget, TypeOK
<1>9. CASE CreateRole(r) \/ InsertDb(r) \/ CreateDb(r) \/ DropRole(r) \/ CountDbs(r)
  BY <1>3, <1>9 DEF CreateRole, InsertDb, CreateDb, DropRole, CountDbs, Revert, GoTo, Return, Forget, TypeOK
<1>10. CASE FindPID(r) \/ VerifyUser(r) \/ ListPID(r)
  BY <1>3, <1>10 DEF FindPID, VerifyUser, ListPID, SelectPID, Return, Forget, TypeOK
<1>11. CASE RevokeConnect(r) \/ DeleteDb(r) \/ GetUserDatabases(r) \/ DropListed(r) \/ DropDatabase(r)
  BY <1>3, <1>11
  DEF RevokeConnect, DeleteDb, GetUserDatabases, DropListed, DropDatabase, GoTo, Return, Forget, TypeOK
<1>12. QED
  BY <1>4, <1>5, <1>6, <1>7, <1>8, <1>9, <1>10, <1>11 DEF Work

\* Count and insertion are two statements, and still no account has more than its number of
\* pg users until two of its own requests are at work at once.
THEOREM LimitInTurn ==
  ASSUME IsFiniteSet(Names)
  PROVE  HistorySpec => []UserLimitUnlessCrowded
<1> DEFINE Inv == \A u \in Users \ crowded : UserInTurn(u) /\ RoomInv(u)
<1>1. HistoryInit => Inv
  <2> SUFFICES ASSUME HistoryInit, NEW u \in Users PROVE UserInTurn(u) /\ RoomInv(u)
    OBVIOUS
  <2>1. {n \in Names : owner[n] = u} = {}
    BY PgServiceAssumption DEF HistoryInit, Init
  <2>2. Count(u) = 0
    BY <2>1, FS_EmptySet DEF Count
  <2>3. QED
    BY <2>2, PgServiceAssumption DEF HistoryInit, Init, UserInTurn, RoomInv, UserLimitHolds
<1>2. TypeOK /\ Inv /\ [HistoryNext]_<<vars, history>> => Inv'
  <2> SUFFICES ASSUME TypeOK, Inv, [HistoryNext]_<<vars, history>>, NEW u \in Users \ crowded'
               PROVE  UserInTurn(u)' /\ RoomInv(u)'
    OBVIOUS
  <2>1. CASE HistoryNext
    <3>1. PICK r \in Requests : /\ Ask(r) \/ Work(r) \/ CallFails(r) \/ Leave(r)
                                /\ crowded' = crowded \cup Shared(Users, uid')
      BY <2>1 DEF HistoryNext
    <3>2. UserInTurn(u) /\ RoomInv(u)
      BY <3>1
    <3>3. UserInTurn(u)'
      BY <3>1 DEF Shared, UserInTurn
    <3>4. QED
      BY <3>1, <3>2, <3>3, StepRoom
  <2>2. CASE UNCHANGED <<vars, history>>
    BY <2>2 DEF vars, tables, locals, history, UserInTurn, RoomInv, UserLimitHolds, Count
  <2>3. QED
    BY <2>1, <2>2
<1>3. Inv => UserLimitUnlessCrowded
  BY DEF RoomInv, UserLimitUnlessCrowded
<1>4. QED
  BY <1>1, <1>2, <1>3, HistoryTypes, PTL DEF HistorySpec
-----------------------------------------------------------------------------
\* Between a request's first change and its last one, what it knows of its pg
\* user and of what it has still to do.
KnowsOf(r) ==
  /\ pc[r] \in {"createRole", "deleteUser"} =>
       Matches(r) /\ name[r] \notin role /\ OwnsNothing(name[r])
  /\ pc[r] = "createDb" => Matches(r) /\ db[r] \in rows[name[r]]
  /\ pc[r] = "rowPID" => Matches(r) \/ db[r] \notin rows[name[r]]
  /\ pc[r] \in {"createDb", "rowPID", "deleteDb"} => datdba[db[r]] # name[r]
  /\ pc[r] \in {"countDbs", "insertDb", "deleteDb", "listDbs", "dropDbs"} => r \in linked
  /\ pc[r] = "dropDbs" =>
       /\ todo[r] \subseteq rows[name[r]]
       /\ \A d \in Dbs : datdba[d] = name[r] <=> d \in todo[r]

\* Where tables and server may differ meanwhile.
RoleOpen(r) == pc[r] \in {"createRole", "deleteUser"}

DbOpen(r, d) ==
  \/ pc[r] \in {"createDb", "rowPID", "deleteDb"} /\ db[r] = d
  \/ pc[r] \in {"deleteUser", "dropDbs"}

RoleMatches(n) == n \in role <=> owner[n] # NoUser

DbMatches(n, d) == datdba[d] = n <=> d \in rows[n]

MirrorInv(n) ==
  /\ \A r \in Requests : name[r] = n => KnowsOf(r)
  /\ RoleMatches(n) \/ \E r \in Requests : name[r] = n /\ RoleOpen(r)
  /\ \A d \in Dbs : DbMatches(n, d) \/ \E r \in Requests : name[r] = n /\ DbOpen(r, d)

\* Requests about other pg users that drop nothing of n ...
LEMMA OthersMirror ==
  ASSUME TypeOK, NEW n \in Names, MirrorInv(n), NEW r \in Requests, Frame(r),
         name[r] # n, name'[r] # n, \A d \in Dbs : datdba[d] = n => datdba'[d] = n
  PROVE  MirrorInv(n)'
<1>1. /\ owner'[n] = owner[n] /\ rows'[n] = rows[n] /\ (n \in role' <=> n \in role)
      /\ \A d \in Dbs : datdba'[d] = n <=> datdba[d] = n
      /\ \A s \in Requests : name'[s] = n <=> name[s] = n
  BY DEF Frame
<1>2. ASSUME NEW s \in Requests, name[s] = n
      PROVE  /\ pc'[s] = pc[s] /\ uid'[s] = uid[s] /\ name'[s] = n /\ db'[s] = db[s]
             /\ todo'[s] = todo[s] /\ (s \in linked' <=> s \in linked)
  BY <1>2 DEF Frame
<1>3. ASSUME NEW s \in Requests, name'[s] = n PROVE KnowsOf(s)'
  <2>1. name[s] = n /\ KnowsOf(s)
    BY <1>1, <1>3 DEF MirrorInv
  <2>2. pc[s] \in {"createDb", "rowPID", "deleteDb"} => db[s] \in Dbs
    BY DEF TypeOK
  <2>3. QED
    BY <1>1, <1>2, <2>1, <2>2 DEF KnowsOf, Matches, OwnsNothing
<1>4. (RoleMatches(n) \/ \E s \in Requests : name[s] = n /\ RoleOpen(s))'
  BY <1>1, <1>2 DEF MirrorInv, RoleMatches, RoleOpen
<1>5. ASSUME NEW d \in Dbs PROVE (DbMatches(n, d) \/ \E s \in Requests : name[s] = n /\ DbOpen(s, d))'
  BY <1>1, <1>2 DEF MirrorInv, DbMatches, DbOpen
<1>6. QED
  BY <1>3, <1>4, <1>5 DEF MirrorInv

\* ... and new ones find all as it is.
LEMMA AskMirror ==
  ASSUME TypeOK, NEW n \in Names, MirrorInv(n), NEW r \in Requests, Ask(r)
  PROVE  MirrorInv(n)'
<1>1. /\ pc[r] = "idle" /\ pc'[r] \in {"countUsers", "findPID", "listPID", "dropDb"}
      /\ UNCHANGED <<owner, rows, role, datdba, linked, todo>>
      /\ \A s \in Requests \ {r} :
           pc'[s] = pc[s] /\ uid'[s] = uid[s] /\ name'[s] = name[s] /\ db'[s] = db[s]
  BY DEF Ask, CreatePGUser, RemovePgUser, CreatePgDatabase, RemovePgDatabase, Begin, TypeOK, tables, server
<1>2. ASSUME NEW s \in Requests, name'[s] = n PROVE KnowsOf(s)'
  BY <1>1, <1>2 DEF MirrorInv, KnowsOf, Matches, OwnsNothing
<1>3. (RoleMatches(n) \/ \E s \in Requests : name[s] = n /\ RoleOpen(s))'
  BY <1>1 DEF MirrorInv, RoleMatches, RoleOpen
<1>4. ASSUME NEW d \in Dbs PROVE (DbMatches(n, d) \/ \E s \in Requests : name[s] = n /\ DbOpen(s, d))'
  BY <1>1 DEF MirrorInv, DbMatches, DbOpen
<1>5. QED
  BY <1>2, <1>3, <1>4 DEF MirrorInv

\* What the request about n is between, and what it leaves behind.
Settles(n, r) ==
  /\ name'[r] \in {n, NoName} /\ KnowsOf(r)'
  /\ RoleMatches(n)' \/ (name'[r] = n /\ RoleOpen(r)')
  /\ \A d \in Dbs : DbMatches(n, d)' \/ (name'[r] = n /\ DbOpen(r, d)')

Open(n, r) ==
  /\ name[r] = n /\ KnowsOf(r)
  /\ RoleMatches(n) \/ RoleOpen(r)
  /\ \A d \in Dbs : DbMatches(n, d) \/ DbOpen(r, d)

\* A request that has nothing open may end.
LEMMA ReturnSettles ==
  ASSUME TypeOK, NEW n \in Names, NEW r \in Requests, Open(n, r), Return(r), ~Changed(r),
         UNCHANGED <<tables, server>>
  PROVE  Settles(n, r)
<1>1. ~RoleOpen(r) /\ \A d \in Dbs : ~DbOpen(r, d)
  BY DEF Changed, RoleOpen, DbOpen
<1>2. pc'[r] = "idle" /\ name'[r] = NoName
  BY DEF Return, Forget, TypeOK
<1>3. KnowsOf(r)'
  BY <1>2 DEF KnowsOf
<1>4. QED
  BY <1>1, <1>2, <1>3 DEF Open, Settles, RoleMatches, DbMatches, tables, server

\* It may go on where what it has open stays open.
LEMMA GoOnSettles ==
  ASSUME TypeOK, NEW n \in Names, NEW r \in Requests, Open(n, r), NEW step \in Steps,
         pc' = [pc EXCEPT ![r] = step], UNCHANGED <<tables, server, uid, name, db, todo>>,
         KnowsOf(r)', RoleOpen(r) => RoleOpen(r)', \A d \in Dbs : DbOpen(r, d) => DbOpen(r, d)'
  PROVE  Settles(n, r)
BY DEF Open, Settles, RoleMatches, DbMatches, tables, server

\* A refused CREATE is taken back.
LEMMA RevertSettles ==
  ASSUME TypeOK, NEW n \in Names, NEW r \in Requests, Open(n, r), Revert(r),
         pc[r] \in {"createRole", "createDb"}, UNCHANGED <<tables, server>>
  PROVE  Settles(n, r)
<1>1. CASE pc[r] = "createRole"
  <2>1. KnowsOf(r)' /\ RoleOpen(r)' /\ \A d \in Dbs : DbOpen(r, d)'
    BY <1>1 DEF Open, Revert, KnowsOf, Matches, OwnsNothing, RoleOpen, DbOpen, GoTo, TypeOK, tables, server
  <2>2. QED
    BY <1>1, <2>1, GoOnSettles DEF Revert, GoTo, Steps
<1>2. CASE pc[r] = "createDb"
  <2>1. KnowsOf(r)' /\ ~RoleOpen(r) /\ \A d \in Dbs : DbOpen(r, d) => DbOpen(r, d)'
    BY <1>2 DEF Open, Revert, KnowsOf, Matches, RoleOpen, DbOpen, GoTo, TypeOK, tables, server
  <2>2. QED
    BY <1>2, <2>1, GoOnSettles DEF Revert, GoTo, Steps
<1>3. QED
  BY <1>1, <1>2

\* Every statement that succeeds, or is refused for a reason, settles what it opens,
\* unless it drops a database that it has no row of.
LEMMA WorkSettles ==
  ASSUME TypeOK, NEW n \in Names, NEW r \in Requests, Open(n, r), Work(r), n \notin Bereft(r)
  PROVE  Settles(n, r)
<1> USE PgServiceAssumption DEF tables, server
<1>1. /\ name[r] = n /\ KnowsOf(r)
      /\ RoleOpen(r) \/ (n \in role <=> owner[n] # NoUser)
      /\ \A d \in Dbs : DbOpen(r, d) \/ (datdba[d] = n <=> d \in rows[n])
  BY DEF Open, RoleMatches, DbMatches
<1>2. CASE CountUsers(r) \/ CountDbs(r)
  <2>1. CASE Return(r)
    BY <1>2, <2>1, ReturnSettles DEF CountUsers, CountDbs, Changed
  <2>2. CASE ~Return(r)
    <3>1. PICK step \in {"insertUser", "insertDb"} : GoTo(r, step) /\ (step = "insertDb" => pc[r] = "countDbs")
      BY <1>2, <2>2 DEF CountUsers, CountDbs
    <3>2. KnowsOf(r)' /\ ~RoleOpen(r) /\ \A d \in Dbs : ~DbOpen(r, d)
      BY <1>1, <1>2, <3>1 DEF CountUsers, CountDbs, GoTo, KnowsOf, RoleOpen, DbOpen, TypeOK
    <3>3. QED
      BY <1>2, <3>1, <3>2, GoOnSettles DEF CountUsers, CountDbs, GoTo, Steps
  <2>3. QED
    BY <2>1, <2>2
<1>3. CASE InsertUser(r)
  <2>1. CASE owner[n] = NoUser
    <3>1. /\ pc[r] = "insertUser" /\ pc' = [pc EXCEPT ![r] = "createRole"]
          /\ owner' = [owner EXCEPT ![n] = uid[r]]
          /\ UNCHANGED <<rows, server, uid, name, db, linked, todo>>
      BY <1>1, <1>3, <2>1 DEF InsertUser, GoTo
    <3>2. rows[n] = {} /\ n \notin role /\ OwnsNothing(n)
      BY <1>1, <2>1, <3>1 DEF RoleOpen, DbOpen, OwnsNothing, TypeOK
    <3>3. KnowsOf(r)' /\ RoleOpen(r)' /\ \A d \in Dbs : DbMatches(n, d)'
      BY <1>1, <3>1, <3>2 DEF KnowsOf, RoleOpen, DbMatches, OwnsNothing, Matches, TypeOK
    <3>4. QED
      BY <1>1, <3>1, <3>3 DEF Settles
  <2>2. CASE owner[n] # NoUser
    BY <1>1, <1>3, <2>2, ReturnSettles DEF InsertUser, Changed
  <2>3. QED
    BY <2>1, <2>2
<1>4. CASE CreateRole(r)
  <2>1. /\ pc[r] = "createRole" /\ n \notin role /\ Matches(r) /\ role' = role \cup {n}
        /\ Return(r) /\ UNCHANGED <<tables, datdba>>
    BY <1>1, <1>4 DEF CreateRole, KnowsOf
  <2>2. pc'[r] = "idle" /\ name'[r] = NoName /\ owner[n] # NoUser
    BY <1>1, <2>1 DEF Return, Forget, Matches, TypeOK
  <2>3. KnowsOf(r)' /\ RoleMatches(n)' /\ \A d \in Dbs : DbMatches(n, d)'
    BY <1>1, <2>1, <2>2 DEF KnowsOf, RoleMatches, DbMatches, DbOpen
  <2>4. QED
    BY <2>2, <2>3 DEF Settles
<1>5. CASE DeleteUser(r)
  <2>1. /\ pc[r] = "deleteUser" /\ n \notin role /\ OwnsNothing(n)
        /\ owner' = [owner EXCEPT ![n] = NoUser]
        /\ rows' = [rows EXCEPT ![n] = {}]
        /\ Forget(r) /\ UNCHANGED server
    BY <1>1, <1>5 DEF DeleteUser, KnowsOf
  <2>2. pc'[r] = "idle" /\ name'[r] = NoName
    BY <2>1 DEF Forget, TypeOK
  <2>3. KnowsOf(r)' /\ RoleMatches(n)' /\ \A d \in Dbs : DbMatches(n, d)'
    BY <2>1, <2>2 DEF KnowsOf, RoleMatches, DbMatches, OwnsNothing, TypeOK
  <2>4. QED
    BY <2>2, <2>3 DEF Settles
<1>6. CASE FindPID(r) \/ VerifyUser(r) \/ ListPID(r)
  <2>1. CASE pc[r] = "rowPID" /\ ~Matches(r)
    <3>1. Return(r) /\ UNCHANGED <<tables, server>>
      BY <1>6, <2>1 DEF FindPID, VerifyUser, ListPID, SelectPID
    <3>2. /\ RoleMatches(n)
          /\ \A d \in Dbs : DbMatches(n, d)
      BY <1>1, <2>1 DEF KnowsOf, RoleOpen, DbOpen, RoleMatches, DbMatches
    <3>3. pc'[r] = "idle" /\ name'[r] = NoName
      BY <3>1 DEF Return, Forget, TypeOK
    <3>4. KnowsOf(r)' /\ RoleMatches(n)' /\ \A d \in Dbs : DbMatches(n, d)'
      BY <3>1, <3>2, <3>3 DEF KnowsOf, RoleMatches, DbMatches
    <3>5. QED
      BY <3>3, <3>4 DEF Settles
  <2>2. CASE Return(r) /\ pc[r] # "rowPID"
    BY <1>6, <2>2, ReturnSettles DEF FindPID, VerifyUser, ListPID, SelectPID, Changed
  <2>3. CASE Matches(r) /\ ~(Return(r) /\ pc[r] # "rowPID")
    <3>1. PICK step \in {"countDbs", "deleteDb", "listDbs"} :
            /\ pc' = [pc EXCEPT ![r] = step] /\ linked' = linked \cup {r}
            /\ step = "deleteDb" <=> pc[r] = "rowPID"
            /\ pc[r] \in {"findPID", "rowPID", "listPID"}
            /\ UNCHANGED <<tables, server, uid, name, db, todo>>
      BY <1>6, <2>3 DEF FindPID, VerifyUser, ListPID, SelectPID
    <3>2. KnowsOf(r)' /\ ~RoleOpen(r) /\ \A d \in Dbs : DbOpen(r, d) => DbOpen(r, d)'
      BY <1>1, <3>1 DEF KnowsOf, Matches, RoleOpen, DbOpen, TypeOK
    <3>3. QED
      BY <3>1, <3>2, GoOnSettles DEF Steps
  <2>4. QED
    BY <1>6, <2>1, <2>2, <2>3 DEF FindPID, VerifyUser, ListPID, SelectPID
<1>7. CASE InsertDb(r)
  <2>0. pc[r] = "insertDb" /\ r \in linked /\ db[r] \in Dbs
    BY <1>1, <1>7 DEF InsertDb, KnowsOf, TypeOK
  <2>1. CASE db[r] \notin rows[n]
    <3>1. /\ rows' = [rows EXCEPT ![n] = @ \cup {db[r]}] /\ pc' = [pc EXCEPT ![r] = "createDb"]
          /\ UNCHANGED <<owner, server, uid, name, db, linked, todo>>
      BY <1>1, <1>7, <2>0, <2>1 DEF InsertDb, GoTo
    <3>2. datdba[db[r]] # n /\ Matches(r)
      BY <1>1, <2>0, <2>1 DEF DbOpen, Matches, TypeOK
    <3>3. /\ KnowsOf(r)' /\ RoleMatches(n)'
          /\ \A d \in Dbs : DbOpen(r, d)' \/ DbMatches(n, d)'
      BY <1>1, <2>0, <3>1, <3>2 DEF KnowsOf, Matches, RoleOpen, DbOpen, RoleMatches, DbMatches, TypeOK
    <3>4. QED
      BY <1>1, <3>1, <3>3 DEF Settles
  <2>2. CASE db[r] \in rows[n]
    BY <1>1, <1>7, <2>0, <2>2, ReturnSettles DEF InsertDb, Changed
  <2>3. QED
    BY <2>1, <2>2
<1>8. CASE CreateDb(r)
  <2>0. pc[r] = "createDb" /\ db[r] \in Dbs /\ db[r] \in rows[n]
    BY <1>1, <1>8 DEF CreateDb, KnowsOf, TypeOK
  <2>1. CASE CanCreateDb(r)
    <3>1. /\ datdba' = [datdba EXCEPT ![db[r]] = n]
          /\ pc' = [pc EXCEPT ![r] = "revoke"]
          /\ UNCHANGED <<tables, role, uid, name, db, linked, todo>>
      BY <1>1, <1>8, <2>1 DEF CreateDb, GoTo
    <3>2. KnowsOf(r)' /\ RoleMatches(n)' /\ \A d \in Dbs : DbMatches(n, d)'
      BY <1>1, <2>0, <3>1 DEF KnowsOf, RoleOpen, DbOpen, RoleMatches, DbMatches, TypeOK
    <3>3. QED
      BY <1>1, <3>1, <3>2 DEF Settles
  <2>2. CASE ~CanCreateDb(r)
    BY <1>8, <2>0, <2>2, RevertSettles DEF CreateDb
  <2>3. QED
    BY <2>1, <2>2
<1>9. CASE RevokeConnect(r)
  BY <1>9, ReturnSettles DEF RevokeConnect, Changed
<1>10. CASE DeleteDb(r)
  <2>1. /\ pc[r] = "deleteDb" /\ db[r] \in Dbs /\ datdba[db[r]] # n
        /\ rows' = [rows EXCEPT ![n] = @ \ {db[r]}] /\ Return(r) /\ UNCHANGED <<owner, server>>
    BY <1>1, <1>10 DEF DeleteDb, KnowsOf, TypeOK
  <2>2. pc'[r] = "idle" /\ name'[r] = NoName
    BY <2>1 DEF Return, Forget, TypeOK
  <2>3. KnowsOf(r)' /\ RoleMatches(n)' /\ \A d \in Dbs : DbMatches(n, d)'
    BY <1>1, <2>1, <2>2 DEF KnowsOf, RoleOpen, DbOpen, RoleMatches, DbMatches, TypeOK
  <2>4. QED
    BY <2>2, <2>3 DEF Settles
<1>11. CASE GetUserDatabases(r)
  <2>1. /\ pc[r] = "listDbs" /\ r \in linked /\ todo' = [todo EXCEPT ![r] = rows[n]]
        /\ pc' = [pc EXCEPT ![r] = "dropDbs"]
        /\ UNCHANGED <<tables, server, uid, name, db, linked>>
    BY <1>1, <1>11 DEF GetUserDatabases, KnowsOf, RowsOfPID
  <2>2. KnowsOf(r)' /\ RoleMatches(n)' /\ \A d \in Dbs : DbMatches(n, d)'
    BY <1>1, <2>1 DEF KnowsOf, RoleOpen, DbOpen, RoleMatches, DbMatches, TypeOK
  <2>3. QED
    BY <1>1, <2>1, <2>2 DEF Settles
<1>12. CASE DropListed(r)
  <2>1. PICK d \in todo[r] : /\ datdba' = [datdba EXCEPT ![d] = NoName]
                            /\ todo' = [todo EXCEPT ![r] = @ \ {d}]
    BY <1>12 DEF DropListed
  <2>2. /\ pc[r] = "dropDbs" /\ d \in Dbs
        /\ UNCHANGED <<tables, role, pc, uid, name, db, linked>>
    BY <1>12, <2>1 DEF DropListed, TypeOK
  <2>3. /\ KnowsOf(r)' /\ RoleMatches(n)' /\ \A e \in Dbs : DbOpen(r, e)'
    BY <1>1, <2>1, <2>2 DEF KnowsOf, RoleOpen, DbOpen, RoleMatches, TypeOK
  <2>4. QED
    BY <1>1, <2>2, <2>3 DEF Settles
<1>13. CASE DropRole(r)
  <2>1. pc[r] = "dropDbs" /\ todo[r] = {} /\ r \in linked /\ OwnsNothing(n)
    BY <1>1, <1>13 DEF DropRole, KnowsOf, OwnsNothing
  <2>2. /\ role' = role \ {n} /\ pc' = [pc EXCEPT ![r] = "deleteUser"]
        /\ UNCHANGED <<tables, datdba, uid, name, db, linked, todo>>
    BY <1>1, <1>13, <2>1 DEF DropRole, GoTo
  <2>3. KnowsOf(r)' /\ RoleOpen(r)' /\ \A d \in Dbs : DbOpen(r, d)'
    BY <1>1, <2>1, <2>2 DEF KnowsOf, Matches, OwnsNothing, RoleOpen, DbOpen, TypeOK
  <2>4. QED
    BY <1>1, <2>2, <2>3 DEF Settles
<1>14. CASE DropDatabase(r)
  <2>1. /\ pc[r] = "dropDb" /\ db[r] \in Dbs
        /\ datdba' = [datdba EXCEPT ![db[r]] = NoName] /\ pc' = [pc EXCEPT ![r] = "rowPID"]
        /\ UNCHANGED <<tables, role, uid, name, db, linked, todo>>
    BY <1>14 DEF DropDatabase, GoTo, TypeOK
  <2>2. Matches(r) \/ db[r] \notin rows[n]
    <3>1. CASE datdba[db[r]] = n
      BY <1>1, <2>1, <3>1 DEF Bereft, TypeOK
    <3>2. CASE datdba[db[r]] # n
      BY <1>1, <2>1, <3>2 DEF DbOpen
    <3>3. QED
      BY <3>1, <3>2
  <2>3. KnowsOf(r)' /\ RoleMatches(n)' /\ \A d \in Dbs : DbOpen(r, d)' \/ DbMatches(n, d)'
    BY <1>1, <2>1, <2>2 DEF KnowsOf, Matches, RoleOpen, DbOpen, RoleMatches, DbMatches, TypeOK
  <2>4. QED
    BY <1>1, <2>1, <2>3 DEF Settles
<1>15. QED
  BY <1>2, <1>3, <1>4, <1>5, <1>6, <1>7, <1>8, <1>9, <1>10, <1>11, <1>12, <1>13, <1>14 DEF Work

\* A request that fails or is left has changed nothing, or takes it back.
LEMMA FailSettles ==
  ASSUME TypeOK, NEW n \in Names, NEW r \in Requests, Open(n, r), CallFails(r) \/ Leave(r),
         ~RevertsRevoke(r), ~BreaksOff(r)
  PROVE  Settles(n, r)
<1>1. UNCHANGED <<tables, server>>
  BY DEF CallFails, Leave
<1>2. CASE Return(r)
  <2>1. ~Changed(r)
    BY <1>2 DEF BreaksOff, Return, Forget, TypeOK
  <2>2. QED
    BY <1>1, <1>2, <2>1, ReturnSettles
<1>3. CASE ~Return(r)
  <2>1. Revert(r) /\ pc[r] \in {"createRole", "createDb", "revoke"}
    BY <1>3 DEF CallFails, Leave
  <2>2. pc[r] # "revoke"
    BY <2>1 DEF RevertsRevoke, Revert, GoTo, TypeOK
  <2>3. QED
    BY <1>1, <2>1, <2>2, RevertSettles
<1>4. QED
  BY <1>2, <1>3

\* The request about n keeps what is known of him.
LEMMA OwnMirror ==
  ASSUME TypeOK, NEW n \in Names, MirrorInv(n), InTurn(n), NEW r \in Requests, name[r] = n, Frame(r),
         Open(n, r) => Settles(n, r)
  PROVE  MirrorInv(n)'
<1>1. \A s \in Requests : name[s] = n => s = r
  BY DEF InTurn
<1>2. Open(n, r)
  BY <1>1 DEF MirrorInv, Open
<1>3. Settles(n, r) /\ \A s \in Requests : name'[s] = n => s = r
  BY <1>1, <1>2 DEF Frame
<1>4. QED
  BY <1>3 DEF MirrorInv, Settles

\* At rest the tables say exactly what exists of a pg user on the shared server, until a
\* request about him breaks off half-way, meets another one or finds its REVOKE refused,
\* or one without a row of it drops his database: the reverts answer every refused CREATE.
THEOREM MirrorInTurn == HistorySpec => []MirrorsUnlessBroken
<1> DEFINE Inv == \A n \in Names \ (troubled \cup broken) : MirrorInv(n)
<1>1. HistoryInit => Inv
  BY PgServiceAssumption DEF HistoryInit, Init, MirrorInv, KnowsOf, RoleMatches, DbMatches
<1>2. TypeOK /\ OrphansInv /\ Inv /\ [HistoryNext]_<<vars, history>> => Inv'
  <2> SUFFICES ASSUME TypeOK, OrphansInv, Inv, [HistoryNext]_<<vars, history>>,
                      NEW n \in Names \ (troubled' \cup broken')
               PROVE  MirrorInv(n)'
    OBVIOUS
  <2>1. CASE HistoryNext
    <3>1. PICK r \in Requests :
            /\ \/ Ask(r) /\ UNCHANGED broken
               \/ Work(r) /\ broken' = broken \cup Bereft(r)
               \/ /\ CallFails(r) \/ Leave(r)
                  /\ broken' = broken \cup {m \in {name[r]} : BreaksOff(r)}
            /\ troubled' = troubled \cup Shared(Names, name') \cup {m \in {name[r]} : RevertsRevoke(r)}
      BY <2>1 DEF HistoryNext
    <3>2. n \notin troubled /\ n \notin broken /\ (name[r] = n => ~RevertsRevoke(r))
      BY <3>1
    <3>3. MirrorInv(n) /\ InTurn(n)
      BY <3>2 DEF OrphansInv, OrphanInv
    <3>4. CASE Ask(r)
      BY <3>3, <3>4, AskMirror
    <3>5. CASE Work(r) /\ ~Ask(r) /\ broken' = broken \cup Bereft(r)
      <4>1. n \notin Bereft(r) /\ Frame(r) /\ name'[r] \in {name[r], NoName}
        BY <3>5, StepFrame
      <4>2. CASE name[r] = n
        BY <3>3, <3>5, <4>1, <4>2, WorkSettles, OwnMirror
      <4>3. CASE name[r] # n
        BY <3>3, <4>1, <4>3, OthersMirror, PgServiceAssumption DEF Bereft
      <4>4. QED
        BY <4>2, <4>3
    <3>6. CASE /\ CallFails(r) \/ Leave(r)
               /\ ~Ask(r) /\ broken' = broken \cup {m \in {name[r]} : BreaksOff(r)}
      <4>1. /\ name[r] = n => ~BreaksOff(r)
            /\ Frame(r) /\ name'[r] \in {name[r], NoName} /\ datdba' = datdba
        BY <3>6, StepFrame DEF CallFails, Leave, server
      <4>2. CASE name[r] = n
        BY <3>2, <3>3, <3>6, <4>1, <4>2, FailSettles, OwnMirror
      <4>3. CASE name[r] # n
        BY <3>3, <4>1, <4>3, OthersMirror, PgServiceAssumption
      <4>4. QED
        BY <4>2, <4>3
    <3>7. QED
      BY <3>1, <3>4, <3>5, <3>6
  <2>2. CASE UNCHANGED <<vars, history>>
    BY <2>2
    DEF vars, tables, server, locals, history, MirrorInv, KnowsOf, Matches, OwnsNothing, RoleMatches,
        RoleOpen, DbMatches, DbOpen
  <2>3. QED
    BY <2>1, <2>2
<1>3. Inv => MirrorsUnlessBroken
  <2> SUFFICES ASSUME Inv, NEW n \in Names \ (troubled \cup broken), AtRest(n) PROVE Mirrors(n)
    BY DEF MirrorsUnlessBroken
  <2>1. MirrorInv(n)
    OBVIOUS
  <2>2. QED
    BY <2>1 DEF MirrorInv, AtRest, Mirrors, RoleMatches, DbMatches
<1>4. QED
  BY <1>1, <1>2, <1>3, HistoryTypes, OrphansInvHolds, PTL DEF HistorySpec
=============================================================================
