------------------------------ MODULE PgService ------------------------------
(***************************************************************************)
(* PostgreSQL as a service: the users and databases people ask for are     *)
(* rows of KWS' own tables (src/internal/store/pg_service.go) and roles    *)
(* and databases of a shared server (src/internal/docker/services/pg.go).  *)
(* The four handlers of src/cmd/pg_service_handler.go change both, one     *)
(* statement at a time, and take the rows back when the server refuses.    *)
(*                                                                         *)
(* A request is one HTTP request, a step one statement.  Passwords are     *)
(* left out: a wrong one finds no row, as another user's name does.        *)
(***************************************************************************)
EXTENDS Integers, FiniteSets

CONSTANTS
  Users,         \* accounts of KWS
  Names,         \* names of pg users
  Dbs,           \* names of databases
  Requests,      \* requests at work at the same time
  UserLimit,     \* MAX_SERVICE_DB_USERS: 5 pg users of a user
  DbLimit,       \* MAX_SERVICE_DB_DB: 10 databases of a pg user
  FailingSteps,  \* the steps whose statement may be refused without a reason here
  Leaves,        \* whether a client may leave (or the process die) in mid-request
  NoUser, NoName, NoDb

Steps == {"countUsers", "insertUser", "createRole", "deleteUser",
          "findPID", "countDbs", "insertDb", "createDb", "revoke", "rowPID", "deleteDb",
          "listPID", "listDbs", "dropDbs", "dropDb"}

ASSUME PgServiceAssumption ==
  /\ NoUser \notin Users /\ NoName \notin Names /\ NoDb \notin Dbs
  /\ UserLimit \in Nat /\ DbLimit \in Nat
  /\ FailingSteps \subseteq Steps
  /\ Leaves \in BOOLEAN

VARIABLES
  owner,     \* pg_service_user: user_id of each pg_user_name (UNIQUE)
  rows,      \* pg_service_db: the db_names of each pg user
  role,      \* roles of the shared server
  datdba,    \* databases of the shared server: the role that owns each
  pc, uid, name, db,   \* the next statement of each request and its form values
  linked,    \* requests whose pid is the id of the present row of their name
  todo       \* the databases RemovePgUser has still to drop

tables == <<owner, rows>>
server == <<role, datdba>>
locals == <<pc, uid, name, db, linked, todo>>
vars == <<tables, server, locals>>

Init ==
  /\ owner = [n \in Names |-> NoUser]
  /\ rows = [n \in Names |-> {}]
  /\ role = {}
  /\ datdba = [d \in Dbs |-> NoName]
  /\ pc = [r \in Requests |-> "idle"]
  /\ uid = [r \in Requests |-> NoUser]
  /\ name = [r \in Requests |-> NoName]
  /\ db = [r \in Requests |-> NoDb]
  /\ linked = {}
  /\ todo = [r \in Requests |-> {}]

GoTo(r, step) ==
  /\ pc' = [pc EXCEPT ![r] = step]
  /\ UNCHANGED <<uid, name, db, linked, todo>>

\* All that a request forgets at its end but its pid.
Forget(r) ==
  /\ pc' = [pc EXCEPT ![r] = "idle"]
  /\ uid' = [uid EXCEPT ![r] = NoUser]
  /\ name' = [name EXCEPT ![r] = NoName]
  /\ db' = [db EXCEPT ![r] = NoDb]
  /\ todo' = [todo EXCEPT ![r] = {}]

Return(r) == Forget(r) /\ linked' = linked \ {r}

Begin(r, u, n, d, step) ==
  /\ pc[r] = "idle"
  /\ pc' = [pc EXCEPT ![r] = step]
  /\ uid' = [uid EXCEPT ![r] = u]
  /\ name' = [name EXCEPT ![r] = n]
  /\ db' = [db EXCEPT ![r] = d]
  /\ UNCHANGED <<tables, server, linked, todo>>

\* Variant: the user_id is not asked for.
MatchesName(r) == owner[name[r]] # NoUser

\* pg_user_name = $1 AND user_id = $3
Matches(r) == owner[name[r]] = uid[r]

\* The pid this request works with from now on, or the end of it.
SelectPID(r, at, next) ==
  /\ pc[r] = at
  /\ \/ /\ Matches(r)
        /\ linked' = linked \cup {r}
        /\ pc' = [pc EXCEPT ![r] = next]
        /\ UNCHANGED <<uid, name, db, todo>>
     \/ ~Matches(r) /\ Return(r)
  /\ UNCHANGED <<tables, server>>

\* pid = $1
RowsOfPID(r) == IF r \in linked THEN rows[name[r]] ELSE {}

-----------------------------------------------------------------------------
(* CreatePGUser *)

CreatePGUser(r, u, n) == Begin(r, u, n, NoDb, "countUsers")

Count(u) == Cardinality({n \in Names : owner[n] = u})

\* Variant: the limit itself is let through.
ExceedsUserLimit(u) == Count(u) > UserLimit

HitsUserLimit(u) == Count(u) >= UserLimit

CountUsers(r) ==
  /\ pc[r] = "countUsers"
  /\ IF HitsUserLimit(uid[r]) THEN Return(r) ELSE GoTo(r, "insertUser")
  /\ UNCHANGED <<tables, server>>

InsertUser(r) ==
  /\ pc[r] = "insertUser"
  /\ \/ /\ owner[name[r]] = NoUser
        /\ owner' = [owner EXCEPT ![name[r]] = uid[r]]
        /\ GoTo(r, "createRole")
     \/ owner[name[r]] # NoUser /\ Return(r) /\ UNCHANGED owner
  /\ UNCHANGED <<rows, server>>

\* Variant: the refusal is answered and the row stays.
RevertNothing(r) == Return(r)

\* The server has refused to create: take the row back.
Revert(r) == GoTo(r, IF pc[r] = "createRole" THEN "deleteUser" ELSE "rowPID")

CreateRole(r) ==
  /\ pc[r] = "createRole"
  /\ \/ name[r] \notin role /\ role' = role \cup {name[r]} /\ Return(r)
     \/ name[r] \in role /\ Revert(r) /\ UNCHANGED role
  /\ UNCHANGED <<tables, datdba>>

\* RemoveUser: the revert of CreatePGUser and the end of RemovePgUser.  The
\* rows of the databases go with their user (ON DELETE CASCADE).
DeleteUser(r) ==
  /\ pc[r] = "deleteUser"
  /\ \/ /\ Matches(r)
        /\ owner' = [owner EXCEPT ![name[r]] = NoUser]
        /\ rows' = [rows EXCEPT ![name[r]] = {}]
        /\ linked' = {s \in linked : name[s] # name[r]}
        /\ Forget(r)
     \/ ~Matches(r) /\ Return(r) /\ UNCHANGED tables
  /\ UNCHANGED server

-----------------------------------------------------------------------------
(* CreatePgDatabase *)

CreatePgDatabase(r, u, n, d) == Begin(r, u, n, d, "findPID")

FindPID(r) == SelectPID(r, "findPID", "countDbs")

CountDbs(r) ==
  /\ pc[r] = "countDbs"
  /\ IF Cardinality(RowsOfPID(r)) >= DbLimit THEN Return(r) ELSE GoTo(r, "insertDb")
  /\ UNCHANGED <<tables, server>>

\* UNIQUE (pid, db_name), and a pid without a row is no foreign key.
InsertDb(r) ==
  /\ pc[r] = "insertDb"
  /\ \/ /\ r \in linked /\ db[r] \notin rows[name[r]]
        /\ rows' = [rows EXCEPT ![name[r]] = @ \cup {db[r]}]
        /\ GoTo(r, "createDb")
     \/ (r \notin linked \/ db[r] \in rows[name[r]]) /\ Return(r) /\ UNCHANGED rows
  /\ UNCHANGED <<owner, server>>

\* CREATE DATABASE wants a new name and an owner that exists.
CanCreateDb(r) == datdba[db[r]] = NoName /\ name[r] \in role

CreateDb(r) ==
  /\ pc[r] = "createDb"
  /\ \/ /\ CanCreateDb(r)
        /\ datdba' = [datdba EXCEPT ![db[r]] = name[r]]
        /\ GoTo(r, "revoke")
     \/ ~CanCreateDb(r) /\ Revert(r) /\ UNCHANGED datdba
  /\ UNCHANGED <<tables, role>>

\* REVOKE CONNECT: who may connect to a database is not in the model.
RevokeConnect(r) == pc[r] = "revoke" /\ Return(r) /\ UNCHANGED <<tables, server>>

\* RemoveDatabase: the revert of CreatePgDatabase and the end of RemovePgDatabase.
VerifyUser(r) == SelectPID(r, "rowPID", "deleteDb")

DeleteDb(r) ==
  /\ pc[r] = "deleteDb"
  /\ rows' = IF r \in linked THEN [rows EXCEPT ![name[r]] = @ \ {db[r]}] ELSE rows
  /\ Return(r)
  /\ UNCHANGED <<owner, server>>

-----------------------------------------------------------------------------
(* RemovePgUser *)

\* Variant: the row goes first.
RemovePgUserRow(r, u, n) == Begin(r, u, n, NoDb, "deleteUser")

RemovePgUser(r, u, n) == Begin(r, u, n, NoDb, "listPID")

ListPID(r) == SelectPID(r, "listPID", "listDbs")

GetUserDatabases(r) ==
  /\ pc[r] = "listDbs"
  /\ todo' = [todo EXCEPT ![r] = RowsOfPID(r)]
  /\ pc' = [pc EXCEPT ![r] = "dropDbs"]
  /\ UNCHANGED <<tables, server, uid, name, db, linked>>

\* DROP DATABASE IF EXISTS, whoever owns it.
DropListed(r) ==
  /\ pc[r] = "dropDbs"
  /\ \E d \in todo[r] :
       /\ datdba' = [datdba EXCEPT ![d] = NoName]
       /\ todo' = [todo EXCEPT ![r] = @ \ {d}]
  /\ UNCHANGED <<tables, role, pc, uid, name, db, linked>>

OwnsNothing(n) == \A d \in Dbs : datdba[d] # n

\* DROP USER IF EXISTS: the server keeps a role that owns a database.
DropRole(r) ==
  /\ pc[r] = "dropDbs" /\ todo[r] = {}
  /\ \/ /\ OwnsNothing(name[r])
        /\ role' = role \ {name[r]}
        /\ GoTo(r, "deleteUser")
     \/ ~OwnsNothing(name[r]) /\ Return(r) /\ UNCHANGED role
  /\ UNCHANGED <<tables, datdba>>

-----------------------------------------------------------------------------
(* RemovePgDatabase *)

\* Variant: the row goes first.
RemovePgDatabaseRow(r, u, n, d) == Begin(r, u, n, d, "rowPID")

RemovePgDatabase(r, u, n, d) == Begin(r, u, n, d, "dropDb")

\* By its name alone: whose it is comes later.
DropDatabase(r) ==
  /\ pc[r] = "dropDb"
  /\ datdba' = [datdba EXCEPT ![db[r]] = NoName]
  /\ GoTo(r, "rowPID")
  /\ UNCHANGED <<tables, role>>

-----------------------------------------------------------------------------
\* A statement is refused.
CallFails(r) ==
  /\ pc[r] \in FailingSteps
  /\ IF pc[r] \in {"createRole", "createDb", "revoke"} THEN Revert(r) ELSE Return(r)
  /\ UNCHANGED <<tables, server>>

\* The client leaves, which cancels r.Context(), or the process dies: nothing
\* further is done, and nothing taken back.
Leave(r) ==
  /\ Leaves
  /\ pc[r] # "idle"
  /\ Return(r)
  /\ UNCHANGED <<tables, server>>

Ask(r) == \E u \in Users, n \in Names :
  \/ CreatePGUser(r, u, n) \/ RemovePgUser(r, u, n)
  \/ \E d \in Dbs : CreatePgDatabase(r, u, n, d) \/ RemovePgDatabase(r, u, n, d)

Work(r) ==
  \/ CountUsers(r) \/ InsertUser(r) \/ CreateRole(r) \/ DeleteUser(r)
  \/ FindPID(r) \/ CountDbs(r) \/ InsertDb(r) \/ CreateDb(r) \/ RevokeConnect(r)
  \/ VerifyUser(r) \/ DeleteDb(r)
  \/ ListPID(r) \/ GetUserDatabases(r) \/ DropListed(r) \/ DropRole(r)
  \/ DropDatabase(r)

Next == \E r \in Requests : Ask(r) \/ Work(r) \/ CallFails(r) \/ Leave(r)

Spec == Init /\ [][Next]_vars

-----------------------------------------------------------------------------
(* Properties *)

TypeOK ==
  /\ owner \in [Names -> Users \cup {NoUser}]
  /\ rows \in [Names -> SUBSET Dbs]
  /\ role \subseteq Names
  /\ datdba \in [Dbs -> Names \cup {NoName}]
  /\ pc \in [Requests -> Steps \cup {"idle"}]
  /\ uid \in [Requests -> Users \cup {NoUser}]
  /\ name \in [Requests -> Names \cup {NoName}]
  /\ db \in [Requests -> Dbs \cup {NoDb}]
  /\ linked \subseteq Requests
  /\ todo \in [Requests -> SUBSET Dbs]
  /\ \A r \in Requests :
       /\ pc[r] # "idle" => name[r] \in Names /\ uid[r] \in Users
       /\ pc[r] \in {"findPID", "countDbs", "insertDb", "createDb", "revoke",
                     "rowPID", "deleteDb", "dropDb"} => db[r] \in Dbs
       /\ r \in linked => pc[r] # "idle" /\ owner[name[r]] = uid[r]
  /\ \A n \in Names : owner[n] = NoUser => rows[n] = {}

\* Nothing of pg user n exists on the shared server that no row speaks of: a role or
\* database without a row keeps its name for ever, since no page lists it and CREATE
\* refuses the name.
NoOrphan(n) ==
  /\ n \in role => owner[n] # NoUser
  /\ \A d \in Dbs : datdba[d] = n => d \in rows[n]

AtRest(n) == \A r \in Requests : name[r] # n

\* The tables say exactly what exists of n on the server, and who owns it.
Mirrors(n) ==
  /\ n \in role <=> owner[n] # NoUser
  /\ \A d \in Dbs : datdba[d] = n <=> d \in rows[n]

\* Account u has no more than his number of pg users.
UserLimitHolds(u) == Count(u) <= UserLimit

\* The rows of pg user n as a mirror of what the server has of him: see Mirror.
ThingsOf(n) == {<<n>>} \cup ({n} \X Dbs)

Registered(n) == {x \in {<<n>>} : owner[n] # NoUser} \cup ({n} \X rows[n])

Present(n) == {x \in {<<n>>} : n \in role} \cup {p \in {n} \X Dbs : datdba[p[2]] = n}

Server(n) == INSTANCE Mirror WITH Things <- ThingsOf(n), registered <- Registered(n), present <- Present(n)
=============================================================================
