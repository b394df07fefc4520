----------------------------- MODULE MCPgService -----------------------------
(***************************************************************************)
(* Small instances of PgService, with a history of the accounts and pg     *)
(* users about whom the code promises nothing, or less.                    *)
(***************************************************************************)
EXTENDS PgService, TLC

VARIABLES
  crowded,   \* accounts with two requests at work at once
  troubled,  \* pg users with two requests at work at once, or a refused REVOKE
  broken     \* pg users with a request that ended between its first change and its last
             \* one, or with a database that was dropped by a request that has no row of it

history == <<crowded, troubled, broken>>

HistoryInit == Init /\ crowded = {} /\ troubled = {} /\ broken = {}

\* Requests that have changed something and are not done.
Changed(r) == pc[r] \in {"createRole", "deleteUser", "createDb", "rowPID", "deleteDb", "dropDbs"}

\* Pg users who lose a database to a request that has no row of it.
Bereft(r) == {n \in Names : \E d \in Dbs :
  datdba[d] = n /\ datdba'[d] # n /\ ~(name[r] = n /\ Matches(r) /\ d \in rows[n])}

\* Those on whom two requests have the same form value.
Shared(who, value) == {x \in who : \E s, t \in Requests : s # t /\ value[s] = x /\ value[t] = x}

\* A refused REVOKE is answered like a refused CREATE.
RevertsRevoke(r) == pc[r] = "revoke" /\ pc'[r] = "rowPID"

BreaksOff(r) == Changed(r) /\ pc'[r] = "idle"

HistoryNext == \E r \in Requests :
  /\ \/ Ask(r) /\ UNCHANGED broken
     \/ Work(r) /\ broken' = broken \cup Bereft(r)
     \/ /\ CallFails(r) \/ Leave(r)
        /\ broken' = broken \cup {n \in {name[r]} : BreaksOff(r)}
  /\ crowded' = crowded \cup Shared(Users, uid')
  /\ troubled' = troubled \cup Shared(Names, name') \cup {n \in {name[r]} : RevertsRevoke(r)}

HistorySpec == HistoryInit /\ [][HistoryNext]_<<vars, history>>

\* Whatever fails and whoever leaves, whatever requests about other pg users do: nothing
\* on the shared server is without a row until two requests about its pg user are at
\* work at once, or his REVOKE is refused, whose revert forgets a database that exists.
NoOrphanUnlessTroubled == \A n \in Names \ troubled : NoOrphan(n)

\* Until then the code registers before it creates and drops before it unregisters, one
\* thing at a time, with the rows of a user's databases going with his own.
ImplementsMirrorUnlessTroubled ==
  /\ \A n \in Names : Server(n)!Init
  /\ [][\A n \in Names \ troubled' : [Server(n)!Next]_<<Registered(n), Present(n)>>]_<<tables, server>>

\* Nor do tables and server differ when no request about a pg user is at work, until one
\* breaks off half-way or drops what it has no row of: the handlers' reverts answer
\* every refused CREATE.
MirrorsUnlessBroken == \A n \in Names \ (troubled \cup broken) : AtRest(n) => Mirrors(n)

\* The count and the insertion are two statements: the limit holds as long as an account's
\* requests come one after the other.
UserLimitUnlessCrowded == \A u \in Users \ crowded : UserLimitHolds(u)

\* The bound of the run: all is promised about one pg user at least.
SomeoneSpared == troubled \cup broken # Names

Symmetric == Permutations(Users) \cup Permutations(Names) \cup Permutations(Dbs) \cup Permutations(Requests)
=============================================================================
