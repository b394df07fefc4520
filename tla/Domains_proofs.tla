--------------------------- MODULE Domains_proofs ---------------------------
(***************************************************************************)
(* Theorems about Domains for every set of users, names and addresses,     *)
(* every limit and any number of operations at once: its types whatever    *)
(* overlaps and fails, a user's limit until he overlaps himself, and until *)
(* a user does or a call fails the files, and the routes to every address  *)
(* that was not reused.                                                    *)
(***************************************************************************)
EXTENDS MCDomains, FiniteSetTheorems, TLAPS

Asking == {"count", "insert", "getIP", "write", "removeRow", "removeConf"}
Deployed == {"codeRow", "codeConf", "instanceRow"}

\* What a worker's local variables hold, by its next call.
LocalsOK ==
  \A w \in Workers :
    /\ pc[w] # "idle" => uid[w] \in Users
    /\ pc[w] \in Asking => name[w] \in Domain
    /\ pc[w] \in Deployed \cup Killed => name[w] = uid[w]

TypeInv == TypeOK /\ LocalsOK

\* The tables and files, apart from the workers.
StoresOK ==
  /\ domains \in [Domain -> Users \cup {NoUser}]
  /\ conf \in [Domain -> Hosts \cup {NoHost, Nowhere}]
  /\ userip \in [Users -> Hosts \cup {NoHost}]
  /\ container \in [Users -> Hosts \cup {NoHost}]
  /\ code \subseteq Domain /\ instance \subseteq Users

StepSets == Asking \cup Deployed \cup Killed

\* The steps of the three kinds of operations are all there are.
LEMMA SameCalls == StepSets = Calls
BY DEF StepSets, Calls, Asking, Deployed, Killed

\* A user's name is a domain, so every operation is about a domain.
LEMMA TypedName == TypeInv => \A w \in Workers : pc[w] # "idle" => name[w] \in Domain
BY SameCalls DEF TypeInv, TypeOK, LocalsOK, StepSets, Domain

\* A worker begins with any domain, or with its user's own.
LEMMA BeginAsking ==
  ASSUME TypeInv, NEW w \in Workers, NEW u \in Users, NEW d \in Domain,
         NEW step \in {"count", "removeRow"}, Begin(w, u, d, NoHost, step), StoresOK'
  PROVE  TypeInv'
BY DEF Begin, StoresOK, TypeInv, TypeOK, LocalsOK, Domain, Calls, Asking, Deployed, Killed

\* A deploy or kill begins with its user's own name.
LEMMA BeginJob ==
  ASSUME TypeInv, NEW w \in Workers, NEW u \in Users,
         NEW h \in Hosts \cup {NoHost}, NEW step \in Deployed \cup Killed,
         Begin(w, u, u, h, step), StoresOK'
  PROVE  TypeInv'
BY DomainsAssumption
DEF Begin, StoresOK, TypeInv, TypeOK, LocalsOK, Domain, Calls, Asking, Deployed, Killed

\* A worker goes on with what it began.
LEMMA GoToAsking ==
  ASSUME TypeInv, NEW w \in Workers, pc[w] \in Asking,
         NEW step \in {"insert", "getIP", "removeConf"}, GoTo(w, step), StoresOK'
  PROVE  TypeInv'
BY DEF GoTo, StoresOK, TypeInv, TypeOK, LocalsOK, Calls, Asking, Deployed, Killed

\* So does the deploy or kill.
LEMMA GoToJob ==
  ASSUME TypeInv, NEW w \in Workers, pc[w] \in Deployed \cup Killed,
         NEW step \in Deployed \cup Killed, GoTo(w, step), StoresOK'
  PROVE  TypeInv'
BY DEF GoTo, StoresOK, TypeInv, TypeOK, LocalsOK, Calls, Asking, Deployed, Killed

\* A worker that returns forgets its locals.
LEMMA ReturnTypes ==
  ASSUME TypeInv, NEW w \in Workers, Return(w), StoresOK'
  PROVE  TypeInv'
BY DEF Return, StoresOK, TypeInv, TypeOK, LocalsOK, Asking, Deployed, Killed

\* Rows, files and locals keep their types, whatever overlaps and fails; every
\* file is written with an address.
THEOREM TypingInv == Spec => []TypeInv
<1>1. Init => TypeInv
  BY DomainsAssumption DEF Init, TypeInv, TypeOK, LocalsOK, Asking, Deployed, Killed
<1>2. TypeInv /\ [Next]_vars => TypeInv'
  <2> SUFFICES ASSUME TypeInv, [Next]_vars PROVE TypeInv'
    OBVIOUS
  <2> USE DomainsAssumption
  <2>0. StoresOK /\ \A w \in Workers : pc[w] # "idle" => uid[w] \in Users /\ name[w] \in Domain
    BY TypedName DEF StoresOK, TypeInv, TypeOK, LocalsOK
  <2>1. ASSUME UNCHANGED stores PROVE StoresOK'
    BY <2>0, <2>1 DEF StoresOK, stores, tables
  <2>2. ASSUME NEW w \in Workers, NEW u \in Users,
               \E d \in Domain : AddUserDomain(w, u, d) \/ RemoveUserDomain(w, u, d)
        PROVE  TypeInv'
    <3>1. PICK d \in Domain : AddUserDomain(w, u, d) \/ RemoveUserDomain(w, u, d)
      BY <2>2
    <3>2. StoresOK'
      BY <2>1, <3>1 DEF AddUserDomain, RemoveUserDomain
    <3>3. Begin(w, u, d, NoHost, "count") \/ Begin(w, u, d, NoHost, "removeRow")
      BY <3>1 DEF AddUserDomain, RemoveUserDomain
    <3>4. QED
      BY <3>2, <3>3, BeginAsking
  <2>3. ASSUME NEW w \in Workers, NEW u \in Users, Deploy(w, u) \/ Kill(w, u) PROVE TypeInv'
    <3>1. {"codeRow", "delete"} \subseteq Deployed \cup Killed
      BY DEF Deployed, Killed
    <3>2. StoresOK'
      BY <2>0, <2>3 DEF Deploy, Kill, tables, StoresOK
    <3>3. Begin(w, u, u, NoHost, "codeRow") \/ Begin(w, u, u, userip[u], "delete")
      BY <2>3 DEF Deploy, Kill
    <3>5. userip[u] \in Hosts \cup {NoHost}
      BY DEF TypeInv, TypeOK
    <3>4. QED
      BY <3>1, <3>2, <3>3, <3>5, BeginJob
  <2>4. ASSUME NEW w \in Workers, CountDomains(w) \/ InsertDomain(w) PROVE TypeInv'
    <3>1. StoresOK' /\ pc[w] \in Asking
      BY <2>0, <2>1, <2>4 DEF CountDomains, InsertDomain, tables, StoresOK, Asking
    <3>2. Return(w) \/ GoTo(w, "insert") \/ GoTo(w, "getIP")
      BY <2>4 DEF CountDomains, InsertDomain
    <3>3. QED
      BY <3>1, <3>2, ReturnTypes, GoToAsking
  <2>5. ASSUME NEW w \in Workers, NEW found \in BOOLEAN, GetIPFromUID(w, found) PROVE TypeInv'
    <3>1. uid[w] \in Users
      BY <2>0, <2>5 DEF GetIPFromUID
    <3>2. QED
      BY <2>5, <3>1 DEF GetIPFromUID, stores, tables, TypeInv, TypeOK, LocalsOK, Calls, Asking, Deployed, Killed
  <2>6. ASSUME NEW w \in Workers, AddNewConf(w) \/ RemoveConf(w) PROVE TypeInv'
    <3>1. ip[w] \in Hosts \cup {NoHost, Nowhere}
      BY DEF TypeInv, TypeOK
    <3>2. StoresOK' /\ Return(w)
      BY <2>0, <2>6, <3>1 DEF AddNewConf, RemoveConf, tables, StoresOK
    <3>3. QED
      BY <3>2, ReturnTypes
  <2>7. ASSUME NEW w \in Workers, RemoveDomain(w) PROVE TypeInv'
    <3>1. StoresOK' /\ pc[w] = "removeRow" /\ GoTo(w, "removeConf")
      BY <2>0, <2>7 DEF RemoveDomain, DeleteRows, StoresOK
    <3>2. QED
      BY <3>1, GoToAsking DEF Asking
  <2>8. ASSUME NEW w \in Workers, Deploying(w) PROVE TypeInv'
    <3>1. StoresOK' /\ pc[w] \in Deployed
      BY <2>0, <2>8
      DEF Deploying, AddCodeDomain, AddCodeConf, CreateInstanceRow, tables, StoresOK, Deployed
    <3>2. {"codeConf", "instanceRow"} \subseteq Deployed
      BY DEF Deployed
    <3>3. Return(w) \/ GoTo(w, "codeConf") \/ GoTo(w, "instanceRow")
      BY <2>8 DEF Deploying, AddCodeDomain, AddCodeConf, CreateInstanceRow
    <3>4. QED
      BY <3>1, <3>2, <3>3, ReturnTypes, GoToJob
  <2>9. ASSUME NEW w \in Workers,
               DeleteContainer(w) \/ RemoveCodeDomain(w) \/ RemoveCodeConf(w) \/ RemoveInstance(w)
               \/ DeleteUserDomains(w)
        PROVE  TypeInv'
    <3>1. StoresOK' /\ pc[w] \in Killed
      BY <2>0, <2>9
      DEF DeleteContainer, RemoveCodeDomain, RemoveCodeConf, RemoveInstance, DeleteUserDomains,
          DeleteRows, tables, StoresOK, Killed
    <3>2. {"undomain", "unconf", "dbRemove", "list"} \subseteq Killed
      BY DEF Killed
    <3>3. \/ Return(w) \/ GoTo(w, "undomain") \/ GoTo(w, "unconf") \/ GoTo(w, "dbRemove")
          \/ GoTo(w, "list")
      BY <2>9
      DEF DeleteContainer, RemoveCodeDomain, RemoveCodeConf, RemoveInstance, DeleteUserDomains
    <3>4. QED
      BY <3>1, <3>2, <3>3, ReturnTypes, GoToJob
  <2>10. ASSUME NEW w \in Workers, GetUserDomains(w) PROVE TypeInv'
    <3>1. UserDomains(uid[w]) \subseteq Domain
      BY DEF UserDomains, Rows
    <3>2. QED
      BY <2>10, <3>1
      DEF GetUserDomains, stores, tables, TypeInv, TypeOK, LocalsOK, Calls, Asking, Deployed, Killed
  <2>11. ASSUME NEW w \in Workers, NEW removed \in BOOLEAN, CleanUp(w, removed) PROVE TypeInv'
    <3>1. listed[w] \subseteq Domain
      BY DEF TypeInv, TypeOK
    <3>2. StoresOK'
      BY <2>0, <2>11, <3>1 DEF CleanUp, tables, StoresOK
    <3>3. CASE GoTo(w, "deleteRows")
      BY <2>11, <3>2, <3>3, GoToJob DEF CleanUp, Killed
    <3>4. ASSUME NEW d \in listed[w], listed' = [listed EXCEPT ![w] = @ \ {d}],
                 UNCHANGED <<pc, uid, name, ip>>
          PROVE  TypeInv'
      BY <3>2, <3>4 DEF StoresOK, TypeInv, TypeOK, LocalsOK
    <3>5. QED
      BY <2>11, <3>3, <3>4 DEF CleanUp
  <2>12. ASSUME NEW w \in Workers, CallFails(w) PROVE TypeInv'
    <3>1. CASE Return(w) /\ UNCHANGED stores
      BY <2>1, <3>1, ReturnTypes
    <3>2. CASE Panic
      BY <2>0, <2>1, <3>2 DEF Panic, StoresOK, TypeInv, TypeOK, LocalsOK, Asking, Deployed, Killed
    <3>3. QED
      BY <2>5, <2>11, <2>12, <3>1, <3>2 DEF CallFails
  <2>13. CASE UNCHANGED vars
    BY <2>13 DEF vars, stores, tables, locals, TypeInv, TypeOK, LocalsOK
  <2>14. QED
    BY <2>2, <2>3, <2>4, <2>5, <2>6, <2>7, <2>8, <2>9, <2>10, <2>11, <2>12, <2>13
    DEF Next, Succeeds, Publishing, Removing, Killing
<1>3. QED
  BY <1>1, <1>2, PTL DEF Spec

\* The type invariant by itself, as the run checks it.
THEOREM Typing == Spec => []TypeOK
<1>1. TypeInv => TypeOK
  BY DEF TypeInv
<1>2. QED
  BY <1>1, TypingInv, PTL

-----------------------------------------------------------------------------
(* What a step of one worker leaves alone *)

\* The history knows every user with two operations at work.
OverlapSeen ==
  \A v, w \in Workers : v # w /\ uid[v] = uid[w] /\ pc[v] # "idle" /\ pc[w] # "idle" => uid[v] \in overlapped

\* With its history the specification does what it does without.
LEMMA HistoryIsSpec == HistorySpec => Spec
<1>1. HistoryInit => Init
  BY DEF HistoryInit
<1>2. [HistoryNext]_<<vars, history>> => [Next]_vars
  BY DEF HistoryNext, Next
<1>3. QED
  BY <1>1, <1>2, PTL DEF HistorySpec, Spec

\* So it keeps the types as well.
LEMMA HistoryTypes == HistorySpec => []TypeInv
BY HistoryIsSpec, TypingInv, PTL

\* The workers other than w stay where they are.
OthersWait(w) ==
  \A v \in Workers \ {w} :
    /\ pc'[v] = pc[v] /\ uid'[v] = uid[v] /\ name'[v] = name[v]
    /\ ip'[v] = ip[v] /\ listed'[v] = listed[v]

\* A step is one worker's, unless it is a panic.
LEMMA OthersDo ==
  ASSUME TypeInv, NEW w \in Workers, Succeeds(w) \/ CallFails(w)
  PROVE  /\ Succeeds(w) => OthersWait(w)
         /\ OthersWait(w) \/ Panic
<1> USE DEF TypeInv, TypeOK, OthersWait
<1>1. ASSUME NEW u \in Users, NEW d, NEW h, NEW step, Begin(w, u, d, h, step) PROVE OthersWait(w)
  BY <1>1 DEF Begin
<1>2. CASE Return(w)
  BY <1>2 DEF Return
<1>3. ASSUME NEW step, GoTo(w, step) PROVE OthersWait(w)
  BY <1>3 DEF GoTo
<1>4. ASSUME NEW found, GetIPFromUID(w, found) PROVE OthersWait(w)
  BY <1>4 DEF GetIPFromUID
<1>5. CASE GetUserDomains(w)
  BY <1>5 DEF GetUserDomains
<1>6. ASSUME NEW removed, CleanUp(w, removed) PROVE OthersWait(w)
  BY <1>3, <1>6 DEF CleanUp
<1>7. CASE \E u \in Users :
             \/ Deploy(w, u) \/ Kill(w, u)
             \/ \E d \in Domain : AddUserDomain(w, u, d) \/ RemoveUserDomain(w, u, d)
  BY <1>1, <1>7 DEF Deploy, Kill, AddUserDomain, RemoveUserDomain
<1>8. CASE CountDomains(w) \/ InsertDomain(w) \/ AddNewConf(w) \/ Removing(w) \/ Deploying(w)
  BY <1>2, <1>3, <1>8
  DEF CountDomains, InsertDomain, AddNewConf, Removing, RemoveDomain, RemoveConf,
      Deploying, AddCodeDomain, AddCodeConf, CreateInstanceRow
<1>9. CASE DeleteContainer(w) \/ RemoveCodeDomain(w) \/ RemoveCodeConf(w) \/ RemoveInstance(w)
           \/ DeleteUserDomains(w)
  BY <1>2, <1>3, <1>9
  DEF DeleteContainer, RemoveCodeDomain, RemoveCodeConf, RemoveInstance, DeleteUserDomains
<1>10. Succeeds(w) => OthersWait(w)
  BY <1>4, <1>5, <1>6, <1>7, <1>8, <1>9 DEF Succeeds, Publishing, Killing
<1>11. CallFails(w) => OthersWait(w) \/ Panic
  BY <1>2, <1>4, <1>6 DEF CallFails
<1>12. QED
  BY <1>10, <1>11

\* The history sees two operations of one user as soon as the second begins.
LEMMA OverlapHolds == HistorySpec => []OverlapSeen
<1>1. HistoryInit => OverlapSeen
  BY DEF HistoryInit, Init, OverlapSeen
<1>2. OverlapSeen /\ TypeInv' /\ [HistoryNext]_<<vars, history>> => OverlapSeen'
  <2> SUFFICES ASSUME OverlapSeen, TypeInv', [HistoryNext]_<<vars, history>> PROVE OverlapSeen'
    OBVIOUS
  <2>1. CASE overlapped' = overlapped \cup Overlapping'
    BY <2>1 DEF TypeInv, LocalsOK, OverlapSeen, Overlapping
  <2>2. CASE UNCHANGED <<vars, history>>
    BY <2>2 DEF vars, locals, history, OverlapSeen
  <2>3. QED
    BY <2>1, <2>2 DEF HistoryNext
<1>3. QED
  BY <1>1, <1>2, HistoryTypes, PTL DEF HistorySpec

-----------------------------------------------------------------------------
(* The limit *)

\* A worker that has been let past the count still finds room for its row.
RoomInv ==
  \A w \in Workers :
    pc[w] = "insert" /\ uid[w] \notin overlapped => Cardinality(Rows(uid[w])) < Limit

LimitInv == LimitUnlessOverlapped /\ RoomInv

\* The domains of a user are finitely many, those he publishes among them.
LEMMA RowsFinite ==
  ASSUME IsFiniteSet(Domain), NEW u
  PROVE  /\ IsFiniteSet(Rows(u)) /\ Cardinality(Rows(u)) \in Nat
         /\ IsFiniteSet(UserDomains(u)) /\ Cardinality(UserDomains(u)) \in Nat
         /\ Cardinality(UserDomains(u)) <= Cardinality(Rows(u))
<1>1. Rows(u) \in SUBSET Domain /\ UserDomains(u) \in SUBSET Rows(u)
  BY DEF Rows, UserDomains
<1>2. QED
  BY <1>1, FS_Subset, FS_CardinalityType

\* What a step does to the rows: only its own user's change, and only an INSERT
\* after a count adds a user domain.
LEMMA RowsStep ==
  ASSUME TypeInv, NEW w \in Workers, Succeeds(w) \/ CallFails(w)
  PROVE  \/ UNCHANGED tables
         \/ /\ pc[w] # "idle" /\ pc'[w] # "insert"
            /\ \A u \in Users : u # uid[w] => Rows(u)' = Rows(u)
            /\ \A u \in Users :
                 \/ UserDomains(u)' \subseteq UserDomains(u)
                 \/ /\ pc[w] = "insert" /\ uid[w] = u
                    /\ UserDomains(u)' \subseteq UserDomains(u) \cup {name[w]}
<1>1. \/ Panic \/ UNCHANGED tables
      \/ InsertDomain(w) \/ RemoveDomain(w) \/ AddCodeDomain(w) \/ RemoveCodeDomain(w)
      \/ DeleteUserDomains(w)
  BY DEF Succeeds, CallFails, Deploy, Kill, AddUserDomain, RemoveUserDomain, Publishing, CountDomains,
     GetIPFromUID, AddNewConf, Removing, RemoveConf, Deploying, AddCodeConf, CreateInstanceRow,
     Killing, DeleteContainer, RemoveCodeConf, RemoveInstance, GetUserDomains, CleanUp, stores
<1> USE DomainsAssumption
<1>2. CASE InsertDomain(w)
  <2>1. /\ pc[w] = "insert" /\ uid[w] \in Users /\ pc'[w] \in {"getIP", "idle"}
        /\ \/ domains' = [domains EXCEPT ![name[w]] = uid[w]] /\ domains[name[w]] = NoUser
           \/ UNCHANGED domains
        /\ domains \in [Domain -> Users \cup {NoUser}] /\ code' = code
    BY <1>2 DEF InsertDomain, GoTo, Return, TypeInv, TypeOK, LocalsOK
  <2>2. QED
    BY <2>1 DEF UserDomains, Rows
<1>3. CASE AddCodeDomain(w)
  <2>1. /\ pc[w] = "codeRow" /\ name[w] \in Users /\ uid[w] \in Users /\ pc'[w] \in {"codeConf", "idle"}
        /\ \/ /\ domains' = [domains EXCEPT ![name[w]] = uid[w]] /\ domains[name[w]] = NoUser
              /\ code' = code \cup {name[w]}
           \/ UNCHANGED tables
        /\ domains \in [Domain -> Users \cup {NoUser}]
    BY <1>3 DEF AddCodeDomain, GoTo, Return, TypeInv, TypeOK, LocalsOK, Deployed
  <2>2. QED
    BY <2>1 DEF UserDomains, Rows, tables
<1>4. ASSUME NEW names, DeleteRows(w, names), pc[w] # "idle", pc'[w] # "insert" 
      PROVE  /\ \A u \in Users : u # uid[w] => Rows(u)' = Rows(u)
             /\ \A u \in Users : UserDomains(u)' \subseteq UserDomains(u)
  <2>1. uid[w] \in Users /\ domains \in [Domain -> Users \cup {NoUser}]
    BY <1>4 DEF TypeInv, TypeOK, LocalsOK
  <2>2. \A d \in Domain : domains'[d] = IF d \in names /\ domains[d] = uid[w] THEN NoUser ELSE domains[d]
    BY <1>4 DEF DeleteRows
  <2>3. ASSUME NEW u \in Users, u # uid[w] PROVE Rows(u)' = Rows(u)
    <3>1. \A d \in Domain : domains'[d] = u <=> domains[d] = u
      BY <2>1, <2>2, <2>3
    <3>2. QED
      BY <3>1 DEF Rows
  <2>4. ASSUME NEW u \in Users PROVE UserDomains(u)' \subseteq UserDomains(u)
    <3> SUFFICES ASSUME NEW d \in Domain, domains'[d] = u, d \notin code'
                 PROVE  domains[d] = u /\ d \notin code
      BY DEF UserDomains, Rows
    <3>1. domains[d] = u /\ ~(d \in names /\ domains[d] = uid[w])
      <4>1. domains'[d] # NoUser
        OBVIOUS
      <4>2. QED
        BY <2>2, <4>1
    <3>2. d \notin names \cap Rows(uid[w])
      BY <3>1 DEF Rows
    <3>3. QED
      BY <1>4, <3>1, <3>2 DEF DeleteRows
  <2>5. QED
    BY <2>3, <2>4
<1>5. CASE RemoveDomain(w) \/ RemoveCodeDomain(w) \/ DeleteUserDomains(w)
  <2>1. /\ pc[w] # "idle" /\ pc'[w] # "insert"
        /\ DeleteRows(w, {name[w]}) \/ DeleteRows(w, Domain)
    BY <1>5 DEF RemoveDomain, RemoveCodeDomain, DeleteUserDomains, GoTo, Return, TypeInv, TypeOK
  <2>2. QED
    BY <1>4, <2>1
<1>6. QED
  BY <1>1, <1>2, <1>3, <1>5 DEF Panic, stores

\* One INSERT after a count that left room keeps the user within the limit.
LEMMA OneMore ==
  ASSUME NEW S, IsFiniteSet(S), Cardinality(S) < Limit, NEW x, NEW T, T \subseteq S \cup {x}
  PROVE  Cardinality(T) <= Limit
<1>1. Cardinality(S) \in Nat /\ Limit \in Nat
  BY FS_CardinalityType, DomainsAssumption
<1>2. IsFiniteSet(S \cup {x}) /\ Cardinality(S \cup {x}) \in Nat /\ Cardinality(S \cup {x}) <= Cardinality(S) + 1
  <2>1. /\ IsFiniteSet(S \cup {x})
        /\ Cardinality(S \cup {x}) = IF x \in S THEN Cardinality(S) ELSE Cardinality(S) + 1
    BY FS_AddElement
  <2>2. QED
    BY <1>1, <2>1
<1>3. T \in SUBSET (S \cup {x})
  OBVIOUS
<1>4. Cardinality(T) \in Nat /\ Cardinality(T) <= Cardinality(S \cup {x})
  BY <1>2, <1>3, FS_Subset, FS_CardinalityType
<1>5. QED
  BY <1>1, <1>2, <1>4

\* Fewer domains of a user are no more of them.
LEMMA NoMore ==
  ASSUME NEW S, IsFiniteSet(S), NEW T, T \subseteq S
  PROVE  Cardinality(T) <= Cardinality(S) /\ Cardinality(T) \in Nat /\ Cardinality(S) \in Nat
<1>1. T \in SUBSET S
  OBVIOUS
<1>2. QED
  BY <1>1, FS_Subset, FS_CardinalityType

\* A step keeps every user who has not overlapped himself within the limit.
LEMMA LimitNext ==
  ASSUME IsFiniteSet(Domain), TypeInv, OverlapSeen, LimitInv, NEW w \in Workers,
         Succeeds(w) \/ CallFails(w), overlapped \subseteq overlapped'
  PROVE  LimitInv'
<1> USE DomainsAssumption
<1>1. ASSUME NEW u \in Users \ overlapped' PROVE WithinLimit(u)'
  <2>1. /\ IsFiniteSet(UserDomains(u)) /\ Cardinality(UserDomains(u)) \in Nat
        /\ Cardinality(UserDomains(u)) <= Limit
        /\ pc[w] = "insert" /\ uid[w] = u => Cardinality(UserDomains(u)) < Limit
    <3>1. pc[w] = "insert" /\ uid[w] = u => Cardinality(Rows(u)) < Limit
      BY <1>1 DEF LimitInv, RoomInv
    <3>2. QED
      BY <1>1, <3>1, RowsFinite DEF LimitInv, LimitUnlessOverlapped, WithinLimit
  <2>2. \/ UserDomains(u)' \subseteq UserDomains(u)
        \/ pc[w] = "insert" /\ uid[w] = u /\ UserDomains(u)' \subseteq UserDomains(u) \cup {name[w]}
    <3>1. CASE UNCHANGED tables
      BY <3>1 DEF UserDomains, Rows, tables
    <3>2. CASE ~UNCHANGED tables
      BY <3>2, RowsStep
    <3>3. QED
      BY <3>1, <3>2
  <2> DEFINE old == UserDomains(u)
             new == UserDomains(u)'
  <2>3. /\ IsFiniteSet(old) /\ Cardinality(old) <= Limit
        /\ \/ new \subseteq old
           \/ Cardinality(old) < Limit /\ new \subseteq old \cup {name[w]}
    BY <2>1, <2>2
  <2> HIDE DEF old, new
  <2>4. Cardinality(new) <= Limit
    BY <2>3, OneMore, NoMore
  <2>5. QED
    BY <2>4 DEF new, WithinLimit
<1>2. ASSUME NEW v \in Workers, pc'[v] = "insert", uid'[v] \notin overlapped'
      PROVE  Cardinality({d \in Domain : domains'[d] = uid'[v]}) < Limit
  <2>1. ~Panic
    BY <1>2 DEF Panic
  <2>2. OthersWait(w)
    BY <2>1, OthersDo
  <2>3. CASE v # w
    <3>1. pc[v] = "insert" /\ uid[v] = uid'[v] /\ uid[v] \in Users
      BY <1>2, <2>2, <2>3 DEF OthersWait, TypeInv, LocalsOK
    <3>2. pc[w] # "idle" => uid[w] # uid[v]
      BY <1>2, <2>3, <3>1 DEF OverlapSeen
    <3>3. {d \in Domain : domains'[d] = uid'[v]} = Rows(uid[v])
      BY <3>1, <3>2, RowsStep DEF Rows, tables
    <3>4. Cardinality(Rows(uid[v])) < Limit
      BY <1>2, <3>1 DEF LimitInv, RoomInv
    <3>5. QED
      BY <3>3, <3>4
  <2>4. CASE v = w
    <3>1. CountDomains(w)
      BY <1>2, <2>4
      DEF Succeeds, CallFails, Panic, Deploy, Kill, AddUserDomain, RemoveUserDomain, Begin, Publishing,
          InsertDomain, GetIPFromUID, AddNewConf, Removing, RemoveDomain, RemoveConf, Deploying,
          AddCodeDomain, AddCodeConf, CreateInstanceRow, Killing, DeleteContainer, RemoveCodeDomain,
          RemoveCodeConf, RemoveInstance, GetUserDomains, CleanUp, DeleteUserDomains, GoTo, Return,
          TypeInv, TypeOK
    <3>2. ~CountAtLimit(uid[w]) /\ UNCHANGED <<domains, uid>>
      BY <1>2, <2>4, <3>1 DEF CountDomains, Return, GoTo, stores, tables, TypeInv, TypeOK
    <3>3. Cardinality(Rows(uid[w])) < Limit
      BY <3>2, RowsFinite DEF CountAtLimit
    <3>4. QED
      BY <2>4, <3>2, <3>3 DEF Rows
  <2>5. QED
    BY <2>3, <2>4
<1>3. QED
  BY <1>1, <1>2 DEF LimitInv, LimitUnlessOverlapped, RoomInv, Rows

\* Whatever fails and whatever other users do: a user whose operations never overlapped
\* has at most USER_DOMAIN_LIMIT user domains.  The code domain counts when a domain is
\* asked for, and comes and goes without a count.
THEOREM LimitHolds ==
  ASSUME IsFiniteSet(Domain)
  PROVE  HistorySpec => []LimitUnlessOverlapped
<1>1. HistoryInit => LimitInv
  <2> SUFFICES ASSUME HistoryInit PROVE LimitInv
    OBVIOUS
  <2>1. \A u \in Users : UserDomains(u) = {}
    BY DomainsAssumption DEF HistoryInit, Init, UserDomains, Rows
  <2>2. \A u \in Users : Cardinality(UserDomains(u)) = 0
    BY <2>1, FS_EmptySet
  <2>3. QED
    BY <2>2, DomainsAssumption DEF HistoryInit, Init, LimitInv, LimitUnlessOverlapped, WithinLimit, RoomInv
<1>2. TypeInv /\ OverlapSeen /\ LimitInv /\ [HistoryNext]_<<vars, history>> => LimitInv'
  <2> SUFFICES ASSUME TypeInv, OverlapSeen, LimitInv, [HistoryNext]_<<vars, history>> PROVE LimitInv'
    OBVIOUS
  <2>1. CASE UNCHANGED <<vars, history>>
    BY <2>1
    DEF vars, stores, tables, locals, history, LimitInv, LimitUnlessOverlapped, WithinLimit, RoomInv, UserDomains, Rows
  <2>2. CASE HistoryNext
    <3>1. overlapped \subseteq overlapped'
      BY <2>2 DEF HistoryNext
    <3>2. PICK w \in Workers : Succeeds(w) \/ CallFails(w)
      BY <2>2 DEF HistoryNext
    <3>3. QED
      BY <3>1, <3>2, LimitNext
  <2>3. QED
    BY <2>1, <2>2
<1>3. LimitInv => LimitUnlessOverlapped
  BY DEF LimitInv
<1>4. QED
  BY <1>1, <1>2, <1>3, HistoryTypes, OverlapHolds, PTL DEF HistorySpec

-----------------------------------------------------------------------------
(* Instances, routes and files *)

\* An address that is recorded for a user is the one his container has.
Housed(v) == userip[v] # NoHost => container[v] = userip[v]

\* is_code says that the domain is the container's of its owner.
CodeOK == \A d \in code : d \in Users /\ domains[d] = d

\* How far a deploy or a kill has brought its own user's instance.
Progress(w) ==
  LET v == uid[w] IN
  /\ pc[w] \in Deployed => container[v] \in Hosts
  /\ pc[w] = "codeConf" => domains[v] = v
  /\ pc[w] \in Killed =>
       /\ ip[w] \in Hosts /\ userip[v] = NoHost
       /\ container[v] = IF pc[w] = "delete" THEN ip[w] ELSE NoHost
       /\ pc[w] \notin {"delete", "undomain"} => domains[v] # v

\* The domain being published is its user's.
Publishes(w) == pc[w] \in {"getIP", "write"} => domains[name[w]] = uid[w]

\* Kill lists its user's domains; what it has gone through and taken off the list
\* has no file any more.
Cleans(w) ==
  /\ pc[w] = "cleanup" => \A d \in listed[w] : domains[d] = uid[w]
  /\ pc[w] \in {"cleanup", "deleteRows"} =>
       \A d \in Domain : domains[d] = uid[w] => conf[d] = NoHost \/ (pc[w] = "cleanup" /\ d \in listed[w])

WorkInv ==
  /\ \A v \in Users : Housed(v)
  /\ CodeOK
  /\ \A w \in Workers : Progress(w) /\ Publishes(w) /\ Cleans(w)

\* No other operation is at work for the user whom w works, or begins to work, for.
Alone(w) ==
  \A v \in Workers \ {w} : pc[v] # "idle" =>
    (pc[w] # "idle" => uid[v] # uid[w]) /\ (pc'[w] # "idle" => uid[v] # uid'[w])

\* What w's step may change: its own user's instance, rows that are its user's or
\* become so, and files that go or whose domain is its user's.
ActsFor(w) ==
  /\ \A x \in Users : (pc[w] # "idle" /\ x = uid[w]) \/ (pc'[w] # "idle" /\ x = uid'[w]) \/
       (userip'[x] = userip[x] /\ container'[x] = container[x])
  /\ \A d \in Domain :
       \/ domains'[d] = domains[d]
       \/ /\ pc[w] # "idle"
          /\ \/ domains[d] = NoUser /\ domains'[d] = uid[w]
             \/ domains[d] = uid[w] /\ domains'[d] = NoUser
  /\ \A d \in Domain :
       \/ conf'[d] = conf[d] \/ conf'[d] = NoHost
       \/ pc[w] # "idle" /\ domains[d] = uid[w]

\* A step that succeeds acts for its own user.
LEMMA ActsForItsUser ==
  ASSUME TypeInv, WorkInv, NEW w \in Workers, Succeeds(w)
  PROVE  ActsFor(w)
<1> USE DomainsAssumption
    DEF tables, TypeInv, TypeOK, LocalsOK, ActsFor, Asking, Deployed, Killed
<1>1. ASSUME NEW u \in Users, NEW d \in Domain, AddUserDomain(w, u, d) \/ RemoveUserDomain(w, u, d)
      PROVE  ActsFor(w)
  BY <1>1 DEF AddUserDomain, RemoveUserDomain, Begin, stores
<1>2. CASE CountDomains(w) \/ GetIPFromUID(w, TRUE) \/ GetUserDomains(w)
  BY <1>2 DEF CountDomains, GetIPFromUID, GetUserDomains, stores
<1>3. CASE InsertDomain(w)
  BY <1>3 DEF InsertDomain
<1>4. CASE AddNewConf(w)
  <2>1. domains[name[w]] = uid[w]
    BY <1>4 DEF AddNewConf, WorkInv, Publishes
  <2>2. QED
    BY <1>4, <2>1 DEF AddNewConf
<1>5. CASE RemoveDomain(w)
  BY <1>5 DEF RemoveDomain, DeleteRows
<1>6. CASE RemoveConf(w) \/ RemoveCodeConf(w)
  BY <1>6 DEF RemoveConf, RemoveCodeConf
<1>7. ASSUME NEW u \in Users, Deploy(w, u) PROVE ActsFor(w)
  BY <1>7 DEF Deploy, Begin
<1>8. CASE AddCodeDomain(w)
  BY <1>8 DEF AddCodeDomain
<1>9. CASE AddCodeConf(w)
  <2>1. domains[name[w]] = uid[w]
    BY <1>9 DEF AddCodeConf, WorkInv, Progress
  <2>2. QED
    BY <1>9, <2>1 DEF AddCodeConf
<1>10. CASE CreateInstanceRow(w)
  BY <1>10 DEF CreateInstanceRow
<1>11. ASSUME NEW u \in Users, Kill(w, u) PROVE ActsFor(w)
  BY <1>11 DEF Kill, Begin
<1>12. CASE DeleteContainer(w)
  BY <1>12 DEF DeleteContainer
<1>13. CASE RemoveCodeDomain(w)
  BY <1>13 DEF RemoveCodeDomain, DeleteRows
<1>14. CASE RemoveInstance(w)
  BY <1>14 DEF RemoveInstance
<1>15. CASE CleanUp(w, TRUE)
  BY <1>15 DEF CleanUp
<1>16. CASE DeleteUserDomains(w)
  BY <1>16 DEF DeleteUserDomains, DeleteRows
<1> HIDE DEF tables, TypeInv, TypeOK, LocalsOK, ActsFor, Asking, Deployed, Killed
<1>17. QED
  BY <1>1, <1>2, <1>3, <1>4, <1>5, <1>6, <1>7, <1>8, <1>9, <1>10, <1>11, <1>12, <1>13, <1>14,
     <1>15, <1>16
  DEF Succeeds, Publishing, Removing, Deploying, Killing

\* is_code comes with the row that it is about, and goes with it.
LEMMA CodeStep ==
  ASSUME TypeInv, WorkInv, NEW w \in Workers, Succeeds(w)
  PROVE  CodeOK'
<1> USE DomainsAssumption DEF CodeOK
<1>1. CodeOK /\ code \subseteq Domain /\ domains \in [Domain -> Users \cup {NoUser}]
  BY DEF WorkInv, TypeInv, TypeOK
<1>2. CASE UNCHANGED tables
  BY <1>1, <1>2 DEF tables
<1>3. CASE InsertDomain(w)
  BY <1>1, <1>3 DEF InsertDomain
<1>4. CASE AddCodeDomain(w)
  <2>1. name[w] = uid[w] /\ uid[w] \in Users
    BY <1>4 DEF AddCodeDomain, TypeInv, LocalsOK, Deployed
  <2>2. QED
    BY <1>1, <1>4, <2>1 DEF AddCodeDomain, Domain, tables
<1>5. ASSUME NEW names, DeleteRows(w, names) PROVE CodeOK'
  <2> SUFFICES ASSUME NEW d \in code' PROVE d \in Users /\ domains'[d] = d
    OBVIOUS
  <2>1. d \in code /\ d \notin names \cap Rows(uid[w])
    BY <1>5 DEF DeleteRows
  <2>2. d \in Domain /\ ~(d \in names /\ domains[d] = uid[w])
    BY <1>1, <2>1 DEF Rows
  <2>3. domains'[d] = domains[d]
    BY <1>5, <2>2 DEF DeleteRows
  <2>4. QED
    BY <1>1, <2>1, <2>3
<1>6. QED
  BY <1>2, <1>3, <1>4, <1>5
  DEF Succeeds, Deploy, Kill, AddUserDomain, RemoveUserDomain, Publishing, CountDomains, GetIPFromUID,
      AddNewConf, Removing, RemoveDomain, RemoveConf, Deploying, AddCodeConf, CreateInstanceRow,
      Killing, DeleteContainer, RemoveCodeDomain, RemoveCodeConf, RemoveInstance, GetUserDomains,
      CleanUp, DeleteUserDomains, stores

\* The own part: what w's step does for its user and its own progress.
LEMMA OwnWork ==
  ASSUME TypeInv, WorkInv, NEW w \in Workers, Succeeds(w)
  PROVE  /\ Progress(w)' /\ Publishes(w)' /\ Cleans(w)'
         /\ \A x \in Users : Housed(x)'
<1> DEFINE Goal == Progress(w)' /\ Publishes(w)' /\ Cleans(w)' /\ \A x \in Users : Housed(x)'
<1>w. /\ Progress(w) /\ Publishes(w) /\ Cleans(w)
      /\ \A x \in Users : Housed(x)
  BY DEF WorkInv
<1> USE DomainsAssumption
    DEF stores, tables, Domain, Asking, Deployed, Killed, TypeInv, TypeOK, LocalsOK, Progress, Housed,
        Publishes, Cleans
<1>1. ASSUME NEW u \in Users, NEW d \in Domain, AddUserDomain(w, u, d) \/ RemoveUserDomain(w, u, d)
      PROVE  Goal
  BY <1>1, <1>w DEF AddUserDomain, RemoveUserDomain, Begin
<1>2. CASE CountDomains(w)
  BY <1>2, <1>w DEF CountDomains, Return, GoTo
<1>3. CASE InsertDomain(w)
  BY <1>3, <1>w DEF InsertDomain, Return, GoTo
<1>4. CASE GetIPFromUID(w, TRUE)
  BY <1>4, <1>w DEF GetIPFromUID
<1>5. CASE AddNewConf(w)
  BY <1>5, <1>w DEF AddNewConf, Return
<1>6. CASE RemoveDomain(w)
  BY <1>6, <1>w DEF RemoveDomain, DeleteRows, GoTo
<1>7. CASE RemoveConf(w)
  BY <1>7, <1>w DEF RemoveConf, Return
<1>8. ASSUME NEW u \in Users, Deploy(w, u) PROVE Goal
  BY <1>8, <1>w DEF Deploy, Begin
<1>9. CASE AddCodeDomain(w)
  BY <1>9, <1>w DEF AddCodeDomain, GoTo, Return
<1>10. CASE AddCodeConf(w)
  BY <1>10, <1>w DEF AddCodeConf, GoTo
<1>11. CASE CreateInstanceRow(w)
  BY <1>11, <1>w DEF CreateInstanceRow, Return
<1>12. ASSUME NEW u \in Users, Kill(w, u) PROVE Goal
  BY <1>12, <1>w DEF Kill, Begin
<1>13. CASE DeleteContainer(w)
  BY <1>13, <1>w DEF DeleteContainer, GoTo
<1>14. CASE RemoveCodeDomain(w)
  BY <1>14, <1>w DEF RemoveCodeDomain, DeleteRows, GoTo
<1>15. CASE RemoveCodeConf(w)
  BY <1>15, <1>w DEF RemoveCodeConf, GoTo
<1>16. CASE RemoveInstance(w)
  BY <1>16, <1>w DEF RemoveInstance, GoTo, Return
<1>17. CASE GetUserDomains(w)
  BY <1>17, <1>w DEF GetUserDomains, UserDomains, Rows, WorkInv, CodeOK
<1>18. CASE CleanUp(w, TRUE)
  BY <1>18, <1>w DEF CleanUp, GoTo
<1>19. CASE DeleteUserDomains(w)
  BY <1>19, <1>w DEF DeleteUserDomains, DeleteRows, Return
<1> HIDE DEF stores, tables, Domain, Asking, Deployed, Killed, TypeInv, TypeOK, LocalsOK, Progress, Housed,
        Publishes, Cleans
<1>20. QED
  BY <1>1, <1>2, <1>3, <1>4, <1>5, <1>6, <1>7, <1>8, <1>9, <1>10, <1>11, <1>12, <1>13, <1>14,
     <1>15, <1>16, <1>17, <1>18, <1>19
  DEF Succeeds, Publishing, Removing, Deploying, Killing

\* A step for one user leaves the work of the others in order.
LEMMA WorkStep ==
  ASSUME TypeInv, WorkInv, NEW w \in Workers, Succeeds(w), Alone(w)
  PROVE  WorkInv'
<1>a. ActsFor(w) /\ OthersWait(w)
  BY ActsForItsUser, OthersDo
<1>b. /\ Progress(w)' /\ Publishes(w)' /\ Cleans(w)'
      /\ \A x \in Users : Housed(x)'
  BY OwnWork
<1>1. ASSUME NEW v \in Workers \ {w} PROVE Progress(v)' /\ Publishes(v)' /\ Cleans(v)'
  <2>1. /\ pc'[v] = pc[v] /\ uid'[v] = uid[v] /\ name'[v] = name[v] /\ ip'[v] = ip[v]
        /\ listed'[v] = listed[v]
        /\ Progress(v) /\ Publishes(v) /\ Cleans(v)
    BY <1>a DEF OthersWait, WorkInv
  <2>2. CASE pc[v] = "idle"
    BY <2>1, <2>2 DEF Progress, Publishes, Cleans, Deployed, Killed
  <2>3. CASE pc[v] # "idle"
    <3>1. /\ uid[v] \in Users /\ NoUser \notin Users
          /\ pc[w] # "idle" => uid[v] # uid[w]
          /\ pc'[w] # "idle" => uid[v] # uid'[w]
      BY <2>3, DomainsAssumption DEF Alone, TypeInv, LocalsOK
    <3>2. userip'[uid[v]] = userip[uid[v]] /\ container'[uid[v]] = container[uid[v]]
      BY <1>a, <3>1 DEF ActsFor
    <3>3. \A d \in Domain : domains'[d] = uid[v] <=> domains[d] = uid[v]
      BY <1>a, <3>1 DEF ActsFor
    <3>4. domains'[uid[v]] = uid[v] <=> domains[uid[v]] = uid[v]
      BY <3>1, <3>3 DEF Domain
    <3>6. Progress(v)'
      BY <2>1, <3>2, <3>4 DEF Progress
    <3>7. Publishes(v)'
      <4>1. name[v] \in Domain
        BY <2>3, TypedName
      <4>2. QED
        BY <2>1, <3>3, <4>1 DEF Publishes
    <3>8. Cleans(v)'
      <4>1. listed[v] \subseteq Domain
        BY DEF TypeInv, TypeOK
      <4>2. \A d \in Domain : conf'[d] = conf[d] \/ conf'[d] = NoHost \/ domains[d] # uid[v]
        BY <1>a, <3>1 DEF ActsFor
      <4>3. QED
        BY <2>1, <3>3, <4>1, <4>2 DEF Cleans
    <3>9. QED
      BY <3>6, <3>7, <3>8
  <2>4. QED
    BY <2>2, <2>3
<1>2. CodeOK'
  BY CodeStep
<1>3. QED
  BY <1>1, <1>2, <1>b DEF WorkInv

\* The address of a user's container stays his until the kill that released it is done.
Holds(v, h) == container[v] = h \/ \E w \in Workers : pc[w] \in Killed /\ uid[w] = v /\ ip[w] = h

\* An address that was never given out while it was in use has one holder.
Distinct == \A h \in Hosts \ reused : \A u, v \in Users : Holds(u, h) /\ Holds(v, h) => u = v

\* The address about to be written is the publishing user's, or nobody's.
Addresses(w) == pc[w] = "write" => ip[w] = Nowhere \/ ip[w] = userip[uid[w]]

\* A file leads to the instance of its domain's owner, or its owner or his kill is
\* about to remove it.
Takes(w, d) ==
  \/ pc[w] = "removeConf" /\ name[w] = d /\ container[uid[w]] = conf[d]
  \/ /\ pc[w] \in Killed /\ ip[w] = conf[d]
     /\ domains[d] = uid[w] \/ (pc[w] = "unconf" /\ d = uid[w])

Leads(d) ==
  \/ domains[d] \in Users /\ container[domains[d]] = conf[d]
  \/ \E w \in Workers : Takes(w, d)

RouteInv ==
  /\ \A w \in Workers : Addresses(w)
  /\ \A d \in Domain : conf[d] \in Hosts => Leads(d)

\* A kill finds the row that it removes.
Finds(w) == pc[w] = "dbRemove" => uid[w] \in instance

\* A step makes a user the holder of an address by giving it out only.
LEMMA HolderStep ==
  ASSUME TypeInv, WorkInv, NEW w \in Workers, Succeeds(w), NEW u \in Users, NEW h \in Hosts, Holds(u, h)'
  PROVE  Holds(u, h) \/ (Deploy(w, u) /\ container'[u] = h)
<1> USE DomainsAssumption
<1>o. OthersWait(w)
  BY OthersDo
<1>1. CASE container'[u] = h /\ container[u] # h
  <2>1. \E v \in Users : Deploy(w, v)
    BY <1>1
    DEF Succeeds, Kill, AddUserDomain, RemoveUserDomain, Publishing, CountDomains, InsertDomain,
        GetIPFromUID, AddNewConf, Removing, RemoveDomain, RemoveConf, Deploying,
        AddCodeDomain, AddCodeConf, CreateInstanceRow, Killing, DeleteContainer, RemoveCodeDomain,
        RemoveCodeConf, RemoveInstance, GetUserDomains, CleanUp, DeleteUserDomains, stores,
        TypeInv, TypeOK
  <2>2. QED
    BY <1>1, <2>1 DEF Deploy, TypeInv, TypeOK
<1>2. ASSUME NEW v \in Workers, pc'[v] \in Killed, uid'[v] = u, ip'[v] = h PROVE Holds(u, h)
  <2>1. CASE v # w
    BY <1>o, <1>2, <2>1 DEF OthersWait, Holds
  <2>2. CASE v = w
    <3>1. Killing(w) \/ Kill(w, u)
      BY <1>2, <2>2
      DEF Killed, Succeeds, Deploy, Kill, AddUserDomain, RemoveUserDomain, Begin, Publishing, CountDomains,
          InsertDomain, GetIPFromUID, AddNewConf, Removing, RemoveDomain, RemoveConf, Deploying,
          AddCodeDomain, AddCodeConf, CreateInstanceRow, GoTo, Return, TypeInv, TypeOK
    <3>2. CASE Kill(w, u)
      <4>1. ip'[w] = userip[u] /\ container[u] = userip[u]
        BY <3>2 DEF Kill, Begin, WorkInv, Housed, TypeInv, TypeOK
      <4>2. QED
        BY <1>2, <2>2, <4>1 DEF Holds
    <3>3. CASE Killing(w)
      <4>1. pc[w] \in Killed /\ uid'[w] = uid[w] /\ ip'[w] = ip[w]
        BY <1>2, <2>2, <3>3
        DEF Killed, Killing, DeleteContainer, RemoveCodeDomain, RemoveCodeConf, RemoveInstance,
            GetUserDomains, CleanUp, DeleteUserDomains, GoTo, Return, TypeInv, TypeOK
      <4>2. QED
        BY <1>2, <2>2, <4>1 DEF Holds
    <3>4. QED
      BY <3>1, <3>2, <3>3
  <2>3. QED
    BY <2>1, <2>2
<1>3. QED
  BY <1>1, <1>2 DEF Holds

\* So an address that is never reused keeps one holder.
LEMMA DistinctStep ==
  ASSUME TypeInv, WorkInv, Distinct, NEW w \in Workers, Succeeds(w), reused' = reused \cup Reusing
  PROVE  Distinct'
<1> USE DomainsAssumption
<1> SUFFICES ASSUME NEW h \in Hosts, h \notin reused', NEW u \in Users, NEW v \in Users,
                    Holds(u, h)', Holds(v, h)'
             PROVE  u = v
  BY DEF Distinct
<1>1. h \notin reused /\ h \notin Reusing
  OBVIOUS
<1>2. ASSUME NEW x \in Users, Deploy(w, x), container'[x] = h, NEW y \in Users PROVE ~Holds(y, h)
  <2>1. container[x] = NoHost
    BY <1>2 DEF Deploy
  <2>2. ~InUse(h)
    BY <1>1, <1>2, <2>1 DEF Reusing
  <2>3. QED
    BY <2>2 DEF InUse, Holds
<1>3. ASSUME NEW x \in Users, NEW y \in Users, Deploy(w, x), Deploy(w, y) PROVE x = y
  BY <1>3 DEF Deploy, Begin, TypeInv, TypeOK
<1>4. Holds(u, h) \/ (Deploy(w, u) /\ container'[u] = h)
  BY HolderStep
<1>5. Holds(v, h) \/ (Deploy(w, v) /\ container'[v] = h)
  BY HolderStep
<1>6. QED
  BY <1>1, <1>2, <1>3, <1>4, <1>5 DEF Distinct

\* The address about to be written stays its user's.
LEMMA AddressStep ==
  ASSUME TypeInv, WorkInv, RouteInv, NEW w \in Workers, Succeeds(w), Alone(w)
  PROVE  \A v \in Workers : Addresses(v)'
<1> USE DomainsAssumption
<1>a. ActsFor(w) /\ OthersWait(w)
  BY ActsForItsUser, OthersDo
<1>2. ASSUME NEW v \in Workers PROVE Addresses(v)'
  <2>1. CASE v # w
    <3>1. /\ pc'[v] = pc[v] /\ uid'[v] = uid[v] /\ ip'[v] = ip[v] /\ Addresses(v)
      BY <1>a, <2>1 DEF OthersWait, RouteInv
    <3>2. pc[v] = "write" => userip'[uid[v]] = userip[uid[v]]
      BY <1>a, <2>1 DEF Alone, ActsFor, TypeInv, LocalsOK
    <3>3. QED
      BY <3>1, <3>2 DEF Addresses
  <2>2. CASE v = w /\ pc'[w] = "write"
    <3>1. GetIPFromUID(w, TRUE)
      BY <2>2
      DEF Succeeds, Deploy, Kill, AddUserDomain, RemoveUserDomain, Begin, Publishing, CountDomains,
          InsertDomain, AddNewConf, Removing, RemoveDomain, RemoveConf, Deploying,
          AddCodeDomain, AddCodeConf, CreateInstanceRow, Killing, DeleteContainer, RemoveCodeDomain,
          RemoveCodeConf, RemoveInstance, GetUserDomains, CleanUp, DeleteUserDomains, GoTo, Return,
          TypeInv, TypeOK
    <3>2. QED
      BY <2>2, <3>1 DEF GetIPFromUID, stores, Addresses, TypeInv, TypeOK
  <2>3. QED
    BY <2>1, <2>2 DEF Addresses
<1>3. QED
  BY <1>2

\* A file that a step leaves alone still leads where it should ...
LEMMA FileStays ==
  ASSUME TypeInv, WorkInv, RouteInv, NEW w \in Workers, Succeeds(w), Alone(w), Finds(w),
         NEW d \in Domain, conf'[d] = conf[d], conf[d] \in Hosts
  PROVE  Leads(d)'
<1> USE DomainsAssumption
<1>a. ActsFor(w) /\ OthersWait(w) /\ Leads(d)
  BY ActsForItsUser, OthersDo DEF RouteInv
<1>p. Progress(w) /\ Cleans(w)
  BY DEF WorkInv
<1>1. ASSUME NEW v \in Workers \ {w}, Takes(v, d) PROVE Takes(v, d)'
  <2>1. /\ pc'[v] = pc[v] /\ uid'[v] = uid[v] /\ name'[v] = name[v] /\ ip'[v] = ip[v] /\ pc[v] # "idle"
        /\ pc[w] # "idle" => uid[v] # uid[w]
        /\ pc'[w] # "idle" => uid[v] # uid'[w]
        /\ uid[v] \in Users /\ NoUser \notin Users
    BY <1>a, <1>1 DEF OthersWait, Alone, Takes, Killed, TypeInv, LocalsOK
  <2>2. (domains'[d] = uid[v] <=> domains[d] = uid[v]) /\ container'[uid[v]] = container[uid[v]]
    BY <1>a, <2>1 DEF ActsFor
  <2>3. QED
    BY <1>1, <2>1, <2>2 DEF Takes
<1>2. CASE domains[d] \in Users /\ container[domains[d]] = conf[d]
  <2> DEFINE x == domains[d]
  <2>1. CASE domains'[d] = x /\ container'[x] = container[x]
    BY <1>2, <2>1 DEF Leads
  <2>2. CASE domains'[d] # x
    <3>1. pc[w] # "idle" /\ x = uid[w] /\ domains'[d] = NoUser
      BY <1>a, <1>2, <2>2 DEF ActsFor
    <3>2. RemoveDomain(w) \/ RemoveCodeDomain(w) \/ DeleteUserDomains(w)
      BY <1>2, <2>2, <3>1
      DEF Succeeds, Deploy, Kill, AddUserDomain, RemoveUserDomain, Publishing, CountDomains, InsertDomain,
          GetIPFromUID, AddNewConf, Removing, RemoveConf, Deploying,
          AddCodeDomain, AddCodeConf, CreateInstanceRow, Killing, DeleteContainer,
          RemoveCodeConf, RemoveInstance, GetUserDomains, CleanUp, stores, tables, TypeInv, TypeOK
    <3>3. CASE RemoveDomain(w)
      <4>1. /\ name[w] = d /\ pc'[w] = "removeConf" /\ name'[w] = name[w] /\ uid'[w] = uid[w]
            /\ container' = container
        BY <2>2, <3>3 DEF RemoveDomain, DeleteRows, GoTo, TypeInv, TypeOK
      <4>2. QED
        BY <1>2, <3>1, <4>1 DEF Leads, Takes
    <3>4. CASE RemoveCodeDomain(w) \/ DeleteUserDomains(w)
      <4>1. container[uid[w]] = NoHost
        BY <1>p, <3>4 DEF Progress, RemoveCodeDomain, DeleteUserDomains, Killed
      <4>2. QED
        BY <1>2, <3>1, <4>1
    <3>5. QED
      BY <3>2, <3>3, <3>4
  <2>3. CASE domains'[d] = x /\ container'[x] # container[x]
    <3>1. Deploy(w, x) \/ (DeleteContainer(w) /\ x = uid[w])
      BY <1>2, <2>3
      DEF Succeeds, Deploy, Kill, AddUserDomain, RemoveUserDomain, Publishing, CountDomains, InsertDomain,
          GetIPFromUID, AddNewConf, Removing, RemoveDomain, RemoveConf, Deploying,
          AddCodeDomain, AddCodeConf, CreateInstanceRow, Killing, DeleteContainer, RemoveCodeDomain,
          RemoveCodeConf, RemoveInstance, GetUserDomains, CleanUp, DeleteUserDomains, stores,
          TypeInv, TypeOK
    <3>2. CASE Deploy(w, x)
      BY <1>2, <3>2 DEF Deploy
    <3>3. CASE DeleteContainer(w) /\ x = uid[w]
      <4>1. /\ pc'[w] = "undomain" /\ uid'[w] = uid[w] /\ ip'[w] = ip[w]
            /\ container[uid[w]] = ip[w]
        BY <1>p, <3>3 DEF DeleteContainer, GoTo, Progress, Killed, TypeInv, TypeOK
      <4>2. Takes(w, d)'
        BY <1>2, <2>3, <3>3, <4>1 DEF Takes, Killed
      <4>3. QED
        BY <4>2 DEF Leads
    <3>4. QED
      BY <3>1, <3>2, <3>3
  <2>4. QED
    BY <2>1, <2>2, <2>3
<1>3. CASE pc[w] = "removeConf" /\ name[w] = d
  <2>1. conf'[d] = NoHost
    BY <1>3
    DEF Succeeds, Deploy, Kill, AddUserDomain, RemoveUserDomain, Begin, Publishing, CountDomains, InsertDomain,
        GetIPFromUID, AddNewConf, Removing, RemoveDomain, RemoveConf, Deploying,
        AddCodeDomain, AddCodeConf, CreateInstanceRow, Killing, DeleteContainer, RemoveCodeDomain,
        RemoveCodeConf, RemoveInstance, GetUserDomains, CleanUp, DeleteUserDomains, TypeInv, TypeOK
  <2>2. QED
    BY <2>1
<1>4. CASE /\ pc[w] \in Killed /\ ip[w] = conf[d]
           /\ domains[d] = uid[w] \/ (pc[w] = "unconf" /\ d = uid[w])
  <2>1. Killing(w)
    BY <1>4
    DEF Killed, Succeeds, Deploy, Kill, AddUserDomain, RemoveUserDomain, Begin, Publishing,
        CountDomains, InsertDomain, GetIPFromUID, AddNewConf, Removing, RemoveDomain, RemoveConf,
        Deploying, AddCodeDomain, AddCodeConf, CreateInstanceRow
  <2>2. pc[w] = "unconf" /\ d = uid[w] => conf'[d] = NoHost
    BY <2>1
    DEF Killing, DeleteContainer, RemoveCodeDomain, RemoveCodeConf, RemoveInstance, GetUserDomains,
        CleanUp, DeleteUserDomains, TypeInv, TypeOK, LocalsOK, Killed
  <2>3. domains[d] = uid[w]
    BY <1>4, <2>2
  <2>4. ~DeleteUserDomains(w)
    BY <1>p, <2>3 DEF DeleteUserDomains, Cleans
  <2>6. pc'[w] \in Killed /\ uid'[w] = uid[w] /\ ip'[w] = ip[w]
    BY <2>1, <2>4
    DEF Finds, Killing, DeleteContainer, RemoveCodeDomain, RemoveCodeConf, RemoveInstance, GetUserDomains,
        CleanUp, GoTo, TypeInv, TypeOK, Killed
  <2>7. domains'[d] = uid[w] \/ (pc'[w] = "unconf" /\ d = uid[w])
    <3>1. CASE RemoveCodeDomain(w)
      BY <3>1, <2>3 DEF RemoveCodeDomain, DeleteRows, GoTo, TypeInv, TypeOK, LocalsOK, Killed
    <3>2. CASE ~RemoveCodeDomain(w)
      BY <3>2, <2>1, <2>3, <2>4
      DEF Killing, DeleteContainer, RemoveCodeConf, RemoveInstance, GetUserDomains, CleanUp, stores, tables
    <3>3. QED
      BY <3>1, <3>2
  <2>8. Takes(w, d)'
    BY <1>4, <2>6, <2>7 DEF Takes
  <2>9. QED
    BY <2>8 DEF Leads
<1>5. QED
  BY <1>a, <1>1, <1>2, <1>3, <1>4 DEF Leads, Takes

\* ... and one that it writes leads to the instance of the user it works for.
LEMMA FileWritten ==
  ASSUME TypeInv, WorkInv, RouteInv, NEW w \in Workers, Succeeds(w),
         NEW d \in Domain, conf'[d] # conf[d], conf'[d] \in Hosts
  PROVE  Leads(d)'
<1> USE DomainsAssumption
<1>1. (AddNewConf(w) \/ AddCodeConf(w)) /\ d = name[w]
  BY DEF Succeeds, Deploy, Kill, AddUserDomain, RemoveUserDomain, Publishing, CountDomains, InsertDomain,
         GetIPFromUID, AddNewConf, Removing, RemoveDomain, RemoveConf, Deploying,
         AddCodeDomain, AddCodeConf, CreateInstanceRow, Killing, DeleteContainer, RemoveCodeDomain,
         RemoveCodeConf, RemoveInstance, GetUserDomains, CleanUp, DeleteUserDomains, stores,
         TypeInv, TypeOK
<1>2. CASE AddNewConf(w)
  <2>1. /\ domains[d] = uid[w] /\ uid[w] \in Users
        /\ ip[w] = Nowhere \/ ip[w] = userip[uid[w]]
        /\ Housed(uid[w])
    BY <1>1, <1>2 DEF AddNewConf, WorkInv, Publishes, RouteInv, Addresses, TypeInv, LocalsOK
  <2>2. conf'[d] = ip[w] /\ UNCHANGED <<domains, container>>
    BY <1>1, <1>2 DEF AddNewConf, tables, TypeInv, TypeOK
  <2>3. container[uid[w]] = conf'[d]
    BY <2>1, <2>2 DEF Housed
  <2>4. QED
    BY <2>1, <2>2, <2>3 DEF Leads
<1>3. CASE AddCodeConf(w)
  <2>1. domains[d] = uid[w] /\ uid[w] \in Users
    BY <1>1, <1>3 DEF AddCodeConf, WorkInv, Progress, TypeInv, LocalsOK, Deployed
  <2>2. QED
    BY <1>1, <1>3, <2>1 DEF AddCodeConf, Leads, tables, TypeInv, TypeOK
<1>4. QED
  BY <1>1, <1>2, <1>3

\* Together: the files lead to their owners.
LEMMA RouteStep ==
  ASSUME TypeInv, WorkInv, RouteInv, NEW w \in Workers, Succeeds(w), Alone(w), Finds(w)
  PROVE  RouteInv'
<1>1. ASSUME NEW d \in Domain, conf'[d] \in Hosts PROVE Leads(d)'
  BY <1>1, FileStays, FileWritten
<1>2. QED
  BY <1>1, AddressStep DEF RouteInv

\* A row or a file whose counterpart the worker has still to write or remove.
Pending(w, d) ==
  \/ pc[w] \in {"getIP", "write", "removeConf", "codeConf", "unconf"} /\ name[w] = d
  \/ pc[w] \in {"cleanup", "deleteRows"} /\ domains[d] = uid[w]

Matched(d) == RowMatchesFile(d) \/ \E w \in Workers : Pending(w, d)

MatchInv == \A d \in Domain \ strayed : Matched(d)

\* What other operations have still to do for a domain stays theirs to do.
LEMMA PendingStays ==
  ASSUME TypeInv, WorkInv, NEW w \in Workers, Succeeds(w), Alone(w), NEW d \in Domain,
         NEW v \in Workers \ {w}, Pending(v, d)
  PROVE  Pending(v, d)'
<1>1. ActsFor(w) /\ OthersWait(w)
  BY ActsForItsUser, OthersDo
<1>2. pc'[v] = pc[v] /\ uid'[v] = uid[v] /\ name'[v] = name[v] /\ pc[v] # "idle" /\ uid[v] \in Users
  BY <1>1 DEF OthersWait, Pending, TypeInv, LocalsOK
<1>3. domains[d] = uid[v] => domains'[d] = uid[v]
  BY <1>1, <1>2, DomainsAssumption DEF ActsFor, Alone
<1>4. QED
  BY <1>2, <1>3 DEF Pending

\* A step leaves each domain with its row and its file, with neither, or with what
\* is missing still to be done, unless it removes the file of a domain that has a row.
LEMMA MatchStep ==
  ASSUME TypeInv, WorkInv, NEW w \in Workers, Succeeds(w), Alone(w),
         NEW d \in Domain, d \notin Straying(w), Matched(d)
  PROVE  Matched(d)'
<1>1. CASE \E v \in Workers \ {w} : Pending(v, d)
  BY <1>1, PendingStays DEF Matched
<1>2. CASE RowMatchesFile(d) \/ Pending(w, d)
  <2> DEFINE Goal == RowMatchesFile(d)' \/ Pending(w, d)'
  <2> SUFFICES Goal
    BY DEF Matched
  <2>w. Progress(w) /\ Publishes(w) /\ Cleans(w)
    BY DEF WorkInv
  <2> USE DomainsAssumption
      DEF stores, tables, Domain, Asking, Deployed, Killed, TypeInv, TypeOK, LocalsOK, Pending, RowMatchesFile
  <2>1. ASSUME NEW u \in Users, NEW n \in Domain, AddUserDomain(w, u, n) \/ RemoveUserDomain(w, u, n)
        PROVE  Goal
    BY <1>2, <2>1 DEF AddUserDomain, RemoveUserDomain, Begin
  <2>2. CASE CountDomains(w)
    BY <1>2, <2>2 DEF CountDomains, Return, GoTo
  <2>3. CASE InsertDomain(w)
    BY <1>2, <2>3 DEF InsertDomain, Return, GoTo
  <2>4. CASE GetIPFromUID(w, TRUE)
    BY <1>2, <2>4 DEF GetIPFromUID
  <2>5. CASE AddNewConf(w)
    BY <1>2, <2>5, <2>w DEF AddNewConf, Return, Publishes
  <2>6. CASE RemoveDomain(w)
    BY <1>2, <2>6 DEF RemoveDomain, DeleteRows, GoTo
  <2>7. CASE RemoveConf(w)
    BY <1>2, <2>7 DEF RemoveConf, Return, Straying
  <2>8. ASSUME NEW u \in Users, Deploy(w, u) \/ Kill(w, u) PROVE Goal
    BY <1>2, <2>8 DEF Deploy, Kill, Begin
  <2>9. CASE AddCodeDomain(w)
    BY <1>2, <2>9 DEF AddCodeDomain, GoTo, Return
  <2>10. CASE AddCodeConf(w)
    BY <1>2, <2>10, <2>w DEF AddCodeConf, GoTo, Progress
  <2>11. CASE CreateInstanceRow(w)
    BY <1>2, <2>11 DEF CreateInstanceRow, Return
  <2>12. CASE DeleteContainer(w)
    BY <1>2, <2>12 DEF DeleteContainer, GoTo
  <2>13. CASE RemoveCodeDomain(w)
    BY <1>2, <2>13 DEF RemoveCodeDomain, DeleteRows, GoTo
  <2>14. CASE RemoveCodeConf(w)
    BY <1>2, <2>14 DEF RemoveCodeConf, GoTo, Straying
  <2>15. CASE RemoveInstance(w)
    BY <1>2, <2>15 DEF RemoveInstance, GoTo, Return
  <2>16. CASE GetUserDomains(w)
    BY <1>2, <2>16 DEF GetUserDomains
  <2>17. CASE CleanUp(w, TRUE)
    BY <1>2, <2>17, <2>w DEF CleanUp, GoTo, Cleans
  <2>18. CASE DeleteUserDomains(w)
    BY <1>2, <2>18, <2>w DEF DeleteUserDomains, DeleteRows, Return, Cleans
  <2> HIDE DEF stores, tables, Domain, Asking, Deployed, Killed, TypeInv, TypeOK, LocalsOK, Pending,
          RowMatchesFile
  <2>19. QED
    BY <2>1, <2>2, <2>3, <2>4, <2>5, <2>6, <2>7, <2>8, <2>9, <2>10, <2>11, <2>12, <2>13, <2>14,
       <2>15, <2>16, <2>17, <2>18
    DEF Succeeds, Publishing, Removing, Deploying, Killing
<1>3. QED
  BY <1>1, <1>2 DEF Matched

\* Without a failure and an overlap: the work of each operation, the domains' rows and
\* files, and the routes.
HistoryInv == ~failed /\ overlapped = {} => WorkInv /\ MatchInv /\ Distinct /\ RouteInv

\* While the history knows of no overlap, a step is alone for its user.
LEMMA StepsAlone ==
  ASSUME TypeInv, OverlapSeen, OverlapSeen', overlapped = {}, overlapped' = {},
         NEW w \in Workers, Succeeds(w)
  PROVE  Alone(w)
<1>1. OthersWait(w)
  BY OthersDo
<1>2. ASSUME NEW v \in Workers \ {w}, pc[v] # "idle", pc[w] # "idle" PROVE uid[v] # uid[w]
  BY <1>2 DEF OverlapSeen
<1>3. ASSUME NEW v \in Workers \ {w}, pc[v] # "idle", pc'[w] # "idle" PROVE uid[v] # uid'[w]
  <2>1. pc'[v] # "idle" /\ uid'[v] = uid[v]
    BY <1>1, <1>3 DEF OthersWait
  <2>2. QED
    BY <1>3, <2>1 DEF OverlapSeen
<1>4. QED
  BY <1>2, <1>3 DEF Alone

\* The history invariant holds for any number of operations at once.
LEMMA HistoryInvHolds == HistorySpec => []HistoryInv
<1>1. HistoryInit => HistoryInv
  BY DomainsAssumption
  DEF HistoryInit, Init, HistoryInv, Domain, Asking, Deployed, Killed, WorkInv, Housed, CodeOK,
      Progress, Publishes, Cleans, MatchInv, Matched, RowMatchesFile, RouteInv, Distinct, Holds, Addresses
<1>2. TypeInv /\ OverlapSeen /\ OverlapSeen' /\ HistoryInv /\ [HistoryNext]_<<vars, history>> => HistoryInv'
  <2> SUFFICES ASSUME TypeInv, OverlapSeen, OverlapSeen', HistoryInv, [HistoryNext]_<<vars, history>>,
                      ~failed', overlapped' = {}
               PROVE  WorkInv' /\ MatchInv' /\ Distinct' /\ RouteInv'
    BY DEF HistoryInv
  <2>1. CASE UNCHANGED <<vars, history>>
    <3>1. WorkInv /\ MatchInv /\ Distinct /\ RouteInv
      BY <2>1 DEF history, HistoryInv
    <3>2. WorkInv'
      BY <2>1, <3>1
      DEF vars, stores, tables, locals, WorkInv, Housed, CodeOK, Progress, Publishes, Cleans
    <3>3. MatchInv'
      BY <2>1, <3>1 DEF vars, stores, tables, locals, history, MatchInv, Matched, RowMatchesFile, Pending
    <3>4. RouteInv'
      BY <2>1, <3>1 DEF vars, stores, tables, locals, RouteInv, Addresses, Leads, Takes
    <3>5. Distinct'
      BY <2>1, <3>1 DEF vars, stores, tables, locals, history, Distinct, Holds
    <3>6. QED
      BY <3>2, <3>3, <3>4, <3>5
  <2>2. ASSUME NEW w \in Workers, Succeeds(w), overlapped' = overlapped \cup Overlapping',
               failed' = (failed \/ (pc[w] = "dbRemove" /\ uid[w] \notin instance)),
               strayed' = strayed \cup Straying(w), reused' = reused \cup Reusing
        PROVE  WorkInv' /\ MatchInv' /\ Distinct' /\ RouteInv'
    <3>1. overlapped = {} /\ ~failed /\ Finds(w)
      BY <2>2 DEF Finds
    <3>2. WorkInv /\ MatchInv /\ Distinct /\ RouteInv /\ Alone(w)
      BY <2>2, <3>1, StepsAlone DEF HistoryInv
    <3>3. WorkInv'
      BY <2>2, <3>2, WorkStep
    <3>4. MatchInv'
      BY <2>2, <3>2, MatchStep DEF MatchInv
    <3>5. Distinct'
      BY <2>2, <3>2, DistinctStep
    <3>6. RouteInv'
      BY <2>2, <3>1, <3>2, RouteStep
    <3>7. QED
      BY <3>3, <3>4, <3>5, <3>6
  <2>3. QED
    BY <2>1, <2>2 DEF HistoryNext
<1>3. QED
  BY <1>1, <1>2, HistoryTypes, OverlapHolds, PTL DEF HistorySpec

\* However many handlers and jobs are at work, and whatever domains users publish and
\* remove, containers' names included: until a call fails or a user overlaps himself,
\* nginx sends nobody's visitors to the instance at an address but those of its user's
\* domains, unless the allocator once gave the address out while it was in use.  Kill
\* has removed the last file that leads to an address when it is done with it.
THEOREM Routes == HistorySpec => []RoutesToOwnerUnlessReused
<1>1. TypeInv /\ HistoryInv => RoutesToOwnerUnlessReused
  <2> SUFFICES ASSUME TypeInv, WorkInv, RouteInv, Distinct, NEW h \in Hosts, h \notin reused,
                      NEW d \in Domain, NEW u \in Users, conf[d] = h, h \in {userip[u], container[u]}
               PROVE  domains[d] = u \/ \E w \in Workers : pc[w] = "removeConf" /\ name[w] = d /\ uid[w] = u
    BY DEF HistoryInv, RoutesToOwnerUnlessReused, RoutesToOwner
  <2>1. container[u] = h /\ Holds(u, h)
    BY DomainsAssumption DEF WorkInv, Housed, Holds
  <2>2. CASE domains[d] \in Users /\ container[domains[d]] = h
    <3>1. Holds(domains[d], h)
      BY <2>2 DEF Holds
    <3>2. QED
      BY <2>1, <2>2, <3>1 DEF Distinct
  <2>3. ASSUME NEW w \in Workers, Takes(w, d)
        PROVE  domains[d] = u \/ (pc[w] = "removeConf" /\ name[w] = d /\ uid[w] = u)
    <3>1. uid[w] \in Users /\ Holds(uid[w], h)
      BY <2>3 DEF Takes, Holds, Killed, TypeInv, LocalsOK
    <3>2. uid[w] = u
      BY <2>1, <3>1 DEF Distinct
    <3>3. ~(pc[w] = "unconf")
      BY <2>1, <3>2, DomainsAssumption DEF WorkInv, Progress, Killed
    <3>4. QED
      BY <2>3, <3>2, <3>3 DEF Takes
  <2>4. QED
    BY <2>2, <2>3 DEF RouteInv, Leads
<1>2. QED
  BY <1>1, HistoryTypes, HistoryInvHolds, PTL

\* Until a call fails or a user overlaps himself, table and files name the same domains
\* among those that no operation is at work on, addresses reused or not, but for the
\* domains whose file somebody removed although they had a row.
THEOREM Matches == HistorySpec => []RowsMatchFilesUnlessStrayed
<1>1. TypeInv /\ HistoryInv => RowsMatchFilesUnlessStrayed
  <2> SUFFICES ASSUME TypeInv, MatchInv, NEW d \in Domain \ strayed, AtRest(d)
               PROVE  RowMatchesFile(d)
    BY DEF HistoryInv, RowsMatchFilesUnlessStrayed
  <2>1. ASSUME NEW w \in Workers PROVE ~Pending(w, d)
    BY DEF AtRest, Pending
  <2>2. QED
    BY <2>1 DEF MatchInv, Matched
<1>2. QED
  BY <1>1, HistoryTypes, HistoryInvHolds, PTL
=============================================================================
