---------------------------- MODULE LxcIp_proofs ----------------------------
(***************************************************************************)
(* Theorems about LxcIp for every set of users, every MaxHost and every    *)
(* choice of failing calls.                                                *)
(***************************************************************************)
EXTENDS MCLxcIp, TLAPS

\* The end of an operation leaves a well-typed worker, whatever it was doing.
LEMMA ReturnTypeOK ==
  ASSUME WorkersTypeOK, NEW w \in Workers, Return(w)
  PROVE  WorkersTypeOK'
BY LxcIpAssumption DEF WorkersTypeOK, Return, NoIP

\* Taking the top of the stack of released addresses.
LEMMA PopSeq ==
  ASSUME NEW S, NEW s \in Seq(S), s # <<>>
  PROVE  /\ Head(s) \in S
         /\ Tail(s) \in Seq(S)
         /\ \A k \in DOMAIN Tail(s) : k + 1 \in DOMAIN s /\ Tail(s)[k] = s[k + 1]
OBVIOUS

\* Pushing a released address.
LEMMA PushSeq ==
  ASSUME NEW S, NEW s \in Seq(S), NEW x \in S
  PROVE  /\ <<x>> \o s \in Seq(S)
         /\ (<<x>> \o s)[1] = x
         /\ \A k \in DOMAIN (<<x>> \o s) \ {1} :
              k - 1 \in DOMAIN s /\ (<<x>> \o s)[k] = s[k - 1]
OBVIOUS

\* Every address the system ever stores or computes is a usable host number,
\* with any number of workers and any pattern of failures.
THEOREM Typing == Spec => []TypeOK
<1>1. Init => TypeOK
  BY LxcIpAssumption
  DEF Init, TypeOK, StoresTypeOK, WorkersTypeOK, Hosts, Calls, NoIP
<1>2. TypeOK /\ [Next]_vars => TypeOK'
  <2> SUFFICES ASSUME TypeOK, [Next]_vars PROVE TypeOK'
    OBVIOUS
  <2>0. WorkersTypeOK
    BY DEF TypeOK
  <2> USE LxcIpAssumption DEF TypeOK, StoresTypeOK, Calls
  <2>1. ASSUME NEW w \in Workers, NEW u \in Users, NEW step \in {"pop", "remove"},
               Begin(w, u, step)
        PROVE  TypeOK'
    BY <2>1 DEF Begin, WorkersTypeOK
  <2>2. ASSUME NEW w \in Workers, PopFreeIp(w) PROVE TypeOK'
    <3>1. CASE lxc_ip # <<>>
      <4>1. Head(lxc_ip) \in Hosts /\ lxc_ip' \in Seq(Hosts)
        BY <3>1, <2>2, PopSeq DEF PopFreeIp
      <4>2. WorkersTypeOK'
        BY <4>1, <3>1, <2>2 DEF PopFreeIp, GoTo, GoToWith, WorkersTypeOK
      <4>3. QED
        BY <4>1, <4>2, <2>2 DEF PopFreeIp
    <3>2. CASE lxc_ip = <<>>
      BY <2>2, <3>2 DEF PopFreeIp, GoTo, WorkersTypeOK
    <3>3. QED
      BY <3>1, <3>2
  <2>3. ASSUME NEW w \in Workers, AddIP(w) PROVE TypeOK'
    <3>1. CASE userip[uid[w]] = NoIP
      BY <2>3, <3>1 DEF AddIP, GoTo, WorkersTypeOK
    <3>2. CASE userip[uid[w]] # NoIP
      BY <2>0, <2>3, <3>2, ReturnTypeOK DEF AddIP
    <3>3. QED
      BY <3>1, <3>2
  <2>4. ASSUME NEW w \in Workers, TxSelect(w) PROVE TypeOK'
    <3>1. CASE Return(w)
      BY <2>0, <2>4, <3>1, ReturnTypeOK DEF TxSelect
    <3>2. ASSUME NEW h \in Hosts,
                 pc[w] = "select",
                 pc' = [pc EXCEPT ![w] = "commit"],
                 ip' = [ip EXCEPT ![w] = h],
                 stale' = stale \ {w},
                 UNCHANGED <<uid, attempt, userip, lxc_ip, container>>
          PROVE  TypeOK'
      BY <3>2 DEF WorkersTypeOK
    <3>3. QED
      BY <2>4, <3>1, <3>2 DEF TxSelect
  <2>5. ASSUME NEW w \in Workers, TxCommit(w) PROVE TypeOK'
    BY <2>5 DEF TxCommit, InTransaction, WorkersTypeOK
  <2>6. ASSUME NEW w \in Workers, TxDuplicateUser(w) PROVE TypeOK'
    BY <2>0, <2>6, ReturnTypeOK DEF TxDuplicateUser
  <2>7. ASSUME NEW w \in Workers, TxConflict(w) PROVE TypeOK'
    <3>1. attempt[w] + 1 \in 0..MaxRetries
      BY <2>7 DEF TxConflict, InTransaction, WorkersTypeOK
    <3>2. CASE attempt[w] + 1 < MaxRetries
      BY <2>7, <3>1, <3>2 DEF TxConflict, InTransaction, WorkersTypeOK
    <3>3. CASE ~(attempt[w] + 1 < MaxRetries)
      BY <2>7, <3>1, <3>3 DEF TxConflict, InTransaction, WorkersTypeOK
    <3>4. QED
      BY <3>2, <3>3
  <2>8. ASSUME NEW w \in Workers, LxdCreate(w) PROVE TypeOK'
    <3>1. uid[w] \in Users /\ ip[w] \in Hosts
      BY <2>8 DEF LxdCreate, WorkersTypeOK
    <3>2. container' \in [Users -> Hosts \cup {NoIP}]
      BY <2>8, <3>1 DEF LxdCreate
    <3>3. QED
      BY <2>0, <2>8, <3>2, ReturnTypeOK DEF LxdCreate
  <2>9. ASSUME NEW w \in Workers, RemoveIP(w) PROVE TypeOK'
    <3>1. CASE userip[uid[w]] # NoIP
      <4>1. userip[uid[w]] \in Hosts
        BY <2>9, <3>1 DEF RemoveIP, WorkersTypeOK
      <4>2. QED
        BY <2>9, <3>1, <4>1 DEF RemoveIP, GoTo, GoToWith, WorkersTypeOK
    <3>2. CASE userip[uid[w]] = NoIP
      BY <2>0, <2>9, <3>2, ReturnTypeOK DEF RemoveIP
    <3>3. QED
      BY <3>1, <3>2
  <2>10. ASSUME NEW w \in Workers, PushFreeIp(w) PROVE TypeOK'
    <3>1. lxc_ip' \in Seq(Hosts)
      BY <2>10, PushSeq DEF PushFreeIp, WorkersTypeOK
    <3>2. QED
      BY <2>10, <3>1 DEF PushFreeIp, GoTo, GoToWith, WorkersTypeOK
  <2>11. ASSUME NEW w \in Workers, LxdDelete(w) PROVE TypeOK'
    BY <2>0, <2>11, ReturnTypeOK DEF LxdDelete
  <2>12. ASSUME NEW w \in Workers, CallFails(w) PROVE TypeOK'
    BY <2>0, <2>12, ReturnTypeOK DEF CallFails
  <2>13. CASE UNCHANGED vars
    BY <2>13 DEF vars, WorkersTypeOK
  <2>14. QED
    BY <2>1, <2>2, <2>3, <2>4, <2>5, <2>6, <2>7, <2>8, <2>9, <2>10, <2>11,
       <2>12, <2>13 DEF Next, Step, Succeeds, CreateInstance, DeleteInstance
<1>3. QED
  BY <1>1, <1>2, PTL DEF Spec

-----------------------------------------------------------------------------
(* Any number of workers, until an allocation crosses a release *)

\* What the fallback to the table relies on: the number an open transaction has
\* computed is above every recorded one, unless it can no longer commit.
FallbackIsFresh ==
  \A w \in Workers :
    pc[w] = "commit" /\ w \notin stale => \A u \in Users : userip[u] < ip[w]

UncrossedInv == TypeOK /\ UniqueHolders /\ FallbackIsFresh

\* An empty table and an empty stack are in order.
LEMMA UncrossedInit == Init => UncrossedInv
<1> SUFFICES ASSUME Init PROVE UncrossedInv
  OBVIOUS
<1>1. TypeOK
  BY LxcIpAssumption
  DEF Init, TypeOK, StoresTypeOK, WorkersTypeOK, Hosts, Calls, NoIP
<1>2. UniqueHolders
  BY DEF Init, UniqueHolders, NoDuplicateIP, StackIsReleased,
     StackHasNoDuplicates, InFlightIsNowhereElse, InFlight
<1>3. FallbackIsFresh
  BY DEF Init, FallbackIsFresh
<1>4. QED
  BY <1>1, <1>2, <1>3 DEF UncrossedInv

\* The workers other than w keep what they have in hand, and an open
\* transaction that can no longer commit stays one.
OthersWait(w) ==
  \A v \in Workers \ {w} :
    pc'[v] = pc[v] /\ ip'[v] = ip[v] /\ (v \in stale => v \in stale')

\* A step that leaves table and stack alone and leaves the worker without an
\* address in hand disturbs nothing.
LEMMA QuietStep ==
  ASSUME UncrossedInv, NEW w \in Workers, OthersWait(w),
         UNCHANGED <<userip, lxc_ip>>,
         pc'[w] \notin {"add", "push", "commit"}
  PROVE  UniqueHolders' /\ FallbackIsFresh'
BY DEF UncrossedInv, OthersWait, UniqueHolders, FallbackIsFresh, NoDuplicateIP,
   StackIsReleased, StackHasNoDuplicates, InFlightIsNowhereElse, InFlight, Held

\* A step is one worker's.
LEMMA OthersDo ==
  ASSUME TypeOK, NEW w \in Workers, Step(w)
  PROVE  OthersWait(w)
BY DEF TypeOK, WorkersTypeOK, OthersWait, Step, Succeeds, CreateInstance, DeleteInstance, Begin,
   PopFreeIp, AddIP, TxSelect, TxCommit, TxDuplicateUser, TxConflict, LxdCreate, RemoveIP,
   PushFreeIp, LxdDelete, CallFails, Return, GoTo, GoToWith

\* The number computed from the table is above every recorded one.
LEMMA NextIsAbove ==
  ASSUME StoresTypeOK, NEW h \in Hosts, NextHost(h)
  PROVE  \A u \in Users : userip[u] < h
<1> SUFFICES ASSUME NEW u \in Users PROVE userip[u] < h
  OBVIOUS
<1>1. h \in Int /\ h >= 2 /\ userip[u] \in Int /\ (userip[u] = 0 \/ userip[u] \in Held)
  BY LxcIpAssumption DEF StoresTypeOK, Held, Hosts, NoIP
<1>2. CASE Held = {}
  BY <1>1, <1>2
<1>3. ASSUME NEW top \in Held, \A x \in Held : x <= top, h = top + 1
      PROVE  userip[u] < h
  <2>1. top \in Int
    BY LxcIpAssumption DEF StoresTypeOK, Held, Hosts, NoIP
  <2>2. QED
    BY <1>1, <1>3, <2>1
<1>4. QED
  BY <1>2, <1>3 DEF NextHost

\* In a state where no allocation from the table crosses a release, no job's
\* step gives an address a second holder.
LEMMA UncrossedStep ==
  ASSUME UncrossedInv, ~Crossing, TypeOK', [Next]_vars
  PROVE  UncrossedInv'
<1> USE DEF UncrossedInv
<1> DEFINE Goal == UniqueHolders' /\ FallbackIsFresh'
<1>t. /\ pc' \in [Workers -> Calls \cup {"idle"}]
      /\ pc \in [Workers -> Calls \cup {"idle"}]
      /\ ip \in [Workers -> Hosts \cup {NoIP}]
      /\ userip \in [Users -> Hosts \cup {NoIP}]
      /\ lxc_ip \in Seq(Hosts)
      /\ \A w \in Workers : pc[w] # "idle" => uid[w] \in Users
      /\ \A w \in Workers : pc[w] \in {"add", "commit", "push"} => ip[w] \in Hosts
      /\ MaxHost \in Nat
      /\ StoresTypeOK
  BY LxcIpAssumption DEF TypeOK, StoresTypeOK, WorkersTypeOK
<1>o. ASSUME NEW w \in Workers, Step(w) PROVE OthersWait(w)
  BY <1>o, OthersDo
<1>1. ASSUME NEW w \in Workers, NEW u \in Users, CreateInstance(w, u) \/ DeleteInstance(w, u)
      PROVE  Goal
  <2>1. pc'[w] \in {"pop", "remove"} /\ UNCHANGED <<userip, lxc_ip>>
    BY <1>1, <1>t DEF CreateInstance, DeleteInstance, Begin
  <2>2. OthersWait(w)
    BY <1>o, <1>1 DEF Step, Succeeds
  <2>3. QED
    BY <2>1, <2>2, QuietStep
<1>2. ASSUME NEW w \in Workers, PopFreeIp(w) PROVE Goal
  <2>o. OthersWait(w)
    BY <1>o, <1>2 DEF Step, Succeeds
  <2>1. CASE lxc_ip # <<>>
    <3>1. /\ lxc_ip' = Tail(lxc_ip) /\ userip' = userip
          /\ pc' = [pc EXCEPT ![w] = "add"]
          /\ ip' = [ip EXCEPT ![w] = Head(lxc_ip)]
          /\ UNCHANGED stale
      BY <1>2, <2>1 DEF PopFreeIp, GoTo, GoToWith
    <3>2. /\ \A k \in DOMAIN lxc_ip' :
               k + 1 \in DOMAIN lxc_ip /\ lxc_ip'[k] = lxc_ip[k + 1]
          /\ DOMAIN lxc_ip' \subseteq Nat \ {0}
      BY <3>1, <2>1, <1>t, PopSeq
    <3>3. ip'[w] = lxc_ip[1] /\ 1 \in DOMAIN lxc_ip /\ pc'[w] = "add"
      BY <3>1, <2>1, <1>t
    <3>4. NoDuplicateIP' /\ StackIsReleased'
      BY <3>1, <3>2 DEF UniqueHolders, NoDuplicateIP, StackIsReleased, Held
    <3>5. StackHasNoDuplicates'
      BY <3>2, <1>t DEF UniqueHolders, StackHasNoDuplicates
    <3>6. ip'[w] \notin Held'
      BY <3>1, <3>3 DEF UniqueHolders, StackIsReleased, Held
    <3>7. \A k \in DOMAIN lxc_ip' : lxc_ip'[k] # ip'[w]
      BY <3>2, <3>3, <1>t DEF UniqueHolders, StackHasNoDuplicates
    <3>8. InFlight' \subseteq InFlight \cup {w}
      BY <2>o DEF OthersWait, InFlight
    <3>9. \A v \in InFlight \ {w} : /\ ip'[v] = ip[v]
                                    /\ ip'[v] # ip'[w]
                                    /\ \A k \in DOMAIN lxc_ip' : lxc_ip'[k] # ip'[v]
                                    /\ ip'[v] \notin Held'
      BY <2>o, <3>1, <3>2, <3>3
      DEF OthersWait, InFlight, UniqueHolders, InFlightIsNowhereElse, Held
    <3>10. \A x \in InFlight' : \A v \in InFlight' \ {x} : ip'[v] # ip'[x]
      BY <3>8, <3>9 DEF UniqueHolders, InFlightIsNowhereElse
    <3>11. InFlightIsNowhereElse'
      BY <3>6, <3>7, <3>8, <3>9, <3>10 DEF InFlightIsNowhereElse
    <3>12. FallbackIsFresh'
      BY <2>o, <3>1, <3>3 DEF FallbackIsFresh, OthersWait
    <3>13. QED
      BY <3>4, <3>5, <3>11, <3>12 DEF UniqueHolders
  <2>2. CASE lxc_ip = <<>>
    <3>1. UNCHANGED <<userip, lxc_ip>> /\ pc'[w] = "select"
      BY <1>2, <2>2, <1>t DEF PopFreeIp, GoTo
    <3>2. QED
      BY <2>o, <3>1, QuietStep
  <2>3. QED
    BY <2>1, <2>2
<1>3. ASSUME NEW w \in Workers, AddIP(w) PROVE Goal
  <2>o. OthersWait(w)
    BY <1>o, <1>3 DEF Step, Succeeds
  <2>1. CASE userip[uid[w]] = NoIP
    <3>1. /\ userip' = [userip EXCEPT ![uid[w]] = ip[w]] /\ uid[w] \in Users
          /\ UNCHANGED lxc_ip /\ pc'[w] = "create" /\ w \in InFlight
      BY <1>3, <2>1, <1>t DEF AddIP, GoTo, InFlight
    <3>2. /\ \A u \in Users : userip[u] = NoIP \/ userip[u] # ip[w]
          /\ \A k \in DOMAIN lxc_ip : lxc_ip[k] # ip[w]
          /\ \A v \in InFlight \ {w} : ip[v] # ip[w]
      BY <3>1 DEF UniqueHolders, InFlightIsNowhereElse, Held
    <3>3. NoDuplicateIP'
      BY <3>1, <3>2, <1>t DEF UniqueHolders, NoDuplicateIP
    <3>4. Held' \subseteq Held \cup {ip[w]}
      BY <3>1, <1>t DEF Held
    <3>5. StackIsReleased'
      BY <3>1, <3>2, <3>4 DEF UniqueHolders, StackIsReleased
    <3>6. InFlight' \subseteq InFlight \ {w} /\ \A v \in InFlight \ {w} : ip'[v] = ip[v]
      BY <2>o, <3>1 DEF OthersWait, InFlight
    <3>7. InFlightIsNowhereElse'
      BY <3>1, <3>2, <3>4, <3>6 DEF UniqueHolders, InFlightIsNowhereElse
    <3>8. FallbackIsFresh'
      <4>1. \A v \in Workers : pc[v] # "commit"
        BY <3>1 DEF Crossing
      <4>2. QED
        BY <2>o, <3>1, <4>1 DEF OthersWait, FallbackIsFresh
    <3>9. QED
      BY <3>1, <3>3, <3>5, <3>7, <3>8 DEF UniqueHolders, StackHasNoDuplicates
  <2>2. CASE userip[uid[w]] # NoIP
    <3>1. UNCHANGED <<userip, lxc_ip>> /\ pc'[w] = "idle"
      BY <1>3, <2>2, <1>t DEF AddIP, Return
    <3>2. QED
      BY <2>o, <3>1, QuietStep
  <2>3. QED
    BY <2>1, <2>2
<1>4. ASSUME NEW w \in Workers, TxSelect(w) PROVE Goal
  <2>o. OthersWait(w)
    BY <1>o, <1>4 DEF Step, Succeeds
  <2>1. CASE Return(w)
    <3>1. UNCHANGED <<userip, lxc_ip>> /\ pc'[w] = "idle"
      BY <1>4, <2>1, <1>t DEF TxSelect, Return
    <3>2. QED
      BY <2>o, <3>1, QuietStep
  <2>2. ASSUME NEW h \in Hosts, NextHost(h),
               pc' = [pc EXCEPT ![w] = "commit"],
               ip' = [ip EXCEPT ![w] = h],
               UNCHANGED <<userip, lxc_ip>>
        PROVE  Goal
    <3>1. pc'[w] = "commit" /\ ip'[w] = h
      BY <2>2, <1>t
    <3>2. \A u \in Users : userip[u] < h
      BY <2>2, <1>t, NextIsAbove
    <3>3. FallbackIsFresh'
      BY <2>o, <2>2, <3>1, <3>2 DEF OthersWait, FallbackIsFresh
    <3>4. InFlight' \subseteq InFlight /\ \A v \in InFlight' : ip'[v] = ip[v]
      BY <2>o, <3>1 DEF OthersWait, InFlight
    <3>5. UniqueHolders'
      BY <2>2, <3>4
      DEF UniqueHolders, NoDuplicateIP, StackIsReleased,
          StackHasNoDuplicates, InFlightIsNowhereElse, Held
    <3>6. QED
      BY <3>3, <3>5
  <2>3. QED
    BY <1>4, <2>1, <2>2 DEF TxSelect
<1>5. ASSUME NEW w \in Workers, TxCommit(w) PROVE Goal
  <2>1. /\ userip' = [userip EXCEPT ![uid[w]] = ip[w]] /\ uid[w] \in Users
        /\ UNCHANGED lxc_ip /\ pc'[w] = "create" /\ pc[w] = "commit" /\ w \notin stale
        /\ \A v \in Workers \ {w} : pc[v] = "commit" => v \in stale'
        /\ OthersWait(w)
    BY <1>5, <1>o, <1>t DEF TxCommit, InTransaction, Serializable, Step, Succeeds
  <2>2. lxc_ip = <<>> /\ InFlight = {} /\ \A u \in Users : userip[u] < ip[w]
    BY <2>1 DEF Crossing, FallbackIsFresh
  <2>3. NoDuplicateIP'
    BY <2>1, <2>2, <1>t DEF UniqueHolders, NoDuplicateIP, Hosts, NoIP
  <2>4. InFlight' = {} /\ lxc_ip' = <<>>
    BY <2>1, <2>2 DEF InFlight, OthersWait
  <2>5. FallbackIsFresh'
    BY <2>1 DEF OthersWait, FallbackIsFresh
  <2>6. QED
    BY <2>3, <2>4, <2>5
    DEF UniqueHolders, StackIsReleased, StackHasNoDuplicates, InFlightIsNowhereElse
<1>6. ASSUME NEW w \in Workers,
             TxDuplicateUser(w) \/ LxdCreate(w) \/ LxdDelete(w) \/ CallFails(w)
      PROVE  Goal
  <2>1. UNCHANGED <<userip, lxc_ip>> /\ pc'[w] = "idle"
    BY <1>6, <1>t DEF TxDuplicateUser, LxdCreate, LxdDelete, CallFails, Return
  <2>2. OthersWait(w)
    BY <1>6, <1>o DEF Step, Succeeds
  <2>3. QED
    BY <2>1, <2>2, QuietStep
<1>7. ASSUME NEW w \in Workers, TxConflict(w) PROVE Goal
  <2>1. UNCHANGED <<userip, lxc_ip>> /\ pc'[w] \in {"select", "create"}
    BY <1>7, <1>t DEF TxConflict, InTransaction
  <2>2. OthersWait(w)
    BY <1>7, <1>o DEF Step, Succeeds
  <2>3. QED
    BY <2>1, <2>2, QuietStep
<1>8. ASSUME NEW w \in Workers, RemoveIP(w) PROVE Goal
  <2>o. OthersWait(w)
    BY <1>o, <1>8 DEF Step, Succeeds
  <2>1. CASE userip[uid[w]] # NoIP
    <3>1. /\ userip' = [userip EXCEPT ![uid[w]] = NoIP] /\ uid[w] \in Users
          /\ UNCHANGED lxc_ip /\ pc'[w] = "push"
          /\ ip'[w] = userip[uid[w]] /\ userip[uid[w]] \in Held
      BY <1>8, <2>1, <1>t DEF RemoveIP, GoTo, GoToWith, Held
    <3>2. NoDuplicateIP' /\ StackIsReleased' /\ StackHasNoDuplicates' /\ Held' \subseteq Held
      BY <3>1, <1>t
      DEF UniqueHolders, NoDuplicateIP, StackIsReleased, StackHasNoDuplicates, Held
    <3>3. ip'[w] \notin Held'
      BY <3>1, <2>1, <1>t DEF UniqueHolders, NoDuplicateIP, Held
    <3>4. \A k \in DOMAIN lxc_ip' : lxc_ip'[k] # ip'[w]
      BY <3>1 DEF UniqueHolders, StackIsReleased
    <3>5. /\ InFlight' \subseteq InFlight \cup {w}
          /\ \A v \in InFlight' \ {w} : v \in InFlight /\ ip'[v] = ip[v] /\ ip'[v] # ip'[w]
      BY <2>o, <3>1 DEF OthersWait, InFlight, UniqueHolders, InFlightIsNowhereElse
    <3>6. \A x \in InFlight' : \A v \in InFlight' \ {x} : ip'[v] # ip'[x]
      BY <3>5 DEF UniqueHolders, InFlightIsNowhereElse
    <3>7. InFlightIsNowhereElse'
      BY <3>1, <3>2, <3>3, <3>4, <3>5, <3>6 DEF UniqueHolders, InFlightIsNowhereElse
    <3>8. FallbackIsFresh'
      <4>1. \A u \in Users : userip'[u] = userip[u] \/ userip'[u] = NoIP
        BY <3>1, <1>t
      <4>2. \A v \in Workers : pc'[v] = "commit" => v # w /\ ip[v] \in Hosts /\ pc[v] = "commit"
        BY <2>o, <3>1, <1>t DEF OthersWait
      <4>3. \A h \in Hosts : NoIP < h
        BY <1>t DEF Hosts, NoIP
      <4>4. QED
        BY <2>o, <4>1, <4>2, <4>3 DEF OthersWait, FallbackIsFresh
    <3>9. QED
      BY <3>2, <3>7, <3>8 DEF UniqueHolders
  <2>2. CASE userip[uid[w]] = NoIP
    <3>1. UNCHANGED <<userip, lxc_ip>> /\ pc'[w] = "idle"
      BY <1>8, <2>2, <1>t DEF RemoveIP, Return
    <3>2. QED
      BY <2>o, <3>1, QuietStep
  <2>3. QED
    BY <2>1, <2>2
<1>9. ASSUME NEW w \in Workers, PushFreeIp(w) PROVE Goal
  <2>o. OthersWait(w)
    BY <1>o, <1>9 DEF Step, Succeeds
  <2>1. /\ lxc_ip' = <<ip[w]>> \o lxc_ip /\ UNCHANGED userip
        /\ pc'[w] = "delete" /\ w \in InFlight /\ ip[w] \in Hosts
    BY <1>9, <1>t DEF PushFreeIp, GoTo, GoToWith, InFlight
  <2>2. /\ lxc_ip'[1] = ip[w]
        /\ \A k \in DOMAIN lxc_ip' \ {1} :
             k - 1 \in DOMAIN lxc_ip /\ lxc_ip'[k] = lxc_ip[k - 1]
        /\ DOMAIN lxc_ip' \subseteq Nat \ {0}
    BY <2>1, <1>t, PushSeq
  <2>3. StackIsReleased'
    BY <2>1, <2>2
    DEF UniqueHolders, StackIsReleased, InFlightIsNowhereElse, Held
  <2>4. StackHasNoDuplicates'
    <3>1. \A k \in DOMAIN lxc_ip : lxc_ip[k] # ip[w]
      BY <2>1 DEF UniqueHolders, InFlightIsNowhereElse
    <3>2. SUFFICES ASSUME NEW j \in DOMAIN lxc_ip', NEW k \in DOMAIN lxc_ip', j # k
                   PROVE  lxc_ip'[j] # lxc_ip'[k]
      BY DEF StackHasNoDuplicates
    <3>3. CASE j = 1 \/ k = 1
      BY <2>2, <3>1, <3>2, <3>3
    <3>4. CASE j # 1 /\ k # 1
      BY <2>2, <3>2, <3>4 DEF UniqueHolders, StackHasNoDuplicates
    <3>5. QED
      BY <3>3, <3>4
  <2>5. InFlightIsNowhereElse'
    <3>1. InFlight' \subseteq InFlight \ {w} /\ \A v \in InFlight \ {w} : ip'[v] = ip[v]
      BY <2>o, <2>1 DEF OthersWait, InFlight
    <3>2. \A v \in InFlight \ {w} : \A k \in DOMAIN lxc_ip' : lxc_ip'[k] # ip[v]
      BY <2>1, <2>2 DEF UniqueHolders, InFlightIsNowhereElse
    <3>3. QED
      BY <2>1, <3>1, <3>2 DEF UniqueHolders, InFlightIsNowhereElse, Held
  <2>6. FallbackIsFresh'
    BY <2>o, <2>1 DEF OthersWait, FallbackIsFresh
  <2>7. QED
    BY <2>1, <2>3, <2>4, <2>5, <2>6 DEF UniqueHolders, NoDuplicateIP
<1>10. CASE UNCHANGED vars
  BY <1>10
  DEF vars, UniqueHolders, FallbackIsFresh, NoDuplicateIP, StackIsReleased,
      StackHasNoDuplicates, InFlightIsNowhereElse, InFlight, Held
<1>11. QED
  BY <1>1, <1>2, <1>3, <1>4, <1>5, <1>6, <1>7, <1>8, <1>9, <1>10
  DEF Next, Step, Succeeds

\* A step in such a state is one of the abstract allocator's, or none.
LEMMA PoolStep ==
  ASSUME UncrossedInv, ~Crossing, [Next]_vars
  PROVE  [Pool!Next]_userip
<1> SUFFICES ASSUME userip' # userip PROVE Pool!Next
  OBVIOUS
<1>t. /\ \A w \in Workers : pc[w] # "idle" => uid[w] \in Users
      /\ \A w \in Workers : pc[w] \in {"add", "commit"} => ip[w] \in Hosts
      /\ userip \in [Users -> Hosts \cup {NoIP}]
      /\ MaxHost \in Nat
  BY LxcIpAssumption
  DEF UncrossedInv, TypeOK, StoresTypeOK, WorkersTypeOK
<1>1. ASSUME NEW u \in Users, NEW h \in Hosts, userip[u] = NoIP,
             \A v \in Users : userip[v] # h,
             userip' = [userip EXCEPT ![u] = h]
      PROVE  Pool!Next
  <2>1. Pool!Assign(u)
    BY <1>1 DEF Pool!Assign, Pool!Free
  <2>2. QED
    BY <2>1 DEF Pool!Next
<1>2. ASSUME NEW w \in Workers, AddIP(w) PROVE Pool!Next
  <2>1. \A v \in Users : userip[v] # ip[w]
    BY <1>2, <1>t
    DEF AddIP, UncrossedInv, UniqueHolders, InFlightIsNowhereElse, InFlight,
        Held, Hosts, NoIP
  <2>2. QED
    BY <1>1, <1>2, <1>t, <2>1 DEF AddIP
<1>3. ASSUME NEW w \in Workers, TxCommit(w) PROVE Pool!Next
  <2>1. ip[w] \in Int /\ \A v \in Users : userip[v] \in Int /\ userip[v] < ip[w]
    BY <1>3, <1>t
    DEF TxCommit, InTransaction, Serializable, UncrossedInv, FallbackIsFresh, Hosts, NoIP
  <2>2. \A v \in Users : userip[v] # ip[w]
    BY <2>1
  <2>3. QED
    BY <1>1, <1>3, <1>t, <2>2 DEF TxCommit, InTransaction
<1>4. ASSUME NEW w \in Workers, RemoveIP(w) PROVE Pool!Next
  <2>1. Pool!Release(uid[w]) /\ uid[w] \in Users
    BY <1>4, <1>t DEF RemoveIP, Pool!Release
  <2>2. QED
    BY <2>1 DEF Pool!Next
<1>5. QED
  BY <1>2, <1>3, <1>4
  DEF Next, Step, Succeeds, CreateInstance, DeleteInstance, Begin, PopFreeIp, TxSelect,
      TxDuplicateUser, TxConflict, LxdCreate, PushFreeIp, LxdDelete,
      CallFails, vars

\* With its history the allocator does what it does without.
LEMMA HistoryIsSpec == HistorySpec => Spec
<1>1. HistoryInit => Init
  BY DEF HistoryInit
<1>2. [HistoryNext]_<<vars, history>> => [Next]_vars
  BY DEF HistoryNext, Next, Step
<1>3. QED
  BY <1>1, <1>2, PTL DEF HistorySpec, Spec

\* The history remembers the first crossing.
LEMMA CrossingIsSeen ==
  ASSUME [HistoryNext]_<<vars, history>>, ~crossed'
  PROVE  ~crossed /\ (~Crossing \/ UNCHANGED vars)
<1>1. CASE HistoryNext
  <2>1. crossed' = (crossed \/ Crossing)
    BY <1>1 DEF HistoryNext
  <2>2. ~(crossed \/ Crossing)
    BY <2>1
  <2>3. QED
    BY <2>2
<1>2. CASE UNCHANGED <<vars, history>>
  <2>1. crossed' = crossed /\ UNCHANGED vars
    BY <1>2 DEF history
  <2>2. QED
    BY <2>1
<1>3. QED
  BY <1>1, <1>2

\* Until a crossing every job finds the allocator in order.
LEMMA UncrossedHolds == HistorySpec => [](~crossed => UncrossedInv)
<1>1. HistoryInit => (~crossed => UncrossedInv)
  BY UncrossedInit DEF HistoryInit
<1>2. (~crossed => UncrossedInv) /\ TypeOK' /\ [HistoryNext]_<<vars, history>>
        => (~crossed => UncrossedInv)'
  <2> SUFFICES ASSUME ~crossed => UncrossedInv, TypeOK', [HistoryNext]_<<vars, history>>, ~crossed'
               PROVE  UncrossedInv'
    OBVIOUS
  <2>1. UncrossedInv /\ [Next]_vars
    BY CrossingIsSeen DEF HistoryNext, Next, Step, history
  <2>2. CASE ~Crossing
    BY <2>1, <2>2, UncrossedStep
  <2>3. CASE UNCHANGED vars
    BY <2>1, <2>3
    DEF vars, UncrossedInv, UniqueHolders, FallbackIsFresh, NoDuplicateIP, StackIsReleased,
        StackHasNoDuplicates, InFlightIsNowhereElse, InFlight, Held
  <2>4. QED
    BY <2>2, <2>3, CrossingIsSeen
<1>3. QED
  BY <1>1, <1>2, HistoryIsSpec, Typing, PTL DEF HistorySpec

\* Any number of jobs at once, whatever calls fail and whenever a worker dies: no
\* address is in two of the table, the stack and the jobs' hands until a transaction
\* of AllocateNextFreeIP is open while an address is on the stack or in a job's hands.
THEOREM UniqueUnlessCrossed == HistorySpec => []UniqueHoldersUnlessCrossed
<1>1. (~crossed => UncrossedInv) => UniqueHoldersUnlessCrossed
  BY DEF UncrossedInv, UniqueHoldersUnlessCrossed
<1>2. QED
  BY <1>1, UncrossedHolds, PTL

\* Until then the code implements IpPool: a row appears only with a host number
\* nobody holds, and leaves the table only as a whole.
THEOREM Refinement == HistorySpec => ImplementsIpPoolUnlessCrossed
<1>1. HistoryInit => Pool!Init
  BY DEF HistoryInit, Init, Pool!Init
<1>2. (~crossed => UncrossedInv) /\ [HistoryNext]_<<vars, history>>
        => [~crossed' => Pool!Next]_userip
  <2> SUFFICES ASSUME ~crossed => UncrossedInv, [HistoryNext]_<<vars, history>>,
                      ~crossed', userip' # userip
               PROVE  Pool!Next
    OBVIOUS
  <2>1. UncrossedInv /\ ~Crossing
    BY CrossingIsSeen DEF vars
  <2>2. [Next]_vars
    BY DEF HistoryNext, Next, Step, history
  <2>3. QED
    BY <2>1, <2>2, PoolStep
<1>3. QED
  BY <1>1, <1>2, UncrossedHolds, PTL DEF HistorySpec, ImplementsIpPoolUnlessCrossed

\* Jobs that never overlap.
OneWorker == \A v, w \in Workers : v = w

\* A single job turns to the table only when the stack is empty.
OneWorkerInv == UncrossedInv /\ \A w \in Workers : pc[w] \in {"select", "commit"} => lxc_ip = <<>>

\* With one job at a time (a prefetch of 1 in place of the code's 3) nothing crosses,
\* so no address ever has two holders.
THEOREM Sequential ==
  ASSUME OneWorker
  PROVE  Spec => []UniqueHolders
<1>1. Init => OneWorkerInv
  BY UncrossedInit DEF OneWorkerInv, Init
<1>2. OneWorkerInv /\ TypeOK' /\ [Next]_vars => OneWorkerInv'
  <2> SUFFICES ASSUME OneWorkerInv, TypeOK', [Next]_vars PROVE OneWorkerInv'
    OBVIOUS
  <2>1. ~Crossing
    BY DEF OneWorkerInv, OneWorker, Crossing, InFlight
  <2>2. UncrossedInv'
    BY <2>1, UncrossedStep DEF OneWorkerInv
  <2>3. \A w \in Workers : pc'[w] \in {"select", "commit"} => lxc_ip' = <<>>
    <3>1. pc \in [Workers -> Calls \cup {"idle"}]
      BY DEF OneWorkerInv, UncrossedInv, TypeOK, WorkersTypeOK
    <3>2. QED
      BY <3>1
      DEF OneWorkerInv, OneWorker, Next, Step, Succeeds, CreateInstance, DeleteInstance, Begin,
          PopFreeIp, AddIP, TxSelect, TxCommit, TxDuplicateUser, TxConflict, LxdCreate, RemoveIP,
          PushFreeIp, LxdDelete, CallFails, Return, GoTo, GoToWith, InTransaction, vars
  <2>4. QED
    BY <2>2, <2>3 DEF OneWorkerInv
<1>3. OneWorkerInv => UniqueHolders
  BY DEF OneWorkerInv, UncrossedInv
<1>4. QED
  BY <1>1, <1>2, <1>3, Typing, PTL DEF Spec

\* Without kill jobs nothing is released, and every allocation is a transaction.
NothingReleased ==
  lxc_ip = <<>> /\ \A w \in Workers : pc[w] \notin {"add", "remove", "push", "delete"}

\* Any number of deploy jobs at the same time, with conflicts, failures and
\* deaths at any point: as long as no instance has been killed, serializable
\* isolation alone keeps the recorded addresses distinct.
THEOREM Growth ==
  ASSUME ~Kills
  PROVE  Spec => []NoDuplicateIP
<1>1. Init => UncrossedInv /\ NothingReleased
  BY UncrossedInit DEF NothingReleased, Init
<1>2. UncrossedInv /\ NothingReleased /\ TypeOK' /\ [Next]_vars => (UncrossedInv /\ NothingReleased)'
  <2> SUFFICES ASSUME UncrossedInv, NothingReleased, TypeOK', [Next]_vars
               PROVE  UncrossedInv' /\ NothingReleased'
    OBVIOUS
  <2>1. ~Crossing
    BY DEF NothingReleased, Crossing, InFlight
  <2>2. pc \in [Workers -> Calls \cup {"idle"}]
    BY DEF UncrossedInv, TypeOK, WorkersTypeOK
  <2>3. NothingReleased'
    BY <2>2
    DEF NothingReleased, Next, Step, Succeeds, CreateInstance, DeleteInstance, Begin,
        PopFreeIp, AddIP, TxSelect, TxCommit, TxDuplicateUser, TxConflict, LxdCreate, RemoveIP,
        PushFreeIp, LxdDelete, CallFails, Return, GoTo, GoToWith, InTransaction, vars
  <2>4. QED
    BY <2>1, <2>3, UncrossedStep
<1>3. UncrossedInv => NoDuplicateIP
  BY DEF UncrossedInv, UniqueHolders
<1>4. QED
  BY <1>1, <1>2, <1>3, Typing, PTL DEF Spec

-----------------------------------------------------------------------------
(* Users who are never in trouble *)

\* Between two calls of a job, the table, LXD and the job agree on its user.
JobAgrees(w) ==
  /\ pc[w] \in {"pop", "add", "select", "commit", "remove"} => container[uid[w]] = userip[uid[w]]
  /\ pc[w] \in {"pop", "add", "select", "commit"} => userip[uid[w]] = NoIP
  /\ pc[w] = "create" => userip[uid[w]] = ip[w] /\ container[uid[w]] = NoIP
  /\ pc[w] = "remove" => userip[uid[w]] # NoIP
  /\ pc[w] \in {"push", "delete"} => userip[uid[w]] = NoIP

\* The history knows every user in trouble; any other user has one job at most,
\* which agrees with the stores, and agrees with them at rest.
AgreeInv ==
  /\ InTrouble \subseteq troubled
  /\ \A w \in Workers : pc[w] = "idle" => uid[w] = NoUser
  /\ \A w \in Workers : uid[w] \in Users \ troubled => JobAgrees(w)
  /\ RestAgreementUnlessTroubled

\* An open transaction writes a number below which no address is lost.
HolesInv ==
  troubled = {} =>
    /\ NoHoles
    /\ \A w \in Workers : pc[w] = "commit" => 2..(ip[w] - 1) \subseteq Everywhere

\* A job's step leaves the other jobs and the other users' addresses alone.
LEMMA OneUserStep ==
  ASSUME TypeOK, NEW w \in Workers, Step(w)
  PROVE  /\ \A v \in Workers \ {w} :
              pc'[v] = pc[v] /\ uid'[v] = uid[v] /\ ip'[v] = ip[v]
         /\ \A u \in Users : u # uid[w] => userip'[u] = userip[u] /\ container'[u] = container[u]
         /\ pc[w] # "idle" => uid'[w] \in {uid[w], NoUser}
         /\ (pc'[w] = "idle" => uid'[w] = NoUser)
<1> USE DEF TypeOK, StoresTypeOK, WorkersTypeOK
<1>1. CASE \E u \in Users : CreateInstance(w, u) \/ DeleteInstance(w, u)
  BY <1>1 DEF CreateInstance, DeleteInstance, Begin
<1>2. CASE PopFreeIp(w) \/ PushFreeIp(w)
  BY <1>2 DEF PopFreeIp, PushFreeIp, GoTo, GoToWith
<1>3. CASE AddIP(w) \/ RemoveIP(w)
  BY <1>3 DEF AddIP, RemoveIP, GoTo, GoToWith, Return
<1>4. CASE TxSelect(w) \/ TxCommit(w) \/ TxDuplicateUser(w) \/ TxConflict(w)
  BY <1>4 DEF TxSelect, TxCommit, TxDuplicateUser, TxConflict, InTransaction, Return
<1>5. CASE LxdCreate(w) \/ LxdDelete(w) \/ CallFails(w)
  BY <1>5 DEF LxdCreate, LxdDelete, CallFails, Return
<1>6. QED
  BY <1>1, <1>2, <1>3, <1>4, <1>5 DEF Step, Succeeds

\* What a step that succeeds does to the job of a user who is not in trouble.
LEMMA AgreeStep ==
  ASSUME TypeOK, AgreeInv, NEW w \in Workers, Succeeds(w),
         NEW u \in Users \ troubled, u \notin InTrouble', u \in {uid[w], uid'[w]}
  PROVE  /\ uid'[w] = u => JobAgrees(w)'
         /\ uid'[w] # u => container'[u] = userip'[u]
<1>t. /\ pc \in [Workers -> Calls \cup {"idle"}]
      /\ uid \in [Workers -> Users \cup {NoUser}]
      /\ ip \in [Workers -> Hosts \cup {NoIP}]
      /\ attempt \in [Workers -> 0..MaxRetries]
      /\ userip \in [Users -> Hosts \cup {NoIP}]
      /\ container \in [Users -> Hosts \cup {NoIP}]
      /\ NoUser \notin Users /\ NoUser # u
      /\ pc[w] = "idle" => uid[w] = NoUser
      /\ uid[w] = u => JobAgrees(w)
      /\ ip[w] \in Hosts \/ pc[w] \notin {"add", "commit", "create", "push"}
      /\ NoIP \notin Hosts
      /\ MaxRetries \in Nat /\ (pc[w] # "create" => attempt[w] < MaxRetries)
  BY LxcIpAssumption DEF TypeOK, StoresTypeOK, WorkersTypeOK, AgreeInv, Hosts, NoIP
<1>o. /\ \A v \in Workers \ {w} : uid[v] # u /\ uid'[v] # u
      /\ \A v \in Workers : attempt'[v] = MaxRetries => uid'[v] # u
  <2>1. \A v \in Workers \ {w} : uid'[v] = uid[v]
    BY OneUserStep DEF Step
  <2>2. ASSUME NEW v \in Workers \ {w}, uid[v] = u PROVE FALSE
    <3>1. CASE uid[w] = u
      BY <2>2, <3>1 DEF AgreeInv, InTrouble
    <3>2. CASE uid'[w] = u
      BY <2>1, <2>2, <3>2 DEF InTrouble
    <3>3. QED
      BY <3>1, <3>2
  <2>3. QED
    BY <2>1, <2>2 DEF InTrouble
<1>r. (\A v \in Workers : uid[v] # u) => container[u] = userip[u]
  BY DEF AgreeInv, RestAgreementUnlessTroubled, RestAgrees
<1> USE DEF JobAgrees
<1>1. ASSUME NEW x \in Users, CreateInstance(w, x) \/ DeleteInstance(w, x)
      PROVE  uid'[w] = u /\ JobAgrees(w)'
  <2>1. /\ uid[w] = NoUser /\ uid'[w] = x /\ UNCHANGED <<userip, container>>
        /\ \/ pc'[w] = "pop" /\ container[x] = NoIP
           \/ pc'[w] = "remove" /\ container[x] # NoIP
    BY <1>1, <1>t DEF CreateInstance, DeleteInstance, Begin
  <2>2. x = u /\ container[u] = userip[u]
    BY <2>1, <1>t, <1>o, <1>r
  <2>3. QED
    BY <2>1, <2>2
<1>2. CASE PopFreeIp(w)
  BY <1>2, <1>t DEF PopFreeIp, GoTo, GoToWith
<1>3. CASE AddIP(w)
  BY <1>3, <1>t DEF AddIP, GoTo, Return
<1>4. CASE TxSelect(w)
  BY <1>4, <1>t DEF TxSelect, Return
<1>5. CASE TxCommit(w)
  BY <1>5, <1>t DEF TxCommit, InTransaction
<1>6. CASE TxDuplicateUser(w)
  BY <1>6, <1>t DEF TxDuplicateUser, InTransaction, Return
<1>7. CASE TxConflict(w)
  <2>1. /\ pc[w] = "commit" /\ UNCHANGED <<userip, container, uid>>
        /\ attempt'[w] = attempt[w] + 1
        /\ pc'[w] = IF attempt[w] + 1 < MaxRetries THEN "select" ELSE "create"
    BY <1>7, <1>t DEF TxConflict, InTransaction
  <2>2. uid'[w] = u /\ uid[w] = u
    BY <2>1, <1>t
  <2>3. attempt[w] + 1 < MaxRetries
    BY <2>1, <2>2, <1>t, <1>o
  <2>4. QED
    BY <2>1, <2>2, <2>3, <1>t
<1>8. CASE LxdCreate(w)
  BY <1>8, <1>t DEF LxdCreate, Return
<1>9. CASE RemoveIP(w)
  BY <1>9, <1>t DEF RemoveIP, GoTo, GoToWith, Return
<1>10. CASE PushFreeIp(w)
  BY <1>10, <1>t DEF PushFreeIp, GoTo, GoToWith
<1>11. CASE LxdDelete(w)
  BY <1>11, <1>t DEF LxdDelete, Return
<1>12. QED
  BY <1>1, <1>2, <1>3, <1>4, <1>5, <1>6, <1>7, <1>8, <1>9, <1>10, <1>11 DEF Succeeds

\* Agreement about a user survives every step that does not put him in trouble.
LEMMA AgreeNext ==
  ASSUME TypeOK, AgreeInv, [HistoryNext]_<<vars, history>>
  PROVE  AgreeInv'
<1>1. CASE UNCHANGED <<vars, history>>
  BY <1>1
  DEF vars, history, AgreeInv, InTrouble, JobAgrees, RestAgreementUnlessTroubled, RestAgrees
<1>2. ASSUME NEW w \in Workers, Step(w), troubled \subseteq troubled',
             \/ Succeeds(w) /\ InTrouble' \subseteq troubled'
             \/ CallFails(w) /\ uid[w] \in troubled'
      PROVE  AgreeInv'
  <2>t. /\ NoUser \notin Users
        /\ pc[w] # "idle" => uid[w] \in Users
        /\ pc[w] = "idle" => uid[w] = NoUser
    BY LxcIpAssumption DEF TypeOK, WorkersTypeOK, AgreeInv
  <2>1. /\ \A v \in Workers \ {w} :
             pc'[v] = pc[v] /\ uid'[v] = uid[v] /\ ip'[v] = ip[v]
        /\ \A u \in Users : u # uid[w] => userip'[u] = userip[u] /\ container'[u] = container[u]
        /\ pc[w] # "idle" => uid'[w] \in {uid[w], NoUser}
        /\ (pc'[w] = "idle" => uid'[w] = NoUser)
    BY <1>2, OneUserStep
  <2>2. InTrouble' \subseteq troubled'
    <3>1. CASE CallFails(w)
      <4>1. /\ uid' = [uid EXCEPT ![w] = NoUser] /\ attempt' = [attempt EXCEPT ![w] = 0]
            /\ uid \in [Workers -> Users \cup {NoUser}]
            /\ attempt \in [Workers -> 0..MaxRetries]
        BY <3>1 DEF CallFails, Return, TypeOK, WorkersTypeOK
      <4>2. InTrouble' \subseteq InTrouble
        BY <4>1, <2>t DEF InTrouble
      <4>3. QED
        BY <4>2, <1>2 DEF AgreeInv
    <3>2. QED
      BY <1>2, <3>1
  <2>3. \A v \in Workers : pc'[v] = "idle" => uid'[v] = NoUser
    BY <2>1 DEF AgreeInv
  <2>4. ASSUME NEW u \in Users \ troubled'
        PROVE  /\ \A v \in Workers : uid'[v] = u => JobAgrees(v)'
               /\ RestAgrees(u)'
    <3>1. u \in Users \ troubled /\ u \notin InTrouble' /\ u \notin InTrouble
      BY <1>2, <2>2, <2>4 DEF AgreeInv
    <3>2. CASE u \in {uid[w], uid'[w]}
      <4>1. Succeeds(w)
        <5>1. CASE CallFails(w) /\ uid[w] \in troubled'
          BY <5>1, <1>2, <2>4, <3>2, <2>t DEF CallFails, Return, TypeOK, WorkersTypeOK
        <5>2. QED
          BY <1>2, <5>1
      <4>2. /\ uid'[w] = u => JobAgrees(w)'
            /\ uid'[w] # u => container'[u] = userip'[u]
        BY <3>1, <3>2, <4>1, AgreeStep
      <4>3. \A v \in Workers \ {w} : uid'[v] # u
        <5>1. ASSUME NEW v \in Workers \ {w}, uid'[v] = u PROVE FALSE
          <6>1. uid[v] = u
            BY <2>1, <5>1
          <6>2. QED
            BY <3>1, <3>2, <5>1, <6>1 DEF InTrouble
        <5>2. QED
          BY <5>1
      <4>4. QED
        BY <4>2, <4>3 DEF RestAgrees
    <3>3. CASE u \notin {uid[w], uid'[w]}
      <4>1. userip'[u] = userip[u] /\ container'[u] = container[u]
        BY <2>1, <3>1, <3>3
      <4>2. RestAgrees(u)'
        BY <2>1, <3>1, <3>3, <4>1 DEF AgreeInv, RestAgreementUnlessTroubled, RestAgrees
      <4>3. ASSUME NEW v \in Workers, uid'[v] = u PROVE JobAgrees(v)'
        <5>1. v # w /\ uid[v] = u /\ pc'[v] = pc[v] /\ ip'[v] = ip[v] /\ JobAgrees(v)
          BY <2>1, <3>1, <3>3, <4>3 DEF AgreeInv
        <5>2. QED
          BY <4>1, <4>3, <5>1 DEF JobAgrees
      <4>4. QED
        BY <4>2, <4>3
    <3>4. QED
      BY <3>2, <3>3
  <2>5. QED
    BY <2>2, <2>3, <2>4 DEF AgreeInv, RestAgreementUnlessTroubled
<1>3. ASSUME NEW w \in Workers, Succeeds(w), troubled' = troubled \cup InTrouble'
      PROVE  AgreeInv'
  BY <1>2, <1>3 DEF Step
<1>4. ASSUME NEW w \in Workers, CallFails(w), troubled' = troubled \cup {uid[w]}
      PROVE  AgreeInv'
  BY <1>2, <1>4 DEF Step
<1>5. QED
  BY <1>1, <1>3, <1>4 DEF HistoryNext

\* The job of a user who is never in trouble finds its row free.
LEMMA AgreeHolds == HistorySpec => []AgreeInv
<1>1. HistoryInit => AgreeInv
  <2> SUFFICES ASSUME HistoryInit PROVE AgreeInv
    OBVIOUS
  <2>1. /\ \A w \in Workers : pc[w] = "idle" /\ uid[w] = NoUser /\ attempt[w] = 0
        /\ NoUser \notin Users /\ MaxRetries # 0 /\ container = userip
    BY LxcIpAssumption DEF HistoryInit, Init
  <2>2. QED
    BY <2>1 DEF AgreeInv, InTrouble, JobAgrees, RestAgreementUnlessTroubled, RestAgrees
<1>2. TypeOK /\ AgreeInv /\ [HistoryNext]_<<vars, history>> => AgreeInv'
  BY AgreeNext
<1>3. QED
  BY <1>1, <1>2, HistoryIsSpec, Typing, PTL DEF HistorySpec

\* LXD's static address is the recorded one for every user none of whose jobs failed,
\* overlapped or lost all its transactions, whatever the other users' jobs do.
THEOREM RestUnlessTroubled == HistorySpec => []RestAgreementUnlessTroubled
<1>1. AgreeInv => RestAgreementUnlessTroubled
  BY DEF AgreeInv
<1>2. QED
  BY <1>1, AgreeHolds, PTL

\* A step that succeeds moves addresses between table, stack and hands; only the
\* commit of a transaction brings a new one.
LEMMA EverywhereStep ==
  ASSUME TypeOK, NEW w \in Workers, Succeeds(w), pc[w] = "add" => userip[uid[w]] = NoIP
  PROVE  /\ Everywhere \subseteq Everywhere'
         /\ \/ Everywhere' \subseteq Everywhere
            \/ pc[w] = "commit" /\ Everywhere' \subseteq Everywhere \cup {ip[w]}
<1> DEFINE Goal == /\ Everywhere \subseteq Everywhere'
                   /\ \/ Everywhere' \subseteq Everywhere
                      \/ pc[w] = "commit" /\ Everywhere' \subseteq Everywhere \cup {ip[w]}
<1>t. /\ pc \in [Workers -> Calls \cup {"idle"}]
      /\ ip \in [Workers -> Hosts \cup {NoIP}]
      /\ userip \in [Users -> Hosts \cup {NoIP}]
      /\ lxc_ip \in Seq(Hosts)
      /\ pc[w] # "idle" => uid[w] \in Users
      /\ pc[w] \in {"add", "commit", "push"} => ip[w] \in Hosts
      /\ NoIP \notin Hosts
  BY DEF TypeOK, StoresTypeOK, WorkersTypeOK, Hosts, NoIP
<1>o. \A v \in Workers \ {w} : pc'[v] = pc[v] /\ ip'[v] = ip[v]
  BY OneUserStep DEF Step
<1>1. ASSUME UNCHANGED <<userip, lxc_ip>>, pc[w] \notin {"add", "push"}, pc'[w] \notin {"add", "push"}
      PROVE  Goal
  <2>1. InFlight' = InFlight /\ \A v \in InFlight : ip'[v] = ip[v]
    BY <1>1, <1>o DEF InFlight
  <2>2. Everywhere' = Everywhere
    BY <1>1, <2>1 DEF Everywhere, Held
  <2>3. QED
    BY <2>2
<1>2. CASE \E u \in Users : CreateInstance(w, u) \/ DeleteInstance(w, u)
  BY <1>1, <1>2, <1>t DEF CreateInstance, DeleteInstance, Begin
<1>3. CASE PopFreeIp(w)
  <2>1. CASE lxc_ip # <<>>
    <3>1. /\ lxc_ip' = Tail(lxc_ip) /\ UNCHANGED userip /\ pc[w] = "pop"
          /\ pc'[w] = "add" /\ ip'[w] = Head(lxc_ip)
      BY <1>3, <2>1, <1>t DEF PopFreeIp, GoTo, GoToWith
    <3>2. /\ \A k \in DOMAIN lxc_ip' : k + 1 \in DOMAIN lxc_ip /\ lxc_ip'[k] = lxc_ip[k + 1]
          /\ \A k \in DOMAIN lxc_ip \ {1} : k - 1 \in DOMAIN lxc_ip' /\ lxc_ip'[k - 1] = lxc_ip[k]
          /\ 1 \in DOMAIN lxc_ip /\ lxc_ip[1] = ip'[w]
      BY <3>1, <2>1, <1>t
    <3>3. {lxc_ip[k] : k \in DOMAIN lxc_ip} = {lxc_ip'[k] : k \in DOMAIN lxc_ip'} \cup {ip'[w]}
      <4>1. \A k \in DOMAIN lxc_ip : lxc_ip[k] = ip'[w] \/ \E i \in DOMAIN lxc_ip' : lxc_ip'[i] = lxc_ip[k]
        BY <3>2
      <4>2. \A k \in DOMAIN lxc_ip' : \E i \in DOMAIN lxc_ip : lxc_ip[i] = lxc_ip'[k]
        BY <3>2
      <4>3. \E i \in DOMAIN lxc_ip : lxc_ip[i] = ip'[w]
        BY <3>2
      <4>4. QED
        BY <4>1, <4>2, <4>3
    <3>4. {ip'[v] : v \in InFlight'} = {ip[v] : v \in InFlight} \cup {ip'[w]}
      <4>1. w \notin InFlight /\ InFlight' = InFlight \cup {w}
        BY <3>1, <1>o DEF InFlight
      <4>2. \A v \in InFlight : ip'[v] = ip[v]
        BY <4>1, <1>o DEF InFlight
      <4>3. QED
        BY <4>1, <4>2
    <3>5. QED
      BY <3>1, <3>3, <3>4 DEF Everywhere, Held
  <2>2. CASE lxc_ip = <<>>
    BY <1>1, <1>3, <2>2, <1>t DEF PopFreeIp, GoTo
  <2>3. QED
    BY <2>1, <2>2
<1>4. CASE AddIP(w)
  <2>1. /\ pc[w] = "add" /\ pc'[w] = "create" /\ UNCHANGED lxc_ip /\ uid[w] \in Users
        /\ userip[uid[w]] = NoIP /\ userip' = [userip EXCEPT ![uid[w]] = ip[w]] /\ ip[w] \in Hosts
    BY <1>4, <1>t DEF AddIP, GoTo
  <2>2. Held' = Held \cup {ip[w]}
    BY <2>1, <1>t DEF Held
  <2>3. {ip[v] : v \in InFlight} = {ip'[v] : v \in InFlight'} \cup {ip[w]}
    <3>1. w \in InFlight /\ InFlight' = InFlight \ {w}
      BY <2>1, <1>o DEF InFlight
    <3>2. \A v \in InFlight' : ip'[v] = ip[v]
      BY <3>1, <1>o DEF InFlight
    <3>3. QED
      BY <3>1, <3>2
  <2>4. QED
    BY <2>1, <2>2, <2>3 DEF Everywhere
<1>5. CASE TxSelect(w)
  BY <1>1, <1>5, <1>t DEF TxSelect, Return
<1>6. CASE TxCommit(w)
  <2>1. /\ pc[w] = "commit" /\ pc'[w] = "create" /\ UNCHANGED lxc_ip /\ uid[w] \in Users
        /\ userip[uid[w]] = NoIP /\ userip' = [userip EXCEPT ![uid[w]] = ip[w]] /\ ip[w] \in Hosts
    BY <1>6, <1>t DEF TxCommit, InTransaction
  <2>2. Held' = Held \cup {ip[w]}
    BY <2>1, <1>t DEF Held
  <2>3. InFlight' = InFlight /\ \A v \in InFlight : ip'[v] = ip[v]
    BY <2>1, <1>o DEF InFlight
  <2>4. QED
    BY <2>1, <2>2, <2>3 DEF Everywhere
<1>7. CASE TxDuplicateUser(w)
  BY <1>1, <1>7, <1>t DEF TxDuplicateUser, InTransaction, Return
<1>8. CASE TxConflict(w)
  BY <1>1, <1>8, <1>t DEF TxConflict, InTransaction
<1>9. CASE LxdCreate(w) \/ LxdDelete(w)
  BY <1>1, <1>9, <1>t DEF LxdCreate, LxdDelete, Return
<1>10. CASE RemoveIP(w)
  <2>1. CASE userip[uid[w]] # NoIP
    <3>1. /\ pc[w] = "remove" /\ pc'[w] = "push" /\ UNCHANGED lxc_ip /\ uid[w] \in Users
          /\ userip' = [userip EXCEPT ![uid[w]] = NoIP]
          /\ ip'[w] = userip[uid[w]] /\ ip'[w] \in Held
      BY <1>10, <2>1, <1>t DEF RemoveIP, GoTo, GoToWith, Held
    <3>2. Held \subseteq Held' \cup {ip'[w]} /\ Held' \subseteq Held
      BY <3>1, <1>t DEF Held
    <3>3. {ip'[v] : v \in InFlight'} = {ip[v] : v \in InFlight} \cup {ip'[w]}
      <4>1. w \notin InFlight /\ InFlight' = InFlight \cup {w}
        BY <3>1, <1>o DEF InFlight
      <4>2. \A v \in InFlight : ip'[v] = ip[v]
        BY <4>1, <1>o DEF InFlight
      <4>3. QED
        BY <4>1, <4>2
    <3>4. QED
      BY <3>1, <3>2, <3>3 DEF Everywhere
  <2>2. CASE userip[uid[w]] = NoIP
    BY <1>1, <1>10, <2>2, <1>t DEF RemoveIP, Return
  <2>3. QED
    BY <2>1, <2>2
<1>11. CASE PushFreeIp(w)
  <2>1. /\ pc[w] = "push" /\ pc'[w] = "delete" /\ UNCHANGED userip
        /\ lxc_ip' = <<ip[w]>> \o lxc_ip /\ ip[w] \in Hosts
    BY <1>11, <1>t DEF PushFreeIp, GoTo, GoToWith
  <2>2. /\ \A k \in DOMAIN lxc_ip : k + 1 \in DOMAIN lxc_ip' /\ lxc_ip'[k + 1] = lxc_ip[k]
        /\ \A k \in DOMAIN lxc_ip' \ {1} : k - 1 \in DOMAIN lxc_ip /\ lxc_ip'[k] = lxc_ip[k - 1]
        /\ 1 \in DOMAIN lxc_ip' /\ lxc_ip'[1] = ip[w]
    BY <2>1, <1>t
  <2>3. {lxc_ip'[k] : k \in DOMAIN lxc_ip'} = {lxc_ip[k] : k \in DOMAIN lxc_ip} \cup {ip[w]}
    BY <2>2
  <2>4. {ip[v] : v \in InFlight} = {ip'[v] : v \in InFlight'} \cup {ip[w]}
    <3>1. w \in InFlight /\ InFlight' = InFlight \ {w}
      BY <2>1, <1>o DEF InFlight
    <3>2. \A v \in InFlight' : ip'[v] = ip[v]
      BY <3>1, <1>o DEF InFlight
    <3>3. QED
      BY <3>1, <3>2
  <2>5. QED
    BY <2>1, <2>3, <2>4 DEF Everywhere, Held
<1>12. QED
  BY <1>2, <1>3, <1>4, <1>5, <1>6, <1>7, <1>8, <1>9, <1>10, <1>11 DEF Succeeds

\* The number computed from the table leaves no hole below it.
LEMMA NextLeavesNoHole ==
  ASSUME StoresTypeOK, NoHoles, NEW h \in Hosts, NextHost(h)
  PROVE  2..(h - 1) \subseteq Everywhere
<1>1. Held \subseteq Hosts /\ Held \subseteq Everywhere
  BY DEF Everywhere, StoresTypeOK, Held
<1>2. CASE h = 2
  BY <1>2
<1>3. ASSUME NEW top \in Held, h = top + 1 PROVE 2..(h - 1) \subseteq Everywhere
  <2>1. 2..top \subseteq Everywhere /\ top \in Int
    BY <1>1, <1>3 DEF NoHoles, Hosts
  <2>2. QED
    BY <1>3, <2>1
<1>4. QED
  BY <1>2, <1>3 DEF NextHost

\* A step that puts nobody in trouble loses no address.
LEMMA HolesNext ==
  ASSUME TypeOK, TypeOK', AgreeInv, HolesInv, [HistoryNext]_<<vars, history>>
  PROVE  HolesInv'
<1>1. CASE UNCHANGED <<vars, history>>
  <2>1. Everywhere' = Everywhere /\ UNCHANGED <<pc, ip, troubled>>
    BY <1>1 DEF vars, history, Everywhere, Held, InFlight
  <2>2. QED
    BY <2>1 DEF HolesInv, NoHoles
<1>2. ASSUME NEW w \in Workers, Succeeds(w), troubled' = troubled \cup InTrouble', troubled' = {}
      PROVE  HolesInv'
  <2>1. troubled = {} /\ NoHoles
        /\ \A v \in Workers : pc[v] = "commit" => 2..(ip[v] - 1) \subseteq Everywhere
    BY <1>2 DEF HolesInv
  <2>2. pc[w] = "add" => userip[uid[w]] = NoIP
    BY <2>1 DEF AgreeInv, JobAgrees, TypeOK, WorkersTypeOK
  <2>3. /\ Everywhere \subseteq Everywhere'
        /\ \/ Everywhere' \subseteq Everywhere
           \/ pc[w] = "commit" /\ Everywhere' \subseteq Everywhere \cup {ip[w]}
    BY <1>2, <2>2, EverywhereStep
  <2>4. NoHoles'
    <3>1. ASSUME NEW h \in Everywhere PROVE 2..h \subseteq Everywhere'
      BY <2>1, <2>3, <3>1 DEF NoHoles
    <3>2. CASE pc[w] = "commit" /\ Everywhere' \subseteq Everywhere \cup {ip[w]}
      <4>1. ip[w] \in Int /\ 2..(ip[w] - 1) \subseteq Everywhere
        BY <2>1, <3>2 DEF TypeOK, WorkersTypeOK, Hosts
      <4>2. ip[w] \in Everywhere' => 2..ip[w] \subseteq Everywhere'
        BY <4>1, <2>3
      <4>3. QED
        BY <3>1, <3>2, <4>2 DEF NoHoles
    <3>3. QED
      BY <2>3, <3>1, <3>2 DEF NoHoles
  <2>5. ASSUME NEW v \in Workers, pc'[v] = "commit" PROVE 2..(ip'[v] - 1) \subseteq Everywhere'
    <3>1. CASE v # w
      <4>1. pc'[v] = pc[v] /\ ip'[v] = ip[v]
        BY <1>2, <3>1, OneUserStep DEF Step
      <4>2. QED
        BY <2>1, <2>3, <2>5, <4>1
    <3>2. CASE v = w
      <4>1. \E h \in Hosts : NextHost(h) /\ ip'[w] = h
        BY <1>2, <2>5, <3>2
        DEF Succeeds, CreateInstance, DeleteInstance, Begin, PopFreeIp, AddIP, TxSelect, TxCommit,
            TxDuplicateUser, TxConflict, LxdCreate, RemoveIP, PushFreeIp, LxdDelete, Return, GoTo,
            GoToWith, InTransaction, TypeOK, WorkersTypeOK
      <4>2. 2..(ip'[w] - 1) \subseteq Everywhere
        BY <2>1, <4>1, NextLeavesNoHole DEF TypeOK
      <4>3. QED
        BY <2>3, <3>2, <4>2
    <3>3. QED
      BY <3>1, <3>2
  <2>6. QED
    BY <2>4, <2>5 DEF HolesInv
<1>3. ASSUME NEW w \in Workers, troubled' = troubled \cup {uid[w]} PROVE HolesInv'
  BY <1>3 DEF HolesInv
<1>4. CASE troubled' # {}
  BY <1>4 DEF HolesInv
<1>5. QED
  BY <1>1, <1>2, <1>3, <1>4 DEF HistoryNext

\* Any number of jobs at once, and even where an address has got two holders: until
\* some user's job fails, overlaps another of his or loses all its transactions, every
\* host number up to the largest one in use is in the table, on the stack or in hand.
THEOREM HolesUnlessTroubled == HistorySpec => []NoHolesUnlessTroubled
<1>1. HistoryInit => HolesInv
  BY DEF HistoryInit, Init, HolesInv, NoHoles, Everywhere, Held, InFlight
<1>2. TypeOK /\ TypeOK' /\ AgreeInv /\ HolesInv /\ [HistoryNext]_<<vars, history>> => HolesInv'
  BY HolesNext
<1>3. HolesInv => NoHolesUnlessTroubled
  BY DEF HolesInv, NoHolesUnlessTroubled
<1>4. QED
  BY <1>1, <1>2, <1>3, AgreeHolds, HistoryIsSpec, Typing, PTL DEF HistorySpec
=============================================================================
