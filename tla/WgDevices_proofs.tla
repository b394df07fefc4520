-------------------------- MODULE WgDevices_proofs --------------------------
(***************************************************************************)
(* Theorems about WgDevices for every set of users, keys and requests,     *)
(* every CIDR, limit and number of attempts, and every choice of failing   *)
(* calls.                                                                  *)
(***************************************************************************)
EXTENDS MCWgDevices, FiniteSetTheorems, TLAPS

\* What a request's local variables hold, by its next call.
LocalsOK ==
  \A r \in Requests :
    /\ pc[r] # "idle" => uid[r] \in Users /\ key[r] \in Keys
    /\ pc[r] \in {"count", "add", "commit", "configure", "push"} => ip[r] \in Hosts
    /\ pc[r] # "configure" => attempt[r] < MaxRetries

TypeInv == TypeOK /\ LocalsOK

\* The rows of wgpeer are whole.
RowsOK ==
  /\ owner \in [Keys -> Users \cup {NoUser}]
  /\ addr \in [Keys -> Hosts \cup {NoIP}]
  /\ \A k \in Keys : owner[k] = NoUser <=> addr[k] = NoIP

\* No row's address is taken for "no address".
LEMMA NoIPIsNoHost == NoIP \notin Hosts
BY DEF NoIP, Hosts

\* Taking the top of the stack of released addresses.
LEMMA PopSeq ==
  ASSUME NEW S, NEW s \in Seq(S), s # <<>>
  PROVE  Head(s) \in S /\ Tail(s) \in Seq(S)
OBVIOUS

\* Pushing a released address.
LEMMA PushSeq ==
  ASSUME NEW S, NEW s \in Seq(S), NEW x \in S
  PROVE  <<x>> \o s \in Seq(S)
OBVIOUS

\* The end of a request keeps the types, whatever it was doing.
LEMMA ReturnTypes ==
  ASSUME TypeInv, NEW r \in Requests, Return(r),
         RowsOK', kernel' \in [Keys -> Hosts \cup {NoIP}],
         UNCHANGED ip_stack
  PROVE  TypeInv'
BY WgDevicesAssumption DEF RowsOK, TypeInv, TypeOK, LocalsOK, Return, NoIP

\* So does the end of one that changes nothing.
LEMMA ReturnOnly ==
  ASSUME TypeInv, NEW r \in Requests, Return(r), UNCHANGED <<owner, addr, ip_stack, kernel>>
  PROVE  TypeInv'
BY ReturnTypes DEF RowsOK, TypeInv, TypeOK

\* So does a step to the next call, given the address that call is about.
LEMMA StepTypes ==
  ASSUME TypeInv, NEW r \in Requests, pc[r] \notin {"idle", "configure"}, NEW step \in Calls,
         NEW h \in Hosts \cup {NoIP}, GoToWith(r, step, h),
         step \in {"count", "add", "commit", "configure", "push"} => h \in Hosts,
         RowsOK', ip_stack' \in Seq(Hosts), UNCHANGED kernel
  PROVE  TypeInv'
BY DEF RowsOK, TypeInv, TypeOK, LocalsOK, GoTo, GoToWith

\* Rows of wgpeer are whole, and every address the system stores, computes or
\* configures is a usable host number.
THEOREM TypingInv == Spec => []TypeInv
<1>1. Init => TypeInv
  BY WgDevicesAssumption DEF Init, TypeInv, TypeOK, LocalsOK, NoIP, Hosts
<1>2. TypeInv /\ [Next]_vars => TypeInv'
  <2> SUFFICES ASSUME TypeInv, [Next]_vars PROVE TypeInv'
    OBVIOUS
  <2> USE WgDevicesAssumption, NoIPIsNoHost DEF table
  <2>1. ASSUME NEW r \in Requests, NEW u \in Users, NEW k \in Keys,
               NEW step \in {"pop", "remove"}, Begin(r, u, k, step)
        PROVE  TypeInv'
    BY <2>1 DEF Begin, TypeInv, TypeOK, LocalsOK, Calls
  <2>2. ASSUME NEW r \in Requests, PopFreeIp(r) PROVE TypeInv'
    <3>1. CASE ip_stack # <<>>
      <4> ip_stack \in Seq(Hosts)
        BY DEF TypeInv, TypeOK
      <4>1. Head(ip_stack) \in Hosts /\ Tail(ip_stack) \in Seq(Hosts)
        BY <3>1, PopSeq
      <4>2. RowsOK' /\ UNCHANGED kernel
        BY <2>2 DEF PopFreeIp, RowsOK, TypeInv, TypeOK
      <4>3. pc[r] = "pop" /\ GoToWith(r, "count", Head(ip_stack)) /\ "count" \in Calls
        BY <2>2, <3>1 DEF PopFreeIp, Calls
      <4>4. ip_stack' \in Seq(Hosts)
        BY <2>2, <3>1, <4>1 DEF PopFreeIp
      <4>5. QED
        BY <4>1, <4>2, <4>3, <4>4, StepTypes
    <3>2. CASE ip_stack = <<>>
      BY <2>2, <3>2 DEF PopFreeIp, GoTo, TypeInv, TypeOK, LocalsOK, Calls
    <3>3. QED
      BY <3>1, <3>2
  <2>3. ASSUME NEW r \in Requests, CountDevices(r) PROVE TypeInv'
    <3>1. CASE Return(r)
      BY <2>3, <3>1, ReturnOnly DEF CountDevices
    <3>2. CASE GoTo(r, IF pc[r] = "count" THEN "add" ELSE "select") /\ UNCHANGED ip
      BY <2>3, <3>2 DEF CountDevices, GoTo, TypeInv, TypeOK, LocalsOK, Calls
    <3>3. QED
      BY <2>3, <3>1, <3>2 DEF CountDevices
  <2>4. ASSUME NEW r \in Requests, AddPeerRow(r) PROVE TypeInv'
    <3>1. CASE CanInsert(r)
      <4>1. pc[r] = "add" /\ "configure" \in Calls
        BY <2>4 DEF AddPeerRow, Calls
      <4>2. ip[r] \in Hosts /\ uid[r] \in Users /\ key[r] \in Keys
        BY <4>1 DEF TypeInv, LocalsOK
      <4>3. RowsOK'
        BY <2>4, <3>1, <4>2 DEF AddPeerRow, InsertRow, RowsOK, TypeInv, TypeOK
      <4>4. GoToWith(r, "configure", ip[r])
        BY <2>4, <3>1 DEF AddPeerRow, GoToWith, TypeInv, TypeOK
      <4>5. ip_stack' \in Seq(Hosts) /\ UNCHANGED kernel
        BY <2>4 DEF AddPeerRow, TypeInv, TypeOK
      <4>6. QED
        BY <4>1, <4>2, <4>3, <4>4, <4>5, StepTypes
    <3>2. CASE ~CanInsert(r)
      BY <2>4, <3>2, ReturnOnly DEF AddPeerRow
    <3>3. QED
      BY <3>1, <3>2
  <2>5. ASSUME NEW r \in Requests, TxSelect(r) PROVE TypeInv'
    <3>1. CASE Return(r)
      BY <2>5, <3>1, ReturnOnly DEF TxSelect
    <3>2. ASSUME NEW h \in Hosts, pc[r] = "select", pc' = [pc EXCEPT ![r] = "commit"],
                 ip' = [ip EXCEPT ![r] = h], stale' = stale \ {r},
                 UNCHANGED <<uid, key, attempt, owner, addr, ip_stack, kernel>>
          PROVE  TypeInv'
      BY <3>2 DEF TypeInv, TypeOK, LocalsOK, Calls
    <3>3. QED
      BY <2>5, <3>1, <3>2 DEF TxSelect
  <2>6. ASSUME NEW r \in Requests, TxCommit(r) PROVE TypeInv'
    BY <2>6 DEF TxCommit, InTransaction, InsertRow, TypeInv, TypeOK, LocalsOK, Calls
  <2>7. ASSUME NEW r \in Requests, TxDuplicate(r) \/ CallFails(r) PROVE TypeInv'
    BY <2>7, ReturnOnly DEF TxDuplicate, CallFails
  <2>8. ASSUME NEW r \in Requests, TxConflict(r) PROVE TypeInv'
    <3>1. attempt[r] + 1 \in 0..MaxRetries
      BY <2>8 DEF TxConflict, InTransaction, TypeInv, TypeOK, LocalsOK
    <3>2. QED
      BY <2>8, <3>1 DEF TxConflict, InTransaction, TypeInv, TypeOK, LocalsOK, Calls
  <2>9. ASSUME NEW r \in Requests, ConfigurePeer(r) PROVE TypeInv'
    <3>1. kernel' \in [Keys -> Hosts \cup {NoIP}]
      BY <2>9 DEF ConfigurePeer, TypeInv, TypeOK, LocalsOK
    <3>2. QED
      BY <2>9, <3>1, ReturnTypes DEF RowsOK, ConfigurePeer, TypeInv, TypeOK
  <2>10. ASSUME NEW r \in Requests, RemovePeerRow(r) PROVE TypeInv'
    <3>1. CASE owner[key[r]] = uid[r]
      <4>1. addr[key[r]] \in Hosts
        BY <2>10, <3>1 DEF RemovePeerRow, TypeInv, TypeOK, LocalsOK
      <4>2. QED
        BY <2>10, <3>1, <4>1 DEF RemovePeerRow, GoTo, GoToWith, TypeInv, TypeOK, LocalsOK, Calls
    <3>2. CASE owner[key[r]] # uid[r]
      BY <2>10, <3>2, ReturnOnly DEF RemovePeerRow
    <3>3. QED
      BY <3>1, <3>2
  <2>11. ASSUME NEW r \in Requests, PushFreeIp(r) PROVE TypeInv'
    <3>1. ip_stack' \in Seq(Hosts)
      BY <2>11, PushSeq DEF PushFreeIp, TypeInv, TypeOK, LocalsOK
    <3>2. QED
      BY <2>11, <3>1 DEF PushFreeIp, GoTo, GoToWith, TypeInv, TypeOK, LocalsOK, Calls
  <2>12. ASSUME NEW r \in Requests, UnconfigurePeer(r) PROVE TypeInv'
    <3>1. kernel' \in [Keys -> Hosts \cup {NoIP}]
      BY <2>12 DEF UnconfigurePeer, TypeInv, TypeOK, LocalsOK
    <3>2. QED
      BY <2>12, <3>1, ReturnTypes DEF RowsOK, UnconfigurePeer, TypeInv, TypeOK
  <2>13. ASSUME UNCHANGED vars PROVE TypeInv'
    BY <2>13 DEF vars, request, TypeInv, TypeOK, LocalsOK
  <2>14. QED
    BY <2>1, <2>2, <2>3, <2>4, <2>5, <2>6, <2>7, <2>8, <2>9, <2>10, <2>11, <2>12, <2>13
    DEF Next, Step, Succeeds, RegisterDevice, RemoveDevice
<1>3. QED
  BY <1>1, <1>2, PTL DEF Spec

\* The type invariant by itself, as the run checks it.
THEOREM Typing == Spec => []TypeOK
<1>1. TypeInv => TypeOK
  BY DEF TypeInv
<1>2. QED
  BY <1>1, TypingInv, PTL

-----------------------------------------------------------------------------
\* Inserting a row that the two UNIQUE columns accept is an assignment of the
\* abstract pool.
LEMMA InsertAssigns ==
  ASSUME TypeInv, NEW r \in Requests, pc[r] # "idle", ip[r] \in Hosts, CanInsert(r), InsertRow(r)
  PROVE  Pool!Assign(key[r])
BY NoIPIsNoHost DEF TypeInv, TypeOK, LocalsOK, CanInsert, InsertRow, Held, Pool!Assign, Pool!Free

\* The table of devices implements the abstract allocator for any number of
\* overlapping requests, whatever the stack of released addresses holds.
THEOREM Refinement == Spec => ImplementsIpPool
<1>1. Init => Pool!Init
  BY DEF Init, Pool!Init
<1>2. TypeInv /\ [Next]_vars => [Pool!Next]_addr
  <2> SUFFICES ASSUME TypeInv, Next PROVE [Pool!Next]_addr
    BY DEF vars, table
  <2>1. PICK r \in Requests : Step(r)
    BY DEF Next
  <2>2. CASE AddPeerRow(r) /\ CanInsert(r)
    <3>1. Pool!Assign(key[r])
      BY <2>2, InsertAssigns DEF AddPeerRow, TypeInv, LocalsOK
    <3>2. QED
      BY <2>2, <3>1 DEF AddPeerRow, TypeInv, LocalsOK, Pool!Next
  <2>3. CASE TxCommit(r)
    <3>1. Pool!Assign(key[r])
      BY <2>3, InsertAssigns DEF TxCommit, InTransaction, TypeInv, LocalsOK
    <3>2. QED
      BY <2>3, <3>1 DEF TxCommit, InTransaction, TypeInv, LocalsOK, Pool!Next
  <2>4. CASE RemovePeerRow(r) /\ owner[key[r]] = uid[r]
    <3>1. Pool!Release(key[r])
      BY <2>4, WgDevicesAssumption DEF RemovePeerRow, TypeInv, TypeOK, LocalsOK, Pool!Release
    <3>2. QED
      BY <2>4, <3>1 DEF RemovePeerRow, TypeInv, LocalsOK, Pool!Next
  <2>5. QED
    BY <2>1, <2>2, <2>3, <2>4
    DEF Step, Succeeds, RegisterDevice, RemoveDevice, Begin, PopFreeIp, CountDevices,
        AddPeerRow, TxSelect, TxDuplicate, TxConflict, ConfigurePeer, RemovePeerRow,
        PushFreeIp, UnconfigurePeer, CallFails, table
<1>3. QED
  BY <1>1, <1>2, TypingInv, PTL DEF Spec, ImplementsIpPool, Pool!Spec

\* "At this point, DB is updated": the kernel is configured only after the row
\* has been written with the same address, or after the last attempt was lost.
THEOREM DbBeforeKernel == Spec => KernelAfterDb
<1>1. TypeInv /\ [Next]_vars =>
        [\A r \in Requests : pc[r] # "configure" /\ pc'[r] = "configure" =>
           addr'[key[r]] = ip'[r] \/ attempt'[r] = MaxRetries]_vars
  <2> SUFFICES ASSUME TypeInv, NEW q \in Requests, Step(q), NEW r \in Requests,
                      pc[r] # "configure", pc'[r] = "configure"
               PROVE  addr'[key[r]] = ip'[r] \/ attempt'[r] = MaxRetries
    BY DEF Next
  <2>1. \A step : pc' = [pc EXCEPT ![q] = step] => r = q /\ step = "configure"
    BY DEF TypeInv, TypeOK
  <2>2. AddPeerRow(q) \/ TxCommit(q) \/ TxConflict(q)
    BY <2>1
    DEF Step, Succeeds, RegisterDevice, RemoveDevice, Begin, PopFreeIp, CountDevices, TxSelect,
        TxDuplicate, ConfigurePeer, RemovePeerRow, PushFreeIp, UnconfigurePeer, CallFails,
        Return, GoTo, GoToWith
  <2>3. r = q
    BY <2>1, <2>2 DEF AddPeerRow, TxCommit, TxConflict, Return, GoTo
  <2>4. CASE AddPeerRow(q)
    BY <2>1, <2>3, <2>4 DEF AddPeerRow, InsertRow, Return, GoTo, TypeInv, TypeOK, LocalsOK
  <2>5. CASE TxCommit(q)
    BY <2>3, <2>5 DEF TxCommit, InTransaction, InsertRow, TypeInv, TypeOK, LocalsOK
  <2>6. CASE TxConflict(q)
    BY <2>1, <2>3, <2>6, WgDevicesAssumption DEF TxConflict, InTransaction, TypeInv, TypeOK, LocalsOK
  <2>7. QED
    BY <2>2, <2>4, <2>5, <2>6
<1>2. QED
  BY <1>1, TypingInv, PTL DEF Spec, KernelAfterDb

-----------------------------------------------------------------------------
\* A request changes nothing of the other requests, keeps its user and its device until it
\* ends, and writes no row but that of its device, which is its user's then.
Frame(r) ==
  /\ \A q \in Requests \ {r} :
       /\ pc'[q] = pc[q] /\ uid'[q] = uid[q] /\ key'[q] = key[q] /\ ip'[q] = ip[q]
  /\ pc'[r] # "idle" => uid'[r] = uid[r] /\ key'[r] = key[r]
  /\ \A k \in Keys \ {key[r]} : owner'[k] = owner[k] /\ addr'[k] = addr[k]
  /\ \A u \in Users \ {uid[r]} : owner'[key[r]] = u <=> owner[key[r]] = u

\* It does so in every step but its first one.
LEMMA StepFrame ==
  ASSUME TypeInv, NEW r \in Requests, Step(r), pc[r] # "idle"
  PROVE  Frame(r)
<1> USE WgDevicesAssumption DEF TypeInv, TypeOK, LocalsOK, table
<1> DEFINE Locals == /\ \A q \in Requests \ {r} :
                          /\ pc'[q] = pc[q] /\ uid'[q] = uid[q] /\ key'[q] = key[q] /\ ip'[q] = ip[q]
                     /\ pc'[r] # "idle" => uid'[r] = uid[r] /\ key'[r] = key[r]
           Rows == /\ \A k \in Keys \ {key[r]} : owner'[k] = owner[k] /\ addr'[k] = addr[k]
                   /\ \A u \in Users \ {uid[r]} : owner'[key[r]] = u <=> owner[key[r]] = u
<1>1. ASSUME Return(r) PROVE Locals
  BY <1>1 DEF Return
<1>2. ASSUME NEW step, pc' = [pc EXCEPT ![r] = step], UNCHANGED <<uid, key>>,
             \A q \in Requests \ {r} : ip'[q] = ip[q]
      PROVE  Locals
  BY <1>2
<1>3. ASSUME CanInsert(r), InsertRow(r) PROVE Rows
  BY <1>3 DEF CanInsert, InsertRow
<1>4. ASSUME owner[key[r]] = uid[r], owner' = [owner EXCEPT ![key[r]] = NoUser],
             addr' = [addr EXCEPT ![key[r]] = NoIP]
      PROVE  Rows
  BY <1>4
<1>5. ASSUME UNCHANGED <<owner, addr>> PROVE Rows
  BY <1>5
<1> HIDE DEF Locals, Rows
<1>6. CASE PopFreeIp(r) \/ CountDevices(r) \/ AddPeerRow(r)
  <2>1. Locals
    BY <1>1, <1>2, <1>6 DEF PopFreeIp, CountDevices, AddPeerRow, GoTo, GoToWith
  <2>2. Rows
    BY <1>3, <1>5, <1>6 DEF PopFreeIp, CountDevices, AddPeerRow
  <2>3. QED
    BY <2>1, <2>2 DEF Frame, Locals, Rows
<1>7. CASE TxSelect(r) \/ TxCommit(r) \/ TxDuplicate(r) \/ TxConflict(r) \/ ConfigurePeer(r)
  <2>1. Locals
    BY <1>1, <1>2, <1>7 DEF TxSelect, TxCommit, TxDuplicate, TxConflict, ConfigurePeer
  <2>2. Rows
    BY <1>3, <1>5, <1>7 DEF TxSelect, TxCommit, TxDuplicate, TxConflict, ConfigurePeer
  <2>3. QED
    BY <2>1, <2>2 DEF Frame, Locals, Rows
<1>8. CASE RemovePeerRow(r) \/ PushFreeIp(r) \/ UnconfigurePeer(r) \/ CallFails(r)
  <2>1. Locals
    BY <1>1, <1>2, <1>8 DEF RemovePeerRow, PushFreeIp, UnconfigurePeer, CallFails, GoTo, GoToWith
  <2>2. Rows
    BY <1>4, <1>5, <1>8 DEF RemovePeerRow, PushFreeIp, UnconfigurePeer, CallFails
  <2>3. QED
    BY <2>1, <2>2 DEF Frame, Locals, Rows
<1>9. QED
  BY <1>6, <1>7, <1>8 DEF Step, Succeeds, RegisterDevice, RemoveDevice, Begin

\* The requests of user u, or about device k, come one after the other.
UserInTurn(u) == \A q, r \in Requests : uid[q] = u /\ uid[r] = u => q = r

KeyInTurn(k) == \A q, r \in Requests : key[q] = k /\ key[r] = k => q = r

\* With its history the system does what it does without.
LEMMA HistoryTypes == HistorySpec => []TypeInv
<1>1. HistoryInit => Init
  BY DEF HistoryInit
<1>2. [HistoryNext]_<<vars, history>> => [Next]_vars
  BY DEF HistoryNext, Next, Step
<1>3. QED
  BY <1>1, <1>2, TypingInv, PTL DEF HistorySpec, Spec

-----------------------------------------------------------------------------
\* A request of u that has been let past the count still finds room for its row.
RoomInv(u) ==
  /\ WithinLimit(u)
  /\ \A r \in Requests : uid[r] = u /\ pc[r] \in {"add", "select", "commit"} => Cardinality(Devices(u)) < Limit

\* The devices of a user are finitely many.
LEMMA DevicesFinite ==
  ASSUME IsFiniteSet(Keys), NEW u
  PROVE  IsFiniteSet(Devices(u)) /\ Cardinality(Devices(u)) \in Nat
BY FS_Subset, FS_CardinalityType DEF Devices

\* An inserted row is at most one device more for its owner.
LEMMA InsertCounts ==
  ASSUME IsFiniteSet(Keys), TypeInv, NEW r \in Requests, pc[r] # "idle", InsertRow(r), NEW u, uid[r] = u
  PROVE  Cardinality(Devices(u)') <= Cardinality(Devices(u)) + 1
<1> DEFINE D == Devices(u)
           E == Devices(u)'
<1>1. E = D \cup {key[r]}
  BY DEF Devices, InsertRow, TypeInv, TypeOK, LocalsOK
<1>2. IsFiniteSet(D) /\ Cardinality(D) \in Nat
  BY DevicesFinite
<1> HIDE DEF D, E
<1>3. Cardinality(D \cup {key[r]}) = IF key[r] \in D THEN Cardinality(D) ELSE Cardinality(D) + 1
  BY <1>2, FS_AddElement
<1>4. Cardinality(E) <= Cardinality(D) + 1
  BY <1>1, <1>2, <1>3
<1>5. QED
  BY <1>4 DEF D, E

\* The one request of u that is at work leaves him within the limit, and the requests of
\* others do not touch his devices.
LEMMA StepRoom ==
  ASSUME IsFiniteSet(Keys), TypeInv, NEW u \in Users, RoomInv(u), UserInTurn(u), NEW r \in Requests, Step(r)
  PROVE  RoomInv(u)'
<1> USE WgDevicesAssumption DEF table
<1>1. CASE pc[r] = "idle"
  <2>1. /\ UNCHANGED owner
        /\ \A q \in Requests : pc'[q] \in {"add", "select", "commit"} => pc'[q] = pc[q] /\ uid'[q] = uid[q]
    BY <1>1
    DEF Step, Succeeds, RegisterDevice, RemoveDevice, Begin, PopFreeIp, CountDevices, AddPeerRow, TxSelect,
        TxCommit, TxDuplicate, TxConflict, InTransaction, ConfigurePeer, RemovePeerRow, PushFreeIp,
        UnconfigurePeer, CallFails, Calls, TypeInv, TypeOK
  <2>2. QED
    BY <2>1 DEF RoomInv, WithinLimit, Devices
<1>2. CASE pc[r] # "idle" /\ uid[r] # u
  <2>1. Frame(r) /\ u # NoUser
    BY <1>2, StepFrame
  <2>2. \A k \in Keys : owner'[k] = u <=> owner[k] = u
    BY <1>2, <2>1 DEF Frame
  <2>3. Devices(u)' = Devices(u)
    BY <2>2 DEF Devices
  <2>4. \A q \in Requests : uid'[q] = u /\ pc'[q] # "idle" => uid[q] = u /\ pc'[q] = pc[q]
    BY <1>2, <2>1 DEF Frame
  <2>5. QED
    BY <2>3, <2>4 DEF RoomInv, WithinLimit
<1>3. CASE pc[r] # "idle" /\ uid[r] = u
  <2> DEFINE Room == Cardinality(Devices(u)) < Limit
             Good == WithinLimit(u)' /\ (pc'[r] \in {"add", "select", "commit"} => Room')
  <2>1. WithinLimit(u) /\ (pc[r] \in {"add", "select", "commit"} => Room)
    BY <1>3 DEF RoomInv
  <2>2. \A q \in Requests : uid'[q] = u /\ pc'[q] # "idle" => q = r
    BY <1>3, StepFrame DEF Frame, UserInTurn
  <2> SUFFICES Good
    BY <2>2 DEF RoomInv
  <2>3. ASSUME UNCHANGED owner, pc'[r] \in {"add", "select", "commit"} => Room PROVE Good
    BY <2>1, <2>3 DEF WithinLimit, Devices
  <2>4. ASSUME UNCHANGED owner, Return(r) PROVE Good
    BY <2>3, <2>4 DEF Return, TypeInv, TypeOK
  <2>5. ASSUME InsertRow(r), pc[r] \in {"add", "commit"}, pc'[r] = "configure" PROVE Good
    <3>1. Cardinality(Devices(u)') <= Cardinality(Devices(u)) + 1
      BY <1>3, <2>5, InsertCounts
    <3>2. Cardinality(Devices(u)) \in Nat /\ IsFiniteSet(Devices(u)') /\ Room
      BY <2>1, <2>5, DevicesFinite, FS_Subset DEF Devices
    <3>3. Cardinality(Devices(u)') \in Nat
      BY <3>2, FS_CardinalityType
    <3>4. QED
      BY <2>5, <3>1, <3>2, <3>3 DEF WithinLimit
  <2>6. CASE CountDevices(r)
    <3>1. CASE HitMaxLimit(u)
      BY <1>3, <2>4, <2>6, <3>1 DEF CountDevices
    <3>2. CASE ~HitMaxLimit(u)
      <4>1. Room
        BY <2>1, <3>2, DevicesFinite DEF HitMaxLimit, WithinLimit
      <4>2. UNCHANGED owner
        BY <2>6 DEF CountDevices
      <4>3. QED
        BY <2>3, <4>1, <4>2
    <3>3. QED
      BY <3>1, <3>2
  <2>7. CASE AddPeerRow(r)
    <3>1. CASE CanInsert(r)
      BY <2>5, <2>7, <3>1 DEF AddPeerRow, GoTo, TypeInv, TypeOK
    <3>2. CASE ~CanInsert(r)
      BY <2>4, <2>7, <3>2 DEF AddPeerRow
    <3>3. QED
      BY <3>1, <3>2
  <2>8. CASE TxCommit(r)
    BY <2>5, <2>8 DEF TxCommit, InTransaction, TypeInv, TypeOK
  <2>9. CASE TxSelect(r) \/ TxConflict(r)
    <3>1. pc[r] \in {"select", "commit"} /\ UNCHANGED owner
      BY <2>9 DEF TxSelect, TxConflict, InTransaction
    <3>2. QED
      BY <2>1, <2>3, <3>1
  <2>10. CASE PopFreeIp(r) \/ PushFreeIp(r)
    BY <2>3, <2>10 DEF PopFreeIp, PushFreeIp, GoTo, GoToWith, TypeInv, TypeOK
  <2>11. CASE RemovePeerRow(r)
    <3>1. CASE owner[key[r]] = u
      <4>1. Devices(u)' \subseteq Devices(u)
        BY <1>3, <2>11, <3>1 DEF RemovePeerRow, Devices, TypeInv, TypeOK
      <4>2. Cardinality(Devices(u)') <= Limit
        <5>1. IsFiniteSet(Devices(u)) /\ Cardinality(Devices(u)) \in Nat
          BY DevicesFinite
        <5>2. IsFiniteSet(Devices(u)') /\ Cardinality(Devices(u)') <= Cardinality(Devices(u))
          BY <4>1, <5>1, FS_Subset
        <5>3. Cardinality(Devices(u)') \in Nat
          BY <5>2, FS_CardinalityType
        <5>4. QED
          BY <2>1, <5>1, <5>2, <5>3 DEF WithinLimit
      <4>3. pc'[r] = "push"
        BY <1>3, <2>11, <3>1 DEF RemovePeerRow, GoTo, GoToWith, TypeInv, TypeOK
      <4>4. QED
        BY <4>2, <4>3 DEF WithinLimit
    <3>2. CASE owner[key[r]] # u
      BY <1>3, <2>4, <2>11, <3>2 DEF RemovePeerRow
    <3>3. QED
      BY <3>1, <3>2
  <2>12. CASE TxDuplicate(r) \/ ConfigurePeer(r) \/ UnconfigurePeer(r) \/ CallFails(r)
    BY <2>4, <2>12 DEF TxDuplicate, ConfigurePeer, UnconfigurePeer, CallFails
  <2>13. QED
    BY <1>3, <2>6, <2>7, <2>8, <2>9, <2>10, <2>11, <2>12
    DEF Step, Succeeds, RegisterDevice, RemoveDevice, Begin
<1>4. QED
  BY <1>1, <1>2, <1>3

\* A user whose requests come one after the other stays within the limit, whatever fails
\* and whatever other users do: that the count and the insert are two statements harms
\* only those who overlap themselves.
THEOREM LimitInTurn ==
  ASSUME IsFiniteSet(Keys)
  PROVE  HistorySpec => []LimitUnlessCrowded
<1> DEFINE Inv == \A u \in Users \ crowded : RoomInv(u) /\ UserInTurn(u)
<1>1. HistoryInit => Inv
  <2> SUFFICES ASSUME HistoryInit, NEW u \in Users PROVE RoomInv(u) /\ UserInTurn(u)
    OBVIOUS
  <2>1. Devices(u) = {}
    BY WgDevicesAssumption DEF HistoryInit, Init, Devices
  <2>2. Cardinality(Devices(u)) = 0
    BY <2>1, FS_EmptySet
  <2>3. QED
    BY <2>2, WgDevicesAssumption DEF HistoryInit, Init, RoomInv, WithinLimit, UserInTurn
<1>2. TypeInv /\ Inv /\ [HistoryNext]_<<vars, history>> => Inv'
  <2> SUFFICES ASSUME TypeInv, Inv, [HistoryNext]_<<vars, history>>, NEW u \in Users \ crowded'
               PROVE  RoomInv(u)' /\ UserInTurn(u)'
    OBVIOUS
  <2>1. CASE HistoryNext
    <3>1. PICK r \in Requests : Step(r) /\ crowded' = crowded \cup Shared(Users, uid')
      BY <2>1 DEF HistoryNext, Step
    <3>2. u \notin crowded /\ UserInTurn(u)'
      BY <3>1 DEF Shared, UserInTurn
    <3>3. QED
      BY <3>1, <3>2, StepRoom
  <2>2. CASE UNCHANGED <<vars, history>>
    BY <2>2 DEF vars, table, request, history, RoomInv, WithinLimit, Devices, UserInTurn
  <2>3. QED
    BY <2>1, <2>2
<1>3. Inv => LimitUnlessCrowded
  BY DEF RoomInv, LimitUnlessCrowded
<1>4. QED
  BY <1>1, <1>2, <1>3, HistoryTypes, PTL DEF HistorySpec

-----------------------------------------------------------------------------
\* A request that has changed the row of its device and not yet the kernel.
HalfWay(r) == pc[r] \in {"configure", "push", "unconfigure"}

\* A peer of wg0 that is not as the table has it is the one that the request about it
\* is about to configure or has just deleted.
PeerInv(k) ==
  /\ KeyInTurn(k)
  /\ KernelAgrees(k) \/ \E r \in Requests : key[r] = k /\ HalfWay(r)
  /\ \A r \in Requests : key[r] = k =>
       /\ pc[r] = "configure" => addr[k] = ip[r]
       /\ pc[r] \in {"push", "unconfigure"} => addr[k] = NoIP

\* A new request finds all as it is.
LEMMA BeginPeer ==
  ASSUME TypeInv, NEW k \in Keys, PeerInv(k), NEW r \in Requests, Step(r), pc[r] = "idle", KeyInTurn(k)'
  PROVE  PeerInv(k)'
<1>1. /\ UNCHANGED <<addr, kernel, ip>> /\ pc'[r] \in {"pop", "remove"}
      /\ \A q \in Requests \ {r} : pc'[q] = pc[q] /\ key'[q] = key[q]
  BY WgDevicesAssumption
  DEF Step, Succeeds, RegisterDevice, RemoveDevice, Begin, PopFreeIp, CountDevices, AddPeerRow, TxSelect,
      TxCommit, TxDuplicate, TxConflict, InTransaction, ConfigurePeer, RemovePeerRow, PushFreeIp,
      UnconfigurePeer, CallFails, Calls, TypeInv, TypeOK, table
<1>2. QED
  BY <1>1 DEF PeerInv, HalfWay, KernelAgrees

\* One about another device touches neither row nor peer of k, unless it takes its address.
LEMMA OthersPeer ==
  ASSUME TypeInv, NEW k \in Keys, PeerInv(k), NEW r \in Requests, Step(r), pc[r] # "idle", key[r] # k,
         KeyInTurn(k)', pc[r] = "configure" => addr[k] # ip[r]
  PROVE  PeerInv(k)'
<1>1. Frame(r) /\ addr'[k] = addr[k] /\ key[r] \in Keys
  BY StepFrame DEF Frame, TypeInv, LocalsOK
<1>2. ConfigurePeer(r) \/ UnconfigurePeer(r) \/ UNCHANGED kernel
  BY DEF Step, Succeeds, RegisterDevice, RemoveDevice, Begin, PopFreeIp, CountDevices, AddPeerRow, TxSelect,
         TxCommit, TxDuplicate, TxConflict, RemovePeerRow, PushFreeIp, CallFails
<1>3. KernelAgrees(k) => KernelAgrees(k)'
  BY <1>1, <1>2 DEF KernelAgrees, ConfigurePeer, UnconfigurePeer, TypeInv, TypeOK
<1>4. \A q \in Requests : key'[q] = k /\ pc'[q] # "idle" => q # r
  BY <1>1 DEF Frame
<1>5. ASSUME NEW q \in Requests, key[q] = k, HalfWay(q) PROVE key'[q] = k /\ HalfWay(q)'
  BY <1>1, <1>5 DEF Frame, HalfWay
<1>6. ASSUME NEW q \in Requests, key'[q] = k
      PROVE  /\ pc'[q] = "configure" => addr'[k] = ip'[q]
             /\ pc'[q] \in {"push", "unconfigure"} => addr'[k] = NoIP
  BY <1>1, <1>4, <1>6 DEF PeerInv, Frame
<1>7. QED
  BY <1>3, <1>5, <1>6 DEF PeerInv

\* The one about k brings row and peer together again.
LEMMA OwnPeer ==
  ASSUME TypeInv, NEW k \in Keys, PeerInv(k), NEW r \in Requests, pc[r] # "idle", key[r] = k, KeyInTurn(k)',
         (Succeeds(r) /\ ~LosesAll(r)) \/ (CallFails(r) /\ ~BreaksOff(r))
  PROVE  PeerInv(k)'
<1> USE WgDevicesAssumption DEF table
<1>1. /\ KernelAgrees(k) \/ HalfWay(r)
      /\ pc[r] = "configure" => addr[k] = ip[r]
      /\ pc[r] \in {"push", "unconfigure"} => addr[k] = NoIP
  BY DEF PeerInv, KeyInTurn
<1>2. Frame(r) /\ \A q \in Requests : key'[q] = k /\ pc'[q] # "idle" => q = r
  <2>1. Frame(r)
    BY StepFrame DEF Step
  <2>2. QED
    BY <2>1 DEF Frame, PeerInv, KeyInTurn
<1> DEFINE Good == /\ KernelAgrees(k)' \/ (key'[r] = k /\ HalfWay(r)')
                   /\ pc'[r] = "configure" => addr'[k] = ip'[r]
                   /\ pc'[r] \in {"push", "unconfigure"} => addr'[k] = NoIP
<1> SUFFICES Good
  BY <1>2 DEF PeerInv
<1> USE DEF TypeInv, TypeOK, LocalsOK
<1>3. ASSUME UNCHANGED <<addr, kernel>>, KernelAgrees(k), ~HalfWay(r)' PROVE Good
  BY <1>3 DEF KernelAgrees, HalfWay
<1>4. ASSUME UNCHANGED <<addr, kernel>>, Return(r), ~HalfWay(r) PROVE Good
  BY <1>1, <1>3, <1>4 DEF Return, HalfWay
<1>5. ASSUME InsertRow(r), pc' = [pc EXCEPT ![r] = "configure"], UNCHANGED <<key, ip>> PROVE Good
  BY <1>5 DEF InsertRow, HalfWay
<1>6. CASE CallFails(r) /\ ~BreaksOff(r)
  BY <1>4, <1>6 DEF CallFails, BreaksOff, HalfWay
<1>7. CASE PopFreeIp(r) \/ CountDevices(r)
  BY <1>1, <1>3, <1>4, <1>7 DEF PopFreeIp, CountDevices, GoTo, GoToWith, HalfWay
<1>8. CASE AddPeerRow(r)
  BY <1>4, <1>5, <1>8 DEF AddPeerRow, GoTo, HalfWay
<1>9. CASE TxSelect(r)
  BY <1>1, <1>3, <1>4, <1>9 DEF TxSelect, HalfWay
<1>10. CASE TxCommit(r)
  BY <1>5, <1>10 DEF TxCommit
<1>11. CASE TxDuplicate(r)
  BY <1>4, <1>11 DEF TxDuplicate, InTransaction, HalfWay
<1>12. CASE TxConflict(r) /\ ~LosesAll(r)
  BY <1>1, <1>3, <1>12 DEF TxConflict, LosesAll, InTransaction, HalfWay
<1>13. CASE ConfigurePeer(r)
  BY <1>1, <1>13 DEF ConfigurePeer, Return, KernelAgrees
<1>14. CASE RemovePeerRow(r)
  <2>1. CASE owner[k] = uid[r]
    BY <1>14, <2>1 DEF RemovePeerRow, GoTo, GoToWith, HalfWay
  <2>2. CASE owner[k] # uid[r]
    BY <1>4, <1>14, <2>2 DEF RemovePeerRow, HalfWay
  <2>3. QED
    BY <2>1, <2>2
<1>15. CASE PushFreeIp(r)
  BY <1>1, <1>15 DEF PushFreeIp, GoTo, GoToWith, HalfWay
<1>16. CASE UnconfigurePeer(r)
  BY <1>1, <1>16 DEF UnconfigurePeer, Return, KernelAgrees
<1>17. QED
  BY <1>6, <1>7, <1>8, <1>9, <1>10, <1>11, <1>12, <1>13, <1>14, <1>15, <1>16
  DEF Succeeds, RegisterDevice, RemoveDevice, Begin

\* Every address is one device's.
UniqueAddr == \A k, l \in Keys : addr[k] = addr[l] /\ addr[k] # NoIP => k = l

LEMMA StepUnique ==
  ASSUME TypeInv, UniqueAddr, NEW r \in Requests, Step(r)
  PROVE  UniqueAddr'
<1> USE DEF TypeInv, TypeOK, LocalsOK
<1>1. ASSUME pc[r] # "idle", CanInsert(r), InsertRow(r) PROVE UniqueAddr'
  BY <1>1 DEF CanInsert, InsertRow, Held, UniqueAddr
<1>2. ASSUME addr' = [addr EXCEPT ![key[r]] = NoIP] PROVE UniqueAddr'
  BY <1>2 DEF UniqueAddr
<1>3. ASSUME UNCHANGED addr PROVE UniqueAddr'
  BY <1>3 DEF UniqueAddr
<1>4. QED
  BY <1>1, <1>2, <1>3
  DEF Step, Succeeds, RegisterDevice, RemoveDevice, Begin, PopFreeIp, CountDevices, AddPeerRow, TxSelect,
      TxCommit, TxDuplicate, TxConflict, InTransaction, ConfigurePeer, RemovePeerRow, PushFreeIp,
      UnconfigurePeer, CallFails, table

\* With any number of requests about other devices, a removed address that is given away
\* before the kernel has forgotten it included: when no request is about a device the
\* kernel has its peer as the table has it, until two requests about it are at work at
\* once, one breaks off half-way, or another device gets its address; the last only after
\* one of the others has happened to some device.
THEOREM KernelInTurn == HistorySpec => []KernelAgreesUnlessTroubled
<1> DEFINE Inv == /\ UniqueAddr
                  /\ \A k \in Keys \ (troubled \cup robbed) : PeerInv(k)
                  /\ troubled = {} => robbed = {}
<1>1. HistoryInit => Inv
  BY WgDevicesAssumption DEF HistoryInit, Init, UniqueAddr, PeerInv, KeyInTurn, KernelAgrees
<1>2. TypeInv /\ Inv /\ [HistoryNext]_<<vars, history>> => Inv'
  <2> SUFFICES ASSUME TypeInv, Inv, [HistoryNext]_<<vars, history>> PROVE Inv'
    OBVIOUS
  <2>1. CASE HistoryNext
    <3>1. PICK r \in Requests :
            \/ /\ Succeeds(r)
               /\ troubled' = troubled \cup Shared(Keys, key') \cup {k \in {key[r]} : LosesAll(r)}
               /\ robbed' = robbed \cup Robbed(r)
            \/ /\ CallFails(r)
               /\ troubled' = troubled \cup {k \in {key[r]} : BreaksOff(r)}
               /\ UNCHANGED robbed
      BY <2>1 DEF HistoryNext
    <3>2. UniqueAddr' /\ Step(r)
      BY <3>1, StepUnique DEF Step
    <3>3. ASSUME NEW k \in Keys \ (troubled' \cup robbed') PROVE PeerInv(k)'
      <4>1. PeerInv(k) /\ KeyInTurn(k)'
        <5>1. PeerInv(k)
          BY <3>1, <3>3
        <5>2. CASE Succeeds(r) /\ troubled' = troubled \cup Shared(Keys, key') \cup {l \in {key[r]} : LosesAll(r)}
          BY <3>3, <5>1, <5>2 DEF Shared, KeyInTurn
        <5>3. CASE CallFails(r)
          BY <5>1, <5>3, WgDevicesAssumption DEF CallFails, Return, PeerInv, KeyInTurn, TypeInv, TypeOK
        <5>4. QED
          BY <3>1, <5>1, <5>2, <5>3
      <4>2. CASE pc[r] = "idle"
        BY <3>2, <4>1, <4>2, BeginPeer
      <4>3. CASE pc[r] # "idle" /\ key[r] = k
        BY <3>1, <3>3, <4>1, <4>3, OwnPeer
      <4>4. CASE pc[r] # "idle" /\ key[r] # k
        <5>1. CASE Succeeds(r) /\ robbed' = robbed \cup Robbed(r)
          <6>1. pc[r] = "configure" => addr[k] # ip[r]
            BY <3>3, <4>4, <5>1 DEF Robbed
          <6>2. QED
            BY <3>2, <4>1, <4>4, <6>1, OthersPeer
        <5>2. CASE CallFails(r)
          BY <4>1, <4>4, <5>2, WgDevicesAssumption
          DEF CallFails, Return, table, PeerInv, HalfWay, KernelAgrees, TypeInv, TypeOK
        <5>3. QED
          BY <3>1, <5>1, <5>2
      <4>5. QED
        BY <4>2, <4>3, <4>4
    <3>4. ASSUME troubled' = {} PROVE robbed' = {}
      <4>1. troubled = {} /\ robbed = {}
        BY <3>1, <3>4
      <4>2. ASSUME pc[r] = "configure" PROVE Robbed(r) = {}
        <5>1. key[r] \in Keys /\ ip[r] # NoIP
          BY <4>2, NoIPIsNoHost DEF TypeInv, LocalsOK
        <5>2. addr[key[r]] = ip[r]
          BY <4>1, <4>2, <5>1 DEF PeerInv
        <5>3. QED
          BY <5>1, <5>2 DEF Robbed, UniqueAddr
      <4>3. Robbed(r) = {}
        BY <4>2 DEF Robbed
      <4>4. QED
        BY <3>1, <4>1, <4>3
    <3>5. QED
      BY <3>2, <3>3, <3>4
  <2>2. CASE UNCHANGED <<vars, history>>
    BY <2>2 DEF vars, table, request, history, UniqueAddr, PeerInv, KeyInTurn, HalfWay, KernelAgrees
  <2>3. QED
    BY <2>1, <2>2
<1>3. Inv => KernelAgreesUnlessTroubled
  BY DEF PeerInv, AtRest, KernelAgreesUnlessTroubled
<1>4. QED
  BY <1>1, <1>2, <1>3, HistoryTypes, PTL DEF HistorySpec
=============================================================================
