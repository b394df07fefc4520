------------------------------ MODULE WgDevices ------------------------------
(***************************************************************************)
(* WireGuard devices: the register and remove handlers                     *)
(* (src/cmd/wireguard_handler.go, src/internal/wg/operations.go) over the  *)
(* wgpeer table, the Redis stack ip_stack and the kernel's wg0 interface.  *)
(* The allocator is the twin of the one in LxcIp, with three differences:  *)
(* wgpeer has a UNIQUE ip_address, a user's rows are counted against a     *)
(* limit first, and the bound is 2^(32-CIDR) without the "- 2".            *)
(*                                                                         *)
(* A request is the goroutine of one HTTP request; each of its calls is a  *)
(* step.  A device is identified by its public key.                        *)
(***************************************************************************)
EXTENDS Integers, Sequences, FiniteSets

CONSTANTS
  Users, Keys, Requests,
  NoUser, NoKey,
  CIDR,          \* config.CIDR: 24
  Limit,         \* config.MAX_WG_DEVICES_PER_USER: 3
  MaxRetries,    \* maxRetries of AllocateNextFreeIP: 5
  EagerConflicts,\* whether 40001 also hits a transaction while its rival is open
  Removes,       \* whether devices are removed
  FailingSteps   \* the steps whose call may return an error (or never return)

NoIP == 0
FindNoOfUsableHosts == 2^(32 - CIDR)
Hosts == 2..FindNoOfUsableHosts

Calls == {"pop", "count", "add", "countTx", "select", "commit", "configure",
          "remove", "push", "unconfigure"}

ASSUME WgDevicesAssumption ==
  /\ NoUser \notin Users /\ NoKey \notin Keys
  /\ CIDR \in 1..30 /\ FindNoOfUsableHosts \in Nat
  /\ Limit \in Nat /\ MaxRetries \in Nat \ {0}
  /\ EagerConflicts \in BOOLEAN /\ Removes \in BOOLEAN
  /\ FailingSteps \subseteq Calls

VARIABLES
  owner,      \* table wgpeer: the user_id of the row of a public key, or NoUser
  addr,       \* table wgpeer: the ip_address of that row, or NoIP
  ip_stack,   \* Redis list ip_stack
  kernel,     \* wg0: the allowed IP of the peer, or NoIP when there is no peer
  pc, uid, key, ip, attempt, stale

table == <<owner, addr>>
request == <<pc, uid, key, ip, attempt, stale>>
vars == <<table, ip_stack, kernel, request>>

Held == {addr[k] : k \in Keys} \ {NoIP}
Devices(u) == {k \in Keys : owner[k] = u}
\* Variant: off by one.
ExceedsMaxLimit(u) == Cardinality(Devices(u)) = Limit + 1
HitMaxLimit(u) == Cardinality(Devices(u)) = Limit
InTransaction(r) == pc[r] = "commit"

Init ==
  /\ owner = [k \in Keys |-> NoUser]
  /\ addr = [k \in Keys |-> NoIP]
  /\ ip_stack = <<>>
  /\ kernel = [k \in Keys |-> NoIP]
  /\ pc = [r \in Requests |-> "idle"]
  /\ uid = [r \in Requests |-> NoUser]
  /\ key = [r \in Requests |-> NoKey]
  /\ ip = [r \in Requests |-> NoIP]
  /\ attempt = [r \in Requests |-> 0]
  /\ stale = {}

Return(r) ==
  /\ pc' = [pc EXCEPT ![r] = "idle"]
  /\ uid' = [uid EXCEPT ![r] = NoUser]
  /\ key' = [key EXCEPT ![r] = NoKey]
  /\ ip' = [ip EXCEPT ![r] = NoIP]
  /\ attempt' = [attempt EXCEPT ![r] = 0]
  /\ stale' = stale \ {r}

GoTo(r, step) ==
  /\ pc' = [pc EXCEPT ![r] = step]
  /\ UNCHANGED <<uid, key, attempt, stale>>

GoToWith(r, step, host) == GoTo(r, step) /\ ip' = [ip EXCEPT ![r] = host]

CallFails(r) ==
  /\ pc[r] \in FailingSteps
  /\ Return(r)
  /\ UNCHANGED <<table, ip_stack, kernel>>

Begin(r, u, k, step) ==
  /\ pc[r] = "idle"
  /\ pc' = [pc EXCEPT ![r] = step]
  /\ uid' = [uid EXCEPT ![r] = u]
  /\ key' = [key EXCEPT ![r] = k]
  /\ UNCHANGED <<table, ip_stack, kernel, ip, attempt, stale>>

\* Variant: ip_address without its UNIQUE constraint.
KeyIsFree(r) == owner[key[r]] = NoUser

\* The row's two UNIQUE columns.
CanInsert(r) == owner[key[r]] = NoUser /\ ip[r] \notin Held

\* Variant: the row is inserted before its address is known.
InsertOwner(r) ==
  /\ owner' = [owner EXCEPT ![key[r]] = uid[r]]
  /\ UNCHANGED addr

InsertRow(r) ==
  /\ owner' = [owner EXCEPT ![key[r]] = uid[r]]
  /\ addr' = [addr EXCEPT ![key[r]] = ip[r]]

-----------------------------------------------------------------------------
(* RegisterDevice: WgOperations.AddPeer *)

RegisterDevice(r, u, k) == Begin(r, u, k, "pop")

PopFreeIp(r) ==
  /\ pc[r] = "pop"
  /\ \/ /\ ip_stack # <<>>
        /\ ip_stack' = Tail(ip_stack)
        /\ GoToWith(r, "count", Head(ip_stack))
     \/ /\ ip_stack = <<>>
        /\ GoTo(r, "countTx")
        /\ UNCHANGED <<ip_stack, ip>>
  /\ UNCHANGED <<table, kernel>>

\* HitMaxLimit, first thing in AddPeer ("count") and in AllocateNextFreeIP.  A
\* refused request has already taken its address from the stack.
CountDevices(r) ==
  /\ pc[r] \in {"count", "countTx"}
  /\ \/ /\ ~HitMaxLimit(uid[r])
        /\ GoTo(r, IF pc[r] = "count" THEN "add" ELSE "select")
        /\ UNCHANGED ip
     \/ HitMaxLimit(uid[r]) /\ Return(r)      \* WG_DEVICE_LIMIT
  /\ UNCHANGED <<table, ip_stack, kernel>>

AddPeerRow(r) ==
  /\ pc[r] = "add"
  /\ \/ /\ CanInsert(r)
        /\ InsertRow(r)
        /\ GoTo(r, "configure")
        /\ UNCHANGED ip
     \/ ~CanInsert(r) /\ Return(r) /\ UNCHANGED table
  /\ UNCHANGED <<ip_stack, kernel>>

NextHost(h) ==
  \/ Held = {} /\ h = 2
  \/ \E top \in Held : (\A x \in Held : x <= top) /\ h = top + 1 /\ h <= FindNoOfUsableHosts

TxSelect(r) ==
  /\ pc[r] = "select"
  /\ \/ \E h \in Hosts :
          /\ NextHost(h)
          /\ pc' = [pc EXCEPT ![r] = "commit"]
          /\ ip' = [ip EXCEPT ![r] = h]
          /\ stale' = stale \ {r}
          /\ UNCHANGED <<uid, key, attempt>>
     \/ FindNoOfUsableHosts \in Held /\ Return(r)     \* HOST_EXHAUSTION
  /\ UNCHANGED <<table, ip_stack, kernel>>

Serializable(r) == r \notin stale

TxCommit(r) ==
  /\ InTransaction(r) /\ Serializable(r) /\ CanInsert(r)
  /\ InsertRow(r)
  /\ pc' = [pc EXCEPT ![r] = "configure"]
  /\ stale' = stale \cup {q \in Requests \ {r} : InTransaction(q)}
  /\ UNCHANGED <<ip_stack, kernel, uid, key, ip, attempt>>

\* Variant: the error of the INSERT is not looked at.
TxDuplicateUnseen(r) ==
  /\ InTransaction(r) /\ ~CanInsert(r)
  /\ GoTo(r, "configure")
  /\ UNCHANGED <<table, ip_stack, kernel, ip>>

TxDuplicate(r) ==
  /\ InTransaction(r) /\ ~CanInsert(r)
  /\ Return(r)
  /\ UNCHANGED <<table, ip_stack, kernel>>

\* 40001; after the last attempt the loop ends without an error.
TxConflict(r) ==
  /\ InTransaction(r)
  /\ \/ r \in stale
     \/ EagerConflicts /\ \E q \in Requests \ {r} : InTransaction(q)
  /\ attempt' = [attempt EXCEPT ![r] = @ + 1]
  /\ pc' = [pc EXCEPT ![r] = IF attempt[r] + 1 < MaxRetries THEN "select" ELSE "configure"]
  /\ stale' = stale \ {r}
  /\ UNCHANGED <<table, ip_stack, kernel, uid, key, ip>>

\* ConfigureDevice with ReplaceAllowedIPs; the kernel routes an address to one
\* peer, so it takes the address from a peer that had it.
ConfigurePeer(r) ==
  /\ pc[r] = "configure"
  /\ kernel' = [k \in Keys |-> IF k = key[r] THEN ip[r]
                               ELSE IF kernel[k] = ip[r] THEN NoIP ELSE kernel[k]]
  /\ Return(r)
  /\ UNCHANGED <<table, ip_stack>>

-----------------------------------------------------------------------------
(* RemoveDevice: WgOperations.RemovePeer *)

RemoveDevice(r, u, k) == Removes /\ Begin(r, u, k, "remove")

RemovePeerRow(r) ==
  /\ pc[r] = "remove"
  /\ \/ /\ owner[key[r]] = uid[r]
        /\ owner' = [owner EXCEPT ![key[r]] = NoUser]
        /\ addr' = [addr EXCEPT ![key[r]] = NoIP]
        /\ GoToWith(r, "push", addr[key[r]])
     \/ /\ owner[key[r]] # uid[r]           \* PEER_DOES_NOT_EXIST
        /\ Return(r)
        /\ UNCHANGED table
  /\ UNCHANGED <<ip_stack, kernel>>

PushFreeIp(r) ==
  /\ pc[r] = "push"
  /\ ip_stack' = <<ip[r]>> \o ip_stack
  /\ GoToWith(r, "unconfigure", NoIP)
  /\ UNCHANGED <<table, kernel>>

\* Variant: the kernel is told nothing.
ForgetPeer(r) ==
  /\ pc[r] = "unconfigure"
  /\ Return(r)
  /\ UNCHANGED <<table, ip_stack, kernel>>

UnconfigurePeer(r) ==
  /\ pc[r] = "unconfigure"
  /\ kernel' = [kernel EXCEPT ![key[r]] = NoIP]
  /\ Return(r)
  /\ UNCHANGED <<table, ip_stack>>

-----------------------------------------------------------------------------
\* A step in which no call fails.
Succeeds(r) ==
  \/ \E u \in Users, k \in Keys : RegisterDevice(r, u, k) \/ RemoveDevice(r, u, k)
  \/ PopFreeIp(r) \/ CountDevices(r) \/ AddPeerRow(r)
  \/ TxSelect(r) \/ TxCommit(r) \/ TxDuplicate(r) \/ TxConflict(r)
  \/ ConfigurePeer(r)
  \/ RemovePeerRow(r) \/ PushFreeIp(r) \/ UnconfigurePeer(r)

Step(r) == Succeeds(r) \/ CallFails(r)

Next == \E r \in Requests : Step(r)

Spec == Init /\ [][Next]_vars

-----------------------------------------------------------------------------
(* Properties *)

\* Rows are whole (an owner and an address together) and every address is one
\* the allocator may compute.
TypeOK ==
  /\ owner \in [Keys -> Users \cup {NoUser}]
  /\ addr \in [Keys -> Hosts \cup {NoIP}]
  /\ \A k \in Keys : owner[k] = NoUser <=> addr[k] = NoIP
  /\ ip_stack \in Seq(Hosts)
  /\ kernel \in [Keys -> Hosts \cup {NoIP}]
  /\ pc \in [Requests -> Calls \cup {"idle"}]
  /\ uid \in [Requests -> Users \cup {NoUser}]
  /\ key \in [Requests -> Keys \cup {NoKey}]
  /\ ip \in [Requests -> Hosts \cup {NoIP}]
  /\ attempt \in [Requests -> 0..MaxRetries]
  /\ stale \subseteq Requests

\* User u has no more devices than the limit.  True of one request of his at a time; the
\* count and the insert are two statements.
WithinLimit(u) == Cardinality(Devices(u)) <= Limit

\* No request is about device k.
AtRest(k) == \A r \in Requests : key[r] # k

\* The kernel has the peer of k as the table has it, with its recorded address.
KernelAgrees(k) == kernel[k] = addr[k]

\* "At this point, DB is updated": a request that goes on to configure the
\* kernel has just written its row, with that very address.  The one way round
\* it is to lose every attempt of the transaction: the loop then ends with an
\* address and without an error.
KernelAfterDb ==
  [][\A r \in Requests : pc[r] # "configure" /\ pc'[r] = "configure" =>
       addr'[key[r]] = ip'[r] \/ attempt'[r] = MaxRetries]_vars

\* The table implements the abstract allocator for any number of concurrent
\* requests: the UNIQUE address catches what the two allocation paths miss.
Pool == INSTANCE IpPool WITH Users <- Keys, Hosts <- Hosts, None <- NoIP, held <- addr

ImplementsIpPool == Pool!Spec
=============================================================================
