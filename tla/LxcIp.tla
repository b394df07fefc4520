-------------------------------- MODULE LxcIp --------------------------------
(***************************************************************************)
(* The static addresses of the LXC instances: lxd.CreateInstance and       *)
(* lxd.DeleteInstance (src/lxd/lxd.go) with the allocator they call        *)
(* (AllocateFreeLXCIp and DeAllocateLXCIP, src/internal/wg/ip_allocator.go *)
(* and src/internal/store/instance.go).                                    *)
(*                                                                         *)
(* A worker is the goroutine of one deploy or kill job; every call it      *)
(* makes to Redis, Postgres or LXD is a step of its own, because nothing   *)
(* in the code holds a lock across two of them.  Host numbers stand for    *)
(* addresses: GenerateIPLXC prints host h of 2..254 as 172.30.0.h.         *)
(***************************************************************************)
EXTENDS Integers, Sequences

CONSTANTS
  Users,
  Workers,       \* goroutines that may run deploy/kill jobs at the same time
  NoUser,        \* the user of an idle worker
  MaxHost,       \* FindNoOfUsableHostsDocker(): 254 for CIDR 24
  MaxRetries,    \* maxRetries of AllocateNextFreeIP: 5
  EagerConflicts,\* whether 40001 also hits a transaction while its rival is open
  Kills,         \* whether kill jobs occur
  FailingSteps   \* the steps whose call may return an error (or never return)

NoIP == 0        \* no address; host numbers start at 2
Hosts == 2..MaxHost

Calls == {"pop", "add", "select", "commit", "create", "remove", "push", "delete"}

ASSUME LxcIpAssumption ==
  /\ NoUser \notin Users
  /\ MaxHost \in Nat /\ MaxHost >= 2
  /\ MaxRetries \in Nat \ {0}
  /\ EagerConflicts \in BOOLEAN /\ Kills \in BOOLEAN
  /\ FailingSteps \subseteq Calls

VARIABLES
  userip,     \* Postgres table userip (user_id UNIQUE): the user's ip_address
  lxc_ip,     \* Redis list lxc_ip, a stack of released host numbers
  container,  \* LXD: the ipv4.address the user's container was created with
  pc,         \* the call a worker makes next
  uid,        \* the user of the job it runs
  ip,         \* the host number it has popped, computed or removed
  attempt,    \* conflicts so far in AllocateNextFreeIP's loop
  stale       \* workers whose snapshot predates another serializable commit

vars == <<userip, lxc_ip, container, pc, uid, ip, attempt, stale>>
worker == <<pc, uid, ip, attempt, stale>>

Held == {userip[u] : u \in Users} \ {NoIP}

\* Rows written inside a transaction are not visible before it commits, so the
\* INSERT and the COMMIT are one step, and "commit" is the open transaction.
InTransaction(w) == pc[w] = "commit"

Init ==
  /\ userip = [u \in Users |-> NoIP]
  /\ lxc_ip = <<>>
  /\ container = [u \in Users |-> NoIP]
  /\ pc = [w \in Workers |-> "idle"]
  /\ uid = [w \in Workers |-> NoUser]
  /\ ip = [w \in Workers |-> NoIP]
  /\ attempt = [w \in Workers |-> 0]
  /\ stale = {}

(***************************************************************************)
(* Control of a worker.  Return is the end of the operation, with or       *)
(* without an error: every error branch of these functions only returns.   *)
(***************************************************************************)
Return(w) ==
  /\ pc' = [pc EXCEPT ![w] = "idle"]
  /\ uid' = [uid EXCEPT ![w] = NoUser]
  /\ ip' = [ip EXCEPT ![w] = NoIP]
  /\ attempt' = [attempt EXCEPT ![w] = 0]
  /\ stale' = stale \ {w}

GoTo(w, step) ==
  /\ pc' = [pc EXCEPT ![w] = step]
  /\ UNCHANGED <<uid, attempt, stale>>

GoToWith(w, step, host) ==
  /\ GoTo(w, step)
  /\ ip' = [ip EXCEPT ![w] = host]

CallFails(w) ==
  /\ pc[w] \in FailingSteps
  /\ Return(w)
  /\ UNCHANGED <<userip, lxc_ip, container>>

Begin(w, u, step) ==
  /\ pc[w] = "idle"
  /\ pc' = [pc EXCEPT ![w] = step]
  /\ uid' = [uid EXCEPT ![w] = u]
  /\ UNCHANGED <<userip, lxc_ip, container, ip, attempt, stale>>

-----------------------------------------------------------------------------
(* lxd.CreateInstance *)

CreateInstance(w, u) == container[u] = NoIP /\ Begin(w, u, "pop")

\* Variant: LINDEX instead of LPOP.
PeekFreeIp(w) ==
  /\ pc[w] = "pop"
  /\ \/ lxc_ip # <<>> /\ GoToWith(w, "add", Head(lxc_ip))
     \/ lxc_ip = <<>> /\ GoTo(w, "select") /\ UNCHANGED ip
  /\ UNCHANGED <<userip, lxc_ip, container>>

PopFreeIp(w) ==
  /\ pc[w] = "pop"
  /\ \/ /\ lxc_ip # <<>>
        /\ lxc_ip' = Tail(lxc_ip)
        /\ GoToWith(w, "add", Head(lxc_ip))
     \/ /\ lxc_ip = <<>>
        /\ GoTo(w, "select")
        /\ UNCHANGED <<lxc_ip, ip>>
  /\ UNCHANGED <<userip, container>>

\* One autocommitted INSERT.  When the user already has a row the UNIQUE
\* constraint refuses it, and the popped host number goes nowhere.
AddIP(w) ==
  /\ pc[w] = "add"
  /\ \/ /\ userip[uid[w]] = NoIP
        /\ userip' = [userip EXCEPT ![uid[w]] = ip[w]]
        /\ GoTo(w, "create")
        /\ UNCHANGED ip
     \/ /\ userip[uid[w]] # NoIP
        /\ Return(w)
        /\ UNCHANGED userip
  /\ UNCHANGED <<lxc_ip, container>>

\* Variant: the largest address itself.
TopHost(h) ==
  \/ Held = {} /\ h = 2
  \/ h \in Held /\ \A x \in Held : x <= h

\* The host numbers AllocateNextFreeIP may compute from a snapshot of userip.
NextHost(h) ==
  \/ Held = {} /\ h = 2
  \/ \E top \in Held : (\A x \in Held : x <= top) /\ h = top + 1 /\ h <= MaxHost

Exhausted == MaxHost \in Held

TxSelect(w) ==
  /\ pc[w] = "select"
  /\ \/ \E h \in Hosts :
          /\ NextHost(h)
          /\ pc' = [pc EXCEPT ![w] = "commit"]
          /\ ip' = [ip EXCEPT ![w] = h]
          /\ stale' = stale \ {w}
          /\ UNCHANGED <<uid, attempt>>
     \/ Exhausted /\ Return(w)
  /\ UNCHANGED <<userip, lxc_ip, container>>

\* Variant: the isolation level left at READ COMMITTED.
ReadCommitted(w) == TRUE

\* Serializable isolation: of two transactions that both read the largest
\* address and both insert, the second to commit is aborted with 40001.
Serializable(w) == w \notin stale

TxCommit(w) ==
  /\ InTransaction(w)
  /\ Serializable(w)
  /\ userip[uid[w]] = NoIP
  /\ userip' = [userip EXCEPT ![uid[w]] = ip[w]]
  /\ pc' = [pc EXCEPT ![w] = "create"]
  /\ stale' = stale \cup {v \in Workers \ {w} : InTransaction(v)}
  /\ UNCHANGED <<lxc_ip, container, uid, ip, attempt>>

\* 23505: not a serialization error, so AllocateNextFreeIP returns it.
TxDuplicateUser(w) ==
  /\ InTransaction(w)
  /\ userip[uid[w]] # NoIP
  /\ Return(w)
  /\ UNCHANGED <<userip, lxc_ip, container>>

\* 40001: try again; after the last attempt the loop simply ends and the
\* function returns the computed host number without an error.
TxConflict(w) ==
  /\ InTransaction(w)
  /\ \/ w \in stale
     \/ EagerConflicts /\ \E v \in Workers \ {w} : InTransaction(v)
  /\ attempt' = [attempt EXCEPT ![w] = attempt[w] + 1]
  /\ pc' = [pc EXCEPT ![w] = IF attempt[w] + 1 < MaxRetries THEN "select" ELSE "create"]
  /\ stale' = stale \ {w}
  /\ UNCHANGED <<userip, lxc_ip, container, uid, ip>>

\* LXD refuses a second container of the same name.
LxdCreate(w) ==
  /\ pc[w] = "create"
  /\ container' = IF container[uid[w]] = NoIP
                  THEN [container EXCEPT ![uid[w]] = ip[w]]
                  ELSE container
  /\ Return(w)
  /\ UNCHANGED <<userip, lxc_ip>>

-----------------------------------------------------------------------------
(* lxd.DeleteInstance *)

\* Variant: the address is not released.
DeleteInstanceKeepsIP(w, u) == Kills /\ container[u] # NoIP /\ Begin(w, u, "delete")

DeleteInstance(w, u) == Kills /\ container[u] # NoIP /\ Begin(w, u, "remove")

\* Variant: the row is removed first and read afterwards.
RemoveIPThenRead(w) ==
  /\ pc[w] = "remove"
  /\ userip' = [userip EXCEPT ![uid[w]] = NoIP]
  /\ GoToWith(w, "push", NoIP)
  /\ UNCHANGED <<lxc_ip, container>>

RemoveIP(w) ==
  /\ pc[w] = "remove"
  /\ \/ /\ userip[uid[w]] # NoIP
        /\ userip' = [userip EXCEPT ![uid[w]] = NoIP]
        /\ GoToWith(w, "push", userip[uid[w]])
     \/ /\ userip[uid[w]] = NoIP          \* PEER_DOES_NOT_EXIST
        /\ Return(w)
        /\ UNCHANGED userip
  /\ UNCHANGED <<lxc_ip, container>>

\* Variant: the released address is not kept.
DropFreeIp(w) ==
  /\ pc[w] = "push"
  /\ GoToWith(w, "delete", NoIP)
  /\ UNCHANGED <<userip, lxc_ip, container>>

PushFreeIp(w) ==
  /\ pc[w] = "push"
  /\ lxc_ip' = <<ip[w]>> \o lxc_ip
  /\ GoToWith(w, "delete", NoIP)
  /\ UNCHANGED <<userip, container>>

LxdDelete(w) ==
  /\ pc[w] = "delete"
  /\ container' = [container EXCEPT ![uid[w]] = NoIP]
  /\ Return(w)
  /\ UNCHANGED <<userip, lxc_ip>>

-----------------------------------------------------------------------------
\* A step in which no call fails.
Succeeds(w) ==
  \/ \E u \in Users : CreateInstance(w, u) \/ DeleteInstance(w, u)
  \/ PopFreeIp(w) \/ AddIP(w)
  \/ TxSelect(w) \/ TxCommit(w) \/ TxDuplicateUser(w) \/ TxConflict(w)
  \/ LxdCreate(w)
  \/ RemoveIP(w) \/ PushFreeIp(w) \/ LxdDelete(w)

Step(w) == Succeeds(w) \/ CallFails(w)

Next == \E w \in Workers : Step(w)

Spec == Init /\ [][Next]_vars

-----------------------------------------------------------------------------
(* Properties *)

StoresTypeOK ==
  /\ userip \in [Users -> Hosts \cup {NoIP}]
  /\ lxc_ip \in Seq(Hosts)
  /\ container \in [Users -> Hosts \cup {NoIP}]

WorkersTypeOK ==
  /\ pc \in [Workers -> Calls \cup {"idle"}]
  /\ uid \in [Workers -> Users \cup {NoUser}]
  /\ ip \in [Workers -> Hosts \cup {NoIP}]
  /\ attempt \in [Workers -> 0..MaxRetries]
  /\ stale \subseteq Workers
  /\ \A w \in Workers :
       /\ pc[w] # "idle" => uid[w] \in Users
       /\ pc[w] \in {"add", "commit", "create", "push"} => ip[w] \in Hosts
       /\ pc[w] # "create" => attempt[w] < MaxRetries

\* Every address anywhere (table, stack, container, a worker's local variable)
\* is a usable host number of the /24: the boundary test of AllocateNextFreeIP
\* holds and nothing else ever produces an address.
TypeOK == StoresTypeOK /\ WorkersTypeOK

\* No two users are recorded with the same address: userip has no UNIQUE
\* constraint on ip_address, so only the allocator's steps can ensure it.
NoDuplicateIP ==
  \A u, v \in Users : u # v /\ userip[u] = userip[v] => userip[u] = NoIP

\* A released address (one on the stack AllocateFreeLXCIp pops from) is not
\* the recorded address of any user.
StackIsReleased == \A k \in DOMAIN lxc_ip : lxc_ip[k] \notin Held

StackHasNoDuplicates ==
  \A j, k \in DOMAIN lxc_ip : j # k => lxc_ip[j] # lxc_ip[k]

\* An address between the stack and the table belongs to one worker, which
\* moves it, and is in neither of them.
InFlight == {w \in Workers : pc[w] \in {"add", "push"}}

InFlightIsNowhereElse ==
  \A w \in InFlight :
    /\ ip[w] \notin Held
    /\ \A k \in DOMAIN lxc_ip : lxc_ip[k] # ip[w]
    /\ \A v \in InFlight \ {w} : ip[v] # ip[w]

\* The allocator's ownership discipline: table, stack and the workers' local
\* variables never name the same address twice, whichever calls fail.
UniqueHolders ==
  /\ NoDuplicateIP
  /\ StackIsReleased
  /\ StackHasNoDuplicates
  /\ InFlightIsNowhereElse

\* AllocateNextFreeIP takes the largest recorded address plus one, so it must
\* not run while an address is neither recorded nor out of reach: on the stack,
\* or in the hands of a job between the stack and the table.  Nothing in the
\* code prevents that, and prefetch 3 allows it (see StackIsReleased).
Crossing ==
  /\ \E w \in Workers : pc[w] \in {"select", "commit"}
  /\ lxc_ip # <<>> \/ InFlight # {}

\* No address is lost: every host number up to the largest one in use is in the
\* table, on the stack or in the hands of a worker, so that exhaustion means
\* MaxHost - 1 instances.
Everywhere == Held \cup {lxc_ip[k] : k \in DOMAIN lxc_ip} \cup {ip[w] : w \in InFlight}

NoHoles == \A h \in Everywhere : 2..h \subseteq Everywhere

\* When no job of the user runs, LXD's static address of the user's container
\* is the one recorded in userip (which PutDeployResult and the nginx conf are
\* built from).
RestAgrees(u) == (\A w \in Workers : uid[w] # u) => container[u] = userip[u]

\* The table as the abstract allocator sees it.
Pool == INSTANCE IpPool WITH Hosts <- Hosts, None <- NoIP, held <- userip
=============================================================================
