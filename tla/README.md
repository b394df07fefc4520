# Verification of KWS

KWS lets users deploy an LXC instance, publish it under
domain names, reach it through WireGuard or a tunnel, and get databases on a shared
PostgreSQL server. It is one Go process (`src/src/cmd`) in front of RabbitMQ, Redis,
PostgreSQL, LXD, nginx and the kernel's WireGuard interface. Nearly all of its
correctness is about keeping those stores in agreement while HTTP handlers and job
goroutines interleave, fail half-way and are retried: there is no lock in the program but
the one around the retry map.

This directory has TLA+ models of that part, the TLC configurations that check them, and
TLAPS proofs about each of the eight components modelled.

## 1. Inventory

| Component | State it keeps | Operations | Interacts with | What makes it correct |
|---|---|---|---|---|
| LXC address allocator (`internal/wg/ip_allocator.go`, `internal/store/instance.go`) | table `userip`, Redis stack `lxc_ip` | pop or max+1 in a serializable transaction; release | instance jobs, LXD's static address | an address has one owner; none is lost; exhaustion is real |
| Instance jobs (`cmd/instance_utility.go`, `cmd/instance_handler.go`, `lxd/lxd.go`) | queue and retry queue, in-memory retry map, `instance`, `domains`, LXD containers, nginx files, Redis results | deploy, stop, kill, consume, poll | everything | each request is answered once; after it the stores agree; nothing half done stays |
| WireGuard devices (`cmd/wireguard_handler.go`, `internal/wg/operations.go`, `internal/store/wg.go`) | table `wgpeer`, Redis stack `ip_stack`, kernel peers | register, remove | allocator (twin of the LXC one) | device limit; unique addresses; kernel = table |
| AMQP channel pool (`internal/mq`, `internal/store/messageQueue.go`) | buffered Go channel of AMQP channels | get, push, replace closed | every publisher, both consumers | no channel has two users; none is lost; waiters are served |
| User domains and nginx (`cmd/domain_handler.go`, `internal/store/domains.go`, `internal/nginx`) | table `domains`, conf files | publish, unpublish | kill's cleanup, the address table | limit; row and file agree; file points to the instance |
| Tunnels (`cmd/tunnel_handler.go`, `cmd/tunnel_utility.go`, `internal/store/tunnels.go`) | table `tunnels`, conf files, second queue pair | create (queued), destroy | channel pool, nginx | each delivery settled once; retries end; an existing tunnel is not harmed |
| PostgreSQL as a service (`cmd/pg_service_handler.go`, `internal/store/pg_service.go`, `internal/docker/services/pg.go`) | tables `pg_service_user`, `pg_service_db`, the shared server | add and remove user, database | - | tables = server; limits; no orphan |
| Accounts (`cmd/auth_handler.go`, `internal/store/auth.go`, `internal/gmail`) | table `users`, Redis tokens and tunnel secrets, sessions | register, verify, log in and out, tunnel client's log-in | SMTP | a link works once; a registered account can become verified |
| Start-up (`cmd/main.go`) | - | creates pool, queues, bridge, wg0, consumers | all | - |
| Pages, routes, middleware, rate limit | sessions (library) | rendering | - | not modelled |

Hard behaviours: up to three job goroutines (prefetch 3) and any number of HTTP handlers
run side by side with no per-user lock; every operation is a sequence of calls to
different stores, each of which can fail; messages are redelivered; the process keeps the
retry counter in memory; resources (addresses, channels, prefetch slots) are handed around.
`PROJECT.json` lists the hazards one by one with the line where each bites.

## 2. Modules

| Module | Models | Composes |
|---|---|---|
| `IpPool` | abstract allocator: a host number has at most one holder | |
| `LxcIp` | LXC allocator inside `CreateInstance`/`DeleteInstance` | refines `IpPool` |
| `WgDevices` | device registration and removal, kernel peers | refines `IpPool` |
| `JobService` | abstract request/answer service, with the exception a lost connection makes | |
| `InstanceJobs` | queues, consumer, deploy, stop, kill, polling, incidents, the domain page's requests | refines `JobService` |
| `Domains` | domain handlers, code domain, kill's clean-up: table, conf files, routed addresses | |
| `ChannelPool` | pool of AMQP channels and its users | |
| `Tunnels` | tunnel requests, their queues and consumer, settling twice, destroying | |
| `Mirror` | abstract table kept in step with an outside store | |
| `PgService` | the four pg handlers over the tables and the shared server | refines `Mirror` |
| `Accounts` | registration, mail, verification, log-in and log-out | |
| `MC*` | the small instances for TLC, with history variables where a property needs one | extend their module |
| `*_proofs` | the theorems, one module for each of the eight components | extend their module, or its `MC` module for properties with a history |

Definitions named "Variant" in a comment are not part of a specification: each is a
plausible slip in the definition that follows, and is there to show that a property
notices it.

### How state and actions correspond to the code

**LxcIp.** `userip`, `lxc_ip` and `container` are the table, the Redis list and LXD's
`ipv4.address`; `pc`, `uid`, `ip`, `attempt` are where a job's goroutine is and its local
variables. Each call to Redis, Postgres or LXD is one action: `PopFreeIp` (LPOP), `AddIP`
(autocommitted INSERT, refused by UNIQUE `user_id`), `TxSelect`/`TxCommit`/
`TxDuplicateUser`/`TxConflict` (the serializable transaction of `AllocateNextFreeIP`),
`LxdCreate`; `RemoveIP` (DELETE RETURNING), `PushFreeIp`, `LxdDelete`. `CallFails` lets
any of them return an error; it also stands for a process that dies there, because the
error branches only return. Postgres' serializable isolation is modelled by what it does
to these transactions: `stale` holds those whose snapshot predates another commit, which
must abort; with `EagerConflicts` a transaction may also be aborted while its rival is
still open. A host number stands for its address. The ghost of a container that is
created while `DeleteInstance` runs for the same user is left to `InstanceJobs`.

**InstanceJobs.** Job `j` is one request; `message[j]` is where the broker keeps its
message, `pc[j]` the next call of its goroutine. `Deliver` is one turn of the consumer
loop (retry map, dispatch); `GiveUp`/`GiveUpResult` is its branch for the fourth
delivery, during which the mutex is held. The goroutines `deploy`, `stop` and `kill`
are the chains of actions between `Find`, `FindStop` or `FindKill` and `Ack`, one per
call, each with the branch in which the outside world refuses it (LXD's second container
of a name, UNIQUE columns, zero rows affected); `CallFails` adds the failures that have no
reason in the model. The database and LXD are kept per user, since every call is about the user's
own rows; `domains`, `code` and `conf` are kept per domain name, since the domain page
(`AddUserDomain`, `RemoveUserDomain`) takes any: it can publish the name of another user's
container before he deploys, and remove the conf file of whatever domain it is given, and only the
row is looked up with the user. Abstractions: the address row is taken or released in one step
(`LxcIp` has its steps), or not taken at all when a transaction beside another deploy's has lost
every attempt and the address is used without a row (`ConflictsExhausted`); the shell commands
that provision a container are one step;
a request of the domain page is one step (`Domains` has its calls); the broker may deliver ready
messages in any order, which includes the FIFO order.
`Crash` is a dying process (panic in a goroutine, `log.Fatalf` in `ReloadNginxConf`,
redeployment) and its restart; `ConnectionLost` and `BrokerRestart` leave the process
alive and without a consumer, as the code does.

In this commit `NewStore` gives handlers an empty `MQ`, so an instance request panics
before it is published (`Panics` of `ChannelPool`). `InstanceJobs` models what
happens to a message that is published as `PushMessageInstance` publishes it.

**WgDevices.** Like `LxcIp`, with `owner`/`addr` for the two columns of `wgpeer`, the
count against the limit (`CountDevices`) between the pop and the insert, and `kernel`
for the allowed address of each peer of wg0.

**Domains.** `domains` and `conf` are the table and the nginx files, a file by the address
it proxies to; `userip`, `container` and `instance` the parts of an instance the
operations look at (`container` with the address it was created with, which is what LXD gives
it and `AddCodeConf` writes). One worker is a domain handler, a deploy of a new container or a
kill, each a chain of one action per call. A deploy may be given any address: one that another
user has (a pop beside a concurrent max+1), one whose kill is still at work, or one that is not
recorded (`LxcIp` says when). A job that fails leaves its work, as all three attempts would.
`GetIPFromUID` turns a missing row and a failed query into -1 (`Nowhere`), and kill panics on the
list that a failed `GetUserDomains` did not return. Users publish and remove domains of any name,
that of somebody's container included; `code` are the rows with `is_code`.

**ChannelPool.** `Pool` is the buffered Go channel, `queue` the goroutines blocked in its
receive, in Go's order. `GetFreeChannel`, `Publish` or `Panic`, and `Release` are
`PushMessageInstance`; `DeclareQueue` and `CreateConsumer` are main's uses before the
server listens.

**Tunnels.** `tunnels` and `conf` are the table, by domain, and the nginx files; `message[j]`
is where the broker keeps a request, `unsettled` the goroutines whose delivery it waits
for. `Deliver` is a turn of the consumer loop; from `AddNewConf` to `Ack` each call of
`CreateTunnelUtility` is an action, and since none of its error branches returns, the steps
after a Nack are taken too. `Settle` is the broker's side: the first Ack or Nack moves the
message, a second one on the open channel closes it, and everything unsettled is requeued.
The counter in the header takes no part: it never equals 3 (see the module's comment).
`DestroyTunnel` is the deletion of the row; its look-up afterwards never finds anything.
`Restart` and `ConnectionLost` are the incidents.

**PgService.** `owner` and `rows` are the two tables, `role` and `datdba` the shared
server's roles and databases with their owners. A request is one HTTP request, an action
one SQL statement. `Revert` is what the handlers do when the server refuses, `CallFails`
a refusal for no reason in the model, `Leave` a client that goes away (which cancels the
context that the revert would use as well) or a process that dies. A request remembers the
`pid` it has looked up: `linked` says that the row it names is still there. Passwords only
decide whether a row is found, so they are left out. A CREATE that is carried out and whose
answer is lost is not modelled.

**Accounts.** `user_name` and `verified` are table `users`, `stored` and `secrets` the Redis
keys, `outbox` the goroutines of `SendMail`, `mailed` the links people have. `VerifyUser`
is a handler in three calls (GET, DEL, UPDATE); `Garbage` is what it cuts out of the text
of a failed or empty GET. `LoginUser` and `LoginTunnelUser` share their two queries. Form
validation and password hashing are left out.

## 3. Runs

Passing runs:

| Run | Instance | Shows |
|---|---|---|
| `lxcip_jobs` | 3 users, 2 jobs at a time, hosts 2..4, all calls may fail | `UniqueHolders` (table, stack and hands are disjoint) and the refinement of `IpPool` until an allocation from the table crosses a release; until a user is in trouble `NoHoles` (no address lost), and for every user who is not `RestAgrees` (LXD's address is the recorded one) |
| `lxcip_growth` | 3 users, 3 jobs, no kills, all calls may fail | `NoDuplicateIP` |
| `jobs_live` | 2 users who wait for answers, 3 requests, prefetch 1, 1 failing LXD call, no request of the domain page, fairness | `EveryJobAnswered` (refinement of `JobService!Live`), with no incident and the Put of the result succeeding |
| `jobs_incidents` | 2 users, 3 names, 2 requests that may overlap; besides at most 2 (`MaxTroubles`) of: requests of the domain page, 1 failing call (one of each kind of reaction), incidents of any kind | `StoresAgree` for every answered user who is not `troubled`; `DeliveryHasWorker`, `NoRetryLeak`; `AnsweredIsOver` and `AnsweredOnce` but for the jobs that were under way when the connection was lost (`orphaned`) |
| `wg_devices` | 2 users, 2 keys, limit 1, 2 requests, hosts 2..4, all calls may fail, `SomeoneSpared` | `ImplementsIpPool` under concurrency; `KernelAfterDb` (a request goes on to the kernel with its row written, or with every attempt of its transaction lost); `WithinLimit` for a user until two requests of his are at work at once; `KernelAgrees` (row and peer of a device, when no request is about it) until two requests about it are at work at once, one breaks off half-way or another device gets its address, which happens only after one of the first two has happened to some device |
| `domains` | 2 operations at a time, 2 users, 3 names, limit 2, 2 addresses, 7 calls may fail, `WithinBounds` | `WithinLimit` for a user whose operations do not overlap; until a call fails `RoutesToOwner` for every address that was never given out while it was in use (only its user's domains lead to it), and `RowMatchesFile` for every domain at rest, unless its file was removed although it had a row |
| `pool_requests` | 4 channels (2 left for requests), 3 requests of both kinds, 3 closures, lost connection, fairness | `Exclusive`, `LeaksOnlyByPanic`, `EveryRequestServed` until a handler panics |
| `tunnels` | 1 user, 2 domains, 2 requests, 2 goroutines, 2 incidents, 3 kinds of failing calls, fairness | `DeliveryHasWorker` although deliveries are settled twice; `GoneMeansCreated`; rows and files agree for a domain until something goes wrong with it; `EveryTunnelCreated` until a step fails or the connection is lost |
| `pg_service` | 2 users, 2 pg users, 2 databases, 2 requests, all statements may be refused, clients leave, `SomeoneSpared` | `NoOrphan` and the refinement of `Mirror` about each pg user until two requests about him are at work at once or his REVOKE is refused; `Mirrors` about him at rest until a request of his breaks off or one without a row drops his database as well; the limit of an account until two of its requests are at work at once |
| `accounts` | 2 e-mails, 2 names, 2 tokens, 2 requests, all calls and mails may fail, tokens expire, fairness | `LinkWorksOnce`; only a failed call or an expired token leaves an account stuck; `EveryoneVerified` otherwise |

`TypeOK` is checked in one run of each component.
Several properties are conditioned on history ("until a call fails"): the MC module
of `WgDevices` keeps `crowded`, `troubled` and `robbed` for that, `MCDomains` `failed`, `overlapped`,
`reused` and `strayed`, `MCLxcIp` `crossed` and `troubled`,
`MCPgService` `crowded`, `troubled` and `broken`, `MCTunnels` `created`, `spoiled`,
`destroyed` and `lost`, `MCAccounts` `unlucky`; `MCInstanceJobs` `troubled` and `orphaned`
(and `InstanceJobs` its `incidents`), `ChannelPool` has `panicked`. The conditions are not
conveniences: each names exactly what breaks the property in the code. Where the code
or a document promises the property without the condition, a run below, or a paragraph
after it, says so; without its condition each of these properties is violated. Such a property does not show that
the code copes with the excluded event, which it does not, but that nothing else breaks the
promise and that the damage stays where the condition says.

In `MCInstanceJobs` a user becomes `troubled` by asking before he was answered, by a call that
fails for him, by an address without a row (`Unrecorded`), by an incident that meets a goroutine
of his, and by the domain page: when it publishes or removes the name of his container, whoever
asks, when he publishes that of another's, and when another user removes a domain of his
(`Misnamed`, `Robbed`). `orphaned` are the jobs under way when the connection was lost: the
broker delivers such a job again after the restart, while its goroutine went on to answer, so an
"ok" that the page has shown may become a "fail".

Runs in which TLC finds a statement of the repository violated by the code (the
`findings` of `PROJECT.json` quote the statements):

| Run | Violated | How |
|---|---|---|
| `lxcip_concurrent` | `StackIsReleased` | a kill has deleted the row and not yet pushed the address; a deploy computes and records the same address; the push follows |
| `jobs_missing_row` | `RunningContainerHasRow` | provisioning fails once; the retries find a container and no row, and never write it |

More statements that the models contradict have no run of their own:

* `cmd/instance_utility.go:141` says "Ack the message once its all done"; a crash between
  `Ack` and `PutResult` leaves a settled job that is never answered.
* `readme.md:37` says "Redeploy at any time"; `SelectRow` refuses a running instance in
  all three attempts, and the answer is "fail".
* `SETUP.md:574-576` gives 172.30.0.100, .101 and .102 to shared services on the bridge;
  `NextHost` skips no number.
* `web/devices.html:71` promises a limit of 3 devices; two overlapping requests pass the
  count together (drop `\ crowded` from `LimitUnlessCrowded` to see it).
* `internal/wg/ip_allocator.go:37` speaks of usable hosts; the number it returns, 256 for
  a /24, admits the broadcast address and the first address of the next network.
* `cmd/instance_utility.go:226` describes a consumer that "runs in the background
  listening"; its loop ends with the AMQP connection (`ConnectionLost`) for ever.
* `internal/wg/operations.go:129` says "At this point, DB is updated"; after the last lost
  attempt of the transaction it is not (the exception in `KernelAfterDb`).
* `internal/store/messageQueue.go:86` says "Release the channel"; a handler that panics
  before never does, and the instance handler always panics (drop `~panicked` from
  `LeaksOnlyByPanic`).
* `cmd/pg_service_handler.go:59` and `:116` say "Revert db state back."; after a refused
  REVOKE the row goes and the database stays (leave `RevertsRevoke` out of `troubled` to see
  it), and when the client has left the revert is not done.
* `cmd/auth_handler.go:113` answers "Failed to verify. Try again" when the token has already
  been deleted, so that trying again cannot succeed (`unlucky`).
* `cmd/tunnel_utility.go:42` says "Send it to the retry queue"; the delivery is settled a
  second time, which closes the channel, and the consumer is gone (`Settle`).

### Bounds and why they are enough

* Three users and three addresses are the fewest with a full table, a non-empty stack and
  an address in flight at the same time. Exhaustion, and a hole below the maximum, happen.
* `MaxRetries` is 2 instead of 5: conflicts can exhaust the attempts with two rivals.
* Jobs of different users share in `InstanceJobs` the prefetch slots, the retry map, the
  connection and the process. `jobs_incidents` has two jobs, of one user who overlaps himself
  or waits (deploy and kill, say, with a user domain in between) or of two users of whom one
  may be in trouble; `MaxTroubles` bounds by two the requests of the domain page, the failing
  calls and the incidents together, enough for a domain that is published and then removed by
  another user, or a connection lost and the restart that delivers its job again. `jobs_live`
  has two users on one slot; its three requests include
  deploy, failed redeploy and kill, or deploy, stop and start, or deploy, kill and deploy again.
* `MaxFaults`, `MaxIncidents`, `MaxJobs` and `MaxClosures` bound how often the environment
  acts. A job is given up after three attempts without any fault (a redeploy of a running
  instance), so one fault on top is enough to meet the branch in both ways. `jobs_live`
  lets the three long LXD calls fail; `jobs_incidents` one call before the `Ack` of each
  action, since all of them lead to `Nack`, and every call whose failure is passed over.
* `domains` stops where a user has overlapped himself (`WithinBounds`), since the other
  properties end there, and after a failed call goes on with one operation at a time (and only
  where no address was reused and no file went astray): then only the
  limit and the types are left to check, and other users' steps do not touch them. It stops as
  well after the second address that was reused or file that went astray (`RoutesToOwner` is about
  the other address). Three names, the containers' among them, and a limit of two let a user pass the
  limit.
* `tunnels` has two domains and two requests, so that two may ask for one domain, and
  prefetch 2, so that a second settlement hits a delivery of the other goroutine. Two
  incidents cover a loss followed by a restart. One user suffices: the user of a row is
  only compared when a tunnel is destroyed.
* `pg_service` has two pg users and stops when both have a history (`SomeoneSpared`), so that
  the promises about one are checked while requests about the other overlap and interfere; a
  limit of one pg user and two requests are enough to pass it, two databases for a
  `RemovePgUser` that drops one after the other.
* `wg_devices` stops when both devices have a history (`SomeoneSpared`); two keys are enough
  for one to rob the other, and a limit of one for two requests, or an off-by-one, to pass it.
  With three keys and a limit of two and at most one device in trouble it passes as well, in
  more time.
* `accounts` has two of everything: two registrations that race for a name or an address, two
  requests with one link.
* Users, workers, keys and requests are interchangeable; symmetry is used in safety runs
  only, and `CHECK_DEADLOCK FALSE` stands wherever the system may stop: nobody asks, or a
  bound is used up.

### Fairness

`InstanceJobs!Fairness` asks that a goroutine that can make its next call makes it
(`Work`), that an open connection delivers a ready message when a slot is free
(`Deliver`), that the retry queue's TTL expires (`Expire`) and that the page polls (`Poll`).
These are the Go scheduler, the timeouts-free blocking calls that do return, RabbitMQ's
contract and `web/js/instance.js`. Weak fairness suffices for each: none of them is
disabled for ever by others' steps. Nothing obliges users to ask, calls to fail or a
process to die. `ChannelPool!FairSpec` asks only that a handler goroutine keeps running;
the order of waiters is Go's own. `Tunnels!Fairness` asks the same of goroutines, of the
broker's deliveries to an open channel and of the retry queue's TTL; that a consumer is
restarted is not assumed, so liveness ends with a lost connection. `Accounts!Fairness` has
handlers and the mail's goroutine run, and whoever has a link follow it: strong fairness
there, because all `Requests` being at work again and again is a bound of the model, not of
the server.

## 4. Proofs

The theorems hold for every value of the constants that the named `...Assumption` of the
module allows (types, and bounds that are at least 1), unless a further hypothesis is
named here. TLC checked each formula on the runs' instances first; the inductive
invariants below are what the proofs add.

**`LxcIp_proofs`.** `Typing` (any number of workers, any failures; `TypeOK` is inductive).
`UniqueUnlessCrossed` and `Refinement`: any number of jobs at once and any failures, hence
crashes at any point. `UniqueHolders` is not inductive by itself: a transaction carries a
number that it computed and has not recorded. `UncrossedInv` adds `FallbackIsFresh`: the number
is above every recorded one, or the transaction can no longer commit, which is what
serializable isolation gives. It survives every step from a state without `Crossing`, where a
transaction is open only if the stack and the hands are empty; so a crossing is the only
way in which an address gets two holders, and `lxcip_concurrent` shows that it is one.
Corollaries: `Growth` (without kills nothing crosses) and `Sequential` (nor with one
worker, that is, with a prefetch of 1 in place of 3). `RestUnlessTroubled` and
`HolesUnlessTroubled` do not need that nothing crosses: `AgreeInv` relates table, LXD and the job of a user
who is not in trouble between any two calls (`JobAgrees`), whatever the other users' jobs do; so his popped
address finds its row free, and `HolesInv` says that below the number of an open
transaction no address is lost.

**`WgDevices_proofs`.** `Typing`; `Refinement` of `IpPool` with any number of overlapping
requests (the UNIQUE address does it); `DbBeforeKernel`, the action property
`KernelAfterDb`. `LimitInTurn` (finitely many keys): a request that was let past the count
still finds room (`RoomInv`) while no other request of its user is at work; other users'
requests do not touch his rows (`Frame`). `KernelInTurn`, with any number of requests: kernel
and table differ about a device only while the one request about it is `HalfWay`, and that
request knows what the row says (`PeerInv`). A request about another device can only take
the address away, and then has a row without that address itself (`UniqueAddr`): so it is a
device in trouble that robs another.

**`InstanceJobs_proofs`.** `Typing`. Then the steps of a goroutine are abstracted to what
they do to message, answer and place in the code (`Proceeds`: it advances, retries,
settles, cleans, answers or ends), once for each action, whatever it does to the world. From that:
`DeliveriesHeld` and `RetriesForgotten`, from one invariant
(`ControlInv`: also, a goroutine past its Ack has a settled message, and after a lost
connection nobody's is; `HeldInv`: a goroutine before its Ack has a message unless the broker
was restarted). `AnsweredJobsOver` and `Answering` are about the jobs that no lost connection has
orphaned (`OverInv`: the goroutine of any other is past its Ack only with its message settled):
every step is a step of `JobService`, whose `Lose` names the orphaned, or a
stutter. `Agreement`: `StoresAgree` for each user
who is not `troubled`, whatever the others meet. Such a user is `Calm`: he has one unanswered
request at most, a goroutine of his at work has its connection (`Placed`), and `Progress` says, for each
step of deploy, stop and kill, what it has changed already and where container, address, row,
domain and files differ; a request that is sent to the retry queue without a failure has
changed nothing. That the others keep away from his rows and files needs `Apart`: nobody who is not
troubled has a row or a file under another container's name, and nobody else has one under his.
No step for another user disturbs this (`WorkFrame`, `CalmStays`), no request of the domain page
but those that trouble him (`PageCalm`), and an incident only what is at work (`IncidentCalm`).

**`ChannelPool_proofs`.** `Typing`, `OneUser`, `Leaks` from `PoolInv`: places are apart, those
in the queue wait and have no channel, no channel is missing unless a handler panicked or
is about to. That a channel which comes back finds room is a pigeonhole argument
(`RoomForMissing`).

**`Domains_proofs`.** Every theorem is about any number of operations at once. `Typing`;
`LimitHolds` (finitely many domains, any failures): `RoomInv`, for each user who has not
overlapped himself, since other users' operations never touch his rows (`RowsStep`). `Routes`
and `Matches` until a call fails or a user overlaps himself. `WorkInv`: an instance's
five traces exist together, but for the users of the deploys and kills under way, whose
`Progress` says which are there. `ActsFor` says what a step can change, so that
the work of the other users' operations is left in order (`WorkStep`). `RouteInv`: a
file leads to the instance of its domain's owner or is on the list of what is about to go;
`Distinct`: an address that was never given out while it was in use has one holder, who is its
user or the kill that released it until the files that lead to it are gone. What the allocator
hands out is not restricted. `MatchInv` does not depend on addresses: it names the operation for which the missing
row or file is still pending (`Pending`).

**`Tunnels_proofs`.** `Typing`; `DeliveriesSettled`, where `DeliveryHasWorker` is inductive
once the unsettled deliveries are known to be finitely many. `GoneCreated`: a
goroutine about to acknowledge a delivery that is still unsettled has inserted its row
(`GoneInv`), so the Ack at the end of a failed path is always a second settlement.
`FilesMatch`: `Progress` says what each goroutine at work has written for its domain.

**`PgService_proofs`.** `Typing`. Nothing is assumed of the requests: all theorems are about
every pg user, or account, until his own history says otherwise. `Frame` (`StepFrame`): what
any step leaves alone of the pg users it is not about, and of the other requests. It keeps
the invariants of everybody else, and `InTurn` (which holds while a pg user is not
`troubled`) those of the request's own: `UnderWay`, what it knows before each statement, for
`Orphans` and `Refinement`; `KnowsOf` with `Open` and `Settles`, by what tables and server
may differ meanwhile and what a statement leaves of that, for `MirrorInTurn`. Requests about
other pg users may interfere in any way; one that drops a database it has no row of costs its
owner nothing but `Mirrors` (`Bereft`). `LimitInTurn` (finitely many names): a request that was
let past the count still finds room (`RoomInv`) while no other request of its account is at work.

**`Accounts_proofs`.** `Typing`; `OneUse`: `LinkWorksOnce` is not inductive, because a
registration might store again the token that a link has used up; `MailedOnce` says that a
token is known to nobody else until its mail is on its way. `Hope`: a token, stored
or in a request's hands, stands for the e-mail it was issued for, and a request that has cut
something else out of Redis' answer has a token that is used up or bad luck (`TokenInv`).

Every safety property that a passing run checks has its theorem. Only model-checked are the
liveness properties `EveryJobAnswered`, `EveryRequestServed`, `EveryTunnelCreated` and
`EveryoneVerified`, since liveness under fairness is out of the prover's reach.

## 5. Plan

What would come next:

1. `Domains` and `InstanceJobs` with overlapping operations of one user: what is left to promise
   when the clean-up after a kill's Ack meets a new deploy, or a handler has read the address that a
   kill then releases.
2. `WgDevices`: a reboot that empties wg0, and overlapping requests about one device.
3. `Addresses`: `GenerateIP`, `GenerateIPLXC` and the two bounds as pure functions against
   a reference definition over all host numbers.
4. `Tunnels` with a broker restart that loses messages, and with the domain handlers, which write
   conf files into the same directory.
5. `StoresAgree` for a user for whom a call has failed: which differences between the stores his
   next deploy, stop or kill repairs, and which stay.

## 6. Not modelled

Rendering, routing, the session library and rate limiting (no state of their own);
validation of form values and hashing of passwords; who may connect to a database of
the shared server (REVOKE); a CREATE, or an INSERT of an account, that is carried out and whose
answer is lost; a broker restart that loses tunnel requests, which are transient like the
instance requests (`GoneMeansCreated` would not hold after it), and domain handlers that write
or remove the conf file of a tunnel's domain, in the directory both use; the shell commands
inside a container; LXD image, bridge and storage set-up (created once, errors end the
process); `nginx -s reload`, whose exit code the code does not read and whose transport
errors end the process (`Crash`); a reboot that empties wg0 (a TODO of the code); logging.
