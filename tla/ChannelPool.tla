----------------------------- MODULE ChannelPool -----------------------------
(***************************************************************************)
(* The pool of AMQP channels (src/internal/mq/pool.go): main takes two of  *)
(* its channels for the consumers (src/cmd/main.go), and every HTTP        *)
(* request that publishes a message borrows one (PushMessageInstance,      *)
(* src/internal/store/messageQueue.go).                                    *)
(*                                                                         *)
(* A channel is known by the slot it was created for: GetFreeChannel       *)
(* replaces a closed channel, which no other code refers to any more, so   *)
(* the new one takes over its number.                                      *)
(***************************************************************************)
EXTENDS Integers, Sequences, FiniteSets

CONSTANTS
  Size,          \* channels of the pool: 32
  Requests,      \* HTTP requests served at the same time
  Kinds,         \* the messages they publish: subset of {"instance", "tunnel"}
  MaxClosures,   \* bound: channels the broker closes
  Drops          \* whether the connection may be lost

Channels == 1..Size
NoChannel == 0

\* The uses main makes of the pool, in order.
Startup == <<"declare", "declare", "consume", "declare", "declare", "consume">>

ASSUME ChannelPoolAssumption ==
  /\ Size \in Nat /\ Size >= 3
  /\ Kinds \subseteq {"instance", "tunnel"}
  /\ MaxClosures \in Nat /\ Drops \in BOOLEAN

VARIABLES
  Pool,       \* the buffered Go channel cp.Pool
  closed,     \* channels that are closed
  connected,  \* cp.Conn is open
  consumers,  \* channels main gave to ch.Consume
  started,    \* how many of main's uses are done
  queue,      \* requests blocked in <-cp.Pool; Go serves them in order
  pc,         \* "idle", "waiting", "publishing" or "releasing"
  kind,       \* the kind of message the request publishes
  ch,         \* the request's local variable ch
  closures,
  panicked    \* history: a handler has panicked

main == <<consumers, started>>
request == <<queue, pc, kind, ch>>
broker == <<closed, connected, closures>>
vars == <<Pool, main, request, broker, panicked>>

Init ==
  /\ Pool = [c \in Channels |-> c]
  /\ closed = {}
  /\ connected = TRUE
  /\ consumers = {}
  /\ started = 0
  /\ queue = <<>>
  /\ pc = [r \in Requests |-> "idle"]
  /\ kind = [r \in Requests |-> "tunnel"]
  /\ ch = [r \in Requests |-> NoChannel]
  /\ closures = 0
  /\ panicked = FALSE

\* What GetFreeChannel returns for the channel c it received: c, a new channel
\* in its place, or nil when the connection cannot open one.
Refreshed(c) == IF c \notin closed \/ connected THEN c ELSE NoChannel

\* Variant: a dead channel is not worth keeping.
PushLiveChannel(c) ==
  /\ Pool' = IF c \in closed THEN Pool ELSE Append(Pool, c)
  /\ UNCHANGED closed

\* A full pool closes the channel instead of keeping it.
PushChannel(c) ==
  IF Len(Pool) < Size
  THEN Pool' = Append(Pool, c) /\ UNCHANGED closed
  ELSE closed' = closed \cup {c} /\ UNCHANGED Pool

-----------------------------------------------------------------------------
(* main, before the HTTP server listens.  An error there ends the process,  *)
(* so the pool is only met by requests when all of it has succeeded.        *)

\* CreateQueueInstance and CreateRetryQueue release the channel they are given.
DeclareQueue ==
  /\ started < Len(Startup) /\ Startup[started + 1] = "declare"
  /\ Pool' = Append(Tail(Pool), Head(Pool))
  /\ started' = started + 1
  /\ UNCHANGED <<consumers, request, broker, panicked>>

\* Variant: the consumer's channel is released like the others.
CreateConsumerReleases ==
  /\ started < Len(Startup) /\ Startup[started + 1] = "consume"
  /\ consumers' = consumers \cup {Head(Pool)}
  /\ Pool' = Append(Tail(Pool), Head(Pool))
  /\ started' = started + 1
  /\ UNCHANGED <<request, broker, panicked>>

\* CreateConsumer keeps it: deliveries arrive on it for the process's lifetime.
CreateConsumer ==
  /\ started < Len(Startup) /\ Startup[started + 1] = "consume"
  /\ consumers' = consumers \cup {Head(Pool)}
  /\ Pool' = Tail(Pool)
  /\ started' = started + 1
  /\ UNCHANGED <<request, broker, panicked>>

Listening == started = Len(Startup)

-----------------------------------------------------------------------------
(* PushMessageInstance *)

Arrive(r, k) ==
  /\ Listening
  /\ pc[r] = "idle"
  /\ pc' = [pc EXCEPT ![r] = "waiting"]
  /\ kind' = [kind EXCEPT ![r] = k]
  /\ queue' = Append(queue, r)
  /\ UNCHANGED <<Pool, main, ch, broker, panicked>>

GetFreeChannel(r) ==
  /\ queue # <<>> /\ r = Head(queue)
  /\ Pool # <<>>
  /\ queue' = Tail(queue)
  /\ Pool' = Tail(Pool)
  /\ ch' = [ch EXCEPT ![r] = Refreshed(Head(Pool))]
  /\ closed' = closed \ {Refreshed(Head(Pool))}
  /\ pc' = [pc EXCEPT ![r] = "publishing"]
  /\ UNCHANGED <<main, kind, connected, closures, panicked>>

Done(r) ==
  /\ pc' = [pc EXCEPT ![r] = "idle"]
  /\ ch' = [ch EXCEPT ![r] = NoChannel]
  /\ UNCHANGED <<main, queue, kind>>

\* Variant: nil is not noticed, and released.
PanicsUnlessNil(r) == kind[r] = "instance"

\* The instance handler publishes through Store.MessageQueue, which NewStore
\* leaves empty: mq.InstanceQueue is nil.  A nil channel is dereferenced too.
Panics(r) == kind[r] = "instance" \/ ch[r] = NoChannel

\* net/http recovers the panic and ends the request; nothing is released.
Panic(r) ==
  /\ pc[r] = "publishing" /\ Panics(r)
  /\ Done(r)
  /\ panicked' = TRUE
  /\ UNCHANGED <<Pool, broker>>

\* With or without an error; both paths release the channel.
Publish(r) ==
  /\ pc[r] = "publishing" /\ ~Panics(r)
  /\ pc' = [pc EXCEPT ![r] = "releasing"]
  /\ UNCHANGED <<Pool, main, queue, kind, ch, broker, panicked>>

Release(r) ==
  /\ pc[r] = "releasing"
  /\ PushChannel(ch[r])
  /\ Done(r)
  /\ UNCHANGED <<connected, closures, panicked>>

-----------------------------------------------------------------------------
(* The broker *)

\* A channel exception, in any place the channel may be.
CloseChannel(c) ==
  /\ Listening /\ connected /\ closures < MaxClosures
  /\ c \notin closed
  /\ closed' = closed \cup {c}
  /\ closures' = closures + 1
  /\ UNCHANGED <<Pool, main, request, connected, panicked>>

ConnectionLost ==
  /\ Drops /\ Listening /\ connected
  /\ connected' = FALSE
  /\ closed' = Channels
  /\ UNCHANGED <<Pool, main, request, closures, panicked>>

-----------------------------------------------------------------------------
Serve(r) == GetFreeChannel(r) \/ Panic(r) \/ Publish(r) \/ Release(r)

Next ==
  \/ DeclareQueue \/ CreateConsumer
  \/ \E r \in Requests : Serve(r) \/ \E k \in Kinds : Arrive(r, k)
  \/ \E c \in Channels : CloseChannel(c)
  \/ ConnectionLost

Spec == Init /\ [][Next]_vars

\* A handler goroutine keeps running; clients need not come, nothing need close.
FairSpec == Spec /\ \A r \in Requests : WF_vars(Serve(r))

-----------------------------------------------------------------------------
(* Properties *)

Places(c) ==
  Cardinality({i \in DOMAIN Pool : Pool[i] = c})
  + Cardinality({r \in Requests : ch[r] = c})
  + (IF c \in consumers THEN 1 ELSE 0)

TypeOK ==
  /\ Pool \in Seq(Channels) /\ Len(Pool) <= Size
  /\ closed \subseteq Channels /\ consumers \subseteq Channels
  /\ connected \in BOOLEAN
  /\ started \in 0..Len(Startup)
  /\ queue \in Seq(Requests)
  /\ pc \in [Requests -> {"idle", "waiting", "publishing", "releasing"}]
  /\ kind \in [Requests -> {"instance", "tunnel"}]
  /\ ch \in [Requests -> Channels \cup {NoChannel}]
  /\ closures \in 0..MaxClosures
  /\ panicked \in BOOLEAN

\* A channel is used by one goroutine at a time: no channel is in the pool
\* twice, with two requests, or with a request while it carries deliveries.
Exclusive == \A c \in Channels : Places(c) <= 1

\* No channel is lost: "Release the channel" is reached on every path.
NoChannelLeak == \A c \in Channels : Places(c) >= 1

Panicking == \E r \in Requests : pc[r] = "publishing" /\ Panics(r)

\* A panic is the only way to lose one: not an error of Publish, and not a
\* channel closed in the pool or under its user.
LeaksOnlyByPanic == ~panicked /\ ~Panicking => NoChannelLeak

\* Every request that waits for a channel is served, unless a handler panics:
\* the pool may be smaller than the number of requests, but channels come back
\* and waiters are in order.
EveryRequestServed ==
  \A r \in Requests : pc[r] = "waiting" ~> pc[r] = "idle" \/ panicked
=============================================================================
