------------------------- MODULE ChannelPool_proofs -------------------------
(***************************************************************************)
(* Theorems about ChannelPool for every size of the pool, every set of     *)
(* requests and every number of channels the broker closes.                *)
(***************************************************************************)
EXTENDS ChannelPool, FiniteSetTheorems, TLAPS

\* While main sets the process up nobody else uses the pool, which holds all
\* the channels but those of the consumers.
StartupOK ==
  started < Len(Startup) =>
    /\ queue = <<>> /\ \A r \in Requests : pc[r] = "idle"
    /\ Len(Pool) = IF started < 3 THEN Size ELSE Size - 1

\* Requests in the queue wait, each once, and only a request past the queue has
\* a channel; one that has published has a channel to release.
WaitersOK ==
  /\ \A i \in DOMAIN queue : pc[queue[i]] = "waiting"
  /\ \A i, k \in DOMAIN queue : queue[i] = queue[k] => i = k
  /\ \A r \in Requests : pc[r] \in {"idle", "waiting"} => ch[r] = NoChannel
  /\ \A r \in Requests : pc[r] = "releasing" => ch[r] # NoChannel

\* No channel is in two places.
PlacesApart ==
  /\ \A i, k \in DOMAIN Pool : Pool[i] = Pool[k] => i = k
  /\ \A r, s \in Requests : ch[r] = ch[s] /\ ch[r] # NoChannel => r = s
  /\ \A i \in DOMAIN Pool : Pool[i] \notin consumers /\ \A r \in Requests : ch[r] # Pool[i]
  /\ \A r \in Requests : ch[r] \notin consumers

Somewhere(c) ==
  c \in consumers \/ (\E i \in DOMAIN Pool : Pool[i] = c) \/ (\E r \in Requests : ch[r] = c)

\* Each channel is somewhere, unless a handler panicked or is about to.
NoneLost == ~panicked /\ ~Panicking => \A c \in Channels : Somewhere(c)

PoolInv == TypeOK /\ StartupOK /\ WaitersOK /\ PlacesApart /\ NoneLost

-----------------------------------------------------------------------------
(* Taking from a sequence and adding to it *)

\* The rest of a sequence.
LEMMA TailSeq ==
  ASSUME NEW S, NEW s \in Seq(S), s # <<>>
  PROVE  /\ Head(s) = s[1] /\ s[1] \in S /\ 1 \in DOMAIN s
         /\ Tail(s) \in Seq(S) /\ Len(Tail(s)) = Len(s) - 1
         /\ \A i \in DOMAIN Tail(s) : i + 1 \in DOMAIN s /\ Tail(s)[i] = s[i + 1]
         /\ \A i \in DOMAIN s \ {1} : i - 1 \in DOMAIN Tail(s) /\ Tail(s)[i - 1] = s[i]
OBVIOUS

\* A sequence with one more element.
LEMMA AppendSeq ==
  ASSUME NEW S, NEW s \in Seq(S), NEW x \in S
  PROVE  /\ Append(s, x) \in Seq(S) /\ Len(Append(s, x)) = Len(s) + 1
         /\ Len(s) + 1 \in DOMAIN Append(s, x) /\ Append(s, x)[Len(s) + 1] = x
         /\ DOMAIN Append(s, x) = DOMAIN s \cup {Len(s) + 1}
         /\ \A i \in DOMAIN s : i # Len(s) + 1 /\ Append(s, x)[i] = s[i]
OBVIOUS

\* A pool without one of the channels has room for it.
LEMMA RoomForMissing ==
  ASSUME Pool \in Seq(Channels), Len(Pool) <= Size, NEW c \in Channels,
         \A i \in DOMAIN Pool : Pool[i] # c,
         \A i, k \in DOMAIN Pool : Pool[i] = Pool[k] => i = k
  PROVE  Len(Pool) < Size
<1> SUFFICES ASSUME Len(Pool) = Size PROVE FALSE
  BY ChannelPoolAssumption
<1>1. /\ IsFiniteSet(Channels) /\ Cardinality(Channels) = Size
  BY FS_Interval, ChannelPoolAssumption DEF Channels
<1>2. /\ IsFiniteSet(Channels \ {c}) /\ Cardinality(Channels \ {c}) = Size - 1
  BY <1>1, FS_RemoveElement
<1>3. Pool \in [Channels -> Channels \ {c}]
  BY ChannelPoolAssumption DEF Channels
<1>4. \E i, k \in Channels : i # k /\ Pool[i] = Pool[k]
  <2>1. Cardinality(Channels \ {c}) < Cardinality(Channels)
    BY <1>1, <1>2, ChannelPoolAssumption
  <2>2. QED
    BY <1>1, <1>2, <1>3, <2>1, FS_PigeonHole
<1>5. QED
  BY <1>3, <1>4

-----------------------------------------------------------------------------
(* One action at a time *)

\* An empty pool cannot be met by main.
LEMMA PoolNotEmpty ==
  ASSUME PoolInv, started < Len(Startup)
  PROVE  Pool # <<>> /\ Pool \in Seq(Channels)
BY ChannelPoolAssumption DEF PoolInv, TypeOK, StartupOK

\* Declaring a queue puts the channel it used behind the others.
LEMMA DeclareKeeps ==
  ASSUME PoolInv, DeclareQueue
  PROVE  PoolInv'
<1>1. Pool # <<>> /\ Pool \in Seq(Channels) /\ started < Len(Startup)
  BY PoolNotEmpty DEF DeclareQueue
<1> DEFINE c == Head(Pool)
           rest == Tail(Pool)
<1>2. /\ c = Pool[1] /\ c \in Channels /\ 1 \in DOMAIN Pool
      /\ rest \in Seq(Channels) /\ Len(rest) = Len(Pool) - 1
      /\ \A i \in DOMAIN rest : i + 1 \in DOMAIN Pool /\ rest[i] = Pool[i + 1]
      /\ \A i \in DOMAIN Pool \ {1} : i - 1 \in DOMAIN rest /\ rest[i - 1] = Pool[i]
  BY <1>1, TailSeq
<1> HIDE DEF c, rest
<1>3. /\ Pool' = Append(rest, c) /\ started' = started + 1
      /\ UNCHANGED <<closed, connected, consumers, queue, pc, kind, ch, closures, panicked>>
  BY DEF DeclareQueue, request, broker, c, rest
<1>4. /\ Pool' \in Seq(Channels) /\ Len(Pool') = Len(Pool)
      /\ Len(rest) + 1 \in DOMAIN Pool' /\ Pool'[Len(rest) + 1] = c
      /\ DOMAIN Pool' = DOMAIN rest \cup {Len(rest) + 1}
      /\ \A i \in DOMAIN rest : i # Len(rest) + 1 /\ Pool'[i] = rest[i]
  BY <1>1, <1>2, <1>3, AppendSeq
<1>5. Len(Startup) = 6 /\ started \in 0..6 /\ started + 1 \in 0..6
      /\ (started < 3 => started + 1 < 3) /\ (started # 5)
  BY <1>1 DEF PoolInv, TypeOK, DeclareQueue, Startup
<1>6. TypeOK'
  BY <1>3, <1>4, <1>5 DEF PoolInv, TypeOK
<1>7. StartupOK'
  BY <1>1, <1>3, <1>4, <1>5 DEF PoolInv, StartupOK
<1>8. WaitersOK'
  BY <1>3 DEF PoolInv, WaitersOK
<1>9. PlacesApart'
  <2>1. \A i \in DOMAIN rest : rest[i] # c
    BY <1>2 DEF PoolInv, PlacesApart
  <2>2. \A i, k \in DOMAIN rest : rest[i] = rest[k] => i = k
    BY <1>1, <1>2 DEF PoolInv, PlacesApart
  <2>3. \A i, k \in DOMAIN Pool' : Pool'[i] = Pool'[k] => i = k
    BY <1>4, <2>1, <2>2
  <2>4. \A i \in DOMAIN Pool' : \E k \in DOMAIN Pool : Pool'[i] = Pool[k]
    BY <1>2, <1>4
  <2>5. QED
    BY <1>3, <2>3, <2>4 DEF PoolInv, PlacesApart
<1>10. NoneLost'
  <2>1. \A x : (\E i \in DOMAIN Pool : Pool[i] = x) => \E i \in DOMAIN Pool' : Pool'[i] = x
    BY <1>2, <1>4
  <2>2. QED
    BY <1>3, <2>1 DEF PoolInv, NoneLost, Somewhere, Panicking, Panics
<1>11. QED
  BY <1>6, <1>7, <1>8, <1>9, <1>10 DEF PoolInv

\* A consumer keeps the channel it takes.
LEMMA ConsumeKeeps ==
  ASSUME PoolInv, CreateConsumer
  PROVE  PoolInv'
<1>1. Pool # <<>> /\ Pool \in Seq(Channels) /\ started < Len(Startup)
  BY PoolNotEmpty DEF CreateConsumer
<1> DEFINE c == Head(Pool)
<1>2. /\ c = Pool[1] /\ c \in Channels /\ 1 \in DOMAIN Pool
      /\ Tail(Pool) \in Seq(Channels) /\ Len(Tail(Pool)) = Len(Pool) - 1
      /\ \A i \in DOMAIN Tail(Pool) : i + 1 \in DOMAIN Pool /\ Tail(Pool)[i] = Pool[i + 1]
      /\ \A i \in DOMAIN Pool \ {1} : i - 1 \in DOMAIN Tail(Pool) /\ Tail(Pool)[i - 1] = Pool[i]
  BY <1>1, TailSeq
<1> HIDE DEF c
<1>3. /\ Pool' = Tail(Pool) /\ consumers' = consumers \cup {c} /\ started' = started + 1
      /\ UNCHANGED <<closed, connected, queue, pc, kind, ch, closures, panicked>>
  BY DEF CreateConsumer, request, broker, c
<1>4. Len(Startup) = 6 /\ started \in {2, 5} /\ started + 1 \in 0..6
  BY <1>1 DEF PoolInv, TypeOK, CreateConsumer, Startup
<1>5. \A r \in Requests : ch[r] = NoChannel
  BY <1>1 DEF PoolInv, StartupOK, WaitersOK
<1>6. TypeOK'
  <2>1. Len(Pool') <= Size /\ consumers' \subseteq Channels
    BY <1>2, <1>3, ChannelPoolAssumption DEF PoolInv, TypeOK
  <2>2. QED
    BY <1>2, <1>3, <1>4, <2>1 DEF PoolInv, TypeOK
<1>7. StartupOK'
  BY <1>1, <1>2, <1>3, <1>4 DEF PoolInv, StartupOK
<1>8. WaitersOK'
  BY <1>3 DEF PoolInv, WaitersOK
<1>9. PlacesApart'
  <2>1. \A i \in DOMAIN Tail(Pool) : Tail(Pool)[i] # c
    BY <1>2 DEF PoolInv, PlacesApart
  <2>2. \A i, k \in DOMAIN Tail(Pool) : Tail(Pool)[i] = Tail(Pool)[k] => i = k
    BY <1>1, <1>2 DEF PoolInv, PlacesApart
  <2>3. c # NoChannel
    BY <1>2 DEF Channels, NoChannel
  <2>4. QED
    BY <1>2, <1>3, <1>5, <2>1, <2>2, <2>3 DEF PoolInv, PlacesApart
<1>10. NoneLost'
  <2>1. \A x : (\E i \in DOMAIN Pool : Pool[i] = x) => x = c \/ \E i \in DOMAIN Pool' : Pool'[i] = x
    BY <1>2, <1>3
  <2>2. QED
    BY <1>3, <2>1 DEF PoolInv, NoneLost, Somewhere, Panicking, Panics
<1>11. QED
  BY <1>6, <1>7, <1>8, <1>9, <1>10 DEF PoolInv

\* A request joins the queue.
LEMMA ArriveKeeps ==
  ASSUME PoolInv, NEW r \in Requests, NEW k \in Kinds, Arrive(r, k)
  PROVE  PoolInv'
<1>1. /\ started = Len(Startup) /\ pc[r] = "idle" /\ pc' = [pc EXCEPT ![r] = "waiting"]
      /\ kind' = [kind EXCEPT ![r] = k] /\ queue' = Append(queue, r)
      /\ UNCHANGED <<Pool, closed, connected, consumers, started, ch, closures, panicked>>
  BY DEF Arrive, Listening, main, broker
<1>2. /\ queue' \in Seq(Requests)
      /\ Len(queue) + 1 \in DOMAIN queue' /\ queue'[Len(queue) + 1] = r
      /\ DOMAIN queue' = DOMAIN queue \cup {Len(queue) + 1}
      /\ \A i \in DOMAIN queue : i # Len(queue) + 1 /\ queue'[i] = queue[i]
  BY <1>1, AppendSeq DEF PoolInv, TypeOK
<1>3. TypeOK'
  BY <1>1, <1>2, ChannelPoolAssumption DEF PoolInv, TypeOK
<1>4. StartupOK'
  BY <1>1 DEF PoolInv, StartupOK, TypeOK, Startup
<1>5. WaitersOK'
  <2>1. \A i \in DOMAIN queue : queue[i] # r /\ queue[i] \in Requests
    BY <1>1 DEF PoolInv, WaitersOK, TypeOK
  <2>2. QED
    BY <1>1, <1>2, <2>1 DEF PoolInv, WaitersOK, TypeOK
<1>6. PlacesApart'
  BY <1>1 DEF PoolInv, PlacesApart
<1>7. Panicking' <=> Panicking
  BY <1>1 DEF PoolInv, TypeOK, Panicking, Panics
<1>8. NoneLost'
  BY <1>1, <1>7 DEF PoolInv, NoneLost, Somewhere
<1>9. QED
  BY <1>3, <1>4, <1>5, <1>6, <1>8 DEF PoolInv

\* The first request of the queue takes the first channel of the pool.
LEMMA TakeKeeps ==
  ASSUME PoolInv, NEW r \in Requests, GetFreeChannel(r)
  PROVE  PoolInv'
<1> DEFINE c == Head(Pool)
           d == Refreshed(Head(Pool))
<1>1. /\ queue # <<>> /\ r = queue[1] /\ 1 \in DOMAIN queue
      /\ queue' = Tail(queue) /\ queue' \in Seq(Requests)
      /\ \A i \in DOMAIN queue' : i + 1 \in DOMAIN queue /\ queue'[i] = queue[i + 1]
  BY TailSeq DEF GetFreeChannel, PoolInv, TypeOK
<1>2. /\ c = Pool[1] /\ c \in Channels /\ 1 \in DOMAIN Pool /\ Pool' = Tail(Pool)
      /\ Pool' \in Seq(Channels) /\ Len(Pool') = Len(Pool) - 1
      /\ \A i \in DOMAIN Pool' : i + 1 \in DOMAIN Pool /\ Pool'[i] = Pool[i + 1]
      /\ \A i \in DOMAIN Pool \ {1} : i - 1 \in DOMAIN Pool' /\ Pool'[i - 1] = Pool[i]
  BY TailSeq DEF GetFreeChannel, PoolInv, TypeOK
<1>3. d \in {c, NoChannel}
  BY DEF Refreshed
<1>4. /\ ch' = [ch EXCEPT ![r] = d] /\ closed' = closed \ {d}
      /\ pc' = [pc EXCEPT ![r] = "publishing"]
      /\ UNCHANGED <<consumers, started, kind, connected, closures, panicked>>
  BY DEF GetFreeChannel, main
<1> HIDE DEF c, d
<1>5. pc[r] = "waiting" /\ ~(started < Len(Startup))
  BY <1>1 DEF PoolInv, WaitersOK, StartupOK
<1>6. TypeOK'
  <2>1. Len(Pool') <= Size
    BY <1>2, ChannelPoolAssumption DEF PoolInv, TypeOK
  <2>2. QED
    BY <1>1, <1>2, <1>3, <1>4, <2>1 DEF PoolInv, TypeOK
<1>7. StartupOK'
  BY <1>4, <1>5 DEF StartupOK
<1>8. WaitersOK'
  <2>1. \A i \in DOMAIN queue' : queue'[i] # r /\ queue'[i] \in Requests /\ pc[queue'[i]] = "waiting"
    BY <1>1 DEF PoolInv, WaitersOK
  <2>2. \A i, k \in DOMAIN queue' : queue'[i] = queue'[k] => i = k
    BY <1>1 DEF PoolInv, WaitersOK
  <2>3. QED
    BY <1>4, <2>1, <2>2 DEF PoolInv, WaitersOK, TypeOK
<1>9. PlacesApart'
  <2>1. \A i \in DOMAIN Pool' : Pool'[i] # c /\ Pool'[i] \in Channels
    BY <1>2 DEF PoolInv, PlacesApart
  <2>2. \A i, k \in DOMAIN Pool' : Pool'[i] = Pool'[k] => i = k
    BY <1>2 DEF PoolInv, PlacesApart
  <2>3. c \notin consumers /\ NoChannel \notin consumers /\ NoChannel \notin Channels
        /\ \A s \in Requests : ch[s] # c
    BY <1>2 DEF PoolInv, PlacesApart, TypeOK, Channels, NoChannel
  <2>4. QED
    BY <1>2, <1>3, <1>4, <2>1, <2>2, <2>3 DEF PoolInv, PlacesApart, TypeOK
<1>10. NoneLost'
  <2> SUFFICES ASSUME ~panicked', ~Panicking', NEW x \in Channels PROVE Somewhere(x)'
    BY DEF NoneLost
  <2>1. d = c
    BY <1>3, <1>4 DEF Panicking, Panics, PoolInv, TypeOK
  <2>2. ~Panicking
    BY <1>4, <1>5 DEF Panicking, Panics, PoolInv, TypeOK
  <2>3. Somewhere(x)
    BY <1>4, <2>2 DEF PoolInv, NoneLost
  <2>4. CASE x = c
    BY <1>4, <2>1, <2>4 DEF Somewhere, PoolInv, TypeOK
  <2>5. CASE x # c
    <3>1. (\E i \in DOMAIN Pool : Pool[i] = x) => \E i \in DOMAIN Pool' : Pool'[i] = x
      BY <1>2, <2>5
    <3>2. ch[r] # x
      BY <1>5 DEF PoolInv, WaitersOK, Channels, NoChannel
    <3>3. (\E s \in Requests : ch[s] = x) => \E s \in Requests : ch'[s] = x
      BY <1>4, <3>2 DEF PoolInv, TypeOK
    <3>4. QED
      BY <1>4, <2>3, <3>1, <3>3 DEF Somewhere
  <2>6. QED
    BY <2>4, <2>5
<1>11. QED
  BY <1>6, <1>7, <1>8, <1>9, <1>10 DEF PoolInv

\* A channel that comes back finds room in the pool.
LEMMA ReleaseKeeps ==
  ASSUME PoolInv, NEW r \in Requests, Release(r)
  PROVE  PoolInv'
<1> DEFINE c == ch[r]
<1>1. pc[r] = "releasing" /\ c \in Channels /\ ~(started < Len(Startup))
  BY DEF Release, PoolInv, WaitersOK, TypeOK, StartupOK
<1>2. \A i \in DOMAIN Pool : Pool[i] # c
  BY DEF PoolInv, PlacesApart
<1>3. Len(Pool) < Size
  BY <1>1, <1>2, RoomForMissing DEF PoolInv, TypeOK, PlacesApart
<1>4. /\ Pool' = Append(Pool, c) /\ pc' = [pc EXCEPT ![r] = "idle"]
      /\ ch' = [ch EXCEPT ![r] = NoChannel]
      /\ UNCHANGED <<closed, connected, consumers, started, queue, kind, closures, panicked>>
  BY <1>3 DEF Release, PushChannel, Done, main
<1>5. /\ Pool' \in Seq(Channels) /\ Len(Pool') = Len(Pool) + 1
      /\ Len(Pool) + 1 \in DOMAIN Pool' /\ Pool'[Len(Pool) + 1] = c
      /\ DOMAIN Pool' = DOMAIN Pool \cup {Len(Pool) + 1}
      /\ \A i \in DOMAIN Pool : i # Len(Pool) + 1 /\ Pool'[i] = Pool[i]
  BY <1>1, <1>4, AppendSeq DEF PoolInv, TypeOK
<1> HIDE DEF c
<1>6. TypeOK'
  BY <1>3, <1>4, <1>5, ChannelPoolAssumption DEF PoolInv, TypeOK
<1>7. StartupOK'
  BY <1>1, <1>4 DEF StartupOK
<1>8. WaitersOK'
  <2>1. \A i \in DOMAIN queue : queue[i] # r /\ queue[i] \in Requests
    BY <1>1 DEF PoolInv, WaitersOK, TypeOK
  <2>2. QED
    BY <1>4, <2>1 DEF PoolInv, WaitersOK, TypeOK
<1>9. PlacesApart'
  <2>1. c \notin consumers /\ NoChannel \notin consumers /\ NoChannel \notin Channels
        /\ \A s \in Requests \ {r} : ch[s] # c
    BY <1>1 DEF PoolInv, PlacesApart, TypeOK, Channels, NoChannel, c
  <2>2. QED
    BY <1>1, <1>2, <1>4, <1>5, <2>1 DEF PoolInv, PlacesApart, TypeOK
<1>10. NoneLost'
  <2>1. Panicking => Panicking'
    BY <1>1, <1>4 DEF Panicking, Panics, PoolInv, TypeOK
  <2>2. \A x \in Channels : Somewhere(x) => Somewhere(x)'
    BY <1>4, <1>5 DEF Somewhere, PoolInv, TypeOK, c
  <2>3. QED
    BY <1>4, <2>1, <2>2 DEF PoolInv, NoneLost
<1>11. QED
  BY <1>6, <1>7, <1>8, <1>9, <1>10 DEF PoolInv

\* A handler that panics, and one that publishes.
LEMMA PanicKeeps ==
  ASSUME PoolInv, NEW r \in Requests, Panic(r)
  PROVE  PoolInv'
<1>1. /\ pc[r] = "publishing" /\ pc' = [pc EXCEPT ![r] = "idle"]
      /\ ch' = [ch EXCEPT ![r] = NoChannel] /\ panicked'
      /\ UNCHANGED <<Pool, closed, connected, consumers, started, queue, kind, closures>>
      /\ panicked' \in BOOLEAN
  BY DEF Panic, Done, main, broker
<1>2. TypeOK'
  BY <1>1 DEF PoolInv, TypeOK
<1>3. ~(started < Len(Startup))
  BY <1>1 DEF PoolInv, StartupOK
<1>4. StartupOK'
  BY <1>1, <1>3 DEF StartupOK
<1>5. WaitersOK'
  <2>1. \A i \in DOMAIN queue : queue[i] # r /\ queue[i] \in Requests
    BY <1>1 DEF PoolInv, WaitersOK, TypeOK
  <2>2. QED
    BY <1>1, <2>1 DEF PoolInv, WaitersOK, TypeOK
<1>6. PlacesApart'
  <2>1. NoChannel \notin consumers /\ \A i \in DOMAIN Pool : Pool[i] # NoChannel
    <3>1. NoChannel \notin Channels
      BY DEF Channels, NoChannel
    <3>2. \A i \in DOMAIN Pool : Pool[i] \in Channels
      BY DEF PoolInv, TypeOK
    <3>3. QED
      BY <3>1, <3>2 DEF PoolInv, TypeOK
  <2>2. QED
    BY <1>1, <2>1 DEF PoolInv, PlacesApart, TypeOK
<1>7. QED
  BY <1>1, <1>2, <1>4, <1>5, <1>6 DEF PoolInv, NoneLost

\* A handler that publishes keeps its channel.
LEMMA PublishKeeps ==
  ASSUME PoolInv, NEW r \in Requests, Publish(r)
  PROVE  PoolInv'
<1>1. /\ pc[r] = "publishing" /\ ~Panics(r) /\ pc' = [pc EXCEPT ![r] = "releasing"]
      /\ UNCHANGED <<Pool, closed, connected, consumers, started, queue, kind, ch, closures, panicked>>
  BY DEF Publish, main, broker
<1>2. TypeOK'
  BY <1>1 DEF PoolInv, TypeOK
<1>3. ~(started < Len(Startup))
  BY <1>1 DEF PoolInv, StartupOK
<1>4. StartupOK'
  BY <1>1, <1>3 DEF StartupOK
<1>5. WaitersOK'
  <2>1. \A i \in DOMAIN queue : queue[i] # r /\ queue[i] \in Requests
    BY <1>1 DEF PoolInv, WaitersOK, TypeOK
  <2>2. ch[r] # NoChannel
    BY <1>1 DEF Panics
  <2>3. QED
    BY <1>1, <2>1, <2>2 DEF PoolInv, WaitersOK, TypeOK
<1>6. PlacesApart'
  BY <1>1 DEF PoolInv, PlacesApart
<1>7. Panicking => Panicking'
  BY <1>1 DEF Panicking, Panics, PoolInv, TypeOK
<1>8. NoneLost'
  BY <1>1, <1>7 DEF PoolInv, NoneLost, Somewhere
<1>9. QED
  BY <1>2, <1>4, <1>5, <1>6, <1>8 DEF PoolInv

\* What the broker closes stays where it is.
LEMMA BrokerKeeps ==
  ASSUME PoolInv, ConnectionLost \/ \E c \in Channels : CloseChannel(c)
  PROVE  PoolInv'
<1>1. /\ UNCHANGED <<Pool, consumers, started, queue, pc, kind, ch, panicked>>
      /\ closed' \subseteq Channels /\ connected' \in BOOLEAN /\ closures' \in 0..MaxClosures
  <2>1. CASE ConnectionLost
    BY <2>1 DEF ConnectionLost, main, request, PoolInv, TypeOK
  <2>2. ASSUME NEW c \in Channels, CloseChannel(c)
        PROVE  /\ UNCHANGED <<Pool, consumers, started, queue, pc, kind, ch, panicked, connected>>
               /\ closed' = closed \cup {c} /\ closures' \in 0..MaxClosures
    BY <2>2, ChannelPoolAssumption DEF CloseChannel, main, request, PoolInv, TypeOK
  <2>3. QED
    BY <2>1, <2>2 DEF PoolInv, TypeOK
<1>2. TypeOK' /\ StartupOK' /\ WaitersOK' /\ PlacesApart'
  BY <1>1 DEF PoolInv, TypeOK, StartupOK, WaitersOK, PlacesApart
<1>3. NoneLost'
  BY <1>1 DEF PoolInv, NoneLost, Somewhere, Panicking, Panics
<1>4. QED
  BY <1>2, <1>3 DEF PoolInv

-----------------------------------------------------------------------------
\* Places are apart and no channel is missing, but for panics.
LEMMA PoolInvHolds == Spec => []PoolInv
<1>1. Init => PoolInv
  <2> SUFFICES ASSUME Init PROVE PoolInv
    OBVIOUS
  <2>1. Pool = [c \in 1..Size |-> c] /\ Pool \in Seq(Channels) /\ Len(Pool) = Size
    BY ChannelPoolAssumption DEF Init, Channels
  <2>2. TypeOK
    <3>1. started \in 0..Len(Startup)
      BY DEF Init, Startup
    <3>2. queue \in Seq(Requests) /\ closures \in 0..MaxClosures /\ Len(Pool) <= Size
      BY <2>1, ChannelPoolAssumption DEF Init
    <3>3. QED
      BY <2>1, <3>1, <3>2 DEF Init, TypeOK
  <2>3. StartupOK /\ WaitersOK
    BY <2>1 DEF Init, StartupOK, WaitersOK
  <2>4. PlacesApart
    BY <2>1 DEF Init, PlacesApart, NoChannel
  <2>5. NoneLost
    BY <2>1 DEF NoneLost, Somewhere, Channels
  <2>6. QED
    BY <2>2, <2>3, <2>4, <2>5 DEF PoolInv
<1>2. PoolInv /\ [Next]_vars => PoolInv'
  <2> SUFFICES ASSUME PoolInv, [Next]_vars PROVE PoolInv'
    OBVIOUS
  <2>1. CASE UNCHANGED vars
    BY <2>1
    DEF vars, main, request, broker, PoolInv, TypeOK, StartupOK, WaitersOK, PlacesApart,
        NoneLost, Somewhere, Panicking, Panics
  <2>2. QED
    BY <2>1, DeclareKeeps, ConsumeKeeps, ArriveKeeps, TakeKeeps, ReleaseKeeps, PanicKeeps,
       PublishKeeps, BrokerKeeps
    DEF Next, Serve
<1>3. QED
  BY <1>1, <1>2, PTL DEF Spec

\* The pool, the requests and the consumers hold channels, and the pool never
\* more than it was made for.
THEOREM Typing == Spec => []TypeOK
<1>1. PoolInv => TypeOK
  BY DEF PoolInv
<1>2. QED
  BY <1>1, PoolInvHolds, PTL

\* How many places a set of at most one place counts for.
LEMMA AtMostOne ==
  ASSUME NEW S, \A x, y \in S : x = y
  PROVE  /\ S = {} => Cardinality(S) = 0
         /\ S # {} => Cardinality(S) = 1
<1>1. S # {} => \E x : S = {x}
  OBVIOUS
<1>2. QED
  BY <1>1, FS_EmptySet, FS_Singleton

\* The places of a channel, counted one kind at a time.
LEMMA PlacesCounted ==
  ASSUME PoolInv, NEW c \in Channels
  PROVE  /\ Places(c) <= 1
         /\ Somewhere(c) => Places(c) >= 1
<1> DEFINE inPool == {i \in DOMAIN Pool : Pool[i] = c}
           held == {r \in Requests : ch[r] = c}
<1>1. c # NoChannel
  BY DEF Channels, NoChannel
<1>2. \A x, y \in inPool : x = y
  BY DEF PoolInv, PlacesApart
<1>3. \A x, y \in held : x = y
  BY <1>1 DEF PoolInv, PlacesApart
<1>4. /\ inPool = {} => Cardinality(inPool) = 0
      /\ inPool # {} => Cardinality(inPool) = 1
  BY <1>2, AtMostOne
<1>5. /\ held = {} => Cardinality(held) = 0
      /\ held # {} => Cardinality(held) = 1
  BY <1>3, AtMostOne
<1>6. /\ inPool # {} => held = {} /\ c \notin consumers
      /\ held # {} => c \notin consumers
  BY DEF PoolInv, PlacesApart
<1>7. Somewhere(c) <=> inPool # {} \/ held # {} \/ c \in consumers
  BY DEF Somewhere
<1>8. Places(c) = Cardinality(inPool) + Cardinality(held) + (IF c \in consumers THEN 1 ELSE 0)
  BY DEF Places
<1> HIDE DEF inPool, held
<1>9. QED
  BY <1>4, <1>5, <1>6, <1>7, <1>8

\* A channel is used by one goroutine at a time, whatever is closed and whoever
\* panics.
THEOREM OneUser == Spec => []Exclusive
<1>1. PoolInv => Exclusive
  BY PlacesCounted DEF Exclusive
<1>2. QED
  BY <1>1, PoolInvHolds, PTL

\* Errors of Publish and closed channels lose no channel; only a panic does.
THEOREM Leaks == Spec => []LeaksOnlyByPanic
<1>1. PoolInv => LeaksOnlyByPanic
  BY PlacesCounted DEF PoolInv, NoneLost, LeaksOnlyByPanic, NoChannelLeak
<1>2. QED
  BY <1>1, PoolInvHolds, PTL
=============================================================================
