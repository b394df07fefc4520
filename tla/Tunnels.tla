------------------------------- MODULE Tunnels -------------------------------
(***************************************************************************)
(* Tunnels: CreateTunnel publishes a request to tunnel_queue, a consumer   *)
(* goroutine starts one goroutine per delivery, and that one writes the    *)
(* domain's nginx file, inserts the row of table tunnels and settles the   *)
(* delivery (src/cmd/tunnel_utility.go); DestroyTunnel deletes the row     *)
(* (src/cmd/tunnel_handler.go, src/internal/store/tunnels.go).             *)
(*                                                                         *)
(* None of the error branches of CreateTunnelUtility returns: after a Nack *)
(* the next step follows, and an Ack at the end in any case.  RabbitMQ     *)
(* closes the channel of a consumer that settles a delivery twice.  The    *)
(* header x-retry-counter never stops a request: it is published as an     *)
(* int32, which is not equal to the int 3, and an increment stays in the   *)
(* consumer's copy.                                                        *)
(*                                                                         *)
(* ReloadNginxConf returns no error; when it cannot reach Docker it ends   *)
(* the process (Restart).  A tunnel is known by its domain: the name only  *)
(* serves to find the row again.                                           *)
(***************************************************************************)
EXTENDS Integers, FiniteSets

CONSTANTS
  Users, Domains,
  Requests,      \* messages of CreateTunnel
  Workers,       \* goroutines of the consumer
  Prefetch,      \* 3 unsettled deliveries per channel (CreateChannelPool)
  MaxIncidents,  \* bound: incidents of the process and losses of the connection
  FailingSteps,  \* the steps whose call may fail
  NoUser, NoDomain, NoRequest

Steps == {"write", "nackWrite", "insert", "unconf", "nackInsert", "ack"}

ASSUME TunnelsAssumption ==
  /\ NoUser \notin Users /\ NoDomain \notin Domains /\ NoRequest \notin Requests
  /\ Prefetch \in Nat \ {0} /\ MaxIncidents \in Nat
  /\ FailingSteps \subseteq {"write", "insert", "unconf"}

VARIABLES
  tunnels,    \* table tunnels: the user_id of each domain (UNIQUE)
  conf,       \* domains with a file in /app/nginx_conf
  message,    \* where the broker keeps each request
  user, domain,   \* the contents of each request
  consumer,   \* the channel of TunnelConsumer: "open" or "closed"
  pc, job,    \* the next call of each goroutine and its request
  unsettled,  \* goroutines whose delivery the broker still waits for
  incidents

queue == <<message, user, domain>>
locals == <<pc, job>>
vars == <<tunnels, conf, queue, consumer, locals, unsettled, incidents>>

Places == {"none", "ready", "unacked", "retry", "gone"}

Init ==
  /\ tunnels = [d \in Domains |-> NoUser]
  /\ conf = {}
  /\ message = [j \in Requests |-> "none"]
  /\ user = [j \in Requests |-> NoUser]
  /\ domain = [j \in Requests |-> NoDomain]
  /\ consumer = "open"
  /\ pc = [w \in Workers |-> "idle"]
  /\ job = [w \in Workers |-> NoRequest]
  /\ unsettled = {}
  /\ incidents = 0

Domain(w) == domain[job[w]]

GoTo(w, step) == pc' = [pc EXCEPT ![w] = step] /\ UNCHANGED job

-----------------------------------------------------------------------------
(* Handlers *)

\* Variant: the Uid is not filled in, as DestroyTunnel does with its look-up.
CreateAnonymous(j, u, d) ==
  /\ message[j] = "none"
  /\ message' = [message EXCEPT ![j] = "ready"]
  /\ domain' = [domain EXCEPT ![j] = d]
  /\ UNCHANGED <<user, tunnels, conf, consumer, locals, unsettled, incidents>>

CreateTunnel(j, u, d) ==
  /\ message[j] = "none"
  /\ message' = [message EXCEPT ![j] = "ready"]
  /\ user' = [user EXCEPT ![j] = u]
  /\ domain' = [domain EXCEPT ![j] = d]
  /\ UNCHANGED <<tunnels, conf, consumer, locals, unsettled, incidents>>

\* Variant: the file goes and the row stays.
DestroyFile(u, d) ==
  /\ tunnels[d] = u
  /\ conf' = conf \ {d}
  /\ UNCHANGED <<tunnels, queue, consumer, locals, unsettled, incidents>>

\* The row is deleted; the look-up of its domain that follows finds nothing (it
\* is gone, and the query has no UID), so the handler ends with an error.
DestroyTunnel(u, d) ==
  /\ tunnels[d] = u
  /\ tunnels' = [tunnels EXCEPT ![d] = NoUser]
  /\ UNCHANGED <<conf, queue, consumer, locals, unsettled, incidents>>

-----------------------------------------------------------------------------
(* The broker and the consumer loop *)

Deliver(w, j) ==
  /\ consumer = "open"
  /\ Cardinality(unsettled) < Prefetch
  /\ pc[w] = "idle" /\ message[j] = "ready"
  /\ message' = [message EXCEPT ![j] = "unacked"]
  /\ unsettled' = unsettled \cup {w}
  /\ pc' = [pc EXCEPT ![w] = "write"]
  /\ job' = [job EXCEPT ![w] = j]
  /\ UNCHANGED <<tunnels, conf, user, domain, consumer, incidents>>

\* x-message-ttl of tunnel_retry_queue.
Expire(j) ==
  /\ message[j] = "retry"
  /\ message' = [message EXCEPT ![j] = "ready"]
  /\ UNCHANGED <<tunnels, conf, user, domain, consumer, locals, unsettled, incidents>>

Requeued == [j \in Requests |-> IF message[j] = "unacked" THEN "ready" ELSE message[j]]

\* Ack or Nack of a goroutine's delivery: the first moves the message, a second
\* one on an open channel closes it, and what is unsettled there is requeued.
\* On a closed channel both return an error that nobody reads.
Settle(w, place) ==
  \/ /\ w \in unsettled
     /\ message' = [message EXCEPT ![job[w]] = place]
     /\ unsettled' = unsettled \ {w}
     /\ UNCHANGED consumer
  \/ /\ w \notin unsettled /\ consumer = "open"
     /\ consumer' = "closed"
     /\ message' = Requeued
     /\ unsettled' = {}
  \/ /\ w \notin unsettled /\ consumer = "closed"
     /\ UNCHANGED <<message, unsettled, consumer>>

-----------------------------------------------------------------------------
(* CreateTunnelUtility *)

AddNewConf(w) ==
  /\ pc[w] = "write"
  /\ conf' = conf \cup {Domain(w)}
  /\ GoTo(w, "insert")
  /\ UNCHANGED <<tunnels, queue, consumer, unsettled, incidents>>

WriteFails(w) ==
  /\ pc[w] = "write" /\ "write" \in FailingSteps
  /\ GoTo(w, "nackWrite")
  /\ UNCHANGED <<tunnels, conf, queue, consumer, unsettled, incidents>>

NackWrite(w) ==
  /\ pc[w] = "nackWrite"
  /\ Settle(w, "retry")
  /\ GoTo(w, "insert")
  /\ UNCHANGED <<tunnels, conf, user, domain, incidents>>

InsertTunnel(w) ==
  /\ pc[w] = "insert"
  /\ \/ /\ tunnels[Domain(w)] = NoUser
        /\ tunnels' = [tunnels EXCEPT ![Domain(w)] = user[job[w]]]
        /\ GoTo(w, "ack")
     \/ tunnels[Domain(w)] # NoUser /\ GoTo(w, "unconf") /\ UNCHANGED tunnels
  /\ UNCHANGED <<conf, queue, consumer, unsettled, incidents>>

InsertFails(w) ==
  /\ pc[w] = "insert" /\ "insert" \in FailingSteps
  /\ GoTo(w, "unconf")
  /\ UNCHANGED <<tunnels, conf, queue, consumer, unsettled, incidents>>

\* Whoever's file it is; an error is not looked at.
RemoveConf(w) ==
  /\ pc[w] = "unconf"
  /\ \/ conf' = conf \ {Domain(w)}
     \/ "unconf" \in FailingSteps /\ UNCHANGED conf
  /\ GoTo(w, "nackInsert")
  /\ UNCHANGED <<tunnels, queue, consumer, unsettled, incidents>>

\* Variant: the failed insertion is not reported to the broker.
SkipNack(w) ==
  /\ pc[w] = "nackInsert"
  /\ GoTo(w, "ack")
  /\ UNCHANGED <<tunnels, conf, queue, consumer, unsettled, incidents>>

NackInsert(w) ==
  /\ pc[w] = "nackInsert"
  /\ Settle(w, "retry")
  /\ GoTo(w, "ack")
  /\ UNCHANGED <<tunnels, conf, user, domain, incidents>>

Finish(w) ==
  /\ pc' = [pc EXCEPT ![w] = "idle"]
  /\ job' = [job EXCEPT ![w] = NoRequest]

\* Variant: nothing is acknowledged at the end.
ReturnOnly(w) ==
  /\ pc[w] = "ack"
  /\ Finish(w)
  /\ UNCHANGED <<tunnels, conf, queue, consumer, unsettled, incidents>>

Ack(w) ==
  /\ pc[w] = "ack"
  /\ Settle(w, "gone")
  /\ Finish(w)
  /\ UNCHANGED <<tunnels, conf, user, domain, incidents>>

-----------------------------------------------------------------------------
Incident == incidents < MaxIncidents /\ incidents' = incidents + 1

\* The process dies and starts again, with a new channel and a new consumer.
Restart ==
  /\ Incident
  /\ message' = Requeued
  /\ consumer' = "open"
  /\ unsettled' = {}
  /\ pc' = [w \in Workers |-> "idle"]
  /\ job' = [w \in Workers |-> NoRequest]
  /\ UNCHANGED <<tunnels, conf, user, domain>>

\* The consumer loop ends; goroutines go on.
ConnectionLost ==
  /\ Incident
  /\ message' = Requeued
  /\ consumer' = "closed"
  /\ unsettled' = {}
  /\ UNCHANGED <<tunnels, conf, user, domain, locals>>

Work(w) ==
  \/ AddNewConf(w) \/ NackWrite(w) \/ InsertTunnel(w)
  \/ RemoveConf(w) \/ NackInsert(w) \/ Ack(w)

CallFails(w) == WriteFails(w) \/ InsertFails(w)

Handle ==
  \E u \in Users, d \in Domains :
    DestroyTunnel(u, d) \/ \E j \in Requests : CreateTunnel(j, u, d)

Broker == \E j \in Requests : Expire(j) \/ \E w \in Workers : Deliver(w, j)

Next ==
  \/ Handle \/ Broker \/ Restart \/ ConnectionLost
  \/ \E w \in Workers : Work(w) \/ CallFails(w)

Spec == Init /\ [][Next]_vars

\* Goroutines run, the broker delivers to an open channel with a free slot, and
\* the retry queue's TTL expires.
Fairness ==
  /\ \A w \in Workers : WF_vars(Work(w))
  /\ \A j \in Requests : WF_vars(Expire(j)) /\ WF_vars(\E w \in Workers : Deliver(w, j))

FairSpec == Spec /\ Fairness

-----------------------------------------------------------------------------
(* Properties *)

TypeOK ==
  /\ tunnels \in [Domains -> Users \cup {NoUser}]
  /\ conf \subseteq Domains
  /\ message \in [Requests -> Places]
  /\ user \in [Requests -> Users \cup {NoUser}]
  /\ domain \in [Requests -> Domains \cup {NoDomain}]
  /\ consumer \in {"open", "closed"}
  /\ pc \in [Workers -> Steps \cup {"idle"}]
  /\ job \in [Workers -> Requests \cup {NoRequest}]
  /\ unsettled \subseteq Workers
  /\ incidents \in 0..MaxIncidents
  /\ \A j \in Requests : message[j] # "none" => user[j] \in Users /\ domain[j] \in Domains
  /\ \A w \in Workers : pc[w] # "idle" => job[w] \in Requests /\ message[job[w]] # "none"

\* Every delivery the broker waits for has exactly one goroutine that will
\* still settle it, whatever was settled twice, lost or delivered again in
\* between, and at most Prefetch are out: a forgotten one would hold a slot for
\* ever, and the consumer would starve after three.
DeliveryHasWorker ==
  /\ \A w \in unsettled : pc[w] # "idle" /\ message[job[w]] = "unacked"
  /\ \A j \in Requests : message[j] = "unacked" => \E w \in unsettled : job[w] = j
  /\ \A v, w \in unsettled : job[v] = job[w] => v = w
  /\ Cardinality(unsettled) <= Prefetch
=============================================================================
