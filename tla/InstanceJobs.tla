---------------------------- MODULE InstanceJobs ----------------------------
(***************************************************************************)
(* The life of a deploy, stop or kill request: the RabbitMQ main and retry *)
(* queues, the consumer with its in-memory retry counter, and the          *)
(* goroutines deploy, stop and kill (src/cmd/instance_utility.go) with the *)
(* LXD and database operations they call (src/lxd/lxd.go,                  *)
(* src/internal/store/instance.go, domains.go, redis.go).                  *)
(*                                                                         *)
(* A job is one request; its message is in exactly one place.  The broker  *)
(* may deliver ready messages in any order: up to Prefetch goroutines run  *)
(* side by side and none waits for another, so the queues' FIFO order      *)
(* settles nothing between jobs.  Every call to the broker, to LXD, to     *)
(* Postgres or to Redis is a step, and other jobs' steps come between.     *)
(*                                                                         *)
(* Beside them the domain page (src/cmd/domain_handler.go) publishes and   *)
(* removes domains of any name; module Domains takes its requests apart    *)
(* into their calls, here each of them is one step.                        *)
(***************************************************************************)
EXTENDS Integers, Sequences, FiniteSets

CONSTANTS
  Users,
  Names,         \* domain names other than those of containers
  NoUser,        \* a domain without a row, or without a file
  MaxJobs,       \* bound: requests made
  MaxPages,      \* bound: requests of the domain page
  MaxFaults,     \* bound: calls that return an error
  MaxIncidents,  \* bound: crashes, lost connections, broker restarts
  MaxTroubles,   \* bound: requests of the page, errors and incidents together
  Prefetch,      \* unacknowledged deliveries of the consumer's channel: 3
  MaxAttempts,   \* deliveries that are worked on: 3
  Careful,       \* a user asks only after the previous request was answered
  Actions,       \* the actions users ask for
  FaultySteps,   \* the steps whose call may return an error
  Incidents      \* the kinds of incidents that may happen

Jobs == 1..MaxJobs

\* A user stands for the name of his container, which is that of his code domain.
Domain == Users \cup Names

Kinds == {"crash", "drop", "broker"}

DeploySteps == {"find", "allocate", "create", "query", "inspect", "start",
                "provision", "domain", "conf", "insert", "select", "update",
                "recover", "reselect", "reupdate"}
StopSteps == {"findStop", "stop", "dbStop"}
KillSteps == {"findKill", "halt", "dealloc", "delete", "undomain", "unconf", "dbRemove"}

BeforeAck == DeploySteps \cup StopSteps \cup KillSteps \cup {"ack", "giveup"}
AfterAck == {"cleanup", "deleteDomains", "result", "forget", "giveupResult"}

ASSUME InstanceJobsAssumption ==
  /\ Users \cap Names = {} /\ NoUser \notin Users
  /\ MaxJobs \in Nat /\ MaxPages \in Nat /\ MaxFaults \in Nat /\ MaxIncidents \in Nat
  /\ MaxTroubles \in Nat
  /\ Prefetch \in Nat \ {0} /\ MaxAttempts \in Nat \ {0}
  /\ Careful \in BOOLEAN
  /\ Actions \subseteq {"deploy", "stop", "kill"}
  /\ FaultySteps \subseteq (BeforeAck \ {"ack", "giveup"}) \cup
                           {"deleteDomains", "result", "giveupResult"}
  /\ Incidents \subseteq Kinds

VARIABLES
  requests,         \* the requests made, in order; job j is requests[j]
  message,          \* where the broker keeps job j's message
  connected,        \* the gateway's AMQP connection is open
  retries,          \* the process-wide map of attempts, job ID -> count
  pc,               \* the next step of job j's goroutine (or of the consumer)
  containerExists,  \* jobs whose local variable containerExists is true
  exists,           \* jobs whose local variable exists (instance row) is true
  container,        \* LXD: state of the user's container
  userip,           \* users with a row in table userip
  row,              \* table instance: "none", or is_running as a state
  domains,          \* table domains: the user_id of each domain_name
  code,             \* domain names whose row has is_code TRUE
  conf,             \* nginx conf files: the user each of them was written for
  result,           \* Redis <action>:result:<jobID>
  told,             \* the answer the polling page has received
  pages,            \* requests the domain page has made
  faults,           \* calls that have returned an error
  incidents         \* incidents of each kind that have happened

broker == <<message, connected>>
locals == <<pc, containerExists, exists>>
tables == <<domains, code>>
world == <<container, userip, row, tables, conf>>
answers == <<result, told>>
budget == <<pages, faults, incidents>>
vars == <<requests, broker, retries, locals, world, answers, budget>>

Init ==
  /\ requests = <<>>
  /\ message = [j \in Jobs |-> "none"]
  /\ connected = TRUE
  /\ retries = [j \in Jobs |-> 0]
  /\ pc = [j \in Jobs |-> "idle"]
  /\ containerExists = {}
  /\ exists = {}
  /\ container = [u \in Users |-> "none"]
  /\ userip = {}
  /\ row = [u \in Users |-> "none"]
  /\ domains = [d \in Domain |-> NoUser]
  /\ code = {}
  /\ conf = [d \in Domain |-> NoUser]
  /\ result = [j \in Jobs |-> "none"]
  /\ told = [j \in Jobs |-> "none"]
  /\ pages = 0
  /\ faults = 0
  /\ incidents = [k \in Kinds |-> 0]

User(j) == requests[j].user
Asked == DOMAIN requests
Unacked == {j \in Jobs : message[j] = "unacked"}
\* The bound on what happens beside the jobs is not used up.
Incidental == incidents["crash"] + incidents["drop"] + incidents["broker"]
Room == pages + faults + Incidental < MaxTroubles

Answered(j) == result[j] # "none" \/ told[j] # "none"

(***************************************************************************)
(* Control of a goroutine.                                                 *)
(***************************************************************************)
Go(j, step) ==
  /\ pc' = [pc EXCEPT ![j] = step]
  /\ UNCHANGED <<message, containerExists, exists>>

End(j) ==
  /\ pc' = [pc EXCEPT ![j] = "idle"]
  /\ containerExists' = containerExists \ {j}
  /\ exists' = exists \ {j}

\* Variants: the goroutine returns without Nack; Nack where Ack is meant.
ReturnOnly(j) == End(j) /\ UNCHANGED message
Reject(j) == message' = [message EXCEPT ![j] = IF connected THEN "retry" ELSE @]
KeepUnsettled(j) == UNCHANGED message

\* d.Nack(false, false) dead-letters the message to the retry queue, d.Ack(false)
\* settles it; on a closed connection both are errors nobody looks at.
Nack(j) ==
  /\ message' = [message EXCEPT ![j] = IF connected THEN "retry" ELSE @]
  /\ End(j)

Settle(j) == message' = [message EXCEPT ![j] = IF connected THEN "gone" ELSE @]

-----------------------------------------------------------------------------
(* Requests, answers and other handlers *)

\* handleInstanceAction with PushMessageInstance on an open channel.
Publish(u, a) ==
  LET j == Len(requests) + 1 IN
  /\ j \in Jobs
  /\ connected
  /\ Careful => \A i \in Asked : User(i) = u => told[i] # "none"
  /\ requests' = Append(requests, [user |-> u, action |-> a])
  /\ message' = [message EXCEPT ![j] = "ready"]
  /\ UNCHANGED <<connected, retries, locals, world, answers, budget>>

\* handleDeployResult/handleSKResult: read the result and delete the key.
Poll(j) ==
  /\ result[j] # "none"
  /\ told' = [told EXCEPT ![j] = result[j]]
  /\ result' = [result EXCEPT ![j] = "none"]
  /\ UNCHANGED <<requests, broker, retries, locals, world, budget>>

\* The domain page of a running gateway, in one step.
Page(u) ==
  /\ pages < MaxPages /\ Room
  /\ pages' = pages + 1
  /\ Careful => \A i \in Asked : User(i) = u => told[i] # "none"
  /\ UNCHANGED <<requests, broker, retries, locals, container, userip, row, answers,
                 faults, incidents>>

\* domain_name is UNIQUE; the page takes any name, that of a container included.
AddUserDomain(u, d) ==
  /\ Page(u)
  /\ domains[d] = NoUser
  /\ domains' = [domains EXCEPT ![d] = u]
  /\ conf' = [conf EXCEPT ![d] = u]
  /\ UNCHANGED code

\* Deletes the rows of user u with these domain names.
DeleteRows(u, names) ==
  LET gone == {d \in names : domains[d] = u} IN
  /\ domains' = [d \in Domain |-> IF d \in gone THEN NoUser ELSE domains[d]]
  /\ code' = code \ gone

\* The row goes if it is the user's own, the file whoever's it is.
RemoveUserDomain(u, d) ==
  /\ Page(u)
  /\ DeleteRows(u, {d})
  /\ conf' = [conf EXCEPT ![d] = NoUser]

-----------------------------------------------------------------------------
(* ConsumeMessageInstance *)

FirstStep(a) == CASE a = "deploy" -> "find" [] a = "stop" -> "findStop" [] a = "kill" -> "findKill"

\* The consumer holds the mutex of the retry map while it gives a job up.
MutexFree == \A j \in Jobs : pc[j] \notin {"giveup", "giveupResult"}

SlotFree == Cardinality(Unacked) < Prefetch

\* Variant: one attempt too many.
OneMoreAttempt(j) == retries[j] = MaxAttempts + 1

OutOfAttempts(j) == retries[j] = MaxAttempts

Deliver(j) ==
  /\ message[j] = "ready" /\ connected /\ SlotFree /\ MutexFree
  /\ message' = [message EXCEPT ![j] = "unacked"]
  /\ \/ /\ OutOfAttempts(j)
        /\ pc' = [pc EXCEPT ![j] = "giveup"]
        /\ UNCHANGED retries
     \/ /\ ~OutOfAttempts(j)
        /\ retries' = [retries EXCEPT ![j] = @ + 1]
        /\ pc' = [pc EXCEPT ![j] = FirstStep(requests[j].action)]
  /\ UNCHANGED <<requests, connected, containerExists, exists, world, answers, budget>>

\* Variant: the job is given up without an answer.
GiveUpSilently(j) ==
  /\ pc[j] = "giveup"
  /\ Settle(j)
  /\ End(j)
  /\ UNCHANGED <<requests, connected, retries, world, answers, budget>>

GiveUp(j) ==
  /\ pc[j] = "giveup"
  /\ Settle(j)
  /\ pc' = [pc EXCEPT ![j] = "giveupResult"]
  /\ UNCHANGED <<requests, connected, retries, containerExists, exists, world,
                 answers, budget>>

\* The failure of the Put is only logged.
GiveUpResult(j, put) ==
  /\ pc[j] = "giveupResult"
  /\ result' = IF put THEN [result EXCEPT ![j] = "fail"] ELSE result
  /\ retries' = [retries EXCEPT ![j] = 0]
  /\ End(j)
  /\ UNCHANGED <<requests, broker, world, told>>

\* x-message-ttl of the retry queue dead-letters back to the main queue.
Expire(j) ==
  /\ message[j] = "retry"
  /\ message' = [message EXCEPT ![j] = "ready"]
  /\ UNCHANGED <<requests, connected, retries, locals, world, answers, budget>>

-----------------------------------------------------------------------------
(* deploy: lxd.CreateInstance *)

Find(j) ==
  /\ pc[j] = "find"
  /\ \/ container[User(j)] = "none" /\ Go(j, "allocate")
     \/ /\ container[User(j)] # "none"
        /\ pc' = [pc EXCEPT ![j] = "query"]
        /\ containerExists' = containerExists \cup {j}
        /\ UNCHANGED <<message, exists>>
  /\ UNCHANGED world

\* AllocateFreeLXCIp by its effect on table userip, whose user_id is UNIQUE.
Allocate(j) ==
  /\ pc[j] = "allocate"
  /\ \/ User(j) \notin userip /\ userip' = userip \cup {User(j)} /\ Go(j, "create")
     \/ User(j) \in userip /\ Nack(j) /\ UNCHANGED userip
  /\ UNCHANGED <<container, row, tables, conf>>

\* A transaction that lost every attempt to other deploys' returns its address all
\* the same, with no error and no row.
ConflictsExhausted(j) ==
  /\ pc[j] = "allocate"
  /\ \E i \in Asked \ {j} : requests[i].action = "deploy"
  /\ Go(j, "create")
  /\ UNCHANGED world

\* LXD refuses a second container of the same name.
CreateContainer(j) ==
  /\ pc[j] = "create"
  /\ \/ /\ container[User(j)] = "none"
        /\ container' = [container EXCEPT ![User(j)] = "stopped"]
        /\ Go(j, "query")
     \/ container[User(j)] # "none" /\ Nack(j) /\ UNCHANGED container
  /\ UNCHANGED <<userip, row, tables, conf>>

(* deploy: Exists, then lxd.UpdateInstanceState(start) *)

QueryRow(j) ==
  /\ pc[j] = "query"
  /\ exists' = IF row[User(j)] # "none" THEN exists \cup {j} ELSE exists
  /\ pc' = [pc EXCEPT ![j] = "inspect"]
  /\ UNCHANGED <<message, containerExists, world>>

RecordStep(j) == IF j \in containerExists THEN "select" ELSE "insert"

\* CONTAINER_ALREADY_RUNNING is not an error to deploy.
Inspect(j) ==
  /\ pc[j] = "inspect"
  /\ \/ container[User(j)] = "none" /\ Nack(j)
     \/ container[User(j)] = "running" /\ Go(j, RecordStep(j))
     \/ container[User(j)] = "stopped" /\ Go(j, "start")
  /\ UNCHANGED world

StartContainer(j) ==
  /\ pc[j] = "start"
  /\ \/ /\ container[User(j)] = "stopped"
        /\ container' = [container EXCEPT ![User(j)] = "running"]
        /\ Go(j, IF j \in exists THEN RecordStep(j) ELSE "provision")
     \/ container[User(j)] # "stopped" /\ Nack(j) /\ UNCHANGED container
  /\ UNCHANGED <<userip, row, tables, conf>>

\* LXD runs the commands that set a container up in a running one only.
CanRunCommands(u) == container[u] = "running"

\* CreateUser .. StartCodeServer, FindContainerIP, as one step.
Provision(j) ==
  /\ pc[j] = "provision"
  /\ \/ CanRunCommands(User(j)) /\ Go(j, "domain")
     \/ ~CanRunCommands(User(j)) /\ Nack(j)
  /\ UNCHANGED world

\* domain_name is UNIQUE, and the code domain is the container's name.
AddDomain(j) ==
  /\ pc[j] = "domain"
  /\ \/ /\ domains[User(j)] = NoUser
        /\ domains' = [domains EXCEPT ![User(j)] = User(j)]
        /\ code' = code \cup {User(j)}
        /\ Go(j, "conf")
     \/ domains[User(j)] # NoUser /\ Nack(j) /\ UNCHANGED tables
  /\ UNCHANGED <<container, userip, row, conf>>

AddNewConf(j) ==
  /\ pc[j] = "conf"
  /\ conf' = [conf EXCEPT ![User(j)] = User(j)]
  /\ Go(j, RecordStep(j))
  /\ UNCHANGED <<container, userip, row, tables>>

(* deploy: CreateInstance or StartInstance of the instance table *)

\* Also the "Recreating and recovering state" branch after a failed update.
InsertRow(j) ==
  /\ pc[j] \in {"insert", "recover"}
  /\ \/ /\ row[User(j)] = "none"
        /\ row' = [row EXCEPT ![User(j)] = "running"]
        /\ Go(j, IF pc[j] = "insert" THEN "ack" ELSE "reselect")
     \/ row[User(j)] # "none" /\ Nack(j) /\ UNCHANGED row
  /\ UNCHANGED <<container, userip, tables, conf>>

\* StartInstance's SELECT: no row is ErrNoRows, a running one is
\* CONTAINER_ALREADY_RUNNING; deploy sends both to the retry queue.
SelectRow(j) ==
  /\ pc[j] \in {"select", "reselect"}
  /\ \/ /\ row[User(j)] = "stopped"
        /\ Go(j, IF pc[j] = "select" THEN "update" ELSE "reupdate")
     \/ row[User(j)] # "stopped" /\ Nack(j)
  /\ UNCHANGED world

UpdateRow(j) ==
  /\ pc[j] \in {"update", "reupdate"}
  /\ \/ /\ row[User(j)] # "none"
        /\ row' = [row EXCEPT ![User(j)] = "running"]
        /\ Go(j, "ack")
     \/ /\ row[User(j)] = "none"
        /\ UNCHANGED row
        /\ IF pc[j] = "update" THEN Go(j, "recover") ELSE Nack(j)
  /\ UNCHANGED <<container, userip, tables, conf>>

-----------------------------------------------------------------------------
(* stop *)

FindStop(j) ==
  /\ pc[j] = "findStop"
  /\ Go(j, IF container[User(j)] = "none" THEN "dbStop" ELSE "stop")
  /\ UNCHANGED world

StopContainer(j) ==
  /\ pc[j] = "stop"
  /\ \/ /\ container[User(j)] = "running"
        /\ container' = [container EXCEPT ![User(j)] = "stopped"]
        /\ Go(j, "dbStop")
     \/ container[User(j)] # "running" /\ Nack(j) /\ UNCHANGED container
  /\ UNCHANGED <<userip, row, tables, conf>>

StopRow(j) ==
  /\ pc[j] = "dbStop"
  /\ \/ /\ row[User(j)] # "none"
        /\ row' = [row EXCEPT ![User(j)] = "stopped"]
        /\ Go(j, "ack")
     \/ row[User(j)] = "none" /\ Nack(j) /\ UNCHANGED row
  /\ UNCHANGED <<container, userip, tables, conf>>

-----------------------------------------------------------------------------
(* kill: lxd.DeleteInstance, then RemoveInstance of the table *)

FindKill(j) ==
  /\ pc[j] = "findKill"
  /\ Go(j, IF container[User(j)] = "none" THEN "dbRemove" ELSE "halt")
  /\ UNCHANGED world

\* A failure to stop the container is only logged.
Halt(j) ==
  /\ pc[j] = "halt"
  /\ container' = [container EXCEPT ![User(j)] = IF @ = "running" THEN "stopped" ELSE @]
  /\ Go(j, "dealloc")
  /\ UNCHANGED <<userip, row, tables, conf>>

\* The address is released before the container that uses it is deleted.
Deallocate(j) ==
  /\ pc[j] = "dealloc"
  /\ \/ User(j) \in userip /\ userip' = userip \ {User(j)} /\ Go(j, "delete")
     \/ User(j) \notin userip /\ Nack(j) /\ UNCHANGED userip
  /\ UNCHANGED <<container, row, tables, conf>>

\* LXD deletes stopped containers only.
DeleteContainer(j) ==
  /\ pc[j] = "delete"
  /\ \/ /\ container[User(j)] = "stopped"
        /\ container' = [container EXCEPT ![User(j)] = "none"]
        /\ Go(j, "undomain")
     \/ container[User(j)] # "stopped" /\ Nack(j) /\ UNCHANGED container
  /\ UNCHANGED <<userip, row, tables, conf>>

RemoveDomain(j) ==
  /\ pc[j] = "undomain"
  /\ DeleteRows(User(j), {User(j)})
  /\ Go(j, "unconf")
  /\ UNCHANGED <<container, userip, row, conf>>

\* Variant: the code domain's conf file is forgotten.
KeepConf(j) ==
  /\ pc[j] = "unconf"
  /\ Go(j, "dbRemove")
  /\ UNCHANGED world

RemoveConf(j) ==
  /\ pc[j] = "unconf"
  /\ conf' = [conf EXCEPT ![User(j)] = NoUser]
  /\ Go(j, "dbRemove")
  /\ UNCHANGED <<container, userip, row, tables>>

RemoveRow(j) ==
  /\ pc[j] = "dbRemove"
  /\ \/ /\ row[User(j)] # "none"
        /\ row' = [row EXCEPT ![User(j)] = "none"]
        /\ Go(j, "ack")
     \/ row[User(j)] = "none" /\ Nack(j) /\ UNCHANGED row
  /\ UNCHANGED <<container, userip, tables, conf>>

-----------------------------------------------------------------------------
(* The end of a successful job *)

Ack(j) ==
  /\ pc[j] = "ack"
  /\ Settle(j)
  /\ pc' = [pc EXCEPT ![j] = IF requests[j].action = "kill" THEN "cleanup" ELSE "result"]
  /\ UNCHANGED <<containerExists, exists, world>>

\* GetUserDomains lists the user's rows with is_code = FALSE.
UserDomains(u) == {d \in Domain \ code : domains[d] = u}

Cleanup(j) ==
  /\ pc[j] = "cleanup"
  /\ conf' = [d \in Domain |-> IF d \in UserDomains(User(j)) THEN NoUser ELSE conf[d]]
  /\ Go(j, "deleteDomains")
  /\ UNCHANGED <<container, userip, row, tables>>

DeleteDomains(j) ==
  /\ pc[j] = "deleteDomains"
  /\ DeleteRows(User(j), Domain)
  /\ Go(j, "result")
  /\ UNCHANGED <<container, userip, row, conf>>

PutResult(j) ==
  /\ pc[j] = "result"
  /\ result' = [result EXCEPT ![j] = "ok"]
  /\ Go(j, "forget")
  /\ UNCHANGED <<requests, connected, retries, world, told, budget>>

\* Variant: the retry counter is not reset.
ForgetNothing(j) ==
  /\ pc[j] = "forget" /\ MutexFree
  /\ End(j)
  /\ UNCHANGED <<requests, broker, retries, world, answers, budget>>

Forget(j) ==
  /\ pc[j] = "forget" /\ MutexFree
  /\ retries' = [retries EXCEPT ![j] = 0]
  /\ End(j)
  /\ UNCHANGED <<requests, broker, world, answers, budget>>

-----------------------------------------------------------------------------
(* Failing calls and incidents *)

\* Before the Ack an error sends the message to the retry queue and leaves what
\* was done so far; after it an error is logged and the next step follows.
CallFails(j) ==
  /\ pc[j] \in FaultySteps /\ faults < MaxFaults /\ Room
  /\ faults' = faults + 1
  /\ \/ /\ pc[j] \in BeforeAck \ {"halt"}
        /\ Nack(j)
        /\ UNCHANGED <<requests, connected, retries, world, answers>>
     \/ /\ pc[j] \in {"halt", "deleteDomains", "result"}
        /\ Go(j, CASE pc[j] = "halt" -> "dealloc"
                   [] pc[j] = "deleteDomains" -> "result"
                   [] pc[j] = "result" -> "forget")
        /\ UNCHANGED <<requests, connected, retries, world, answers>>
     \/ GiveUpResult(j, FALSE)
  /\ UNCHANGED <<pages, incidents>>

\* Unacknowledged deliveries go back to the queue; the rest of a message's
\* journey is the broker's and survives.
Requeue == [j \in Jobs |-> IF message[j] = "unacked" THEN "ready" ELSE message[j]]

Incident(kind) ==
  /\ kind \in Incidents
  /\ Incidental < MaxIncidents /\ Room
  /\ incidents' = [incidents EXCEPT ![kind] = @ + 1]
  /\ UNCHANGED <<requests, world, answers, pages, faults>>

\* The process dies (a panic in a goroutine, log.Fatalf of ReloadNginxConf, a
\* redeployment) and is started again with an empty retry map.
Crash ==
  /\ Incident("crash")
  /\ message' = Requeue
  /\ connected' = TRUE
  /\ retries' = [j \in Jobs |-> 0]
  /\ pc' = [j \in Jobs |-> "idle"]
  /\ containerExists' = {}
  /\ exists' = {}

\* The AMQP connection closes; the consumer's channel is closed with it and the
\* consumer loop ends, but the process and its goroutines live on.
ConnectionLost ==
  /\ Incident("drop")
  /\ connected
  /\ connected' = FALSE
  /\ message' = Requeue
  /\ UNCHANGED <<retries, locals>>

\* A broker restart loses the messages, which are published as transient.
BrokerRestart ==
  /\ Incident("broker")
  /\ connected
  /\ connected' = FALSE
  /\ message' = [j \in Jobs |-> IF message[j] = "none" THEN "none" ELSE "gone"]
  /\ UNCHANGED <<retries, locals>>

-----------------------------------------------------------------------------
DeployStep(j) ==
  \/ Find(j) \/ Allocate(j) \/ ConflictsExhausted(j) \/ CreateContainer(j)
  \/ QueryRow(j) \/ Inspect(j) \/ StartContainer(j)
  \/ Provision(j) \/ AddDomain(j) \/ AddNewConf(j)
  \/ InsertRow(j) \/ SelectRow(j) \/ UpdateRow(j)

StopStep(j) == FindStop(j) \/ StopContainer(j) \/ StopRow(j)

KillStep(j) ==
  \/ FindKill(j) \/ Halt(j) \/ Deallocate(j) \/ DeleteContainer(j)
  \/ RemoveDomain(j) \/ RemoveConf(j) \/ RemoveRow(j)
  \/ Cleanup(j) \/ DeleteDomains(j)

\* A call that is made and succeeds.
Work(j) ==
  \/ /\ DeployStep(j) \/ StopStep(j) \/ KillStep(j) \/ Ack(j)
     /\ UNCHANGED <<requests, connected, retries, answers, budget>>
  \/ PutResult(j) \/ Forget(j)
  \/ GiveUp(j)
  \/ GiveUpResult(j, TRUE) /\ UNCHANGED budget

Next ==
  \/ \E u \in Users :
       \/ \E a \in Actions : Publish(u, a)
       \/ \E d \in Domain : AddUserDomain(u, d) \/ RemoveUserDomain(u, d)
  \/ \E j \in Jobs : Deliver(j) \/ Work(j) \/ CallFails(j) \/ Expire(j) \/ Poll(j)
  \/ Crash \/ ConnectionLost \/ BrokerRestart

Spec == Init /\ [][Next]_vars

(***************************************************************************)
(* Goroutines keep running and their calls return; an open connection      *)
(* delivers ready messages and the broker expires retries; the page polls. *)
(* Nothing makes a user ask, a call fail or a process die - or restart.    *)
(***************************************************************************)
Fairness ==
  \A j \in Jobs : WF_vars(Work(j)) /\ WF_vars(Deliver(j)) /\ WF_vars(Expire(j)) /\ WF_vars(Poll(j))

FairSpec == Spec /\ Fairness

-----------------------------------------------------------------------------
(* Properties *)

TypeOK ==
  /\ requests \in Seq([user : Users, action : Actions]) /\ Len(requests) <= MaxJobs
  /\ message \in [Jobs -> {"none", "ready", "unacked", "retry", "gone"}]
  /\ connected \in BOOLEAN
  /\ retries \in [Jobs -> 0..MaxAttempts]
  /\ pc \in [Jobs -> BeforeAck \cup AfterAck \cup {"idle"}]
  /\ containerExists \subseteq Jobs /\ exists \subseteq Jobs
  /\ container \in [Users -> {"none", "stopped", "running"}]
  /\ userip \subseteq Users
  /\ row \in [Users -> {"none", "stopped", "running"}]
  /\ domains \in [Domain -> Users \cup {NoUser}] /\ code \subseteq Users
  /\ conf \in [Domain -> Users \cup {NoUser}]
  /\ result \in [Jobs -> {"none", "ok", "fail"}]
  /\ told \in [Jobs -> {"none", "ok", "fail"}]
  /\ pages \in 0..MaxPages /\ faults \in 0..MaxFaults /\ incidents \in [Kinds -> 0..MaxIncidents]

\* Every delivery has exactly one goroutine working for its Ack or Nack: a
\* branch that returned without either would hold one of the three prefetch
\* slots until the next restart, a second Ack would close the channel.
DeliveryHasWorker ==
  connected => Unacked = {j \in Jobs : pc[j] \in BeforeAck}

\* The in-memory retry map forgets every job that is over: an entry belongs to
\* a job whose message is still in the broker or whose goroutine still runs,
\* unless the broker lost the message.
NoRetryLeak ==
  incidents["broker"] = 0 =>
    \A j \in Jobs : retries[j] # 0 => message[j] \in {"ready", "unacked", "retry"} \/ pc[j] # "idle"

\* Nothing is going on for user u.
AtRest(u) == \A j \in Asked : User(j) = u => pc[j] = "idle" /\ told[j] # "none"

\* The domains of user u that have a row are those that have a file.
FilesMatch(u) == \A d \in Domain : domains[d] = u <=> conf[d] = u

\* The five stores agree about user u's instance - container, instance row, address row,
\* code domain, nginx confs - and every domain of his has its file.
StoresAgree(u) ==
  /\ row[u] = container[u]
  /\ u \in userip <=> container[u] # "none"
  /\ u \in code <=> container[u] # "none"
  /\ FilesMatch(u)

\* "There should be a row at this point. If not, fix it": when a user's requests
\* have been answered, a running container has its instance row.
RunningContainerHasRow ==
  \A u \in Users : AtRest(u) /\ container[u] = "running" => row[u] # "none"
=============================================================================
