------------------------ MODULE InstanceJobs_proofs ------------------------
(***************************************************************************)
(* Theorems about InstanceJobs for every number of users, requests,        *)
(* failing calls, incidents, prefetched deliveries and attempts.           *)
(***************************************************************************)
EXTENDS MCInstanceJobs, TLAPS

\* Only requests that have been made have a message or a goroutine.
AskedOK ==
  \A j \in Jobs :
    /\ message[j] = "none" <=> j \notin Asked
    /\ pc[j] # "idle" => j \in Asked

TypeInv == TypeOK /\ AskedOK

\* The five stores by themselves.
WorldOK ==
  /\ container \in [Users -> {"none", "stopped", "running"}]
  /\ userip \subseteq Users
  /\ row \in [Users -> {"none", "stopped", "running"}]
  /\ domains \in [Domain -> Users \cup {NoUser}] /\ code \subseteq Users
  /\ conf \in [Domain -> Users \cup {NoUser}]

-----------------------------------------------------------------------------
(* What a goroutine's step does to its message, its answer and its place in *)
(* the code, whatever it does to the world.                                 *)

Quiet == UNCHANGED <<requests, connected, told, incidents>>

Working == BeforeAck \ {"ack", "giveup"}

\* It goes on towards the Ack ...
Advances(j) ==
  /\ pc[j] \in Working
  /\ \E step \in BeforeAck \ {"giveup"} : pc' = [pc EXCEPT ![j] = step]
  /\ UNCHANGED <<message, retries, result>> /\ Quiet

\* ... or sends the message to the retry queue;
Retries(j) ==
  /\ pc[j] \in Working
  /\ message' = [message EXCEPT ![j] = IF connected THEN "retry" ELSE @]
  /\ pc' = [pc EXCEPT ![j] = "idle"]
  /\ UNCHANGED <<retries, result>> /\ Quiet

\* it acknowledges the message,
Settles(j) ==
  /\ pc[j] \in {"ack", "giveup"}
  /\ Settle(j)
  /\ \E step \in {"cleanup", "result", "giveupResult"} : pc' = [pc EXCEPT ![j] = step]
  /\ UNCHANGED <<retries, result>> /\ Quiet

\* cleans up,
Cleans(j) ==
  /\ pc[j] \in {"cleanup", "deleteDomains"}
  /\ \E step \in {"deleteDomains", "result"} : pc' = [pc EXCEPT ![j] = step]
  /\ UNCHANGED <<message, retries, result>> /\ Quiet

\* answers, unless the answer is lost,
Answers(j) ==
  /\ pc[j] = "result"
  /\ pc' = [pc EXCEPT ![j] = "forget"]
  /\ result' = result \/ result' = [result EXCEPT ![j] = "ok"]
  /\ UNCHANGED <<message, retries>> /\ Quiet

\* and ends, with an answer if it has given up.
Ends(j) ==
  /\ pc[j] \in {"forget", "giveupResult"}
  /\ pc' = [pc EXCEPT ![j] = "idle"]
  /\ retries' = [retries EXCEPT ![j] = 0]
  /\ result' = result \/ (pc[j] = "giveupResult" /\ result' = [result EXCEPT ![j] = "fail"])
  /\ UNCHANGED message /\ Quiet

Proceeds(j) == Advances(j) \/ Retries(j) \/ Settles(j) \/ Cleans(j) \/ Answers(j) \/ Ends(j)

\* A deploy step goes on or retries.
LEMMA DeployProceeds ==
  ASSUME NEW j \in Jobs, DeployStep(j), UNCHANGED <<requests, connected, retries, answers, budget>>
  PROVE  Advances(j) \/ Retries(j)
BY DEF DeployStep, Find, Allocate, ConflictsExhausted, CreateContainer, QueryRow, Inspect, StartContainer, Provision,
       AddDomain, AddNewConf, InsertRow, SelectRow, UpdateRow, RecordStep, Go, Nack, End,
       Advances, Retries, Quiet, Working, BeforeAck, DeploySteps, answers, budget

\* So do a step of stop and a step of kill, up to the cleanup.
LEMMA StopProceeds ==
  ASSUME NEW j \in Jobs, StopStep(j), UNCHANGED <<requests, connected, retries, answers, budget>>
  PROVE  Advances(j) \/ Retries(j)
BY DEF StopStep, FindStop, StopContainer, StopRow, Go, Nack, End,
       Advances, Retries, Quiet, Working, BeforeAck, StopSteps, answers, budget

\* A kill goes on, retries, or cleans up after its Ack.
LEMMA KillProceeds ==
  ASSUME NEW j \in Jobs, KillStep(j), UNCHANGED <<requests, connected, retries, answers, budget>>
  PROVE  Advances(j) \/ Retries(j) \/ Cleans(j)
BY DEF KillStep, FindKill, Halt, Deallocate, DeleteContainer, RemoveDomain, RemoveConf, RemoveRow,
       Cleanup, DeleteDomains, Go, Nack, End,
       Advances, Retries, Cleans, Quiet, Working, BeforeAck, KillSteps, answers, budget

\* So every call that succeeds is one of the six kinds of steps.
LEMMA WorkProceeds ==
  ASSUME NEW j \in Jobs, Work(j)
  PROVE  Proceeds(j)
<1>1. CASE (DeployStep(j) \/ StopStep(j) \/ KillStep(j) \/ Ack(j))
           /\ UNCHANGED <<requests, connected, retries, answers, budget>>
  <2>1. CASE Ack(j)
    BY <1>1, <2>1 DEF Ack, Settles, Proceeds, Quiet, answers, budget
  <2>2. QED
    BY <1>1, <2>1, DeployProceeds, StopProceeds, KillProceeds DEF Proceeds
<1>2. CASE PutResult(j)
  BY <1>2 DEF PutResult, Go, Answers, Proceeds, Quiet, budget
<1>3. CASE Forget(j)
  BY <1>3 DEF Forget, End, Ends, Proceeds, Quiet, answers, budget, broker
<1>4. CASE GiveUp(j)
  BY <1>4 DEF GiveUp, Settles, Proceeds, Quiet, answers, budget
<1>5. CASE GiveUpResult(j, TRUE) /\ UNCHANGED budget
  BY <1>5 DEF GiveUpResult, End, Ends, Proceeds, Quiet, budget, broker
<1>6. QED
  BY <1>1, <1>2, <1>3, <1>4, <1>5 DEF Work

\* A failing call sends the message to the retry queue or is passed over.
LEMMA FailureProceeds ==
  ASSUME NEW j \in Jobs, CallFails(j)
  PROVE  Proceeds(j)
<1>1. pc[j] \notin {"ack", "giveup"}
  BY InstanceJobsAssumption DEF CallFails, AfterAck
<1>2. CASE pc[j] \in BeforeAck \ {"halt"} /\ Nack(j)
           /\ UNCHANGED <<requests, connected, retries, world, answers>>
  BY <1>1, <1>2 DEF CallFails, Nack, End, Retries, Working, Proceeds, Quiet, answers
<1>3. CASE pc[j] = "halt" /\ Go(j, "dealloc")
           /\ UNCHANGED <<requests, connected, retries, world, answers>>
  BY <1>3 DEF CallFails, Go, Advances, Working, BeforeAck, KillSteps, Proceeds, Quiet, answers
<1>4. CASE pc[j] = "deleteDomains" /\ Go(j, "result")
           /\ UNCHANGED <<requests, connected, retries, world, answers>>
  BY <1>4 DEF CallFails, Go, Cleans, Proceeds, Quiet, answers
<1>5. CASE pc[j] = "result" /\ Go(j, "forget")
           /\ UNCHANGED <<requests, connected, retries, world, answers>>
  BY <1>5 DEF CallFails, Go, Answers, Proceeds, Quiet, answers
<1>6. CASE GiveUpResult(j, FALSE)
  BY <1>6 DEF CallFails, GiveUpResult, End, Ends, Proceeds, Quiet, broker
<1>7. QED
  BY <1>2, <1>3, <1>4, <1>5, <1>6 DEF CallFails

-----------------------------------------------------------------------------
(* Types *)

\* The part of TypeOK that a goroutine's step changes as Proceeds says.
ControlOK ==
  /\ requests \in Seq([user : Users, action : Actions]) /\ Len(requests) <= MaxJobs
  /\ message \in [Jobs -> {"none", "ready", "unacked", "retry", "gone"}]
  /\ connected \in BOOLEAN
  /\ retries \in [Jobs -> 0..MaxAttempts]
  /\ pc \in [Jobs -> BeforeAck \cup AfterAck \cup {"idle"}]
  /\ result \in [Jobs -> {"none", "ok", "fail"}]
  /\ told \in [Jobs -> {"none", "ok", "fail"}]
  /\ incidents \in [Kinds -> 0..MaxIncidents]

RestOK == containerExists \subseteq Jobs /\ exists \subseteq Jobs /\ pages \in 0..MaxPages /\ faults \in 0..MaxFaults

\* The type invariant in three parts: control, stores, and the rest.
LEMMA TypeParts == TypeOK <=> ControlOK /\ WorldOK /\ RestOK
BY DEF TypeOK, ControlOK, WorldOK, RestOK

\* A member of a sequence is a member of the set it is a sequence of.
LEMMA SeqMember ==
  ASSUME NEW S, NEW s \in Seq(S), NEW i \in DOMAIN s
  PROVE  s[i] \in S
OBVIOUS

\* A goroutine works for a request that has been made, by a known user.
LEMMA UserType ==
  ASSUME TypeInv, NEW j \in Jobs, j \in Asked
  PROVE  User(j) \in Users /\ requests[j].action \in Actions
<1>1. requests[j] \in [user : Users, action : Actions]
  BY SeqMember DEF TypeInv, TypeOK, Asked
<1>2. QED
  BY <1>1 DEF User

\* Whatever kind of step it takes, a goroutine keeps the types of control.
LEMMA ProceedTypes ==
  ASSUME TypeInv, NEW j \in Jobs, Proceeds(j)
  PROVE  ControlOK' /\ AskedOK'
<1> USE InstanceJobsAssumption DEF TypeInv, TypeOK, ControlOK, AskedOK, Quiet
<1>1. j \in Asked /\ message[j] # "none"
  BY DEF Proceeds, Advances, Retries, Settles, Cleans, Answers, Ends, Working, BeforeAck, DeploySteps,
         StopSteps, KillSteps
<1>2. CASE Advances(j)
  BY <1>1, <1>2 DEF Advances, Asked
<1>3. CASE Retries(j)
  BY <1>1, <1>3 DEF Retries, Asked
<1>4. CASE Settles(j)
  BY <1>1, <1>4 DEF Settles, Settle, Asked, AfterAck
<1>5. CASE Cleans(j)
  BY <1>1, <1>5 DEF Cleans, Asked, AfterAck
<1>6. CASE Answers(j)
  BY <1>1, <1>6 DEF Answers, Asked, AfterAck
<1>7. CASE Ends(j)
  BY <1>1, <1>7 DEF Ends, Asked
<1>8. QED
  BY <1>2, <1>3, <1>4, <1>5, <1>6, <1>7 DEF Proceeds

\* A call that succeeds keeps the types of everything.
LEMMA WorkTypes ==
  ASSUME TypeInv, NEW j \in Jobs, Work(j)
  PROVE  TypeOK'
<1>1. ControlOK' /\ pc[j] # "idle"
  BY ProceedTypes, WorkProceeds
  DEF Proceeds, Advances, Retries, Settles, Cleans, Answers, Ends, Working, BeforeAck, DeploySteps,
      StopSteps, KillSteps
<1>2. User(j) \in Users
  BY <1>1, UserType DEF TypeInv, AskedOK
<1>3. WorldOK /\ RestOK
  BY TypeParts DEF TypeInv
<1>4. WorldOK'
  <2> USE <1>2, <1>3 DEF WorldOK, world, tables, Domain, DeleteRows
  <2>1. ASSUME Find(j) PROVE WorldOK'
    BY <2>1 DEF Find
  <2>2. ASSUME Allocate(j) PROVE WorldOK'
    BY <2>2 DEF Allocate
  <2>3. ASSUME CreateContainer(j) PROVE WorldOK'
    BY <2>3 DEF CreateContainer
  <2>4. ASSUME QueryRow(j) PROVE WorldOK'
    BY <2>4 DEF QueryRow
  <2>5. ASSUME Inspect(j) PROVE WorldOK'
    BY <2>5 DEF Inspect
  <2>6. ASSUME StartContainer(j) PROVE WorldOK'
    BY <2>6 DEF StartContainer
  <2>7. ASSUME Provision(j) PROVE WorldOK'
    BY <2>7 DEF Provision
  <2>8. ASSUME AddDomain(j) PROVE WorldOK'
    BY <2>8 DEF AddDomain
  <2>9. ASSUME AddNewConf(j) PROVE WorldOK'
    BY <2>9 DEF AddNewConf
  <2>10. ASSUME InsertRow(j) PROVE WorldOK'
    BY <2>10 DEF InsertRow
  <2>11. ASSUME SelectRow(j) PROVE WorldOK'
    BY <2>11 DEF SelectRow
  <2>12. ASSUME UpdateRow(j) PROVE WorldOK'
    BY <2>12 DEF UpdateRow
  <2>13. ASSUME FindStop(j) PROVE WorldOK'
    BY <2>13 DEF FindStop
  <2>14. ASSUME StopContainer(j) PROVE WorldOK'
    BY <2>14 DEF StopContainer
  <2>15. ASSUME StopRow(j) PROVE WorldOK'
    BY <2>15 DEF StopRow
  <2>16. ASSUME FindKill(j) PROVE WorldOK'
    BY <2>16 DEF FindKill
  <2>17. ASSUME Halt(j) PROVE WorldOK'
    BY <2>17 DEF Halt
  <2>18. ASSUME Deallocate(j) PROVE WorldOK'
    BY <2>18 DEF Deallocate
  <2>19. ASSUME DeleteContainer(j) PROVE WorldOK'
    BY <2>19 DEF DeleteContainer
  <2>20. ASSUME RemoveDomain(j) PROVE WorldOK'
    BY <2>20 DEF RemoveDomain
  <2>21. ASSUME RemoveConf(j) PROVE WorldOK'
    BY <2>21 DEF RemoveConf
  <2>22. ASSUME RemoveRow(j) PROVE WorldOK'
    BY <2>22 DEF RemoveRow
  <2>23. ASSUME Cleanup(j) PROVE WorldOK'
    BY <2>23 DEF Cleanup
  <2>24. ASSUME DeleteDomains(j) PROVE WorldOK'
    BY <2>24 DEF DeleteDomains
  <2>27. ASSUME ConflictsExhausted(j) PROVE WorldOK'
    BY <2>27 DEF ConflictsExhausted
  <2>25. ASSUME UNCHANGED world PROVE WorldOK'
    BY <2>25
  <2>26. QED
    BY <2>1, <2>2, <2>3, <2>4, <2>5, <2>6, <2>7, <2>8, <2>9, <2>10, <2>11, <2>12, <2>13, <2>14, <2>15, <2>16, <2>17, <2>18, <2>19, <2>20, <2>21, <2>22, <2>23, <2>24, <2>25, <2>27
    DEF Work, DeployStep, StopStep, KillStep, Ack, PutResult, Forget, GiveUp, GiveUpResult
<1>5. RestOK'
  <2>1. UNCHANGED budget
    BY DEF Work, PutResult, Forget, GiveUp
  <2>2. ASSUME containerExists' \subseteq Jobs, exists' \subseteq Jobs PROVE RestOK'
    BY <1>3, <2>1, <2>2 DEF RestOK, budget
  <2>3. ASSUME UNCHANGED <<containerExists, exists>> PROVE RestOK'
    BY <1>3, <2>2, <2>3 DEF RestOK
  <2>4. ASSUME NEW step, Go(j, step) PROVE RestOK'
    BY <2>3, <2>4 DEF Go
  <2>5. ASSUME End(j) \/ Nack(j) PROVE RestOK'
    BY <1>3, <2>2, <2>5 DEF End, Nack, RestOK
  <2>6. CASE DeployStep(j)
    BY <1>3, <2>2, <2>4, <2>5, <2>6
    DEF DeployStep, Find, Allocate, ConflictsExhausted, CreateContainer, QueryRow, Inspect, StartContainer, Provision,
        AddDomain, AddNewConf, InsertRow, SelectRow, UpdateRow, RestOK
  <2>7. CASE StopStep(j) \/ KillStep(j)
    BY <2>4, <2>5, <2>7
    DEF StopStep, FindStop, StopContainer, StopRow, KillStep, FindKill, Halt, Deallocate,
        DeleteContainer, RemoveDomain, RemoveConf, RemoveRow, Cleanup, DeleteDomains
  <2>8. CASE Ack(j) \/ PutResult(j) \/ Forget(j) \/ GiveUp(j) \/ GiveUpResult(j, TRUE)
    BY <2>3, <2>4, <2>5, <2>8 DEF Ack, PutResult, Forget, GiveUp, GiveUpResult
  <2>9. QED
    BY <2>6, <2>7, <2>8 DEF Work
<1>6. QED
  BY <1>1, <1>4, <1>5 DEF TypeOK, ControlOK, WorldOK, RestOK

\* So does one that fails.
LEMMA FailureTypes ==
  ASSUME TypeInv, NEW j \in Jobs, CallFails(j)
  PROVE  TypeOK'
<1>1. ControlOK'
  BY ProceedTypes, FailureProceeds
<1>2. WorldOK /\ RestOK
  BY TypeParts DEF TypeInv
<1>3. WorldOK' /\ RestOK'
  BY <1>2, InstanceJobsAssumption
  DEF CallFails, Nack, Go, GiveUpResult, End, world, tables, WorldOK, RestOK
<1>4. QED
  BY <1>1, <1>3 DEF TypeOK, ControlOK, WorldOK, RestOK

\* Rows, messages, counters and answers keep their types; the consumer counts
\* no job past MaxAttempts.
THEOREM TypingInv == Spec => []TypeInv
<1>1. Init => TypeInv
  BY InstanceJobsAssumption DEF Init, TypeInv, TypeOK, AskedOK, Asked, Jobs, Kinds, Domain
<1>2. TypeInv /\ [Next]_vars => TypeInv'
  <2> SUFFICES ASSUME TypeInv, [Next]_vars PROVE TypeInv'
    OBVIOUS
  <2> USE InstanceJobsAssumption
  <2>1. ASSUME NEW j \in Jobs, Work(j) PROVE TypeInv'
    BY <2>1, WorkTypes, WorkProceeds, ProceedTypes DEF TypeInv
  <2>2. ASSUME NEW j \in Jobs, CallFails(j) PROVE TypeInv'
    BY <2>2, FailureTypes, FailureProceeds, ProceedTypes DEF TypeInv
  <2>3. ASSUME NEW u \in Users, NEW a \in Actions, Publish(u, a) PROVE TypeInv'
    <3> DEFINE j == Len(requests) + 1
               job == [user |-> u, action |-> a]
    <3>1. /\ requests' = Append(requests, job) /\ j \in Jobs
          /\ message' = [message EXCEPT ![j] = "ready"]
          /\ UNCHANGED <<connected, retries, locals, world, answers, budget>>
      BY <2>3 DEF Publish
    <3>2. requests \in Seq([user : Users, action : Actions]) /\ job \in [user : Users, action : Actions]
      BY DEF TypeInv, TypeOK
    <3>3. /\ requests' \in Seq([user : Users, action : Actions])
          /\ Len(requests') = j /\ Asked' = Asked \cup {j}
      BY <3>1, <3>2 DEF Asked
    <3>4. Len(requests') <= MaxJobs
      BY <3>1, <3>3 DEF Jobs
    <3> HIDE DEF j, job
    <3>5. QED
      BY <3>1, <3>3, <3>4 DEF TypeInv, TypeOK, AskedOK, locals, world, tables, answers, budget
  <2>4. ASSUME NEW u \in Users, NEW d \in Domain, AddUserDomain(u, d) \/ RemoveUserDomain(u, d)
        PROVE  TypeInv'
    <3>1. Page(u)
      BY <2>4 DEF AddUserDomain, RemoveUserDomain
    <3>2. WorldOK /\ RestOK /\ ControlOK
      BY TypeParts DEF TypeInv
    <3>3. WorldOK'
      BY <2>4, <3>1, <3>2 DEF AddUserDomain, RemoveUserDomain, DeleteRows, Page, WorldOK
    <3>4. RestOK'
      BY <3>1, <3>2 DEF Page, RestOK, locals
    <3>5. ControlOK' /\ AskedOK'
      BY <3>1, <3>2 DEF Page, TypeInv, ControlOK, AskedOK, Asked, broker, locals, answers
    <3>6. QED
      BY <3>3, <3>4, <3>5 DEF TypeInv, TypeOK, ControlOK, WorldOK, RestOK
  <2>5. ASSUME NEW j \in Jobs, Deliver(j) PROVE TypeInv'
    <3>1. j \in Asked /\ message[j] = "ready"
      BY <2>5 DEF Deliver, TypeInv, AskedOK
    <3>2. FirstStep(requests[j].action) \in BeforeAck
      BY <3>1, UserType DEF FirstStep, BeforeAck, DeploySteps, StopSteps, KillSteps
    <3>3. "giveup" \in BeforeAck
      BY DEF BeforeAck
    <3>4. ~OutOfAttempts(j) => retries[j] + 1 \in 0..MaxAttempts
      BY DEF OutOfAttempts, TypeInv, TypeOK
    <3>5. \E step \in BeforeAck, n \in 0..MaxAttempts :
            /\ pc' = [pc EXCEPT ![j] = step] /\ retries' = [retries EXCEPT ![j] = n]
            /\ message' = [message EXCEPT ![j] = "unacked"]
            /\ UNCHANGED <<requests, connected, containerExists, exists, world, answers, budget>>
      <4>1. CASE OutOfAttempts(j)
        <5>1. retries[j] \in 0..MaxAttempts /\ retries = [retries EXCEPT ![j] = retries[j]]
          BY DEF TypeInv, TypeOK
        <5>2. QED
          BY <2>5, <3>3, <4>1, <5>1 DEF Deliver
      <4>2. CASE ~OutOfAttempts(j)
        BY <2>5, <3>2, <3>4, <4>2 DEF Deliver
      <4>3. QED
        BY <4>1, <4>2
    <3>6. QED
      BY <3>1, <3>5 DEF TypeInv, TypeOK, AskedOK, Asked, world, tables, answers, budget
  <2>6. ASSUME NEW j \in Jobs, Expire(j) PROVE TypeInv'
    BY <2>6 DEF Expire, TypeInv, TypeOK, AskedOK, Asked, locals, world, tables, answers, budget
  <2>7. ASSUME NEW j \in Jobs, Poll(j) PROVE TypeInv'
    BY <2>7 DEF Poll, TypeInv, TypeOK, AskedOK, Asked, broker, locals, world, tables, budget
  <2>8. ASSUME NEW kind, Incident(kind) PROVE incidents' \in [Kinds -> 0..MaxIncidents]
    BY <2>8 DEF Incident, Incidental, TypeInv, TypeOK, Kinds
  <2>9. CASE Crash
    <3>1. /\ message' = Requeue /\ connected' /\ retries' = [j \in Jobs |-> 0]
          /\ pc' = [j \in Jobs |-> "idle"] /\ containerExists' = {} /\ exists' = {}
          /\ incidents' \in [Kinds -> 0..MaxIncidents]
          /\ UNCHANGED <<requests, world, answers, pages, faults>>
      BY <2>8, <2>9 DEF Crash, Incident
    <3>2. QED
      BY <3>1 DEF Requeue, TypeInv, TypeOK, AskedOK, Asked, world, tables, answers
  <2>10. CASE ConnectionLost
    BY <2>8, <2>10
    DEF ConnectionLost, Incident, Requeue, TypeInv, TypeOK, AskedOK, Asked, locals, world, tables, answers
  <2>11. CASE BrokerRestart
    BY <2>8, <2>11
    DEF BrokerRestart, Incident, TypeInv, TypeOK, AskedOK, Asked, locals, world, tables, answers
  <2>12. CASE UNCHANGED vars
    BY <2>12
    DEF vars, broker, locals, world, tables, answers, budget, TypeInv, TypeOK, AskedOK, Asked
  <2>13. QED
    BY <2>1, <2>2, <2>3, <2>4, <2>5, <2>6, <2>7, <2>9, <2>10, <2>11, <2>12 DEF Next
<1>3. QED
  BY <1>1, <1>2, PTL DEF Spec

\* The type invariant by itself, as a run checks it.
THEOREM Typing == Spec => []TypeOK
<1>1. TypeInv => TypeOK
  BY DEF TypeInv
<1>2. QED
  BY <1>1, TypingInv, PTL

-----------------------------------------------------------------------------
(* Messages, goroutines, counters and answers *)

\* A goroutine that works for an Ack or Nack holds the delivery; after a lost
\* connection its message may be ready again, for nobody to take.
HeldInv ==
  /\ DeliveryHasWorker
  /\ incidents["broker"] = 0 =>
       \A j \in Jobs : pc[j] \in BeforeAck => message[j] \in {"ready", "unacked"}

ControlInv == HeldInv /\ NoRetryLeak

\* The steps after the Ack are none of those before it.
LEMMA Disjoint == BeforeAck \cap AfterAck = {} /\ "idle" \notin BeforeAck \cup AfterAck
BY DEF BeforeAck, AfterAck, DeploySteps, StopSteps, KillSteps

\* A goroutine on its way to the Ack stays on this side of it.
LEMMA PlaceKept ==
  ASSUME TypeOK, NEW j \in Jobs, NEW step \in BeforeAck,
         pc[j] \in BeforeAck, pc' = [pc EXCEPT ![j] = step]
  PROVE  \A i \in Jobs : /\ pc'[i] \in BeforeAck <=> pc[i] \in BeforeAck
                         /\ pc'[i] \in AfterAck <=> pc[i] \in AfterAck
                         /\ pc'[i] = "idle" <=> pc[i] = "idle"
<1> SUFFICES ASSUME NEW i \in Jobs
             PROVE  /\ pc'[i] \in BeforeAck <=> pc[i] \in BeforeAck
                    /\ pc'[i] \in AfterAck <=> pc[i] \in AfterAck
                    /\ pc'[i] = "idle" <=> pc[i] = "idle"
  OBVIOUS
<1>1. CASE i = j
  <2>1. pc'[i] = step /\ pc[i] \in BeforeAck
    BY <1>1 DEF TypeOK
  <2>2. QED
    BY <2>1, Disjoint
<1>2. CASE i # j
  <2>1. pc'[i] = pc[i]
    BY <1>2 DEF TypeOK
  <2>2. QED
    BY <2>1
<1>3. QED
  BY <1>1, <1>2

\* What a goroutine does keeps all of it, whatever it does to the world.
LEMMA ProceedControl ==
  ASSUME TypeInv, ControlInv, NEW j \in Jobs, Proceeds(j)
  PROVE  ControlInv'
<1>1. CASE Advances(j)
  <2>1. PICK step \in BeforeAck : pc' = [pc EXCEPT ![j] = step]
    BY <1>1 DEF Advances
  <2>2. pc[j] \in BeforeAck /\ UNCHANGED <<message, connected, retries, result, told, incidents>>
    BY <1>1 DEF Advances, Working, Quiet
  <2>3. \A i \in Jobs : /\ pc'[i] \in BeforeAck <=> pc[i] \in BeforeAck
                        /\ pc'[i] \in AfterAck <=> pc[i] \in AfterAck
                        /\ pc'[i] = "idle" <=> pc[i] = "idle"
    BY <2>1, <2>2, PlaceKept DEF TypeInv
  <2>4. {i \in Jobs : pc'[i] \in BeforeAck} = {i \in Jobs : pc[i] \in BeforeAck}
    BY <2>3
  <2>5. HeldInv'
    BY <2>2, <2>3, <2>4 DEF ControlInv, HeldInv, DeliveryHasWorker, Unacked
  <2>6. NoRetryLeak'
    BY <2>2, <2>3 DEF ControlInv, NoRetryLeak
  <2>7. QED
    BY <2>5, <2>6 DEF ControlInv
<1> USE Disjoint
    DEF TypeInv, TypeOK, AskedOK, Quiet, ControlInv, HeldInv, DeliveryHasWorker, Unacked, NoRetryLeak
<1>2. CASE Retries(j)
  BY <1>2 DEF Retries, Working
<1>3. CASE Settles(j)
  BY <1>3 DEF Settles, Settle, BeforeAck, AfterAck
<1>4. CASE Cleans(j)
  BY <1>4 DEF Cleans, AfterAck
<1>5. CASE Answers(j)
  BY <1>5 DEF Answers, AfterAck
<1>6. CASE Ends(j)
  BY <1>6 DEF Ends, AfterAck
<1>7. QED
  BY <1>1, <1>2, <1>3, <1>4, <1>5, <1>6 DEF Proceeds

\* Messages, goroutines and counters fit together at every moment.
LEMMA ControlInvHolds == Spec => []ControlInv
<1>1. Init => ControlInv
  BY Disjoint
  DEF Init, ControlInv, HeldInv, DeliveryHasWorker, Unacked, NoRetryLeak
<1>2. TypeInv /\ ControlInv /\ [Next]_vars => ControlInv'
  <2> SUFFICES ASSUME TypeInv, ControlInv, [Next]_vars PROVE ControlInv'
    OBVIOUS
  <2>1. ASSUME NEW j \in Jobs, Work(j) \/ CallFails(j) PROVE ControlInv'
    BY <2>1, WorkProceeds, FailureProceeds, ProceedControl
  <2> USE Disjoint
      DEF TypeInv, TypeOK, AskedOK, ControlInv, HeldInv, DeliveryHasWorker, Unacked, NoRetryLeak,
          broker, locals, answers, budget
  <2>2. ASSUME NEW u \in Users, NEW a \in Actions, Publish(u, a) PROVE ControlInv'
    <3>1. Len(requests) + 1 \in Jobs /\ Len(requests) + 1 \notin Asked
      BY <2>2 DEF Publish, Asked
    <3>2. QED
      BY <2>2, <3>1 DEF Publish
  <2>3. ASSUME NEW u \in Users, NEW d \in Domain, AddUserDomain(u, d) \/ RemoveUserDomain(u, d)
        PROVE  ControlInv'
    BY <2>3 DEF AddUserDomain, RemoveUserDomain, Page
  <2>4. ASSUME NEW j \in Jobs, Deliver(j) PROVE ControlInv'
    <3>1. FirstStep(requests[j].action) \in BeforeAck /\ "giveup" \in BeforeAck
      <4>1. requests[j].action \in Actions
        BY <2>4, UserType DEF Deliver
      <4>2. QED
        BY <4>1, InstanceJobsAssumption DEF FirstStep, BeforeAck, DeploySteps, StopSteps, KillSteps
    <3>2. \E step \in BeforeAck : pc' = [pc EXCEPT ![j] = step]
      BY <2>4, <3>1 DEF Deliver
    <3>3. retries' = retries \/ \E n : retries' = [retries EXCEPT ![j] = n]
      BY <2>4 DEF Deliver
    <3>4. /\ message[j] = "ready" /\ connected /\ message' = [message EXCEPT ![j] = "unacked"]
          /\ UNCHANGED <<connected, result, told, incidents>>
      BY <2>4 DEF Deliver
    <3>5. QED
      BY <3>2, <3>3, <3>4
  <2>5. ASSUME NEW j \in Jobs, Expire(j) PROVE ControlInv'
    BY <2>5 DEF Expire
  <2>6. ASSUME NEW j \in Jobs, Poll(j) PROVE ControlInv'
    BY <2>6 DEF Poll
  <2>7. CASE Crash
    BY <2>7 DEF Crash, Incident, Requeue, Kinds
  <2>8. CASE ConnectionLost
    BY <2>8 DEF ConnectionLost, Incident, Requeue, Kinds
  <2>9. CASE BrokerRestart
    BY <2>9 DEF BrokerRestart, Incident, Kinds
  <2>10. CASE UNCHANGED vars
    BY <2>10 DEF vars
  <2>11. QED
    BY <2>1, <2>2, <2>3, <2>4, <2>5, <2>6, <2>7, <2>8, <2>9, <2>10 DEF Next
<1>3. QED
  BY <1>1, <1>2, TypingInv, PTL DEF Spec

\* Every unsettled delivery has one goroutine working for its Ack or Nack.
THEOREM DeliveriesHeld == Spec => []DeliveryHasWorker
<1>1. ControlInv => DeliveryHasWorker
  BY DEF ControlInv, HeldInv
<1>2. QED
  BY <1>1, ControlInvHolds, PTL

\* The retry map forgets every job that is over, unless the broker lost it.
THEOREM RetriesForgotten == Spec => []NoRetryLeak
<1>1. ControlInv => NoRetryLeak
  BY DEF ControlInv
<1>2. QED
  BY <1>1, ControlInvHolds, PTL

\* With its history the specification does what it does without, and keeps the rest.
LEMMA HistoryKeeps == HistorySpec => [](TypeInv /\ ControlInv)
<1>1. HistoryInit => Init
  BY DEF HistoryInit
<1>2. [HistoryNext]_<<vars, history>> => [Next]_vars
  BY DEF HistoryNext, Next
<1>3. QED
  BY <1>1, <1>2, TypingInv, ControlInvHolds, PTL DEF HistorySpec, Spec

-----------------------------------------------------------------------------
(* Answers *)

\* A goroutine from under which the connection has not been taken settles its message
\* by its Ack, unless a broker restart has lost it before.
OverInv ==
  /\ orphaned \subseteq Asked
  /\ \A j \in Jobs \ orphaned :
       /\ pc[j] \in AfterAck => message[j] = "gone"
       /\ ~connected /\ pc[j] \in BeforeAck => message[j] = "gone"

AnswersInv == OverInv /\ AnsweredIsOver

\* What a goroutine does keeps both.
LEMMA ProceedOver ==
  ASSUME TypeInv, AnswersInv, NEW j \in Jobs, Proceeds(j), UNCHANGED orphaned
  PROVE  AnswersInv'
<1>0. UNCHANGED <<requests, connected, told>>
  BY DEF Proceeds, Advances, Retries, Settles, Cleans, Answers, Ends, Quiet
<1> USE <1>0, Disjoint DEF TypeInv, TypeOK, AnswersInv, OverInv, AnsweredIsOver, Answered, Asked
<1>1. CASE Advances(j)
  <2>1. PICK step \in BeforeAck : pc' = [pc EXCEPT ![j] = step]
    BY <1>1 DEF Advances
  <2>2. pc[j] \in BeforeAck /\ pc[j] \notin {"idle", "forget"} /\ UNCHANGED <<message, result>>
    BY <1>1 DEF Advances, Working, AfterAck
  <2>3. \A i \in Jobs : /\ pc'[i] \in BeforeAck <=> pc[i] \in BeforeAck
                        /\ pc'[i] \in AfterAck <=> pc[i] \in AfterAck
    BY <2>1, <2>2, PlaceKept
  <2>4. OverInv'
    BY <2>2, <2>3
  <2>5. AnsweredIsOver'
    BY <2>1, <2>2
  <2>6. QED
    BY <2>4, <2>5
<1>2. CASE Retries(j)
  BY <1>2 DEF Retries, Working, AfterAck
<1>3. CASE Settles(j)
  BY <1>3 DEF Settles, Settle, BeforeAck, AfterAck
<1>4. CASE Cleans(j)
  BY <1>4 DEF Cleans, AfterAck
<1>5. CASE Answers(j)
  BY <1>5 DEF Answers, AfterAck
<1>6. CASE Ends(j)
  BY <1>6 DEF Ends, AfterAck
<1>7. QED
  BY <1>1, <1>2, <1>3, <1>4, <1>5, <1>6 DEF Proceeds

\* Answered jobs stay over.
LEMMA AnswersInvHolds == HistorySpec => []AnswersInv
<1>1. HistoryInit => AnswersInv
  BY DEF HistoryInit, Init, AnswersInv, OverInv, AnsweredIsOver, Answered, AfterAck, BeforeAck,
         DeploySteps, StopSteps, KillSteps
<1>2. TypeInv /\ AnswersInv /\ [HistoryNext]_<<vars, history>> => AnswersInv'
  <2> SUFFICES ASSUME TypeInv, AnswersInv, [HistoryNext]_<<vars, history>> PROVE AnswersInv'
    OBVIOUS
  <2>1. ASSUME NEW j \in Jobs, Work(j) \/ CallFails(j), UNCHANGED orphaned PROVE AnswersInv'
    BY <2>1, WorkProceeds, FailureProceeds, ProceedOver
  <2> USE Disjoint
      DEF TypeInv, TypeOK, AskedOK, AnswersInv, OverInv, AnsweredIsOver, Answered, broker, locals, answers
  <2>2. ASSUME NEW u \in Users, NEW a \in Actions, Publish(u, a), UNCHANGED orphaned PROVE AnswersInv'
    <3>1. PICK j \in Jobs : j = Len(requests) + 1
      BY <2>2 DEF Publish
    <3>2. j \notin Asked /\ Asked' = Asked \cup {j}
      BY <2>2, <3>1 DEF Publish, Asked
    <3>3. /\ message' = [message EXCEPT ![j] = "ready"]
          /\ UNCHANGED <<connected, pc, result, told>>
      BY <2>2, <3>1 DEF Publish
    <3>4. message[j] = "none" /\ pc[j] = "idle"
      BY <3>2
    <3>5. QED
      BY <2>2, <3>2, <3>3, <3>4
  <2>3. ASSUME NEW u \in Users, NEW d \in Domain, AddUserDomain(u, d) \/ RemoveUserDomain(u, d),
               UNCHANGED orphaned
        PROVE  AnswersInv'
    BY <2>3 DEF AddUserDomain, RemoveUserDomain, Page, Asked
  <2>4. ASSUME NEW j \in Jobs, Deliver(j), UNCHANGED orphaned PROVE AnswersInv'
    <3>1. FirstStep(requests[j].action) \in BeforeAck /\ "giveup" \in BeforeAck
      <4>1. requests[j].action \in Actions
        BY <2>4, UserType DEF Deliver
      <4>2. QED
        BY <4>1, InstanceJobsAssumption DEF FirstStep, BeforeAck, DeploySteps, StopSteps, KillSteps
    <3>2. \E step \in BeforeAck : pc' = [pc EXCEPT ![j] = step]
      BY <2>4, <3>1 DEF Deliver
    <3>3. /\ message[j] = "ready" /\ connected /\ message' = [message EXCEPT ![j] = "unacked"]
          /\ UNCHANGED <<requests, connected, result, told>>
      BY <2>4 DEF Deliver
    <3>4. QED
      BY <2>4, <3>2, <3>3 DEF Asked
  <2>5. ASSUME NEW j \in Jobs, Expire(j) \/ Poll(j), UNCHANGED orphaned PROVE AnswersInv'
    BY <2>5 DEF Expire, Poll, Asked
  <2>6. CASE Crash /\ UNCHANGED orphaned
    BY <2>6 DEF Crash, Incident, Requeue, Asked
  <2>7. CASE BrokerRestart /\ UNCHANGED orphaned
    BY <2>7 DEF BrokerRestart, Incident, Asked
  <2>8. CASE ConnectionLost /\ orphaned' = orphaned \cup {j \in Jobs : pc[j] \in BeforeAck}
    BY <2>8 DEF ConnectionLost, Incident, Requeue, Asked
  <2>9. CASE UNCHANGED <<vars, history>>
    BY <2>9 DEF vars, history, Asked
  <2>10. QED
    BY <2>1, <2>2, <2>3, <2>4, <2>5, <2>6, <2>7, <2>8, <2>9 DEF HistoryNext
<1>3. QED
  BY <1>1, <1>2, HistoryKeeps, PTL DEF HistorySpec

\* An answered job is over, unless the connection was lost on its way to the Ack.
THEOREM AnsweredJobsOver == HistorySpec => []AnsweredIsOver
<1>1. AnswersInv => AnsweredIsOver
  BY DEF AnswersInv
<1>2. QED
  BY <1>1, AnswersInvHolds, PTL

-----------------------------------------------------------------------------
(* The abstract service *)

\* A goroutine's step answers its request or leaves all answers alone.
LEMMA ProceedAnswers ==
  ASSUME TypeInv, AnswersInv, NEW j \in Jobs, Proceeds(j), UNCHANGED orphaned
  PROVE  Service!Next \/ UNCHANGED <<Phase, orphaned>>
<1>1. CASE UNCHANGED result
  BY <1>1 DEF Proceeds, Advances, Retries, Settles, Cleans, Answers, Ends, Quiet, Phase, Asked
<1>2. CASE result' # result
  <2>1. /\ pc[j] \in {"result", "giveupResult"}
        /\ \E a \in {"ok", "fail"} : result' = [result EXCEPT ![j] = a]
        /\ UNCHANGED <<requests, told>>
    BY <1>2 DEF Proceeds, Advances, Retries, Settles, Cleans, Answers, Ends, Quiet
  <2>2. j \in Asked /\ (j \in orphaned \/ ~Answered(j))
    BY <2>1 DEF AnswersInv, AnsweredIsOver, TypeInv, AskedOK
  <2>3. Phase[j] = "pending" \/ j \in orphaned
    BY <2>2 DEF Phase, Answered
  <2>4. PICK a \in {"ok", "fail"} : result' = [result EXCEPT ![j] = a]
    BY <2>1
  <2>5. Phase' = [Phase EXCEPT ![j] = a]
    BY <2>1, <2>2, <2>4 DEF Phase, TypeInv, TypeOK, Asked
  <2>6. Service!Answer(j)
    BY <2>3, <2>5 DEF Service!Answer
  <2>7. QED
    BY <2>6 DEF Service!Next
<1>3. QED
  BY <1>1, <1>2

\* A lost connection orphans requests that have no answer yet.
LEMMA LossLoses ==
  ASSUME TypeInv, AnswersInv, ConnectionLost, orphaned' = orphaned \cup {j \in Jobs : pc[j] \in BeforeAck}
  PROVE  Service!Next
<1> DEFINE js == {j \in Jobs : pc[j] \in BeforeAck} \ orphaned
<1>1. \A j \in js : Phase[j] = "pending"
  <2> SUFFICES ASSUME NEW j \in js PROVE Phase[j] = "pending"
    OBVIOUS
  <2>1. j \in Asked /\ pc[j] \notin {"idle", "forget"}
    BY Disjoint DEF TypeInv, AskedOK, AfterAck
  <2>2. QED
    BY <2>1 DEF AnswersInv, AnsweredIsOver, Answered, Phase
<1>2. UNCHANGED Phase
  BY DEF ConnectionLost, Incident, answers, Phase, Asked
<1>3. js \in SUBSET {j \in Jobs : Phase[j] = "pending"} /\ orphaned' = orphaned \cup js
  BY <1>1
<1>4. QED
  BY <1>2, <1>3 DEF Service!Next, Service!Lose

\* A request is answered once, and neither a crash, a broker restart, a failing call nor
\* a retry takes the answer back or changes it: the jobs implement the safety of the
\* service, which excepts the requests under way when the connection was lost.
THEOREM Answering == HistorySpec => AnsweredOnce
<1>1. HistoryInit => Service!Init
  BY DEF HistoryInit, Init, Service!Init, Phase, Asked
<1>2. TypeInv /\ AnswersInv /\ [HistoryNext]_<<vars, history>> => [Service!Next]_<<Phase, orphaned>>
  <2> SUFFICES ASSUME TypeInv, AnswersInv, [HistoryNext]_<<vars, history>>
               PROVE  Service!Next \/ UNCHANGED <<Phase, orphaned>>
    OBVIOUS
  <2>1. ASSUME NEW j \in Jobs, Work(j) \/ CallFails(j), UNCHANGED orphaned
        PROVE  Service!Next \/ UNCHANGED <<Phase, orphaned>>
    BY <2>1, WorkProceeds, FailureProceeds, ProceedAnswers
  <2>2. ASSUME NEW u \in Users, NEW a \in Actions, Publish(u, a), UNCHANGED orphaned PROVE Service!Next
    <3>1. PICK j \in Jobs : j = Len(requests) + 1
      BY <2>2 DEF Publish
    <3>2. j \notin Asked /\ Asked' = Asked \cup {j} /\ message[j] = "none"
      BY <2>2, <3>1 DEF Publish, Asked, TypeInv, TypeOK, AskedOK
    <3>3. ~Answered(j)
      BY <3>2 DEF AnswersInv, OverInv, AnsweredIsOver
    <3>4. UNCHANGED <<result, told, orphaned>>
      BY <2>2 DEF Publish, answers
    <3>5. Service!Submit(j)
      BY <3>1, <3>2, <3>3, <3>4 DEF Service!Submit, Phase, Answered
    <3>6. QED
      BY <3>5 DEF Service!Next
  <2>3. ASSUME NEW j \in Jobs, Poll(j) PROVE UNCHANGED Phase
    BY <2>3 DEF Poll, Phase, TypeInv, TypeOK, Asked
  <2>4. ASSUME UNCHANGED <<requests, answers>> PROVE UNCHANGED Phase
    BY <2>4 DEF answers, Phase, Asked
  <2>5. QED
    BY <2>1, <2>2, <2>3, <2>4, LossLoses
    DEF HistoryNext, AddUserDomain, RemoveUserDomain, Page, Deliver, Expire, Crash, BrokerRestart, Incident,
        vars, history
<1>3. QED
  BY <1>1, <1>2, HistoryKeeps, AnswersInvHolds, PTL DEF HistorySpec, AnsweredOnce, Service!Safe

-----------------------------------------------------------------------------
(* The five stores, for a user who waits for his answers and for whom       *)
(* nothing fails or breaks down.                                            *)

\* The rows and files of user u match but for his code domain.
OtherFilesMatch(u) == \A d \in Domain \ {u} : domains[d] = u <=> conf[d] = u

\* The name of user u's container is his code domain's or nobody's, he has no domain by
\* the name of another's, and no file without a row but for the code domain.
Apart(u) ==
  /\ domains[u] = IF u \in code THEN u ELSE NoUser
  /\ conf[u] \in {u, NoUser}
  /\ \A v \in Users \ {u} : domains[v] # u /\ conf[v] # u
  /\ \A d \in Domain \ {u} : conf[d] = u => domains[d] = u

\* The user's container is new: it has its address, no code domain and no row yet.
Fresh(u) == u \in userip /\ row[u] = "none" /\ u \notin code /\ FilesMatch(u)

\* The steps at which a request has changed nothing yet, or everything.
Whole == {"idle", "find", "allocate", "findStop", "stop", "findKill", "halt",
          "ack", "giveup", "giveupResult", "cleanup", "result", "forget"}

DeployProgress(j, u) ==
  /\ pc[j] \in DeploySteps => requests[j].action = "deploy"
  /\ pc[j] \notin {"recover", "reselect", "reupdate"}
  /\ pc[j] \in {"idle", "find", "allocate", "create"} => j \notin containerExists
  /\ pc[j] \in {"idle", "find", "allocate", "create", "query"} => j \notin exists
  /\ pc[j] = "allocate" => container[u] = "none"
  /\ pc[j] = "create" => container[u] = "none" /\ Fresh(u)
  /\ pc[j] \in {"query", "inspect", "start"} =>
       IF j \in containerExists THEN StoresAgree(u) /\ container[u] # "none"
                                ELSE Fresh(u) /\ container[u] = "stopped"
  /\ pc[j] \in {"inspect", "start"} => (j \in exists <=> row[u] # "none")
  /\ pc[j] \in {"provision", "domain"} => Fresh(u) /\ container[u] = "running"
  /\ pc[j] \in {"provision", "domain", "conf", "insert"} => j \notin containerExists
  /\ pc[j] \in {"conf", "insert"} =>
       container[u] = "running" /\ u \in userip /\ row[u] = "none" /\ u \in code
  /\ pc[j] = "conf" => OtherFilesMatch(u)
  /\ pc[j] \in {"insert", "select", "update"} => FilesMatch(u)
  /\ pc[j] \in {"select", "update"} =>
       container[u] = "running" /\ u \in userip /\ row[u] # "none" /\ u \in code

StopProgress(j, u) ==
  /\ pc[j] \in StopSteps => requests[j].action = "stop"
  /\ pc[j] = "stop" => container[u] # "none"
  /\ pc[j] = "dbStop" =>
       /\ container[u] # "running" /\ (row[u] = "none" <=> container[u] = "none")
       /\ u \in userip <=> container[u] # "none"
       /\ u \in code <=> container[u] # "none"
       /\ FilesMatch(u)

KillProgress(j, u) ==
  /\ pc[j] \in KillSteps => requests[j].action = "kill"
  /\ pc[j] = "ack" /\ requests[j].action = "kill" => container[u] = "none"
  /\ pc[j] = "halt" => container[u] # "none"
  /\ pc[j] \in {"dealloc", "delete"} => container[u] = "stopped"
  /\ pc[j] = "dealloc" => u \in userip
  /\ pc[j] \in {"delete", "undomain", "unconf", "dbRemove", "deleteDomains"} => u \notin userip
  /\ pc[j] \in {"undomain", "unconf", "dbRemove", "cleanup", "deleteDomains"} => container[u] = "none"
  /\ pc[j] \in {"dealloc", "delete", "undomain"} => u \in code /\ FilesMatch(u)
  /\ pc[j] \in {"dealloc", "delete", "undomain", "unconf"} => row[u] # "none"
  /\ pc[j] \in {"unconf", "dbRemove", "deleteDomains"} => u \notin code
  /\ pc[j] = "unconf" => OtherFilesMatch(u)
  /\ pc[j] = "dbRemove" => FilesMatch(u)
  /\ pc[j] = "deleteDomains" => row[u] = "none" /\ \A d \in Domain : conf[d] # u

Progress(j, u) ==
  /\ pc[j] \in Whole => StoresAgree(u)
  /\ DeployProgress(j, u) /\ StopProgress(j, u) /\ KillProgress(j, u)

\* A goroutine at work can still reach the broker; a request is answered after its
\* message was settled, and then only its attempts remain to be forgotten.
Placed(j) ==
  /\ pc[j] # "idle" => connected
  /\ pc[j] \in AfterAck \/ Answered(j) => message[j] = "gone"
  /\ Answered(j) => pc[j] \in {"idle", "forget"}

\* User u has one request under way at most, and what it has done so far says where
\* the stores differ; without one they agree.
Calm(u) ==
  /\ \A i, j \in Asked : User(i) = u /\ User(j) = u /\ told[i] = "none" /\ told[j] = "none" => i = j
  /\ \A j \in Asked : User(j) = u => Placed(j) /\ (told[j] = "none" => Progress(j, u))
  /\ Waits(u) \/ StoresAgree(u)
  /\ Apart(u)

\* Nothing is left over for requests yet to come.
NewJobs == \A j \in Jobs \ Asked : j \notin containerExists /\ j \notin exists /\ ~Answered(j)

StoresInv == NewJobs /\ \A u \in Users \ troubled : Calm(u)

\* Job j is as far as it was.
Stays(j) ==
  /\ pc'[j] = pc[j] /\ told'[j] = told[j] /\ result'[j] = result[j]
  /\ message[j] = "gone" => message'[j] = "gone"
  /\ pc[j] # "idle" => connected' = connected
  /\ told[j] = "none" => /\ j \in containerExists' <=> j \in containerExists
                         /\ j \in exists' <=> j \in exists

SameStores(u) ==
  /\ container'[u] = container[u] /\ row'[u] = row[u]
  /\ u \in userip' <=> u \in userip
  /\ u \in code' <=> u \in code
  /\ domains'[u] = domains[u] /\ conf'[u] = conf[u]
  /\ \A d \in Domain : (domains'[d] = u <=> domains[d] = u) /\ (conf'[d] = u <=> conf[d] = u)

\* What a goroutine leaves alone: other goroutines, and the stores of other users.
Frame(j) ==
  /\ \A i \in Jobs \ {j} :
       Stays(i) /\ (i \in containerExists' <=> i \in containerExists) /\ (i \in exists' <=> i \in exists)
  /\ \A v \in Users \ {User(j)} : Apart(v) => SameStores(v)

\* A call, whether it succeeds or fails, is about its own request and user.
LEMMA WorkFrame ==
  ASSUME TypeInv, NEW j \in Jobs, Work(j) \/ CallFails(j)
  PROVE  Frame(j) /\ UNCHANGED <<requests, told>> /\ j \in Asked
<1>1. /\ UNCHANGED <<requests, connected, told>> /\ j \in Asked
      /\ \A i \in Jobs \ {j} : pc'[i] = pc[i] /\ result'[i] = result[i] /\ message'[i] = message[i]
  <2>1. Proceeds(j)
    BY WorkProceeds, FailureProceeds
  <2>2. UNCHANGED <<requests, connected, told>>
    BY <2>1 DEF Proceeds, Advances, Retries, Settles, Cleans, Answers, Ends, Quiet
  <2>3. pc[j] # "idle"
    BY <2>1
    DEF Proceeds, Advances, Retries, Settles, Cleans, Answers, Ends, Working, BeforeAck, DeploySteps,
        StopSteps, KillSteps
  <2>4. ASSUME NEW i \in Jobs \ {j}
        PROVE  pc'[i] = pc[i] /\ result'[i] = result[i] /\ message'[i] = message[i]
    BY <2>1 DEF Proceeds, Advances, Retries, Settles, Settle, Cleans, Answers, Ends, TypeInv, TypeOK
  <2>5. QED
    BY <2>2, <2>3, <2>4 DEF TypeInv, AskedOK
<1>2. ASSUME NEW i \in Jobs \ {j}
      PROVE  (i \in containerExists' <=> i \in containerExists) /\ (i \in exists' <=> i \in exists)
  <2> DEFINE Kept == (i \in containerExists' <=> i \in containerExists) /\ (i \in exists' <=> i \in exists)
  <2>1. ASSUME NEW step, Go(j, step) PROVE Kept
    BY <2>1 DEF Go
  <2>2. ASSUME End(j) \/ Nack(j) PROVE Kept
    BY <2>2 DEF End, Nack
  <2>3. CASE UNCHANGED <<containerExists, exists>>
    BY <2>3
  <2>4. CASE DeployStep(j)
    BY <2>1, <2>2, <2>4
    DEF DeployStep, Find, Allocate, ConflictsExhausted, CreateContainer, QueryRow, Inspect, StartContainer, Provision,
        AddDomain, AddNewConf, InsertRow, SelectRow, UpdateRow
  <2>5. CASE StopStep(j) \/ KillStep(j)
    BY <2>1, <2>2, <2>5
    DEF StopStep, FindStop, StopContainer, StopRow, KillStep, FindKill, Halt, Deallocate,
        DeleteContainer, RemoveDomain, RemoveConf, RemoveRow, Cleanup, DeleteDomains
  <2>6. CASE Ack(j) \/ PutResult(j) \/ Forget(j) \/ GiveUp(j) \/ CallFails(j)
             \/ GiveUpResult(j, TRUE)
    BY <2>1, <2>2, <2>3, <2>6 DEF Ack, PutResult, Forget, GiveUp, GiveUpResult, CallFails
  <2>7. QED
    BY <2>4, <2>5, <2>6 DEF Work
<1>3. ASSUME NEW v \in Users \ {User(j)}, Apart(v) PROVE SameStores(v)
  <2>0. User(j) \in Users /\ WorldOK
    BY <1>1, UserType, TypeParts DEF TypeInv
  <2>1. CASE UNCHANGED world
    BY <2>1 DEF world, tables, SameStores
  <2>2. CASE DeployStep(j)
    BY <1>3, <2>0, <2>1, <2>2, InstanceJobsAssumption
    DEF DeployStep, Find, Allocate, ConflictsExhausted, CreateContainer, QueryRow, Inspect, StartContainer, Provision,
        AddDomain, AddNewConf, InsertRow, SelectRow, UpdateRow, SameStores, Apart, WorldOK, tables, Domain
  <2>3. CASE StopStep(j)
    BY <2>0, <2>1, <2>3 DEF StopStep, FindStop, StopContainer, StopRow, SameStores, WorldOK, tables
  <2>4. CASE KillStep(j)
    <3> USE <1>3, <2>0, InstanceJobsAssumption DEF SameStores, Apart, WorldOK, tables, Domain, DeleteRows
    <3>1. CASE FindKill(j) \/ Halt(j) \/ Deallocate(j) \/ DeleteContainer(j) \/ RemoveRow(j)
      BY <2>1, <3>1 DEF FindKill, Halt, Deallocate, DeleteContainer, RemoveRow
    <3>2. CASE RemoveDomain(j) \/ DeleteDomains(j)
      BY <3>2 DEF RemoveDomain, DeleteDomains
    <3>3. CASE RemoveConf(j)
      BY <3>3 DEF RemoveConf
    <3>4. CASE Cleanup(j)
      BY <3>4 DEF Cleanup, UserDomains
    <3>5. QED
      BY <2>4, <3>1, <3>2, <3>3, <3>4 DEF KillStep
  <2>5. CASE Ack(j) \/ PutResult(j) \/ Forget(j) \/ GiveUp(j) \/ CallFails(j)
             \/ GiveUpResult(j, TRUE)
    BY <2>1, <2>5 DEF Ack, PutResult, Forget, GiveUp, GiveUpResult, CallFails
  <2>6. QED
    BY <2>2, <2>3, <2>4, <2>5 DEF Work
<1>4. QED
  BY <1>1, <1>2, <1>3 DEF Frame, Stays

\* A call that succeeds takes its request from one stage of the work to the next; an
\* address without a row is the exception.
LEMMA WorkProgress ==
  ASSUME TypeInv, NEW j \in Jobs, NEW u \in Users, User(j) = u, j \in Asked, Work(j),
         ~ConflictsExhausted(j), Progress(j, u), Apart(u)
  PROVE  Progress(j, u)' /\ Apart(u)'
<1> DEFINE Done == Progress(j, u)' /\ Apart(u)'
<1>0. /\ requests' = requests /\ pc[j] # "idle" /\ NoUser \notin Users /\ u \in Domain
      /\ WorldOK /\ pc \in [Jobs -> BeforeAck \cup AfterAck \cup {"idle"}]
      /\ containerExists \subseteq Jobs /\ exists \subseteq Jobs
  BY WorkProceeds, InstanceJobsAssumption
  DEF Proceeds, Advances, Retries, Settles, Cleans, Answers, Ends, Quiet, TypeInv, TypeOK, Domain,
     WorldOK, Working, BeforeAck, DeploySteps, StopSteps, KillSteps
<1> USE <1>0 DEF WorldOK, Progress, DeployProgress, StopProgress, KillProgress, StoresAgree, Fresh, Whole,
        DeploySteps, StopSteps, KillSteps, Go, Nack, End, world
\* A step that leaves the table of domains and the conf files alone keeps what is said of them.
<1> DEFINE SameFiles == UNCHANGED <<domains, code, conf>>
<1>a. SameFiles => /\ Apart(u)' /\ (FilesMatch(u)' <=> FilesMatch(u))
                   /\ (OtherFilesMatch(u)' <=> OtherFilesMatch(u))
  BY DEF Apart, FilesMatch, OtherFilesMatch
<1>1. ASSUME Find(j) PROVE Done
  BY <1>1, <1>a DEF Find, tables
<1>2. ASSUME Allocate(j) PROVE Done
  BY <1>2, <1>a DEF Allocate, tables
<1>3. ASSUME CreateContainer(j) PROVE Done
  BY <1>3, <1>a DEF CreateContainer, tables
<1>4. ASSUME QueryRow(j) PROVE Done
  BY <1>4, <1>a DEF QueryRow, tables
<1>5. ASSUME Inspect(j) PROVE Done
  BY <1>5, <1>a DEF Inspect, RecordStep, tables
<1>6. ASSUME StartContainer(j) PROVE Done
  BY <1>6, <1>a DEF StartContainer, RecordStep, tables
<1>7. ASSUME Provision(j) PROVE Done
  BY <1>7, <1>a DEF Provision, CanRunCommands, tables
<1>8. ASSUME AddDomain(j) PROVE Done
  BY <1>8 DEF AddDomain, tables, Apart, FilesMatch, OtherFilesMatch, Domain
<1>9. ASSUME AddNewConf(j) PROVE Done
  BY <1>9 DEF AddNewConf, RecordStep, tables, Apart, FilesMatch, OtherFilesMatch, Domain
<1>10. ASSUME InsertRow(j) PROVE Done
  BY <1>10, <1>a DEF InsertRow, tables
<1>11. ASSUME SelectRow(j) PROVE Done
  BY <1>11, <1>a DEF SelectRow, tables
<1>12. ASSUME UpdateRow(j) PROVE Done
  BY <1>12, <1>a DEF UpdateRow, tables
<1>13. ASSUME FindStop(j) PROVE Done
  BY <1>13, <1>a DEF FindStop, tables
<1>14. ASSUME StopContainer(j) PROVE Done
  BY <1>14, <1>a DEF StopContainer, tables
<1>15. ASSUME StopRow(j) PROVE Done
  BY <1>15, <1>a DEF StopRow, tables
<1>16. ASSUME FindKill(j) PROVE Done
  BY <1>16, <1>a DEF FindKill, tables
<1>17. ASSUME Halt(j) PROVE Done
  BY <1>17, <1>a DEF Halt, tables
<1>18. ASSUME Deallocate(j) PROVE Done
  BY <1>18, <1>a DEF Deallocate, tables
<1>19. ASSUME DeleteContainer(j) PROVE Done
  BY <1>19, <1>a DEF DeleteContainer, tables
<1>20. ASSUME RemoveDomain(j) PROVE Done
  BY <1>20 DEF RemoveDomain, DeleteRows, tables, Apart, FilesMatch, OtherFilesMatch, Domain
<1>21. ASSUME RemoveConf(j) PROVE Done
  BY <1>21 DEF RemoveConf, tables, Apart, FilesMatch, OtherFilesMatch, Domain
<1>22. ASSUME RemoveRow(j) PROVE Done
  BY <1>22, <1>a DEF RemoveRow, tables
<1>23. ASSUME Cleanup(j) PROVE Done
  BY <1>23 DEF Cleanup, UserDomains, tables, Apart, FilesMatch, OtherFilesMatch, Domain
<1>24. ASSUME DeleteDomains(j) PROVE Done
  BY <1>24 DEF DeleteDomains, DeleteRows, tables, Apart, FilesMatch, OtherFilesMatch, Domain
<1>25. ASSUME Ack(j) PROVE Done
  BY <1>25, <1>a DEF Ack, tables
<1>26. ASSUME PutResult(j) \/ Forget(j) PROVE Done
  BY <1>26, <1>a DEF PutResult, Forget, tables
<1>27. ASSUME GiveUp(j) \/ GiveUpResult(j, TRUE) PROVE Done
  BY <1>27, <1>a DEF GiveUp, GiveUpResult, tables
<1>28. QED
  BY <1>1, <1>2, <1>3, <1>4, <1>5, <1>6, <1>7, <1>8, <1>9, <1>10, <1>11, <1>12, <1>13, <1>14, <1>15, <1>16, <1>17, <1>18, <1>19, <1>20, <1>21, <1>22, <1>23, <1>24, <1>25, <1>26, <1>27
  DEF Work, DeployStep, StopStep, KillStep

\* Where a job is as far as it was and its user's stores are the same, so is what it has done.
LEMMA ProgressStays ==
  ASSUME NEW j \in Asked, NEW u \in Users, UNCHANGED requests, Stays(j), SameStores(u), told[j] = "none",
         Progress(j, u)
  PROVE  Progress(j, u)'
BY DEF Stays, SameStores, Progress, DeployProgress, StopProgress, KillProgress, StoresAgree, Fresh,
       FilesMatch, OtherFilesMatch

\* A user whose requests are as far as they were and whose stores are the same stays calm.
LEMMA CalmStays ==
  ASSUME TypeInv, NEW u \in Users, Calm(u), UNCHANGED requests, SameStores(u),
         \A j \in Asked : User(j) = u => Stays(j)
  PROVE  Calm(u)'
<1>1. Asked' = Asked /\ \A j \in Asked : User(j)' = User(j)
  BY DEF Asked, User
<1>2. ASSUME NEW j \in Asked, User(j) = u PROVE Placed(j)' /\ told'[j] = told[j]
  BY <1>2 DEF Calm, Placed, Stays, Answered
<1>3. ASSUME NEW j \in Asked, User(j) = u, told[j] = "none" PROVE Progress(j, u)'
  BY <1>3, ProgressStays DEF Calm
<1>4. StoresAgree(u) => StoresAgree(u)'
  BY DEF StoresAgree, FilesMatch, SameStores
<1>5. Waits(u) => Waits(u)'
  BY <1>1, <1>2 DEF Waits
<1>6. Apart(u)'
  BY DEF Calm, Apart, SameStores, Domain
<1>7. QED
  BY <1>1, <1>2, <1>3, <1>4, <1>5, <1>6 DEF Calm

\* A call that succeeds leaves its user calm ...
LEMMA WorkCalm ==
  ASSUME TypeInv, NEW j \in Jobs, Work(j), ~ConflictsExhausted(j), NEW u \in Users, User(j) = u, Calm(u)
  PROVE  Calm(u)'
<1>1. Frame(j) /\ UNCHANGED <<requests, told>> /\ j \in Asked /\ Proceeds(j)
  BY WorkFrame, WorkProceeds
<1>2. Asked' = Asked /\ Asked \subseteq Jobs /\ \A i \in Asked : User(i)' = User(i)
  BY <1>1, InstanceJobsAssumption DEF Asked, User, TypeInv, TypeOK, Jobs
<1>3. ASSUME NEW i \in Asked, User(i) = u, i # j PROVE Stays(i)
  BY <1>1, <1>2, <1>3 DEF Frame
<1>4. Placed(j)'
  <2>1. Placed(j) /\ pc[j] # "idle" /\ connected
    BY <1>1 DEF Calm, Placed, Proceeds, Advances, Retries, Settles, Cleans, Answers, Ends, Working,
       BeforeAck, DeploySteps, StopSteps, KillSteps
  <2> USE Disjoint DEF TypeInv, TypeOK, Quiet, Placed, Answered
  <2>2. CASE Advances(j)
    <3>1. pc'[j] \in BeforeAck /\ pc[j] \in BeforeAck
      BY <2>2 DEF Advances, Working
    <3>2. "forget" \in AfterAck
      BY DEF AfterAck
    <3>3. QED
      BY <2>1, <2>2, <3>1, <3>2 DEF Advances
  <2>3. CASE Retries(j)
    <3>1. ~Answered(j)
      BY <2>1, <2>3 DEF Retries, Working, AfterAck
    <3>2. QED
      BY <2>1, <2>3, <3>1 DEF Retries
  <2>4. CASE Settles(j)
    BY <2>1, <2>4 DEF Settles, Settle, AfterAck
  <2>5. CASE Cleans(j) \/ Answers(j) \/ Ends(j)
    BY <2>1, <2>5 DEF Cleans, Answers, Ends, AfterAck
  <2>6. QED
    BY <1>1, <2>2, <2>3, <2>4, <2>5 DEF Proceeds
<1>5. CASE told[j] = "none"
  <2>1. Progress(j, u)' /\ Apart(u)'
    BY <1>1, <1>5, WorkProgress DEF Calm
  <2>2. ASSUME NEW i \in Asked, User(i) = u, i # j PROVE Placed(i)' /\ told'[i] # "none"
    BY <1>1, <1>3, <1>5, <2>2 DEF Calm, Placed, Stays, Answered
  <2>3. Waits(u)'
    BY <1>1, <1>2, <1>5 DEF Waits
  <2>4. QED
    BY <1>1, <1>2, <1>4, <2>1, <2>2, <2>3 DEF Calm
<1>6. CASE told[j] # "none"
  <2>1. pc[j] = "forget"
    BY <1>1, <1>6 DEF Calm, Placed, Answered, Proceeds, Advances, Retries, Settles, Cleans, Answers, Ends,
       Working, BeforeAck, DeploySteps, StopSteps, KillSteps
  <2>2. Forget(j)
    BY <2>1 DEF Work, DeployStep, StopStep, KillStep, Ack, PutResult, GiveUp, GiveUpResult,
       Find, Allocate, ConflictsExhausted, CreateContainer, QueryRow, Inspect, StartContainer, Provision, AddDomain,
       AddNewConf, InsertRow, SelectRow, UpdateRow, FindStop, StopContainer, StopRow, FindKill, Halt,
       Deallocate, DeleteContainer, RemoveDomain, RemoveConf, RemoveRow, Cleanup, DeleteDomains
  <2>3. SameStores(u)
    BY <2>2 DEF Forget, world, tables, SameStores
  <2>4. ASSUME NEW i \in Asked, User(i) = u PROVE Placed(i)' /\ told'[i] = told[i]
    BY <1>1, <1>3, <1>4, <2>4 DEF Calm, Placed, Stays, Answered
  <2>5. ASSUME NEW i \in Asked, User(i) = u, told[i] = "none" PROVE Progress(i, u)'
    BY <1>1, <1>3, <1>6, <2>3, <2>5, ProgressStays DEF Calm
  <2>6. StoresAgree(u) => StoresAgree(u)'
    BY <2>3 DEF StoresAgree, FilesMatch, SameStores
  <2>7. Apart(u)'
    BY <2>3 DEF Calm, Apart, SameStores, Domain
  <2>8. QED
    BY <1>1, <1>2, <2>4, <2>5, <2>6, <2>7 DEF Calm, Waits
<1>7. QED
  BY <1>5, <1>6

\* ... and so does the delivery of his message, ...
LEMMA DeliverCalm ==
  ASSUME TypeInv, ControlInv, NEW j \in Asked, j \in Jobs, Deliver(j), NEW u \in Users, User(j) = u, Calm(u)
  PROVE  Calm(u)'
<1>1. /\ message[j] = "ready" /\ connected
      /\ \E step \in {"giveup", FirstStep(requests[j].action)} : pc' = [pc EXCEPT ![j] = step]
      /\ message' = [message EXCEPT ![j] = "unacked"]
      /\ UNCHANGED <<requests, connected, containerExists, exists, world, answers>>
  BY DEF Deliver
<1>2. pc[j] = "idle" /\ ~Answered(j)
  BY <1>1 DEF ControlInv, HeldInv, DeliveryHasWorker, Unacked, Calm, Placed, TypeInv, TypeOK
<1>3. <<requests[j].action, FirstStep(requests[j].action)>>
        \in {<<"deploy", "find">>, <<"stop", "findStop">>, <<"kill", "findKill">>}
  <2>1. requests[j].action \in {"deploy", "stop", "kill"}
    BY UserType, InstanceJobsAssumption
  <2>2. QED
    BY <2>1 DEF FirstStep
<1>4. PICK step \in {"giveup", FirstStep(requests[j].action)} : pc' = [pc EXCEPT ![j] = step]
  BY <1>1
<1>5. Asked' = Asked /\ Asked \subseteq Jobs /\ (\A i \in Asked : User(i)' = User(i)) /\ SameStores(u)
  BY <1>1, InstanceJobsAssumption DEF Asked, User, TypeInv, TypeOK, Jobs, world, tables, SameStores
<1>6. (StoresAgree(u)' <=> StoresAgree(u)) /\ (Apart(u)' <=> Apart(u))
  BY <1>1 DEF StoresAgree, FilesMatch, Apart, world, tables
<1>7. told[j] = "none" /\ pc'[j] = step
  BY <1>2, <1>4 DEF Answered, TypeInv, TypeOK
<1>8. Progress(j, u)'
  <2>1. Progress(j, u)
    BY <1>7 DEF Calm
  <2>2. StoresAgree(u) /\ j \notin containerExists /\ j \notin exists
    BY <1>2, <2>1 DEF Progress, DeployProgress, Whole
  <2>3. QED
    BY <1>1, <1>3, <1>6, <1>7, <2>2
    DEF Progress, DeployProgress, StopProgress, KillProgress, DeploySteps, StopSteps, KillSteps
<1>9. Placed(j)'
  <2>1. step \in BeforeAck /\ ~Answered(j)'
    BY <1>1, <1>2, <1>3 DEF BeforeAck, DeploySteps, StopSteps, KillSteps, answers, Answered
  <2>2. QED
    BY <1>1, <1>7, <2>1, Disjoint DEF Placed
<1>10. ASSUME NEW i \in Asked, User(i) = u, i # j PROVE Placed(i)' /\ told'[i] # "none"
  <2>1. pc'[i] = pc[i] /\ message'[i] = message[i] /\ UNCHANGED <<result, told, connected>>
    BY <1>1, <1>4, <1>5, <1>10 DEF answers, TypeInv, TypeOK
  <2>2. QED
    BY <1>7, <1>10, <2>1 DEF Calm, Placed, Answered
<1>11. UNCHANGED told
  BY <1>1 DEF answers
<1>12. QED
  BY <1>5, <1>6, <1>7, <1>8, <1>9, <1>10, <1>11 DEF Calm, Waits

\* A request is a new job, for which nothing has been done.
LEMMA PublishAsks ==
  ASSUME TypeInv, NewJobs, NEW v \in Users, NEW a \in Actions, Publish(v, a)
  PROVE  \E j \in Jobs \ Asked :
           /\ Asked' = Asked \cup {j} /\ User(j)' = v
           /\ \A i \in Asked : requests'[i] = requests[i] /\ User(i)' = User(i) /\ message'[i] = message[i]
           /\ pc[j] = "idle" /\ ~Answered(j) /\ j \notin containerExists /\ j \notin exists
           /\ message' = [message EXCEPT ![j] = "ready"]
           /\ UNCHANGED <<connected, locals, world, answers>>
           /\ NewJobs'
<1> DEFINE job == [user |-> v, action |-> a]
<1>0. PICK j \in Jobs : j = Len(requests) + 1
  BY DEF Publish
<1>1. /\ requests' = Append(requests, job)
      /\ message' = [message EXCEPT ![j] = "ready"]
      /\ UNCHANGED <<connected, locals, world, answers>>
  BY <1>0 DEF Publish
<1>2. /\ j \notin Asked /\ Asked' = Asked \cup {j} /\ User(j)' = v
      /\ \A i \in Asked : requests'[i] = requests[i] /\ User(i)' = User(i)
  <2>1. requests \in Seq([user : Users, action : Actions]) /\ job \in [user : Users, action : Actions]
    BY DEF TypeInv, TypeOK
  <2>2. /\ Len(requests') = j /\ requests'[j] = job
        /\ \A i \in 1..Len(requests) : requests'[i] = requests[i]
        /\ DOMAIN requests' = 1..j /\ DOMAIN requests = 1..Len(requests)
    BY <1>0, <1>1, <2>1
  <2>3. j \notin Asked /\ Asked' = Asked \cup {j}
    BY <1>0, <2>1, <2>2 DEF Asked
  <2>4. requests'[j].user = v
    BY <2>2
  <2>5. \A i \in Asked : requests'[i] = requests[i]
    BY <2>2 DEF Asked
  <2>6. QED
    BY <2>3, <2>4, <2>5 DEF User
<1> HIDE DEF job
<1>3. pc[j] = "idle" /\ ~Answered(j) /\ j \notin containerExists /\ j \notin exists
  BY <1>2 DEF TypeInv, AskedOK, NewJobs
<1>4. \A i \in Asked : message'[i] = message[i]
  <2>1. Asked \subseteq Jobs
    BY InstanceJobsAssumption DEF TypeInv, TypeOK, Asked, Jobs
  <2>2. QED
    BY <1>1, <1>2, <2>1 DEF TypeInv, TypeOK
<1>5. NewJobs'
  BY <1>1, <1>2 DEF NewJobs, Answered, answers, locals
<1>6. QED
  BY <1>1, <1>2, <1>3, <1>4, <1>5

\* ... his next request, once he has been answered, ...
LEMMA PublishCalm ==
  ASSUME TypeInv, NewJobs, NEW v \in Users, NEW a \in Actions, Publish(v, a), NEW u \in Users, Calm(u),
         u = v => ~Waits(u)
  PROVE  Calm(u)'
<1>1. PICK j \in Jobs \ Asked :
        /\ Asked' = Asked \cup {j} /\ User(j)' = v
        /\ \A i \in Asked : requests'[i] = requests[i] /\ User(i)' = User(i) /\ message'[i] = message[i]
        /\ pc[j] = "idle" /\ ~Answered(j) /\ j \notin containerExists /\ j \notin exists
        /\ message' = [message EXCEPT ![j] = "ready"]
        /\ UNCHANGED <<connected, locals, world, answers>>
  BY PublishAsks
<1>2. UNCHANGED told /\ (StoresAgree(u)' <=> StoresAgree(u)) /\ (Apart(u)' <=> Apart(u))
  BY <1>1 DEF StoresAgree, FilesMatch, Apart, world, tables, answers
<1>3. Placed(j)'
  BY <1>1 DEF Placed, Answered, answers, locals, AfterAck
<1>4. ASSUME NEW i \in Asked, User(i) = u PROVE Placed(i)'
  BY <1>1, <1>4 DEF Calm, Placed, Answered, answers, locals
<1>5. ASSUME NEW i \in Asked, User(i) = u, told[i] = "none" PROVE Progress(i, u)'
  <2>1. Progress(i, u) /\ requests'[i] = requests[i]
    BY <1>1, <1>5 DEF Calm
  <2>2. QED
    BY <1>1, <2>1 DEF Progress, DeployProgress, StopProgress, KillProgress, StoresAgree, Fresh,
       FilesMatch, OtherFilesMatch, locals, world, tables
<1>6. ASSUME u = v PROVE Progress(j, u)' /\ StoresAgree(u)'
  <2>1. StoresAgree(u)'
    BY <1>2, <1>6 DEF Calm
  <2>2. QED
    BY <1>1, <2>1
    DEF Progress, DeployProgress, StopProgress, KillProgress, DeploySteps, StopSteps, KillSteps, locals
<1>7. \A i, k \in Asked' : User(i)' = u /\ User(k)' = u /\ told'[i] = "none" /\ told'[k] = "none" => i = k
  BY <1>1, <1>2 DEF Calm, Waits
<1>8. \A i \in Asked' : User(i)' = u => Placed(i)' /\ (told'[i] = "none" => Progress(i, u)')
  BY <1>1, <1>2, <1>3, <1>4, <1>5, <1>6
<1>9. Waits(u)' \/ StoresAgree(u)'
  BY <1>1, <1>2 DEF Calm, Waits
<1>10. QED
  BY <1>2, <1>7, <1>8, <1>9 DEF Calm

\* ... the answer he polls ...
LEMMA PollCalm ==
  ASSUME TypeInv, NEW j \in Asked, j \in Jobs, Poll(j), NEW u \in Users, User(j) = u, Calm(u)
  PROVE  Calm(u)'
<1>1. /\ result[j] # "none" /\ told' = [told EXCEPT ![j] = result[j]]
      /\ result' = [result EXCEPT ![j] = "none"]
      /\ UNCHANGED <<requests, broker, locals, world>>
  BY DEF Poll
<1>2. Asked' = Asked /\ Asked \subseteq Jobs /\ \A i \in Asked : User(i)' = User(i)
  BY <1>1, InstanceJobsAssumption DEF Asked, User, TypeInv, TypeOK, Jobs
<1>3. told'[j] # "none" /\ \A i \in Asked \ {j} : told'[i] = told[i] /\ result'[i] = result[i]
  BY <1>1, <1>2 DEF TypeInv, TypeOK
<1>4. (StoresAgree(u)' <=> StoresAgree(u)) /\ (Apart(u)' <=> Apart(u))
  BY <1>1 DEF StoresAgree, FilesMatch, Apart, world, tables
<1>5. ASSUME NEW i \in Asked, User(i) = u PROVE Placed(i)' /\ (i # j => told'[i] = told[i])
  BY <1>1, <1>3, <1>5 DEF Calm, Placed, Answered, broker, locals
<1>6. ASSUME NEW i \in Asked, User(i) = u, told'[i] = "none" PROVE Progress(i, u)'
  <2>1. Progress(i, u)
    BY <1>3, <1>6 DEF Calm
  <2>2. QED
    BY <1>1, <2>1 DEF Progress, DeployProgress, StopProgress, KillProgress, StoresAgree, Fresh,
       FilesMatch, OtherFilesMatch, locals, world, tables
<1>7. Waits(u)' \/ StoresAgree(u)'
  <2>1. CASE told[j] = "none"
    <3>1. pc[j] \in {"idle", "forget"}
      BY <1>1 DEF Calm, Placed, Answered
    <3>2. StoresAgree(u)
      BY <2>1, <3>1 DEF Calm, Progress, Whole
    <3>3. QED
      BY <1>4, <3>2
  <2>2. CASE told[j] # "none"
    BY <1>2, <1>3, <1>4, <2>2 DEF Calm, Waits
  <2>3. QED
    BY <2>1, <2>2
<1>8. QED
  BY <1>2, <1>3, <1>4, <1>5, <1>6, <1>7 DEF Calm

\* ... a request of the domain page that is neither about his container's name nor removes
\* a domain of his for another, and that he does not make before he was answered ...
PageStep(v, d) ==
  \/ AddUserDomain(v, d) /\ troubled' = troubled \cup Overlapping(v) \cup Misnamed(v, d)
  \/ RemoveUserDomain(v, d) /\ troubled' = troubled \cup Overlapping(v) \cup Robbed(v, d)

LEMMA PageCalm ==
  ASSUME TypeInv, NEW v \in Users, NEW d \in Domain, PageStep(v, d), NEW u \in Users \ troubled', Calm(u)
  PROVE  Calm(u)'
<1>1. /\ UNCHANGED <<requests, broker, locals, container, userip, row, answers>>
      /\ WorldOK /\ NoUser \notin Users
      /\ Asked \subseteq Jobs
  <2>1. UNCHANGED <<requests, broker, locals, container, userip, row, answers>>
    BY DEF PageStep, AddUserDomain, RemoveUserDomain, Page
  <2>2. WorldOK /\ NoUser \notin Users
    BY TypeParts, InstanceJobsAssumption DEF TypeInv
  <2>3. Asked \subseteq Jobs
    BY InstanceJobsAssumption DEF TypeInv, TypeOK, Asked, Jobs
  <2>4. QED
    BY <2>1, <2>2, <2>3
<1>2. \A j \in Jobs : Stays(j)
  BY <1>1 DEF Stays, broker, locals, answers
<1>3. d # u /\ (u = v => ~Waits(u))
  BY DEF PageStep, Overlapping, Misnamed, Robbed
<1>4. CASE u # v
  <2>1. conf[d] # u /\ domains[d] # u
    BY <1>1, <1>3, <1>4 DEF PageStep, AddUserDomain, Robbed, Calm, Apart
  <2>2. SameStores(u)
    BY <1>1, <1>3, <1>4, <2>1
    DEF PageStep, AddUserDomain, RemoveUserDomain, DeleteRows, SameStores, WorldOK, Domain
  <2>3. QED
    BY <1>1, <1>2, <2>2, CalmStays
<1>5. CASE u = v
  <2>1. ~Waits(u) /\ StoresAgree(u) /\ Apart(u)
    BY <1>3, <1>5 DEF Calm
  <2>2. StoresAgree(u)' /\ Apart(u)'
    <3>1. CASE AddUserDomain(v, d) /\ d \notin Users
      BY <1>1, <1>3, <1>5, <2>1, <3>1 DEF AddUserDomain, StoresAgree, FilesMatch, Apart, WorldOK, Domain
    <3>2. CASE RemoveUserDomain(v, d)
      BY <1>1, <1>3, <1>5, <2>1, <3>2 DEF RemoveUserDomain, DeleteRows, StoresAgree, FilesMatch, Apart, WorldOK, Domain
    <3>3. QED
      BY <1>5, <3>1, <3>2 DEF PageStep, Misnamed
  <2>3. Asked' = Asked /\ (\A j \in Asked : User(j)' = User(j)) /\ UNCHANGED told
    BY <1>1 DEF Asked, User, answers
  <2>4. ASSUME NEW j \in Asked, User(j) = u PROVE Placed(j)' /\ told[j] # "none"
    BY <1>1, <2>1, <2>4 DEF Calm, Placed, Answered, Waits, broker, locals, answers
  <2>5. QED
    BY <2>2, <2>3, <2>4 DEF Calm
<1>6. QED
  BY <1>4, <1>5

\* ... and an incident, unless a goroutine of his is at work.
LEMMA IncidentCalm ==
  ASSUME TypeInv, Crash \/ ConnectionLost \/ BrokerRestart, NEW u \in Users \ AtWork, Calm(u)
  PROVE  Calm(u)'
<1>1. /\ UNCHANGED <<requests, world, answers>>
      /\ \A i \in Jobs : message[i] = "gone" => message'[i] = "gone"
      /\ \/ UNCHANGED locals
         \/ pc' = [i \in Jobs |-> "idle"] /\ containerExists' = {} /\ exists' = {}
  BY DEF Crash, ConnectionLost, BrokerRestart, Incident, Requeue, TypeInv, TypeOK
<1>2. Asked \subseteq Jobs
  BY InstanceJobsAssumption DEF TypeInv, TypeOK, Asked, Jobs
<1>3. ASSUME NEW i \in Asked, User(i) = u PROVE Stays(i)
  <2>1. i \in Jobs /\ pc[i] = "idle"
    BY <1>2, <1>3 DEF AtWork
  <2>2. told[i] = "none" => i \notin containerExists /\ i \notin exists
    BY <1>3, <2>1 DEF Calm, Progress, DeployProgress
  <2>3. QED
    BY <1>1, <2>1, <2>2 DEF Stays, answers, locals
<1>4. SameStores(u)
  BY <1>1 DEF SameStores, world, tables
<1>5. QED
  BY <1>1, <1>3, <1>4, CalmStays

\* The five stores agree about every user who has been answered, however many others are
\* at work, fail or overlap: unless he asked before he was answered, a call failed for him
\* or his address stayed without a row, something broke down under a goroutine of his, or
\* the page was used on his container's name or, by another, to remove his domain.
THEOREM Agreement == HistorySpec => []StoresAgreeUnlessTroubled
<1> DEFINE Inv == TypeInv /\ ControlInv
<1>1. HistoryInit => StoresInv
  BY InstanceJobsAssumption DEF HistoryInit, Init, StoresInv, NewJobs, Calm, Waits, Asked, StoresAgree, FilesMatch, Answered, Apart, Domain
<1>2. Inv /\ StoresInv /\ [HistoryNext]_<<vars, history>> => StoresInv'
  <2> SUFFICES ASSUME TypeInv, ControlInv, StoresInv, [HistoryNext]_<<vars, history>> PROVE StoresInv'
    OBVIOUS
  <2>1. Asked \subseteq Jobs /\ \A j \in Asked : User(j) \in Users
    <3>1. Asked \subseteq Jobs
      BY InstanceJobsAssumption DEF TypeInv, TypeOK, Asked, Jobs
    <3>2. QED
      BY <3>1, UserType
  <2>2. NewJobs /\ \A u \in Users \ troubled : Calm(u)
    BY DEF StoresInv
  <2>3. ASSUME UNCHANGED requests,
               \A j \in Jobs \ Asked : /\ j \in containerExists' => j \in containerExists
                                       /\ j \in exists' => j \in exists
                                       /\ result'[j] = result[j] /\ told'[j] = told[j]
        PROVE  NewJobs'
    BY <2>2, <2>3 DEF NewJobs, Answered, Asked
  <2>4. ASSUME NEW j \in Jobs,
               \/ Work(j) /\ troubled' = troubled \cup Unrecorded(j)
               \/ CallFails(j) /\ troubled' = troubled \cup {User(j)}
        PROVE  StoresInv'
    <3>1. Frame(j) /\ UNCHANGED <<requests, told>> /\ j \in Asked
      BY <2>4, WorkFrame
    <3>2. NewJobs'
      BY <2>3, <3>1 DEF Frame, Stays
    <3>3. ASSUME NEW u \in Users \ troubled' PROVE Calm(u)'
      <4>1. Calm(u) /\ (User(j) = u => Work(j) /\ ~ConflictsExhausted(j))
        <5>1. ConflictsExhausted(j) => Unrecorded(j) = {User(j)}
          BY <3>1 DEF ConflictsExhausted, Go, world, Unrecorded, TypeInv, TypeOK
        <5>2. QED
          BY <2>2, <2>4, <5>1
      <4>2. CASE User(j) = u
        BY <4>1, <4>2, WorkCalm
      <4>3. CASE User(j) # u
        BY <2>1, <3>1, <4>1, <4>3, CalmStays DEF Frame, Calm
      <4>4. QED
        BY <4>2, <4>3
    <3>4. QED
      BY <3>2, <3>3 DEF StoresInv
  <2>5. ASSUME NEW v \in Users, NEW a \in Actions, Publish(v, a),
               troubled' = troubled \cup Overlapping(v)
        PROVE  StoresInv'
    <3>1. ASSUME NEW u \in Users \ troubled' PROVE Calm(u)'
      <4>1. Calm(u) /\ (u = v => ~Waits(u))
        BY <2>2, <2>5, <3>1 DEF Overlapping
      <4>2. QED
        BY <2>2, <2>5, <4>1, PublishCalm
    <3>2. NewJobs'
      BY <2>2, <2>5, PublishAsks
    <3>3. QED
      BY <3>1, <3>2 DEF StoresInv
  <2>6. ASSUME NEW v \in Users, NEW d \in Domain, PageStep(v, d) PROVE StoresInv'
    <3>1. UNCHANGED <<requests, locals, answers>>
      BY <2>6 DEF PageStep, AddUserDomain, RemoveUserDomain, Page
    <3>2. \A u \in Users \ troubled' : Calm(u)'
      BY <2>2, <2>6, PageCalm DEF PageStep
    <3>3. NewJobs'
      BY <2>3, <3>1 DEF locals, answers
    <3>4. QED
      BY <3>2, <3>3 DEF StoresInv
  <2>7. ASSUME NEW j \in Jobs, Deliver(j) \/ Poll(j) \/ Expire(j), UNCHANGED troubled PROVE StoresInv'
    <3>1. j \in Asked
      <4>1. message[j] # "none" \/ Answered(j)
        BY <2>7 DEF Deliver, Poll, Expire, Answered
      <4>2. QED
        BY <2>2, <4>1 DEF NewJobs, TypeInv, AskedOK
    <3>2. /\ UNCHANGED <<requests, connected, containerExists, exists, world>>
          /\ \A i \in Jobs \ {j} : Stays(i)
      BY <2>7 DEF Deliver, Poll, Expire, Stays, TypeInv, TypeOK, broker, locals, answers
    <3>3. \A u \in Users : SameStores(u)
      BY <3>2 DEF SameStores, world, tables
    <3>4. ASSUME NEW u \in Users \ troubled' PROVE Calm(u)'
      <4>1. Calm(u)
        BY <2>2, <2>7
      <4>2. CASE User(j) # u
        BY <2>1, <3>2, <3>3, <4>1, <4>2, CalmStays
      <4>3. CASE User(j) = u /\ Expire(j)
        <5>1. Stays(j)
          BY <4>3 DEF Expire, Stays, TypeInv, TypeOK, locals, answers
        <5>2. QED
          BY <2>1, <3>2, <3>3, <4>1, <5>1, CalmStays
      <4>4. CASE User(j) = u /\ ~Expire(j)
        BY <2>7, <3>1, <4>1, <4>4, DeliverCalm, PollCalm
      <4>5. QED
        BY <4>2, <4>3, <4>4
    <3>5. NewJobs'
      BY <2>3, <3>1, <3>2 DEF Stays
    <3>6. QED
      BY <3>4, <3>5 DEF StoresInv
  <2>8. ASSUME Crash \/ ConnectionLost \/ BrokerRestart, troubled' = troubled \cup AtWork PROVE StoresInv'
    <3>1. NewJobs'
      BY <2>3, <2>8 DEF Crash, ConnectionLost, BrokerRestart, Incident, locals, answers
    <3>2. ASSUME NEW u \in Users \ troubled' PROVE Calm(u)'
      <4>1. Calm(u) /\ u \notin AtWork
        BY <2>2, <2>8
      <4>2. QED
        BY <2>8, <4>1, IncidentCalm
    <3>3. QED
      BY <3>1, <3>2 DEF StoresInv
  <2>9. CASE UNCHANGED <<vars, history>>
    <3>1. /\ UNCHANGED <<requests, containerExists, exists, troubled>>
          /\ (\A j \in Jobs : Stays(j)) /\ \A u \in Users : SameStores(u)
      BY <2>9 DEF vars, history, broker, locals, world, tables, answers, Stays, SameStores
    <3>2. NewJobs'
      BY <2>3, <3>1 DEF Stays
    <3>3. \A u \in Users \ troubled' : Calm(u)'
      BY <2>1, <2>2, <3>1, CalmStays
    <3>4. QED
      BY <3>2, <3>3 DEF StoresInv
  <2>10. QED
    BY <2>4, <2>5, <2>6, <2>7, <2>8, <2>9 DEF HistoryNext, PageStep
<1>3. StoresInv => StoresAgreeUnlessTroubled
  <2> SUFFICES ASSUME StoresInv, NEW u \in Users \ troubled, AtRest(u) PROVE StoresAgree(u)
    BY DEF StoresAgreeUnlessTroubled
  <2>1. ~Waits(u)
    BY DEF Waits, AtRest
  <2>2. QED
    BY <2>1 DEF StoresInv, Calm
<1>4. QED
  BY <1>1, <1>2, <1>3, HistoryKeeps, PTL DEF HistorySpec
=============================================================================
