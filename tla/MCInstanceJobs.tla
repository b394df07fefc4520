--------------------------- MODULE MCInstanceJobs ---------------------------
(***************************************************************************)
(* Small instances of InstanceJobs, with the history of the users and jobs *)
(* the code promises nothing about any more.                               *)
(***************************************************************************)
EXTENDS InstanceJobs, TLC

AllActions == {"deploy", "stop", "kill"}
None == {}

\* One failing call before the Ack of each action (they all lead to Nack), and
\* every call whose failure is passed over.
TypicalFaults == {"provision", "stop", "delete",
                  "halt", "deleteDomains", "result", "giveupResult"}

\* The long calls to LXD, whose failures leave the most behind.
LxdFaults == {"create", "provision", "delete"}
ProvisionFaults == {"provision", "domain", "conf"}

AllIncidents == {"crash", "drop", "broker"}

VARIABLES
  troubled,   \* users about whose stores nothing is promised any more
  orphaned    \* jobs on their way to the Ack when the connection was lost

history == <<troubled, orphaned>>

Waits(u) == \E j \in Asked : User(j) = u /\ told[j] = "none"

AtWork == {User(j) : j \in {i \in Asked : pc[i] # "idle"}}

\* A user who asks for something before he was answered is troubled by it.
Overlapping(u) == IF Waits(u) THEN {u} ELSE {}

\* So is the user whose container has the name of a domain that is published or
\* removed, who publishes such a name, or whose domain another user removes.
Misnamed(u, d) == IF d \in Users THEN {d, u} ELSE {}
Robbed(u, d) == ({d} \cap Users) \cup ({domains[d]} \ {u, NoUser})

\* So is the user of a deploy that goes on with an address that has no row.
Unrecorded(j) == IF pc[j] = "allocate" /\ pc'[j] = "create" /\ userip' = userip THEN {User(j)} ELSE {}

HistoryInit == Init /\ troubled = {} /\ orphaned = {}

HistoryNext ==
  \/ /\ \E u \in Users :
          \/ /\ \E a \in Actions : Publish(u, a)
             /\ troubled' = troubled \cup Overlapping(u)
          \/ \E d \in Domain :
               \/ AddUserDomain(u, d) /\ troubled' = troubled \cup Overlapping(u) \cup Misnamed(u, d)
               \/ RemoveUserDomain(u, d) /\ troubled' = troubled \cup Overlapping(u) \cup Robbed(u, d)
     /\ UNCHANGED orphaned
  \/ /\ \E j \in Jobs :
          \/ (Deliver(j) \/ Expire(j) \/ Poll(j)) /\ UNCHANGED troubled
          \/ Work(j) /\ troubled' = troubled \cup Unrecorded(j)
          \/ CallFails(j) /\ troubled' = troubled \cup {User(j)}
     /\ UNCHANGED orphaned
  \/ /\ Crash \/ BrokerRestart
     /\ troubled' = troubled \cup AtWork
     /\ UNCHANGED orphaned
  \/ /\ ConnectionLost
     /\ troubled' = troubled \cup AtWork
     /\ orphaned' = orphaned \cup {j \in Jobs : pc[j] \in BeforeAck}

HistorySpec == HistoryInit /\ [][HistoryNext]_<<vars, history>>

HistoryFairSpec == HistorySpec /\ Fairness

\* Users are interchangeable (safety runs only).
Symmetric == Permutations(Users)

\* When a user who waits for his answers has been answered, the five stores agree about
\* his instance and his domains, however many others are at work, fail or overlap.  It
\* takes one of these to break it: he asks before he was answered; a call fails for him, or
\* his address stays without a row (instance.go:285); something breaks down under a
\* goroutine of his; the page publishes or removes his container's name, by whoever's
\* request, or another user removes his domain's file (domain_handler.go:94).
StoresAgreeUnlessTroubled == \A u \in Users \ troubled : AtRest(u) => StoresAgree(u)

\* An answered job is over: its message is settled, so no later delivery can touch the
\* instance on its behalf or answer it again.  Excepted are only the jobs whose delivery
\* the broker took back, with the connection, from under a goroutine that went on.
AnsweredIsOver ==
  \A j \in Jobs \ orphaned : Answered(j) => message[j] = "gone" /\ pc[j] \in {"idle", "forget"}

Phase == [j \in Jobs |-> IF result[j] # "none" THEN result[j]
                        ELSE IF told[j] # "none" THEN told[j]
                        ELSE IF j \in Asked THEN "pending" ELSE "new"]

Service == INSTANCE JobService WITH phase <- Phase

\* A request is answered once, and the answer is neither taken back nor changed by crashes,
\* broker restarts, failing calls and retries.  A connection lost before its Ack is the
\* exception: the job is delivered again after the restart and an "ok" may become a "fail"
\* (instance_utility.go:99); other jobs keep their answers then, too.
AnsweredOnce == Service!Safe

\* With no incident, and where the Put of the result succeeds (instance_utility.go:107), the
\* jobs implement the abstract service: every request is answered, after three failed
\* attempts with "fail".
EveryJobAnswered == Service!Live
=============================================================================
