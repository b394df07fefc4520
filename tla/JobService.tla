----------------------------- MODULE JobService -----------------------------
(***************************************************************************)
(* What a deploy/stop/kill request promises its user: it is accepted, and  *)
(* then answered once, "ok" or "fail" - unless the connection to the       *)
(* broker is lost before the answer: then the same request may be worked   *)
(* on again and answered again.  Live adds that it is answered.            *)
(* InstanceJobs, the model of the queue and its workers, implements it.    *)
(***************************************************************************)
CONSTANT Jobs

VARIABLES
  phase,     \* phase[j]: how far request j has come
  orphaned   \* the requests under way when a connection was lost

Init ==
  /\ phase = [j \in Jobs |-> "new"]
  /\ orphaned = {}

Submit(j) ==
  /\ phase[j] = "new"
  /\ phase' = [phase EXCEPT ![j] = "pending"]
  /\ UNCHANGED orphaned

Answer(j) ==
  /\ phase[j] = "pending" \/ j \in orphaned
  /\ \E a \in {"ok", "fail"} : phase' = [phase EXCEPT ![j] = a]
  /\ UNCHANGED orphaned

\* The connection is lost, with nothing promised any more to those not yet answered.
Lose ==
  /\ \E js \in SUBSET {j \in Jobs : phase[j] = "pending"} : orphaned' = orphaned \cup js
  /\ UNCHANGED phase

Next == Lose \/ \E j \in Jobs : Submit(j) \/ Answer(j)

Safe == Init /\ [][Next]_<<phase, orphaned>>

Live == Safe /\ \A j \in Jobs : phase[j] = "pending" ~> phase[j] \in {"ok", "fail"}
=============================================================================
