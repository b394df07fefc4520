------------------------------ MODULE MCTunnels ------------------------------
(***************************************************************************)
(* Small instances of Tunnels, with a history of what was created and of   *)
(* what went wrong.                                                        *)
(***************************************************************************)
EXTENDS Tunnels

VARIABLES
  created,    \* requests whose row has been inserted
  spoiled,    \* domains for which a step failed or that were taken already
  destroyed,  \* domains of tunnels that were destroyed
  lost        \* the connection was lost

history == <<created, spoiled, destroyed, lost>>

HistoryInit == Init /\ created = {} /\ spoiled = {} /\ destroyed = {} /\ lost = FALSE

Taken(w) == pc[w] = "insert" /\ tunnels[Domain(w)] # NoUser

HistoryNext ==
  \/ \E j \in Requests, u \in Users, d \in Domains : CreateTunnel(j, u, d) /\ UNCHANGED history
  \/ \E u \in Users, d \in Domains :
       DestroyTunnel(u, d) /\ destroyed' = destroyed \cup {d} /\ UNCHANGED <<created, spoiled, lost>>
  \/ Broker /\ UNCHANGED history
  \/ Restart /\ UNCHANGED history
  \/ ConnectionLost /\ lost' = TRUE /\ UNCHANGED <<created, spoiled, destroyed>>
  \/ \E w \in Workers :
       /\ UNCHANGED <<destroyed, lost>>
       /\ \/ CallFails(w) /\ spoiled' = spoiled \cup {Domain(w)} /\ UNCHANGED created
          \/ /\ Work(w)
             /\ spoiled' = IF Taken(w) THEN spoiled \cup {Domain(w)} ELSE spoiled
             /\ created' = IF tunnels' # tunnels THEN created \cup {job[w]} ELSE created

FairHistorySpec == HistoryInit /\ [][HistoryNext]_<<vars, history>> /\ Fairness

\* A request leaves the broker only when its tunnel has been created: the Ack
\* at the end of every path is never the first settlement of a failed one.
GoneMeansCreated == \A j \in Requests : message[j] = "gone" => j \in created

\* As long as no step of it fails and nobody has it, a tunnel's row has its
\* file, through restarts and lost connections; and a file without a row is
\* that of a request at work, of one a restart cut off, or left by DestroyTunnel.
FilesMatchRowsUnlessSpoiled ==
  \A d \in Domains \ spoiled :
    /\ tunnels[d] # NoUser => d \in conf
    /\ d \in conf /\ tunnels[d] = NoUser =>
         d \in destroyed \/ incidents > 0 \/ \E w \in Workers : pc[w] # "idle" /\ Domain(w) = d

\* Every request that waits for the consumer is carried out and acknowledged,
\* through restarts, until some step fails, a domain is taken or the connection
\* is lost: then the consumer ends and nobody starts it again.
EveryTunnelCreated ==
  \A j \in Requests :
    message[j] = "ready" ~> (message[j] = "gone" \/ spoiled # {} \/ lost)
=============================================================================
