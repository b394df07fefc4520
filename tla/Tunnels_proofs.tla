--------------------------- MODULE Tunnels_proofs ---------------------------
(***************************************************************************)
(* Theorems about Tunnels for every set of users, domains, messages and    *)
(* goroutines, every prefetch count, every choice of failing calls, and    *)
(* any number of restarts and lost connections.                            *)
(***************************************************************************)
EXTENDS MCTunnels, FiniteSetTheorems, TLAPS

\* A call of CreateTunnelUtility moves its goroutine on and keeps the types.
LEMMA StepTypes ==
  ASSUME TypeOK, NEW w \in Workers, pc[w] # "idle", NEW step \in Steps, GoTo(w, step),
         tunnels' \in [Domains -> Users \cup {NoUser}], conf' \subseteq Domains,
         UNCHANGED <<queue, consumer, unsettled, incidents>>
  PROVE  TypeOK'
BY DEF TypeOK, GoTo, queue

\* Ack and Nack leave every published message somewhere, and no type changes.
LEMMA SettleTypes ==
  ASSUME TypeOK, NEW w \in Workers, pc[w] # "idle", NEW place \in {"retry", "gone"},
         Settle(w, place)
  PROVE  /\ message' \in [Requests -> Places]
         /\ consumer' \in {"open", "closed"}
         /\ unsettled' \subseteq Workers
         /\ \A j \in Requests : message'[j] = "none" <=> message[j] = "none"
<1>1. job[w] \in Requests /\ message[job[w]] # "none"
  BY DEF TypeOK
<1>2. CASE w \in unsettled
  BY <1>1, <1>2 DEF TypeOK, Settle, Places
<1>3. CASE w \notin unsettled /\ consumer = "open"
  BY <1>3 DEF TypeOK, Settle, Requeued, Places
<1>4. CASE w \notin unsettled /\ consumer # "open"
  BY <1>4 DEF TypeOK, Settle
<1>5. QED
  BY <1>2, <1>3, <1>4

\* Rows, files, messages and goroutines keep their types; a goroutine works on
\* a message that has been published.
THEOREM Typing == Spec => []TypeOK
<1>1. Init => TypeOK
  BY TunnelsAssumption DEF Init, TypeOK, Places
<1>2. TypeOK /\ [Next]_vars => TypeOK'
  <2> SUFFICES ASSUME TypeOK, [Next]_vars PROVE TypeOK'
    OBVIOUS
  <2> USE TunnelsAssumption
  <2>1. ASSUME NEW u \in Users, NEW d \in Domains, NEW j \in Requests, CreateTunnel(j, u, d)
        PROVE  TypeOK'
    BY <2>1 DEF CreateTunnel, TypeOK, Places, locals
  <2>2. ASSUME NEW u \in Users, NEW d \in Domains, DestroyTunnel(u, d) PROVE TypeOK'
    BY <2>2 DEF DestroyTunnel, TypeOK, locals, queue
  <2>3. ASSUME NEW w \in Workers, NEW j \in Requests, Deliver(w, j) PROVE TypeOK'
    BY <2>3 DEF Deliver, TypeOK, Places, Steps
  <2>4. ASSUME NEW j \in Requests, Expire(j) PROVE TypeOK'
    BY <2>4 DEF Expire, TypeOK, Places, locals
  <2>5. ASSUME NEW w \in Workers, AddNewConf(w) \/ WriteFails(w) PROVE TypeOK'
    <3>1. Domain(w) \in Domains /\ pc[w] # "idle" /\ {"insert", "nackWrite"} \subseteq Steps
      BY <2>5 DEF AddNewConf, WriteFails, TypeOK, Domain, Steps
    <3>2. QED
      BY <2>5, <3>1, StepTypes DEF AddNewConf, WriteFails, TypeOK
  <2>6. ASSUME NEW w \in Workers, InsertTunnel(w) \/ InsertFails(w) PROVE TypeOK'
    <3>1. Domain(w) \in Domains /\ user[job[w]] \in Users /\ pc[w] # "idle"
          /\ {"ack", "unconf"} \subseteq Steps
      BY <2>6 DEF InsertTunnel, InsertFails, TypeOK, Domain, Steps
    <3>2. QED
      BY <2>6, <3>1, StepTypes DEF InsertTunnel, InsertFails, TypeOK
  <2>7. ASSUME NEW w \in Workers, RemoveConf(w) PROVE TypeOK'
    <3>1. pc[w] # "idle" /\ "nackInsert" \in Steps
      BY <2>7 DEF RemoveConf, Steps
    <3>2. QED
      BY <2>7, <3>1, StepTypes DEF RemoveConf, TypeOK
  <2>8. ASSUME NEW w \in Workers, NackWrite(w) \/ NackInsert(w) PROVE TypeOK'
    <3>1. /\ pc[w] # "idle" /\ Settle(w, "retry")
          /\ GoTo(w, "insert") \/ GoTo(w, "ack")
          /\ UNCHANGED <<tunnels, conf, user, domain, incidents>>
      BY <2>8 DEF NackWrite, NackInsert
    <3>2. QED
      BY <3>1, SettleTypes DEF TypeOK, GoTo, Steps
  <2>9. ASSUME NEW w \in Workers, Ack(w) PROVE TypeOK'
    <3>1. /\ pc[w] # "idle" /\ Settle(w, "gone") /\ Finish(w)
          /\ UNCHANGED <<tunnels, conf, user, domain, incidents>>
      BY <2>9 DEF Ack
    <3>2. QED
      BY <3>1, SettleTypes DEF TypeOK, Finish
  <2>10. ASSUME Restart \/ ConnectionLost PROVE TypeOK'
    BY <2>10 DEF Restart, ConnectionLost, Incident, Requeued, TypeOK, Places, locals
  <2>11. CASE UNCHANGED vars
    BY <2>11 DEF vars, queue, locals, TypeOK
  <2>12. QED
    BY <2>1, <2>2, <2>3, <2>4, <2>5, <2>6, <2>7, <2>8, <2>9, <2>10, <2>11
    DEF Next, Handle, Broker, Work, CallFails
<1>3. QED
  BY <1>1, <1>2, PTL DEF Spec

-----------------------------------------------------------------------------
\* The deliveries that are out are finitely many, so they can be counted.
Inv == DeliveryHasWorker /\ IsFiniteSet(unsettled)

\* Ack and Nack settle one delivery, requeue all of them, or do nothing.
LEMMA SettleKeeps ==
  ASSUME TypeOK, Inv, NEW w \in Workers, pc[w] # "idle", NEW place \in {"retry", "gone"},
         Settle(w, place)
  PROVE  /\ \A v \in unsettled' : v \in unsettled /\ message'[job[v]] = "unacked"
         /\ \A j \in Requests : message'[j] = "unacked" => \E v \in unsettled' : job[v] = j
         /\ w \notin unsettled'
         /\ IsFiniteSet(unsettled') /\ Cardinality(unsettled') <= Prefetch
<1> USE TunnelsAssumption
<1>1. CASE w \in unsettled
  <2>1. /\ message' = [message EXCEPT ![job[w]] = place] /\ unsettled' = unsettled \ {w}
        /\ job[w] \in Requests
    BY <1>1 DEF Settle, TypeOK
  <2>2. IsFiniteSet(unsettled') /\ Cardinality(unsettled') <= Prefetch
    <3>1. IsFiniteSet(unsettled) /\ Cardinality(unsettled) \in Nat
      BY FS_CardinalityType DEF Inv
    <3>2. /\ IsFiniteSet(unsettled \ {w})
          /\ Cardinality(unsettled \ {w}) = Cardinality(unsettled) - 1
      BY <1>1, <3>1, FS_RemoveElement
    <3>3. QED
      BY <2>1, <3>1, <3>2 DEF Inv, DeliveryHasWorker
  <2>3. QED
    BY <1>1, <2>1, <2>2 DEF Inv, DeliveryHasWorker, TypeOK
<1>2. CASE w \notin unsettled /\ consumer = "open"
  <2>1. message' = Requeued /\ unsettled' = {}
    BY <1>2 DEF Settle
  <2>2. \A j \in Requests : message'[j] # "unacked"
    BY <2>1 DEF Requeued
  <2>3. IsFiniteSet(unsettled') /\ Cardinality(unsettled') <= Prefetch
    BY <2>1, FS_EmptySet
  <2>4. QED
    BY <2>1, <2>2, <2>3
<1>3. CASE w \notin unsettled /\ consumer # "open"
  BY <1>3 DEF Settle, Inv, DeliveryHasWorker
<1>4. QED
  BY <1>1, <1>2, <1>3

\* Every delivery that the broker waits for has its one goroutine, and at most
\* Prefetch of them are out, through double settlements, restarts, lost
\* connections and redeliveries.
THEOREM DeliveriesSettled == Spec => []DeliveryHasWorker
<1>1. Init => Inv
  BY FS_EmptySet, TunnelsAssumption DEF Init, Inv, DeliveryHasWorker
<1>2. TypeOK /\ Inv /\ [Next]_vars => Inv'
  <2> SUFFICES ASSUME TypeOK, Inv, [Next]_vars PROVE Inv'
    OBVIOUS
  <2> USE TunnelsAssumption
  <2>1. ASSUME UNCHANGED <<unsettled, job>>,
               \A w \in unsettled : pc[w] # "idle" => pc'[w] # "idle",
               \A j \in Requests : message'[j] = "unacked" <=> message[j] = "unacked"
        PROVE  Inv'
    BY <2>1 DEF Inv, DeliveryHasWorker, TypeOK
  <2>2. ASSUME NEW u \in Users, NEW d \in Domains, NEW j \in Requests, CreateTunnel(j, u, d)
        PROVE  Inv'
    BY <2>1, <2>2 DEF CreateTunnel, TypeOK, locals
  <2>3. ASSUME NEW u \in Users, NEW d \in Domains, DestroyTunnel(u, d) PROVE Inv'
    BY <2>1, <2>3 DEF DestroyTunnel, locals, queue
  <2>4. ASSUME NEW j \in Requests, Expire(j) PROVE Inv'
    BY <2>1, <2>4 DEF Expire, TypeOK, locals
  <2>5. ASSUME NEW w \in Workers, NEW step \in Steps, GoTo(w, step), UNCHANGED <<queue, unsettled>>
        PROVE  Inv'
    BY <2>1, <2>5 DEF GoTo, queue, TypeOK, Steps
  <2>6. ASSUME NEW w \in Workers,
               AddNewConf(w) \/ InsertTunnel(w) \/ RemoveConf(w) \/ WriteFails(w) \/ InsertFails(w)
        PROVE  Inv'
    BY <2>5, <2>6 DEF AddNewConf, InsertTunnel, RemoveConf, WriteFails, InsertFails, Steps
  <2>7. ASSUME NEW w \in Workers, NEW j \in Requests, Deliver(w, j) PROVE Inv'
    <3>1. /\ w \notin unsettled /\ Cardinality(unsettled) < Prefetch
          /\ message[j] = "ready"
          /\ message' = [message EXCEPT ![j] = "unacked"]
          /\ unsettled' = unsettled \cup {w}
          /\ pc' = [pc EXCEPT ![w] = "write"]
          /\ job' = [job EXCEPT ![w] = j]
      BY <2>7 DEF Deliver, Inv, DeliveryHasWorker
    <3>2. IsFiniteSet(unsettled') /\ Cardinality(unsettled') <= Prefetch
      <4>1. IsFiniteSet(unsettled) /\ Cardinality(unsettled) \in Nat
        BY FS_CardinalityType DEF Inv
      <4>2. /\ IsFiniteSet(unsettled \cup {w})
            /\ Cardinality(unsettled \cup {w}) = Cardinality(unsettled) + 1
        BY <3>1, <4>1, FS_AddElement
      <4>3. QED
        BY <3>1, <4>1, <4>2
    <3>3. \A v \in unsettled' : pc'[v] # "idle" /\ message'[job'[v]] = "unacked"
      BY <3>1 DEF Inv, DeliveryHasWorker, TypeOK
    <3>4. \A i \in Requests : message'[i] = "unacked" => \E v \in unsettled' : job'[v] = i
      BY <3>1 DEF Inv, DeliveryHasWorker, TypeOK
    <3>5. \A u, v \in unsettled' : job'[u] = job'[v] => u = v
      BY <3>1 DEF Inv, DeliveryHasWorker, TypeOK
    <3>6. QED
      BY <3>2, <3>3, <3>4, <3>5 DEF Inv, DeliveryHasWorker
  <2>8. ASSUME NEW w \in Workers, NackWrite(w) \/ NackInsert(w) PROVE Inv'
    <3>1. pc[w] # "idle" /\ Settle(w, "retry") /\ (GoTo(w, "insert") \/ GoTo(w, "ack"))
      BY <2>8 DEF NackWrite, NackInsert
    <3>2. QED
      BY <3>1, SettleKeeps DEF GoTo, Inv, DeliveryHasWorker, TypeOK
  <2>9. ASSUME NEW w \in Workers, Ack(w) PROVE Inv'
    <3>1. pc[w] # "idle" /\ Settle(w, "gone") /\ Finish(w)
      BY <2>9 DEF Ack
    <3>2. QED
      BY <3>1, SettleKeeps DEF Finish, Inv, DeliveryHasWorker, TypeOK
  <2>10. ASSUME Restart \/ ConnectionLost PROVE Inv'
    BY <2>10, FS_EmptySet DEF Restart, ConnectionLost, Requeued, Inv, DeliveryHasWorker
  <2>11. CASE UNCHANGED vars
    BY <2>11 DEF vars, queue, locals, Inv, DeliveryHasWorker
  <2>12. QED
    BY <2>2, <2>3, <2>4, <2>6, <2>7, <2>8, <2>9, <2>10, <2>11
    DEF Next, Handle, Broker, Work, CallFails
<1>3. Inv => DeliveryHasWorker
  BY DEF Inv
<1>4. QED
  BY <1>1, <1>2, <1>3, Typing, PTL DEF Spec
-----------------------------------------------------------------------------
\* With its history the consumer does what it does without.
LEMMA HistoryTypes == FairHistorySpec => []TypeOK
<1>1. HistoryInit => Init
  BY DEF HistoryInit
<1>2. [HistoryNext]_<<vars, history>> => [Next]_vars
  BY DEF HistoryNext, Next, Handle
<1>3. QED
  BY <1>1, <1>2, Typing, PTL DEF FairHistorySpec, Spec

\* GoneMeansCreated is not inductive: a goroutine that is about to acknowledge a
\* delivery for the first time has inserted its row.
GoneInv ==
  /\ GoneMeansCreated
  /\ \A w \in unsettled : pc[w] = "ack" => job[w] \in created

\* After a Nack the goroutine's delivery is settled, and nothing has gone.
LEMMA NackKeepsGone ==
  ASSUME TypeOK, GoneInv, NEW w \in Workers, pc[w] # "idle", Settle(w, "retry"),
         NEW step \in Steps, GoTo(w, step), UNCHANGED created
  PROVE  GoneInv'
<1>1. /\ \A j \in Requests : message'[j] = "gone" => message[j] = "gone"
      /\ unsettled' \subseteq unsettled \ {w}
  BY DEF Settle, Requeued, TypeOK
<1>2. QED
  BY <1>1 DEF GoneInv, GoneMeansCreated, GoTo, TypeOK

\* So it is after the last Ack, but for the delivery it settles.
LEMMA AckKeepsGone ==
  ASSUME TypeOK, GoneInv, NEW w \in Workers, Ack(w), UNCHANGED created
  PROVE  GoneInv'
<1>1. pc[w] = "ack" /\ Settle(w, "gone") /\ Finish(w)
  BY DEF Ack
<1>2. /\ \A j \in Requests : message'[j] = "gone" => message[j] = "gone" \/ (w \in unsettled /\ j = job[w])
      /\ unsettled' \subseteq unsettled \ {w}
  BY <1>1 DEF Settle, Requeued, TypeOK
<1>3. QED
  BY <1>1, <1>2 DEF GoneInv, GoneMeansCreated, Finish, TypeOK

\* No request leaves the broker before its tunnel exists, although every path
\* of the consumer's goroutine, the failed ones too, ends with an Ack.
THEOREM GoneCreated == FairHistorySpec => []GoneMeansCreated
<1>1. HistoryInit => GoneInv
  BY DEF HistoryInit, Init, GoneInv, GoneMeansCreated
<1>2. TypeOK /\ GoneInv /\ [HistoryNext]_<<vars, history>> => GoneInv'
  <2> SUFFICES ASSUME TypeOK, GoneInv, [HistoryNext]_<<vars, history>> PROVE GoneInv'
    OBVIOUS
  <2> USE TunnelsAssumption DEF history
  <2>1. ASSUME NEW j \in Requests, NEW u \in Users, NEW d \in Domains, CreateTunnel(j, u, d),
               UNCHANGED history
        PROVE  GoneInv'
    BY <2>1 DEF CreateTunnel, GoneInv, GoneMeansCreated, TypeOK, locals
  <2>2. ASSUME NEW u \in Users, NEW d \in Domains, DestroyTunnel(u, d), UNCHANGED created
        PROVE  GoneInv'
    BY <2>2 DEF DestroyTunnel, GoneInv, GoneMeansCreated, locals, queue
  <2>3. ASSUME Broker, UNCHANGED history PROVE GoneInv'
    BY <2>3 DEF Broker, Expire, Deliver, GoneInv, GoneMeansCreated, TypeOK, locals
  <2>4. ASSUME Restart \/ ConnectionLost, UNCHANGED created PROVE GoneInv'
    BY <2>4 DEF Restart, ConnectionLost, Requeued, GoneInv, GoneMeansCreated
  <2>5. ASSUME NEW w \in Workers, CallFails(w), UNCHANGED created PROVE GoneInv'
    BY <2>5 DEF CallFails, WriteFails, InsertFails, GoTo, GoneInv, GoneMeansCreated, TypeOK, queue
  <2>6. ASSUME NEW w \in Workers, AddNewConf(w) \/ RemoveConf(w), created' = created PROVE GoneInv'
    BY <2>6 DEF AddNewConf, RemoveConf, GoTo, GoneInv, GoneMeansCreated, TypeOK, queue
  <2>7. ASSUME NEW w \in Workers, InsertTunnel(w),
               created' = IF tunnels' # tunnels THEN created \cup {job[w]} ELSE created
        PROVE  GoneInv'
    <3>1. pc[w] # "idle" /\ user[job[w]] # NoUser /\ Domain(w) \in Domains
      BY <2>7 DEF InsertTunnel, TypeOK, Domain
    <3>2. CASE tunnels[Domain(w)] = NoUser
      <4>1. tunnels' # tunnels
        BY <2>7, <3>1, <3>2 DEF InsertTunnel, TypeOK
      <4>2. QED
        BY <2>7, <3>2, <4>1 DEF InsertTunnel, GoTo, GoneInv, GoneMeansCreated, TypeOK, queue
    <3>3. CASE tunnels[Domain(w)] # NoUser
      BY <2>7, <3>3 DEF InsertTunnel, GoTo, GoneInv, GoneMeansCreated, TypeOK, queue
    <3>4. QED
      BY <3>2, <3>3
  <2>8. ASSUME NEW w \in Workers, NackWrite(w) \/ NackInsert(w), UNCHANGED created PROVE GoneInv'
    BY <2>8, NackKeepsGone DEF NackWrite, NackInsert, Steps
  <2>9. ASSUME NEW w \in Workers, Work(w),
               created' = IF tunnels' # tunnels THEN created \cup {job[w]} ELSE created
        PROVE  GoneInv'
    <3>1. AddNewConf(w) \/ RemoveConf(w) \/ NackWrite(w) \/ NackInsert(w) \/ Ack(w) => created' = created
      BY <2>9 DEF AddNewConf, RemoveConf, NackWrite, NackInsert, Ack
    <3>2. QED
      BY <2>6, <2>7, <2>8, <2>9, <3>1, AckKeepsGone DEF Work
  <2>10. ASSUME UNCHANGED <<vars, history>> PROVE GoneInv'
    BY <2>10 DEF vars, queue, locals, GoneInv, GoneMeansCreated
  <2>11. QED
    BY <2>1, <2>2, <2>3, <2>4, <2>5, <2>9, <2>10 DEF HistoryNext
<1>3. GoneInv => GoneMeansCreated
  BY DEF GoneInv
<1>4. QED
  BY <1>1, <1>2, <1>3, HistoryTypes, PTL DEF FairHistorySpec

-----------------------------------------------------------------------------
\* What each goroutine knows of its domain: an error branch is entered only with
\* the domain spoiled, the row is inserted under its file, and at the end the
\* row is there unless it was destroyed.
Progress ==
  \A w \in Workers :
    /\ pc[w] \in {"nackWrite", "unconf", "nackInsert"} => Domain(w) \in spoiled
    /\ pc[w] = "insert" => Domain(w) \in conf \cup spoiled
    /\ pc[w] = "ack" => Domain(w) \in spoiled \cup destroyed \/ tunnels[Domain(w)] # NoUser

FilesInv == Progress /\ FilesMatchRowsUnlessSpoiled

\* Until a step fails for a domain, or it is taken already, its row has its file
\* and its file has its row, with the exceptions FilesMatchRowsUnlessSpoiled names.
THEOREM FilesMatch == FairHistorySpec => []FilesMatchRowsUnlessSpoiled
<1>1. HistoryInit => FilesInv
  BY DEF HistoryInit, Init, FilesInv, Progress, FilesMatchRowsUnlessSpoiled
<1>2. TypeOK /\ FilesInv /\ [HistoryNext]_<<vars, history>> => FilesInv'
  <2> SUFFICES ASSUME TypeOK, FilesInv, [HistoryNext]_<<vars, history>> PROVE FilesInv'
    OBVIOUS
  <2> USE TunnelsAssumption DEF history
  <2>0. \A w \in Workers : pc[w] # "idle" => job[w] \in Requests /\ Domain(w) \in Domains
    BY DEF TypeOK, Domain
  <2>1. ASSUME NEW j \in Requests, NEW u \in Users, NEW d \in Domains, CreateTunnel(j, u, d),
               UNCHANGED history
        PROVE  FilesInv'
    <3>1. \A w \in Workers : pc[w] # "idle" => Domain(w)' = Domain(w)
      BY <2>1 DEF CreateTunnel, TypeOK, Domain, locals
    <3>2. QED
      BY <2>1, <3>1 DEF CreateTunnel, FilesInv, Progress, FilesMatchRowsUnlessSpoiled, locals
  <2>2. ASSUME NEW u \in Users, NEW d \in Domains, DestroyTunnel(u, d),
               destroyed' = destroyed \cup {d}, UNCHANGED <<created, spoiled, lost>>
        PROVE  FilesInv'
    <3>1. \A w \in Workers : Domain(w)' = Domain(w)
      BY <2>2 DEF DestroyTunnel, Domain, locals, queue
    <3>2. \A w \in Workers : tunnels'[Domain(w)] = IF Domain(w) = d THEN NoUser ELSE tunnels[Domain(w)]
      BY <2>2, <2>0 DEF DestroyTunnel, TypeOK
    <3>3. QED
      BY <2>2, <3>1, <3>2
      DEF DestroyTunnel, FilesInv, Progress, FilesMatchRowsUnlessSpoiled, TypeOK, locals, queue
  <2>3. ASSUME Broker, UNCHANGED history PROVE FilesInv'
    <3>1. ASSUME NEW j \in Requests, Expire(j) PROVE FilesInv'
      <4>1. \A w \in Workers : Domain(w)' = Domain(w)
        BY <3>1 DEF Expire, Domain, locals
      <4>2. QED
        BY <2>3, <3>1, <4>1 DEF Expire, FilesInv, Progress, FilesMatchRowsUnlessSpoiled, locals
    <3>2. ASSUME NEW v \in Workers, NEW j \in Requests, Deliver(v, j) PROVE FilesInv'
      <4>1. /\ pc[v] = "idle" /\ pc' = [pc EXCEPT ![v] = "write"]
            /\ \A w \in Workers \ {v} : pc'[w] = pc[w] /\ Domain(w)' = Domain(w)
        BY <3>2 DEF Deliver, Domain, TypeOK
      <4>2. QED
        BY <2>3, <3>2, <4>1 DEF Deliver, FilesInv, Progress, FilesMatchRowsUnlessSpoiled, TypeOK
    <3>3. QED
      BY <2>3, <3>1, <3>2 DEF Broker
  <2>4. ASSUME Restart, UNCHANGED history PROVE FilesInv'
    BY <2>4 DEF Restart, Incident, FilesInv, Progress, FilesMatchRowsUnlessSpoiled, TypeOK
  <2>5. ASSUME ConnectionLost, UNCHANGED <<created, spoiled, destroyed>> PROVE FilesInv'
    <3>1. \A w \in Workers : Domain(w)' = Domain(w)
      BY <2>5 DEF ConnectionLost, Domain, locals
    <3>2. QED
      BY <2>5, <3>1
      DEF ConnectionLost, Incident, FilesInv, Progress, FilesMatchRowsUnlessSpoiled, TypeOK, locals
  <2>6. ASSUME NEW w \in Workers, NEW step \in Steps, pc[w] # "idle", GoTo(w, step),
               UNCHANGED <<domain, incidents, destroyed>>
        PROVE  /\ \A v \in Workers : Domain(v)' = Domain(v)
               /\ \A v \in Workers : pc'[v] = IF v = w THEN step ELSE pc[v]
               /\ step # "idle"
    BY <2>6 DEF GoTo, Domain, TypeOK, Steps
  <2>7. ASSUME NEW w \in Workers, CallFails(w), spoiled' = spoiled \cup {Domain(w)},
               UNCHANGED <<created, destroyed, lost>>
        PROVE  FilesInv'
    <3>1. \E step \in {"nackWrite", "unconf"} : GoTo(w, step)
      BY <2>7 DEF CallFails, WriteFails, InsertFails
    <3>2. /\ pc[w] # "idle" /\ UNCHANGED <<tunnels, conf, queue, incidents>>
      BY <2>7 DEF CallFails, WriteFails, InsertFails
    <3>3. QED
      BY <2>6, <2>7, <3>1, <3>2
      DEF FilesInv, Progress, FilesMatchRowsUnlessSpoiled, Steps, queue
  <2>8. ASSUME NEW w \in Workers, Work(w),
               spoiled' = IF Taken(w) THEN spoiled \cup {Domain(w)} ELSE spoiled,
               UNCHANGED <<destroyed, lost>>
        PROVE  FilesInv'
    <3>1. CASE AddNewConf(w)
      <4>1. /\ pc[w] = "write" /\ GoTo(w, "insert") /\ conf' = conf \cup {Domain(w)}
            /\ spoiled' = spoiled /\ UNCHANGED <<tunnels, queue, incidents>>
        BY <2>8, <3>1 DEF AddNewConf, Taken
      <4>2. QED
        BY <2>6, <2>8, <4>1 DEF FilesInv, Progress, FilesMatchRowsUnlessSpoiled, Steps, queue
    <3>2. CASE NackWrite(w) \/ NackInsert(w)
      <4>1. /\ \/ pc[w] = "nackWrite" /\ GoTo(w, "insert")
               \/ pc[w] = "nackInsert" /\ GoTo(w, "ack")
            /\ spoiled' = spoiled /\ UNCHANGED <<tunnels, conf, domain, incidents>>
        BY <2>8, <3>2 DEF NackWrite, NackInsert, Taken
      <4>2. QED
        BY <2>6, <2>8, <4>1 DEF FilesInv, Progress, FilesMatchRowsUnlessSpoiled, Steps
    <3>3. CASE InsertTunnel(w) /\ tunnels[Domain(w)] = NoUser
      <4>1. /\ pc[w] = "insert" /\ GoTo(w, "ack") /\ tunnels' = [tunnels EXCEPT ![Domain(w)] = user[job[w]]]
            /\ spoiled' = spoiled /\ UNCHANGED <<conf, queue, incidents>>
        BY <2>8, <3>3 DEF InsertTunnel, Taken
      <4>2. user[job[w]] # NoUser /\ Domain(w) \in Domains
        BY <2>0, <4>1 DEF TypeOK
      <4>3. \A d \in Domains : tunnels'[d] = IF d = Domain(w) THEN user[job[w]] ELSE tunnels[d]
        BY <4>1 DEF TypeOK
      <4>4. Progress'
        BY <2>0, <2>6, <2>8, <4>1, <4>2, <4>3 DEF FilesInv, Progress, Steps, queue
      <4>5. FilesMatchRowsUnlessSpoiled'
        BY <2>6, <2>8, <4>1, <4>2, <4>3 DEF FilesInv, Progress, FilesMatchRowsUnlessSpoiled, Steps, queue
      <4>6. QED
        BY <4>4, <4>5 DEF FilesInv
    <3>4. CASE InsertTunnel(w) /\ tunnels[Domain(w)] # NoUser
      <4>1. /\ pc[w] = "insert" /\ GoTo(w, "unconf") /\ spoiled' = spoiled \cup {Domain(w)}
            /\ UNCHANGED <<tunnels, conf, queue, incidents>>
        BY <2>8, <3>4 DEF InsertTunnel, Taken
      <4>2. QED
        BY <2>6, <2>8, <4>1 DEF FilesInv, Progress, FilesMatchRowsUnlessSpoiled, Steps, queue
    <3>5. CASE RemoveConf(w)
      <4>1. /\ pc[w] = "unconf" /\ GoTo(w, "nackInsert") /\ conf' \in {conf, conf \ {Domain(w)}}
            /\ spoiled' = spoiled /\ UNCHANGED <<tunnels, queue, incidents>>
        BY <2>8, <3>5 DEF RemoveConf, Taken
      <4>2. Domain(w) \in spoiled
        BY <4>1 DEF FilesInv, Progress
      <4>3. QED
        BY <2>6, <2>8, <4>1, <4>2 DEF FilesInv, Progress, FilesMatchRowsUnlessSpoiled, Steps, queue
    <3>6. CASE Ack(w)
      <4>1. /\ pc[w] = "ack" /\ Finish(w) /\ spoiled' = spoiled
            /\ UNCHANGED <<tunnels, conf, domain, incidents>>
        BY <2>8, <3>6 DEF Ack, Taken
      <4>2. \A v \in Workers : pc'[v] # "idle" => v # w /\ pc'[v] = pc[v] /\ Domain(v)' = Domain(v)
        BY <4>1 DEF Finish, Domain, TypeOK
      <4>3. \A v \in Workers \ {w} : pc'[v] = pc[v] /\ Domain(v)' = Domain(v)
        BY <4>1 DEF Finish, Domain, TypeOK
      <4>4. Progress'
        BY <2>8, <4>1, <4>2 DEF FilesInv, Progress
      <4>5. FilesMatchRowsUnlessSpoiled'
        BY <2>8, <4>1, <4>3 DEF FilesInv, Progress, FilesMatchRowsUnlessSpoiled
      <4>6. QED
        BY <4>4, <4>5 DEF FilesInv
    <3>7. QED
      BY <2>8, <3>1, <3>2, <3>3, <3>4, <3>5, <3>6 DEF Work
  <2>9. ASSUME UNCHANGED <<vars, history>> PROVE FilesInv'
    BY <2>9 DEF vars, queue, locals, FilesInv, Progress, FilesMatchRowsUnlessSpoiled, Domain
  <2>10. QED
    BY <2>1, <2>2, <2>3, <2>4, <2>5, <2>7, <2>8, <2>9 DEF HistoryNext
<1>3. FilesInv => FilesMatchRowsUnlessSpoiled
  BY DEF FilesInv
<1>4. QED
  BY <1>1, <1>2, <1>3, HistoryTypes, PTL DEF FairHistorySpec
=============================================================================
