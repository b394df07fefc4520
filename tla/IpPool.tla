------------------------------- MODULE IpPool -------------------------------
(***************************************************************************)
(* What an address allocator promises: every user (or device) holds at     *)
(* most one host number, and a host number has at most one holder.  LxcIp  *)
(* and WgDevices are checked and proved against this specification.        *)
(***************************************************************************)
CONSTANTS Users, Hosts,
          None       \* no host number; not a member of Hosts

VARIABLE held      \* held[u]: the host number user u holds, or None

Free == {h \in Hosts : \A v \in Users : held[v] # h}

Init == held = [u \in Users |-> None]

Assign(u) ==
  /\ held[u] = None
  /\ \E h \in Free : held' = [held EXCEPT ![u] = h]

Release(u) ==
  /\ held[u] # None
  /\ held' = [held EXCEPT ![u] = None]

Next == \E u \in Users : Assign(u) \/ Release(u)

Spec == Init /\ [][Next]_held
=============================================================================
