------------------------------ MODULE MCDomains ------------------------------
(***************************************************************************)
(* Small instances of Domains, with the history of what the code does not  *)
(* prevent: failed calls, two operations of one user at once, an address   *)
(* given out while it is in use, and the removal of a file whose domain    *)
(* has a row.                                                              *)
(***************************************************************************)
EXTENDS Domains, TLC

VARIABLES
  failed,      \* a call has failed, or a kill found no row in table instance
  overlapped,  \* users who had two operations at work at the same time
  reused,      \* addresses given out while they were in use
  strayed      \* domains whose file was removed although they had a row

history == <<failed, overlapped, reused, strayed>>

Killed == {"delete", "undomain", "unconf", "dbRemove", "list", "cleanup", "deleteRows"}

Overlapping == {u \in Users : \E v, w \in Workers : v # w /\ uid[v] = u /\ uid[w] = u}

\* An address is in use until the kill that released it is done.
InUse(h) ==
  \/ \E u \in Users : h \in {userip[u], container[u]}
  \/ \E w \in Workers : pc[w] \in Killed /\ ip[w] = h

\* The addresses that this step gives out although they are in use.
Reusing == {h \in Hosts : InUse(h) /\ \E u \in Users : container[u] = NoHost /\ container'[u] = h}

Straying(w) ==
  IF pc[w] \in {"removeConf", "unconf"} /\ domains[name[w]] # NoUser THEN {name[w]} ELSE {}

HistoryInit == Init /\ failed = FALSE /\ overlapped = {} /\ reused = {} /\ strayed = {}

HistoryNext ==
  /\ \E w \in Workers :
       \/ /\ Succeeds(w)
          /\ failed' = (failed \/ (pc[w] = "dbRemove" /\ uid[w] \notin instance))
          /\ strayed' = strayed \cup Straying(w)
       \/ CallFails(w) /\ failed' = TRUE /\ UNCHANGED strayed
  /\ reused' = reused \cup Reusing
  /\ overlapped' = overlapped \cup Overlapping'

HistorySpec == HistoryInit /\ [][HistoryNext]_<<vars, history>>

\* The failures that leave the most behind, one or two of each operation.
LastingFailures == {"getIP", "write", "removeConf", "codeConf", "delete", "list", "cleanup"}

\* The bounds of the run: it does not go on once a user has overlapped himself, or
\* after a second address was reused or file went astray; and after a failure one operation
\* is at work at a time (the properties that then still say something are about single
\* users).
WithinBounds ==
  /\ overlapped = {} /\ Cardinality(reused) + Cardinality(strayed) <= 1
  /\ failed =>
       /\ reused = {} /\ strayed = {}
       /\ \E w \in Workers : \A v \in Workers \ {w} : pc[v] = "idle"

\* Users, domain names, addresses and workers are interchangeable (safety runs only).
Symmetric ==
  Permutations(Users) \cup Permutations(Names) \cup Permutations(Hosts) \cup Permutations(Workers)

\* Whatever fails, a user whose operations never overlapped is within the limit,
\* whatever the other users do.
LimitUnlessOverlapped == \A u \in Users \ overlapped : WithinLimit(u)

\* Users' operations may interleave with other users': until a call fails or a user
\* overlaps himself, an address that was never given out while it was in use, by
\* another instance or by a kill that is not done, is reached by the domains of its
\* own user only, whatever domains others publish and remove ...
RoutesToOwnerUnlessReused ==
  ~failed /\ overlapped = {} => \A h \in Hosts \ reused : RoutesToOwner(h)

\* ... and every domain at rest has its row and its file or neither, but for those
\* whose file somebody removed although they had a row.
RowsMatchFilesUnlessStrayed ==
  ~failed /\ overlapped = {} => \A d \in Domain \ strayed : AtRest(d) => RowMatchesFile(d)
=============================================================================
