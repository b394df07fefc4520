------------------------------- MODULE MCLxcIp -------------------------------
(***************************************************************************)
(* Small instances of LxcIp, with the history of what the code does not    *)
(* prevent: an allocation from the table that crosses a release, and the   *)
(* users whose jobs did not run one at a time to the end.                  *)
(***************************************************************************)
EXTENDS LxcIp, TLC

VARIABLES
  crossed,   \* an allocation from the table has met a released address
  troubled   \* users with a failed call, two jobs at once, or lost transactions

history == <<crossed, troubled>>

\* Users with two jobs at once, or whose transaction conflicted MaxRetries times.
InTrouble ==
  {u \in Users :
     \/ \E v, w \in Workers : v # w /\ uid[v] = u /\ uid[w] = u
     \/ \E w \in Workers : uid[w] = u /\ attempt[w] = MaxRetries}

HistoryInit == Init /\ crossed = FALSE /\ troubled = {}

HistoryNext ==
  /\ crossed' = (crossed \/ Crossing)
  /\ \E w \in Workers :
       \/ Succeeds(w) /\ troubled' = troubled \cup InTrouble'
       \/ CallFails(w) /\ troubled' = troubled \cup {uid[w]}

HistorySpec == HistoryInit /\ [][HistoryNext]_<<vars, history>>

AllCalls == Calls
NoCalls == {}

\* Users and workers are interchangeable (safety runs only).
Symmetric == Permutations(Users) \cup Permutations(Workers)

\* Any number of jobs at once, any call failing: until an allocation from the
\* table crosses a release, no address has two holders.
UniqueHoldersUnlessCrossed == ~crossed => UniqueHolders

\* Until then the table implements the abstract allocator: a row appears only
\* with an address nobody holds, and an address changes hands only by release.
ImplementsIpPoolUnlessCrossed ==
  Pool!Init /\ [][~crossed' => Pool!Next]_userip

\* Any number of jobs at once, crossing or not: no address is lost until some
\* user is in trouble ...
NoHolesUnlessTroubled == troubled = {} => NoHoles

\* ... and LXD's static address is the recorded one for every user who never was,
\* whatever happens to the others.
RestAgreementUnlessTroubled == \A u \in Users \ troubled : RestAgrees(u)
=============================================================================
