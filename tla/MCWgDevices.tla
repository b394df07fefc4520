----------------------------- MODULE MCWgDevices -----------------------------
(***************************************************************************)
(* Small instances of WgDevices, with a history of the users and devices   *)
(* about whom the code promises nothing, or less.                          *)
(***************************************************************************)
EXTENDS WgDevices, TLC

VARIABLES
  crowded,   \* users with two requests at work at once
  troubled,  \* devices with two requests at work at once, or one that broke off half-way
  robbed     \* devices whose recorded address was configured for another one

history == <<crowded, troubled, robbed>>

HistoryInit == Init /\ crowded = {} /\ troubled = {} /\ robbed = {}

\* Those on whom two requests are at work.
Shared(who, value) == {x \in who : \E q, r \in Requests : q # r /\ value[q] = x /\ value[r] = x}

\* Those whose address is the one that the kernel is about to get for another device.
Robbed(r) == {k \in Keys \ {key[r]} : pc[r] = "configure" /\ addr[k] = ip[r]}

\* A failure between the change of the row and that of the kernel.
BreaksOff(r) == pc[r] \in {"configure", "push", "unconfigure"}

\* The last attempt of the transaction is lost, and the kernel's turn comes all the same.
LosesAll(r) == TxConflict(r) /\ pc'[r] = "configure"

HistoryNext == \E r \in Requests :
  /\ \/ /\ Succeeds(r)
        /\ troubled' = troubled \cup Shared(Keys, key') \cup {k \in {key[r]} : LosesAll(r)}
        /\ robbed' = robbed \cup Robbed(r)
     \/ /\ CallFails(r)
        /\ troubled' = troubled \cup {k \in {key[r]} : BreaksOff(r)}
        /\ UNCHANGED robbed
  /\ crowded' = crowded \cup Shared(Users, uid')

HistorySpec == HistoryInit /\ [][HistoryNext]_<<vars, history>>

AllCalls == Calls

\* A user stays within the limit until two requests of his are at work at once, whatever
\* the other users do and whatever fails.
LimitUnlessCrowded == \A u \in Users \ crowded : WithinLimit(u)

\* When no request is about a device, the kernel has its peer as the table has it, however
\* many requests about other devices are at work or fail: until two requests about it
\* are at work at once, one breaks off half-way, or another device gets its address.
\* That happens only after one of the first two has happened to some device.
KernelAgreesUnlessTroubled ==
  /\ \A k \in Keys \ (troubled \cup robbed) : AtRest(k) => KernelAgrees(k)
  /\ troubled = {} => robbed = {}

\* The bound of the run: all is promised about one device at least.
SomeoneSpared == troubled \cup robbed # Keys

\* Users, keys and requests are interchangeable (safety runs only).
Symmetric == Permutations(Users) \cup Permutations(Keys) \cup Permutations(Requests)
=============================================================================
