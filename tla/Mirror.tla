------------------------------- MODULE Mirror -------------------------------
(***************************************************************************)
(* A table and the outside store it describes, kept in step so that what   *)
(* exists outside is always registered: a thing is registered before it is *)
(* created and dropped before its registration goes.  PgService, whose     *)
(* things are users and databases of the shared server, implements it.     *)
(***************************************************************************)
CONSTANT Things

VARIABLES
  registered,   \* things the table has a row for
  present       \* things that exist in the outside store

Init == registered = {} /\ present = {}

Register(x) ==
  /\ x \notin registered
  /\ registered' = registered \cup {x}
  /\ UNCHANGED present

Create(x) ==
  /\ x \in registered \ present
  /\ present' = present \cup {x}
  /\ UNCHANGED registered

Drop(x) ==
  /\ x \in present
  /\ present' = present \ {x}
  /\ UNCHANGED registered

\* Several at once: the rows that go with a row.
Unregister(gone) ==
  /\ gone \subseteq registered
  /\ gone \cap present = {}
  /\ registered' = registered \ gone
  /\ UNCHANGED present

Next ==
  \/ \E x \in Things : Register(x) \/ Create(x) \/ Drop(x)
  \/ \E gone \in SUBSET Things : Unregister(gone)

Spec == Init /\ [][Next]_<<registered, present>>
=============================================================================
