--------------------------- MODULE NameOwnership ---------------------------
(***************************************************************************)
(* What a bus promises about names when nobody waits for a name or takes   *)
(* it from its owner: a name has at most one owner, the owner is connected *)
(* and introduced, a taken name changes hands only by becoming free first, *)
(* and nobody leaves while still owning something.                         *)
(***************************************************************************)
CONSTANTS Clients, BusNamesSet, NoOwner

VARIABLES present, owner

vars == <<present, owner>>

Init ==
  /\ present = {}
  /\ owner = [n \in BusNamesSet |-> NoOwner]

Join(c) ==
  /\ c \notin present
  /\ present' = present \cup {c}
  /\ UNCHANGED owner

Acquire(c, n) ==
  /\ c \in present
  /\ owner[n] = NoOwner
  /\ owner' = [owner EXCEPT ![n] = c]
  /\ UNCHANGED present

Release(c, n) ==
  /\ owner[n] = c
  /\ owner' = [owner EXCEPT ![n] = NoOwner]
  /\ UNCHANGED present

Leave(c) ==
  /\ c \in present
  /\ \A n \in BusNamesSet : owner[n] # c
  /\ present' = present \ {c}
  /\ UNCHANGED owner

Next ==
  \E c \in Clients :
    \/ Join(c)
    \/ Leave(c)
    \/ \E n \in BusNamesSet : Acquire(c, n) \/ Release(c, n)

Spec == Init /\ [][Next]_vars
=============================================================================
