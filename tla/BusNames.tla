------------------------------ MODULE BusNames ------------------------------
(***************************************************************************)
(* The name registry of the bus server (adbus/server.c, the name methods   *)
(* of adbus/server-bus.c).                                                 *)
(*                                                                         *)
(* A service is a bus name with its queue of remotes; the head of the      *)
(* queue owns the name.  A remote keeps the reverse list of the services   *)
(* it owns or is queued for.  The server is single threaded: every handler *)
(* runs to completion.  Only the release loop of adbus_remote_disconnect   *)
(* is split in steps, because its termination is one of the questions.     *)
(*                                                                         *)
(* A remote stands for its adbus_Remote structure and for its unique name. *)
(* A slot may connect again once its structure is freed: nothing refers to *)
(* the old one any more (see Defined), so the slot is as good as a fresh   *)
(* one with a fresh unique name.                                           *)
(***************************************************************************)
EXTENDS Integers, Sequences, SequencesExt

CONSTANTS
  Remotes,       \* the remotes, the server's own one included
  Bus,           \* busRemote, whose unique name is org.freedesktop.DBus
  Names,         \* well known names
  Asked,         \* the names that clients request and release
  RequestFlags,  \* the sets of flags that clients pass to RequestName
  None           \* NULL

ASSUME BusAssumption == Bus \in Remotes
ASSUME NamesAssumption == Remotes \cap Names = {} /\ None \notin Remotes \cup Names
ASSUME AskedAssumption == Asked \subseteq Names \cup {Bus}
ASSUME FlagsAssumption ==
  \A f \in RequestFlags :
    f \subseteq {"ALLOW_REPLACEMENT", "REPLACE_EXISTING", "DO_NOT_QUEUE"}

VARIABLES
  reg,      \* the registry: services hash, queues, and each remote's side of it
  remotes,  \* s->remotes, newest first
  closing,  \* the remote inside adbus_remote_disconnect, or None
  phase     \* "running", "stopping" (inside adbus_serv_free) or "stopped"

vars == <<reg, remotes, closing, phase>>

(***************************************************************************)
(* The keys of the services hash: unique names and well known names.       *)
(***************************************************************************)
Services == Remotes \cup Names

ServiceOwner == [remote : Remotes, allowReplacement : BOOLEAN]

(***************************************************************************)
(* hash: the services present in s->services.  queue[n]: the queue of      *)
(* service n.  services[r], haveHello[r]: fields of the remote.  seen and  *)
(* held record what the signals of adbusI_serv_ownerchanged tell the       *)
(* outside: the owner that a listener to NameOwnerChanged believes in, and *)
(* the names that NameAcquired and NameLost let each remote believe it     *)
(* holds.                                                                  *)
(***************************************************************************)
Registry ==
  [hash : SUBSET Services,
   queue : [Services -> Seq(ServiceOwner)],
   services : [Remotes -> Seq(Services)],
   haveHello : [Remotes -> BOOLEAN],
   seen : [Services -> Remotes \cup {None}],
   held : [Remotes -> SUBSET Services]]

Queued(g, n) == {g.queue[n][i].remote : i \in DOMAIN g.queue[n]}

Head1(g, n) == g.queue[n][1].remote

(***************************************************************************)
(* serv_dispatch of a signal addressed to remote o: it goes to the owner   *)
(* of o's unique name, if that name has one at this moment.                *)
(***************************************************************************)
Direct(g, o) == IF g.queue[o] = <<>> THEN None ELSE Head1(g, o)

Lost(g, o, n) ==
  IF o = None \/ Direct(g, o) = None THEN g
  ELSE [g EXCEPT !.held[Direct(g, o)] = @ \ {n}]

Acquired(g, o, n) ==
  IF o = None \/ Direct(g, o) = None THEN g
  ELSE [g EXCEPT !.held[Direct(g, o)] = @ \cup {n}]

(* Mutants: NameAcquired goes out before NameLost; NameOwnerChanged carries
   the name where the new owner belongs. *)
ownerchanged_AcquiredFirst(g, n, old, new) ==
  Lost(Acquired([g EXCEPT !.seen[n] = new], new, n), old, n)

ownerchanged_Arguments(g, n, old, new) ==
  LET oldowner == IF old # None /\ g.haveHello[old] THEN old ELSE None
  IN  Acquired(Lost([g EXCEPT !.seen[n] = n], oldowner, n), new, n)

(* adbusI_serv_ownerchanged: NameOwnerChanged to everyone, NameLost to the
   old owner, then NameAcquired to the new one. *)
ownerchanged(g, n, old, new) ==
  LET oldowner == IF old # None /\ g.haveHello[old] THEN old ELSE None
  IN  Acquired(Lost([g EXCEPT !.seen[n] = new], oldowner, n), new, n)

(* Mutant: the remote's list is left alone. *)
removeServiceFromRemote_Nothing(g, r, n) == g

removeServiceFromRemote(g, r, n) ==
  [g EXCEPT !.services[r] = RemoveFirst(@, n)]

(* Mutant: the service stays in the hash. *)
releaseOwned_KeepHash(g, r, n) ==
  LET g1 == [g EXCEPT !.queue[n] = Tail(@)]
  IN  IF g1.queue[n] = <<>>
      THEN ownerchanged(g1, n, r, None)
      ELSE ownerchanged(g1, n, r, Head1(g1, n))

(***************************************************************************)
(* adbusI_serv_releasename.  Its last loop looks for r at index 0 of the   *)
(* queue, which the test before it has just excluded, so it removes        *)
(* nothing and a remote that only waits keeps its place.                   *)
(***************************************************************************)
releaseOwned(g, r, n) ==
  LET g1 == [g EXCEPT !.queue[n] = Tail(@)]
  IN  IF g1.queue[n] = <<>>
      THEN [ownerchanged(g1, n, r, None) EXCEPT !.hash = @ \ {n}]
      ELSE ownerchanged(g1, n, r, Head1(g1, n))

(* Mutant: the list of a remote that is not the owner is not updated. *)
releasename_OwnerOnly(g, r, n) ==
  IF n \notin g.hash THEN g
  ELSE IF Head1(g, n) = r THEN releaseOwned(removeServiceFromRemote(g, r, n), r, n)
  ELSE g

releasename(g, r, n) ==
  IF n \notin g.hash THEN g
  ELSE LET g1 == removeServiceFromRemote(g, r, n)
       IN  IF Head1(g1, n) = r
           THEN releaseOwned(g1, r, n)
           ELSE g1

(* The value releasename returns. *)
releaseResult(g, r, n) ==
  IF n \notin g.hash THEN "invalid_name"
  ELSE IF Head1(g, n) = r THEN "success" ELSE "not_owner"

(***************************************************************************)
(* adbusI_serv_requestname, one operator for each branch.                  *)
(***************************************************************************)
Entry(r, flags) ==
  [remote |-> r, allowReplacement |-> "ALLOW_REPLACEMENT" \in flags]

(* Mutant: the service is not added to the list of its owner. *)
requestFree_NoLink(g, r, n, flags) ==
  ownerchanged([g EXCEPT !.queue[n] = <<Entry(r, flags)>>], n, None, r)

requestFree(g, r, n, flags) ==
  ownerchanged([g EXCEPT !.services[r] = Append(@, n),
                         !.queue[n] = <<Entry(r, flags)>>], n, None, r)

requestOwned(g, r, n, flags) ==
  [g EXCEPT !.queue[n][1] = Entry(r, flags)]

(* Mutants: the replaced owner keeps the service in its list; the change of
   owner is not announced. *)
requestReplace_KeepOld(g, r, n, flags) ==
  LET g1 == releasename(g, r, n)
  IN  ownerchanged([g1 EXCEPT !.queue[n][1] = Entry(r, flags)], n, Head1(g1, n), r)

requestReplace_Silent(g, r, n, flags) ==
  LET g1 == releasename(g, r, n)
  IN  [removeServiceFromRemote(g1, Head1(g1, n), n)
         EXCEPT !.queue[n][1] = Entry(r, flags)]

(* The owner allows replacement: r takes its place.  The old owner leaves
   the queue; nothing adds n to the services of r. *)
requestReplace(g, r, n, flags) ==
  LET g1 == releasename(g, r, n)
      old == Head1(g1, n)
      g2 == removeServiceFromRemote(g1, old, n)
  IN  ownerchanged([g2 EXCEPT !.queue[n][1] = Entry(r, flags)], n, old, r)

(* r waits: its first entry in the queue is updated, or one is added. *)
requestQueue(g, r, n, flags) ==
  LET q == g.queue[n]
      update == [i \in DOMAIN q |->
                   IF q[i].remote = r /\ \A j \in 1..(i - 1) : q[j].remote # r
                   THEN Entry(r, flags) ELSE q[i]]
  IN  IF r \in Queued(g, n)
      THEN [g EXCEPT !.queue[n] = update]
      ELSE [g EXCEPT !.services[r] = Append(@, n),
                     !.queue[n] = Append(@, Entry(r, flags))]

requestRefuse(g, r, n) == releasename(g, r, n)

(* Mutant: REPLACE_EXISTING is honoured whatever the owner allowed. *)
MayReplace_Asked(g, n, flags) == "REPLACE_EXISTING" \in flags

(* The condition of the third branch. *)
MayReplace(g, n, flags) ==
  "REPLACE_EXISTING" \in flags /\ g.queue[n][1].allowReplacement

requestname(g, r, n, flags) ==
  LET g1 == [g EXCEPT !.hash = @ \cup {n}]
  IN  IF g1.queue[n] = <<>> THEN requestFree(g1, r, n, flags)
      ELSE IF Head1(g1, n) = r THEN requestOwned(g1, r, n, flags)
      ELSE IF MayReplace(g1, n, flags) THEN requestReplace(g1, r, n, flags)
      ELSE IF "DO_NOT_QUEUE" \notin flags THEN requestQueue(g1, r, n, flags)
      ELSE requestRefuse(g1, r, n)

(* The value requestname returns. *)
requestResult(g, r, n, flags) ==
  IF g.queue[n] = <<>> THEN "success"
  ELSE IF Head1(g, n) = r THEN "already_owner"
  ELSE IF MayReplace(g, n, flags) THEN "success"
  ELSE IF "DO_NOT_QUEUE" \notin flags THEN "in_queue"
  ELSE "failed"

-----------------------------------------------------------------------------
(***************************************************************************)
(* adbus_serv_new: only the bus remote is connected; it has its hello by   *)
(* hand and owns org.freedesktop.DBus.                                     *)
(***************************************************************************)
Init ==
  /\ LET empty == [hash |-> {},
                   queue |-> [n \in Services |-> <<>>],
                   services |-> [r \in Remotes |-> <<>>],
                   haveHello |-> [r \in Remotes |-> r = Bus],
                   seen |-> [n \in Services |-> None],
                   held |-> [r \in Remotes |-> {}]]
     IN  reg = requestname(empty, Bus, Bus, {})
  /\ remotes = <<Bus>>
  /\ closing = None
  /\ phase = "running"

(* The remotes whose structure is allocated. *)
Live == ToSet(remotes) \cup ({closing} \ {None})

(***************************************************************************)
(* A queue that holds a freed remote is a dangling pointer: the memory may *)
(* be read or handed to the next connection, and the behaviour of the      *)
(* program is undefined from there on.  The model stops in such a state.   *)
(***************************************************************************)
Defined == \A n \in Services : Queued(reg, n) \subseteq Live

Idle == Defined /\ closing = None /\ phase = "running"

(* adbus_serv_connect *)
Connect(r) ==
  /\ Idle
  /\ r \notin Live
  /\ remotes' = <<r>> \o remotes
  /\ UNCHANGED <<reg, closing, phase>>

(* Method Hello: a second one only yields an error reply. *)
Hello(r) ==
  /\ Idle
  /\ r \in ToSet(remotes)
  /\ ~reg.haveHello[r]
  /\ reg' = requestname([reg EXCEPT !.haveHello[r] = TRUE], r, r, {})
  /\ UNCHANGED <<remotes, closing, phase>>

(* A client that has had its hello; unique names cannot be asked for. *)
MayCall(r, n) ==
  /\ n \in Asked
  /\ Idle
  /\ r \in ToSet(remotes) \ {Bus}
  /\ reg.haveHello[r]

RequestName(r, n, flags) ==
  /\ MayCall(r, n)
  /\ reg' = requestname(reg, r, n, flags)
  /\ UNCHANGED <<remotes, closing, phase>>

ReleaseName(r, n) ==
  /\ MayCall(r, n)
  /\ reg' = releasename(reg, r, n)
  /\ UNCHANGED <<remotes, closing, phase>>

(* Mutant: the remote is marked as gone before its names are released. *)
StartClosing_Forget(r) ==
  /\ closing' = r
  /\ remotes' = RemoveFirst(remotes, r)
  /\ reg' = [reg EXCEPT !.haveHello[r] = FALSE]
  /\ UNCHANGED phase

(* adbus_remote_disconnect, up to its loop. *)
StartClosing(r) ==
  /\ closing' = r
  /\ remotes' = RemoveFirst(remotes, r)
  /\ UNCHANGED <<reg, phase>>

Disconnect(r) ==
  /\ Idle
  /\ r \in ToSet(remotes) \ {Bus}
  /\ StartClosing(r)

(* One turn of the loop. *)
DisconnectRelease ==
  /\ Defined
  /\ closing # None
  /\ reg.services[closing] # <<>>
  /\ reg' = releasename(reg, closing, reg.services[closing][1])
  /\ UNCHANGED <<remotes, closing, phase>>

(* The loop is over, the structure is freed. *)
DisconnectFree ==
  /\ closing # None
  /\ reg.services[closing] = <<>>
  /\ reg' = [reg EXCEPT !.haveHello[closing] = FALSE, !.held[closing] = {}]
  /\ closing' = None
  /\ UNCHANGED <<remotes, phase>>

(* adbus_serv_free disconnects the remotes in list order, then frees the
   services that are left. *)
ServFree ==
  /\ Idle
  /\ phase' = "stopping"
  /\ UNCHANGED <<reg, remotes, closing>>

ServFreeNext ==
  /\ Defined
  /\ phase = "stopping"
  /\ closing = None
  /\ remotes # <<>>
  /\ StartClosing(remotes[1])

ServFreeDone ==
  /\ phase = "stopping"
  /\ closing = None
  /\ remotes = <<>>
  /\ phase' = "stopped"
  /\ reg' = [reg EXCEPT !.hash = {}, !.queue = [n \in Services |-> <<>>]]
  /\ UNCHANGED <<remotes, closing>>

Teardown == DisconnectRelease \/ DisconnectFree \/ ServFreeNext \/ ServFreeDone

Next ==
  \/ \E r \in Remotes :
       \/ Connect(r)
       \/ Hello(r)
       \/ Disconnect(r)
       \/ \E n \in Services :
            \/ \E flags \in RequestFlags : RequestName(r, n, flags)
            \/ ReleaseName(r, n)
  \/ DisconnectRelease
  \/ DisconnectFree
  \/ ServFree
  \/ ServFreeNext
  \/ ServFreeDone

Spec == Init /\ [][Next]_vars

(* Nothing can interrupt a disconnect or a shutdown once it has begun: the
   steps of their loops are taken. *)
FairSpec == Spec /\ WF_vars(Teardown)

-----------------------------------------------------------------------------
(***************************************************************************)
(* Properties                                                              *)
(***************************************************************************)

(* Type correctness of the registry and of the server's own fields. *)
TypeOK ==
  /\ reg \in Registry
  /\ remotes \in Seq(Remotes)
  /\ closing \in Remotes \cup {None}
  /\ phase \in {"running", "stopping", "stopped"}

(* The list of services of a remote holds each service once, and only
   services that are in the hash and whose queue holds the remote: the loop
   of adbus_remote_disconnect and removeServiceFromRemote never follow a
   pointer to a freed service. *)
NoDanglingService ==
  \A r \in Remotes :
    LET list == reg.services[r]
    IN  /\ \A i, j \in DOMAIN list : list[i] = list[j] => i = j
        /\ \A i \in DOMAIN list : list[i] \in reg.hash /\ r \in Queued(reg, list[i])

(* A service in the hash has an owner: adbusI_serv_remote and releasename
   read queue[0] without looking at the size of the queue. *)
OwnerReadable == \A n \in Services : n \in reg.hash <=> reg.queue[n] # <<>>

(* Whoever follows NameOwnerChanged from the start knows the owner of every
   name, whatever sequence of requests, releases and disconnects happens. *)
SeenIsOwner ==
  phase # "stopped" =>
    \A n \in Services :
      reg.seen[n] = IF n \in reg.hash THEN Head1(reg, n) ELSE None

(* NameAcquired and NameLost tell a connected remote exactly which names it
   owns, its unique name included. *)
HeldIsOwned ==
  \A r \in ToSet(remotes) :
    reg.held[r] = {n \in reg.hash : Head1(reg, n) = r}

(* While a remote is being disconnected its send callback is not used any
   more: the unique name goes first, so that the NameLost of the others
   finds no one. *)
SilentWhileClosing ==
  [][closing # None /\ closing' = closing =>
       reg'.held[closing] = reg.held[closing]]_vars

(* An owner that did not allow it is never replaced by a request. *)
NoTheft ==
  [][\A n \in Services :
       /\ n \in reg.hash /\ n \in reg'.hash
       /\ Head1(reg, n) # Head1(reg', n)
       => \/ reg.queue[n][1].allowReplacement
          \/ reg'.queue[n] = Tail(reg.queue[n])]_vars

(* What RequestName and ReleaseName answer is what they did: success means
   ownership, "in queue" a place behind another owner, "not owner" that
   somebody else owns the name. *)
ReplyTruthful ==
  \A r \in Remotes, n \in Asked :
    MayCall(r, n) =>
      /\ \A flags \in RequestFlags :
           LET res == requestResult(reg, r, n, flags)
               g == requestname(reg, r, n, flags)
           IN  /\ res \in {"success", "already_owner"} <=> Head1(g, n) = r
               /\ res = "in_queue" => r \in Queued(g, n)
      /\ releaseResult(reg, r, n) = "not_owner" =>
           n \in reg.hash /\ Head1(releasename(reg, r, n), n) # r

(* The signals of ownerchanged go through the bus remote: it outlives every
   other remote, also when the server shuts down. *)
BusOutlivesRemotes ==
  remotes # <<>> \/ (closing \notin {None, Bus}) => Bus \in ToSet(remotes)

(* The bidirectional links that releasename relies on, the direction that
   NoDanglingService does not state: whoever is in the queue of a service
   has that service in its list. *)
BidirectionalLinks ==
  \A n \in Services : \A r \in Queued(reg, n) : n \in ToSet(reg.services[r])

(* No queue holds a remote that adbus_remote_disconnect has freed. *)
NoDanglingRemote == Defined

(* adbus_remote_disconnect ends: every turn of its loop shortens the list. *)
DisconnectEnds == (closing # None) ~> (closing = None)

(* adbus_serv_free ends with no remote and no service left. *)
ShutdownEnds ==
  (phase = "stopping") ~> (phase = "stopped" /\ remotes = <<>> /\ reg.hash = {})

(***************************************************************************)
(* The abstract specification: a well known name is owned by the head of   *)
(* its queue, a client is present from its hello until it is freed.        *)
(***************************************************************************)
Ownership ==
  INSTANCE NameOwnership WITH
    Clients <- Remotes \ {Bus},
    BusNamesSet <- Names,
    NoOwner <- None,
    present <- {r \in Remotes \ {Bus} : reg.haveHello[r]},
    owner <- [n \in Names |-> IF n \in reg.hash THEN Head1(reg, n) ELSE None]

(* The registry implements NameOwnership for clients that always pass
   DO_NOT_QUEUE and never REPLACE_EXISTING. *)
ImplementsOwnership == Ownership!Spec

(* What clients are told of ownership is true: by NameAcquired and NameLost, by the
   answers of RequestName and ReleaseName, and through a bus remote that is there to
   tell them. *)
ClientsTold == HeldIsOwned /\ ReplyTruthful /\ BusOutlivesRemotes

(* What no step may do: use the send callback of a remote that is being disconnected
   (adbus_remote_disconnect), or take a name from an owner that did not allow it
   (adbusI_serv_requestname). *)
StepsLegal == SilentWhileClosing /\ NoTheft

(* The links between remotes and services hold in the direction that NoDanglingService
   does not state, and none leads to a remote that has been freed. *)
LinksSound == BidirectionalLinks /\ NoDanglingRemote
=============================================================================
