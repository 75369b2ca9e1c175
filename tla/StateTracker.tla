---------------------------- MODULE StateTracker ----------------------------
(***************************************************************************)
(* adbus_State (adbus/state.c): the services that one object of a program  *)
(* has registered with a connection, which may run on another thread.      *)
(*                                                                         *)
(* struct Conn is known to the state on the local thread; what it lists    *)
(* belongs to the thread of the connection.  The threads send each other   *)
(* callbacks through the proxies of the connection, two queues here.  Each *)
(* reset ends a struct Conn, the next service begins another: they are     *)
(* numbered.                                                               *)
(***************************************************************************)
EXTENDS Integers, Sequences, FiniteSets, SequencesExt, Lists

CONSTANTS
  Tracked,     \* the services: struct Data
  DataKind,    \* "bind", "match" or "reply", for each
  Threaded,    \* whether the connection may be on another thread: a set of Booleans
  MaxConns     \* bound on the structs Conn

ASSUME StateAssumption ==
  /\ DataKind \in [Tracked -> {"bind", "match", "reply"}]
  /\ Threaded \subseteq BOOLEAN
  /\ MaxConns \in Nat

VARIABLES
  proxied,    \* whether the connection is on another thread
  current,    \* the struct Conn in s->connections, 0 if there is none
  conns,      \* conns[e]: "new", "live", "freed"
  connOf,     \* d->conn of each service
  tracked,    \* tracked[e]: what the lists of the struct hold, newest first
  services,   \* the services that the connection has
  freed,      \* the services whose struct Data has been freed
  told,       \* how often the release callback of each service has been called
  toConn,     \* callbacks on their way to the connection's thread
  toLocal,    \* callbacks on their way to the local thread
  connRefs,   \* references of the state to the connection
  harm        \* "none", or what has stopped the program: "null" (a string that is not there
              \* is copied), "gone" (a service that the connection has freed is removed),
              \* "assert" (of ResetConn), "stale" (a freed struct Conn is read)

stateVars == <<proxied, current, conns, connOf, tracked, services, freed, told,
               toConn, toLocal, connRefs, harm>>

(* adbus_state_new *)
StateInit ==
  /\ proxied \in Threaded
  /\ current = 0
  /\ conns = [e \in 1..MaxConns |-> "new"]
  /\ connOf = [d \in Tracked |-> 0]
  /\ tracked = [e \in 1..MaxConns |-> <<>>]
  /\ services = {} /\ freed = {}
  /\ told = [d \in Tracked |-> 0]
  /\ toConn = <<>> /\ toLocal = <<>>
  /\ connRefs = 0 /\ harm = "none"

Unharmed == harm = "none"

(* adbus_conn_shouldproxy: the caller is not on the connection's thread. *)
conn_shouldproxy == proxied

(* adbus_conn_proxy runs a callback on the connection's thread. *)
conn_proxy(callback) == toConn' = Append(toConn, callback)

(* adbus_conn_getproxy, when a struct Conn is made: there is a proxy for callbacks to
   the local thread. *)
conn_getproxy == proxied

(* LookupConnection *)
LookupConnection(d) ==
  LET fresh == CHOOSE e \in DOMAIN conns :
                 conns[e] = "new" /\ \A f \in 1..(e - 1) : conns[f] # "new"
  IN  IF current # 0
      THEN connOf' = [connOf EXCEPT ![d] = current] /\ UNCHANGED <<current, conns, connRefs>>
      ELSE /\ \E e \in DOMAIN conns : conns[e] = "new"
           /\ connOf' = [connOf EXCEPT ![d] = fresh]
           /\ current' = fresh
           /\ conns' = [conns EXCEPT ![fresh] = "live"]
           /\ connRefs' = connRefs + 1

(* Mutant: the struct stays on the list. *)
FreeData_Listed(ds) ==
  /\ freed' = freed \cup ds
  /\ tracked' = tracked
  /\ IF proxied
     THEN /\ toLocal' = toLocal \o SetToSeq({[op |-> "told", of |-> d] : d \in ds})
          /\ UNCHANGED told
     ELSE /\ told' = [d \in Tracked |-> IF d \in ds THEN told[d] + 1 ELSE told[d]]
          /\ UNCHANGED toLocal

(* FreeData of each of ds: off the list, and the user's release callback through
   the proxy. *)
FreeData(ds) ==
  /\ freed' = freed \cup ds
  /\ tracked' = [e \in DOMAIN tracked |-> Without(tracked[e], ds)]
  /\ IF conn_getproxy
     THEN /\ toLocal' = toLocal \o SetToSeq({[op |-> "told", of |-> d] : d \in ds})
          /\ UNCHANGED told
     ELSE /\ told' = [d \in Tracked |-> IF d \in ds THEN told[d] + 1 ELSE told[d]]
          /\ UNCHANGED toLocal

(* Mutant: a service that is refused is forgotten. *)
DoAdd_Leak(d, e, accepted) ==
  /\ services' = IF accepted THEN services \cup {d} ELSE services
  /\ tracked' = IF accepted THEN [tracked EXCEPT ![e] = <<d>> \o @] ELSE tracked
  /\ UNCHANGED <<freed, told, toLocal>>

(* What DoBind, DoAddMatch and DoAddReply do with the answer of the connection: the
   service is listed, or its struct freed by the caller. *)
DoAdd(d, e, accepted) ==
  IF accepted
  THEN /\ services' = services \cup {d}
       /\ tracked' = [tracked EXCEPT ![e] = <<d>> \o @]
       /\ UNCHANGED <<freed, told, toLocal>>
  ELSE /\ FreeData({d})
       /\ UNCHANGED services

(* The connection refuses a bind whose interface is bound to the path already and a
   reply from an empty name; it takes every match. *)
StateDoBind(d, e, accepted) == DataKind[d] = "bind" /\ DoAdd(d, e, accepted)
DoAddMatch(d, e, accepted) == DataKind[d] = "match" /\ accepted /\ DoAdd(d, e, TRUE)
DoAddReply(d, e, accepted) == DataKind[d] = "reply" /\ DoAdd(d, e, accepted)

(* The half of the three operations that runs on the connection's thread. *)
DoKind(d, e, accepted) ==
  StateDoBind(d, e, accepted) \/ DoAddMatch(d, e, accepted) \/ DoAddReply(d, e, accepted)

(* DupString: the length of a string that is not given is counted, of one that is not
   there too. *)
DupString(unset) == harm' = IF unset THEN "null" ELSE harm

(* A service is added from the local thread: at once if this is the connection's, and
   through its proxy, with a copy of what the caller passed, if not. *)
StateAdd(d, accepted, unset) ==
  /\ Unharmed /\ connOf[d] = 0
  /\ LookupConnection(d)
  /\ IF conn_shouldproxy
     THEN /\ DupString(unset)
          /\ IF unset THEN UNCHANGED toConn ELSE conn_proxy([op |-> "add", of |-> d])
          /\ UNCHANGED <<services, tracked, freed, told, toLocal>>
     ELSE /\ DoKind(d, connOf'[d], accepted)
          /\ UNCHANGED <<toConn, harm>>
  /\ UNCHANGED proxied

(* A bind has a path and a reply a remote; a match may leave any of its six strings as
   adbus_match_init leaves it. *)
adbus_state_bind(d, accepted) == DataKind[d] = "bind" /\ StateAdd(d, accepted, FALSE)
adbus_state_addmatch(d, unset) == DataKind[d] = "match" /\ StateAdd(d, TRUE, unset)
adbus_state_addreply(d, accepted) == DataKind[d] = "reply" /\ StateAdd(d, accepted, FALSE)

(* The proxied half runs on the connection's thread. *)
ProxyAdd(kind, accepted) ==
  /\ Unharmed /\ toConn # <<>> /\ Head(toConn).op = "add"
  /\ DataKind[Head(toConn).of] = kind
  /\ DoKind(Head(toConn).of, connOf[Head(toConn).of], accepted)
  /\ toConn' = Tail(toConn)
  /\ UNCHANGED <<proxied, current, conns, connOf, connRefs, harm>>

ProxyBind(accepted) == ProxyAdd("bind", accepted)
ProxyAddMatch == ProxyAdd("match", TRUE)
ProxyReply(accepted) == ProxyAdd("reply", accepted)

(* The release callback that the state has registered: ReleaseDataCallback on
   this thread, or through relproxy on the local one. *)
ReleaseData(ds) ==
  IF conn_getproxy
  THEN /\ toLocal' = toLocal \o SetToSeq({[op |-> "free", of |-> d] : d \in ds})
       /\ UNCHANGED <<freed, tracked, told>>
  ELSE FreeData(ds)

(* The connection removes a service by itself: a reply that has been answered,
   or anything when it is closed. *)
ServiceGone(d) ==
  /\ Unharmed /\ d \in services
  /\ services' = services \ {d}
  /\ ReleaseData({d})
  /\ UNCHANGED <<proxied, current, conns, connOf, toConn, connRefs, harm>>

(* FreeData on the local thread reads the proxy in the struct Conn. *)
ReleaseDataCallback ==
  /\ Unharmed /\ toLocal # <<>> /\ Head(toLocal).op = "free"
  /\ LET d == Head(toLocal).of IN
     /\ freed' = freed \cup {d}
     /\ tracked' = [e \in DOMAIN tracked |-> Without(tracked[e], {d})]
     /\ toLocal' = Append(Tail(toLocal), [op |-> "told", of |-> d])
     /\ harm' = IF conns[connOf[d]] = "freed" THEN "stale" ELSE harm
  /\ UNCHANGED <<proxied, current, conns, connOf, services, told, toConn, connRefs>>

(* The user's release callback on the local thread. *)
UserRelease ==
  /\ Unharmed /\ toLocal # <<>> /\ Head(toLocal).op = "told"
  /\ told' = [told EXCEPT ![Head(toLocal).of] = @ + 1]
  /\ toLocal' = Tail(toLocal)
  /\ UNCHANGED <<proxied, current, conns, connOf, tracked, services, freed, toConn,
                 connRefs, harm>>

(* ResetConn: everything that is listed is removed from the connection, which
   calls the release callback of each; the lists are asserted to be empty, the
   reference to the connection is given back and the struct freed. *)
ResetConn(e) ==
  LET ds == ToSet(tracked[e]) IN
  /\ services' = services \ ds
  /\ ReleaseData(ds)
  /\ harm' = IF ~(ds \subseteq services) THEN "gone"
             ELSE IF tracked'[e] # <<>> THEN "assert" ELSE harm
  /\ conns' = [conns EXCEPT ![e] = "freed"]
  /\ connRefs' = connRefs - 1

(* adbus_state_reset, adbus_state_free *)
StateReset ==
  /\ Unharmed /\ current # 0
  /\ current' = 0
  /\ IF conn_shouldproxy
     THEN /\ conn_proxy([op |-> "reset", of |-> current])
          /\ UNCHANGED <<conns, tracked, services, freed, told, toLocal, connRefs, harm>>
     ELSE ResetConn(current) /\ UNCHANGED toConn
  /\ UNCHANGED <<proxied, connOf>>

(* A reset that was sent to the connection's thread. *)
ProxiedReset ==
  /\ Unharmed /\ toConn # <<>> /\ Head(toConn).op = "reset"
  /\ ResetConn(Head(toConn).of)
  /\ toConn' = Tail(toConn)
  /\ UNCHANGED <<proxied, current, connOf>>

StateStep ==
  \/ \E accepted \in BOOLEAN : ProxyBind(accepted) \/ ProxyReply(accepted)
  \/ ProxyAddMatch
  \/ ReleaseDataCallback \/ UserRelease
  \/ ProxiedReset

StateNext ==
  \/ StateStep
  \/ \E d \in Tracked, accepted \in BOOLEAN :
       adbus_state_bind(d, accepted) \/ adbus_state_addreply(d, accepted)
  \/ \E d \in Tracked, unset \in BOOLEAN : adbus_state_addmatch(d, unset)
  \/ \E d \in Tracked : ServiceGone(d)
  \/ StateReset

StateSpec == StateInit /\ [][StateNext]_stateVars

(* Both threads run their queues. *)
StateFairness == WF_stateVars(StateStep)

-----------------------------------------------------------------------------
(* Properties *)

(* What the state lists are services that the connection has or has just
   released, under a struct Conn that exists, once each: a reset reaches all of
   them and touches nothing that is gone.  On one thread the lists are exactly
   the services. *)
TracksServices ==
  Unharmed =>
  /\ \A e \in DOMAIN tracked :
       /\ \A i, j \in DOMAIN tracked[e] : tracked[e][i] = tracked[e][j] => i = j
       /\ \A d \in ToSet(tracked[e]) : connOf[d] = e /\ d \notin freed /\ conns[e] = "live"
  /\ ~proxied => services = UNION {ToSet(tracked[e]) : e \in DOMAIN tracked}
  /\ proxied => services \subseteq UNION {ToSet(tracked[e]) : e \in DOMAIN tracked}

(* The release callback of a service is called once and not before the
   connection has let go of it. *)
ToldOnce ==
  \A d \in Tracked : told[d] <= 1 /\ (told[d] = 1 => d \in freed \ services)

(* Once a state has been reset no service of it is left with the connection, so
   that the object may be freed, and no reference to the connection. *)
ResetClears ==
  (Unharmed /\ current = 0 /\ toConn = <<>>) => services = {} /\ connRefs = 0

(* On one thread nothing goes wrong, and on two no release callback reads a struct Conn
   that has been freed: the assertions of ResetConn stop the program before that. *)
HarmAcrossThreads == harm # "stale" /\ (harm # "none" => proxied)

(* What becomes of a reset.  The connection has none of its services any more.  On one
   thread each of them has been freed and its owner told.  On two the release callbacks
   are still on their way when ResetConn looks at its lists, so it succeeds only if
   every service had gone by itself and been freed before; otherwise an assertion fails,
   or what the connection has freed is removed again. *)
ResetOutcome ==
  /\ \A d \in Tracked : connOf[d] # 0 /\ conns[connOf[d]] = "freed" =>
       d \notin services /\ (Unharmed => d \in freed) /\ (~proxied => told[d] = 1)
  /\ harm \in {"assert", "gone"} <=> \E e \in DOMAIN conns : conns[e] = "freed" /\ tracked[e] # <<>>

(* Every service that the connection has let go of, or refused, has its release
   callback called in the end, unless a reset has gone wrong. *)
GoneIsTold ==
  \A d \in Tracked : (connOf[d] # 0 /\ d \notin services) ~> (d \in services \/ told[d] = 1 \/ ~Unharmed)

(* Until the program is stopped a state lists what it has registered and nothing that is
   gone, and tells the owner of each service once that it is.  A reset leaves nothing
   with the connection; on one thread it always succeeds, on two only if nothing is
   listed any more. *)
StateSound == TracksServices /\ ToldOnce /\ ResetClears /\ HarmAcrossThreads /\ ResetOutcome
=============================================================================
