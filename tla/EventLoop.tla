----------------------------- MODULE EventLoop -----------------------------
(***************************************************************************)
(* The event loop of a bus (example/bus-epoll/main.c): accepting, reading, *)
(* the queues of outgoing bytes, and disconnecting at the end of a batch   *)
(* of events.                                                              *)
(*                                                                         *)
(* epoll is edge triggered: a socket is reported when something happens to *)
(* it, with everything that can be done with it then.  What a client sends *)
(* is "hello", the whole handshake, "msg", a message that the bus passes   *)
(* on to every other client, or "bad".                                     *)
(***************************************************************************)
EXTENDS Integers, Sequences, SequencesExt, FiniteSets

CONSTANTS
  Clients,   \* programs that may connect, once each
  MaxInputs, \* bound on what a client sends before it is read
  MaxTx      \* bound on the messages for one client

ASSUME EventLoopAssumption ==
  /\ IsFiniteSet(Clients) /\ "listener" \notin Clients
  /\ {MaxInputs, MaxTx} \subseteq Nat

VARIABLES
  conns,   \* for each client the struct Remote and its socket: life ("away",
           \* "arriving", "open", "closing", "freed"), hello (r->remote is set), tx (the
           \* number of messages in r->tx), input (not yet read), hup
           \* (the client has closed), room (send would not block), edge (epoll has
           \* something to report)
  loop,    \* what the loop does: "wait", "events", "disconnect", "aborted", "crashed"
  batch,   \* the events that are left; the client "listener" stands for the server's
  dlist,   \* the list s->disconnect
  failed,  \* history: clients whose bytes were refused or that could not be sent to
  filled,  \* history: clients disconnected as their bytes filled the last read exactly
  lost,    \* history: clients that DoDisconnect has left behind
  last     \* history: the client of the last event

loopVars == <<conns, loop, batch, dlist, failed, filled, lost, last>>

Inputs == {"hello", "msg", "bad"}

LoopInit ==
  /\ conns = [c \in Clients |-> [life |-> "away", hello |-> FALSE, tx |-> 0, input |-> <<>>,
                                 hup |-> FALSE, room |-> TRUE, edge |-> FALSE]]
  /\ loop = "wait" /\ batch = {} /\ dlist = <<>>
  /\ failed = {} /\ filled = {} /\ lost = {} /\ last = "none"

-----------------------------------------------------------------------------
(* The clients and the network *)

ClientConnects(c) ==
  /\ conns[c].life = "away"
  /\ conns' = [conns EXCEPT ![c].life = "arriving"]
  /\ UNCHANGED <<loop, batch, dlist, failed, filled, lost, last>>

Connected(c) == conns[c].life \in {"arriving", "open", "closing"}

(* The bound on queues, with what their clients are still to be told of. *)
MayQueue ==
  LET messages == {p \in Clients \X (1..MaxInputs) :
                     p[2] \in DOMAIN conns[p[1]].input /\ conns[p[1]].input[p[2]] = "msg"}
  IN  \A c \in Clients : conns[c].tx + Cardinality(messages) + Cardinality(Clients) < MaxTx

ClientSends(c, x) ==
  /\ Connected(c) /\ ~conns[c].hup /\ Len(conns[c].input) < MaxInputs
  /\ x = "msg" => MayQueue
  /\ conns' = [conns EXCEPT ![c].input = Append(@, x), ![c].edge = TRUE]
  /\ UNCHANGED <<loop, batch, dlist, failed, filled, lost, last>>

ClientCloses(c) ==
  /\ Connected(c) /\ ~conns[c].hup
  /\ conns' = [conns EXCEPT ![c].hup = TRUE, ![c].edge = TRUE]
  /\ UNCHANGED <<loop, batch, dlist, failed, filled, lost, last>>

(* The client reads, and there is room for more. *)
ClientReads(c) ==
  /\ Connected(c) /\ ~conns[c].room
  /\ conns' = [conns EXCEPT ![c].room = TRUE, ![c].edge = TRUE]
  /\ UNCHANGED <<loop, batch, dlist, failed, filled, lost, last>>

-----------------------------------------------------------------------------
(* The handlers *)

(* ServerRecv: everybody who waits is accepted.  A new socket is reported by epoll
   as soon as it is added. *)
ServerRecv(cs) ==
  [c \in Clients |-> IF cs[c].life = "arriving"
                     THEN [cs[c] EXCEPT !.life = "open", !.edge = TRUE] ELSE cs[c]]

(* The bus gives n messages to every remote that it knows, but for one: SendMsg
   appends them. *)
SendMsg(cs, from, n) ==
  [c \in Clients |-> IF c # from /\ cs[c].hello THEN [cs[c] EXCEPT !.tx = @ + n] ELSE cs[c]]

(* Disconnect: the memory is in use until DoDisconnect. *)
Disconnected(cs, c) == [cs EXCEPT ![c].life = "closing"]

(* What the loop of RemoteRecv accepts as the i-th of the inputs that are there, if
   none before it is refused. *)
Awaited(r, i) == IF i = 1 /\ ~r.hello THEN "hello" ELSE "msg"

(* When what has arrived fills the last read exactly, one more read returns -1 with
   EAGAIN, and as the result and not errno is compared with that the remote is
   disconnected. *)
Filled(r, exact) == exact /\ r.input # <<>> /\ ~r.hup

(* RemoteRecv: behind the first input that is refused nothing is looked at. *)
LoopRecv(cs, c, exact) ==
  LET r == cs[c]
      read == [cs EXCEPT ![c].input = <<>>]
      refused == {i \in DOMAIN r.input : r.input[i] # Awaited(r, i)}
      taken == IF refused = {} THEN Len(r.input) ELSE Min(refused) - 1
      heard == [read EXCEPT ![c].hello = @ \/ taken > 0]
      told == SendMsg(heard, c, IF r.hello \/ taken = 0 THEN taken ELSE taken - 1)
  IN  IF r.life = "closing" THEN cs
      ELSE IF Filled(r, exact) THEN Disconnected(read, c)
      ELSE IF refused # {} THEN Disconnected(told, c)
      ELSE told

(* Mutant: nothing is removed from the buffer. *)
RemoteSend_Keep(cs, c, n) ==
  IF cs[c].life = "closing" \/ ~cs[c].hello \/ cs[c].tx = 0 THEN cs
  ELSE [cs EXCEPT ![c].room = (n >= cs[c].tx)]

(* RemoteSend: n messages fit, as there is room; the rest stays for the next event. *)
RemoteSend(cs, c, n) ==
  IF cs[c].life = "closing" \/ ~cs[c].hello \/ cs[c].tx = 0 THEN cs
  ELSE IF n >= cs[c].tx THEN [cs EXCEPT ![c].tx = 0]
  ELSE [cs EXCEPT ![c].tx = @ - n, ![c].room = FALSE]

-----------------------------------------------------------------------------
(* main *)

(* epoll_wait *)
Wait ==
  LET ready == {c \in Clients : conns[c].life \in {"open", "closing"} /\ conns[c].edge}
      arriving == \E c \in Clients : conns[c].life = "arriving"
      event(c) == [of |-> c, in |-> conns[c].input # <<>> \/ conns[c].hup,
                   hup |-> conns[c].hup, out |-> conns[c].room]
  IN  /\ loop = "wait"
      /\ ready # {} \/ arriving
      /\ batch' = {event(c) : c \in ready}
                    \cup {[of |-> "listener", in |-> TRUE, hup |-> FALSE, out |-> FALSE] : a \in {arriving} \ {FALSE}}
      /\ conns' = [c \in Clients |-> [conns[c] EXCEPT !.edge = @ /\ c \notin ready]]
      /\ loop' = "events"
      /\ UNCHANGED <<dlist, failed, filled, lost, last>>

Listen ==
  /\ loop = "events"
  /\ \E e \in batch : e.of = "listener" /\ batch' = batch \ {e}
  /\ conns' = ServerRecv(conns)
  /\ last' = "listener"
  /\ UNCHANGED <<loop, dlist, failed, filled, lost>>

(* The event of a remote is handled; Disconnect must not be called twice. *)
Handled(e, cs, calls) ==
  /\ batch' = batch \ {e} /\ last' = e.of
  /\ conns' = cs
  /\ dlist' = IF calls > 0 THEN <<e.of>> \o dlist ELSE dlist
  /\ loop' = IF calls > 1 \/ (calls > 0 /\ conns[e.of].life = "closing") THEN "aborted" ELSE loop
  /\ UNCHANGED lost

(* EPOLLERR, when the client has closed *)
HandleError(e) ==
  /\ e.hup
  /\ Handled(e, Disconnected(conns, e.of), 1)
  /\ UNCHANGED <<failed, filled>>

(* EPOLLIN, EPOLLHUP or EPOLLRDHUP, and EPOLLOUT, in that order *)
HandleEvent(e, exact, n) ==
  LET read == IF e.in THEN LoopRecv(conns, e.of, exact) ELSE conns
      fails == conns[e.of].life = "open" /\ read[e.of].life = "closing"
      count == (IF fails THEN 1 ELSE 0) + (IF e.hup THEN 1 ELSE 0)
      full == Filled(conns[e.of], exact)
  IN  /\ failed' = IF fails /\ ~full THEN failed \cup {e.of} ELSE failed
      /\ filled' = IF fails /\ full THEN filled \cup {e.of} ELSE filled
      /\ IF e.hup THEN Handled(e, Disconnected(read, e.of), count)
         ELSE Handled(e, IF e.out THEN RemoteSend(read, e.of, n) ELSE read, count)

(* send fails with another error than EAGAIN. *)
SendFails(e) ==
  /\ e.out /\ ~e.in /\ ~e.hup
  /\ conns[e.of].life = "open" /\ conns[e.of].hello /\ conns[e.of].tx > 0
  /\ Handled(e, Disconnected(conns, e.of), 1)
  /\ failed' = failed \cup {e.of} /\ UNCHANGED filled

EventOf(e) ==
  /\ loop = "events" /\ e.of \in Clients
  /\ \/ HandleError(e)
     \/ \E exact \in BOOLEAN, n \in 1..MaxTx : HandleEvent(e, exact, n)
     \/ SendFails(e)

EndOfBatch ==
  /\ loop = "events" /\ batch = {}
  /\ loop' = "disconnect"
  /\ UNCHANGED <<conns, batch, dlist, failed, filled, lost, last>>

(* Mutant: the bus is not told. *)
CloseRemote_Silent(cs, c) == [cs EXCEPT ![c].life = "freed", ![c].tx = 0]

(* The body of the loop of DoDisconnect: the bus tells the other remotes, and only
   then the memory is freed. *)
CloseRemote(cs, c) ==
  LET gone == [cs EXCEPT ![c].life = "freed", ![c].hello = FALSE, ![c].tx = 0]
  IN  IF cs[c].hello THEN SendMsg(gone, c, 1) ELSE gone

(* DoDisconnect: the next element is read from the memory that was just freed.  It
   may still be there, be read as the end of the list, or be anything. *)
DoDisconnect(next) ==
  /\ loop = "disconnect" /\ dlist # <<>>
  /\ conns' = CloseRemote(conns, Head(dlist))
  /\ dlist' = IF next = "null" THEN <<>> ELSE Tail(dlist)
  /\ lost' = IF next = "null" THEN lost \cup ToSet(Tail(dlist)) ELSE lost
  /\ loop' = IF next = "junk" THEN "crashed" ELSE loop
  /\ UNCHANGED <<batch, failed, filled, last>>

Again ==
  /\ loop = "disconnect" /\ dlist = <<>>
  /\ loop' = "wait"
  /\ UNCHANGED <<conns, batch, dlist, failed, filled, lost, last>>

LoopStep ==
  \/ Wait \/ Listen \/ EndOfBatch \/ Again
  \/ \E e \in batch : EventOf(e)
  \/ \E next \in {"kept", "null", "junk"} : DoDisconnect(next)

LoopNext ==
  \/ \E c \in Clients :
       \/ ClientConnects(c) \/ ClientCloses(c) \/ ClientReads(c)
       \/ \E x \in Inputs : ClientSends(c, x)
  \/ LoopStep

LoopSpec == LoopInit /\ [][LoopNext]_loopVars

-----------------------------------------------------------------------------
(* Properties *)

Stopped == loop \in {"aborted", "crashed"}

(* The bus knows only remotes whose memory is in use, so that SendMsg never appends
   to a buffer that DoDisconnect has freed, whoever is told of whom in one batch;
   and no remote is in the list of those to disconnect when it is gone. *)
RemotesAlive ==
  \A c \in Clients :
    /\ conns[c].hello => conns[c].life \in {"open", "closing"}
    /\ c \in ToSet(dlist) => conns[c].life = "closing" \/ Stopped

(* What stops the bus.  The assertion of Disconnect fails only for a client whose bytes
   were refused in the same event that reports its end, or for one that DoDisconnect left
   behind before; and the bus crashes, or leaves clients behind, only when a client has
   gone.  Any client that has gone will do: one that merely closes its socket, as every
   client does in the end, can stop the bus, since DoDisconnect then reads the next element
   from the memory that it has just freed. *)
StopNeedsCause ==
  /\ loop = "aborted" => last \in failed \cup lost
  /\ loop = "crashed" \/ lost # {} => \E c \in Clients : conns[c].life = "freed"

(* The bus disconnects a client only if the client has closed its socket, has sent bytes
   that are refused, cannot be sent to, or has filled the last read of the bus exactly.  The
   last of these is no fault of the client: RemoteRecv takes -1 with EAGAIN for an error. *)
GoneForAReason ==
  \A c \in Clients :
    conns[c].life \in {"closing", "freed"} => conns[c].hup \/ c \in failed \cup filled

(* As long as epoll has events of a client to report now and then, its buffer of
   outgoing messages is emptied or shortened again and again, when send takes only a
   part of it too.  (Appending alone causes no event: what is queued for a client
   that does nothing waits for its next event.) *)
QueuesMove ==
  \A c \in Clients :
    []<>(conns[c].edge /\ conns[c].room) =>
      \/ []<>(conns[c].tx = 0 \/ conns[c].life # "open" \/ Stopped)
      \/ []<><<conns'[c].tx < conns[c].tx>>_loopVars

(* The bus only writes to remotes that exist; it disconnects a client for one of four
   reasons, three of them the client's own; and it stops only after a refusal or
   when a client has gone, but then also without any fault of a client. *)
LoopSound == RemotesAlive /\ StopNeedsCause /\ GoneForAReason
=============================================================================
