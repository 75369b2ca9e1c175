------------------------------ MODULE BusHosts ------------------------------
(***************************************************************************)
(* The programs that host a bus on Windows (example/bus-win/Server.cpp)    *)
(* and with Qt (example/bus-qt/Server.cpp): the Remote objects of the      *)
(* clients, from accept to the end, and the end of the program.  The       *)
(* Windows host deletes a Remote at once, the Qt host when it is back in   *)
(* its event loop.                                                         *)
(*                                                                         *)
(* What a client sends is its first byte ("nul"), a line of the handshake  *)
(* ("line"), the line that ends it ("begin") or a message ("msg"); what    *)
(* comes out of order is refused.                                          *)
(***************************************************************************)
EXTENDS Integers, Sequences, SequencesExt, FiniteSets, Lists

CONSTANTS
  Guests,    \* the clients, who connect once each
  Hosts,     \* the hosts: "win", "qt"
  MaxPieces  \* bound on what clients have sent that is not read yet

ASSUME BusHostsAssumption ==
  IsFiniteSet(Guests) /\ Hosts \subseteq {"win", "qt"} /\ MaxPieces \in Nat

VARIABLES
  host,      \* which host runs
  guests,    \* the Remote object of each client: life ("away", "open", "doomed": its
             \* deletion is posted, "gone"), stage ("fresh", "auth": m_Auth is set, "bus":
             \* m_Remote is set), input, and shut: the client has closed
  listed,    \* m_Remotes, or the children of the server object
  handles,   \* the Remotes that the event loop of the Windows host calls
  onBus,     \* the remotes of the adbus_Server
  up,        \* the server object exists
  misuse     \* freed memory has been used or an assertion has failed

hostVars == <<host, guests, listed, handles, onBus, up, misuse>>

GuestInputs == {"nul", "line", "begin", "msg"}

(* Server::Server, TcpServer::TcpServer, LocalServer::LocalServer *)
HostInit ==
  /\ host \in Hosts
  /\ guests = [g \in Guests |-> [life |-> "away", stage |-> "fresh", input |-> <<>>, shut |-> FALSE]]
  /\ listed = <<>> /\ handles = {} /\ onBus = {}
  /\ up = TRUE /\ misuse = FALSE

Lives(g) == guests[g].life \in {"open", "doomed"}

-----------------------------------------------------------------------------
(* The clients *)

(* What has been sent and not been read. *)
Unread == {p \in Guests \X (1..MaxPieces) : p[2] \in DOMAIN guests[p[1]].input}

GuestSends(g, x) ==
  /\ up /\ Lives(g) /\ ~guests[g].shut
  /\ Cardinality(Unread) < MaxPieces
  /\ guests' = [guests EXCEPT ![g].input = Append(@, x)]
  /\ UNCHANGED <<host, listed, handles, onBus, up, misuse>>

GuestCloses(g) ==
  /\ up /\ Lives(g) /\ ~guests[g].shut
  /\ guests' = [guests EXCEPT ![g].shut = TRUE]
  /\ UNCHANGED <<host, listed, handles, onBus, up, misuse>>

-----------------------------------------------------------------------------
(* The host *)

(* accept: the Remote is made and put in the list. *)
NewRemote(g) ==
  /\ up /\ ~misuse /\ guests[g].life = "away"
  /\ guests' = [guests EXCEPT ![g].life = "open"]
  /\ listed' = Append(listed, g)
  /\ UNCHANGED <<host, onBus, up, misuse>>

(* Server::OnEvent, Remote::Remote and Server::Connect *)
AcceptWin(g) == host = "win" /\ NewRemote(g) /\ handles' = handles \cup {g}

(* newConnection and Remote::Init *)
AcceptQt(g) == host = "qt" /\ NewRemote(g) /\ UNCHANGED handles

(* SendMsg: the bus writes to the sockets of the remotes that it has, of a message of g
   or because g has gone. *)
WritesTo(bus) == \A g \in bus : Lives(g)

(* The loop of Remote::OnEvent and Remote::readyRead.  The stage in which the i-th of
   the pieces that are there is looked at, if none before it is refused; *)
StageAt(g, i) ==
  IF guests[g].stage = "bus" \/ \E j \in 1..(i - 1) : guests[g].input[j] = "begin" THEN "bus"
  ELSE IF guests[g].stage = "auth" \/ i > 1 THEN "auth"
  ELSE "fresh"

(* what is accepted in a stage; *)
TakenIn(stage) ==
  CASE stage = "fresh" -> {"nul"}
    [] stage = "auth" -> {"line", "begin"}
    [] stage = "bus" -> {"msg"}

(* and the stage that is reached: behind the first piece that is refused nothing is
   looked at. *)
ReadGuest(g) ==
  LET pieces == DOMAIN guests[g].input
      refused == {i \in pieces : guests[g].input[i] \notin TakenIn(StageAt(g, i))}
      end == IF refused = {} THEN Len(guests[g].input) + 1 ELSE Min(refused)
  IN  [stage |-> StageAt(g, end), refused |-> refused # {}]

(* adbus_serv_connect when the handshake has ended *)
BusWith(g, stage) == IF stage = "bus" THEN onBus \cup {g} ELSE onBus

(* Mutant: m_Remote is not cleared, and the destructor disconnects it again. *)
DeleteNow_Twice(g, stage, bus) ==
  /\ guests' = [guests EXCEPT ![g].life = "gone", ![g].stage = "fresh", ![g].input = <<>>]
  /\ onBus' = bus \ {g}
  /\ listed' = Without(listed, {g}) /\ handles' = handles \ {g}
  /\ misuse' = (misuse \/ stage = "bus")

(* Remote::Disconnect and Server::Disconnect: the bus drops the remote and tells the
   others, m_Remote is cleared, the Remote is looked up in the list, deleted and taken
   from it. *)
DeleteNow(g, stage, bus) ==
  /\ guests' = [guests EXCEPT ![g].life = "gone", ![g].stage = "fresh", ![g].input = <<>>]
  /\ onBus' = bus \ {g}
  /\ listed' = Without(listed, {g}) /\ handles' = handles \ {g}
  /\ misuse' = (misuse \/ ~WritesTo(bus) \/ g \notin ToSet(listed))

(* Remote::OnEvent.  When the last read was filled exactly one more is tried, fails
   as nothing is there, and the remote is disconnected. *)
WinEvent(g, exact) ==
  LET read == ReadGuest(g)
      some == guests[g].input # <<>>
      ends == read.refused \/ (some /\ exact) \/ guests[g].shut
  IN  /\ up /\ ~misuse /\ host = "win" /\ g \in handles
      /\ some \/ guests[g].shut
      /\ IF ends THEN DeleteNow(g, read.stage, BusWith(g, read.stage))
         ELSE /\ guests' = [guests EXCEPT ![g].stage = read.stage, ![g].input = <<>>]
              /\ onBus' = BusWith(g, read.stage)
              /\ misuse' = (misuse \/ ~WritesTo(onBus))
              /\ UNCHANGED <<listed, handles>>
      /\ UNCHANGED <<host, up>>

(* Remote::readyRead, which may be called once more when the deletion is posted.  A read
   from a socket that has closed fails. *)
ReadyRead(g, fails) ==
  LET read == ReadGuest(g)
  IN  /\ up /\ ~misuse /\ host = "qt" /\ Lives(g) /\ guests[g].input # <<>>
      /\ fails => guests[g].shut
      /\ guests' = [guests EXCEPT ![g].stage = read.stage, ![g].input = <<>>,
                                  ![g].life = IF read.refused \/ fails THEN "doomed" ELSE @]
      /\ onBus' = BusWith(g, read.stage)
      /\ misuse' = (misuse \/ ~WritesTo(onBus))
      /\ UNCHANGED <<host, listed, handles, up>>

(* The signals disconnected and error of the socket. *)
SocketCloses(g) ==
  /\ up /\ host = "qt" /\ guests[g].life = "open" /\ guests[g].shut
  /\ guests' = [guests EXCEPT ![g].life = "doomed"]
  /\ UNCHANGED <<host, listed, handles, onBus, up, misuse>>

(* Remote::~Remote of the Qt host, from the event loop. *)
DeleteLater(g) ==
  /\ up /\ ~misuse /\ host = "qt" /\ guests[g].life = "doomed"
  /\ guests' = [guests EXCEPT ![g].life = "gone", ![g].stage = "fresh", ![g].input = <<>>]
  /\ onBus' = onBus \ {g}
  /\ listed' = Without(listed, {g})
  /\ misuse' = (misuse \/ ~WritesTo(onBus))
  /\ UNCHANGED <<host, handles, up>>

(* The server object goes, and every Remote with it. *)
ServerGone ==
  /\ up /\ ~misuse
  /\ up' = FALSE
  /\ guests' = [g \in Guests |-> IF g \in ToSet(listed)
                                 THEN [guests[g] EXCEPT !.life = "gone", !.stage = "fresh", !.input = <<>>]
                                 ELSE guests[g]]
  /\ onBus' = {} /\ listed' = <<>>
  /\ UNCHANGED <<host, handles>>

(* Server::~Server deletes the Remotes, which leave the bus, and then frees the
   adbus_Server, which must have none left.  The event loop is told that the server
   goes, not that the Remotes do. *)
WinServerEnds ==
  /\ host = "win" /\ ServerGone
  /\ misuse' = ~(WritesTo(onBus) /\ onBus \subseteq ToSet(listed))

(* ~TcpServer and ~LocalServer free the adbus_Server with the remotes that it has; then
   the children are deleted, and those that have got through the handshake disconnect
   a remote that is no more. *)
QtServerEnds ==
  /\ host = "qt" /\ ServerGone
  /\ misuse' = ~(WritesTo(onBus) /\ onBus = {})

(* A turn of a Windows event loop that outlives its server, which main.cpp's does not:
   it still has the handles, and calls OnEvent of a Remote that was deleted. *)
TurnAfterEnd(g) ==
  /\ host = "win" /\ ~up /\ ~misuse /\ g \in handles
  /\ misuse' = TRUE
  /\ UNCHANGED <<host, guests, listed, handles, onBus, up>>

HostNext ==
  \/ \E g \in Guests :
       \/ TurnAfterEnd(g) \/ AcceptWin(g) \/ AcceptQt(g) \/ GuestCloses(g) \/ SocketCloses(g) \/ DeleteLater(g)
       \/ \E x \in GuestInputs : GuestSends(g, x)
       \/ \E flag \in BOOLEAN : WinEvent(g, flag) \/ ReadyRead(g, flag)
  \/ WinServerEnds \/ QtServerEnds

HostSpec == HostInit /\ [][HostNext]_hostVars

-----------------------------------------------------------------------------
(* Properties *)

(* The bus has exactly the remotes whose clients have got through the handshake and
   whose Remote objects exist, so that SendMsg finds a socket whichever client goes
   first; each of these is in the list once.  As long as the server object exists the
   event loop of Windows calls exactly these, and no freed memory is used.  It is used
   only behind the end of the server: by a Qt host, or through handles that the
   Windows server left registered. *)
RemotesHeld ==
  /\ onBus = {g \in Guests : Lives(g) /\ guests[g].stage = "bus"}
  /\ IsInjective(listed) /\ ToSet(listed) = {g \in Guests : Lives(g)}
  /\ host = "win" /\ up => handles = ToSet(listed)
  /\ misuse => ~up /\ (host = "win" => handles # {})
=============================================================================
