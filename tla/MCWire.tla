------------------------------- MODULE MCWire -------------------------------
(***************************************************************************)
(* What comes over a stream: the handshake and what its lines carry, the   *)
(* two parsers, the headers of messages, and the event loops of the hosts  *)
(* of the bus, checked side by side: in a behaviour one of them runs and   *)
(* the others keep their initial states.                                   *)
(***************************************************************************)
EXTENDS RemoteParse, MCConnParse, Auth, EventLoop, AuthData, Received, BusHosts

VARIABLE part  \* the part that runs

wireVars ==
  <<part, parseVars, connVars, authVars, loopVars, authDataVars, readVars, hostVars>>

Sender(size) == [sender |-> TRUE, size |-> size]

(* What peers send: a field with and without padding after it, sender fields first,
   last and twice. *)
SomeFields ==
  {<<Field(3)>>, <<Field(4)>>,
   <<Sender(3), Field(2)>>, <<Sender(1), Field(1), Sender(4)>>}

(* Signals, calls, answers and errors, complete and not. *)
SomeHeaderSets == {{1, 2, 3, 8}, {2, 3, 6, 7}, {4, 5}}

(* User 0, user 1000, a security identifier, and one with other bytes. *)
SomeIdentities ==
  {<<48>>, <<49, 48, 48, 48>>, <<83, 45, 49, 45, 53>>, <<106, 255, 1, 172>>}
(* Capital digits, an odd number of digits, a pair that is none, no digits, a byte 0. *)
SomeClaims ==
  {<<52, 65, 70, 102>>, <<51, 48, 51>>, <<51, 48, 122, 48, 51, 49>>, <<>>,
   <<51, 48, 48, 48, 51, 49>>}

(* The identifiers 1, 12 and 2; the keyring may have them in any order, or miss one. *)
Id1 == <<49>>
Id12 == <<49, 50>>
Id2 == <<50>>
SomeChallenges ==
  {<<"ring", id, "x">> : id \in {Id1, Id12, Id2}} \cup {<<"ring", Id1, "x", "y">>, <<"ring", Id1>>}
RingLine(id) == [id |-> id, rest |-> <<<<"time">>, id \o <<"cookie">>>>]
SomeKeyrings ==
  LET ringLines == {RingLine(id) : id \in {Id1, Id12, Id2}} \cup {[RingLine(id) EXCEPT !.rest = Tail(@)] : id \in {Id1, Id12}} \cup {[RingLine(Id1) EXCEPT !.rest = <<>>]}
  IN  {NotYet, <<>>} \cup {<<a>> : a \in ringLines} \cup {<<a, b>> : a, b \in ringLines}
SomeRandoms == {<<>>, <<171, 1>>}

First(S) == CHOOSE x \in S : TRUE
Fixed(S) == [1..MaxMsgs -> {First(S)}]

Init ==
  /\ part \in {"server parser", "client parser", "headers", "handshake", "auth data",
               "event loop", "hosts"}
  /\ LoopInit /\ ReadInit
  /\ ParseInit /\ (part # "server parser" => msgs \in Fixed(PeerMessages))
  /\ ConnInit /\ (part # "client parser" => stream \in Fixed(BusMessages))
  /\ AuthInit
  /\ part # "handshake" => /\ clientIs = "adbus" /\ serverIs = "adbus"
                           /\ external = "NOT_TRIED"
  /\ AuthDataInit /\ (part # "auth data" => ownId = <<48>>)
  /\ HostInit /\ (part # "hosts" => host = "win")

(* One part takes a step; the variables of every other part are unchanged. *)
Keeps(p) ==
  /\ part = p /\ UNCHANGED part
  /\ p # "server parser" => UNCHANGED parseVars
  /\ p # "client parser" => UNCHANGED connVars
  /\ p # "headers" => UNCHANGED readVars
  /\ p # "handshake" => UNCHANGED authVars
  /\ p # "auth data" => UNCHANGED authDataVars
  /\ p # "event loop" => UNCHANGED loopVars
  /\ p # "hosts" => UNCHANGED hostVars

ServerParserRuns == Keeps("server parser") /\ ParseNext
ClientParserRuns == Keeps("client parser") /\ ConnNext
HeadersRun == Keeps("headers") /\ ReadNext
HandshakeRuns == Keeps("handshake") /\ AuthNext
AuthDataRuns == Keeps("auth data") /\ AuthDataNext
EventLoopRuns == Keeps("event loop") /\ LoopNext
HostsRun == Keeps("hosts") /\ HostNext

Next ==
  \/ ServerParserRuns \/ ClientParserRuns \/ HeadersRun \/ HandshakeRuns
  \/ AuthDataRuns \/ EventLoopRuns \/ HostsRun

(* The fairness of each part while it runs. *)
Spec ==
  /\ Init /\ [][Next]_wireVars
  /\ WF_parseVars(part = "server parser" /\ Parse)
  /\ WF_parseVars(part = "server parser" /\ RemoteRecv)
  /\ WF_connVars(part = "client parser" /\ (ParseMessage \/ ParseFails \/ ParseReturn))
  /\ WF_connVars(part = "client parser" /\ ConnReceive)
  /\ WF_authVars(part = "handshake" /\ AuthReceive)
  /\ WF_authVars(part = "handshake" /\ ServerStep)
  /\ WF_authVars(part = "handshake" /\ ClientStep)
  /\ WF_loopVars(part = "event loop" /\ LoopStep)

(* What arrives is worked off: a handshake comes to an end on both sides and the
   messages behind it arrive, and both parsers come to the end of a stream, or to its
   first fault. *)
StreamsParsed == HandshakeEnds /\ MessagesArrive /\ AllDispatched /\ AllParsed
=============================================================================
