----------------------------- MODULE WireProofs -----------------------------
(***************************************************************************)
(* Proofs about what stands between a socket and the bus:                  *)
(*   Auth                     the handshake,                               *)
(*   AuthData                 what its lines carry,                        *)
(*   RemoteParse, ConnParse   the parsers of the two streams,              *)
(*   Received                 the headers of messages,                     *)
(*   EventLoop, BusHosts      the hosts of the bus,                        *)
(*   Sockets                  the sockets of client and server.            *)
(* The components share no state.  Each has a section with its inductive   *)
(* invariant, one lemma for each group of actions, and its theorem.        *)
(***************************************************************************)
EXTENDS Auth, AuthData, RemoteParse, ConnParse, EventLoop, BusHosts, Sockets, Received, ListFacts


-----------------------------------------------------------------------------
(***************************************************************************)
(* The handshake (module Auth): whatever some other program sends, the     *)
(* server connects only a client that it has accepted, and two sides of    *)
(* adbus never disagree.                                                   *)
(*                                                                         *)
(* When both sides are adbus, the handshake is a dialogue: one line is on  *)
(* its way at a time, until the client sends BEGIN and its messages behind *)
(* it.  The invariant names the stages of the dialogue.  What is on the    *)
(* way to the server may be cut anywhere between the network and the       *)
(* receive buffer, so the stages speak of both together.                   *)
(***************************************************************************)

Lines == ClientLines \cup {"MESSAGE"}

(* What has been sent to the server and not been worked on. *)
Wire == pending \o toServer

BothAdbus == clientIs = "adbus" /\ serverIs = "adbus"

(* The types of the variables. *)
WireTypes ==
  /\ clientIs \in {"adbus", "other"} /\ serverIs \in {"adbus", "other"}
  /\ toServer \in Seq(Lines) /\ pending \in Seq(Lines) /\ toClient \in Seq(ServerLines)
SideTypes ==
  /\ phase \in {"null byte", "auth", "remote", "gone"}
  /\ external \in {"NOT_TRIED", "NOT_SUPPORTED", "BEGIN"}
  /\ okSent \in BOOLEAN /\ granted \in BOOLEAN /\ misread \in BOOLEAN
  /\ cauth \in {"idle", "auth", "done", "failed"}
  /\ tried \subseteq {"EXTERNAL", "COOKIE"}
  /\ posted \in Nat /\ parsed \in Nat

(* The server's own bookkeeping, whoever the client is. *)
ServerKeeps ==
  /\ granted = okSent
  /\ okSent => external = "BEGIN"
  /\ phase = "remote" => okSent

(* Another program in its place leaves the server's variables alone. *)
ServerAbsent == serverIs = "other" => pending = <<>> /\ parsed = 0

(* The stages of the dialogue *)
NotStarted ==
  /\ cauth = "idle" /\ phase = "null byte" /\ ~okSent
  /\ Wire = <<>> /\ toClient = <<>> /\ posted = 0 /\ parsed = 0
Greeted ==
  /\ cauth = "auth" /\ phase = "null byte" /\ ~okSent /\ tried = {"EXTERNAL"}
  /\ Wire = <<"NUL", "AUTH EXTERNAL">> /\ toClient = <<>> /\ posted = 0 /\ parsed = 0
Asked ==
  /\ cauth = "auth" /\ phase = "auth" /\ ~okSent
  /\ Wire = IF "COOKIE" \in tried THEN <<"AUTH COOKIE">> ELSE <<"AUTH EXTERNAL">>
  /\ toClient = <<>> /\ posted = 0 /\ parsed = 0
Answered ==
  /\ cauth = "auth" /\ phase = "auth"
  /\ Wire = <<>> /\ toClient = IF okSent THEN <<"OK">> ELSE <<"REJECTED">>
  /\ posted = 0 /\ parsed = 0
GivenUp ==
  /\ cauth = "failed" /\ phase = "auth" /\ ~okSent
  /\ Wire = <<>> /\ toClient = <<>> /\ posted = 0 /\ parsed = 0
Begun ==
  /\ cauth = "done" /\ phase = "auth" /\ okSent
  /\ Len(Wire) = posted + 1 /\ Wire[1] = "BEGIN"
  /\ \A i \in 2..Len(Wire) : Wire[i] = "MESSAGE"
  /\ toClient = <<>> /\ parsed = 0
BothConnected ==
  /\ cauth = "done" /\ phase = "remote" /\ okSent
  /\ Len(Wire) + parsed = posted
  /\ \A i \in 1..Len(Wire) : Wire[i] = "MESSAGE"
  /\ toClient = <<>>

Dialogue ==
  NotStarted \/ Greeted \/ Asked \/ Answered \/ GivenUp \/ Begun \/ BothConnected

AuthInv ==
  /\ WireTypes /\ SideTypes /\ ServerKeeps /\ ServerAbsent
  /\ BothAdbus => Dialogue /\ ~misread
-----------------------------------------------------------------------------
(* The wire *)

(* The server takes a line from its buffer: it is the first on the wire. *)
LEMMA TakenFromWire ==
  ASSUME WireTypes, ServerAbsent, pending # <<>>, pending' = Tail(pending), UNCHANGED toServer
  PROVE  /\ pending' \in Seq(Lines) /\ toServer' \in Seq(Lines)
         /\ Wire' = Tail(Wire) /\ Wire \in Seq(Lines) /\ Wire # <<>> /\ Wire[1] = pending[1]
         /\ serverIs = "adbus"
<1>1. pending \in Seq(Lines) /\ toServer \in Seq(Lines)
  BY DEF WireTypes
<1>2. /\ Tail(pending) \in Seq(Lines)
      /\ Tail(pending) \o toServer = Tail(pending \o toServer)
      /\ pending \o toServer # <<>>
      /\ (pending \o toServer)[1] = pending[1]
  BY <1>1, TakeFromJoined
<1>3. serverIs = "adbus"
  BY DEF WireTypes, ServerAbsent
<1>4. pending \o toServer \in Seq(Lines)
  BY <1>1
<1> QED BY <1>1, <1>2, <1>3, <1>4 DEF Wire

(* The client sends a line: it is the last on the wire. *)
LEMMA PutOnWire ==
  ASSUME WireTypes, NEW line \in Lines, toServer' = Append(toServer, line), UNCHANGED pending
  PROVE  /\ pending' \in Seq(Lines) /\ toServer' \in Seq(Lines)
         /\ Wire' = Append(Wire, line) /\ Wire \in Seq(Lines)
<1>1. pending \in Seq(Lines) /\ toServer \in Seq(Lines)
  BY DEF WireTypes
<1>2. pending \o Append(toServer, line) = Append(pending \o toServer, line)
  BY <1>1, PutBehindJoined
<1>3. pending \o toServer \in Seq(Lines) /\ Append(toServer, line) \in Seq(Lines)
  BY <1>1
<1> QED BY <1>1, <1>2, <1>3 DEF Wire

(* A wire of one line, or of two. *)
LEMMA ShortWires ==
  ASSUME NEW S, NEW a \in S, NEW b \in S
  PROVE  /\ Append(<<>>, a) = <<a>> /\ Append(<<a>>, b) = <<a, b>>
         /\ Tail(<<a>>) = <<>> /\ Tail(<<a, b>>) = <<b>>
         /\ <<a>>[1] = a /\ <<a, b>>[1] = a
         /\ <<a>> # <<>> /\ <<a, b>> # <<>> /\ <<a, b>> \in Seq(S)
         /\ <<>> \o <<>> = <<>> /\ <<>> \o <<a, b>> = <<a, b>>
<1>1. <<>> \in Seq(S) /\ <<a>> \in Seq(S) /\ <<b>> \in Seq(S) /\ <<a, b>> \in Seq(S)
  OBVIOUS
<1>2. Len(<<>>) = 0 /\ Len(<<a>>) = 1 /\ Len(<<a, b>>) = 2 /\ Len(<<b>>) = 1
  OBVIOUS
<1>3. <<a>>[1] = a /\ <<a, b>>[1] = a /\ <<a, b>>[2] = b /\ <<b>>[1] = b
  OBVIOUS
<1>4. Append(<<>>, a) = <<a>>
  <2>1. Append(<<>>, a) \in Seq(S) /\ Len(Append(<<>>, a)) = 1 /\ Append(<<>>, a)[1] = a
    BY <1>1, <1>2
  <2>2. \A i \in 1..1 : Append(<<>>, a)[i] = <<a>>[i]
    BY <1>3, <2>1
  <2> QED BY <1>1, <1>2, <2>1, <2>2, SeqEqual
<1>5. Append(<<a>>, b) = <<a, b>>
  <2>1. /\ Append(<<a>>, b) \in Seq(S) /\ Len(Append(<<a>>, b)) = 2
        /\ Append(<<a>>, b)[1] = a /\ Append(<<a>>, b)[2] = b
    BY <1>1, <1>2, <1>3
  <2>2. \A i \in 1..2 : Append(<<a>>, b)[i] = <<a, b>>[i]
    BY <1>3, <2>1
  <2> QED BY <1>1, <1>2, <2>1, <2>2, SeqEqual
<1>6. Tail(<<a>>) = <<>>
  BY <1>1, <1>2
<1>7. Tail(<<a, b>>) = <<b>>
  <2>1. Tail(<<a, b>>) \in Seq(S) /\ Len(Tail(<<a, b>>)) = 1 /\ Tail(<<a, b>>)[1] = b
    BY <1>1, <1>2, <1>3
  <2> QED BY <1>1, <1>2, <1>3, <2>1, SeqEqual
<1>8. <<>> \o <<>> = <<>>
  <2>1. <<>> \o <<>> \in Seq(S) /\ Len(<<>> \o <<>>) = 0
    BY <1>1, <1>2
  <2> QED BY <2>1
<1>9. <<>> \o <<a, b>> = <<a, b>>
  BY <1>1, ConcatEmptySeq
<1> QED BY <1>1, <1>2, <1>3, <1>4, <1>5, <1>6, <1>7, <1>8, <1>9

-----------------------------------------------------------------------------
(* The server *)

(* What reads cut does not matter. *)
LEMMA AuthReceiveKeeps == AuthInv /\ AuthReceive => AuthInv'
<1> SUFFICES ASSUME AuthInv, AuthReceive PROVE AuthInv'
  OBVIOUS
<1>1. PICK k \in 1..Len(toServer) :
        /\ pending' = SubSeq(toServer, 1, k)
        /\ toServer' = SubSeq(toServer, k + 1, Len(toServer))
  BY DEF AuthReceive
<1>2. /\ toServer \in Seq(Lines) /\ pending = <<>> /\ serverIs = "adbus"
      /\ UNCHANGED <<clientIs, serverIs, toClient, sauthVars, cauthVars, lines>>
  BY DEF AuthReceive, AuthInv, WireTypes
<1>3. /\ pending' \in Seq(Lines) /\ toServer' \in Seq(Lines)
      /\ pending' \o toServer' = toServer
  BY <1>1, <1>2, CutInTwo
<1>4. pending \o toServer = toServer
  BY <1>2
<1>5. Wire' = Wire
  BY <1>3, <1>4 DEF Wire
<1>6. WireTypes' /\ SideTypes' /\ ServerKeeps' /\ ServerAbsent'
  BY <1>2, <1>3 DEF AuthInv, WireTypes, SideTypes, ServerKeeps, ServerAbsent, sauthVars, cauthVars
<1>7. BothAdbus' => Dialogue' /\ ~misread'
  <2> SUFFICES ASSUME BothAdbus' PROVE Dialogue' /\ ~misread'
    OBVIOUS
  <2>1. Dialogue /\ ~misread
    BY <1>2 DEF AuthInv, BothAdbus
  <2>2. UNCHANGED <<Wire, toClient, phase, okSent, cauth, tried, posted, parsed, misread>>
    BY <1>2, <1>5 DEF sauthVars, cauthVars
  <2> HIDE DEF Wire
  <2> QED BY <2>1, <2>2 DEF Dialogue, NotStarted, Greeted, Asked, Answered, GivenUp, Begun, BothConnected
<1> QED BY <1>6, <1>7 DEF AuthInv

(* The null byte of a client that is adbus is there. *)
LEMMA NullByteKeeps == AuthInv /\ NullByte => AuthInv'
<1> SUFFICES ASSUME AuthInv, NullByte PROVE AuthInv'
  OBVIOUS
<1>1. /\ pending # <<>> /\ phase = "null byte"
      /\ UNCHANGED <<clientIs, serverIs, toServer, toClient, external, okSent, parsed,
                     granted, misread, cauth, tried, posted>>
      /\ \/ pending[1] = "NUL" /\ phase' = "auth" /\ pending' = Tail(pending)
         \/ pending[1] # "NUL" /\ phase' = "gone" /\ pending' = <<>>
  BY DEF NullByte, DropClient, cauthVars
<1>2. pending' \in Seq(Lines)
  <2>1. pending \in Seq(Lines)
    BY DEF AuthInv, WireTypes
  <2>2. Tail(pending) \in Seq(Lines)
    BY <1>1, <2>1, TailFacts
  <2>3. <<>> \in Seq(Lines)
    OBVIOUS
  <2> QED BY <1>1, <2>2, <2>3
<1>3. WireTypes' /\ SideTypes' /\ ServerKeeps' /\ ServerAbsent'
  BY <1>1, <1>2 DEF AuthInv, WireTypes, SideTypes, ServerKeeps, ServerAbsent
<1>4. ASSUME BothAdbus' PROVE Dialogue' /\ ~misread'
  <2>1. Dialogue /\ ~misread
    BY <1>1, <1>4 DEF AuthInv, BothAdbus
  <2>2. Wire # <<>> /\ Wire[1] = pending[1]
    BY <1>1, TakeFromJoined DEF Wire, AuthInv, WireTypes
  <2>3. Greeted
    BY <1>1, <2>1, <2>2 DEF Dialogue, NotStarted, Greeted, Asked, Answered, GivenUp, Begun, BothConnected
  <2>4. pending[1] = "NUL" /\ phase' = "auth" /\ pending' = Tail(pending)
    BY <1>1, <2>2, <2>3 DEF Greeted
  <2>5. Wire' = Tail(Wire)
    BY <1>1, <2>4, TakenFromWire DEF AuthInv
  <2>6. Wire' = <<"AUTH EXTERNAL">>
    <3>1. Tail(<<"NUL", "AUTH EXTERNAL">>) = <<"AUTH EXTERNAL">>
      <4>1. "NUL" \in Lines /\ "AUTH EXTERNAL" \in Lines
        BY DEF Lines, ClientLines
      <4> QED BY <4>1, ShortWires
    <3> QED BY <2>3, <2>5, <3>1 DEF Greeted
  <2>7. Asked'
    BY <1>1, <2>3, <2>4, <2>6 DEF Greeted, Asked
  <2> QED BY <1>1, <2>1, <2>7 DEF Dialogue
<1> QED BY <1>3, <1>4 DEF AuthInv

(* In a dialogue, adbus_auth_line is given the question of the client or its BEGIN. *)
LEMMA LineOfDialogue ==
  ASSUME AuthInv, BothAdbus, phase = "auth", pending # <<>>
  PROVE  ~misread /\ Wire[1] = pending[1] /\ (Asked \/ Begun)
<1>1. Dialogue /\ ~misread
  BY DEF AuthInv
<1>2. Wire # <<>> /\ Wire[1] = pending[1]
  BY TakeFromJoined DEF Wire, AuthInv, WireTypes
<1> QED
  BY <1>1, <1>2 DEF Dialogue, NotStarted, Greeted, Asked, Answered, GivenUp, Begun, BothConnected

(* The question is answered: nothing is left on the wire. *)
LEMMA QuestionTaken ==
  ASSUME AuthInv, Asked, Wire' = Tail(Wire)
  PROVE  Wire' = <<>>
<1>1. "AUTH COOKIE" \in Lines /\ "AUTH EXTERNAL" \in Lines
  BY DEF Lines, ClientLines
<1>2. Tail(<<"AUTH COOKIE">>) = <<>> /\ Tail(<<"AUTH EXTERNAL">>) = <<>>
  BY <1>1, ShortWires
<1> QED BY <1>2 DEF Asked

(* What the server says is a line of the server. *)
LEMMA Said ==
  ASSUME WireTypes, NEW line \in ServerLines, SendLine(line)
  PROVE  toClient' \in Seq(ServerLines) /\ (toClient = <<>> => toClient' = <<line>>)
<1>1. toClient' = Append(toClient, line) /\ toClient \in Seq(ServerLines)
  BY DEF SendLine, WireTypes
<1>2. Append(<<>>, line) = <<line>>
  BY ShortWires
<1>3. Append(toClient, line) \in Seq(ServerLines)
  BY <1>1
<1> QED BY <1>1, <1>2, <1>3

(* A line that is answered with REJECTED, whatever it is. *)
LEMMA RejectedKeeps ==
  ASSUME AuthInv, pending # <<>>, phase = "auth", pending' = Tail(pending), pending[1] # "BEGIN",
         ServerReset, external' \in {external, "BEGIN"},
         UNCHANGED <<clientIs, serverIs, toServer, phase, parsed, misread, cauth, tried, posted>>
  PROVE  AuthInv'
<1>0. WireTypes /\ ServerAbsent /\ SideTypes /\ ServerKeeps
  BY DEF AuthInv
<1>1. /\ pending' \in Seq(Lines) /\ toServer' \in Seq(Lines)
      /\ Wire' = Tail(Wire) /\ serverIs = "adbus"
  BY <1>0, TakenFromWire
<1>2. granted' = FALSE /\ okSent' = FALSE /\ SendLine("REJECTED") /\ "REJECTED" \in ServerLines
  BY DEF ServerReset, ServerLines
<1>3. toClient' \in Seq(ServerLines) /\ (toClient = <<>> => toClient' = <<"REJECTED">>)
  BY <1>0, <1>2, Said
<1>4. WireTypes'
  BY <1>0, <1>1, <1>3 DEF WireTypes
<1>5. SideTypes' /\ ServerKeeps' /\ ServerAbsent'
  BY <1>0, <1>1, <1>2 DEF SideTypes, ServerKeeps, ServerAbsent
<1>6. ASSUME BothAdbus' PROVE Dialogue' /\ ~misread'
  <2>1. BothAdbus
    BY <1>6 DEF BothAdbus
  <2>2. ~misread /\ Wire[1] = pending[1] /\ (Asked \/ Begun)
    BY <2>1, LineOfDialogue
  <2>3. Asked
    BY <2>2 DEF Begun
  <2>4. Wire' = <<>>
    BY <1>1, <2>3, QuestionTaken
  <2>5. Answered'
    BY <1>2, <1>3, <2>3, <2>4 DEF Asked, Answered
  <2> QED BY <2>2, <2>5 DEF Dialogue
<1> QED BY <1>4, <1>5, <1>6 DEF AuthInv

(* EXTERNAL is accepted or refused. *)
LEMMA AuthExternalKeeps ==
  ASSUME AuthInv, NEW accepted \in BOOLEAN, AuthExternal(accepted) PROVE AuthInv'
<1>1. /\ pending # <<>> /\ phase = "auth" /\ pending' = Tail(pending)
      /\ pending[1] = "AUTH EXTERNAL" /\ external' = "BEGIN"
      /\ UNCHANGED <<clientIs, serverIs, toServer, phase, parsed, misread, cauth, tried, posted>>
      /\ IF accepted THEN ServerOk ELSE ServerReset
  BY Zenon DEF AuthExternal, TakeLine, cauthVars
<1>2. CASE ~accepted
  BY <1>1, <1>2, RejectedKeeps
<1>3. CASE accepted
  <2>0. WireTypes /\ ServerAbsent /\ SideTypes /\ ServerKeeps
    BY DEF AuthInv
  <2>1. /\ pending' \in Seq(Lines) /\ toServer' \in Seq(Lines)
        /\ Wire' = Tail(Wire) /\ serverIs = "adbus"
    BY <1>1, <2>0, TakenFromWire
  <2>2. granted' = TRUE /\ okSent' = TRUE /\ SendLine("OK") /\ "OK" \in ServerLines
    BY <1>1, <1>3 DEF ServerOk, ServerLines
  <2>3. toClient' \in Seq(ServerLines) /\ (toClient = <<>> => toClient' = <<"OK">>)
    BY <2>0, <2>2, Said
  <2>4. WireTypes'
    BY <1>1, <2>0, <2>1, <2>3 DEF WireTypes
  <2>5. SideTypes' /\ ServerKeeps' /\ ServerAbsent'
    BY <1>1, <2>0, <2>1, <2>2 DEF SideTypes, ServerKeeps, ServerAbsent
  <2>6. ASSUME BothAdbus' PROVE Dialogue' /\ ~misread'
    <3>1. BothAdbus
      BY <1>1, <2>6 DEF BothAdbus
    <3>2. ~misread /\ Wire[1] = pending[1] /\ (Asked \/ Begun)
      BY <1>1, <3>1, LineOfDialogue
    <3>3. Asked
      BY <1>1, <3>2 DEF Begun
    <3>4. Wire' = <<>>
      BY <2>1, <3>3, QuestionTaken
    <3>5. Answered'
      BY <1>1, <2>2, <2>3, <3>3, <3>4 DEF Asked, Answered
    <3> QED BY <1>1, <3>2, <3>5 DEF Dialogue
  <2> QED BY <2>4, <2>5, <2>6 DEF AuthInv
<1> QED BY <1>2, <1>3

(* EXTERNAL a second time, the cookie, and CANCEL are refused. *)
LEMMA AuthRefusedKeeps == AuthInv /\ (AuthRefused \/ Cancel) => AuthInv'
<1> SUFFICES ASSUME AuthInv, AuthRefused \/ Cancel PROVE AuthInv'
  OBVIOUS
<1>1. /\ pending # <<>> /\ phase = "auth" /\ pending' = Tail(pending)
      /\ pending[1] # "BEGIN" /\ ServerReset
      /\ UNCHANGED <<clientIs, serverIs, toServer, phase, external, parsed, misread,
                     cauth, tried, posted>>
  BY DEF AuthRefused, Cancel, TakeLine, cauthVars
<1> QED BY <1>1, RejectedKeeps

(* BEGIN that is accepted: what follows it is for the remote. *)
LEMMA BeginLineKeeps == AuthInv /\ BeginLine => AuthInv'
<1> SUFFICES ASSUME AuthInv, BeginLine PROVE AuthInv'
  OBVIOUS
<1>1. /\ pending # <<>> /\ phase = "auth" /\ pending' = Tail(pending)
      /\ pending[1] = "BEGIN" /\ okSent /\ phase' = "remote"
      /\ UNCHANGED <<clientIs, serverIs, toServer, toClient, external, okSent, parsed,
                     granted, misread, cauth, tried, posted>>
  BY DEF BeginLine, TakeLine, cauthVars
<1>2. WireTypes /\ ServerAbsent /\ SideTypes /\ ServerKeeps
  BY DEF AuthInv
<1>3. /\ pending' \in Seq(Lines) /\ toServer' \in Seq(Lines)
      /\ Wire' = Tail(Wire) /\ Wire \in Seq(Lines) /\ Wire # <<>> /\ serverIs = "adbus"
  BY <1>1, <1>2, TakenFromWire
<1>4. WireTypes' /\ SideTypes' /\ ServerKeeps' /\ ServerAbsent'
  BY <1>1, <1>2, <1>3 DEF WireTypes, SideTypes, ServerKeeps, ServerAbsent
<1>5. ASSUME BothAdbus' PROVE Dialogue' /\ ~misread'
  <2>1. BothAdbus
    BY <1>1, <1>5 DEF BothAdbus
  <2>2. ~misread /\ Wire[1] = pending[1] /\ (Asked \/ Begun)
    BY <1>1, <2>1, LineOfDialogue
  <2>3. Begun
    BY <1>1, <2>2 DEF Asked
  <2>4. Len(Wire') = Len(Wire) - 1 /\ \A i \in 1..Len(Wire') : Wire'[i] = Wire[i + 1]
    <3> HIDE DEF Wire
    <3> QED BY <1>3
  <2>5. \A i \in 1..Len(Wire') : Wire'[i] = "MESSAGE"
    <3> TAKE i \in 1..Len(Wire')
    <3>1. i + 1 \in 2..Len(Wire) /\ Wire'[i] = Wire[i + 1]
      <4> HIDE DEF Wire
      <4> QED BY <1>3, <2>4
    <3> QED BY <2>3, <3>1 DEF Begun
  <2>6. Len(Wire') + parsed' = posted'
    <3> HIDE DEF Wire
    <3> QED BY <1>1, <1>2, <2>3, <2>4 DEF Begun, SideTypes
  <2>7. BothConnected'
    BY <1>1, <2>3, <2>5, <2>6 DEF Begun, BothConnected
  <2> QED BY <1>1, <2>2, <2>7 DEF Dialogue
<1> QED BY <1>4, <1>5 DEF AuthInv

(* adbus never sends ERROR to a server that is adbus. *)
LEMMA ErrorLineKeeps == AuthInv /\ ErrorLine => AuthInv'
<1> SUFFICES ASSUME AuthInv, ErrorLine PROVE AuthInv'
  OBVIOUS
<1>1. /\ pending # <<>> /\ phase = "auth" /\ pending[1] = "ERROR"
      /\ phase' = "gone" /\ pending' = <<>>
      /\ UNCHANGED <<clientIs, serverIs, toServer, toClient, external, okSent, parsed,
                     granted, misread, cauth, tried, posted>>
  BY DEF ErrorLine, DropClient, cauthVars
<1>2. <<>> \in Seq(Lines)
  OBVIOUS
<1>3. WireTypes' /\ SideTypes' /\ ServerKeeps' /\ ServerAbsent'
  BY <1>1, <1>2 DEF AuthInv, WireTypes, SideTypes, ServerKeeps, ServerAbsent
<1>4. ~BothAdbus
  <2> SUFFICES ASSUME BothAdbus PROVE FALSE
    OBVIOUS
  <2>1. Wire[1] = "ERROR" /\ (Asked \/ Begun)
    BY <1>1, LineOfDialogue
  <2>2. <<"AUTH COOKIE">>[1] = "AUTH COOKIE" /\ <<"AUTH EXTERNAL">>[1] = "AUTH EXTERNAL"
    OBVIOUS
  <2> QED BY <2>1, <2>2 DEF Asked, Begun
<1> QED BY <1>1, <1>3, <1>4 DEF AuthInv, BothAdbus

(* adbus sends no line that the server does not know, no BEGIN too early, and no
   message that adbus_auth_line is given. *)
LEMMA UnknownLineKeeps == AuthInv /\ UnknownLine => AuthInv'
<1> SUFFICES ASSUME AuthInv, UnknownLine PROVE AuthInv'
  OBVIOUS
<1>1. /\ pending # <<>> /\ phase = "auth" /\ pending' = Tail(pending)
      /\ pending[1] \in {"AUTH NODATA", "OTHER", "NUL", "MESSAGE"} \/ (pending[1] = "BEGIN" /\ ~okSent)
      /\ SendLine("ERROR") /\ misread' = (misread \/ pending[1] = "MESSAGE")
      /\ UNCHANGED <<clientIs, serverIs, toServer, phase, external, okSent, parsed,
                     granted, cauth, tried, posted>>
  BY DEF UnknownLine, TakeLine, cauthVars
<1>2. WireTypes /\ ServerAbsent /\ SideTypes /\ ServerKeeps
  BY DEF AuthInv
<1>3. /\ pending' \in Seq(Lines) /\ toServer' \in Seq(Lines) /\ serverIs = "adbus"
  BY <1>1, <1>2, TakenFromWire
<1>4. toClient' \in Seq(ServerLines)
  <2>1. "ERROR" \in ServerLines
    BY DEF ServerLines
  <2> QED BY <1>1, <1>2, <2>1, Said
<1>5. WireTypes' /\ SideTypes' /\ ServerKeeps' /\ ServerAbsent'
  BY <1>1, <1>2, <1>3, <1>4 DEF WireTypes, SideTypes, ServerKeeps, ServerAbsent
<1>6. ~BothAdbus
  <2> SUFFICES ASSUME BothAdbus PROVE FALSE
    OBVIOUS
  <2>1. Wire[1] = pending[1] /\ (Asked \/ Begun)
    BY <1>1, LineOfDialogue
  <2>2. <<"AUTH COOKIE">>[1] = "AUTH COOKIE" /\ <<"AUTH EXTERNAL">>[1] = "AUTH EXTERNAL"
    OBVIOUS
  <2> QED BY <1>1, <2>1, <2>2 DEF Asked, Begun
<1> QED BY <1>1, <1>5, <1>6 DEF AuthInv, BothAdbus

(* adbus_remote_parse takes all that has arrived: messages, if the client is adbus. *)
LEMMA RemoteBytesKeeps == AuthInv /\ RemoteBytes => AuthInv'
<1> SUFFICES ASSUME AuthInv, RemoteBytes PROVE AuthInv'
  OBVIOUS
<1>1. /\ pending # <<>> /\ phase = "remote" /\ pending' = <<>>
      /\ UNCHANGED <<clientIs, serverIs, toServer, toClient, external, okSent,
                     granted, misread, cauth, tried, posted>>
      /\ \/ parsed' = parsed + Len(pending) /\ phase' = phase
         \/ ToSet(pending) # {"MESSAGE"} /\ phase' = "gone" /\ parsed' = parsed
  BY DEF RemoteBytes, DropClient, cauthVars
<1>2. WireTypes /\ ServerAbsent /\ SideTypes /\ ServerKeeps
  BY DEF AuthInv
<1>3. /\ pending \in Seq(Lines) /\ toServer \in Seq(Lines) /\ serverIs = "adbus"
      /\ Len(pending) \in Nat \ {0} /\ Len(toServer) \in Nat
  BY <1>1, <1>2 DEF WireTypes, ServerAbsent
<1>4. WireTypes'
  <2>1. <<>> \in Seq(Lines)
    OBVIOUS
  <2> QED BY <1>1, <1>2, <2>1 DEF WireTypes
<1>5. parsed' \in Nat
  BY <1>1, <1>2, <1>3 DEF SideTypes
<1>6. SideTypes' /\ ServerKeeps' /\ ServerAbsent'
  BY <1>1, <1>2, <1>3, <1>5 DEF SideTypes, ServerKeeps, ServerAbsent
<1>7. ASSUME BothAdbus' PROVE Dialogue' /\ ~misread'
  <2>1. Dialogue /\ ~misread
    BY <1>1, <1>7 DEF BothAdbus, AuthInv
  <2>2. BothConnected
    BY <1>1, <2>1 DEF Dialogue, NotStarted, Greeted, Asked, Answered, GivenUp, Begun, BothConnected
  <2>3. /\ Len(Wire) = Len(pending) + Len(toServer)
        /\ \A i \in 1..Len(pending) : Wire[i] = pending[i] /\ i \in 1..Len(Wire)
        /\ \A i \in 1..Len(toServer) : Wire[i + Len(pending)] = toServer[i] /\ i + Len(pending) \in 1..Len(Wire)
    BY <1>3 DEF Wire
  <2>4. Wire' = toServer
    BY <1>1, <1>3 DEF Wire
  <2>5. \A i \in 1..Len(pending) : pending[i] = "MESSAGE"
    BY <2>2, <2>3 DEF BothConnected
  <2>6. ToSet(pending) = {"MESSAGE"}
    <3>1. 1 \in DOMAIN pending /\ DOMAIN pending = 1..Len(pending)
      BY <1>3
    <3> QED BY <2>5, <3>1 DEF ToSet
  <2>7. parsed' = parsed + Len(pending) /\ phase' = "remote"
    BY <1>1, <2>6
  <2>8. Len(Wire') + parsed' = posted'
    <3>1. Len(Wire) + parsed = posted /\ parsed \in Nat
      BY <1>2, <2>2 DEF BothConnected, SideTypes
    <3> QED BY <1>1, <1>3, <2>3, <2>4, <2>7, <3>1
  <2>9. \A i \in 1..Len(Wire') : Wire'[i] = "MESSAGE"
    <3> SUFFICES \A i \in 1..Len(toServer) : toServer[i] = "MESSAGE"
      BY <2>4
    <3> QED BY <2>2, <2>3 DEF BothConnected
  <2>10. BothConnected'
    BY <1>1, <2>2, <2>7, <2>8, <2>9 DEF BothConnected
  <2> QED BY <1>1, <2>1, <2>10 DEF Dialogue
<1> QED BY <1>4, <1>6, <1>7 DEF AuthInv

-----------------------------------------------------------------------------
(* The client *)

LEMMA StartAuthKeeps == AuthInv /\ StartAuth => AuthInv'
<1> SUFFICES ASSUME AuthInv, StartAuth PROVE AuthInv'
  OBVIOUS
<1>1. /\ cauth = "idle" /\ cauth' = "auth" /\ tried' = {"EXTERNAL"}
      /\ toServer' = toServer \o <<"NUL", "AUTH EXTERNAL">>
      /\ UNCHANGED <<clientIs, serverIs, toClient, pending, phase, external, okSent, parsed,
                     granted, misread, posted>>
  BY DEF StartAuth, sauthVars
<1>2. WireTypes /\ ServerAbsent /\ SideTypes /\ ServerKeeps
  BY DEF AuthInv
<1>3. <<"NUL", "AUTH EXTERNAL">> \in Seq(Lines)
  <2>1. "NUL" \in Lines /\ "AUTH EXTERNAL" \in Lines
    BY DEF Lines, ClientLines
  <2> QED BY <2>1, ShortWires
<1>4. toServer' \in Seq(Lines)
  <2>1. toServer \in Seq(Lines)
    BY <1>2 DEF WireTypes
  <2>2. \A t \in Seq(Lines) : toServer \o t \in Seq(Lines)
    BY <2>1
  <2> QED BY <1>1, <1>3, <2>2
<1>5. WireTypes' /\ SideTypes' /\ ServerKeeps' /\ ServerAbsent'
  BY <1>1, <1>2, <1>4 DEF WireTypes, SideTypes, ServerKeeps, ServerAbsent
<1>6. ASSUME BothAdbus' PROVE Dialogue' /\ ~misread'
  <2>1. Dialogue /\ ~misread
    BY <1>1, <1>6 DEF BothAdbus, AuthInv
  <2>2. NotStarted
    BY <1>1, <2>1 DEF Dialogue, NotStarted, Greeted, Asked, Answered, GivenUp, Begun, BothConnected
  <2>3. pending = <<>> /\ toServer = <<>>
    <3>1. pending \in Seq(Lines) /\ toServer \in Seq(Lines) /\ pending \o toServer = <<>>
      BY <1>2, <2>2 DEF WireTypes, NotStarted, Wire
    <3> QED BY <3>1
  <2>4. Wire' = <<"NUL", "AUTH EXTERNAL">>
    <3>1. "NUL" \in Lines /\ "AUTH EXTERNAL" \in Lines
      BY DEF Lines, ClientLines
    <3>2. <<>> \o <<"NUL", "AUTH EXTERNAL">> = <<"NUL", "AUTH EXTERNAL">>
      BY <3>1, ShortWires
    <3> QED BY <1>1, <2>3, <3>2 DEF Wire
  <2>5. Greeted'
    BY <1>1, <2>2, <2>4 DEF NotStarted, Greeted
  <2> QED BY <1>1, <2>1, <2>5 DEF Dialogue
<1> QED BY <1>5, <1>6 DEF AuthInv

(* In a dialogue, the client is given the one answer to its question. *)
LEMMA AnswerTaken ==
  ASSUME AuthInv, NEW answers, TakeAnswer(answers)
  PROVE  /\ toClient' \in Seq(ServerLines) /\ toClient[1] \in answers
         /\ cauth = "auth" /\ clientIs = "adbus"
         /\ UNCHANGED <<clientIs, serverIs, pending, phase, external, okSent, parsed, granted,
                        misread, posted>>
         /\ WireTypes /\ SideTypes /\ ServerKeeps /\ ServerAbsent
         /\ BothAdbus => /\ Answered /\ ~misread /\ toClient' = <<>>
                         /\ toClient[1] = IF okSent THEN "OK" ELSE "REJECTED"
<1>1. /\ toClient # <<>> /\ toClient[1] \in answers /\ toClient' = Tail(toClient)
      /\ cauth = "auth" /\ clientIs = "adbus"
      /\ UNCHANGED <<clientIs, serverIs, pending, phase, external, okSent, parsed, granted,
                     misread, posted>>
  BY Zenon DEF TakeAnswer, sauthVars
<1>2. WireTypes /\ SideTypes /\ ServerKeeps /\ ServerAbsent
  BY DEF AuthInv
<1>3. toClient' \in Seq(ServerLines)
  <2>1. toClient \in Seq(ServerLines)
    BY <1>2 DEF WireTypes
  <2> QED BY <1>1, <2>1, TailFacts
<1>4. ASSUME BothAdbus
      PROVE  /\ Answered /\ ~misread /\ toClient' = <<>>
             /\ toClient[1] = IF okSent THEN "OK" ELSE "REJECTED"
  <2>1. Dialogue /\ ~misread
    BY <1>4 DEF AuthInv
  <2>2. Answered
    BY <1>1, <2>1 DEF Dialogue, NotStarted, Greeted, Asked, Answered, GivenUp, Begun, BothConnected
  <2>3. "OK" \in ServerLines /\ "REJECTED" \in ServerLines
    BY DEF ServerLines
  <2>4. /\ Tail(<<"OK">>) = <<>> /\ Tail(<<"REJECTED">>) = <<>>
        /\ <<"OK">>[1] = "OK" /\ <<"REJECTED">>[1] = "REJECTED"
    BY <2>3, ShortWires
  <2> QED BY <1>1, <2>1, <2>2, <2>4 DEF Answered
<1> QED BY <1>1, <1>2, <1>3, <1>4

LEMMA ClientOkKeeps == AuthInv /\ ClientOk => AuthInv'
<1> SUFFICES ASSUME AuthInv, ClientOk PROVE AuthInv'
  OBVIOUS
<1>1. /\ TakeAnswer({"OK"}) /\ cauth' = "done" /\ toServer' = Append(toServer, "BEGIN")
      /\ UNCHANGED tried
  BY DEF ClientOk
<1>2. /\ toClient' \in Seq(ServerLines) /\ toClient[1] \in {"OK"}
      /\ cauth = "auth" /\ clientIs = "adbus"
      /\ UNCHANGED <<clientIs, serverIs, pending, phase, external, okSent, parsed, granted,
                     misread, posted>>
      /\ WireTypes /\ SideTypes /\ ServerKeeps /\ ServerAbsent
      /\ BothAdbus => /\ Answered /\ ~misread /\ toClient' = <<>>
                      /\ toClient[1] = IF okSent THEN "OK" ELSE "REJECTED"
  BY <1>1, AnswerTaken
<1>3. "BEGIN" \in Lines
  BY DEF Lines, ClientLines
<1>4. /\ pending' \in Seq(Lines) /\ toServer' \in Seq(Lines) /\ Wire' = Append(Wire, "BEGIN")
  BY <1>1, <1>2, <1>3, PutOnWire
<1>5. WireTypes' /\ SideTypes' /\ ServerKeeps' /\ ServerAbsent'
  BY <1>1, <1>2, <1>4 DEF WireTypes, SideTypes, ServerKeeps, ServerAbsent
<1>6. ASSUME BothAdbus' PROVE Dialogue' /\ ~misread'
  <2>1. /\ Answered /\ ~misread /\ toClient' = <<>> /\ okSent
    BY <1>2, <1>6 DEF BothAdbus
  <2>2. Wire' = <<"BEGIN">>
    BY <1>3, <1>4, <2>1, ShortWires DEF Answered
  <2>3. Len(Wire') = 1 /\ Wire'[1] = "BEGIN"
    BY <2>2
  <2>4. Begun'
    BY <1>1, <1>2, <2>1, <2>3 DEF Answered, Begun
  <2> QED BY <1>2, <2>1, <2>4 DEF Dialogue
<1> QED BY <1>5, <1>6 DEF AuthInv

LEMMA ClientResetKeeps == AuthInv /\ ClientReset => AuthInv'
<1> SUFFICES ASSUME AuthInv, ClientReset PROVE AuthInv'
  OBVIOUS
<1>1. /\ TakeAnswer({"REJECTED"})
      /\ IF "COOKIE" \notin tried
         THEN /\ tried' = tried \cup {"COOKIE"}
              /\ toServer' = Append(toServer, "AUTH COOKIE")
              /\ cauth' = cauth
         ELSE cauth' = "failed" /\ tried' = tried /\ toServer' = toServer
  BY DEF ClientReset
<1>2. /\ toClient' \in Seq(ServerLines) /\ toClient[1] \in {"REJECTED"}
      /\ cauth = "auth" /\ clientIs = "adbus"
      /\ UNCHANGED <<clientIs, serverIs, pending, phase, external, okSent, parsed, granted,
                     misread, posted>>
      /\ WireTypes /\ SideTypes /\ ServerKeeps /\ ServerAbsent
      /\ BothAdbus => /\ Answered /\ ~misread /\ toClient' = <<>>
                      /\ toClient[1] = IF okSent THEN "OK" ELSE "REJECTED"
  BY <1>1, AnswerTaken
<1>3. "AUTH COOKIE" \in Lines
  BY DEF Lines, ClientLines
<1>4. CASE "COOKIE" \notin tried
  <2>1. /\ tried' = tried \cup {"COOKIE"} /\ toServer' = Append(toServer, "AUTH COOKIE")
        /\ cauth' = "auth"
    BY <1>1, <1>2, <1>4
  <2>2. /\ pending' \in Seq(Lines) /\ toServer' \in Seq(Lines)
        /\ Wire' = Append(Wire, "AUTH COOKIE")
    BY <1>2, <1>3, <2>1, PutOnWire
  <2>3. WireTypes' /\ SideTypes' /\ ServerKeeps' /\ ServerAbsent'
    BY <1>2, <2>1, <2>2 DEF WireTypes, SideTypes, ServerKeeps, ServerAbsent
  <2>4. ASSUME BothAdbus' PROVE Dialogue' /\ ~misread'
    <3>1. /\ Answered /\ ~misread /\ toClient' = <<>> /\ ~okSent
      BY <1>2, <2>4 DEF BothAdbus
    <3>2. Wire' = <<"AUTH COOKIE">>
      BY <1>3, <2>2, <3>1, ShortWires DEF Answered
    <3>3. Asked'
      BY <1>2, <2>1, <3>1, <3>2 DEF Answered, Asked
    <3> QED BY <1>2, <3>1, <3>3 DEF Dialogue
  <2> QED BY <2>3, <2>4 DEF AuthInv
<1>5. CASE "COOKIE" \in tried
  <2>1. cauth' = "failed" /\ tried' = tried /\ toServer' = toServer
    BY <1>1, <1>5
  <2>2. WireTypes' /\ SideTypes' /\ ServerKeeps' /\ ServerAbsent'
    BY <1>2, <2>1 DEF WireTypes, SideTypes, ServerKeeps, ServerAbsent
  <2>3. ASSUME BothAdbus' PROVE Dialogue' /\ ~misread'
    <3>1. /\ Answered /\ ~misread /\ toClient' = <<>> /\ ~okSent
      BY <1>2, <2>3 DEF BothAdbus
    <3>2. Wire' = Wire
      BY <1>2, <2>1 DEF Wire
    <3>3. GivenUp'
      BY <1>2, <2>1, <3>1, <3>2 DEF Answered, GivenUp
    <3> QED BY <1>2, <3>1, <3>3 DEF Dialogue
  <2> QED BY <2>2, <2>3 DEF AuthInv
<1> QED BY <1>4, <1>5

(* A server that is adbus sends neither DATA, ERROR nor a line that is not known. *)
LEMMA OtherAnswersKeep ==
  ASSUME AuthInv,
         ClientError \/ ClientUnknown \/ \E found \in BOOLEAN : ClientCookie(found)
  PROVE  AuthInv'
<1> DEFINE A == {"DATA", "ERROR", "OTHER"}
<1>1. PICK answers \in SUBSET A : TakeAnswer(answers)
  BY Zenon DEF ClientError, ClientUnknown, ClientCookie
<1>2. /\ tried' = tried
      /\ \/ toServer' = toServer
         \/ toServer' = Append(toServer, "OTHER")
         \/ toServer' = Append(toServer, "ERROR")
      /\ cauth' \in {cauth, "failed"}
  BY DEF ClientError, ClientUnknown, ClientCookie
<1>3. /\ toClient' \in Seq(ServerLines) /\ toClient[1] \in answers
      /\ cauth = "auth" /\ clientIs = "adbus"
      /\ UNCHANGED <<clientIs, serverIs, pending, phase, external, okSent, parsed, granted,
                     misread, posted>>
      /\ WireTypes /\ SideTypes /\ ServerKeeps /\ ServerAbsent
      /\ BothAdbus => /\ Answered /\ ~misread /\ toClient' = <<>>
                      /\ toClient[1] = IF okSent THEN "OK" ELSE "REJECTED"
  BY <1>1, AnswerTaken
<1>4. toServer' \in Seq(Lines)
  <2>1. "OTHER" \in Lines /\ "ERROR" \in Lines /\ toServer \in Seq(Lines)
    BY <1>3 DEF Lines, ClientLines, WireTypes
  <2>2. Append(toServer, "OTHER") \in Seq(Lines) /\ Append(toServer, "ERROR") \in Seq(Lines)
    BY <2>1
  <2> QED BY <1>2, <2>1, <2>2
<1>5. WireTypes' /\ SideTypes' /\ ServerKeeps' /\ ServerAbsent'
  BY <1>2, <1>3, <1>4 DEF WireTypes, SideTypes, ServerKeeps, ServerAbsent
<1>6. ~BothAdbus'
  BY <1>1, <1>3 DEF BothAdbus
<1> QED BY <1>5, <1>6 DEF AuthInv

LEMMA PostMessageKeeps == AuthInv /\ PostMessage => AuthInv'
<1> SUFFICES ASSUME AuthInv, PostMessage PROVE AuthInv'
  OBVIOUS
<1>1. /\ cauth = "done" /\ posted' = posted + 1 /\ toServer' = Append(toServer, "MESSAGE")
      /\ UNCHANGED <<clientIs, serverIs, toClient, pending, phase, external, okSent, parsed,
                     granted, misread, cauth, tried>>
  BY DEF PostMessage, sauthVars
<1>2. WireTypes /\ ServerAbsent /\ SideTypes /\ ServerKeeps
  BY DEF AuthInv
<1>3. "MESSAGE" \in Lines
  BY DEF Lines
<1>4. /\ pending' \in Seq(Lines) /\ toServer' \in Seq(Lines)
      /\ Wire' = Append(Wire, "MESSAGE") /\ Wire \in Seq(Lines)
  BY <1>1, <1>2, <1>3, PutOnWire
<1>5. WireTypes' /\ SideTypes' /\ ServerKeeps' /\ ServerAbsent'
  <2>1. WireTypes'
    BY <1>1, <1>2, <1>4 DEF WireTypes
  <2>2. posted' \in Nat
    <3>1. posted \in Nat /\ posted' = posted + 1
      BY <1>1, <1>2, Zenon DEF SideTypes
    <3> QED BY <3>1
  <2> QED BY <1>1, <1>2, <2>1, <2>2 DEF SideTypes, ServerKeeps, ServerAbsent
<1>6. ASSUME BothAdbus' PROVE Dialogue' /\ ~misread'
  <2>1. Dialogue /\ ~misread
    BY <1>1, <1>6 DEF BothAdbus, AuthInv
  <2>2. Begun \/ BothConnected
    BY <1>1, <2>1 DEF Dialogue, NotStarted, Greeted, Asked, Answered, GivenUp, Begun, BothConnected
  <2>3. /\ Len(Wire) \in Nat /\ Len(Wire') = Len(Wire) + 1
        /\ Wire'[Len(Wire')] = "MESSAGE" /\ \A i \in 1..Len(Wire) : Wire'[i] = Wire[i]
    <3> HIDE DEF Wire
    <3> QED BY <1>4
  <2>4. CASE Begun
    <3>1. Wire'[1] = "BEGIN" /\ \A i \in 2..Len(Wire') : Wire'[i] = "MESSAGE"
      <4> HIDE DEF Wire
      <4> QED BY <1>2, <2>3, <2>4 DEF Begun, SideTypes
    <3>2. Len(Wire') = posted' + 1
      <4> HIDE DEF Wire
      <4> QED BY <1>1, <1>2, <2>3, <2>4 DEF Begun, SideTypes
    <3>3. Begun'
      BY <1>1, <2>4, <3>1, <3>2 DEF Begun
    <3> QED BY <1>1, <2>1, <3>3 DEF Dialogue
  <2>5. CASE BothConnected
    <3>1. \A i \in 1..Len(Wire') : Wire'[i] = "MESSAGE"
      <4> HIDE DEF Wire
      <4> QED BY <2>3, <2>5 DEF BothConnected
    <3>2. Len(Wire') + parsed' = posted'
      <4> HIDE DEF Wire
      <4> QED BY <1>1, <1>2, <2>3, <2>5 DEF BothConnected, SideTypes
    <3>3. BothConnected'
      BY <1>1, <2>5, <3>1, <3>2 DEF BothConnected
    <3> QED BY <1>1, <2>1, <3>3 DEF Dialogue
  <2> QED BY <2>2, <2>4, <2>5
<1> QED BY <1>5, <1>6 DEF AuthInv

(* Other programs *)
LEMMA OthersKeep == AuthInv /\ (OtherClient \/ OtherServer) => AuthInv'
<1> SUFFICES ASSUME AuthInv, OtherClient \/ OtherServer PROVE AuthInv'
  OBVIOUS
<1>1. /\ UNCHANGED <<clientIs, serverIs, pending, phase, external, okSent, parsed,
                     granted, misread, cauth, tried, posted>>
      /\ ~BothAdbus
      /\ toServer' = toServer \/ \E line \in Lines : toServer' = Append(toServer, line)
      /\ toClient' = toClient \/ \E line \in ServerLines : toClient' = Append(toClient, line)
  BY DEF OtherClient, OtherServer, SendLine, BothAdbus, sauthVars, cauthVars, Lines
<1>2. WireTypes /\ ServerAbsent /\ SideTypes /\ ServerKeeps
  BY DEF AuthInv
<1>3. toServer' \in Seq(Lines) /\ toClient' \in Seq(ServerLines)
  <2>1. toServer \in Seq(Lines) /\ toClient \in Seq(ServerLines)
    BY <1>2 DEF WireTypes
  <2>2. /\ \A line \in Lines : Append(toServer, line) \in Seq(Lines)
        /\ \A line \in ServerLines : Append(toClient, line) \in Seq(ServerLines)
    BY <2>1
  <2> QED BY <1>1, <2>1, <2>2
<1>4. WireTypes' /\ SideTypes' /\ ServerKeeps' /\ ServerAbsent'
  BY <1>1, <1>2, <1>3 DEF WireTypes, SideTypes, ServerKeeps, ServerAbsent
<1> QED BY <1>1, <1>4 DEF AuthInv, BothAdbus

-----------------------------------------------------------------------------
(* The invariant *)

LEMMA AuthStarts == AuthInit => AuthInv
<1> SUFFICES ASSUME AuthInit PROVE AuthInv
  OBVIOUS
<1>1. <<>> \in Seq(Lines) /\ <<>> \in Seq(ServerLines)
  OBVIOUS
<1>2. Wire = <<>>
  <2>1. <<>> \o <<>> = <<>>
    BY ShortWires
  <2> QED BY <2>1 DEF AuthInit, Wire
<1>3. external \in {"NOT_TRIED", "NOT_SUPPORTED"}
  BY DEF AuthInit
<1>4. WireTypes /\ SideTypes /\ ServerKeeps /\ ServerAbsent
  BY <1>1, <1>3 DEF AuthInit, WireTypes, SideTypes, ServerKeeps, ServerAbsent
<1>5. NotStarted /\ ~misread
  BY <1>2 DEF AuthInit, NotStarted
<1> QED BY <1>4, <1>5 DEF AuthInv, Dialogue

LEMMA AuthSteps == AuthInv /\ [AuthNext]_authVars => AuthInv'
<1> SUFFICES ASSUME AuthInv, [AuthNext]_authVars PROVE AuthInv'
  OBVIOUS
<1>1. CASE AuthReceive
  BY <1>1, AuthReceiveKeeps
<1>2. CASE ServerStep
  <2>1. \A accepted \in BOOLEAN : AuthExternal(accepted) => AuthInv'
    BY AuthExternalKeeps
  <2>2. Verdicts \subseteq BOOLEAN
    BY AnswersAssumption
  <2> QED
    BY <1>2, <2>1, <2>2, NullByteKeeps, AuthRefusedKeeps, BeginLineKeeps, ErrorLineKeeps,
       UnknownLineKeeps, RemoteBytesKeeps DEF ServerStep
<1>3. CASE ClientStep
  BY <1>3, StartAuthKeeps, ClientOkKeeps, ClientResetKeeps, OtherAnswersKeep DEF ClientStep
<1>4. CASE PostMessage
  BY <1>4, PostMessageKeeps
<1>5. CASE OtherClient \/ OtherServer
  BY <1>5, OthersKeep
<1>6. CASE UNCHANGED authVars
  <2>1. UNCHANGED <<clientIs, serverIs, toServer, toClient, pending, phase, external, okSent,
                    parsed, granted, misread, cauth, tried, posted>>
    BY <1>6 DEF authVars, sauthVars, cauthVars
  <2>2. Wire' = Wire
    BY <2>1 DEF Wire
  <2>3. Dialogue => Dialogue'
    BY <2>1, <2>2 DEF Dialogue, NotStarted, Greeted, Asked, Answered, GivenUp, Begun, BothConnected
  <2> QED
    BY <2>1, <2>3 DEF AuthInv, WireTypes, SideTypes, ServerKeeps, ServerAbsent, BothAdbus
<1> QED BY <1>1, <1>2, <1>3, <1>4, <1>5, <1>6 DEF AuthNext

LEMMA AuthImplies == AuthInv => HandshakeSound
<1> SUFFICES ASSUME AuthInv PROVE HandshakeSound
  OBVIOUS
<1>1. ASSUME BothAdbus PROVE parsed <= posted /\ phase # "gone" /\ (cauth = "done" => granted)
  <2>1. Dialogue /\ granted = okSent /\ parsed \in Nat /\ posted \in Nat
    BY <1>1 DEF AuthInv, ServerKeeps, SideTypes
  <2>2. Len(Wire) \in Nat
    <3>1. Wire \in Seq(Lines)
      BY DEF AuthInv, WireTypes, Wire
    <3> QED BY <3>1
  <2>3. CASE BothConnected
    <3> HIDE DEF Wire
    <3> QED BY <2>1, <2>2, <2>3 DEF BothConnected
  <2>4. CASE ~BothConnected
    <3>1. parsed = 0 /\ phase # "gone" /\ (cauth = "done" => okSent)
      BY <2>1, <2>4 DEF Dialogue, NotStarted, Greeted, Asked, Answered, GivenUp, Begun
    <3> QED BY <2>1, <3>1
  <2> QED BY <2>3, <2>4
<1>2. AuthTypeOK
  <2>1. parsed <= posted \/ clientIs = "other"
    <3>1. CASE BothAdbus
      BY <1>1, <3>1
    <3>2. CASE ~BothAdbus
      <4>1. clientIs = "other" \/ parsed = 0
        BY <3>2 DEF BothAdbus, AuthInv, WireTypes, ServerAbsent
      <4>2. posted \in Nat
        BY DEF AuthInv, SideTypes
      <4> QED BY <4>1, <4>2
    <3> QED BY <3>1, <3>2
  <2> QED BY <2>1 DEF AuthInv, SideTypes, ServerKeeps, AuthTypeOK
<1>3. OnlyGranted
  BY DEF AuthInv, ServerKeeps, OnlyGranted
<1>4. Agreement
  BY <1>1 DEF AuthInv, Agreement, BothAdbus
<1> QED BY <1>2, <1>3, <1>4 DEF HandshakeSound

(* Whatever some other program sends, however the reads cut it, and however many
   messages follow: adbus_serv_connect is reached only by a client that the external
   callback has accepted and that was not refused afterwards; and when both sides are
   adbus, a client that is done has been accepted, adbus_auth_line is never given the
   bytes of a message, and the server never drops the client. *)
THEOREM HandshakeIsSound == AuthSpec => []HandshakeSound
<1>1. AuthSpec => []AuthInv
  BY AuthStarts, AuthSteps, PTL DEF AuthSpec
<1> QED BY <1>1, AuthImplies, PTL

-----------------------------------------------------------------------------
(***************************************************************************)
(* The parsers of the two streams (modules RemoteParse and ConnParse): the *)
(* messages are found however the stream is cut.                           *)
(*                                                                         *)
(* The invariants say where in the stream the parser is, in terms of the   *)
(* message that it works on, the first one that has not been dispatched.   *)
(* They rest on where messages start: FieldLength and Start are unfolded   *)
(* once, and no two messages of a stream start at the same place.          *)
(***************************************************************************)

-----------------------------------------------------------------------------
(* Sizes *)

LEMMA AlignFacts ==
  ASSUME NEW n \in Nat
  PROVE  /\ Align(n) \in Nat /\ n <= Align(n)
         /\ Align(ExtendedHeader + n) = ExtendedHeader + Align(n)
         /\ n % 2 = 0 => Align(Header + n) = Align(ExtendedHeader + n)
BY DEF Align, ExtendedHeader, Header

LEMMA FieldLengthUnfolds ==
  ASSUME NEW fields \in Seq(HeaderField)
  PROVE  \E K \in [0..Len(fields) -> Nat] :
           /\ K[0] = 0
           /\ \A n \in 1..Len(fields) : K[n] = Align(K[n - 1]) + fields[n].size
           /\ FieldLength(fields) = K[Len(fields)]
<1> DEFINE N == Len(fields)
           F == [n \in 1..N |-> [x \in Nat |-> Align(x) + fields[n].size]]
           Step(g) == [n \in 0..N |-> IF n = 0 THEN 0 ELSE Align(g[n - 1]) + fields[n].size]
           K == CHOOSE g : g = Step(g)
<1>1. N \in Nat
  OBVIOUS
<1>2. \A n \in 1..N, x \in Nat : Align(x) + fields[n].size \in Nat
  <2> TAKE n \in 1..N, x \in Nat
  <2>1. fields[n] \in HeaderField
    OBVIOUS
  <2>2. fields[n].size \in Nat
    BY <2>1 DEF HeaderField
  <2>3. Align(x) \in Nat
    BY AlignFacts
  <2> QED BY <2>2, <2>3
<1>3. F \in [1..N -> [Nat -> Nat]]
  BY <1>2
<1>4. PICK L \in [0..N -> Nat] : L[0] = 0 /\ \A n \in 1..N : L[n] = F[n][L[n - 1]]
  <2> HIDE DEF F, N
  <2> DEFINE S == Nat
             first == 0
  <2>1. first \in S /\ F \in [1..N -> [S -> S]]
    BY <1>3
  <2> HIDE DEF S, first
  <2>2. \E L \in [0..N -> S] : L[0] = first /\ \A n \in 1..N : L[n] = F[n][L[n - 1]]
    BY <1>1, <2>1, RecursionExists, SMTT(30)
  <2> QED BY <2>2 DEF S, first
<1> HIDE DEF N
<1>5. \A n \in 1..N : n - 1 \in 0..N /\ L[n - 1] \in Nat
  BY <1>1
<1>6. \A n \in 1..N : L[n] = Align(L[n - 1]) + fields[n].size
  BY <1>4, <1>5
<1>7. L = Step(L)
  <2>1. \A n \in 0..N : L[n] = IF n = 0 THEN 0 ELSE Align(L[n - 1]) + fields[n].size
    <3> TAKE n \in 0..N
    <3>1. n # 0 => n \in 1..N
      BY <1>1
    <3> QED BY <1>4, <1>6, <3>1
  <2> QED BY <2>1
<1>8. K = Step(K)
  <2> HIDE DEF Step
  <2> QED BY <1>7
<1>9. FieldLength(fields) = K[N]
  BY Zenon DEF FieldLength, N
<1> HIDE DEF K
<1>10. /\ K[0] = 0
       /\ \A n \in 1..N : K[n] = Align(K[n - 1]) + fields[n].size
  <2>1. \A n \in 0..N : K[n] = IF n = 0 THEN 0 ELSE Align(K[n - 1]) + fields[n].size
    BY <1>8, Zenon
  <2>2. 0 \in 0..N /\ \A n \in 1..N : n \in 0..N /\ n # 0
    BY <1>1
  <2> QED BY <2>1, <2>2, Zenon
<1>11. K \in [0..N -> Nat]
  <2> DEFINE Good == {n \in Nat : n \in 0..N => K[n] \in Nat}
  <2>1. 0 \in Good
    BY <1>10
  <2>2. \A n \in 1..N : n - 1 \in Good => n \in Good
    <3> TAKE n \in 1..N
    <3>1. n \in Nat /\ n - 1 \in 0..N
      BY <1>1
    <3> QED BY <1>2, <1>10, <3>1
  <2>3. Good \in SUBSET Nat
    OBVIOUS
  <2> HIDE DEF Good
  <2>4. \A n \in 0..N : n \in Good
    BY <1>1, <2>1, <2>2, <2>3, UpTo
  <2>5. \A n \in 0..N : K[n] \in Nat
    BY <1>1, <2>4 DEF Good
  <2> QED BY <1>8, <2>5
<1> QED BY <1>9, <1>10, <1>11 DEF N

(* The sender goes behind the other fields, aligned. *)
LEMMA FieldAppended ==
  ASSUME NEW fields \in Seq(HeaderField), NEW f \in HeaderField
  PROVE  /\ FieldLength(fields) \in Nat
         /\ FieldLength(Append(fields, f)) = Align(FieldLength(fields)) + f.size
<1> DEFINE N == Len(fields)
           more == Append(fields, f)
<1>1. /\ N \in Nat /\ more \in Seq(HeaderField) /\ Len(more) = N + 1 /\ more[N + 1] = f
      /\ \A n \in 1..N : more[n] = fields[n]
  OBVIOUS
<1>2. PICK K \in [0..N -> Nat] :
        /\ K[0] = 0 /\ \A n \in 1..N : K[n] = Align(K[n - 1]) + fields[n].size
        /\ FieldLength(fields) = K[N]
  BY FieldLengthUnfolds
<1> HIDE DEF more, N
<1>3. PICK L \in [0..(N + 1) -> Nat] :
        /\ L[0] = 0 /\ \A n \in 1..(N + 1) : L[n] = Align(L[n - 1]) + more[n].size
        /\ FieldLength(more) = L[N + 1]
  BY <1>1, FieldLengthUnfolds
<1>4. K[N] = L[N]
  <2> DEFINE Good == {n \in Nat : K[n] = L[n]}
  <2>1. 0 \in Good /\ Good \in SUBSET Nat
    BY <1>2, <1>3
  <2>2. \A n \in 1..N : n - 1 \in Good => n \in Good
    <3> TAKE n \in 1..N
    <3>1. n \in Nat /\ n \in 1..(N + 1)
      BY <1>1
    <3>2. K[n] = Align(K[n - 1]) + fields[n].size /\ L[n] = Align(L[n - 1]) + fields[n].size
      BY <1>1, <1>2, <1>3, <3>1
    <3> QED BY <3>1, <3>2
  <2> HIDE DEF Good
  <2>3. N \in Good
    <3>1. \A n \in 0..N : n \in Good
      BY <1>1, <2>1, <2>2, UpTo
    <3> QED BY <1>1, <3>1
  <2> QED BY <2>3 DEF Good
<1>5. L[N + 1] = Align(L[N]) + f.size
  <2>1. N + 1 \in 1..(N + 1) /\ (N + 1) - 1 = N
    BY <1>1
  <2> QED BY <1>1, <1>3, <2>1
<1>6. K[N] \in Nat
  BY <1>1
<1> QED BY <1>2, <1>3, <1>4, <1>5, <1>6 DEF more

(* What the sizes of a message need. *)
Sized(m) == m.fields \in Seq(HeaderField) /\ m.body \in Nat

LEMMA SizeFacts ==
  ASSUME NEW m, Sized(m)
  PROVE  /\ FieldLength(m.fields) \in Nat /\ HeaderSize(m) \in Nat
         /\ ExtendedHeader <= HeaderSize(m)
         /\ MessageSize(m) \in Nat /\ MessageSize(m) = HeaderSize(m) + m.body
         /\ ExtendedHeader = 4
<1>1. FieldLength(m.fields) \in Nat
  BY FieldLengthUnfolds DEF Sized
<1>2. /\ HeaderSize(m) = ExtendedHeader + Align(FieldLength(m.fields))
      /\ Align(FieldLength(m.fields)) \in Nat
  BY <1>1, AlignFacts DEF HeaderSize
<1> QED BY <1>1, <1>2 DEF MessageSize, Sized, ExtendedHeader

(* The recursion of Start. *)
LEMMA StartUnfolds ==
  ASSUME NEW msg, NEW s \in Seq(msg), \A m \in msg : Sized(m)
  PROVE  /\ Start(s, 1) = 0
         /\ \A i \in 1..Len(s) : Start(s, i + 1) = Start(s, i) + MessageSize(s[i])
         /\ \A i \in 1..(Len(s) + 1) : Start(s, i) \in Nat
<1> DEFINE N == Len(s)
           F == [n \in 1..N |-> [x \in Nat |-> x + MessageSize(s[n])]]
           Step(g) == [n \in 0..N |-> IF n = 0 THEN 0 ELSE g[n - 1] + MessageSize(s[n])]
           K == CHOOSE g : g = Step(g)
<1>1. N \in Nat
  OBVIOUS
<1>2. \A n \in 1..N : MessageSize(s[n]) \in Nat
  <2> TAKE n \in 1..N
  <2>1. s[n] \in msg
    OBVIOUS
  <2> QED BY <2>1, SizeFacts
<1>3. F \in [1..N -> [Nat -> Nat]]
  BY <1>2
<1>4. PICK L \in [0..N -> Nat] : L[0] = 0 /\ \A n \in 1..N : L[n] = F[n][L[n - 1]]
  <2> HIDE DEF F, N
  <2> DEFINE S == Nat
             first == 0
  <2>1. first \in S /\ F \in [1..N -> [S -> S]]
    BY <1>3
  <2> HIDE DEF S, first
  <2>2. \E L \in [0..N -> S] : L[0] = first /\ \A n \in 1..N : L[n] = F[n][L[n - 1]]
    BY <1>1, <2>1, RecursionExists, SMTT(30)
  <2> QED BY <2>2 DEF S, first
<1> HIDE DEF N
<1>5. \A n \in 1..N : n - 1 \in 0..N /\ L[n - 1] \in Nat
  BY <1>1
<1>6. \A n \in 1..N : L[n] = L[n - 1] + MessageSize(s[n])
  BY <1>4, <1>5
<1>7. L = Step(L)
  <2>1. \A n \in 0..N : L[n] = IF n = 0 THEN 0 ELSE L[n - 1] + MessageSize(s[n])
    <3> TAKE n \in 0..N
    <3>1. n # 0 => n \in 1..N
      BY <1>1
    <3> QED BY <1>4, <1>6, <3>1
  <2> QED BY <2>1
<1>8. K = Step(K)
  <2> HIDE DEF Step
  <2> QED BY <1>7
<1>9. \A i : Start(s, i) = K[i - 1]
  BY Zenon DEF Start, N
<1> HIDE DEF K
<1>10. /\ K[0] = 0
       /\ \A n \in 1..N : K[n] = K[n - 1] + MessageSize(s[n])
  <2>1. \A n \in 0..N : K[n] = IF n = 0 THEN 0 ELSE K[n - 1] + MessageSize(s[n])
    BY <1>8, Zenon
  <2>2. 0 \in 0..N /\ \A n \in 1..N : n \in 0..N /\ n # 0
    BY <1>1
  <2> QED BY <2>1, <2>2, Zenon
<1>11. \A n \in 0..N : K[n] \in Nat
  <2> DEFINE Good == {n \in Nat : n \in 0..N => K[n] \in Nat}
  <2>1. 0 \in Good
    BY <1>10
  <2>2. \A n \in 1..N : n - 1 \in Good => n \in Good
    <3> TAKE n \in 1..N
    <3>1. n \in Nat /\ n - 1 \in 0..N
      BY <1>1
    <3> QED BY <1>2, <1>10, <3>1
  <2>3. Good \in SUBSET Nat
    OBVIOUS
  <2> HIDE DEF Good
  <2>4. \A n \in 0..N : n \in Good
    BY <1>1, <2>1, <2>2, <2>3, UpTo
  <2> QED BY <1>1, <2>4 DEF Good
<1>12. Start(s, 1) = 0
  BY <1>9, <1>10
<1>13. \A i \in 1..N : Start(s, i + 1) = Start(s, i) + MessageSize(s[i])
  <2> TAKE i \in 1..N
  <2>1. (i + 1) - 1 = i
    BY <1>1
  <2>2. Start(s, i + 1) = K[i] /\ Start(s, i) = K[i - 1]
    BY <1>9, <2>1
  <2> QED BY <1>10, <2>2
<1>14. \A i \in 1..(N + 1) : Start(s, i) \in Nat
  <2> TAKE i \in 1..(N + 1)
  <2>1. i - 1 \in 0..N
    BY <1>1
  <2> QED BY <1>9, <1>11, <2>1
<1> QED BY <1>12, <1>13, <1>14 DEF N

(* A later message starts behind the whole of an earlier one. *)
LEMMA StartsApart ==
  ASSUME NEW msg, NEW s \in Seq(msg), \A m \in msg : Sized(m)
  PROVE  \A i, j \in 1..(Len(s) + 1) : i < j =>
           Start(s, i) + ExtendedHeader <= Start(s, i + 1) /\ Start(s, i + 1) <= Start(s, j)
<1> DEFINE N == Len(s)
<1>1. N \in Nat
  OBVIOUS
<1>2. \A i \in 1..N : Start(s, i + 1) = Start(s, i) + MessageSize(s[i])
                      /\ Start(s, i) \in Nat /\ Start(s, i + 1) \in Nat
  <2>1. \A i \in 1..N : i \in 1..(N + 1) /\ i + 1 \in 1..(N + 1)
    BY <1>1
  <2> HIDE DEF N
  <2> QED BY <2>1, StartUnfolds DEF N
<1>3. \A i \in 1..N : MessageSize(s[i]) \in Nat /\ ExtendedHeader <= MessageSize(s[i])
  <2> TAKE i \in 1..N
  <2>1. Sized(s[i])
    OBVIOUS
  <2>2. s[i].body \in Nat
    BY <2>1 DEF Sized
  <2>3. HeaderSize(s[i]) \in Nat /\ ExtendedHeader <= HeaderSize(s[i])
        /\ MessageSize(s[i]) = HeaderSize(s[i]) + s[i].body /\ ExtendedHeader = 4
    BY <2>1, SizeFacts
  <2> QED BY <2>2, <2>3
<1> HIDE DEF N
<1>4. SUFFICES ASSUME NEW i \in 1..(N + 1), NEW j \in 1..(N + 1), i < j
               PROVE  Start(s, i) + ExtendedHeader <= Start(s, i + 1) /\ Start(s, i + 1) <= Start(s, j)
  BY DEF N
<1>5. i \in 1..N
  BY <1>1, <1>4
<1>6. Start(s, i) + ExtendedHeader <= Start(s, i + 1)
  BY <1>2, <1>3, <1>5 DEF ExtendedHeader
<1>7. Start(s, i + 1) <= Start(s, j)
  <2> DEFINE Good == {n \in Nat : n < N + 1 - i => Start(s, i + 1) <= Start(s, i + 1 + n)}
  <2>1. 0 \in Good
    BY <1>2, <1>5
  <2>2. \A n \in 1..(N - i) : n - 1 \in Good => n \in Good
    <3> SUFFICES ASSUME NEW n \in 1..(N - i), n - 1 \in Good PROVE n \in Good
      OBVIOUS
    <3>1. n \in Nat /\ i + n \in 1..N /\ i + 1 + (n - 1) = i + n /\ n - 1 < N + 1 - i
          /\ (i + n) + 1 = i + 1 + n
      BY <1>1, <1>5
    <3>2. Start(s, i + 1) <= Start(s, i + n)
      BY <3>1
    <3>3. Start(s, i + n) <= Start(s, (i + n) + 1)
      BY <1>2, <1>3, <3>1
    <3>4. Start(s, i + 1) \in Nat /\ Start(s, i + n) \in Nat /\ Start(s, (i + n) + 1) \in Nat
      BY <1>2, <1>5, <3>1
    <3>5. Start(s, i + 1) <= Start(s, i + 1 + n)
      BY <3>1, <3>2, <3>3, <3>4
    <3> QED BY <3>1, <3>5
  <2>3. Good \in SUBSET Nat /\ N - i \in Nat
    BY <1>1, <1>5
  <2> HIDE DEF Good
  <2>4. \A n \in 0..(N - i) : n \in Good
    BY <2>1, <2>2, <2>3, UpTo
  <2>5. j - i - 1 \in 0..(N - i) /\ j - i - 1 < N + 1 - i /\ i + 1 + (j - i - 1) = j
    BY <1>1, <1>4, <1>5
  <2>6. j - i - 1 \in Good
    BY <2>4, <2>5
  <2>7. Start(s, i + 1) <= Start(s, i + 1 + (j - i - 1))
    BY <2>5, <2>6 DEF Good
  <2> QED BY <2>5, <2>7
<1> QED BY <1>6, <1>7

(* No two messages start at one place. *)
LEMMA StartsDiffer ==
  ASSUME NEW msg, NEW s \in Seq(msg), \A m \in msg : Sized(m),
         NEW i \in 1..(Len(s) + 1), NEW j \in 1..(Len(s) + 1), Start(s, i) = Start(s, j)
  PROVE  i = j
<1>1. Len(s) \in Nat
  OBVIOUS
<1>2. \A a, b \in 1..(Len(s) + 1) : a < b => Start(s, a) # Start(s, b)
  <2> SUFFICES ASSUME NEW a \in 1..(Len(s) + 1), NEW b \in 1..(Len(s) + 1), a < b
               PROVE  Start(s, a) # Start(s, b)
    OBVIOUS
  <2>1. Start(s, a) + ExtendedHeader <= Start(s, a + 1) /\ Start(s, a + 1) <= Start(s, b)
    BY StartsApart
  <2>2. a + 1 \in 1..(Len(s) + 1)
    BY <1>1
  <2>3. Start(s, a) \in Nat /\ Start(s, a + 1) \in Nat /\ Start(s, b) \in Nat
    BY <2>2, StartUnfolds
  <2> QED BY <2>1, <2>3 DEF ExtendedHeader
<1> QED BY <1>1, <1>2

-----------------------------------------------------------------------------
(* The parser of the server *)

(* The message that the parser works on. *)
NextMsg == Len(dispatched) + 1

Typed ==
  /\ msgs \in [1..MaxMsgs -> PeerMessages]
  /\ dispatched \in Seq([end : Nat, size : Nat])
  /\ ParseTypeOK

(* What has been dispatched, and why the peer was dropped. *)
Delivered ==
  /\ NextMsg <= Len(msgs) + 1
  /\ \A i \in DOMAIN dispatched :
       /\ msgs[i].fault = "none"
       /\ dispatched[i].end = Start(msgs, i + 1)
       /\ dispatched[i].size = MessageSize(AsSent(msgs[i]))
  /\ kicked => ~running /\ msgs[NextMsg].fault # "none"

(* The receive buffer begins with the next message. *)
AtBegin ==
  /\ pos = Start(msgs, NextMsg)
  /\ ~running => rx < ExtendedHeader

(* The sizes are those of the next message, and msize words of it are taken. *)
AtHeader ==
  /\ NextMsg <= Len(msgs)
  /\ headerSize = HeaderSize(msgs[NextMsg]) /\ msgSize = MessageSize(msgs[NextMsg])
  /\ pos = Start(msgs, NextMsg) + msize
  /\ ~running => rx = 0

(* What r->msg lacks is what the stream still has of the message. *)
AtData ==
  /\ NextMsg <= Len(msgs) /\ msgs[NextMsg].fault # "header"
  /\ parsedMsgSize = MessageSize(AsSent(msgs[NextMsg]))
  /\ pos + (parsedMsgSize - msize) = Start(msgs, NextMsg + 1)
  /\ ~running => rx = 0 /\ msize < parsedMsgSize

ParseInv ==
  /\ Typed /\ Asserts /\ Delivered
  /\ ~kicked => /\ parseState = "BEGIN" => AtBegin
                /\ parseState = "HEADER" => AtHeader
                /\ parseState = "DATA" => AtData

(* The stream and its messages. *)
LEMMA StreamFacts ==
  ASSUME msgs \in [1..MaxMsgs -> PeerMessages]
  PROVE  /\ msgs \in Seq(PeerMessages) /\ Len(msgs) = MaxMsgs /\ MaxMsgs \in Nat
         /\ \A m \in PeerMessages : Sized(m)
<1>1. msgs \in Seq(PeerMessages) /\ Len(msgs) = MaxMsgs /\ MaxMsgs \in Nat
  BY BodiesAssumption
<1>2. \A m \in PeerMessages : Sized(m)
  BY BodiesAssumption, SenderAssumption DEF PeerMessages, Sized
<1> QED BY <1>1, <1>2

LEMMA NextFacts ==
  ASSUME Typed, NextMsg <= Len(msgs) + 1
  PROVE  /\ Len(msgs) \in Nat /\ NextMsg \in 1..(Len(msgs) + 1) /\ Len(dispatched) \in Nat
         /\ \A i \in 1..(Len(msgs) + 1) : Start(msgs, i) \in Nat
         /\ StreamSize \in Nat
         /\ NextMsg <= Len(msgs) =>
              /\ NextMsg \in DOMAIN msgs /\ msgs[NextMsg] \in PeerMessages
              /\ Sized(msgs[NextMsg])
              /\ HeaderSize(msgs[NextMsg]) \in Nat /\ msgs[NextMsg].body \in Nat
              /\ ExtendedHeader <= HeaderSize(msgs[NextMsg])
              /\ MessageSize(msgs[NextMsg]) = HeaderSize(msgs[NextMsg]) + msgs[NextMsg].body
              /\ Start(msgs, NextMsg + 1) = Start(msgs, NextMsg) + MessageSize(msgs[NextMsg])
<1>1. /\ msgs \in Seq(PeerMessages) /\ Len(msgs) = MaxMsgs /\ MaxMsgs \in Nat
      /\ \A m \in PeerMessages : Sized(m)
  BY StreamFacts DEF Typed
<1>2. Len(dispatched) \in Nat
  BY DEF Typed
<1>3. NextMsg \in 1..(Len(msgs) + 1)
  BY <1>1, <1>2 DEF NextMsg
<1>4. /\ \A i \in 1..Len(msgs) : Start(msgs, i + 1) = Start(msgs, i) + MessageSize(msgs[i])
      /\ \A i \in 1..(Len(msgs) + 1) : Start(msgs, i) \in Nat
  BY <1>1, StartUnfolds
<1>5. StreamSize \in Nat
  BY <1>1, <1>4 DEF StreamSize
<1>6. ASSUME NextMsg <= Len(msgs)
      PROVE  /\ NextMsg \in 1..Len(msgs) /\ NextMsg \in DOMAIN msgs /\ msgs[NextMsg] \in PeerMessages
             /\ Sized(msgs[NextMsg])
  <2>1. NextMsg \in 1..Len(msgs)
    BY <1>1, <1>3, <1>6
  <2> QED BY <1>1, <2>1
<1>7. ASSUME NextMsg <= Len(msgs)
      PROVE  /\ HeaderSize(msgs[NextMsg]) \in Nat /\ msgs[NextMsg].body \in Nat
             /\ ExtendedHeader <= HeaderSize(msgs[NextMsg])
             /\ MessageSize(msgs[NextMsg]) = HeaderSize(msgs[NextMsg]) + msgs[NextMsg].body
             /\ Start(msgs, NextMsg + 1) = Start(msgs, NextMsg) + MessageSize(msgs[NextMsg])
  <2>1. Sized(msgs[NextMsg]) /\ NextMsg \in 1..Len(msgs)
    BY <1>6, <1>7
  <2>2. msgs[NextMsg].body \in Nat
    BY <2>1 DEF Sized
  <2> QED BY <1>4, <2>1, <2>2, SizeFacts
<1> QED BY <1>1, <1>2, <1>3, <1>4, <1>5, <1>6, <1>7

(* Only one message starts, or ends, where the parser is. *)
LEMMA OnlyNext ==
  ASSUME Typed, NextMsg <= Len(msgs) + 1
  PROVE  /\ \A i \in DOMAIN msgs : Start(msgs, i) = Start(msgs, NextMsg) => i = NextMsg
         /\ \A i \in DOMAIN msgs : Start(msgs, i + 1) = Start(msgs, NextMsg + 1) /\ NextMsg <= Len(msgs)
              => i = NextMsg
<1>1. /\ msgs \in Seq(PeerMessages) /\ Len(msgs) \in Nat /\ NextMsg \in 1..(Len(msgs) + 1)
      /\ \A m \in PeerMessages : Sized(m)
  BY StreamFacts, NextFacts DEF Typed
<1>2. \A i \in DOMAIN msgs : i \in 1..(Len(msgs) + 1) /\ i + 1 \in 1..(Len(msgs) + 1)
  BY <1>1
<1>3. \A i, j \in 1..(Len(msgs) + 1) : Start(msgs, i) = Start(msgs, j) => i = j
  BY <1>1, StartsDiffer
<1>4. NextMsg <= Len(msgs) => NextMsg + 1 \in 1..(Len(msgs) + 1)
  BY <1>1
<1>5. \A i \in DOMAIN msgs : i + 1 = NextMsg + 1 => i = NextMsg
  BY <1>1
<1> QED BY <1>1, <1>2, <1>3, <1>4, <1>5

(* FixHeaders makes of a message the one that is sent on. *)
LEMMA FixedSize ==
  ASSUME NEW m \in PeerMessages
  PROVE  LET len == Align(FieldLength(WithoutSender(m.fields))) + SenderSize
         IN  /\ Align(len) \in Nat \ {0}
             /\ MessageSize(AsSent(m)) = ExtendedHeader + Align(len) + m.body
<1> DEFINE kept == WithoutSender(m.fields)
           f == [sender |-> TRUE, size |-> SenderSize]
           len == Align(FieldLength(kept)) + SenderSize
<1>1. kept \in Seq(HeaderField)
  <2>1. m.fields \in Seq(HeaderField)
    BY SenderAssumption DEF PeerMessages
  <2> QED BY <2>1, WithoutFacts DEF WithoutSender
<1>2. f \in HeaderField /\ f.size = SenderSize
  BY SenderAssumption DEF HeaderField
<1> HIDE DEF kept, f
<1>3. FieldLength(kept) \in Nat /\ FieldLength(Append(kept, f)) = len
  BY <1>1, <1>2, FieldAppended
<1>4. len \in Nat \ {0}
  <2>1. Align(FieldLength(kept)) \in Nat
    BY <1>3, AlignFacts
  <2> QED BY <2>1, SenderAssumption
<1> HIDE DEF len
<1>5. Align(len) \in Nat /\ len <= Align(len) /\ Align(ExtendedHeader + len) = ExtendedHeader + Align(len)
  BY <1>4, AlignFacts
<1>6. AsSent(m).fields = Append(kept, f) /\ AsSent(m).body = m.body
  BY DEF AsSent, kept, f
<1>7. MessageSize(AsSent(m)) = ExtendedHeader + Align(len) + m.body
  BY <1>3, <1>5, <1>6 DEF MessageSize, HeaderSize
<1>8. Align(len) \in Nat \ {0}
  BY <1>4, <1>5
<1> QED BY <1>7, <1>8 DEF len, kept

LEMMA ParseInitially == ParseInit => ParseInv
<1> SUFFICES ASSUME ParseInit PROVE ParseInv
  OBVIOUS
<1>1. /\ msgs \in Seq(PeerMessages) /\ Len(msgs) \in Nat
      /\ \A m \in PeerMessages : Sized(m)
  BY StreamFacts DEF ParseInit
<1>2. Start(msgs, 1) = 0 /\ Start(msgs, Len(msgs) + 1) \in Nat
  BY <1>1, StartUnfolds
<1>3. Typed /\ Asserts /\ NextMsg = 1
  <2>1. dispatched \in Seq([end : Nat, size : Nat]) /\ NextMsg = 1
    BY DEF ParseInit, NextMsg
  <2>2. ParseTypeOK
    <3>1. running \in BOOLEAN /\ kicked \in BOOLEAN
      BY DEF ParseInit
    <3>2. pos = 0 /\ rx = 0 /\ 0 + 0 <= StreamSize
      BY <1>2 DEF ParseInit, StreamSize
    <3> QED BY <3>1, <3>2 DEF ParseInit, ParseTypeOK
  <2> QED BY <2>1, <2>2 DEF ParseInit, Typed, Asserts
<1> QED BY <1>1, <1>2, <1>3 DEF ParseInit, ParseInv, Delivered, AtBegin, ExtendedHeader

(* A piece of the stream arrives. *)
LEMMA ReceivedPiece ==
  ASSUME ParseInv, RemoteRecv
  PROVE  ParseInv'
<1>1. Typed /\ StreamSize \in Nat /\ pos \in Nat /\ rx \in Nat /\ ~kicked
  BY NextFacts DEF ParseInv, Delivered, Typed, ParseTypeOK, RemoteRecv
<1>2. rx' \in Nat /\ pos + rx' <= StreamSize
  BY <1>1 DEF RemoteRecv
<1>3. Typed'
  BY <1>1, <1>2 DEF RemoteRecv, Typed, ParseTypeOK, StreamSize
<1>4. Asserts' /\ NextMsg' = NextMsg
  BY DEF ParseInv, RemoteRecv, Asserts, NextMsg
<1>5. Delivered'
  BY <1>1, <1>4 DEF ParseInv, RemoteRecv, Delivered
<1> QED BY <1>1, <1>3, <1>4, <1>5 DEF ParseInv, RemoteRecv, AtBegin, AtHeader, AtData

(* The parser between two messages. *)
LEMMA BegunRight ==
  ASSUME ParseInv, BeginShort \/ Begin
  PROVE  ParseInv'
<1>1. Typed /\ ~kicked /\ AtBegin /\ NextMsg <= Len(msgs) + 1 /\ pos \in Nat /\ rx \in Nat
  BY DEF ParseInv, Delivered, Typed, ParseTypeOK, BeginShort, Begin
<1>2. CASE BeginShort
  <2>1. Typed' /\ Asserts' /\ NextMsg' = NextMsg
    BY <1>1, <1>2 DEF ParseInv, BeginShort, Return, Typed, ParseTypeOK, StreamSize, Asserts, NextMsg
  <2>2. Delivered'
    BY <1>1, <1>2, <2>1 DEF ParseInv, BeginShort, Return, Delivered
  <2> QED BY <1>1, <1>2, <2>1, <2>2 DEF ParseInv, BeginShort, Return, AtBegin
<1>3. CASE Begin
  <2>1. PICK i \in DOMAIN msgs :
          /\ Start(msgs, i) = pos
          /\ headerSize' = HeaderSize(msgs[i]) /\ msgSize' = headerSize' + msgs[i].body
    BY <1>3 DEF Begin, MessagesAt
  <2>2. i = NextMsg /\ NextMsg <= Len(msgs)
    <3>1. i = NextMsg
      BY <1>1, <2>1, OnlyNext DEF AtBegin
    <3>2. i \in 1..Len(msgs)
      BY <1>1, StreamFacts DEF Typed
    <3> QED BY <3>1, <3>2, <1>1, StreamFacts DEF Typed
  <2>3. /\ headerSize' = HeaderSize(msgs[NextMsg]) /\ msgSize' = MessageSize(msgs[NextMsg])
        /\ headerSize' \in Nat /\ msgSize' \in Nat /\ headerSize' > 0
    <3> DEFINE m == msgs[NextMsg]
    <3>1. headerSize' = HeaderSize(m) /\ msgSize' = headerSize' + m.body
      BY <2>1, <2>2
    <3>2. /\ HeaderSize(m) \in Nat /\ m.body \in Nat /\ ExtendedHeader <= HeaderSize(m)
          /\ MessageSize(m) = HeaderSize(m) + m.body
      BY <1>1, <2>2, NextFacts
    <3> HIDE DEF m
    <3>3. /\ headerSize' = HeaderSize(m) /\ msgSize' = MessageSize(m)
          /\ headerSize' \in Nat /\ msgSize' \in Nat /\ headerSize' > 0
      BY <3>1, <3>2 DEF ExtendedHeader
    <3> QED BY <3>3 DEF m
  <2>4. Typed' /\ Asserts' /\ NextMsg' = NextMsg
    BY <1>1, <1>3, <2>3 DEF Begin, Typed, ParseTypeOK, StreamSize, Asserts, NextMsg
  <2>5. Delivered'
    BY <1>1, <1>3, <2>4 DEF ParseInv, Begin, Delivered
  <2>6. AtHeader'
    <3>1. pos' = Start(msgs, NextMsg) + msize'
      BY <1>1, <1>3, NextFacts DEF Begin, AtBegin
    <3> QED BY <1>3, <2>2, <2>3, <2>4, <3>1 DEF Begin, AtHeader
  <2> QED BY <1>3, <2>4, <2>5, <2>6 DEF ParseInv, Begin
<1> QED BY <1>2, <1>3

(* What Move takes. *)
LEMMA Moved ==
  ASSUME Typed, NEW need \in Nat, Move(need)
  PROVE  /\ pos' \in Nat /\ rx' \in Nat /\ pos' + rx' = pos + rx
         /\ rx < need => pos' = pos + rx /\ rx' = 0
         /\ rx >= need => pos' = pos + need
BY DEF Typed, ParseTypeOK, Move

LEMMA HeaderRight ==
  ASSUME ParseInv, HeaderShort \/ HeaderDone \/ HeaderFails
  PROVE  ParseInv'
<1> DEFINE need == headerSize - msize
<1>1. /\ Typed /\ ~kicked /\ AtHeader /\ NextMsg <= Len(msgs) + 1 /\ pos \in Nat /\ rx \in Nat
      /\ headerSize \in Nat /\ msize \in Nat /\ need \in Nat /\ 0 < need /\ Move(need)
      /\ parseState = "HEADER"
  BY DEF ParseInv, Delivered, Typed, ParseTypeOK, Asserts, HeaderShort, HeaderDone, HeaderFails
<1>2. /\ pos' \in Nat /\ rx' \in Nat /\ pos' + rx' = pos + rx
      /\ rx < need => pos' = pos + rx /\ rx' = 0
      /\ rx >= need => pos' = pos + need
  <2> HIDE DEF need
  <2> QED BY <1>1, Moved
<1>7. Start(msgs, NextMsg) \in Nat
  BY <1>1, NextFacts
<1>3. CASE HeaderShort
  <2>1. rx < need
    BY <1>3 DEF HeaderShort
  <2>2. msize' \in Nat /\ msize' < headerSize
    BY <1>1, <1>3, <2>1 DEF HeaderShort
  <2>3. Typed' /\ Asserts' /\ NextMsg' = NextMsg
    BY <1>1, <1>2, <1>3, <2>2 DEF HeaderShort, Return, Typed, ParseTypeOK, StreamSize, Asserts, NextMsg
  <2>4. Delivered'
    BY <1>1, <1>3, <2>3 DEF ParseInv, HeaderShort, Return, Delivered
  <2>5. AtHeader'
    <3>1. pos' = Start(msgs, NextMsg) + msize'
      <4>1. pos' = pos + rx /\ msize' = msize + rx
        BY <1>2, <1>3, <2>1 DEF HeaderShort
      <4>2. pos = Start(msgs, NextMsg) + msize
        BY <1>1 DEF AtHeader
      <4> QED BY <1>1, <1>7, <4>1, <4>2
    <3> QED BY <1>1, <1>2, <1>3, <2>1, <2>3, <3>1 DEF HeaderShort, AtHeader
  <2> QED BY <1>1, <1>3, <2>3, <2>4, <2>5 DEF ParseInv, HeaderShort
<1>4. ASSUME HeaderDone \/ HeaderFails
      PROVE  /\ pos' = Start(msgs, NextMsg) + headerSize
             /\ HeaderInBuffer = NextMsg
  <2>1. rx >= need
    BY <1>4 DEF HeaderDone, HeaderFails
  <2>2. pos' = Start(msgs, NextMsg) + headerSize
    <3>1. pos' = pos + need
      BY <1>2, <2>1
    <3>2. pos = Start(msgs, NextMsg) + msize
      BY <1>1 DEF AtHeader
    <3> QED BY <1>1, <1>7, <3>1, <3>2
  <2>3. \A i \in DOMAIN msgs : Start(msgs, i) + headerSize = pos' => i = NextMsg
    <3>1. \A i \in DOMAIN msgs : Start(msgs, i) \in Nat
      <4>1. \A i \in DOMAIN msgs : i \in 1..(Len(msgs) + 1)
        BY <1>1, StreamFacts DEF Typed
      <4> QED BY <1>1, <4>1, NextFacts
    <3>2. Start(msgs, NextMsg) \in Nat
      BY <1>1, NextFacts
    <3>3. \A i \in DOMAIN msgs : Start(msgs, i) + headerSize = pos' => Start(msgs, i) = Start(msgs, NextMsg)
      BY <1>1, <2>2, <3>1, <3>2
    <3> QED BY <1>1, <3>3, OnlyNext
  <2>4. NextMsg \in DOMAIN msgs
    BY <1>1, NextFacts DEF AtHeader
  <2>5. HeaderInBuffer = NextMsg
    <3> DEFINE P(i) == Start(msgs, i) + headerSize = pos'
    <3>1. P(NextMsg) /\ \A i \in DOMAIN msgs : P(i) => i = NextMsg
      BY <2>2, <2>3
    <3> HIDE DEF P
    <3>2. (CHOOSE i \in DOMAIN msgs : P(i)) = NextMsg
      BY <2>4, <3>1
    <3> QED BY <3>2 DEF HeaderInBuffer, P
  <2> QED BY <2>2, <2>5
<1>5. CASE HeaderDone
  <2> DEFINE m == msgs[NextMsg]
             len == Align(FieldLength(WithoutSender(m.fields))) + SenderSize
  <2>1. /\ pos' = Start(msgs, NextMsg) + headerSize
        /\ msgs[NextMsg].fault # "header"
        /\ FixHeaders(msgs[NextMsg])
        /\ parseState' = "DATA"
        /\ UNCHANGED <<msgs, running, headerSize, msgSize, dispatched, kicked>>
    BY <1>4, <1>5 DEF HeaderDone
  <2>2. /\ m \in PeerMessages /\ m.body \in Nat
        /\ headerSize = HeaderSize(m) /\ msgSize = headerSize + m.body
        /\ Start(msgs, NextMsg + 1) = Start(msgs, NextMsg) + msgSize
        /\ Start(msgs, NextMsg) \in Nat
    BY <1>1, NextFacts DEF AtHeader
  <2>3. /\ msize' = ExtendedHeader + Align(len)
        /\ parsedMsgSize' = msgSize - headerSize + Align(len) + ExtendedHeader
    BY <2>1 DEF FixHeaders
  <2>4. Align(len) \in Nat \ {0} /\ MessageSize(AsSent(m)) = ExtendedHeader + Align(len) + m.body
    BY <2>2, FixedSize
  <2> HIDE DEF m, len
  <2>5. /\ msize' \in Nat /\ parsedMsgSize' \in Nat
        /\ parsedMsgSize' = MessageSize(AsSent(m)) /\ parsedMsgSize' = msize' + m.body
        /\ parsedMsgSize' > ExtendedHeader
    <3>1. msgSize - headerSize = m.body
      BY <1>1, <2>2
    <3> QED BY <2>2, <2>3, <2>4, <3>1 DEF ExtendedHeader
  <2>6. Typed' /\ Asserts' /\ NextMsg' = NextMsg
    <3>1. Typed' /\ NextMsg' = NextMsg
      BY <1>1, <1>2, <2>1, <2>5 DEF Typed, ParseTypeOK, StreamSize, NextMsg
    <3>2. Asserts'
      BY <2>1, <2>2, <2>5 DEF Asserts
    <3> QED BY <3>1, <3>2
  <2>7. Delivered'
    BY <1>1, <2>1, <2>6 DEF ParseInv, Delivered
  <2>8. AtData'
    <3>1. pos' + (parsedMsgSize' - msize') = Start(msgs, NextMsg + 1)
      BY <1>1, <2>1, <2>2, <2>5
    <3>2. running
      BY <1>5 DEF HeaderDone
    <3> QED BY <1>1, <2>1, <2>5, <2>6, <3>1, <3>2 DEF AtData, AtHeader, m
  <2> QED BY <2>1, <2>6, <2>7, <2>8 DEF ParseInv
<1>6. CASE HeaderFails
  <2>1. /\ msgs[NextMsg].fault = "header" /\ kicked' = TRUE /\ running' = FALSE
        /\ UNCHANGED <<msgs, parseState, headerSize, msgSize, parsedMsgSize, msize, dispatched>>
    BY <1>4, <1>6 DEF HeaderFails, Return
  <2>2. Typed' /\ Asserts' /\ NextMsg' = NextMsg
    BY <1>1, <1>2, <2>1 DEF ParseInv, Typed, ParseTypeOK, StreamSize, Asserts, NextMsg
  <2>3. Delivered'
    BY <2>1, <2>2 DEF ParseInv, Delivered
  <2> QED BY <2>1, <2>2, <2>3 DEF ParseInv
<1> QED BY <1>3, <1>5, <1>6

LEMMA DataRight ==
  ASSUME ParseInv, DataShort \/ DataDone \/ DataFails
  PROVE  ParseInv'
<1> DEFINE need == parsedMsgSize - msize
<1>1. /\ Typed /\ ~kicked /\ AtData /\ NextMsg <= Len(msgs) /\ NextMsg <= Len(msgs) + 1
      /\ pos \in Nat /\ rx \in Nat
      /\ parsedMsgSize \in Nat /\ msize \in Nat /\ need \in Nat /\ Move(need)
      /\ parseState = "DATA"
  BY DEF ParseInv, Delivered, Typed, ParseTypeOK, Asserts, AtData, DataShort, DataDone, DataFails
<1>2. /\ pos' \in Nat /\ rx' \in Nat /\ pos' + rx' = pos + rx
      /\ rx < need => pos' = pos + rx /\ rx' = 0
      /\ rx >= need => pos' = pos + need
  <2> HIDE DEF need
  <2> QED BY <1>1, Moved
<1>3. CASE DataShort
  <2>1. rx < need
    BY <1>3 DEF DataShort
  <2>2. msize' \in Nat /\ msize' < parsedMsgSize
    BY <1>1, <1>3, <2>1 DEF DataShort
  <2>3. Typed' /\ Asserts' /\ NextMsg' = NextMsg
    <3>1. Typed' /\ NextMsg' = NextMsg
      BY <1>1, <1>2, <1>3, <2>2 DEF DataShort, Return, Typed, ParseTypeOK, StreamSize, NextMsg
    <3>2. Asserts'
      BY <1>1, <1>3, <2>2 DEF ParseInv, DataShort, Asserts
    <3> QED BY <3>1, <3>2
  <2>4. Delivered'
    BY <1>1, <1>3, <2>3 DEF ParseInv, DataShort, Return, Delivered
  <2>5. AtData'
    <3>1. pos' + (parsedMsgSize' - msize') = pos + (parsedMsgSize - msize)
      BY <1>1, <1>2, <1>3, <2>1 DEF DataShort
    <3> QED BY <1>1, <1>2, <1>3, <2>1, <2>2, <2>3, <3>1 DEF DataShort, AtData
  <2> QED BY <1>1, <1>3, <2>3, <2>4, <2>5 DEF ParseInv, DataShort
<1>4. ASSUME DataDone \/ DataFails
      PROVE  /\ pos' = Start(msgs, NextMsg + 1)
             /\ DataInBuffer = NextMsg
  <2>1. rx >= need
    BY <1>4 DEF DataDone, DataFails
  <2>2. pos' = Start(msgs, NextMsg + 1)
    BY <1>1, <1>2, <2>1 DEF AtData
  <2> DEFINE P(i) == Start(msgs, i + 1) = pos'
  <2>3. NextMsg \in DOMAIN msgs /\ P(NextMsg)
    BY <1>1, <2>2, NextFacts
  <2>4. \A i \in DOMAIN msgs : P(i) => i = NextMsg
    BY <1>1, <2>2, OnlyNext
  <2> HIDE DEF P
  <2>5. (CHOOSE i \in DOMAIN msgs : P(i)) = NextMsg
    BY <2>3, <2>4
  <2> QED BY <2>2, <2>5 DEF DataInBuffer, P
<1>5. CASE DataDone
  <2> DEFINE d == [end |-> pos', size |-> parsedMsgSize]
  <2>1. /\ pos' = Start(msgs, NextMsg + 1)
        /\ msgs[NextMsg].fault # "dispatch"
        /\ dispatched' = Append(dispatched, d)
        /\ headerSize' = 0 /\ msgSize' = 0 /\ parsedMsgSize' = 0 /\ msize' = 0
        /\ parseState' = "BEGIN" /\ running
        /\ UNCHANGED <<msgs, running, kicked>>
    BY <1>4, <1>5 DEF DataDone
  <2>2. d \in [end : Nat, size : Nat] /\ d.end = pos' /\ d.size = parsedMsgSize
    BY <1>1, <1>2
  <2> HIDE DEF d
  <2>3. /\ dispatched \in Seq([end : Nat, size : Nat]) /\ Len(dispatched) \in Nat
        /\ dispatched' \in Seq([end : Nat, size : Nat])
        /\ Len(dispatched') = Len(dispatched) + 1
        /\ DOMAIN dispatched = 1..Len(dispatched)
        /\ DOMAIN dispatched' = 1..(Len(dispatched) + 1)
        /\ \A i \in 1..Len(dispatched) : dispatched'[i] = dispatched[i]
        /\ dispatched'[Len(dispatched) + 1] = d
    BY <1>1, <2>1, <2>2, AppendPlaces DEF Typed
  <2>4. NextMsg' = NextMsg + 1 /\ NextMsg \in Nat /\ Len(msgs) \in Nat
    BY <1>1, <2>3, NextFacts DEF NextMsg
  <2>5. Typed' /\ Asserts'
    BY <1>1, <1>2, <2>1, <2>3 DEF Typed, ParseTypeOK, StreamSize, Asserts
  <2>6. msgs[NextMsg].fault = "none"
    <3>1. msgs[NextMsg] \in PeerMessages
      BY <1>1, NextFacts
    <3>2. msgs[NextMsg].fault \in {"none", "header", "dispatch"}
      BY <3>1 DEF PeerMessages
    <3> QED BY <1>1, <2>1, <3>2 DEF AtData
  <2>7. Delivered'
    <3>1. NextMsg' <= Len(msgs') + 1
      BY <1>1, <2>1, <2>4
    <3>2. ASSUME NEW i \in DOMAIN dispatched'
          PROVE  /\ msgs[i].fault = "none"
                 /\ dispatched'[i].end = Start(msgs, i + 1)
                 /\ dispatched'[i].size = MessageSize(AsSent(msgs[i]))
      <4>1. CASE i \in DOMAIN dispatched
        BY <2>3, <4>1 DEF ParseInv, Delivered
      <4>2. CASE i = NextMsg
        BY <1>1, <2>1, <2>2, <2>3, <2>6, <4>2 DEF AtData, NextMsg
      <4>3. i \in DOMAIN dispatched \/ i = NextMsg
        BY <2>3 DEF NextMsg
      <4> QED BY <4>1, <4>2, <4>3
    <3> QED BY <1>1, <2>1, <3>1, <3>2 DEF Delivered
  <2>8. AtBegin'
    BY <2>1, <2>4 DEF AtBegin
  <2> QED BY <2>1, <2>5, <2>7, <2>8 DEF ParseInv
<1>6. CASE DataFails
  <2>1. /\ msgs[NextMsg].fault = "dispatch" /\ kicked' = TRUE /\ running' = FALSE
        /\ UNCHANGED <<msgs, parseState, headerSize, msgSize, parsedMsgSize, msize, dispatched>>
    BY <1>4, <1>6 DEF DataFails, Return
  <2>2. Typed' /\ Asserts' /\ NextMsg' = NextMsg
    BY <1>1, <1>2, <2>1 DEF ParseInv, Typed, ParseTypeOK, StreamSize, Asserts, NextMsg
  <2>3. Delivered'
    BY <2>1, <2>2 DEF ParseInv, Delivered
  <2> QED BY <2>1, <2>2, <2>3 DEF ParseInv
<1> QED BY <1>3, <1>5, <1>6

(* What has arrived as a whole has been dispatched. *)
LEMMA ParseInvSound == ParseInv => ServerParserSound
<1> SUFFICES ASSUME ParseInv PROVE ServerParserSound
  OBVIOUS
<1>1. Typed /\ ParseTypeOK /\ Asserts /\ Delivered /\ NextMsg <= Len(msgs) + 1 /\ Len(msgs) \in Nat
      /\ Len(dispatched) \in Nat /\ pos \in Nat /\ rx \in Nat
  BY NextFacts DEF ParseInv, Typed, Delivered, ParseTypeOK
<1>2. Framed
  BY <1>1 DEF Delivered, Framed, NextMsg
<1>3. ASSUME ~running, ~kicked PROVE rx < ExtendedHeader
  BY <1>1, <1>3 DEF ParseInv, ParseTypeOK, AtBegin, AtHeader, AtData, ExtendedHeader
<1>4. ASSUME ~running, ~kicked, NEW i \in DOMAIN msgs, Start(msgs, i + 1) <= pos + rx
      PROVE  i <= Len(dispatched)
  <2> SUFFICES ASSUME ~(i <= Len(dispatched)) PROVE FALSE
    OBVIOUS
  <2>1. i \in 1..Len(msgs) /\ NextMsg <= i /\ NextMsg <= Len(msgs) /\ NextMsg \in 1..Len(msgs)
    BY <1>1, StreamFacts DEF NextMsg, Typed
  <2>2. /\ msgs \in Seq(PeerMessages) /\ \A m \in PeerMessages : Sized(m)
    BY <1>1, StreamFacts DEF Typed
  <2>3. /\ NextMsg \in 1..(Len(msgs) + 1) /\ i + 1 \in 1..(Len(msgs) + 1) /\ NextMsg < i + 1
        /\ NextMsg + 1 \in 1..(Len(msgs) + 1)
    BY <1>1, <2>1
  <2>4. /\ Start(msgs, NextMsg) + ExtendedHeader <= Start(msgs, NextMsg + 1)
        /\ Start(msgs, NextMsg + 1) <= Start(msgs, i + 1)
    BY <2>2, <2>3, StartsApart
  <2>5. /\ Start(msgs, NextMsg) \in Nat /\ Start(msgs, NextMsg + 1) \in Nat
        /\ Start(msgs, i + 1) \in Nat
    BY <2>2, <2>3, StartUnfolds
  <2>6. pos + rx < Start(msgs, NextMsg + 1)
    <3>1. CASE parseState = "BEGIN"
      BY <1>1, <1>3, <1>4, <2>4, <2>5, <3>1 DEF ParseInv, AtBegin, ExtendedHeader
    <3>2. CASE parseState = "HEADER"
      <4>1. /\ AtHeader /\ headerSize > msize /\ msize \in Nat /\ headerSize \in Nat
        BY <1>1, <1>4, <3>2 DEF ParseInv, Asserts, ParseTypeOK
      <4>2. /\ msgs[NextMsg].body \in Nat
            /\ Start(msgs, NextMsg + 1) = Start(msgs, NextMsg) + (headerSize + msgs[NextMsg].body)
        BY <1>1, <2>1, <4>1, NextFacts DEF AtHeader
      <4>3. pos = Start(msgs, NextMsg) + msize /\ rx = 0
        BY <1>4, <4>1 DEF AtHeader
      <4> QED BY <2>5, <4>1, <4>2, <4>3
    <3>3. CASE parseState = "DATA"
      <4>1. /\ pos + (parsedMsgSize - msize) = Start(msgs, NextMsg + 1)
            /\ rx = 0 /\ msize < parsedMsgSize /\ msize \in Nat /\ parsedMsgSize \in Nat
        BY <1>1, <1>4, <3>3 DEF ParseInv, AtData, ParseTypeOK
      <4> QED BY <1>1, <2>5, <4>1
    <3> QED BY <1>1, <3>1, <3>2, <3>3 DEF ParseTypeOK
  <2> QED BY <1>1, <1>4, <2>4, <2>5, <2>6
<1>5. NothingHeldBack
  BY <1>3, <1>4 DEF NothingHeldBack
<1> QED BY <1>1, <1>2, <1>5 DEF ServerParserSound

(* adbus_remote_parse finds the messages of the stream however the network cuts it:
   each is dispatched once, in order, as it was written but for the sender, and none
   that has arrived as a whole is held back. *)
THEOREM ServerParsesStream == ParseSpec => []ServerParserSound
<1>1. ParseInv /\ [ParseNext]_parseVars => ParseInv'
  <2> SUFFICES ASSUME ParseInv, [ParseNext]_parseVars PROVE ParseInv'
    OBVIOUS
  <2>1. CASE RemoteRecv
    BY <2>1, ReceivedPiece
  <2>2. CASE BeginShort \/ Begin
    BY <2>2, BegunRight
  <2>3. CASE HeaderShort \/ HeaderDone \/ HeaderFails
    BY <2>3, HeaderRight
  <2>4. CASE DataShort \/ DataDone \/ DataFails
    BY <2>4, DataRight
  <2>5. CASE UNCHANGED parseVars
    <3>1. Typed' /\ Asserts' /\ NextMsg' = NextMsg
      BY <2>5 DEF parseVars, ParseInv, Typed, ParseTypeOK, StreamSize, Asserts, NextMsg
    <3>2. Delivered'
      BY <2>5, <3>1 DEF parseVars, ParseInv, Delivered
    <3> QED BY <2>5, <3>1, <3>2 DEF parseVars, ParseInv, AtBegin, AtHeader, AtData
  <2> QED BY <2>1, <2>2, <2>3, <2>4, <2>5 DEF ParseNext
<1> QED BY <1>1, ParseInitially, ParseInvSound, PTL DEF ParseSpec

-----------------------------------------------------------------------------
(* The parser of the client *)

(* The headers end where adbus_parse_size takes them to end: it aligns from the end
   of the fixed header without the length of the fields, which is right for lists of
   fields of an even number of words. *)
EvenFields == \A fields \in BusFields : FieldLength(fields) % 2 = 0

(* The message that data points to, or that comes next. *)
Coming == Len(given) + 1

ConnTyped ==
  /\ stream \in [1..MaxMsgs -> BusMessages]
  /\ given \in Seq([start : Nat, size : Nat])
  /\ front \in Nat /\ buffered \in Nat /\ taken \in Nat
  /\ taken <= buffered

(* What the call has dispatched ends where the next message starts, and what a
   returned call left has no whole message. *)
ConnInv ==
  /\ EvenFields
  /\ ConnTyped
  /\ Coming <= Len(stream) + 1
  /\ front + taken = Start(stream, Coming)
  /\ ExactMessages
  /\ ~parsing /\ ~gaveUp =>
       taken = 0 /\ (Coming <= Len(stream) => front + buffered < Start(stream, Coming + 1))

LEMMA ComingFacts ==
  ASSUME ConnTyped, Coming <= Len(stream) + 1
  PROVE  /\ stream \in Seq(BusMessages) /\ \A m \in BusMessages : Sized(m)
         /\ Len(stream) \in Nat /\ Coming \in 1..(Len(stream) + 1) /\ Len(given) \in Nat
         /\ DOMAIN stream = 1..Len(stream)
         /\ Start(stream, Coming) \in Nat
         /\ Coming <= Len(stream) =>
              /\ Coming \in DOMAIN stream /\ stream[Coming] \in BusMessages
              /\ MessageSize(stream[Coming]) \in Nat
              /\ ExtendedHeader <= MessageSize(stream[Coming])
              /\ Start(stream, Coming + 1) = Start(stream, Coming) + MessageSize(stream[Coming])
<1>1. stream \in Seq(BusMessages) /\ Len(stream) \in Nat /\ DOMAIN stream = 1..Len(stream)
  BY BodiesAssumption DEF ConnTyped
<1>2. \A m \in BusMessages : Sized(m)
  BY BodiesAssumption, BusFieldsAssumption DEF BusMessages, Sized
<1>3. Len(given) \in Nat /\ Coming \in 1..(Len(stream) + 1)
  <2>1. Len(given) \in Nat
    BY DEF ConnTyped
  <2> QED BY <1>1, <2>1 DEF Coming
<1>4. Start(stream, Coming) \in Nat
  BY <1>1, <1>2, <1>3, StartUnfolds
<1>5. ASSUME Coming <= Len(stream)
      PROVE  /\ Coming \in DOMAIN stream /\ stream[Coming] \in BusMessages
             /\ MessageSize(stream[Coming]) \in Nat
             /\ ExtendedHeader <= MessageSize(stream[Coming])
             /\ Start(stream, Coming + 1) = Start(stream, Coming) + MessageSize(stream[Coming])
  <2>1. Coming \in 1..Len(stream)
    BY <1>1, <1>3, <1>5
  <2>2. stream[Coming] \in BusMessages /\ Sized(stream[Coming])
    BY <1>1, <1>2, <2>1
  <2> DEFINE m == stream[Coming]
  <2>3. m.body \in Nat
    BY <2>2 DEF Sized
  <2>4. /\ HeaderSize(m) \in Nat /\ ExtendedHeader <= HeaderSize(m) /\ ExtendedHeader = 4
        /\ MessageSize(m) = HeaderSize(m) + m.body
    BY <2>2, SizeFacts
  <2>5. Start(stream, Coming + 1) = Start(stream, Coming) + MessageSize(m)
    BY <1>1, <1>2, <2>1, StartUnfolds
  <2> HIDE DEF m
  <2>6. MessageSize(m) \in Nat /\ ExtendedHeader <= MessageSize(m)
    BY <2>3, <2>4
  <2> QED BY <1>1, <2>1, <2>2, <2>5, <2>6 DEF m
<1> QED BY <1>1, <1>2, <1>3, <1>4, <1>5

(* The message at the place of the parser, and its size. *)
LEMMA CurrentFacts ==
  ASSUME ConnInv
  PROVE  /\ \A i \in Current : i = Coming /\ Coming <= Len(stream)
         /\ Coming <= Len(stream) =>
              /\ Coming \in Current
              /\ buffered - taken >= ExtendedHeader => SizeOf(Coming) = MessageSize(stream[Coming])
              /\ SizeOf(Coming) # 0 => buffered - taken >= ExtendedHeader
<1>1. ConnTyped /\ Coming <= Len(stream) + 1 /\ front + taken = Start(stream, Coming) /\ EvenFields
  BY DEF ConnInv
<1>2. /\ stream \in Seq(BusMessages) /\ \A m \in BusMessages : Sized(m)
      /\ Len(stream) \in Nat /\ Coming \in 1..(Len(stream) + 1)
      /\ DOMAIN stream = 1..Len(stream)
  BY <1>1, ComingFacts
<1>3. ASSUME NEW i \in Current PROVE i = Coming /\ Coming <= Len(stream)
  <2>1. i \in 1..Len(stream) /\ Start(stream, i) = Start(stream, Coming)
    BY <1>1, <1>2 DEF Current, MessagesAt
  <2>2. i \in 1..(Len(stream) + 1)
    BY <1>2, <2>1
  <2>3. i = Coming
    BY <1>2, <2>1, <2>2, StartsDiffer
  <2> QED BY <1>2, <2>1, <2>3
<1>4. ASSUME Coming <= Len(stream)
      PROVE  /\ Coming \in Current
             /\ buffered - taken >= ExtendedHeader => SizeOf(Coming) = MessageSize(stream[Coming])
             /\ SizeOf(Coming) # 0 => buffered - taken >= ExtendedHeader
  <2> DEFINE m == stream[Coming]
             n == FieldLength(m.fields)
  <2>1. Coming \in Current
    BY <1>1, <1>4, ComingFacts DEF Current, MessagesAt
  <2>2. n \in Nat /\ n % 2 = 0
    <3>1. m \in BusMessages
      BY <1>1, <1>4, ComingFacts
    <3>2. m.fields \in BusFields /\ Sized(m)
      BY <1>2, <3>1 DEF BusMessages
    <3> QED BY <1>1, <3>2, SizeFacts DEF EvenFields
  <2> HIDE DEF n
  <2>3. Align(Header + n) = Align(ExtendedHeader + n)
    BY <2>2, AlignFacts
  <2>4. MessageSize(m) = Align(Header + n) + m.body
    BY <2>3 DEF MessageSize, HeaderSize, n
  <2>5. SizeOf(Coming) = IF buffered - taken < ExtendedHeader THEN 0 ELSE Align(Header + n) + m.body
    BY DEF SizeOf, parse_size, n
  <2>6. buffered - taken \in Nat
    BY <1>1 DEF ConnTyped
  <2> QED BY <2>1, <2>4, <2>5, <2>6 DEF ExtendedHeader
<1> QED BY <1>3, <1>4

LEMMA ConnInitially == EvenFields /\ ConnInit => ConnInv
<1> SUFFICES ASSUME EvenFields, ConnInit PROVE ConnInv
  OBVIOUS
<1>1. ConnTyped /\ Coming = 1
  BY DEF ConnInit, ConnTyped, Coming
<1>2. Len(stream) \in Nat
  BY BodiesAssumption DEF ConnInit
<1>3. Coming <= Len(stream) + 1
  BY <1>1, <1>2
<1>4. Start(stream, 1) = 0
  BY <1>1, <1>3, ComingFacts, StartUnfolds
<1>5. Coming <= Len(stream) => 0 < Start(stream, Coming + 1)
  BY <1>1, <1>3, <1>4, ComingFacts DEF ExtendedHeader
<1>6. ExactMessages
  BY DEF ConnInit, ExactMessages
<1> QED BY <1>1, <1>3, <1>4, <1>5, <1>6 DEF ConnInit, ConnInv

(* A whole message is given to adbus_parse. *)
LEMMA TakesMessage ==
  ASSUME ConnInv, ParseMessage
  PROVE  ConnInv'
<1>1. /\ ConnTyped /\ Coming <= Len(stream) + 1 /\ front + taken = Start(stream, Coming)
      /\ EvenFields /\ front \in Nat /\ buffered \in Nat /\ taken \in Nat
  BY DEF ConnInv, ConnTyped
<1>2. PICK i \in Current :
        /\ SizeOf(i) # 0 /\ SizeOf(i) <= buffered - taken
        /\ given' = Append(given, [start |-> front + taken, size |-> SizeOf(i)])
        /\ taken' = taken + SizeOf(i)
  BY DEF ParseMessage
<1> DEFINE size == MessageSize(stream[Coming])
           g == [start |-> front + taken, size |-> size]
<1>3. i = Coming /\ Coming <= Len(stream) /\ SizeOf(i) = size
  BY <1>2, CurrentFacts
<1>4. /\ size \in Nat /\ Start(stream, Coming) \in Nat
      /\ Start(stream, Coming + 1) = Start(stream, Coming) + size
      /\ Len(stream) \in Nat /\ Coming \in Nat
  BY <1>1, <1>3, ComingFacts
<1>5. g \in [start : Nat, size : Nat] /\ given' = Append(given, g) /\ given \in Seq([start : Nat, size : Nat])
  BY <1>1, <1>2, <1>3, <1>4 DEF ConnTyped
<1>6. /\ given' \in Seq([start : Nat, size : Nat]) /\ Len(given) \in Nat
      /\ Len(given') = Len(given) + 1
      /\ DOMAIN given = 1..Len(given) /\ DOMAIN given' = 1..(Len(given) + 1)
      /\ \A j \in 1..Len(given) : given'[j] = given[j]
      /\ given'[Len(given) + 1] = g
  <2> HIDE DEF g
  <2> QED BY <1>5, AppendPlaces
<1>7. UNCHANGED <<stream, front, buffered, parsing, gaveUp>> /\ parsing
  BY DEF ParseMessage
<1> HIDE DEF size
<1>8. taken' \in Nat /\ taken' <= buffered /\ front + taken' = Start(stream, Coming + 1)
  BY <1>1, <1>2, <1>3, <1>4
<1>9. ConnTyped'
  BY <1>1, <1>6, <1>7, <1>8 DEF ConnTyped
<1>10. Coming' = Coming + 1
  BY <1>6 DEF Coming
<1>11. ExactMessages'
  <2> SUFFICES ASSUME NEW j \in DOMAIN given'
               PROVE  /\ j <= Len(stream)
                      /\ given'[j] = [start |-> Start(stream, j), size |-> MessageSize(stream[j])]
    BY <1>7 DEF ExactMessages
  <2>1. CASE j \in DOMAIN given
    BY <1>6, <2>1 DEF ConnInv, ExactMessages
  <2>2. CASE j = Coming
    BY <1>1, <1>3, <1>6, <2>2 DEF Coming, size
  <2>3. j \in DOMAIN given \/ j = Coming
    BY <1>6 DEF Coming
  <2> QED BY <2>1, <2>2, <2>3
<1>12. EvenFields'
  BY <1>1 DEF EvenFields
<1>13. Coming' <= Len(stream') + 1 /\ front' + taken' = Start(stream', Coming')
  BY <1>3, <1>4, <1>7, <1>8, <1>10
<1> QED BY <1>7, <1>9, <1>11, <1>12, <1>13 DEF ConnInv

(* The call returns when no whole message is left. *)
LEMMA ReturnsWithLess ==
  ASSUME ConnInv, ParseReturn
  PROVE  ConnInv'
<1>1. /\ ConnTyped /\ Coming <= Len(stream) + 1 /\ front + taken = Start(stream, Coming)
      /\ EvenFields /\ front \in Nat /\ buffered \in Nat /\ taken \in Nat /\ taken <= buffered
      /\ given \in Seq([start : Nat, size : Nat])
  BY DEF ConnInv, ConnTyped
<1>2. /\ front' = front + taken /\ buffered' = buffered - taken /\ taken' = 0 /\ parsing' = FALSE
      /\ UNCHANGED <<stream, given, gaveUp>>
  BY DEF ParseReturn
<1>3. ConnTyped' /\ Coming' = Coming /\ ExactMessages' /\ EvenFields'
  BY <1>1, <1>2 DEF ConnInv, ConnTyped, Coming, ExactMessages, EvenFields
<1>4. ASSUME Coming <= Len(stream)
      PROVE  front + taken + (buffered - taken) < Start(stream, Coming + 1)
  <2> DEFINE size == MessageSize(stream[Coming])
             left == buffered - taken
  <2>1. /\ size \in Nat /\ ExtendedHeader <= size
        /\ Start(stream, Coming) \in Nat
        /\ Start(stream, Coming + 1) = Start(stream, Coming) + size
    BY <1>1, <1>4, ComingFacts
  <2>2. /\ left >= ExtendedHeader => SizeOf(Coming) = size
        /\ SizeOf(Coming) = 0 \/ SizeOf(Coming) > left
    BY <1>4, CurrentFacts DEF ParseReturn
  <2>3. left \in Nat
    BY <1>1
  <2> HIDE DEF size, left
  <2>4. left < size
    BY <2>1, <2>2, <2>3 DEF ExtendedHeader
  <2> QED BY <1>1, <2>1, <2>3, <2>4 DEF left
<1>5. front' + taken' = Start(stream, Coming)
  BY <1>1, <1>2
<1> QED BY <1>1, <1>2, <1>3, <1>4, <1>5 DEF ConnInv

LEMMA ConnInvSound == ConnInv => ClientParserSound
<1> SUFFICES ASSUME ConnInv PROVE ClientParserSound
  OBVIOUS
<1>1. /\ ConnTyped /\ Coming <= Len(stream) + 1 /\ front + taken = Start(stream, Coming)
      /\ ExactMessages /\ front \in Nat /\ buffered \in Nat
  BY DEF ConnInv, ConnTyped
<1>2. /\ stream \in Seq(BusMessages) /\ \A m \in BusMessages : Sized(m)
      /\ Len(stream) \in Nat /\ Len(given) \in Nat /\ DOMAIN stream = 1..Len(stream)
  BY <1>1, ComingFacts
<1>3. ASSUME ~parsing, ~gaveUp
      PROVE  /\ front = Start(stream, Len(given) + 1)
             /\ \A i \in DOMAIN stream : Start(stream, i + 1) <= front + buffered => i <= Len(given)
  <2>1. taken = 0 /\ (Coming <= Len(stream) => front + buffered < Start(stream, Coming + 1))
    BY <1>3 DEF ConnInv
  <2>2. front = Start(stream, Len(given) + 1)
    BY <1>1, <2>1 DEF Coming
  <2>3. ASSUME NEW i \in DOMAIN stream, Start(stream, i + 1) <= front + buffered, ~(i <= Len(given))
        PROVE  FALSE
    <3>1. /\ Coming \in 1..Len(stream) /\ Coming \in 1..(Len(stream) + 1)
          /\ Coming + 1 \in 1..(Len(stream) + 1) /\ i + 1 \in 1..(Len(stream) + 1)
          /\ Coming < i + 1 /\ Coming <= Len(stream)
      BY <1>2, <2>3 DEF Coming
    <3>2. Start(stream, Coming + 1) <= Start(stream, i + 1)
      BY <1>2, <3>1, StartsApart
    <3>3. Start(stream, Coming + 1) \in Nat /\ Start(stream, i + 1) \in Nat
      BY <1>2, <3>1, StartUnfolds
    <3> QED BY <1>1, <2>1, <2>3, <3>1, <3>2, <3>3
  <2> QED BY <2>2, <2>3
<1> QED BY <1>1, <1>3 DEF ClientParserSound, AllTaken

(* adbus_conn_parse takes each message once and as a whole, however the stream is cut,
   when every header has an even number of words.  Without that it does not. *)
THEOREM ClientParsesStream == EvenFields /\ ConnSpec => []ClientParserSound
<1>1. ConnInv /\ [ConnNext]_connVars => ConnInv'
  <2> SUFFICES ASSUME ConnInv, [ConnNext]_connVars PROVE ConnInv'
    OBVIOUS
  <2>1. CASE ConnReceive
    <3>1. /\ ConnTyped /\ Coming <= Len(stream) + 1 /\ front + taken = Start(stream, Coming)
          /\ front \in Nat /\ buffered \in Nat /\ taken \in Nat /\ taken <= buffered
      BY DEF ConnInv, ConnTyped
    <3>2. WholeStream \in Nat
      <4>1. stream \in Seq(BusMessages) /\ (\A m \in BusMessages : Sized(m)) /\ Len(stream) \in Nat
        BY <3>1, ComingFacts
      <4> QED BY <4>1, StartUnfolds DEF WholeStream
    <3>3. buffered' \in Nat /\ taken <= buffered'
      BY <2>1, <3>1, <3>2 DEF ConnReceive
    <3>4. parsing' /\ UNCHANGED <<stream, front, taken, given, gaveUp>>
      BY <2>1 DEF ConnReceive
    <3> QED BY <3>1, <3>3, <3>4 DEF ConnInv, ConnTyped, Coming, ExactMessages, EvenFields
  <2>2. CASE ParseMessage
    BY <2>2, TakesMessage
  <2>3. CASE ParseFails
    BY <2>3 DEF ParseFails, ConnInv, ConnTyped, Coming, ExactMessages, EvenFields
  <2>4. CASE ParseReturn
    BY <2>4, ReturnsWithLess
  <2>5. CASE UNCHANGED connVars
    BY <2>5 DEF connVars, ConnInv, ConnTyped, Coming, ExactMessages, EvenFields
  <2> QED BY <2>1, <2>2, <2>3, <2>4, <2>5 DEF ConnNext
<1> QED BY <1>1, ConnInitially, ConnInvSound, PTL DEF ConnSpec

-----------------------------------------------------------------------------
(***************************************************************************)
(* The event loop of the bus (module EventLoop): the bus knows no remote   *)
(* that was freed, disconnects a client for a reason, and stops only after *)
(* a refusal or when a client has gone.                                    *)
(*                                                                         *)
(* An event of the batch speaks of a remote that is still there, and the   *)
(* list of those to disconnect has each remote once; both are needed since *)
(* remotes are freed behind the whole batch, in the order of that list.    *)
(***************************************************************************)

(* The types of the variables. *)
ConnRecord ==
  [life : {"away", "arriving", "open", "closing", "freed"}, hello : BOOLEAN, tx : Nat,
   input : Seq(Inputs), hup : BOOLEAN, room : BOOLEAN, edge : BOOLEAN]
Events ==
  [of : Clients \cup {"listener"}, in : BOOLEAN, hup : BOOLEAN, out : BOOLEAN]

LoopTypes ==
  /\ conns \in [Clients -> ConnRecord]
  /\ loop \in {"wait", "events", "disconnect", "aborted", "crashed"}
  /\ batch \subseteq Events /\ dlist \in Seq(Clients)

(* A batch has one event of a remote at most, and it was not freed in between; what is
   reported as closed is. *)
BatchSound ==
  /\ \A e, f \in batch : e.of = f.of => e = f
  /\ \A e \in batch : e.of \in Clients => conns[e.of].life \in {"open", "closing"}
  /\ \A e \in batch : e.of \in Clients /\ e.hup => conns[e.of].hup
  /\ batch # {} => loop = "events"

(* Each remote that Disconnect was called for is in the list once, and its event has been
   handled; it is left behind only when DoDisconnect has lost the list. *)
ListSound ==
  /\ Once(dlist)
  /\ \A c \in ToSet(dlist), e \in batch : e.of # c
  /\ loop = "wait" => dlist = <<>>
  /\ \A c \in Clients : conns[c].life = "closing" => c \in ToSet(dlist) \cup lost

LoopInv ==
  /\ LoopTypes /\ RemotesAlive /\ StopNeedsCause /\ GoneForAReason
  /\ ~Stopped => BatchSound /\ ListSound

-----------------------------------------------------------------------------

(* Who is alive, heard of, and listed stays the same. *)
LEMMA SameAlive ==
  ASSUME LoopInv, UNCHANGED <<batch, dlist, lost, failed, filled, last, loop>>,
         conns' \in [Clients -> ConnRecord],
         \A c \in Clients :
           /\ conns'[c].hello = conns[c].hello
           /\ conns[c].hup => conns'[c].hup
           /\ \/ conns'[c].life = conns[c].life
              \/ conns[c].life = "away" /\ conns'[c].life = "arriving"
  PROVE  LoopInv'
<1>1. LoopTypes' /\ (Stopped' <=> Stopped)
  BY DEF LoopInv, LoopTypes, Stopped
<1>2. RemotesAlive' /\ GoneForAReason'
  BY <1>1 DEF LoopInv, RemotesAlive, GoneForAReason
<1>5. StopNeedsCause'
  BY DEF LoopInv, StopNeedsCause
<1>3. ASSUME ~Stopped PROVE BatchSound'
  BY <1>3 DEF LoopInv, BatchSound
<1>4. ASSUME ~Stopped PROVE ListSound'
  BY <1>4 DEF LoopInv, ListSound
<1> QED BY <1>1, <1>2, <1>3, <1>4, <1>5 DEF LoopInv

LEMMA ClientsKeep ==
  ASSUME LoopInv, NEW c \in Clients,
         ClientConnects(c) \/ ClientCloses(c) \/ ClientReads(c)
           \/ (\E x \in Inputs : ClientSends(c, x))
  PROVE  LoopInv'
<1>1. conns \in [Clients -> ConnRecord] /\ conns[c] \in ConnRecord
  BY DEF LoopInv, LoopTypes
<1>2. UNCHANGED <<batch, dlist, lost, failed, filled, last, loop>>
  BY DEF ClientConnects, ClientCloses, ClientReads, ClientSends
<1>3. \E r \in ConnRecord :
        /\ conns' = [conns EXCEPT ![c] = r] /\ r.hello = conns[c].hello
        /\ conns[c].hup => r.hup
        /\ r.life = conns[c].life \/ (conns[c].life = "away" /\ r.life = "arriving")
  <2>1. CASE ClientConnects(c)
    <3> DEFINE r == [conns[c] EXCEPT !.life = "arriving"]
    <3>1. /\ r \in ConnRecord /\ r.hello = conns[c].hello /\ r.life = "arriving"
          /\ r.hup = conns[c].hup
          /\ conns[c].life = "away" /\ conns' = [conns EXCEPT ![c] = r]
      BY <1>1, <2>1 DEF ClientConnects, ConnRecord
    <3> QED BY <3>1
  <2>2. CASE ClientCloses(c)
    <3> DEFINE r == [conns[c] EXCEPT !.hup = TRUE, !.edge = TRUE]
    <3>1. /\ r \in ConnRecord /\ r.hello = conns[c].hello /\ r.life = conns[c].life /\ r.hup
          /\ conns' = [conns EXCEPT ![c] = r]
      BY <1>1, <2>2 DEF ClientCloses, ConnRecord
    <3> QED BY <3>1
  <2>3. CASE ClientReads(c)
    <3> DEFINE r == [conns[c] EXCEPT !.room = TRUE, !.edge = TRUE]
    <3>1. /\ r \in ConnRecord /\ r.hello = conns[c].hello /\ r.life = conns[c].life
          /\ r.hup = conns[c].hup
          /\ conns' = [conns EXCEPT ![c] = r]
      BY <1>1, <2>3 DEF ClientReads, ConnRecord
    <3> QED BY <3>1
  <2>4. ASSUME NEW x \in Inputs, ClientSends(c, x)
        PROVE  \E r \in ConnRecord :
                 /\ conns' = [conns EXCEPT ![c] = r] /\ r.hello = conns[c].hello
                 /\ r.life = conns[c].life /\ r.hup = conns[c].hup
    <3> DEFINE r == [conns[c] EXCEPT !.input = Append(@, x), !.edge = TRUE]
    <3>1. Append(conns[c].input, x) \in Seq(Inputs)
      BY <1>1 DEF ConnRecord
    <3>2. /\ r \in ConnRecord /\ r.hello = conns[c].hello /\ r.life = conns[c].life
          /\ r.hup = conns[c].hup
      BY <1>1, <3>1 DEF ConnRecord
    <3>3. conns' = [conns EXCEPT ![c] = r]
      BY <1>1, <2>4 DEF ClientSends
    <3> QED BY <3>2, <3>3
  <2> QED BY <2>1, <2>2, <2>3, <2>4
<1>4. /\ conns' \in [Clients -> ConnRecord]
      /\ \A d \in Clients :
           /\ conns'[d].hello = conns[d].hello
           /\ conns[d].hup => conns'[d].hup
           /\ \/ conns'[d].life = conns[d].life
              \/ conns[d].life = "away" /\ conns'[d].life = "arriving"
  BY <1>1, <1>3
<1> QED BY <1>2, <1>4, SameAlive

LEMMA WaitKeeps == LoopInv /\ Wait => LoopInv'
<1> SUFFICES ASSUME LoopInv, Wait PROVE LoopInv'
  OBVIOUS
<1> DEFINE ready == {c \in Clients : conns[c].life \in {"open", "closing"} /\ conns[c].edge}
           listener == [of |-> "listener", in |-> TRUE, hup |-> FALSE, out |-> FALSE]
           event(c) == [of |-> c, in |-> conns[c].input # <<>> \/ conns[c].hup,
                        hup |-> conns[c].hup, out |-> conns[c].room]
<1>1. /\ loop = "wait" /\ loop' = "events" /\ UNCHANGED <<dlist, failed, filled, lost, last>>
      /\ conns' = [c \in Clients |-> [conns[c] EXCEPT !.edge = @ /\ c \notin ready]]
      /\ batch' \subseteq {event(c) : c \in ready} \cup {listener}
  BY DEF Wait
<1>2. ~Stopped /\ ~Stopped' /\ BatchSound /\ ListSound
  BY <1>1 DEF Stopped, LoopInv
<1>3. /\ conns' \in [Clients -> ConnRecord]
      /\ \A c \in Clients : /\ conns'[c].life = conns[c].life /\ conns'[c].hello = conns[c].hello
                            /\ conns'[c].hup = conns[c].hup
  BY <1>1, ZenonT(30) DEF LoopInv, LoopTypes, ConnRecord
<1>4. batch' \subseteq Events
  <2>1. \A c \in ready : event(c) \in Events
    BY DEF LoopInv, LoopTypes, ConnRecord, Events
  <2>2. listener \in Events
    BY DEF Events
  <2> QED BY <1>1, <2>1, <2>2
<1>5. \A e \in batch' : e = listener \/ (e.of \in ready /\ e = event(e.of))
  BY <1>1
<1>6. listener.of = "listener" /\ "listener" \notin ready
  BY EventLoopAssumption
<1>7. BatchSound'
  <2>1. \A e, f \in batch' : e.of = f.of => e = f
    <3> HIDE DEF listener, event, ready
    <3> QED BY <1>5, <1>6
  <2>2. \A e \in batch' : e.of \in Clients => conns'[e.of].life \in {"open", "closing"}
    <3>1. \A c \in ready : c \in Clients /\ conns[c].life \in {"open", "closing"}
      OBVIOUS
    <3> HIDE DEF listener, event, ready
    <3> QED BY <1>3, <1>5, <1>6, <3>1, EventLoopAssumption
  <2>3. \A e \in batch' : e.of \in Clients /\ e.hup => conns'[e.of].hup
    <3>1. \A c \in ready : c \in Clients /\ event(c).hup = conns[c].hup
      OBVIOUS
    <3> HIDE DEF listener, event, ready
    <3> QED BY <1>3, <1>5, <1>6, <3>1, EventLoopAssumption
  <2> QED BY <1>1, <2>1, <2>2, <2>3 DEF BatchSound
<1>8. ListSound'
  <2>1. dlist = <<>>
    BY <1>1, <1>2 DEF ListSound
  <2>2. ToSet(dlist) = {}
    BY <2>1 DEF ToSet
  <2> QED BY <1>1, <1>2, <1>3, <2>1, <2>2 DEF ListSound
<1>9. LoopTypes' /\ RemotesAlive' /\ GoneForAReason'
  BY <1>1, <1>2, <1>3, <1>4 DEF LoopInv, LoopTypes, RemotesAlive, GoneForAReason, Stopped
<1>10. StopNeedsCause'
  BY <1>1, <1>3 DEF LoopInv, StopNeedsCause
<1> QED BY <1>7, <1>8, <1>9, <1>10 DEF LoopInv

LEMMA ListenKeeps == LoopInv /\ Listen => LoopInv'
<1> SUFFICES ASSUME LoopInv, Listen PROVE LoopInv'
  OBVIOUS
<1>1. /\ loop = "events" /\ UNCHANGED <<loop, dlist, failed, filled, lost>> /\ batch' \subseteq batch
      /\ conns' = [c \in Clients |-> IF conns[c].life = "arriving"
                     THEN [conns[c] EXCEPT !.life = "open", !.edge = TRUE] ELSE conns[c]]
  BY DEF Listen, ServerRecv
<1>2. ~Stopped /\ ~Stopped' /\ BatchSound /\ ListSound
  BY <1>1 DEF Stopped, LoopInv
<1>3. /\ conns' \in [Clients -> ConnRecord]
      /\ \A c \in Clients :
           /\ conns'[c].hello = conns[c].hello /\ conns'[c].hup = conns[c].hup
           /\ conns'[c].life = IF conns[c].life = "arriving" THEN "open" ELSE conns[c].life
  BY <1>1, ZenonT(30) DEF LoopInv, LoopTypes, ConnRecord
<1>4. BatchSound'
  <2>1. \A e \in batch' : e.of \in Clients => conns'[e.of].life \in {"open", "closing"}
    BY <1>1, <1>2, <1>3 DEF BatchSound
  <2>2. \A e \in batch' : e.of \in Clients /\ e.hup => conns'[e.of].hup
    BY <1>1, <1>2, <1>3 DEF BatchSound
  <2> QED BY <1>1, <1>2, <2>1, <2>2 DEF BatchSound
<1>5. ListSound'
  <2>1. \A c \in Clients : conns'[c].life = "closing" => conns[c].life = "closing"
    BY <1>3
  <2> QED BY <1>1, <1>2, <2>1 DEF ListSound
<1>6. LoopTypes' /\ RemotesAlive'
  BY <1>1, <1>2, <1>3 DEF LoopInv, LoopTypes, RemotesAlive, Stopped
<1>8. GoneForAReason'
  <2>1. \A c \in Clients : conns'[c].life \in {"closing", "freed"} =>
          conns[c].life \in {"closing", "freed"}
    BY <1>3
  <2> QED BY <1>1, <1>3, <2>1 DEF LoopInv, GoneForAReason
<1>7. StopNeedsCause'
  BY <1>1, <1>3 DEF LoopInv, StopNeedsCause
<1> QED BY <1>4, <1>5, <1>6, <1>7, <1>8 DEF LoopInv

LEMMA TurnsKeep == LoopInv /\ (EndOfBatch \/ Again) => LoopInv'
<1> SUFFICES ASSUME LoopInv, EndOfBatch \/ Again PROVE LoopInv'
  OBVIOUS
<1>1. /\ UNCHANGED <<conns, batch, dlist, failed, filled, lost, last>>
      /\ \/ loop = "events" /\ loop' = "disconnect" /\ batch = {}
         \/ loop = "disconnect" /\ loop' = "wait" /\ dlist = <<>>
  BY DEF EndOfBatch, Again
<1>2. ~Stopped /\ ~Stopped' /\ BatchSound /\ ListSound
  BY <1>1 DEF Stopped, LoopInv
<1>3. BatchSound'
  BY <1>1, <1>2 DEF BatchSound
<1>4. ListSound'
  BY <1>1, <1>2 DEF ListSound
<1>5. LoopTypes' /\ RemotesAlive' /\ StopNeedsCause' /\ GoneForAReason'
  BY <1>1, <1>2 DEF LoopInv, LoopTypes, RemotesAlive, StopNeedsCause, GoneForAReason, Stopped
<1> QED BY <1>3, <1>4, <1>5 DEF LoopInv

(* What one event does to its remote, with the calls of Disconnect that it takes. *)
LEMMA HandledKeeps ==
  ASSUME LoopInv, loop = "events", NEW e \in batch, e.of \in Clients,
         NEW cs \in [Clients -> ConnRecord], NEW calls \in 0..2, Handled(e, cs, calls),
         \A d \in Clients : d # e.of =>
           cs[d].life = conns[d].life /\ cs[d].hello = conns[d].hello,
         \A d \in Clients : cs[d].hup = conns[d].hup,
         cs[e.of].life \in {"open", "closing"},
         conns[e.of].life = "closing" => cs[e.of].life = "closing",
         conns[e.of].life = "open" => (cs[e.of].life = "closing" <=> calls > 0),
         failed \subseteq failed', filled \subseteq filled', calls > 1 => e.of \in failed',
         calls > 0 => e.hup \/ e.of \in failed' \cup filled'
  PROVE  LoopInv'
<1> DEFINE c == e.of
<1>1. /\ batch' = batch \ {e} /\ last' = c /\ conns' = cs /\ lost' = lost
      /\ dlist' = IF calls > 0 THEN <<c>> \o dlist ELSE dlist
      /\ loop' = IF calls > 1 \/ (calls > 0 /\ conns[c].life = "closing") THEN "aborted" ELSE loop
  BY DEF Handled
<1>2. /\ ~Stopped /\ BatchSound /\ ListSound /\ RemotesAlive /\ dlist \in Seq(Clients)
      /\ batch \subseteq Events
  BY DEF Stopped, LoopInv, LoopTypes
<1>3. conns[c].life \in {"open", "closing"} /\ c \notin ToSet(dlist)
  BY <1>2 DEF BatchSound, ListSound
<1>4. /\ dlist' \in Seq(Clients) /\ Once(dlist')
      /\ ToSet(dlist') = IF calls > 0 THEN ToSet(dlist) \cup {c} ELSE ToSet(dlist)
  <2>1. Once(dlist)
    BY <1>2 DEF ListSound
  <2> HIDE DEF c
  <2>2. CASE calls > 0
    <3>1. dlist' = <<c>> \o dlist /\ c \in Clients
      BY <1>1, <2>2 DEF c
    <3> QED BY <1>2, <1>3, <2>1, <2>2, <3>1, ConsFacts
  <2>3. CASE ~(calls > 0)
    BY <1>1, <1>2, <2>1, <2>3
  <2> QED BY <2>2, <2>3
<1>5. LoopTypes'
  BY <1>1, <1>2, <1>4 DEF LoopTypes
<1>6. \A d \in Clients : d # c => conns'[d].life = conns[d].life /\ conns'[d].hello = conns[d].hello
  BY <1>1
<1>7. RemotesAlive'
  <2>1. \A d \in Clients : conns'[d].hello => conns'[d].life \in {"open", "closing"}
    BY <1>1, <1>2, <1>6 DEF RemotesAlive
  <2>2. ASSUME NEW d \in Clients, d \in ToSet(dlist'), ~Stopped'
        PROVE  conns'[d].life = "closing"
    <3>1. CASE d = c
      BY <1>1, <1>3, <1>4, <2>2, <3>1
    <3>2. CASE d # c
      BY <1>2, <1>4, <1>6, <2>2, <3>2 DEF RemotesAlive
    <3> QED BY <3>1, <3>2
  <2> QED BY <2>1, <2>2 DEF RemotesAlive
<1>8. StopNeedsCause'
  <2>1. ASSUME loop' = "aborted" PROVE c \in failed' \cup lost
    <3>1. calls > 1 \/ conns[c].life = "closing"
      BY <1>1, <2>1
    <3> QED BY <1>2, <1>3, <3>1 DEF ListSound
  <2>2. ASSUME loop' = "crashed" \/ lost' # {} PROVE \E d \in Clients : conns'[d].life = "freed"
    <3>1. lost # {}
      BY <1>1, <2>2
    <3>2. PICK d \in Clients : conns[d].life = "freed"
      BY <3>1 DEF LoopInv, StopNeedsCause
    <3> QED BY <1>3, <1>6, <3>2
  <2> QED BY <1>1, <2>1, <2>2 DEF StopNeedsCause
<1>9. ASSUME ~Stopped' PROVE BatchSound'
  <2>1. \A f \in batch' : f \in batch /\ f.of # c
    BY <1>1, <1>2 DEF BatchSound
  <2>2. loop' = "events"
    BY <1>1, <1>9 DEF Stopped
  <2>3. \A f \in batch' : f.of \in Clients => conns'[f.of].life \in {"open", "closing"}
    BY <1>2, <1>6, <2>1 DEF BatchSound
  <2>4. \A f, g \in batch' : f.of = g.of => f = g
    BY <1>2, <2>1 DEF BatchSound
  <2>5. \A f \in batch' : f.of \in Clients /\ f.hup => conns'[f.of].hup
    BY <1>1, <1>2, <2>1 DEF BatchSound
  <2> QED BY <2>2, <2>3, <2>4, <2>5 DEF BatchSound
<1>10. ASSUME ~Stopped' PROVE ListSound'
  <2>1. \A f \in batch' : f \in batch /\ f.of # c
    BY <1>1, <1>2 DEF BatchSound
  <2>2. \A d \in ToSet(dlist'), f \in batch' : f.of # d
    BY <1>2, <1>4, <2>1 DEF ListSound
  <2>3. loop' = "events"
    BY <1>1, <1>10 DEF Stopped
  <2>4. ASSUME NEW d \in Clients, conns'[d].life = "closing"
        PROVE  d \in ToSet(dlist') \cup lost'
    <3>1. CASE conns[d].life = "closing"
      BY <1>1, <1>2, <1>4, <3>1 DEF ListSound
    <3>2. CASE conns[d].life # "closing"
      <4>1. d = c /\ calls > 0
        BY <1>1, <1>3, <1>6, <2>4, <3>2
      <4> QED BY <1>4, <4>1
    <3> QED BY <3>1, <3>2
  <2> QED BY <1>4, <2>2, <2>3, <2>4 DEF ListSound
<1>11. GoneForAReason'
  <2>1. SUFFICES ASSUME NEW d \in Clients, conns'[d].life \in {"closing", "freed"}
                 PROVE  conns'[d].hup \/ d \in failed' \cup filled'
    BY DEF GoneForAReason
  <2>2. conns'[d].hup = conns[d].hup
    BY <1>1
  <2>3. CASE conns[d].life \in {"closing", "freed"}
    BY <2>2, <2>3 DEF LoopInv, GoneForAReason
  <2>4. CASE conns[d].life \notin {"closing", "freed"}
    <3>1. d = c /\ calls > 0
      BY <1>1, <1>3, <1>6, <2>1, <2>4
    <3> QED BY <1>2, <2>2, <3>1 DEF BatchSound
  <2> QED BY <2>3, <2>4
<1> QED BY <1>5, <1>7, <1>8, <1>9, <1>10, <1>11 DEF LoopInv

(* SendMsg changes only the buffers of outgoing messages. *)
LEMMA SendMsgFacts ==
  ASSUME NEW cs \in [Clients -> ConnRecord], NEW from, NEW n \in Nat
  PROVE  /\ SendMsg(cs, from, n) \in [Clients -> ConnRecord]
         /\ \A d \in Clients : /\ SendMsg(cs, from, n)[d].life = cs[d].life
                               /\ SendMsg(cs, from, n)[d].hello = cs[d].hello
                               /\ SendMsg(cs, from, n)[d].hup = cs[d].hup
<1>1. ASSUME NEW d \in Clients
      PROVE  /\ SendMsg(cs, from, n)[d] \in ConnRecord
             /\ SendMsg(cs, from, n)[d].life = cs[d].life
             /\ SendMsg(cs, from, n)[d].hello = cs[d].hello
             /\ SendMsg(cs, from, n)[d].hup = cs[d].hup
  <2>1. cs[d] \in ConnRecord /\ cs[d].tx + n \in Nat
    BY DEF ConnRecord
  <2>2. /\ [cs[d] EXCEPT !.tx = @ + n] \in ConnRecord
        /\ [cs[d] EXCEPT !.tx = @ + n].life = cs[d].life
        /\ [cs[d] EXCEPT !.tx = @ + n].hello = cs[d].hello
        /\ [cs[d] EXCEPT !.tx = @ + n].hup = cs[d].hup
    BY <2>1 DEF ConnRecord
  <2> QED BY <2>1, <2>2 DEF SendMsg
<1>2. SendMsg(cs, from, n) = [d \in Clients |-> SendMsg(cs, from, n)[d]]
  BY DEF SendMsg
<1> QED BY <1>1, <1>2

(* Disconnect changes the life of one remote. *)
LEMMA DisconnectedFacts ==
  ASSUME NEW cs \in [Clients -> ConnRecord], NEW c \in Clients
  PROVE  /\ Disconnected(cs, c) \in [Clients -> ConnRecord]
         /\ Disconnected(cs, c)[c].life = "closing" /\ Disconnected(cs, c)[c].hup = cs[c].hup
         /\ \A d \in Clients : d # c => Disconnected(cs, c)[d] = cs[d]
<1>1. [cs[c] EXCEPT !.life = "closing"] \in ConnRecord
  BY DEF ConnRecord
<1> QED BY <1>1 DEF Disconnected, ConnRecord

(* RemoteRecv touches the life and the bus remote of nobody else, and frees nothing. *)
LEMMA LoopRecvFacts ==
  ASSUME NEW cs \in [Clients -> ConnRecord], NEW c \in Clients, NEW exact \in BOOLEAN,
         cs[c].life \in {"open", "closing"}
  PROVE  /\ LoopRecv(cs, c, exact) \in [Clients -> ConnRecord]
         /\ LoopRecv(cs, c, exact)[c].life \in {"open", "closing"}
         /\ cs[c].life = "closing" => LoopRecv(cs, c, exact)[c].life = "closing"
         /\ \A d \in Clients : d # c =>
              /\ LoopRecv(cs, c, exact)[d].life = cs[d].life
              /\ LoopRecv(cs, c, exact)[d].hello = cs[d].hello
         /\ \A d \in Clients : LoopRecv(cs, c, exact)[d].hup = cs[d].hup
<1> DEFINE r == cs[c]
           read == [cs EXCEPT ![c].input = <<>>]
           refused == {i \in DOMAIN r.input : r.input[i] # Awaited(r, i)}
           accepted == IF refused = {} THEN Len(r.input) ELSE Min(refused) - 1
           heard == [read EXCEPT ![c].hello = @ \/ accepted > 0]
           n == IF r.hello \/ accepted = 0 THEN accepted ELSE accepted - 1
           told == SendMsg(heard, c, n)
<1>1. LoopRecv(cs, c, exact) =
        IF r.life = "closing" THEN cs
        ELSE IF Filled(r, exact) THEN Disconnected(read, c)
        ELSE IF refused # {} THEN Disconnected(told, c)
        ELSE told
  BY DEF LoopRecv
<1>2. r \in ConnRecord /\ r.input \in Seq(Inputs)
  BY DEF ConnRecord
<1>3. accepted \in Nat
  <2>1. CASE refused = {}
    BY <1>2, <2>1
  <2>2. CASE refused # {}
    <3>1. refused \subseteq Nat \ {0}
      BY <1>2
    <3>2. \E k \in refused : \A i \in refused : k <= i
      <4>1. refused \in SUBSET Nat
        BY <3>1
      <4> HIDE DEF refused
      <4> QED BY <2>2, <4>1, LeastNumber
    <3>3. Min(refused) \in refused
      <4> HIDE DEF refused
      <4> QED BY <3>2 DEF Min
    <3>4. Min(refused) \in Nat \ {0}
      BY <3>1, <3>3
    <3>5. accepted = Min(refused) - 1
      BY <2>2
    <3> HIDE DEF accepted, refused
    <3> QED BY <3>4, <3>5
  <2> QED BY <2>1, <2>2
<1> HIDE DEF accepted, refused
<1>4. /\ read \in [Clients -> ConnRecord] /\ read[c].life = r.life /\ read[c].hup = r.hup
      /\ \A d \in Clients : d # c => read[d] = cs[d]
  <2>1. <<>> \in Seq(Inputs)
    OBVIOUS
  <2> QED BY <2>1 DEF ConnRecord
<1> HIDE DEF read
<1>5. /\ heard \in [Clients -> ConnRecord] /\ heard[c].life = r.life /\ heard[c].hup = r.hup
      /\ \A d \in Clients : d # c => heard[d] = cs[d]
  <2> DEFINE b == read[c].hello \/ accepted > 0
             h == [read[c] EXCEPT !.hello = b]
  <2>1. b \in BOOLEAN /\ heard = [read EXCEPT ![c] = h]
    OBVIOUS
  <2> HIDE DEF b
  <2>2. h \in ConnRecord /\ h.life = read[c].life /\ h.hup = read[c].hup
    <3> DEFINE x == read[c]
    <3>1. x \in ConnRecord
      BY <1>4
    <3> HIDE DEF x
    <3>2. /\ [x EXCEPT !.hello = b] \in ConnRecord /\ [x EXCEPT !.hello = b].life = x.life
          /\ [x EXCEPT !.hello = b].hup = x.hup
      BY <2>1, <3>1 DEF ConnRecord
    <3> QED BY <3>2 DEF x
  <2> HIDE DEF h, heard
  <2> QED BY <1>4, <2>1, <2>2
<1>6. n \in Nat
  BY <1>3
<1> HIDE DEF heard, n
<1>7. /\ told \in [Clients -> ConnRecord]
      /\ \A d \in Clients : /\ told[d].life = heard[d].life /\ told[d].hello = heard[d].hello
                            /\ told[d].hup = heard[d].hup
  BY <1>5, <1>6, SendMsgFacts
<1> HIDE DEF told
<1>8. CASE LoopRecv(cs, c, exact) = cs /\ r.life = "closing"
  BY <1>8
<1>9. CASE LoopRecv(cs, c, exact) = Disconnected(read, c)
  BY <1>4, <1>9, DisconnectedFacts
<1>10. CASE LoopRecv(cs, c, exact) = Disconnected(told, c)
  <2>1. /\ Disconnected(told, c) \in [Clients -> ConnRecord]
        /\ Disconnected(told, c)[c].life = "closing" /\ Disconnected(told, c)[c].hup = told[c].hup
        /\ \A d \in Clients : d # c => Disconnected(told, c)[d] = told[d]
    BY <1>7, DisconnectedFacts
  <2> QED BY <1>5, <1>7, <1>10, <2>1
<1>11. CASE LoopRecv(cs, c, exact) = told /\ r.life # "closing"
  BY <1>5, <1>7, <1>11
<1> QED BY <1>1, <1>8, <1>9, <1>10, <1>11

(* RemoteSend changes the buffer and the room of one remote. *)
LEMMA RemoteSendFacts ==
  ASSUME NEW cs \in [Clients -> ConnRecord], NEW c \in Clients, NEW n \in Nat
  PROVE  /\ RemoteSend(cs, c, n) \in [Clients -> ConnRecord]
         /\ \A d \in Clients : /\ RemoteSend(cs, c, n)[d].life = cs[d].life
                               /\ RemoteSend(cs, c, n)[d].hello = cs[d].hello
                               /\ RemoteSend(cs, c, n)[d].hup = cs[d].hup
<1> DEFINE some == [cs[c] EXCEPT !.tx = @ - n, !.room = FALSE]
           all == [cs[c] EXCEPT !.tx = 0]
<1>1. cs[c] \in ConnRecord /\ cs[c].tx \in Nat
  BY DEF ConnRecord
<1>2. CASE RemoteSend(cs, c, n) = cs
  BY <1>2
<1>3. CASE RemoteSend(cs, c, n) = [cs EXCEPT ![c] = all]
  <2>1. all \in ConnRecord /\ all.life = cs[c].life /\ all.hello = cs[c].hello /\ all.hup = cs[c].hup
    BY <1>1 DEF ConnRecord
  <2> HIDE DEF all
  <2> QED BY <1>3, <2>1
<1>4. CASE RemoteSend(cs, c, n) = [cs EXCEPT ![c] = some] /\ n < cs[c].tx
  <2>1. cs[c].tx - n \in Nat
    BY <1>1, <1>4
  <2>2. some \in ConnRecord /\ some.life = cs[c].life /\ some.hello = cs[c].hello /\ some.hup = cs[c].hup
    BY <1>1, <2>1 DEF ConnRecord
  <2> HIDE DEF some
  <2> QED BY <1>4, <2>2
<1>5. n >= cs[c].tx \/ n < cs[c].tx
  BY <1>1
<1>6. /\ [cs EXCEPT ![c].tx = 0] = [cs EXCEPT ![c] = all]
      /\ [cs EXCEPT ![c].tx = @ - n, ![c].room = FALSE] = [cs EXCEPT ![c] = some]
  BY <1>1
<1> HIDE DEF all, some
<1> QED BY <1>2, <1>3, <1>4, <1>5, <1>6 DEF RemoteSend

LEMMA HandleEventKeeps ==
  ASSUME LoopInv, loop = "events", NEW e \in batch, e.of \in Clients,
         NEW exact \in BOOLEAN, NEW n \in Nat, HandleEvent(e, exact, n)
  PROVE  LoopInv'
<1> DEFINE c == e.of
           read == IF e.in THEN LoopRecv(conns, c, exact) ELSE conns
           fails == conns[c].life = "open" /\ read[c].life = "closing"
           number == (IF fails THEN 1 ELSE 0) + (IF e.hup THEN 1 ELSE 0)
           done == IF e.out THEN RemoteSend(read, c, n) ELSE read
           full == Filled(conns[c], exact)
<1>1. /\ failed' = IF fails /\ ~full THEN failed \cup {c} ELSE failed
      /\ filled' = IF fails /\ full THEN filled \cup {c} ELSE filled
      /\ IF e.hup THEN Handled(e, Disconnected(read, c), number) ELSE Handled(e, done, number)
  BY DEF HandleEvent
<1>2. /\ conns \in [Clients -> ConnRecord] /\ conns[c].life \in {"open", "closing"}
      /\ e.hup => conns[c].hup
  BY DEF LoopInv, LoopTypes, BatchSound, Stopped
<1>3. /\ read \in [Clients -> ConnRecord] /\ read[c].life \in {"open", "closing"}
      /\ conns[c].life = "closing" => read[c].life = "closing"
      /\ \A d \in Clients : d # c =>
           read[d].life = conns[d].life /\ read[d].hello = conns[d].hello
      /\ \A d \in Clients : read[d].hup = conns[d].hup
  BY <1>2, LoopRecvFacts
<1>4. /\ number \in 0..2 /\ failed \subseteq failed' /\ filled \subseteq filled'
      /\ number > 1 => c \in failed'
      /\ number > 0 => e.hup \/ c \in failed' \cup filled'
      /\ e.hup => number > 0
      /\ ~e.hup => (number > 0 <=> fails)
  <2>1. e.hup => ~full
    BY <1>2 DEF Filled
  <2> HIDE DEF full, read
  <2> QED BY <1>1, <2>1
<1> HIDE DEF read, number
<1>5. CASE e.hup
  <2> DEFINE cs == Disconnected(read, c)
  <2>1. /\ cs \in [Clients -> ConnRecord] /\ cs[c].life = "closing"
        /\ \A d \in Clients : d # c => cs[d].life = conns[d].life /\ cs[d].hello = conns[d].hello
        /\ \A d \in Clients : cs[d].hup = conns[d].hup
    BY <1>3, DisconnectedFacts
  <2>2. Handled(e, cs, number)
    BY <1>1, <1>5
  <2> HIDE DEF cs
  <2> QED BY <1>4, <1>5, <2>1, <2>2, HandledKeeps
<1>6. CASE ~e.hup
  <2>1. /\ done \in [Clients -> ConnRecord] /\ done[c].life = read[c].life
        /\ \A d \in Clients : d # c => done[d].life = conns[d].life /\ done[d].hello = conns[d].hello
        /\ \A d \in Clients : done[d].hup = conns[d].hup
    <3>1. CASE e.out
      BY <1>3, <3>1, RemoteSendFacts
    <3>2. CASE ~e.out
      BY <1>3, <3>2
    <3> QED BY <3>1, <3>2
  <2>2. Handled(e, done, number)
    BY <1>1, <1>6
  <2> HIDE DEF done
  <2> QED BY <1>3, <1>4, <1>6, <2>1, <2>2, HandledKeeps
<1> QED BY <1>5, <1>6

LEMMA EventKeeps ==
  ASSUME LoopInv, NEW e \in batch, EventOf(e)
  PROVE  LoopInv'
<1>1. loop = "events" /\ e.of \in Clients
  BY DEF EventOf
<1>2. CASE HandleError(e) \/ SendFails(e)
  <2> DEFINE cs == Disconnected(conns, e.of)
  <2>1. conns \in [Clients -> ConnRecord]
    BY DEF LoopInv, LoopTypes
  <2>2. /\ cs \in [Clients -> ConnRecord] /\ cs[e.of].life = "closing"
        /\ \A d \in Clients : d # e.of => cs[d] = conns[d]
        /\ cs[e.of].hup = conns[e.of].hup
    BY <1>1, <2>1, DisconnectedFacts
  <2>3. /\ Handled(e, cs, 1) /\ failed \subseteq failed' /\ filled' = filled
        /\ e.hup \/ e.of \in failed'
    BY <1>2 DEF HandleError, SendFails
  <2> HIDE DEF cs
  <2> QED BY <1>1, <2>2, <2>3, HandledKeeps
<1>3. ASSUME NEW exact \in BOOLEAN, NEW n \in 1..MaxTx, HandleEvent(e, exact, n)
      PROVE  LoopInv'
  <2>1. n \in Nat
    BY EventLoopAssumption
  <2> QED BY <1>1, <1>3, <2>1, HandleEventKeeps
<1> QED BY <1>2, <1>3 DEF EventOf

LEMMA DoDisconnectKeeps ==
  ASSUME LoopInv, NEW next \in {"kept", "null", "junk"}, DoDisconnect(next)
  PROVE  LoopInv'
<1> DEFINE c == Head(dlist)
           gone == [conns EXCEPT ![c].life = "freed", ![c].hello = FALSE, ![c].tx = 0]
<1>1. /\ loop = "disconnect" /\ dlist # <<>> /\ conns' = CloseRemote(conns, c)
      /\ dlist' = IF next = "null" THEN <<>> ELSE Tail(dlist)
      /\ lost' = IF next = "null" THEN lost \cup ToSet(Tail(dlist)) ELSE lost
      /\ loop' = IF next = "junk" THEN "crashed" ELSE "disconnect"
      /\ UNCHANGED <<batch, failed, filled, last>>
  BY DEF DoDisconnect
<1>2. ~Stopped /\ BatchSound /\ ListSound /\ RemotesAlive /\ dlist \in Seq(Clients)
  BY <1>1 DEF Stopped, LoopInv, LoopTypes
<1>3. /\ c \in Clients /\ Tail(dlist) \in Seq(Clients) /\ Once(Tail(dlist))
      /\ c \notin ToSet(Tail(dlist)) /\ ToSet(Tail(dlist)) \subseteq ToSet(dlist)
      /\ ToSet(dlist) \subseteq ToSet(Tail(dlist)) \cup {c}
  BY <1>1, <1>2, TailFacts DEF ListSound
<1>4. /\ gone \in [Clients -> ConnRecord] /\ gone[c].life = "freed" /\ ~gone[c].hello
      /\ gone[c].hup = conns[c].hup
      /\ \A d \in Clients : d # c => gone[d] = conns[d]
  <2>1. conns \in [Clients -> ConnRecord]
    BY DEF LoopInv, LoopTypes
  <2> HIDE DEF c
  <2> QED BY <1>3, <2>1, ZenonT(30) DEF ConnRecord
<1>5. /\ conns' \in [Clients -> ConnRecord]
      /\ conns'[c].life = "freed" /\ ~conns'[c].hello
      /\ \A d \in Clients : d # c => conns'[d].life = conns[d].life /\ conns'[d].hello = conns[d].hello
      /\ \A d \in Clients : conns'[d].hup = conns[d].hup
  <2>1. conns' = SendMsg(gone, c, 1) \/ conns' = gone
    BY <1>1 DEF CloseRemote
  <2> HIDE DEF gone, c
  <2>2. CASE conns' = gone
    BY <1>3, <1>4, <2>2
  <2>3. CASE conns' = SendMsg(gone, c, 1)
    BY <1>3, <1>4, <2>3, SendMsgFacts
  <2> QED BY <2>1, <2>2, <2>3
<1> HIDE DEF c, gone
<1>6. batch = {}
  BY <1>1, <1>2 DEF BatchSound
<1>7. /\ dlist' \in Seq(Clients) /\ Once(dlist')
      /\ ToSet(dlist') \subseteq ToSet(Tail(dlist))
      /\ ToSet(Tail(dlist)) \subseteq ToSet(dlist') \cup lost' /\ lost \subseteq lost'
  <2>1. CASE next = "null"
    <3>1. dlist' = <<>> /\ lost' = lost \cup ToSet(Tail(dlist))
      BY <1>1, <2>1
    <3> QED BY <3>1 DEF ToSet, Once
  <2>2. CASE next # "null"
    BY <1>1, <1>3, <2>2
  <2> QED BY <2>1, <2>2
<1>8. LoopTypes'
  BY <1>1, <1>5, <1>7 DEF LoopInv, LoopTypes
<1>9. RemotesAlive'
  <2>1. ASSUME NEW d \in Clients
        PROVE  /\ conns'[d].hello => conns'[d].life \in {"open", "closing"}
               /\ d \in ToSet(dlist') => conns'[d].life = "closing"
    BY <1>2, <1>3, <1>5, <1>7 DEF RemotesAlive
  <2> QED BY <2>1 DEF RemotesAlive
<1>10. StopNeedsCause'
  BY <1>1, <1>3, <1>5 DEF StopNeedsCause
<1>11. BatchSound'
  BY <1>1, <1>6 DEF BatchSound
<1>12. ListSound'
  <2>1. ASSUME NEW d \in Clients, conns'[d].life = "closing" PROVE d \in ToSet(dlist') \cup lost'
    BY <1>2, <1>3, <1>5, <1>7, <2>1 DEF ListSound
  <2> QED BY <1>1, <1>6, <1>7, <2>1 DEF ListSound
<1>13. GoneForAReason'
  <2>1. c \in ToSet(dlist)
    BY <1>1, <1>2, TailFacts DEF c
  <2>2. conns[c].life = "closing"
    BY <1>2, <1>3, <2>1 DEF RemotesAlive
  <2> QED BY <1>1, <1>3, <1>5, <2>2 DEF LoopInv, GoneForAReason
<1> QED BY <1>8, <1>9, <1>10, <1>11, <1>12, <1>13 DEF LoopInv

LEMMA LoopStarts == LoopInit => LoopInv
<1> SUFFICES ASSUME LoopInit PROVE LoopInv
  OBVIOUS
<1>1. <<>> \in Seq(Inputs) /\ <<>> \in Seq(Clients)
  OBVIOUS
<1>2. LoopTypes
  BY <1>1 DEF LoopInit, LoopTypes, ConnRecord
<1>3. ToSet(dlist) = {} /\ Once(dlist)
  BY DEF LoopInit, ToSet, Once
<1>4. RemotesAlive /\ StopNeedsCause /\ GoneForAReason
  BY <1>3 DEF LoopInit, RemotesAlive, StopNeedsCause, GoneForAReason
<1>5. BatchSound /\ ListSound
  BY <1>3 DEF LoopInit, BatchSound, ListSound
<1> QED BY <1>2, <1>4, <1>5 DEF LoopInv

LEMMA LoopSteps == LoopInv /\ [LoopNext]_loopVars => LoopInv'
<1> SUFFICES ASSUME LoopInv, [LoopNext]_loopVars PROVE LoopInv'
  OBVIOUS
<1>1. CASE UNCHANGED loopVars
  BY <1>1, SameAlive DEF loopVars, LoopInv, LoopTypes
<1>2. CASE LoopStep
  BY <1>2, WaitKeeps, ListenKeeps, TurnsKeep, EventKeeps, DoDisconnectKeeps DEF LoopStep
<1>3. ASSUME NEW c \in Clients,
             ClientConnects(c) \/ ClientCloses(c) \/ ClientReads(c)
               \/ (\E x \in Inputs : ClientSends(c, x))
      PROVE  LoopInv'
  BY <1>3, ClientsKeep
<1> QED BY <1>1, <1>2, <1>3 DEF LoopNext

(* For any number of clients, whatever they send, when they close, however the reads and
   the writes are cut and whatever DoDisconnect reads from the memory it has freed: the
   bus knows no remote that was freed, none is to be disconnected again, each that was
   disconnected had closed, was refused, could not be sent to or had filled a read exactly,
   the assertion of Disconnect fails only for a client whose bytes were refused or that was
   left behind, and the bus crashes or leaves one behind only when some client has gone. *)
THEOREM LoopIsSound == LoopSpec => []LoopSound
<1>1. LoopInv => LoopSound
  BY DEF LoopInv, LoopSound
<1> QED BY <1>1, LoopStarts, LoopSteps, PTL DEF LoopSpec

-----------------------------------------------------------------------------
(***************************************************************************)
(* The hosts on Windows and on Qt (module BusHosts): every client that the *)
(* bus knows has its Remote object, and a deleted one is used only when    *)
(* the server object has gone.                                             *)
(***************************************************************************)

(* The types of the variables. *)
GuestRecord ==
  [life : {"away", "open", "doomed", "gone"}, stage : {"fresh", "auth", "bus"},
   input : Seq(GuestInputs), shut : BOOLEAN]

HostTypes ==
  /\ host \in {"win", "qt"} /\ guests \in [Guests -> GuestRecord]
  /\ listed \in Seq(Guests) /\ misuse \in BOOLEAN

(* A client without a Remote object has got through nothing. *)
NoneBegun == \A g \in Guests : ~Lives(g) => guests[g].stage = "fresh"

HostInv == HostTypes /\ NoneBegun /\ RemotesHeld

-----------------------------------------------------------------------------

(* One client's Remote changes, and the others stay as they are. *)
LEMMA OneGuest ==
  ASSUME HostTypes, NEW g \in Guests, NEW r \in GuestRecord,
         guests' = [guests EXCEPT ![g] = r]
  PROVE  /\ guests' \in [Guests -> GuestRecord]
         /\ guests'[g] = r
         /\ \A h \in Guests : h # g => guests'[h] = guests[h]
BY DEF HostTypes

(* A change that leaves alone who lives, who is past the handshake and who is held. *)
LEMMA SameHeld ==
  ASSUME HostInv, UNCHANGED <<host, listed, handles, onBus, up, misuse>>,
         guests' \in [Guests -> GuestRecord],
         \A h \in Guests : (Lives(h)' <=> Lives(h)) /\ guests'[h].stage = guests[h].stage
  PROVE  HostInv'
<1>1. HostTypes'
  BY DEF HostInv, HostTypes
<1>2. /\ {h \in Guests : Lives(h)}' = {h \in Guests : Lives(h)}
      /\ {h \in Guests : Lives(h) /\ guests[h].stage = "bus"}'
           = {h \in Guests : Lives(h) /\ guests[h].stage = "bus"}
  BY DEF Lives
<1>3. NoneBegun'
  BY DEF HostInv, NoneBegun
<1> QED BY <1>1, <1>2, <1>3, Zenon DEF HostInv, RemotesHeld

LEMMA GuestsKeep ==
  ASSUME HostInv, NEW g \in Guests,
         (\E x \in GuestInputs : GuestSends(g, x)) \/ GuestCloses(g) \/ SocketCloses(g)
  PROVE  HostInv'
<1>1. guests \in [Guests -> GuestRecord] /\ guests[g] \in GuestRecord
  BY DEF HostInv, HostTypes
<1>2. UNCHANGED <<host, listed, handles, onBus, up, misuse>>
  BY DEF GuestSends, GuestCloses, SocketCloses
<1>3. PICK r \in GuestRecord :
        /\ guests' = [guests EXCEPT ![g] = r]
        /\ r.stage = guests[g].stage
        /\ r.life \in {"open", "doomed"} <=> guests[g].life \in {"open", "doomed"}
  <2>1. ASSUME NEW x \in GuestInputs, GuestSends(g, x)
        PROVE  \E r \in GuestRecord :
                 /\ guests' = [guests EXCEPT ![g] = r] /\ r.stage = guests[g].stage
                 /\ r.life = guests[g].life
    <3> DEFINE r == [guests[g] EXCEPT !.input = Append(@, x)]
    <3>1. Append(guests[g].input, x) \in Seq(GuestInputs)
      BY <1>1 DEF GuestRecord
    <3>2. r \in GuestRecord /\ r.stage = guests[g].stage /\ r.life = guests[g].life
      BY <1>1, <3>1 DEF GuestRecord
    <3>3. guests' = [guests EXCEPT ![g] = r]
      BY <2>1 DEF GuestSends
    <3> QED BY <3>2, <3>3
  <2>2. ASSUME GuestCloses(g)
        PROVE  \E r \in GuestRecord :
                 /\ guests' = [guests EXCEPT ![g] = r] /\ r.stage = guests[g].stage
                 /\ r.life = guests[g].life
    <3> DEFINE r == [guests[g] EXCEPT !.shut = TRUE]
    <3>2. r \in GuestRecord /\ r.stage = guests[g].stage /\ r.life = guests[g].life
      BY <1>1 DEF GuestRecord
    <3>3. guests' = [guests EXCEPT ![g] = r]
      BY <2>2 DEF GuestCloses
    <3> QED BY <3>2, <3>3
  <2>3. ASSUME SocketCloses(g)
        PROVE  \E r \in GuestRecord :
                 /\ guests' = [guests EXCEPT ![g] = r] /\ r.stage = guests[g].stage
                 /\ r.life = "doomed" /\ guests[g].life = "open"
    <3> DEFINE r == [guests[g] EXCEPT !.life = "doomed"]
    <3>2. r \in GuestRecord /\ r.stage = guests[g].stage /\ r.life = "doomed"
      BY <1>1 DEF GuestRecord
    <3>3. guests' = [guests EXCEPT ![g] = r] /\ guests[g].life = "open"
      BY <2>3 DEF SocketCloses
    <3> QED BY <3>2, <3>3
  <2> QED BY <2>1, <2>2, <2>3
<1>4. /\ guests' \in [Guests -> GuestRecord]
      /\ \A h \in Guests : (Lives(h)' <=> Lives(h)) /\ guests'[h].stage = guests[h].stage
  BY <1>1, <1>3 DEF Lives
<1> QED BY <1>2, <1>4, SameHeld

LEMMA AcceptKeeps ==
  ASSUME HostInv, NEW g \in Guests, AcceptWin(g) \/ AcceptQt(g)
  PROVE  HostInv'
<1>1. /\ guests \in [Guests -> GuestRecord] /\ guests[g] \in GuestRecord
      /\ listed \in Seq(Guests)
  BY DEF HostInv, HostTypes
<1> DEFINE r == [guests[g] EXCEPT !.life = "open"]
<1>2. /\ r \in GuestRecord /\ r.stage = guests[g].stage /\ r.life = "open"
  BY <1>1 DEF GuestRecord
<1>3. /\ guests' = [guests EXCEPT ![g] = r] /\ guests[g].life = "away"
      /\ listed' = Append(listed, g) /\ UNCHANGED <<host, onBus, up, misuse>>
      /\ host = "win" => handles' = handles \cup {g}
  BY DEF AcceptWin, AcceptQt, NewRemote
<1> HIDE DEF r
<1>4. /\ guests' \in [Guests -> GuestRecord]
      /\ Lives(g)' /\ ~Lives(g) /\ guests'[g].stage = guests[g].stage
      /\ \A h \in Guests : h # g => guests'[h] = guests[h] /\ (Lives(h)' <=> Lives(h))
  BY <1>1, <1>2, <1>3 DEF Lives
<1>5. g \notin ToSet(listed) /\ g \notin onBus
  BY <1>4 DEF HostInv, RemotesHeld
<1>6. /\ listed' \in Seq(Guests) /\ ToSet(listed') = ToSet(listed) \cup {g}
      /\ IsInjective(listed')
  <2>1. Once(listed)
    BY DEF HostInv, RemotesHeld, IsInjective, Once
  <2>2. Once(listed') /\ listed' \in Seq(Guests) /\ ToSet(listed') = ToSet(listed) \cup {g}
    BY <1>1, <1>3, <1>5, <2>1, AppendFacts
  <2> QED BY <2>2 DEF IsInjective, Once
<1>7. HostTypes' /\ NoneBegun'
  BY <1>3, <1>4, <1>6 DEF HostInv, HostTypes, NoneBegun
<1>8. onBus' = {h \in Guests : Lives(h) /\ guests[h].stage = "bus"}'
  <2>1. guests[g].stage = "fresh"
    BY <1>4 DEF HostInv, NoneBegun
  <2>2. \A h \in Guests : (Lives(h) /\ guests[h].stage = "bus")' <=> (Lives(h) /\ guests[h].stage = "bus")
    BY <1>4, <2>1
  <2> QED BY <1>3, <2>2 DEF HostInv, RemotesHeld
<1>9. ToSet(listed)' = {h \in Guests : Lives(h)}'
  BY <1>4, <1>6 DEF HostInv, RemotesHeld
<1>10. host' = "win" /\ up' => handles' = ToSet(listed')
  BY <1>3, <1>6 DEF HostInv, RemotesHeld
<1>11. up' /\ ~misuse'
  BY DEF AcceptWin, AcceptQt, NewRemote
<1> QED BY <1>3, <1>6, <1>7, <1>8, <1>9, <1>10, <1>11 DEF HostInv, RemotesHeld

(* What is read takes a client forward only: who is on the bus stays there. *)
LEMMA ReadForward ==
  ASSUME NEW g \in Guests
  PROVE  /\ ReadGuest(g).stage \in {"fresh", "auth", "bus"}
         /\ guests[g].stage = "bus" => ReadGuest(g).stage = "bus"
<1>1. \A i : /\ StageAt(g, i) \in {"fresh", "auth", "bus"}
             /\ guests[g].stage = "bus" => StageAt(g, i) = "bus"
  BY DEF StageAt
<1>2. \E i : ReadGuest(g).stage = StageAt(g, i)
  BY DEF ReadGuest
<1> QED BY <1>1, <1>2

(* The bus writes to remotes that exist, the one that is read from included. *)
LEMMA WritesGood ==
  ASSUME HostInv, NEW g \in Guests, Lives(g), NEW stage
  PROVE  WritesTo(onBus) /\ WritesTo(BusWith(g, stage))
BY DEF HostInv, RemotesHeld, WritesTo, BusWith

(* What a Remote has read takes its client to another stage. *)
LEMMA ReadKeeps ==
  ASSUME HostInv, NEW g \in Guests, NEW r \in GuestRecord, Lives(g),
         guests' = [guests EXCEPT ![g] = r],
         r.stage = ReadGuest(g).stage, r.life \in {"open", "doomed"},
         onBus' = BusWith(g, r.stage), misuse' = (misuse \/ ~WritesTo(onBus)),
         UNCHANGED <<host, listed, handles, up>>
  PROVE  HostInv'
<1>1. /\ guests' \in [Guests -> GuestRecord] /\ guests'[g] = r
      /\ \A h \in Guests : h # g => guests'[h] = guests[h]
  BY OneGuest DEF HostInv
<1>2. \A h \in Guests : Lives(h)' <=> Lives(h)
  BY <1>1 DEF Lives
<1>3. misuse' = misuse
  BY WritesGood DEF HostInv, HostTypes
<1>4. HostTypes' /\ NoneBegun'
  BY <1>1, <1>2, <1>3 DEF HostInv, HostTypes, NoneBegun
<1>5. onBus' = {h \in Guests : Lives(h) /\ guests[h].stage = "bus"}'
  <2>1. onBus = {h \in Guests : Lives(h) /\ guests[h].stage = "bus"}
    BY DEF HostInv, RemotesHeld
  <2>2. guests[g].stage = "bus" => r.stage = "bus"
    BY ReadForward
  <2>3. \A h \in Guests : h \in onBus' <=> (Lives(h) /\ guests[h].stage = "bus")'
    BY <1>1, <1>2, <2>1, <2>2 DEF BusWith
  <2>4. onBus' \subseteq Guests
    BY <2>1 DEF BusWith
  <2> QED BY <2>3, <2>4
<1>6. {h \in Guests : Lives(h)}' = {h \in Guests : Lives(h)}
  BY <1>2
<1>7. /\ IsInjective(listed)' /\ ToSet(listed)' = {h \in Guests : Lives(h)}'
      /\ host' = "win" /\ up' => handles' = ToSet(listed)'
  BY <1>6, Zenon DEF HostInv, RemotesHeld
<1> QED BY <1>3, <1>4, <1>5, <1>7 DEF HostInv, RemotesHeld

(* A Remote object goes. *)
LEMMA DeleteKeeps ==
  ASSUME HostInv, NEW g \in Guests, Lives(g), NEW stage,
         guests' = [guests EXCEPT ![g].life = "gone", ![g].stage = "fresh", ![g].input = <<>>],
         onBus' = onBus \ {g}, listed' = Without(listed, {g}),
         host = "win" => handles' = handles \ {g},
         up, ~misuse, UNCHANGED <<host, up, misuse>>
  PROVE  HostInv'
<1> DEFINE r == [guests[g] EXCEPT !.life = "gone", !.stage = "fresh", !.input = <<>>]
<1>1. r \in GuestRecord /\ r.life = "gone" /\ r.stage = "fresh"
  <2>1. guests[g] \in GuestRecord /\ <<>> \in Seq(GuestInputs)
    BY DEF HostInv, HostTypes
  <2> QED BY <2>1 DEF GuestRecord
<1>2. guests' = [guests EXCEPT ![g] = r]
  BY DEF HostInv, HostTypes
<1> HIDE DEF r
<1>3. /\ guests' \in [Guests -> GuestRecord] /\ guests'[g] = r
      /\ \A h \in Guests : h # g => guests'[h] = guests[h]
  BY <1>1, <1>2, OneGuest DEF HostInv
<1>4. ~Lives(g)' /\ \A h \in Guests : h # g => (Lives(h)' <=> Lives(h))
  BY <1>1, <1>3 DEF Lives
<1>5. /\ listed' \in Seq(Guests) /\ ToSet(listed') = ToSet(listed) \ {g}
      /\ IsInjective(listed')
  <2>1. Once(listed) /\ listed \in Seq(Guests)
    BY DEF HostInv, HostTypes, RemotesHeld, IsInjective, Once
  <2>2. Once(listed') /\ listed' \in Seq(Guests) /\ ToSet(listed') = ToSet(listed) \ {g}
    BY <2>1, WithoutFacts
  <2> QED BY <2>2 DEF IsInjective, Once
<1>6. HostTypes' /\ NoneBegun'
  BY <1>1, <1>3, <1>4, <1>5 DEF HostInv, HostTypes, NoneBegun
<1>7. onBus' = {h \in Guests : Lives(h) /\ guests[h].stage = "bus"}'
  <2>1. onBus = {h \in Guests : Lives(h) /\ guests[h].stage = "bus"}
    BY DEF HostInv, RemotesHeld
  <2> QED BY <1>3, <1>4, <2>1
<1>8. ToSet(listed)' = {h \in Guests : Lives(h)}'
  BY <1>4, <1>5 DEF HostInv, RemotesHeld
<1>9. host' = "win" /\ up' => handles' = ToSet(listed')
  BY <1>5 DEF HostInv, RemotesHeld
<1> QED BY <1>5, <1>6, <1>7, <1>8, <1>9 DEF HostInv, RemotesHeld

LEMMA WinEventKeeps ==
  ASSUME HostInv, NEW g \in Guests, NEW exact \in BOOLEAN, WinEvent(g, exact)
  PROVE  HostInv'
<1> DEFINE read == ReadGuest(g)
           ends == read.refused \/ (guests[g].input # <<>> /\ exact) \/ guests[g].shut
<1>1. /\ up /\ host = "win" /\ g \in handles /\ ~misuse /\ UNCHANGED <<host, up>>
      /\ IF ends THEN DeleteNow(g, read.stage, BusWith(g, read.stage))
         ELSE /\ guests' = [guests EXCEPT ![g].stage = read.stage, ![g].input = <<>>]
              /\ onBus' = BusWith(g, read.stage)
              /\ misuse' = (misuse \/ ~WritesTo(onBus))
              /\ UNCHANGED <<listed, handles>>
  BY DEF WinEvent
<1>2. Lives(g) /\ g \in ToSet(listed)
  BY <1>1 DEF HostInv, RemotesHeld
<1>3. CASE ends
  <2>1. DeleteNow(g, read.stage, BusWith(g, read.stage))
    BY <1>1, <1>3
  <2>2. misuse' = misuse
    BY <1>1, <1>2, <2>1, WritesGood DEF DeleteNow, HostInv, HostTypes
  <2>3. onBus' = onBus \ {g}
    BY <2>1 DEF DeleteNow, BusWith
  <2> QED BY <1>1, <1>2, <2>1, <2>2, <2>3, DeleteKeeps DEF DeleteNow
<1>4. CASE ~ends
  <2> DEFINE r == [guests[g] EXCEPT !.stage = read.stage, !.input = <<>>]
  <2>1. guests[g] \in GuestRecord /\ <<>> \in Seq(GuestInputs)
    BY DEF HostInv, HostTypes
  <2>2. r \in GuestRecord /\ r.stage = read.stage /\ r.life \in {"open", "doomed"}
    BY <1>2, <2>1, ReadForward DEF GuestRecord, Lives
  <2>3. guests' = [guests EXCEPT ![g] = r]
    BY <1>1, <1>4 DEF HostInv, HostTypes
  <2>4. /\ onBus' = BusWith(g, r.stage) /\ misuse' = (misuse \/ ~WritesTo(onBus))
        /\ UNCHANGED <<host, listed, handles, up>>
    BY <1>1, <1>4, <2>2
  <2> HIDE DEF r, ends
  <2> QED BY <1>2, <2>2, <2>3, <2>4, ReadKeeps
<1> QED BY <1>3, <1>4

LEMMA ReadyReadKeeps ==
  ASSUME HostInv, NEW g \in Guests, NEW fails \in BOOLEAN, ReadyRead(g, fails)
  PROVE  HostInv'
<1> DEFINE read == ReadGuest(g)
           life == IF read.refused \/ fails THEN "doomed" ELSE guests[g].life
           r == [guests[g] EXCEPT !.stage = read.stage, !.input = <<>>, !.life = life]
<1>1. guests[g] \in GuestRecord /\ <<>> \in Seq(GuestInputs) /\ Lives(g)
  BY DEF HostInv, HostTypes, ReadyRead
<1>2. r \in GuestRecord /\ r.stage = read.stage /\ r.life \in {"open", "doomed"}
  BY <1>1, ReadForward DEF GuestRecord, Lives
<1>3. guests' = [guests EXCEPT ![g] = r]
  BY DEF HostInv, HostTypes, ReadyRead
<1>4. /\ onBus' = BusWith(g, r.stage) /\ misuse' = (misuse \/ ~WritesTo(onBus))
      /\ UNCHANGED <<host, listed, handles, up>>
  BY <1>2 DEF ReadyRead
<1> HIDE DEF r
<1> QED BY <1>1, <1>2, <1>3, <1>4, ReadKeeps

LEMMA DeleteLaterKeeps ==
  ASSUME HostInv, NEW g \in Guests, DeleteLater(g)
  PROVE  HostInv'
<1>1. Lives(g) /\ ~misuse /\ host = "qt"
  BY DEF DeleteLater, Lives
<1>2. misuse' = misuse
  BY <1>1, WritesGood DEF DeleteLater, HostInv, HostTypes
<1> QED BY <1>1, <1>2, DeleteKeeps DEF DeleteLater

LEMMA ServerEndsKeeps == HostInv /\ (WinServerEnds \/ QtServerEnds) => HostInv'
<1> SUFFICES ASSUME HostInv, WinServerEnds \/ QtServerEnds PROVE HostInv'
  OBVIOUS
<1>1. ServerGone
  BY DEF WinServerEnds, QtServerEnds
<1>2. /\ guests' \in [Guests -> GuestRecord]
      /\ \A h \in Guests : ~Lives(h)' /\ guests'[h].stage = "fresh"
  <2> DEFINE r(h) == [guests[h] EXCEPT !.life = "gone", !.stage = "fresh", !.input = <<>>]
  <2>1. ASSUME NEW h \in Guests
        PROVE  guests'[h] \in GuestRecord /\ ~Lives(h)' /\ guests'[h].stage = "fresh"
    <3>1. guests[h] \in GuestRecord /\ <<>> \in Seq(GuestInputs)
      BY DEF HostInv, HostTypes
    <3>2. r(h) \in GuestRecord /\ r(h).life = "gone" /\ r(h).stage = "fresh"
      BY <3>1 DEF GuestRecord
    <3>3. CASE h \in ToSet(listed)
      <4>1. guests'[h] = r(h)
        BY <1>1, <3>3 DEF ServerGone
      <4> QED BY <3>2, <4>1 DEF Lives
    <3>4. CASE h \notin ToSet(listed)
      <4>1. guests'[h] = guests[h] /\ ~Lives(h)
        BY <1>1, <3>4 DEF ServerGone, HostInv, RemotesHeld
      <4> QED BY <3>1, <4>1 DEF HostInv, NoneBegun, Lives
    <3> QED BY <3>3, <3>4
  <2>2. guests' = [h \in Guests |-> guests'[h]]
    BY <1>1 DEF ServerGone
  <2> QED BY <2>1, <2>2
<1>3. /\ onBus' = {} /\ listed' = <<>> /\ ~up' /\ host' = host
  BY <1>1 DEF ServerGone
<1>4. /\ listed' \in Seq(Guests) /\ ToSet(listed') = {} /\ IsInjective(listed')
  BY <1>3 DEF ToSet, IsInjective
<1>5. misuse' \in BOOLEAN /\ (host = "win" => ~misuse')
  BY DEF HostInv, HostTypes, RemotesHeld, WritesTo, WinServerEnds, QtServerEnds
<1>6. HostTypes' /\ NoneBegun'
  BY <1>2, <1>3, <1>4, <1>5 DEF HostInv, HostTypes, NoneBegun
<1> QED BY <1>2, <1>3, <1>4, <1>5, <1>6 DEF HostInv, HostTypes, RemotesHeld

LEMMA TurnAfterEndKeeps ==
  ASSUME HostInv, NEW g \in Guests, TurnAfterEnd(g)
  PROVE  HostInv'
<1>1. /\ ~up' /\ misuse' = TRUE /\ handles' # {}
      /\ UNCHANGED <<host, guests, listed, handles, onBus, up>>
  BY DEF TurnAfterEnd
<1>2. HostTypes' /\ NoneBegun'
  BY <1>1 DEF HostInv, HostTypes, NoneBegun, Lives
<1>3. \A h \in Guests : Lives(h)' <=> Lives(h)
  BY <1>1 DEF Lives
<1> QED BY <1>1, <1>2, <1>3 DEF HostInv, RemotesHeld

LEMMA HostStarts == HostInit => HostInv
<1> SUFFICES ASSUME HostInit PROVE HostInv
  OBVIOUS
<1>1. <<>> \in Seq(GuestInputs) /\ <<>> \in Seq(Guests)
  OBVIOUS
<1>2. HostTypes
  BY <1>1, BusHostsAssumption DEF HostInit, HostTypes, GuestRecord
<1>3. \A g \in Guests : ~Lives(g) /\ guests[g].stage = "fresh"
  BY DEF HostInit, Lives
<1>4. ToSet(listed) = {} /\ IsInjective(listed)
  BY DEF HostInit, ToSet, IsInjective
<1> QED BY <1>2, <1>3, <1>4 DEF HostInit, HostInv, NoneBegun, RemotesHeld

LEMMA HostSteps == HostInv /\ [HostNext]_hostVars => HostInv'
<1> SUFFICES ASSUME HostInv, [HostNext]_hostVars PROVE HostInv'
  OBVIOUS
<1>1. CASE UNCHANGED hostVars
  BY <1>1, SameHeld DEF hostVars, HostInv, HostTypes, Lives
<1>2. CASE HostNext
  BY <1>2, GuestsKeep, AcceptKeeps, WinEventKeeps, ReadyReadKeeps, DeleteLaterKeeps,
     ServerEndsKeeps, TurnAfterEndKeeps DEF HostNext
<1> QED BY <1>1, <1>2

(* For any number of clients, whatever they send, in whatever order they come and go
   and however a read is cut: the bus of either host has exactly the remotes whose
   Remote objects exist and whose handshake has ended, each is listed once, and as long
   as the server object exists the Windows event loop calls exactly these and no freed
   memory is used. *)
THEOREM RemotesAreHeld == HostSpec => []RemotesHeld
<1>1. HostInv => RemotesHeld
  BY DEF HostInv
<1> QED BY <1>1, HostStarts, HostSteps, PTL DEF HostSpec

-----------------------------------------------------------------------------
(***************************************************************************)
(* Sockets (module Sockets): every socket that was opened belongs to       *)
(* someone, and the address that is used is the documented one.            *)
(***************************************************************************)

Socks == 1..MaxSockets
NoSock == Socks \cup {Unset}
Attempts ==
  [phase : {"idle", "address", "try", "cauth"}, bind : BOOLEAN,
   type : {"default", "session", "system", "other", "address", Unset},
   addr : EnvAddresses \cup {Unset, Autostart, SystemSocket}, left : Nat,
   sock : NoSock, by : LuaSockets \cup {Unset}]

SockTypes ==
  /\ env \in [Variables -> EnvAddresses \cup {Unset}] /\ attempt \in Attempts
  /\ opened \subseteq Socks /\ returned \subseteq Socks
  /\ handle \in [LuaSockets -> NoSock]

(* A call has a socket only while it tries addresses, and the userdata that it is for
   has none yet. *)
CallSound ==
  /\ attempt.sock # Unset => attempt.phase = "try"
  /\ attempt.phase \in {"address", "try"} /\ attempt.by # Unset => handle[attempt.by] = Unset

(* NoSocketLeft, said of each socket. *)
OneOwner ==
  /\ \A s \in Socks : s \in opened <=> \/ s \in returned \/ s = attempt.sock
                                       \/ \E h \in LuaSockets : handle[h] = s
  /\ attempt.sock \notin returned
  /\ \A h \in LuaSockets : handle[h] # Unset =>
       /\ handle[h] \notin returned /\ handle[h] # attempt.sock
       /\ \A g \in LuaSockets : handle[g] = handle[h] => g = h

SockInv == SockTypes /\ CallSound /\ OneOwner /\ AddressAsDocumented

-----------------------------------------------------------------------------

LEMMA UnsetApart == Unset \notin Socks /\ Unset \notin LuaSockets /\ MaxSockets \in Nat
BY SocketsAssumption DEF Socks

LEMMA OneOwnerMeans == SockTypes /\ OneOwner => NoSocketLeft
<1> SUFFICES ASSUME SockTypes, OneOwner PROVE NoSocketLeft
  OBVIOUS
<1> DEFINE inLua(h) == {handle[h]} \ {Unset}
           trying == {attempt.sock} \ {Unset}
<1>1. /\ \A h \in LuaSockets : handle[h] \in NoSock
      /\ attempt.sock \in NoSock /\ opened \subseteq Socks /\ returned \subseteq Socks
  BY DEF SockTypes, Attempts
<1>2. opened = returned \cup trying \cup UNION {inLua(h) : h \in LuaSockets}
  <2>1. ASSUME NEW s \in opened
        PROVE  s \in returned \cup trying \cup UNION {inLua(h) : h \in LuaSockets}
    BY <1>1, UnsetApart DEF OneOwner
  <2>2. ASSUME NEW s \in returned \cup trying \cup UNION {inLua(h) : h \in LuaSockets}
        PROVE  s \in opened
    BY <1>1, UnsetApart DEF OneOwner, NoSock
  <2> QED BY <2>1, <2>2
<1>3. returned \cap trying = {}
  BY <1>1 DEF OneOwner
<1>4. ASSUME NEW h \in LuaSockets
      PROVE  /\ inLua(h) \cap (returned \cup trying) = {}
             /\ \A g \in LuaSockets \ {h} : inLua(h) \cap inLua(g) = {}
  BY <1>1 DEF OneOwner
<1> QED BY <1>2, <1>3, <1>4 DEF NoSocketLeft

LEMMA FreeSocketFacts ==
  ASSUME SockTypes, Cardinality(opened) < MaxSockets
  PROVE  FreeSocket \in Socks \ opened
<1>1. IsFiniteSet(Socks) /\ Cardinality(Socks) = MaxSockets
  BY UnsetApart, FS_Interval DEF Socks
<1>2. Socks \ opened # {}
  <2>1. ASSUME Socks \ opened = {} PROVE FALSE
    <3>1. opened = Socks
      BY <2>1 DEF SockTypes
    <3> QED BY <1>1, <3>1, UnsetApart
  <2> QED BY <2>1
<1>3. Socks \ opened \in SUBSET Nat
  BY DEF Socks
<1>4. \E n \in Socks \ opened : \A k \in Socks \ opened : n <= k
  BY <1>2, <1>3, LeastNumber
<1>5. FreeSocket = Min(Socks \ opened)
  BY DEF FreeSocket, Socks
<1> QED BY <1>4, <1>5 DEF Min

LEMMA NoAttemptFacts == NoAttempt \in Attempts
BY DEF NoAttempt, Attempts, NoSock

(* Returns: what the call has, or nothing, goes to who called. *)
LEMMA ReturnsKeep ==
  ASSUME SockInv, attempt.phase \in {"address", "try"}, NEW fd \in NoSock, Returns(fd),
         UNCHANGED env, opened' \subseteq Socks,
         \/ fd = Unset /\ attempt.sock = Unset /\ opened' = opened
         \/ fd # Unset /\ fd = attempt.sock /\ opened' = opened
         \/ fd # Unset /\ fd \notin opened /\ attempt.sock = Unset /\ opened' = opened \cup {fd}
  PROVE  SockInv'
<1>1. /\ SockTypes /\ CallSound /\ OneOwner
      /\ attempt.by \in LuaSockets \cup {Unset} /\ attempt.sock \in NoSock
  BY DEF SockInv, SockTypes, Attempts
<1>2. /\ attempt' \in Attempts /\ attempt'.sock = Unset
      /\ attempt'.phase \in {"idle", "cauth"}
  <2> DEFINE a == [NoAttempt EXCEPT !.phase = "cauth", !.by = attempt.by]
  <2>1. attempt' = NoAttempt \/ attempt' = a
    BY DEF Returns
  <2>2. NoAttempt.sock = Unset /\ NoAttempt.phase = "idle"
    BY DEF NoAttempt
  <2>3. a \in Attempts /\ a.sock = Unset /\ a.phase = "cauth"
    BY <1>1, <2>2, NoAttemptFacts DEF Attempts
  <2> QED BY <2>1, <2>2, <2>3, NoAttemptFacts
<1>3. AddressAsDocumented'
  BY <1>2 DEF AddressAsDocumented
<1>4. CASE attempt.by = Unset
  <2>1. handle' = handle /\ returned' = IF fd = Unset THEN returned ELSE returned \cup {fd}
    BY <1>4 DEF Returns
  <2>2. SockTypes'
    BY <1>1, <1>2, <2>1 DEF SockTypes, NoSock
  <2>3. CallSound'
    BY <1>2 DEF CallSound
  <2>4. OneOwner'
    BY <1>1, <1>2, <2>1, UnsetApart DEF OneOwner, SockTypes, NoSock
  <2> QED BY <1>3, <2>2, <2>3, <2>4 DEF SockInv
<1>5. CASE attempt.by # Unset
  <2>1. /\ handle' = [handle EXCEPT ![attempt.by] = fd] /\ returned' = returned
        /\ handle[attempt.by] = Unset /\ attempt.by \in LuaSockets
    BY <1>1, <1>5 DEF Returns, CallSound
  <2>2. SockTypes'
    BY <1>1, <1>2, <2>1 DEF SockTypes
  <2>3. CallSound'
    BY <1>2 DEF CallSound
  <2>4. OneOwner'
    BY <1>1, <1>2, <2>1, UnsetApart DEF OneOwner, SockTypes, NoSock
  <2> QED BY <1>3, <2>2, <2>3, <2>4 DEF SockInv
<1> QED BY <1>4, <1>5

(* The address of a bus, in whatever way the environment is set. *)
LEMMA AddressLookedUp ==
  ASSUME NEW type \in {"default", "session", "system", "other"},
         env \in [Variables -> EnvAddresses \cup {Unset}]
  PROVE  /\ EnvironmentString(type) \in EnvAddresses \cup {Unset, Autostart, SystemSocket}
         /\ Documented(type, EnvironmentString(type))
<1> DEFINE starter == env["DBUS_STARTER_ADDRESS"]
           session == env["DBUS_SESSION_BUS_ADDRESS"]
           system == env["DBUS_SYSTEM_BUS_ADDRESS"]
<1>1. /\ starter \in EnvAddresses \cup {Unset} /\ session \in EnvAddresses \cup {Unset}
      /\ system \in EnvAddresses \cup {Unset}
  BY DEF Variables
<1>2. ASSUME NEW v, NEW otherwise
      PROVE  FirstSet(<<v>>, otherwise) = IF env[v] = Unset THEN otherwise ELSE env[v]
  <2> DEFINE set == {i \in DOMAIN <<v>> : env[<<v>>[i]] # Unset}
  <2>1. set = IF env[v] = Unset THEN {} ELSE {1}
    OBVIOUS
  <2>2. Min({1}) = 1
    BY DEF Min
  <2> QED BY <2>1, <2>2 DEF FirstSet
<1>3. ASSUME NEW v, NEW w, NEW otherwise
      PROVE  FirstSet(<<v, w>>, otherwise) =
               IF env[v] # Unset THEN env[v] ELSE IF env[w] # Unset THEN env[w] ELSE otherwise
  <2> DEFINE set == {i \in DOMAIN <<v, w>> : env[<<v, w>>[i]] # Unset}
  <2>1. /\ set \subseteq {1, 2}
        /\ (1 \in set <=> env[v] # Unset) /\ (2 \in set <=> env[w] # Unset)
    OBVIOUS
  <2>2. FirstSet(<<v, w>>, otherwise) = IF set = {} THEN otherwise ELSE env[<<v, w>>[Min(set)]]
    BY DEF FirstSet
  <2> HIDE DEF set
  <2>3. ASSUME 1 \in set PROVE Min(set) = 1
    <3>1. 1 \in set /\ \A y \in set : 1 <= y
      BY <2>1, <2>3
    <3>2. Min(set) \in set /\ \A y \in set : Min(set) <= y
      BY <3>1 DEF Min
    <3>3. Min(set) \in {1, 2} /\ Min(set) <= 1
      BY <2>1, <3>1, <3>2, Zenon
    <3> QED BY <3>3
  <2>4. Min({2}) = 2
    BY DEF Min
  <2>5. CASE env[v] # Unset
    BY <2>1, <2>2, <2>3, <2>5
  <2>6. CASE env[v] = Unset /\ env[w] # Unset
    <3>1. set = {2}
      BY <2>1, <2>6
    <3> QED BY <2>2, <2>4, <2>6, <3>1
  <2>7. CASE env[v] = Unset /\ env[w] = Unset
    BY <2>1, <2>2, <2>7
  <2> QED BY <2>5, <2>6, <2>7
<1>4. Way(SystemSocket) = "unix"
  <2>1. SystemSocket.proto = "unix"
    BY DEF SystemSocket
  <2>2. ParseFields(SystemSocket)["file"] # Unset
    <3> DEFINE path == SystemSocket.pairs[1][2]
               at == {i \in DOMAIN SystemSocket.pairs :
                        FieldNamed(SystemSocket.pairs[i][1]) = "file"}
    <3>1. DOMAIN SystemSocket.pairs = {1} /\ SystemSocket.pairs[1][1] = "file"
      BY DEF SystemSocket
    <3>2. at = {1}
      BY <3>1 DEF FieldNamed
    <3>3. Max({1}) = 1
      BY DEF Max
    <3>4. ParseFields(SystemSocket)["file"] =
            IF at = {} \/ SystemSocket.proto = Unset THEN Unset
            ELSE SystemSocket.pairs[Max(at)][2]
      BY DEF ParseFields
    <3> QED BY <2>1, <3>2, <3>3, <3>4, UnsetAssumption
  <2> QED BY <2>1, <2>2 DEF Way
<1>5. CASE type = "default"
  BY <1>1, <1>3, <1>5 DEF EnvironmentString, Documented
<1>6. CASE type = "session"
  BY <1>1, <1>2, <1>6 DEF EnvironmentString, Documented
<1>7. CASE type = "system"
  BY <1>1, <1>2, <1>4, <1>7 DEF EnvironmentString, Documented
<1>8. CASE type = "other"
  BY <1>8 DEF EnvironmentString, Documented
<1> QED BY <1>5, <1>6, <1>7, <1>8

(* A call starts, of a C program or for a userdata that has no socket. *)
LEMMA StartKeeps ==
  ASSUME SockInv, attempt.phase = "idle", UNCHANGED <<env, opened, returned, handle>>,
         NEW a \in Attempts, attempt' = a, a.sock = Unset, a.phase = "address",
         a.by # Unset => handle[a.by] = Unset,
         \/ a.type = "address"
         \/ /\ a.type \in {"default", "session", "system", "other"}
            /\ a.addr = EnvironmentString(a.type)
  PROVE  SockInv'
<1>1. SockTypes /\ CallSound /\ OneOwner /\ attempt.sock = Unset
  BY DEF SockInv, CallSound
<1>2. SockTypes' /\ CallSound'
  BY <1>1 DEF SockTypes, CallSound
<1>3. OneOwner'
  BY <1>1, UnsetApart DEF OneOwner, SockTypes
<1>4. AddressAsDocumented'
  <2>1. CASE a.type = "address"
    BY <2>1 DEF AddressAsDocumented
  <2>2. CASE a.type # "address"
    <3>1. env \in [Variables -> EnvAddresses \cup {Unset}] /\ env' = env
      BY <1>1 DEF SockTypes
    <3>2. Documented(a.type, a.addr)
      BY <2>2, <3>1, AddressLookedUp
    <3>3. Documented(a.type, a.addr)'
      BY <3>1, <3>2 DEF Documented
    <3> QED BY <3>3 DEF AddressAsDocumented
  <2> QED BY <2>1, <2>2
<1> QED BY <1>2, <1>3, <1>4 DEF SockInv

LEMMA CallsKeep ==
  ASSUME SockInv,
         \/ \E type \in {"default", "session", "system", "other"}, bind \in BOOLEAN :
              StartCall(type, bind)
         \/ \E h \in LuaSockets :
              \/ \E type \in {"default", "session", "system"} : NewSocket(h, type, Unset)
              \/ \E addr \in EnvAddresses : NewSocket(h, "address", addr)
  PROVE  SockInv'
<1>0. env \in [Variables -> EnvAddresses \cup {Unset}]
  BY DEF SockInv, SockTypes
<1>1. NoAttempt \in Attempts /\ NoAttempt.sock = Unset /\ NoAttempt.by = Unset
  BY NoAttemptFacts DEF NoAttempt
<1>2. ASSUME NEW type \in {"default", "session", "system", "other"}, NEW bind \in BOOLEAN,
             StartCall(type, bind)
      PROVE  SockInv'
  <2> DEFINE a == [NoAttempt EXCEPT !.phase = "address", !.bind = bind, !.type = type,
                                    !.addr = EnvironmentString(type)]
  <2>1. EnvironmentString(type) \in EnvAddresses \cup {Unset, Autostart, SystemSocket}
    BY <1>0, AddressLookedUp
  <2>2. /\ a \in Attempts /\ a.sock = Unset /\ a.phase = "address" /\ a.by = Unset
        /\ a.type = type /\ a.addr = EnvironmentString(type)
    BY <1>1, <2>1 DEF Attempts
  <2>3. attempt' = a /\ attempt.phase = "idle" /\ UNCHANGED <<env, opened, returned, handle>>
    BY <1>2 DEF StartCall
  <2> HIDE DEF a
  <2> QED BY <2>2, <2>3, StartKeeps
<1>3. ASSUME NEW h \in LuaSockets, NEW type \in {"default", "session", "system", "address"},
             NEW addr \in EnvAddresses \cup {Unset}, NewSocket(h, type, addr)
      PROVE  SockInv'
  <2> DEFINE at == IF type = "address" THEN addr ELSE EnvironmentString(type)
             a == [NoAttempt EXCEPT !.phase = "address", !.type = type, !.by = h, !.addr = at]
  <2>1. at \in EnvAddresses \cup {Unset, Autostart, SystemSocket}
    BY <1>0, AddressLookedUp
  <2>2. attempt' = a /\ attempt.phase = "idle" /\ UNCHANGED <<env, opened, returned, handle>>
        /\ handle[h] = Unset
    BY <1>3 DEF NewSocket
  <2>3. type # "address" => at = EnvironmentString(type)
    OBVIOUS
  <2> HIDE DEF at
  <2>4. /\ a \in Attempts /\ a.sock = Unset /\ a.phase = "address" /\ a.by = h
        /\ a.type = type /\ a.addr = at
    BY <1>1, <2>1 DEF Attempts
  <2> HIDE DEF a
  <2> QED BY <2>2, <2>3, <2>4, StartKeeps
<1> QED BY <1>2, <1>3

(* The call makes no step to another address, and returns without a socket. *)
LEMMA FailsKeep ==
  ASSUME SockInv, NoWay \/ ResolveFails \/ GiveUp
  PROVE  SockInv'
<1>1. /\ attempt.phase \in {"address", "try"} /\ Returns(Unset) /\ UNCHANGED <<env, opened>>
      /\ attempt.sock = Unset
  BY DEF NoWay, ResolveFails, GiveUp, HasWay, SockInv, CallSound
<1>2. Unset \in NoSock /\ opened' \subseteq Socks
  BY <1>1 DEF NoSock, SockInv, SockTypes
<1> QED BY <1>1, <1>2, ReturnsKeep

LEMMA OneAttemptKeeps ==
  ASSUME SockInv, NEW way, NEW bind, NEW success \in BOOLEAN, OneAttempt(way, bind, success)
  PROVE  SockInv'
<1>1. attempt.phase = "address" /\ attempt.sock = Unset /\ env' = env /\ SockTypes
  BY DEF OneAttempt, HasWay, SockInv, CallSound
<1>2. CASE success
  <2>1. Cardinality(opened) < MaxSockets /\ opened' = opened \cup {FreeSocket} /\ Returns(FreeSocket)
    BY <1>2 DEF OneAttempt
  <2>2. FreeSocket \in Socks \ opened
    BY <1>1, <2>1, FreeSocketFacts
  <2>3. FreeSocket \in NoSock /\ FreeSocket # Unset /\ opened' \subseteq Socks
    BY <1>1, <2>1, <2>2, UnsetApart DEF NoSock, SockTypes
  <2> QED BY <1>1, <2>1, <2>2, <2>3, ReturnsKeep
<1>3. CASE ~success
  <2>1. opened' = opened /\ Returns(Unset)
    BY <1>3 DEF OneAttempt
  <2>2. Unset \in NoSock /\ opened' \subseteq Socks
    BY <1>1, <2>1 DEF NoSock, SockTypes
  <2> QED BY <1>1, <2>1, <2>2, ReturnsKeep
<1> QED BY <1>2, <1>3

LEMMA AcceptedKeeps == SockInv /\ Accepted => SockInv'
<1> SUFFICES ASSUME SockInv, Accepted PROVE SockInv'
  OBVIOUS
<1>1. /\ attempt.sock # Unset /\ Returns(attempt.sock) /\ UNCHANGED <<env, opened>>
      /\ attempt.phase = "try" /\ attempt.sock \in NoSock /\ opened' \subseteq Socks
  BY DEF Accepted, SockInv, CallSound, SockTypes, Attempts
<1> QED BY <1>1, ReturnsKeep

(* The steps of a call among the addresses of a host. *)
LEMMA TriesKeep ==
  ASSUME SockInv, (\E n \in 1..MaxResolved : Resolve(n)) \/ NoSocket \/ MakeSocket \/ Refused
  PROVE  SockInv'
<1>1. SockTypes /\ CallSound /\ OneOwner /\ attempt \in Attempts
  BY DEF SockInv, SockTypes
<1>2. UNCHANGED <<env, returned, handle>>
  BY DEF Resolve, NoSocket, MakeSocket, Refused
<1>3. ASSUME NEW n \in 1..MaxResolved, Resolve(n) PROVE SockInv'
  <2>1. /\ attempt.phase = "address" /\ opened' = opened
        /\ attempt' = [attempt EXCEPT !.phase = "try", !.left = n]
    BY <1>3 DEF Resolve, HasWay
  <2>2. n \in Nat
    BY SocketsAssumption
  <2>3. /\ attempt' \in Attempts /\ attempt'.phase = "try" /\ attempt'.sock = attempt.sock
        /\ attempt'.by = attempt.by
    BY <1>1, <2>1, <2>2 DEF Attempts
  <2> QED BY <1>1, <1>2, <2>1, <2>3
          DEF SockInv, SockTypes, CallSound, OneOwner, AddressAsDocumented
<1>4. ASSUME NoSocket PROVE SockInv'
  <2>1. /\ attempt.phase = "try" /\ opened' = opened /\ attempt.left > 0
        /\ attempt' = [attempt EXCEPT !.left = @ - 1]
    BY <1>4 DEF NoSocket, Trying
  <2>2. attempt.left - 1 \in Nat
    BY <1>1, <2>1 DEF Attempts
  <2>3. /\ attempt' \in Attempts /\ attempt'.phase = "try" /\ attempt'.sock = attempt.sock
        /\ attempt'.by = attempt.by
    BY <1>1, <2>1, <2>2 DEF Attempts
  <2> QED BY <1>1, <1>2, <2>1, <2>3
          DEF SockInv, SockTypes, CallSound, OneOwner, AddressAsDocumented
<1>5. ASSUME MakeSocket PROVE SockInv'
  <2>1. /\ attempt.phase = "try" /\ attempt.sock = Unset /\ attempt.left > 0
        /\ Cardinality(opened) < MaxSockets /\ opened' = opened \cup {FreeSocket}
        /\ attempt' = [attempt EXCEPT !.sock = FreeSocket, !.left = @ - 1]
    BY <1>5 DEF MakeSocket, Trying
  <2>2. FreeSocket \in Socks \ opened
    BY <1>1, <2>1, FreeSocketFacts
  <2>3. attempt.left - 1 \in Nat
    BY <1>1, <2>1 DEF Attempts
  <2>4. /\ attempt' \in Attempts /\ attempt'.phase = "try" /\ attempt'.sock = FreeSocket
        /\ attempt'.by = attempt.by
    BY <1>1, <2>1, <2>2, <2>3 DEF Attempts, NoSock
  <2>5. SockTypes' /\ CallSound' /\ AddressAsDocumented'
    BY <1>1, <1>2, <2>1, <2>2, <2>4 DEF SockTypes, CallSound, AddressAsDocumented
  <2>6. OneOwner'
    BY <1>1, <1>2, <2>1, <2>2, <2>4, UnsetApart DEF OneOwner, SockTypes, NoSock
  <2> QED BY <2>5, <2>6 DEF SockInv
<1>6. ASSUME Refused PROVE SockInv'
  <2>1. /\ attempt.phase = "try" /\ attempt.sock # Unset /\ opened' = opened \ {attempt.sock}
        /\ attempt' = [attempt EXCEPT !.sock = Unset]
    BY <1>1, <1>6 DEF Refused, CallSound
  <2>2. /\ attempt' \in Attempts /\ attempt'.phase = "try" /\ attempt'.sock = Unset
        /\ attempt'.by = attempt.by
    BY <1>1, <2>1 DEF Attempts, NoSock
  <2>3. SockTypes' /\ CallSound' /\ AddressAsDocumented'
    BY <1>1, <1>2, <2>1, <2>2 DEF SockTypes, CallSound, AddressAsDocumented
  <2>4. OneOwner'
    BY <1>1, <1>2, <2>1, <2>2, UnsetApart DEF OneOwner, SockTypes, NoSock
  <2> QED BY <2>3, <2>4 DEF SockInv
<1> QED BY <1>3, <1>4, <1>5, <1>6

LEMMA SocketAuthKeeps == SockInv /\ SocketAuth => SockInv'
<1> SUFFICES ASSUME SockInv, SocketAuth PROVE SockInv'
  OBVIOUS
<1>1. /\ attempt.sock = Unset /\ attempt' = NoAttempt
      /\ UNCHANGED <<env, opened, returned, handle>>
  BY DEF SocketAuth, SockInv, CallSound
<1>2. NoAttempt \in Attempts /\ NoAttempt.sock = Unset /\ NoAttempt.phase = "idle"
  BY NoAttemptFacts DEF NoAttempt
<1> QED BY <1>1, <1>2 DEF SockInv, SockTypes, CallSound, OneOwner, AddressAsDocumented

(* Sockets are closed by who owns them. *)
LEMMA ClosesKeep ==
  ASSUME SockInv, (\E fd \in Socks : CloseSocket(fd)) \/ (\E h \in LuaSockets : LuaClose(h))
  PROVE  SockInv'
<1>1. SockTypes /\ CallSound /\ OneOwner /\ attempt.sock = Unset /\ attempt.phase = "idle"
      /\ UNCHANGED <<env, attempt>>
  BY DEF SockInv, CloseSocket, LuaClose, CallSound
<1>2. CallSound' /\ AddressAsDocumented'
  BY <1>1 DEF CallSound, AddressAsDocumented
<1>3. ASSUME NEW fd \in Socks, CloseSocket(fd) PROVE SockInv'
  <2>1. /\ fd \in returned /\ opened' = opened \ {fd} /\ returned' = returned \ {fd}
        /\ handle' = handle
    BY <1>3 DEF CloseSocket
  <2>2. SockTypes'
    BY <1>1, <2>1 DEF SockTypes
  <2>3. OneOwner'
    BY <1>1, <2>1, UnsetApart DEF OneOwner, SockTypes
  <2> QED BY <1>2, <2>2, <2>3 DEF SockInv
<1>4. ASSUME NEW h \in LuaSockets, LuaClose(h) PROVE SockInv'
  <2>1. /\ opened' = opened \ {handle[h]} /\ returned' = returned
        /\ handle' = [handle EXCEPT ![h] = Unset]
    BY <1>4 DEF LuaClose
  <2>2. SockTypes'
    BY <1>1, <2>1 DEF SockTypes, NoSock
  <2>3. OneOwner'
    BY <1>1, <2>1, UnsetApart DEF OneOwner, SockTypes, NoSock
  <2> QED BY <1>2, <2>2, <2>3 DEF SockInv
<1> QED BY <1>3, <1>4

LEMMA SockStarts == SockInit => SockInv
<1> SUFFICES ASSUME SockInit PROVE SockInv
  OBVIOUS
<1>1. /\ attempt \in Attempts /\ attempt.sock = Unset /\ attempt.phase = "idle"
  BY NoAttemptFacts DEF SockInit, NoAttempt
<1> QED BY <1>1, UnsetApart
        DEF SockInit, SockInv, SockTypes, CallSound, OneOwner, AddressAsDocumented, NoSock

LEMMA SockStays == SockInv /\ UNCHANGED sockVars => SockInv'
<1> SUFFICES ASSUME SockInv, UNCHANGED sockVars PROVE SockInv'
  OBVIOUS
<1>1. UNCHANGED <<env, attempt, opened, returned, handle>>
  BY DEF sockVars
<1>2. SockTypes' /\ CallSound' /\ OneOwner'
  BY <1>1 DEF SockInv, SockTypes, CallSound, OneOwner
<1>3. AddressAsDocumented'
  BY <1>1 DEF SockInv, AddressAsDocumented, Documented
<1> QED BY <1>2, <1>3 DEF SockInv

LEMMA SockSteps == SockInv /\ [SockNext]_sockVars => SockInv'
<1> SUFFICES ASSUME SockInv, [SockNext]_sockVars PROVE SockInv'
  OBVIOUS
<1>1. ASSUME NEW success \in BOOLEAN,
             ConnectAbstract(success) \/ BindAbstract(success) \/ ConnectUnix(success) \/ BindUnix(success)
      PROVE  SockInv'
  BY <1>1, OneAttemptKeeps DEF ConnectAbstract, BindAbstract, ConnectUnix, BindUnix
<1>2. ASSUME NEW h \in LuaSockets, NEW done \in BOOLEAN,
             LuaSocketSend(h, done) \/ LuaSocketRecv(h, done)
      PROVE  SockInv'
  BY <1>2, ClosesKeep, SockStays DEF LuaSocketSend, LuaSocketRecv
<1> QED
  BY <1>1, <1>2, CallsKeep, FailsKeep, AcceptedKeeps, TriesKeep, SocketAuthKeeps, ClosesKeep,
     SockStays DEF SockNext, Socks

(* For any number of sockets, userdata and addresses, whatever fails and whenever Lua
   collects: every open socket has one owner, what is not open has none, and the address
   of a bus is the documented one. *)
THEOREM SocketsAreSound == SockSpec => []SocketsSound
<1>1. SockInv => SocketsSound
  BY OneOwnerMeans DEF SockInv, SocketsSound
<1> QED BY <1>1, SockStarts, SockSteps, PTL DEF SockSpec

-----------------------------------------------------------------------------
(***************************************************************************)
(* What the lines of the handshake carry (module AuthData): an identity    *)
(* comes out of its hexadecimal digits as it went in, digits of some other *)
(* client give no identity that they do not spell, and a challenge is      *)
(* answered with the cookie that it names, or with that of the first line  *)
(* that begins with its identifier.                                        *)
(*                                                                         *)
(* The invariant says what the server's identity and the client's answer   *)
(* are computed from; the rest is about the operators: HexRound and        *)
(* HexSpells for the digits, CookieFollows for the lines of the keyring.   *)
(***************************************************************************)

(* The places of a list, a list that is given by its places, and equal lists. *)
LEMMA ListPlaces ==
  ASSUME NEW S
  PROVE  /\ \A s \in Seq(S) : /\ Len(s) \in Nat /\ DOMAIN s = 1..Len(s)
                              /\ \A i \in 1..Len(s) : s[i] \in S
         /\ \A s, t \in Seq(S) : Len(s) = Len(t) /\ (\A i \in 1..Len(s) : s[i] = t[i]) => s = t
OBVIOUS

LEMMA ListOf ==
  ASSUME NEW S, NEW n \in Nat, NEW f \in [1..n -> S]
  PROVE  f \in Seq(S) /\ Len(f) = n
OBVIOUS

(* A byte is its two digits. *)
LEMMA Digits ==
  /\ \A b \in 0..255 : /\ b \div 16 \in 0..15 /\ b % 16 \in 0..15
                       /\ \A q, r \in Int : q = b \div 16 /\ r = b % 16 => 16 * q + r = b
  /\ \A n \in 0..15 : DigitOf(n) \in 0..255 /\ ValueOf(DigitOf(n)) = n
  /\ \A c \in 0..255 : ValueOf(c) \in (-1)..15
  /\ \A p, q \in 0..15 : 16 * p + q \in 0..255
<1>1. ASSUME NEW b \in 0..255
      PROVE  /\ b \div 16 \in 0..15 /\ b % 16 \in 0..15
             /\ \A q, r \in Int : q = b \div 16 /\ r = b % 16 => 16 * q + r = b
  OBVIOUS
<1>2. \A n \in 0..15 : DigitOf(n) \in 0..255 /\ ValueOf(DigitOf(n)) = n
  BY DEF DigitOf, ValueOf
<1>3. \A c \in 0..255 : ValueOf(c) \in (-1)..15
  BY DEF ValueOf
<1>4. ASSUME NEW p \in 0..15, NEW q \in 0..15
      PROVE  16 * p + q \in 0..255
  OBVIOUS
<1> QED BY <1>1, <1>2, <1>3, <1>4

LEMMA TwoDigits ==
  ASSUME NEW p \in 0..15, NEW q \in 0..15
  PROVE  (16 * p + q) \div 16 = p /\ (16 * p + q) % 16 = q
OBVIOUS

(* The digit of a number is the character that it was read from, in small letters. *)
SmallOf(c) == IF c \in 65..70 THEN c + 32 ELSE c

LEMMA SmallLetter ==
  ASSUME NEW c \in 0..255, ValueOf(c) \in 0..15
  PROVE  DigitOf(ValueOf(c)) = SmallOf(c)
BY DEF DigitOf, ValueOf, SmallOf

LEMMA EncodedFacts ==
  ASSUME NEW data \in Seq(0..255)
  PROVE  /\ HexEncode(data) \in Seq(0..255) /\ Len(HexEncode(data)) = 2 * Len(data)
         /\ \A i \in 1..Len(data) : /\ HexEncode(data)[2 * i - 1] = DigitOf(data[i] \div 16)
                                    /\ HexEncode(data)[2 * i] = DigitOf(data[i] % 16)
         /\ \A i \in 1..(2 * Len(data)) : \E j \in 1..Len(data) : i = 2 * j - 1 \/ i = 2 * j
<1> DEFINE n == Len(data)
           D(i) == DigitOf(IF i % 2 = 1 THEN data[(i + 1) \div 2] \div 16 ELSE data[i \div 2] % 16)
<1>1. n \in Nat /\ DOMAIN data = 1..n /\ \A i \in 1..n : data[i] \in 0..255
  BY ListPlaces
<1> HIDE DEF n
<1>2. HexEncode(data) = [i \in 1..(2 * n) |-> D(i)]
  BY DEF HexEncode, n
<1>3. \A i \in 1..n : /\ (2 * i) % 2 # 1 /\ (2 * i) \div 2 = i /\ (2 * i - 1) % 2 = 1 /\ (2 * i - 1 + 1) \div 2 = i
                      /\ 2 * i \in 1..(2 * n) /\ 2 * i - 1 \in 1..(2 * n)
  BY <1>1
<1>4. \A i \in 1..n : D(2 * i - 1) = DigitOf(data[i] \div 16) /\ D(2 * i) = DigitOf(data[i] % 16)
  BY <1>3
<1>5. ASSUME NEW i \in 1..(2 * n)
      PROVE  /\ D(i) \in 0..255
             /\ \E j \in 1..n : i = 2 * j - 1 \/ i = 2 * j
  <2>1. CASE i % 2 = 1
    <3> DEFINE j == (i + 1) \div 2
    <3>1. j \in 1..n /\ i = 2 * j - 1
      BY <1>1, <2>1
    <3> HIDE DEF j
    <3>2. data[j] \div 16 \in 0..15
      BY <1>1, <3>1, Digits
    <3>3. DigitOf(data[j] \div 16) \in 0..255
      BY <3>2, Digits
    <3> QED BY <2>1, <3>1, <3>3 DEF j
  <2>2. CASE i % 2 # 1
    <3> DEFINE j == i \div 2
    <3>1. j \in 1..n /\ i = 2 * j
      BY <1>1, <2>2
    <3> HIDE DEF j
    <3>2. data[j] % 16 \in 0..15
      BY <1>1, <3>1, Digits
    <3>3. DigitOf(data[j] % 16) \in 0..255
      BY <3>2, Digits
    <3> QED BY <2>2, <3>1, <3>3 DEF j
  <2> QED BY <2>1, <2>2
<1> HIDE DEF D
<1>6. HexEncode(data) \in Seq(0..255) /\ Len(HexEncode(data)) = 2 * n
  <2>1. 2 * n \in Nat
    BY <1>1
  <2>2. \A i \in 1..(2 * n) : D(i) \in 0..255
    BY <1>5
  <2>3. HexEncode(data) \in [1..(2 * n) -> 0..255]
    BY <1>2, <2>2, Zenon
  <2> HIDE DEF HexEncode
  <2> DEFINE f == HexEncode(data)
             k == 2 * n
  <2>4. f \in [1..k -> 0..255] /\ k \in Nat
    BY <2>1, <2>3
  <2> HIDE DEF f, k
  <2>5. f \in Seq(0..255) /\ Len(f) = k
    BY <2>4, ListOf
  <2> QED BY <2>5 DEF f, k
<1>7. \A i \in 1..n : HexEncode(data)[2 * i - 1] = D(2 * i - 1) /\ HexEncode(data)[2 * i] = D(2 * i)
  BY <1>2, <1>3
<1>8. \A i \in 1..(2 * n) : \E j \in 1..n : i = 2 * j - 1 \/ i = 2 * j
  BY <1>5
<1> QED BY <1>4, <1>6, <1>7, <1>8 DEF n

(* The first pair that is not two digits, or the place behind the last one. *)
BadPairs(str) == {i \in 1..(Len(str) \div 2) : ValueOf(str[2 * i - 1]) < 0 \/ ValueOf(str[2 * i]) < 0}

LEMMA DecodedFacts ==
  ASSUME NEW str \in Seq(0..255)
  PROVE  LET n == Len(HexDecode(str))
         IN  /\ HexDecode(str) \in Seq(0..255) /\ n \in Nat /\ 2 * n <= Len(str)
             /\ \A i \in 1..n : /\ HexDecode(str)[i] = 16 * ValueOf(str[2 * i - 1]) + ValueOf(str[2 * i])
                                /\ ValueOf(str[2 * i - 1]) \in 0..15 /\ ValueOf(str[2 * i]) \in 0..15
             /\ Len(str) % 2 = 0 /\ BadPairs(str) = {} => n = Len(str) \div 2
<1> DEFINE h == Len(str) \div 2
           stops == BadPairs(str) \cup {h + 1}
           m == Min(stops)
           n == IF Len(str) % 2 # 0 THEN 0 ELSE m - 1
           V(i) == 16 * ValueOf(str[2 * i - 1]) + ValueOf(str[2 * i])
<1>1. Len(str) \in Nat /\ h \in Nat /\ 2 * h <= Len(str)
  OBVIOUS
<1>e. \A i \in 1..Len(str) : str[i] \in 0..255
  BY ListPlaces
<1>2. HexDecode(str) = [i \in 1..n |-> V(i)]
  BY DEF HexDecode, BadPairs
<1>4. BadPairs(str) \subseteq 1..h
  BY DEF BadPairs
<1>3. m \in stops /\ \A k \in stops : m <= k
  <2>1. stops \in SUBSET Nat /\ stops # {}
    BY <1>1, <1>4
  <2> HIDE DEF stops
  <2>2. \E k \in stops : \A l \in stops : k <= l
    BY <2>1, LeastNumber
  <2> QED BY <2>2 DEF Min
<1> HIDE DEF m
<1>5. m \in 1..(h + 1) /\ n \in 0..h /\ (Len(str) % 2 = 0 /\ BadPairs(str) = {} => n = h)
  <2>1. m \in 1..(h + 1) /\ (BadPairs(str) = {} => m = h + 1)
    <3> HIDE DEF h
    <3> QED BY <1>1, <1>3, <1>4
  <2> HIDE DEF stops, h
  <2> QED BY <1>1, <2>1
<1>6. ASSUME NEW i \in 1..n
      PROVE  i \in 1..h /\ i \notin BadPairs(str)
  <2>1. i < m
    BY <1>5
  <2>2. i \notin stops
    <3> HIDE DEF stops, n
    <3> QED BY <1>1, <1>3, <1>5, <2>1
  <2> QED BY <1>1, <1>5, <2>2
<1> HIDE DEF n, stops
<1>7. ASSUME NEW i \in 1..n
      PROVE  /\ ValueOf(str[2 * i - 1]) \in 0..15 /\ ValueOf(str[2 * i]) \in 0..15 /\ V(i) \in 0..255
  <2> DEFINE c == str[2 * i - 1]
             d == str[2 * i]
  <2>1. i \in 1..h /\ i \notin BadPairs(str)
    BY <1>6
  <2>2. 2 * i - 1 \in 1..Len(str) /\ 2 * i \in 1..Len(str)
    <3> HIDE DEF h
    <3> QED BY <1>1, <2>1
  <2>3. c \in 0..255 /\ d \in 0..255
    BY <1>e, <2>2
  <2>4. ~(ValueOf(c) < 0) /\ ~(ValueOf(d) < 0)
    BY <2>1 DEF BadPairs
  <2> HIDE DEF c, d
  <2>5. ValueOf(c) \in (-1)..15 /\ ValueOf(d) \in (-1)..15
    BY <2>3, Digits
  <2>6. ValueOf(c) \in 0..15 /\ ValueOf(d) \in 0..15
    BY <2>4, <2>5
  <2>7. 16 * ValueOf(c) + ValueOf(d) \in 0..255
    BY <2>6, Digits
  <2> QED BY <2>6, <2>7 DEF c, d
<1> HIDE DEF V, h
<1>8. n \in Nat
  BY <1>1, <1>5
<1>9. HexDecode(str) \in Seq(0..255) /\ Len(HexDecode(str)) = n
  <2>1. \A i \in 1..n : V(i) \in 0..255
    BY <1>7
  <2>2. HexDecode(str) \in [1..n -> 0..255]
    BY <1>2, <2>1, Zenon
  <2> QED BY <1>8, <2>2, ListOf
<1>10. \A i \in 1..n : HexDecode(str)[i] = V(i)
  BY <1>2
<1>11. 2 * n <= Len(str)
  BY <1>1, <1>5, <1>8
<1> QED BY <1>5, <1>7, <1>8, <1>9, <1>10, <1>11 DEF V, h

(* What is encoded is decoded. *)
LEMMA HexRound ==
  ASSUME NEW data \in Seq(0..255)
  PROVE  HexDecode(HexEncode(data)) = data
<1> DEFINE str == HexEncode(data)
           L == Len(data)
<1>1. /\ str \in Seq(0..255) /\ Len(str) = 2 * L
      /\ \A i \in 1..L : str[2 * i - 1] = DigitOf(data[i] \div 16) /\ str[2 * i] = DigitOf(data[i] % 16)
  BY EncodedFacts
<1>2. L \in Nat /\ \A i \in 1..L : data[i] \in 0..255
  BY ListPlaces
<1> HIDE DEF str, L
<1>3. ASSUME NEW i \in 1..L
      PROVE  /\ ValueOf(str[2 * i - 1]) \in 0..15 /\ ValueOf(str[2 * i]) \in 0..15
             /\ 16 * ValueOf(str[2 * i - 1]) + ValueOf(str[2 * i]) = data[i]
  <2> DEFINE b == data[i]
             q == b \div 16
             r == b % 16
  <2>1. b \in 0..255
    BY <1>2
  <2>2. str[2 * i - 1] = DigitOf(q) /\ str[2 * i] = DigitOf(r)
    BY <1>1
  <2> HIDE DEF b
  <2>3. q \in 0..15 /\ r \in 0..15 /\ 16 * q + r = b
    <3>1. q \in 0..15 /\ r \in 0..15
      BY <2>1, Digits
    <3> DEFINE Q == q
               R == r
    <3>2. Q = b \div 16 /\ R = b % 16 /\ Q \in Int /\ R \in Int
      BY <3>1
    <3> HIDE DEF Q, R
    <3>3. 16 * Q + R = b
      BY <2>1, <3>2
    <3> QED BY <3>1, <3>3, Zenon DEF Q, R
  <2> HIDE DEF q, r
  <2>4. ValueOf(DigitOf(q)) = q /\ ValueOf(DigitOf(r)) = r
    BY <2>3, Digits
  <2> QED BY <2>2, <2>3, <2>4 DEF b
<1>4. Len(str) % 2 = 0 /\ Len(str) \div 2 = L
  BY <1>1, <1>2
<1>5. BadPairs(str) = {}
  <2>1. ASSUME NEW i \in 1..L PROVE ~(ValueOf(str[2 * i - 1]) < 0) /\ ~(ValueOf(str[2 * i]) < 0)
    <3> DEFINE v == ValueOf(str[2 * i - 1])
               w == ValueOf(str[2 * i])
    <3>1. v \in 0..15 /\ w \in 0..15
      BY <1>3
    <3> HIDE DEF v, w
    <3>2. ~(v < 0) /\ ~(w < 0)
      BY <3>1
    <3> QED BY <3>2 DEF v, w
  <2> QED BY <1>4, <2>1 DEF BadPairs
<1>6. /\ HexDecode(str) \in Seq(0..255) /\ Len(HexDecode(str)) = L
      /\ \A i \in 1..L : HexDecode(str)[i] = 16 * ValueOf(str[2 * i - 1]) + ValueOf(str[2 * i])
  BY <1>1, <1>4, <1>5, DecodedFacts
<1>7. \A i \in 1..L : HexDecode(str)[i] = data[i]
  BY <1>3, <1>6
<1>8. HexDecode(str) = data
  BY <1>6, <1>7, ListPlaces DEF L
<1> QED BY <1>8 DEF str

(* A list that another one begins with has its first elements. *)
LEMMA PrefixPlaces ==
  ASSUME NEW S, NEW s \in Seq(S), NEW t \in Seq(S), Len(s) <= Len(t),
         \A i \in 1..Len(s) : s[i] = t[i]
  PROVE  IsPrefix(s, t)
<1> DEFINE n == Len(s)
<1>1. n \in Nat /\ Len(t) \in Nat /\ n <= Len(t)
  OBVIOUS
<1>2. SubSeq(s, 1, n) = [i \in 1..n |-> s[i]]
  BY <1>1
<1>3. SubSeq(t, 1, n) = [i \in 1..n |-> t[i]]
  BY <1>1
<1> QED BY <1>1, <1>2, <1>3 DEF IsPrefix

(* What is decoded is spelled by the digits: encoded again, it gives the first of
   them, in small letters. *)
LEMMA HexSpells ==
  ASSUME NEW str \in Seq(0..255)
  PROVE  IsPrefix(HexEncode(HexDecode(str)), Lower(str))
<1> DEFINE data == HexDecode(str)
           e == HexEncode(data)
           n == Len(data)
           low == Lower(str)
<1>1. /\ data \in Seq(0..255) /\ n \in Nat /\ 2 * n <= Len(str)
      /\ \A i \in 1..n : /\ data[i] = 16 * ValueOf(str[2 * i - 1]) + ValueOf(str[2 * i])
                         /\ ValueOf(str[2 * i - 1]) \in 0..15 /\ ValueOf(str[2 * i]) \in 0..15
  BY DecodedFacts
<1>2. Len(str) \in Nat /\ DOMAIN str = 1..Len(str) /\ \A i \in 1..Len(str) : str[i] \in 0..255
  BY ListPlaces
<1> HIDE DEF data
<1>3. /\ e \in Seq(0..255) /\ Len(e) = 2 * n
      /\ \A i \in 1..n : e[2 * i - 1] = DigitOf(data[i] \div 16) /\ e[2 * i] = DigitOf(data[i] % 16)
      /\ \A i \in 1..(2 * n) : \E j \in 1..n : i = 2 * j - 1 \/ i = 2 * j
  BY <1>1, EncodedFacts
<1> HIDE DEF e, n
<1>4. /\ low \in Seq(0..287) /\ Len(low) = Len(str)
      /\ \A i \in 1..Len(str) : low[i] = IF str[i] \in 65..70 THEN str[i] + 32 ELSE str[i]
  <2> DEFINE W(i) == IF str[i] \in 65..70 THEN str[i] + 32 ELSE str[i]
  <2>1. low = [i \in 1..Len(str) |-> W(i)]
    BY <1>2 DEF Lower
  <2>2. ASSUME NEW i \in 1..Len(str) PROVE W(i) \in 0..287
    <3> DEFINE c == str[i]
    <3>1. c \in 0..255
      BY <1>2
    <3> HIDE DEF c
    <3>2. (IF c \in 65..70 THEN c + 32 ELSE c) \in 0..287
      BY <3>1
    <3> QED BY <3>2 DEF c
  <2> HIDE DEF W, low
  <2>3. \A i \in 1..Len(str) : W(i) \in 0..287
    BY <2>2
  <2>4. low \in [1..Len(str) -> 0..287]
    BY <2>1, <2>3, Zenon
  <2>5. low \in Seq(0..287) /\ Len(low) = Len(str)
    <3> DEFINE k == Len(str)
    <3>1. k \in Nat /\ low \in [1..k -> 0..287]
      BY <1>2, <2>4
    <3> HIDE DEF k
    <3>2. low \in Seq(0..287) /\ Len(low) = k
      BY <3>1, ListOf
    <3> QED BY <3>2 DEF k
  <2>6. \A i \in 1..Len(str) : low[i] = W(i)
    BY <2>1
  <2> QED BY <2>5, <2>6 DEF W
<1> HIDE DEF low
<1>5. ASSUME NEW j \in 1..n
      PROVE  e[2 * j - 1] = low[2 * j - 1] /\ e[2 * j] = low[2 * j]
  <2> DEFINE c == str[2 * j - 1]
             d == str[2 * j]
             p == ValueOf(c)
             q == ValueOf(d)
  <2>1. 2 * j - 1 \in 1..Len(str) /\ 2 * j \in 1..Len(str)
    BY <1>1, <1>2
  <2>2. c \in 0..255 /\ d \in 0..255
    BY <1>2, <2>1
  <2>3. data[j] = 16 * p + q /\ p \in 0..15 /\ q \in 0..15
    BY <1>1
  <2>4. e[2 * j - 1] = DigitOf(data[j] \div 16) /\ e[2 * j] = DigitOf(data[j] % 16)
    BY <1>3
  <2>5. low[2 * j - 1] = SmallOf(c) /\ low[2 * j] = SmallOf(d)
    BY <1>4, <2>1 DEF SmallOf
  <2>6. DigitOf(p) = SmallOf(c) /\ DigitOf(q) = SmallOf(d)
    BY <2>2, <2>3, SmallLetter
  <2> HIDE DEF c, d
  <2> HIDE DEF p, q
  <2>7. data[j] \div 16 = p /\ data[j] % 16 = q
    <3> DEFINE b == 16 * p + q
    <3>1. b \div 16 = p /\ b % 16 = q
      BY <2>3, TwoDigits
    <3>2. data[j] = b
      BY <2>3
    <3> HIDE DEF b
    <3> QED BY <3>1, <3>2
  <2> QED BY <2>4, <2>5, <2>6, <2>7
<1>6. \A i \in 1..(2 * n) : e[i] = low[i]
  BY <1>3, <1>5
<1>7. e \in Seq(0..287)
  <2>1. \A i \in 1..Len(e) : e[i] \in 0..255
    BY <1>3, ListPlaces
  <2>2. Len(e) \in Nat /\ e \in [1..Len(e) -> 0..287]
    <3>1. Len(e) \in Nat /\ e = [i \in 1..Len(e) |-> e[i]]
      BY <1>3
    <3>2. \A i \in 1..Len(e) : e[i] \in 0..287
      <4>1. 0..255 \subseteq 0..287
        OBVIOUS
      <4> QED BY <2>1, <4>1
    <3> QED BY <3>1, <3>2, Zenon
  <2> DEFINE k == Len(e)
  <2>3. k \in Nat /\ e \in [1..k -> 0..287]
    BY <2>2
  <2> HIDE DEF k
  <2> QED BY <2>3, ListOf
<1>8. IsPrefix(e, low)
  BY <1>1, <1>3, <1>4, <1>6, <1>7, PrefixPlaces DEF n
<1> QED BY <1>8 DEF e, low, data

(* The server has what it makes of the argument, and the answer is the one to the
   challenge. *)
AuthDataInv ==
  /\ ownId \in Seq(1..255)
  /\ serverId # NotYet =>
       claim \in Seq(0..255) /\ serverId = HexDecode(claim) /\ asked = CString(serverId)
  /\ cookieReply # NotYet =>
       \E local \in Randoms :
         LET s == ParseServerData(challenge)
             cookie == GetCookie(keyring, s.id)
         IN  /\ challenge \in Challenges /\ keyring \in Keyrings
             /\ cookieReply =
                  IF s = NotYet THEN [local |-> NotYet]
                  ELSE IF cookie = <<>> THEN [local |-> NotYet]
                  ELSE [local |-> HexEncode(local), digest |-> ShaText(s.data, local, cookie)]

LEMMA ListCuts ==
  ASSUME NEW S, NEW s \in Seq(S)
  PROVE  /\ s = [i \in 1..Len(s) |-> s[i]]
         /\ s # <<>> => Tail(s) \in Seq(S) /\ Len(Tail(s)) = Len(s) - 1
         /\ Len(s) = 0 <=> s = <<>>
         /\ \A n \in Nat : n <= Len(s) =>
              /\ SubSeq(s, 1, n) \in Seq(S) /\ Len(SubSeq(s, 1, n)) = n
              /\ \A i \in 1..n : SubSeq(s, 1, n)[i] = s[i]
OBVIOUS

LEMMA TextBytes == \A s \in Seq(1..255) : s \in Seq(0..255)
<1> SUFFICES ASSUME NEW s \in Seq(1..255) PROVE s \in Seq(0..255)
  OBVIOUS
<1> DEFINE k == Len(s)
<1>1. k \in Nat /\ s = [i \in 1..k |-> s[i]] /\ \A i \in 1..k : s[i] \in 1..255
  BY ListPlaces, ListCuts
<1> HIDE DEF k
<1>2. \A i \in 1..k : s[i] \in 0..255
  BY <1>1
<1>3. s \in [1..k -> 0..255]
  BY <1>1, <1>2, Zenon
<1> QED BY <1>1, <1>3, ListOf

LEMMA AuthDataStarts == AuthDataInit => AuthDataInv
BY AuthDataAssumption DEF AuthDataInit, AuthDataInv

LEMMA AuthDataSteps == AuthDataInv /\ [AuthDataNext]_authDataVars => AuthDataInv'
<1> SUFFICES ASSUME AuthDataInv, [AuthDataNext]_authDataVars PROVE AuthDataInv'
  OBVIOUS
<1>1. CASE Identify
  <2>1. ownId \in Seq(0..255)
    BY TextBytes DEF AuthDataInv
  <2>2. claim' \in Seq(0..255)
    BY <1>1, <2>1, EncodedFacts DEF Identify
  <2> QED BY <1>1, <2>2 DEF AuthDataInv, Identify, ServerAuth
<1>2. ASSUME NEW digits \in Claims, ClaimOther(digits) PROVE AuthDataInv'
  <2>1. digits \in Seq(0..255)
    BY AuthDataAssumption
  <2> QED BY <1>2, <2>1 DEF AuthDataInv, ClaimOther, ServerAuth
<1>3. ASSUME NEW words \in Challenges, NEW file \in Keyrings, NEW local \in Randoms,
             AnswerChallenge(words, file, local)
      PROVE  AuthDataInv'
  BY <1>3 DEF AuthDataInv, AnswerChallenge
<1>4. CASE UNCHANGED authDataVars
  BY <1>4 DEF AuthDataInv, authDataVars
<1> QED BY <1>1, <1>2, <1>3, <1>4 DEF AuthDataNext

(* The least of some places. *)
LEMMA LeastPlace ==
  ASSUME NEW T \in SUBSET Nat, T # {}
  PROVE  Min(T) \in T /\ \A k \in T : Min(T) <= k
<1>1. \E n \in T : \A k \in T : n <= k
  BY LeastNumber
<1> QED BY <1>1 DEF Min

(* A char* shows all of a string without a byte 0, and else what is in front of one. *)
LEMMA CStringFacts ==
  ASSUME NEW s \in Seq(0..255)
  PROVE  /\ IsPrefix(CString(s), s)
         /\ CString(s) # s => s[Len(CString(s)) + 1] = 0
         /\ (\A i \in 1..Len(s) : s[i] # 0) => CString(s) = s
<1> DEFINE ends == {i \in DOMAIN s : s[i] = 0} \cup {Len(s) + 1}
           m == Min(ends)
<1>1. Len(s) \in Nat /\ DOMAIN s = 1..Len(s) /\ ends \in SUBSET Nat /\ ends # {}
  OBVIOUS
<1>2. m \in ends
  <2> HIDE DEF ends
  <2> QED BY <1>1, LeastPlace
<1>3. m \in 1..(Len(s) + 1) /\ (m # Len(s) + 1 => m \in DOMAIN s /\ s[m] = 0)
  <2> HIDE DEF m
  <2> QED BY <1>1, <1>2
<1>4. CString(s) = SubSeq(s, 1, m - 1)
  BY DEF CString
<1> HIDE DEF m, ends
<1> DEFINE c == CString(s)
           n == m - 1
<1>5. n \in Nat /\ n <= Len(s)
  BY <1>1, <1>3
<1>6. c = SubSeq(s, 1, n)
  BY <1>4
<1> HIDE DEF c, n
<1>7. c \in Seq(0..255) /\ Len(c) = n /\ \A i \in 1..n : c[i] = s[i]
  <2> DEFINE B == 0..255
  <2>1. s \in Seq(B)
    OBVIOUS
  <2> HIDE DEF B
  <2>2. c \in Seq(B) /\ Len(c) = n /\ \A i \in 1..n : c[i] = s[i]
    <3>1. \A k \in Nat : k <= Len(s) =>
            /\ SubSeq(s, 1, k) \in Seq(B) /\ Len(SubSeq(s, 1, k)) = k
            /\ \A i \in 1..k : SubSeq(s, 1, k)[i] = s[i]
      BY <2>1, ListCuts
    <3>2. /\ SubSeq(s, 1, n) \in Seq(B) /\ Len(SubSeq(s, 1, n)) = n
          /\ \A i \in 1..n : SubSeq(s, 1, n)[i] = s[i]
      BY <1>5, <3>1, Zenon
    <3> QED BY <1>6, <3>2, Zenon
  <2> QED BY <2>2 DEF B
<1>8. IsPrefix(c, s)
  BY <1>1, <1>5, <1>7, PrefixPlaces
<1>9. n = Len(s) => c = s
  BY <1>1, <1>7, ListPlaces
<1>10. n # Len(s) => n + 1 \in 1..Len(s) /\ s[n + 1] = 0
  <2>1. n # Len(s) => m # Len(s) + 1 /\ n + 1 = m
    BY <1>1, <1>3 DEF n
  <2> QED BY <1>1, <1>3, <2>1
<1> QED BY <1>1, <1>7, <1>8, <1>9, <1>10 DEF c

LEMMA IdentityFollows == AuthDataInv => IdentityKept
<1> SUFFICES ASSUME AuthDataInv, serverId # NotYet
             PROVE  /\ claim = HexEncode(ownId) => asked = ownId
                    /\ IsPrefix(HexEncode(serverId), Lower(claim))
                    /\ IsPrefix(asked, serverId)
                    /\ asked # serverId => serverId[Len(asked) + 1] = 0
  BY DEF IdentityKept
<1>1. /\ ownId \in Seq(1..255) /\ claim \in Seq(0..255) /\ serverId = HexDecode(claim)
      /\ asked = CString(serverId)
  BY DEF AuthDataInv
<1>2. ownId \in Seq(0..255) /\ serverId \in Seq(0..255)
  BY <1>1, TextBytes, DecodedFacts
<1>3. /\ IsPrefix(asked, serverId)
      /\ asked # serverId => serverId[Len(asked) + 1] = 0
  BY <1>1, <1>2, CStringFacts
<1>4. IsPrefix(HexEncode(serverId), Lower(claim))
  BY <1>1, HexSpells
<1>5. ASSUME claim = HexEncode(ownId) PROVE asked = ownId
  <2>1. serverId = ownId
    BY <1>1, <1>2, <1>5, HexRound
  <2>2. \A i \in 1..Len(ownId) : ownId[i] # 0
    <3>1. \A i \in 1..Len(ownId) : ownId[i] \in 1..255
      BY <1>1, ListPlaces
    <3>2. 0 \notin 1..255
      OBVIOUS
    <3> QED BY <3>1, <3>2
  <2> QED BY <1>1, <1>2, <2>1, <2>2, CStringFacts
<1> QED BY <1>3, <1>4, <1>5

LEMMA CookieFollows == AuthDataInv => CookieOfChallenge
<1> SUFFICES ASSUME AuthDataInv, cookieReply # NotYet PROVE CookieOfChallenge
  BY DEF CookieOfChallenge
<1> DEFINE s == ParseServerData(challenge)
           cookie == GetCookie(keyring, s.id)
           found == {i \in DOMAIN keyring : IsPrefix(s.id, keyring[i].id)}
           mine == LinesOf(s.id)
           first == Min(mine)
<1>1. PICK local \in Randoms :
        /\ challenge \in Challenges /\ keyring \in Keyrings
        /\ cookieReply =
             IF s = NotYet THEN [local |-> NotYet]
             ELSE IF cookie = <<>> THEN [local |-> NotYet]
             ELSE [local |-> HexEncode(local), digest |-> ShaText(s.data, local, cookie)]
  BY DEF AuthDataInv
<1>2. local \in Seq(0..255) /\ HexDecode(HexEncode(local)) = local /\ HexEncode(local) # NotYet
  BY AuthDataAssumption, HexRound, EncodedFacts
<1>3. cookie = IF keyring = NotYet \/ found = {} THEN <<>>
               ELSE CookieIn(keyring[Min(found)], s.id)
  BY DEF GetCookie
<1>4. s = NotYet \/ cookie = <<>> => cookieReply.local = NotYet
  BY <1>1
<1>5. s # NotYet /\ cookie # <<>> =>
        /\ cookieReply.local = HexEncode(local)
        /\ cookieReply.digest = ShaText(s.data, local, cookie)
  BY <1>1
<1>6. ASSUME s # NotYet, keyring # NotYet, mine # {},
             \A i \in DOMAIN keyring : i < first => ~IsPrefix(s.id, keyring[i].id)
      PROVE  /\ Len(keyring[first].rest) < 2 => cookie = <<>>
             /\ ~(Len(keyring[first].rest) < 2) =>
                  cookie = Tail(keyring[first].rest) /\ cookie # <<>>
  <2>1. DOMAIN keyring \in SUBSET Nat
    BY <1>1, <1>6, AuthDataAssumption
  <2>2. mine \in SUBSET Nat /\ found \in SUBSET Nat
    BY <2>1 DEF LinesOf
  <2>3. first \in mine /\ first \in DOMAIN keyring /\ keyring[first].id = s.id
    <3>1. first \in mine
      BY <1>6, <2>2, LeastPlace
    <3> QED BY <3>1 DEF LinesOf
  <2>4. s.id \in Seq(0..255)
    <3>1. ~(Len(challenge) < 3) /\ s.id = challenge[2]
      BY <1>6 DEF ParseServerData
    <3> QED BY <1>1, <3>1, AuthDataAssumption
  <2>5. IsPrefix(s.id, s.id)
    <3> HIDE DEF s
    <3>1. Len(s.id) <= Len(s.id)
      BY <2>4
    <3> QED BY <2>4, <3>1, PrefixPlaces
  <2>6. first \in found
    BY <2>3, <2>5
  <2>7. Min(found) \in found /\ Min(found) <= first
    BY <2>2, <2>6, LeastPlace
  <2> HIDE DEF first, mine
  <2>8. ~(Min(found) < first)
    BY <1>6, <2>7
  <2>9. Min(found) = first
    <3> DEFINE m == Min(found)
    <3>1. m \in Nat /\ first \in Nat /\ m <= first /\ ~(m < first)
      BY <2>2, <2>6, <2>7, <2>8
    <3> HIDE DEF m
    <3>2. m = first
      BY <3>1
    <3> QED BY <3>2 DEF m
  <2>10. cookie = IF keyring[first].rest = <<>> THEN <<>> ELSE Tail(keyring[first].rest)
    <3> HIDE DEF found, s, cookie
    <3> QED BY <1>3, <1>6, <2>3, <2>6, <2>9 DEF CookieIn
  <2> DEFINE rest == keyring[first].rest
             W == Range(rest)
  <2>11. rest \in Seq(W)
    BY <1>1, <1>6, <2>3, AuthDataAssumption
  <2>12. cookie = IF rest = <<>> THEN <<>> ELSE Tail(rest)
    BY <2>10
  <2> HIDE DEF rest, W, cookie
  <2>13. /\ Len(rest) < 2 => cookie = <<>>
         /\ ~(Len(rest) < 2) => cookie = Tail(rest) /\ cookie # <<>>
    <3>1. Len(rest) \in Nat /\ (Len(rest) = 0 <=> rest = <<>>)
      BY <2>11, ListPlaces, ListCuts
    <3>2. rest # <<>> => /\ Tail(rest) \in Seq(W) /\ Len(Tail(rest)) = Len(rest) - 1
                         /\ Len(Tail(rest)) = 0 <=> Tail(rest) = <<>>
      BY <2>11, ListCuts
    <3> QED BY <2>12, <3>1, <3>2
  <2> QED BY <2>13 DEF rest
<1>12. ASSUME s # NotYet, keyring # NotYet, NEW i \in DOMAIN keyring,
              \A j \in DOMAIN keyring : IsPrefix(s.id, keyring[j].id) => i <= j,
              IsPrefix(s.id, keyring[i].id), i \notin mine
       PROVE  cookie = keyring[i].rest
  <2>1. DOMAIN keyring \in SUBSET Nat
    BY <1>1, <1>12, AuthDataAssumption
  <2>2. found \in SUBSET Nat /\ i \in found /\ keyring[i].id # s.id
    BY <1>12, <2>1 DEF LinesOf
  <2>3. Min(found) \in found /\ Min(found) <= i
    BY <2>2, LeastPlace
  <2>4. i <= Min(found)
    BY <1>12, <2>3
  <2>5. Min(found) = i
    <3> DEFINE m == Min(found)
    <3>1. m \in Nat /\ i \in Nat /\ m <= i /\ i <= m
      BY <2>2, <2>3, <2>4
    <3> HIDE DEF m
    <3>2. m = i
      BY <3>1
    <3> QED BY <3>2 DEF m
  <2> HIDE DEF found, s, cookie
  <2> QED BY <1>3, <1>12, <2>2, <2>5 DEF CookieIn
<1> HIDE DEF s, cookie, found, mine, first
<1>7. cookie # <<>> => keyring # NotYet /\ found # {}
  BY <1>3
<1>8. s # NotYet /\ keyring # NotYet =>
        (cookieReply.local # NotYet => \E i \in DOMAIN keyring : IsPrefix(s.id, keyring[i].id))
  <2>1. found # {} => \E i \in DOMAIN keyring : IsPrefix(s.id, keyring[i].id)
    BY DEF found
  <2> QED BY <1>4, <1>7, <2>1
<1>9. s # NotYet /\ cookie # <<>> => AnswersWith(s, cookie)
  BY <1>2, <1>5 DEF AnswersWith
<1>13. ASSUME s # NotYet, keyring # NotYet, mine # {},
              \A i \in DOMAIN keyring : i < first => ~IsPrefix(s.id, keyring[i].id)
       PROVE  IF Len(keyring[first].rest) < 2 THEN cookieReply.local = NotYet
              ELSE AnswersWith(s, Tail(keyring[first].rest))
  BY <1>4, <1>6, <1>9, <1>13
<1>14. ASSUME s # NotYet, keyring # NotYet, NEW i \in DOMAIN keyring,
              \A j \in DOMAIN keyring : IsPrefix(s.id, keyring[j].id) => i <= j,
              IsPrefix(s.id, keyring[i].id), i \notin mine
       PROVE  cookieReply.local = NotYet \/ AnswersWith(s, keyring[i].rest)
  BY <1>4, <1>9, <1>12, <1>14
<1>10. s = NotYet => cookieReply.local = NotYet
  BY <1>4
<1>11. s # NotYet /\ keyring = NotYet => cookieReply.local = NotYet
  BY <1>4, <1>7
<1> QED BY <1>8, <1>10, <1>11, <1>13, <1>14 DEF CookieOfChallenge, s, mine, first

(* The data of the handshake survive their encoding: the server's callback is asked
   about the identity that the client has, about no other than its digits spell, and
   about what is in front of a byte 0; a client answers a challenge with the cookie that was
   asked for, or with what follows the identifier of a line in front of it that goes on. *)
THEOREM AuthDataIsSound == AuthDataSpec => []AuthDataSound
<1>1. AuthDataInv => AuthDataSound
  BY IdentityFollows, CookieFollows DEF AuthDataSound
<1> QED BY <1>1, AuthDataStarts, AuthDataSteps, PTL DEF AuthDataSpec

-----------------------------------------------------------------------------
(***************************************************************************)
(* The headers of messages (module Received): what adbus_msg_build writes  *)
(* adbus_parse reads, and whatever was received, callbacks find the fields *)
(* that they rely on.                                                      *)
(*                                                                         *)
(* The structure that the loop of adbus_conn_parse keeps is complete from  *)
(* the first message on: a message of an unknown type leaves it as it is,  *)
(* and one that fails ends the loop.                                       *)
(***************************************************************************)

Values == 0..MaxStamp \cup {NoValue}
HeaderFields == [code : INVALID..Unknown, sig : {"o", "g", "u", "s"}, val : 0..MaxStamp]

(* x is the value of the last of the first n fields that has the code c. *)
LastOf(fs, n, c, x) ==
  IF \A i \in 1..n : fs[i].code # c THEN x = NoValue
  ELSE \E i \in 1..n : /\ fs[i].code = c /\ x = fs[i].val
                       /\ \A j \in 1..n : fs[j].code = c => j <= i

(* The recursion of Taken: the function that it defines exists. *)
LEMMA TakenUnfolds ==
  ASSUME NEW fs \in Seq(HeaderFields)
  PROVE  \E K \in [0..Len(fs) -> [Codes -> Values]] :
           /\ K[0] = NoFields
           /\ \A n \in 1..Len(fs) : K[n] = TakeField(K[n - 1], fs[n])
           /\ Taken(fs) = K[Len(fs)]
<1> DEFINE n == Len(fs)
           Step(g, i) == IF i = 0 THEN NoFields ELSE TakeField(g[i - 1], fs[i])
           Fits(g) == g = [i \in 0..n |-> Step(g, i)]
           G == CHOOSE g : Fits(g)
           T == [Codes -> Values]
<1>1. n \in Nat /\ \A i \in 1..n : fs[i] \in HeaderFields
  OBVIOUS
<1>2. Taken(fs) = G[n]
  BY Zenon DEF Taken
<1>3. \A x \in T, i \in 1..n : TakeField(x, fs[i]) \in T
  BY <1>1 DEF TakeField, HeaderFields, Values
<1>4. NoFields \in T
  BY DEF NoFields, Values
<1> HIDE DEF n, T
<1>5. PICK K \in [0..n -> T] : K[0] = NoFields /\ \A i \in 1..n : K[i] = TakeField(K[i - 1], fs[i])
  <2> DEFINE F == [i \in 1..n |-> [x \in T |-> TakeField(x, fs[i])]]
  <2>1. F \in [1..n -> [T -> T]]
    BY <1>3
  <2>2. \A i \in 1..n, x \in T : F[i][x] = TakeField(x, fs[i])
    OBVIOUS
  <2> DEFINE none == NoFields
  <2>0. none \in T /\ n \in Nat
    BY <1>1, <1>4
  <2> HIDE DEF F, none
  <2>3. \E K \in [0..n -> T] : K[0] = none /\ \A i \in 1..n : K[i] = F[i][K[i - 1]]
    BY <2>0, <2>1, RecursionExists, SMTT(30)
  <2>4. PICK K \in [0..n -> T] : K[0] = NoFields /\ \A i \in 1..n : K[i] = F[i][K[i - 1]]
    BY <2>3 DEF none
  <2>5. \A i \in 1..n : K[i - 1] \in T
    BY <1>1
  <2>6. \A i \in 1..n : K[i] = TakeField(K[i - 1], fs[i])
    BY <2>2, <2>4, <2>5
  <2> QED BY <2>4, <2>6
<1>6. K = [i \in 0..n |-> Step(K, i)]
  <2>1. \A i \in 0..n : K[i] = Step(K, i)
    <3> TAKE i \in 0..n
    <3>1. CASE i = 0
      BY <1>5, <3>1
    <3>2. CASE i # 0
      <4>1. i \in 1..n
        BY <1>1, <3>2
      <4> QED BY <1>5, <3>2, <4>1
    <3> QED BY <3>1, <3>2
  <2>2. K = [i \in 0..n |-> K[i]]
    BY <1>5
  <2> HIDE DEF Step
  <2> QED BY <2>1, <2>2
<1>7. Fits(G)
  <2>1. \E g : Fits(g)
    BY <1>6
  <2> HIDE DEF Fits
  <2> QED BY <2>1
<1> HIDE DEF G
<1>8. \A i \in 0..n : G[i] = Step(G, i)
  <2> HIDE DEF Step
  <2> QED BY <1>7
<1> DEFINE Good == {i \in Nat : i \in 0..n => G[i] = K[i]}
<1>9. 0 \in Good
  <2>1. 0 \in 0..n
    BY <1>1
  <2>2. G[0] = NoFields
    BY <1>8, <2>1
  <2> QED BY <1>5, <2>2
<1>10. ASSUME NEW i \in 1..n, i - 1 \in Good PROVE i \in Good
  <2>1. i \in 0..n /\ i - 1 \in 0..n /\ i # 0 /\ i \in Nat
    BY <1>1
  <2>2. G[i] = TakeField(G[i - 1], fs[i])
    BY <1>8, <2>1
  <2>3. G[i - 1] = K[i - 1]
    BY <1>10, <2>1
  <2>4. G[i] = K[i]
    BY <1>5, <2>2, <2>3
  <2> QED BY <2>1, <2>4
<1>11. G[n] = K[n]
  <2>1. Good \in SUBSET Nat /\ \A i \in 1..n : i - 1 \in Good => i \in Good
    BY <1>10
  <2> HIDE DEF Good
  <2>2. \A i \in 0..n : i \in Good
    BY <1>1, <1>9, <2>1, UpTo
  <2> QED BY <1>1, <2>2 DEF Good
<1> QED BY <1>2, <1>5, <1>11 DEF n, T

(* The loop leaves the last value of each code. *)
LEMMA TakenFacts ==
  ASSUME NEW fs \in Seq(HeaderFields)
  PROVE  /\ Taken(fs) \in [Codes -> Values]
         /\ \A c \in Codes : LastOf(fs, Len(fs), c, Taken(fs)[c])
<1> DEFINE n == Len(fs)
<1>1. n \in Nat /\ \A i \in 1..n : fs[i] \in HeaderFields
  OBVIOUS
<1> HIDE DEF n
<1>2. PICK K \in [0..n -> [Codes -> Values]] :
        /\ K[0] = NoFields
        /\ \A i \in 1..n : K[i] = TakeField(K[i - 1], fs[i])
        /\ Taken(fs) = K[n]
  BY TakenUnfolds DEF n
<1> DEFINE Right(i) == \A c \in Codes : LastOf(fs, i, c, K[i][c])
           Good == {i \in Nat : Right(i)}
<1>3. 0 \in Good
  <2>1. ASSUME NEW c \in Codes PROVE LastOf(fs, 0, c, K[0][c])
    BY <1>2 DEF LastOf, NoFields
  <2>2. Right(0)
    BY <2>1
  <2> HIDE DEF Right
  <2> QED BY <2>2
<1>4. ASSUME NEW i \in 1..n, i - 1 \in Good PROVE i \in Good
  <2>1. Right(i - 1) /\ i \in Nat
    <3> HIDE DEF Right
    <3> QED BY <1>1, <1>4
  <2>2. ASSUME NEW c \in Codes PROVE LastOf(fs, i, c, K[i][c])
    <3>1. LastOf(fs, i - 1, c, K[i - 1][c])
      BY <2>1
    <3>2. K[i - 1] \in [Codes -> Values] /\ fs[i] \in HeaderFields
      BY <1>1
    <3>3. \A j \in 1..i : j = i \/ j \in 1..(i - 1)
      BY <1>1
    <3>4. CASE fs[i].code = c
      <4>1. K[i][c] = fs[i].val
        BY <1>2, <3>2, <3>4 DEF TakeField
      <4>2. i \in 1..i /\ \A j \in 1..i : j <= i
        BY <1>1
      <4> QED BY <3>4, <4>1, <4>2 DEF LastOf
    <3>5. CASE fs[i].code # c
      <4>1. K[i][c] = K[i - 1][c]
        BY <1>2, <3>2, <3>5 DEF TakeField
      <4>2. \A j \in 1..(i - 1) : j \in 1..i
        BY <1>1
      <4> QED BY <3>1, <3>3, <3>5, <4>1, <4>2 DEF LastOf
    <3> QED BY <3>4, <3>5
  <2>3. Right(i)
    BY <2>2
  <2> HIDE DEF Right
  <2> QED BY <2>1, <2>3
<1>5. Right(n)
  <2>1. Good \in SUBSET Nat /\ \A i \in 1..n : i - 1 \in Good => i \in Good
    BY <1>4
  <2> HIDE DEF Good
  <2>2. \A i \in 0..n : i \in Good
    BY <1>1, <1>3, <2>1, UpTo
  <2> QED BY <1>1, <2>2 DEF Good
<1>6. K[n] \in [Codes -> Values]
  BY <1>1
<1> QED BY <1>2, <1>5, <1>6 DEF n

(* A code has a value if a field has it. *)
LEMMA TakenIsSet ==
  ASSUME NEW fs \in Seq(HeaderFields), NEW c \in Codes
  PROVE  (Taken(fs)[c] # NoValue) <=> \E i \in DOMAIN fs : fs[i].code = c
<1>1. LastOf(fs, Len(fs), c, Taken(fs)[c])
  BY TakenFacts
<1>2. DOMAIN fs = 1..Len(fs) /\ \A i \in DOMAIN fs : fs[i].val # NoValue
  <2>1. DOMAIN fs = 1..Len(fs) /\ \A i \in DOMAIN fs : fs[i] \in HeaderFields
    OBVIOUS
  <2>2. \A f \in HeaderFields : f.val # NoValue
    BY ReceivedAssumption DEF HeaderFields
  <2> QED BY <2>1, <2>2
<1> QED BY <1>1, <1>2 DEF LastOf

(* What adbus_msg_build writes. *)
LEMMA WrittenFacts ==
  ASSUME NEW codes \in SUBSET Codes, NEW n \in 0..MaxStamp
  PROVE  /\ Written(codes, n) \in Seq(HeaderFields)
         /\ \A i \in DOMAIN Written(codes, n) :
              Written(codes, n)[i].code \in codes /\ FieldOK(Written(codes, n)[i])
         /\ \A c \in codes : \E i \in DOMAIN Written(codes, n) : Written(codes, n)[i].code = c
<1> DEFINE order == <<INTERFACE, MEMBER, ERROR_NAME, DESTINATION, SENDER, PATH, REPLY_SERIAL, SIGNATURE>>
           set == Without(order, Codes \ codes)
           field(i) == [code |-> set[i], sig |-> TypeOf(set[i]), val |-> n]
<1>0. Codes = 1..8
  BY DEF Codes, PATH, SIGNATURE
<1>1. order \in Seq(Codes)
  BY <1>0 DEF INTERFACE, MEMBER, ERROR_NAME, DESTINATION, SENDER, PATH, REPLY_SERIAL, SIGNATURE
<1>2. ToSet(order) = Codes
  <2>1. ToSet(order) = {2, 3, 4, 6, 7, 1, 5, 8}
    BY DEF ToSet, INTERFACE, MEMBER, ERROR_NAME, DESTINATION, SENDER, PATH, REPLY_SERIAL, SIGNATURE
  <2> QED BY <1>0, <2>1
<1> HIDE DEF order
<1>3. set \in Seq(Codes) /\ ToSet(set) = codes
  <2>1. ToSet(set) = Codes \ (Codes \ codes) /\ set \in Seq(Codes)
    BY <1>1, <1>2, WithoutFacts
  <2> QED BY <2>1
<1>4. Written(codes, n) = [i \in 1..Len(set) |-> field(i)]
  BY DEF Written, order
<1> HIDE DEF set
<1>5. \A i \in 1..Len(set) : set[i] \in codes /\ set[i] \in Codes
  BY <1>3 DEF ToSet
<1>6. \A c \in codes : \E i \in 1..Len(set) : set[i] = c
  BY <1>3 DEF ToSet
<1>7. \A c \in Codes : TypeOf(c) \in {"o", "g", "u", "s"} /\ c # INVALID /\ c \in INVALID..Unknown
  BY <1>0 DEF TypeOf, INVALID, Unknown
<1>8. \A i \in 1..Len(set) : field(i) \in HeaderFields
  BY <1>5, <1>7 DEF HeaderFields
<1>9. Len(set) \in Nat
  BY <1>3
<1>10. \A i \in 1..Len(set) : field(i).code = set[i] /\ FieldOK(field(i))
  BY <1>5, <1>7 DEF FieldOK
<1> HIDE DEF field
<1>11. Written(codes, n) \in Seq(HeaderFields) /\ DOMAIN Written(codes, n) = 1..Len(set)
       /\ \A i \in 1..Len(set) : Written(codes, n)[i] = field(i)
  BY <1>4, <1>8, <1>9
<1> QED BY <1>5, <1>6, <1>10, <1>11

(* What adbus_parse asks for is there. *)
Complete(m) ==
  /\ m.type \in METHOD..SIGNAL
  /\ \A c \in Needed(m.type) : m.fields[c] # NoValue
  /\ m.argsize > 0 => m.fields[SIGNATURE] # NoValue

(* The inductive invariant. *)
ReadInv ==
  /\ count \in 0..(MaxStamp - 1)
  /\ outcome \in {"none", "dispatched", "failed"}
  /\ outcome # "failed" => inMsg = Uninitialised \/ Complete(inMsg)
  /\ BuiltIsRead
  /\ DispatchedAsRead

(* What can be read. *)
Wires == [type : INVALID..(SIGNAL + 1), fields : Seq(HeaderFields), argsize : {0, 1}]

(* One message is read. *)
LEMMA ReceiveKeeps ==
  ASSUME ReadInv, NEW w \in Wires, NEW factory \in BOOLEAN, Receive(w, factory),
         factory => /\ w.type \in METHOD..SIGNAL
                    /\ \A i \in DOMAIN w.fields : FieldOK(w.fields[i])
                    /\ \A c \in Needed(w.type) : \E i \in DOMAIN w.fields : w.fields[i].code = c
                    /\ w.argsize > 0 => \E i \in DOMAIN w.fields : w.fields[i].code = SIGNATURE
  PROVE  ReadInv'
<1> DEFINE r == adbus_parse(inMsg, w)
           fs == w.fields
<1>1. fs \in Seq(HeaderFields) /\ w.argsize \in {0, 1} /\ w.type \in 0..5
  BY DEF Wires, INVALID, SIGNAL
<1>2. DOMAIN fs = 1..Len(fs)
  BY <1>1
<1>3. /\ wire' = w /\ built' = factory /\ inMsg' = r.msg /\ outcome # "failed"
      /\ outcome' = IF r.fails THEN "failed" ELSE "dispatched"
      /\ count' = (count + 1) % MaxStamp
  BY DEF Receive
<1>4. /\ r.fails = (\/ w.type = INVALID
                    \/ /\ w.type <= SIGNAL
                       /\ \/ \E i \in DOMAIN fs : ~FieldOK(fs[i])
                          \/ \E c \in Needed(w.type) : Taken(fs)[c] = NoValue
                          \/ w.argsize > 0 /\ Taken(fs)[SIGNATURE] = NoValue)
      /\ r.msg = IF w.type > SIGNAL THEN inMsg
                 ELSE [type |-> w.type, fields |-> Taken(fs), argsize |-> w.argsize]
  BY Zenon DEF adbus_parse
<1>5. /\ Needed(w.type) \subseteq Codes /\ SIGNATURE \in Codes
  BY DEF Needed, Codes, PATH, MEMBER, REPLY_SERIAL, ERROR_NAME, INTERFACE, SIGNATURE, METHOD, RETURN, ERROR
<1>6. \A c \in Codes : (Taken(fs)[c] # NoValue) <=> \E i \in DOMAIN fs : fs[i].code = c
  BY <1>1, TakenIsSet
<1>7. \A c \in Codes : LastOf(fs, Len(fs), c, Taken(fs)[c])
  BY <1>1, TakenFacts
<1> HIDE DEF r, fs
<1>8. count' \in 0..(MaxStamp - 1)
  BY <1>3, ReceivedAssumption DEF ReadInv
<1>9. outcome' \in {"none", "dispatched", "failed"}
  BY <1>3
<1>10. outcome' # "failed" => (inMsg = Uninitialised \/ Complete(inMsg))'
  <2> SUFFICES ASSUME outcome' # "failed" PROVE inMsg' = Uninitialised \/ Complete(inMsg')
    BY DEF Complete, Uninitialised, NoFields
  <2>0. ~r.fails
    BY <1>3
  <2>1. CASE w.type > SIGNAL
    BY <1>3, <1>4, <2>1 DEF ReadInv
  <2>2. CASE ~(w.type > SIGNAL)
    <3>1. w.type <= SIGNAL /\ w.type \in METHOD..SIGNAL
      BY <1>1, <1>4, <2>0, <2>2 DEF SIGNAL, METHOD, INVALID
    <3>2. inMsg' = [type |-> w.type, fields |-> Taken(fs), argsize |-> w.argsize]
      BY <1>3, <1>4, <2>2
    <3>3. /\ \A c \in Needed(w.type) : Taken(fs)[c] # NoValue
          /\ w.argsize > 0 => Taken(fs)[SIGNATURE] # NoValue
      BY <1>4, <2>0, <3>1
    <3>4. Complete(inMsg')
      BY <3>1, <3>2, <3>3 DEF Complete
    <3> QED BY <3>4
  <2> QED BY <2>1, <2>2
<1>11. BuiltIsRead'
  <2> SUFFICES ASSUME factory
               PROVE  /\ outcome' = "dispatched"
                      /\ \A c \in Codes : (inMsg'.fields[c] # NoValue)
                                            <=> \E i \in DOMAIN fs : fs[i].code = c
    BY <1>3 DEF BuiltIsRead, fs
  <2>1. /\ w.type \in METHOD..SIGNAL
        /\ \A i \in DOMAIN fs : FieldOK(fs[i])
        /\ \A c \in Needed(w.type) : \E i \in DOMAIN fs : fs[i].code = c
        /\ w.argsize > 0 => \E i \in DOMAIN fs : fs[i].code = SIGNATURE
    BY DEF fs
  <2>2. ~(w.type > SIGNAL) /\ w.type # INVALID
    BY <2>1 DEF METHOD, SIGNAL, INVALID
  <2>3. ~r.fails
    BY <1>4, <1>5, <1>6, <2>1, <2>2
  <2>4. inMsg'.fields = Taken(fs)
    BY <1>3, <1>4, <2>2
  <2> QED BY <1>3, <1>6, <2>3, <2>4
<1>12. DispatchedAsRead'
  <2> SUFFICES ASSUME outcome' = "dispatched", w.type \in METHOD..SIGNAL
               PROVE  /\ inMsg'.type = w.type
                      /\ \A c \in Codes :
                           LET at == {i \in DOMAIN fs : fs[i].code = c}
                           IN  IF at = {} THEN inMsg'.fields[c] = NoValue
                               ELSE \E i \in at : /\ \A j \in at : j <= i
                                                  /\ inMsg'.fields[c] = fs[i].val
    BY <1>3 DEF DispatchedAsRead, fs
  <2>1. inMsg' = [type |-> w.type, fields |-> Taken(fs), argsize |-> w.argsize]
    BY <1>3, <1>4 DEF METHOD, SIGNAL
  <2>2. ASSUME NEW c \in Codes
        PROVE  LET at == {i \in DOMAIN fs : fs[i].code = c}
               IN  IF at = {} THEN inMsg'.fields[c] = NoValue
                   ELSE \E i \in at : (\A j \in at : j <= i) /\ inMsg'.fields[c] = fs[i].val
    <3>1. LastOf(fs, Len(fs), c, Taken(fs)[c]) /\ inMsg'.fields = Taken(fs)
      BY <1>7, <2>1
    <3> QED BY <1>2, <3>1 DEF LastOf
  <2> QED BY <2>1, <2>2
<1> QED BY <1>8, <1>9, <1>10, <1>11, <1>12 DEF ReadInv

(* The beginning, *)
LEMMA ReadStarts == ReadInit => ReadInv
BY ReceivedAssumption DEF ReadInit, ReadInv, BuiltIsRead, DispatchedAsRead

(* every step, *)
LEMMA ReadSteps == ReadInv /\ [ReadNext]_readVars => ReadInv'
<1> SUFFICES ASSUME ReadInv, [ReadNext]_readVars PROVE ReadInv'
  OBVIOUS
<1>0. count \in 0..MaxStamp /\ \A codes \in HeaderSets : codes \in SUBSET Codes
  BY ReceivedAssumption DEF ReadInv, Codes, PATH, SIGNATURE
<1>1. ASSUME NEW codes \in HeaderSets, NEW argsize \in {0, 1}, NEW type \in METHOD..SIGNAL,
             ReceiveBuilt(type, codes, argsize)
      PROVE  ReadInv'
  <2> DEFINE fs == Written(codes, count)
             w == [type |-> type, fields |-> fs, argsize |-> argsize]
  <2>1. /\ fs \in Seq(HeaderFields)
        /\ \A i \in DOMAIN fs : FieldOK(fs[i])
        /\ \A c \in codes : \E i \in DOMAIN fs : fs[i].code = c
    BY <1>0, WrittenFacts
  <2>2. Receive(w, TRUE) /\ (argsize > 0 => SIGNATURE \in codes)
    BY <1>1 DEF ReceiveBuilt
  <2>3. Needed(type) \subseteq codes
    <3>1. type \in {1, 2, 3, 4}
      BY DEF METHOD, SIGNAL
    <3>2. CASE type = 1
      BY <1>1, <3>2 DEF ReceiveBuilt, Needed, METHOD, RETURN, ERROR, SIGNAL
    <3>3. CASE type = 2
      BY <1>1, <3>3 DEF ReceiveBuilt, Needed, METHOD, RETURN, ERROR, SIGNAL
    <3>4. CASE type = 3
      BY <1>1, <3>4 DEF ReceiveBuilt, Needed, METHOD, RETURN, ERROR, SIGNAL
    <3>5. CASE type = 4
      BY <1>1, <3>5 DEF ReceiveBuilt, Needed, METHOD, RETURN, ERROR, SIGNAL
    <3> QED BY <3>1, <3>2, <3>3, <3>4, <3>5
  <2> HIDE DEF fs
  <2>4. w \in Wires
    BY <2>1 DEF Wires, METHOD, SIGNAL, INVALID
  <2>5. /\ w.type \in METHOD..SIGNAL
        /\ \A i \in DOMAIN w.fields : FieldOK(w.fields[i])
        /\ \A c \in Needed(w.type) : \E i \in DOMAIN w.fields : w.fields[i].code = c
        /\ w.argsize > 0 => \E i \in DOMAIN w.fields : w.fields[i].code = SIGNATURE
    BY <2>1, <2>2, <2>3
  <2> HIDE DEF w
  <2> QED BY <2>2, <2>4, <2>5, ReceiveKeeps
<1>2. ASSUME NEW codes \in HeaderSets, NEW argsize \in {0, 1}, NEW type \in INVALID..(SIGNAL + 1),
             NEW code \in INVALID..Unknown, NEW sig \in {"s", "u"},
             ReceiveOther(type, codes, argsize, code, sig)
      PROVE  ReadInv'
  <2> DEFINE extra == [code |-> code, sig |-> sig, val |-> MaxStamp]
             fs == Append(Written(codes, count), extra)
             w == [type |-> type, argsize |-> argsize, fields |-> fs]
  <2>1. Written(codes, count) \in Seq(HeaderFields)
    BY <1>0, WrittenFacts
  <2>2. extra \in HeaderFields
    BY ReceivedAssumption DEF HeaderFields
  <2>3. fs \in Seq(HeaderFields)
    <3> HIDE DEF extra
    <3> QED BY <2>1, <2>2
  <2>4. Receive(w, FALSE)
    BY <1>2 DEF ReceiveOther
  <2> HIDE DEF fs
  <2>5. w \in Wires
    BY <2>3 DEF Wires
  <2> HIDE DEF w
  <2> QED BY <2>4, <2>5, ReceiveKeeps
<1>3. CASE ReadNext
  <2>1. PICK codes \in HeaderSets, argsize \in {0, 1} :
          \/ \E type \in METHOD..SIGNAL : ReceiveBuilt(type, codes, argsize)
          \/ \E type \in INVALID..(SIGNAL + 1),
                extra \in {<<INVALID, "s">>, <<MEMBER, "s">>, <<MEMBER, "u">>, <<Unknown, "u">>} :
               ReceiveOther(type, codes, argsize, extra[1], extra[2])
    BY <1>3 DEF ReadNext
  <2>2. \A extra \in {<<INVALID, "s">>, <<MEMBER, "s">>, <<MEMBER, "u">>, <<Unknown, "u">>} :
          extra[1] \in INVALID..Unknown /\ extra[2] \in {"s", "u"}
    BY DEF INVALID, MEMBER, Unknown
  <2> QED BY <1>1, <1>2, <2>1, <2>2
<1>4. CASE UNCHANGED readVars
  BY <1>4 DEF readVars, ReadInv, BuiltIsRead, DispatchedAsRead, Complete, Uninitialised
<1> QED BY <1>3, <1>4

(* and what the invariant means for callbacks. *)
LEMMA ReadInvSound == ReadInv => ReceivedSound
<1> SUFFICES ASSUME ReadInv, outcome = "dispatched", inMsg # Uninitialised PROVE CallbacksCanRely
  BY DEF ReadInv, ReceivedSound, CallbacksCanRely
<1>1. Complete(inMsg)
  BY DEF ReadInv
<1> QED BY <1>1 DEF Complete, CallbacksCanRely, Needed

(* For every set of header fields: a message is dispatched as it was built, with nothing
   that an earlier message left in the structure, and with what callbacks rely on
   (adbus_msg_build, adbus_parse, adbus_conn_parse). *)
THEOREM MessagesAreRead == ReadSpec => []ReceivedSound
<1>1. ReadSpec => []ReadInv
  BY ReadStarts, ReadSteps, PTL DEF ReadSpec
<1> QED BY <1>1, ReadInvSound, PTL
=============================================================================
