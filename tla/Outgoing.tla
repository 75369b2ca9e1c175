------------------------------ MODULE Outgoing ------------------------------
(***************************************************************************)
(* Messages that a client sends: the message factory (adbus/message.c),    *)
(* calls through a proxy (adbus/proxy.c), signals (adbus/signal.c) and the *)
(* serials of a connection (adbus/connection.c).                           *)
(*                                                                         *)
(* A factory is the set of header fields that are set, with the values of  *)
(* serial, path and destination.  It is reset before it is used again;     *)
(* here that is done as soon as it has been used.  Each connection counts  *)
(* its serials to MaxSerial, UINT32_MAX in the code.                       *)
(***************************************************************************)
EXTENDS Integers, Sequences, FiniteSets

CONSTANTS
  Conns,       \* connections
  ObjectPaths, \* paths of the objects that are called and emit signals
  Remotes,     \* services that are called, other than the bus
  UserFields,  \* the fields but the path that users set in factories of their own
  SigSizes,    \* numbers of arguments that calls have
  MaxSerial,   \* the largest serial
  MaxOpen,     \* bound on the calls without an answer, on one connection
  MaxEmitters, \* bound on the binds of a signal
  Nothing      \* what is not set

ASSUME OutgoingAssumption ==
  /\ MaxSerial \in Nat /\ MaxSerial > 3 /\ MaxOpen \in 1..(MaxSerial - 3)
  /\ SigSizes \subseteq Nat /\ MaxEmitters \in 0..(MaxSerial - 2)
  /\ \A fields \in UserFields : "path" \notin fields
  /\ Nothing \notin Conns /\ Nothing \notin ObjectPaths

VARIABLES
  nextSerial, \* c->nextSerial
  factories,  \* the factory of a proxy, of a signal, and of a user
  proxy,      \* the proxy: connection, service, path, whether it has an
              \* interface, and the kind of its last call
  step,       \* whether a call has been set up and not been sent
  sigBuf,     \* of the proxy's factory: the size of the signature, where the
              \* next argument is, and whether the byte at 3 is not zero
  open,       \* replies that are registered, with their age in serials
  emitters,   \* the binds of the signal
  link,       \* of each connection: "new", "asked" (Hello is sent), "connected"
  sent,       \* what the last step has sent, in order
  broken      \* an assertion has failed

outVars == <<nextSerial, factories, proxy, step, sigBuf, open, emitters, link, sent, broken>>

(* adbus_msg_new *)
EmptyFactory == [type |-> Nothing, serial |-> -1, path |-> Nothing, dest |-> Nothing,
                 fields |-> {}, noreply |-> FALSE]

(* The destination and the path of the bus. *)
Bus == "org.freedesktop.DBus"
BusPath == "/org/freedesktop/DBus"

ASSUME BusAssumption == Bus \notin Remotes /\ Nothing # BusPath

NoProxy == [conn |-> Nothing, service |-> Nothing, path |-> Nothing, iface |-> FALSE,
            kind |-> "method"]

NoSignature == [size |-> 0, at |-> 0, fourth |-> FALSE]

OutInit ==
  /\ nextSerial = [c \in Conns |-> 1]
  /\ factories = [f \in {"proxy", "signal", "user"} |-> EmptyFactory]
  /\ proxy = NoProxy /\ step = "idle"
  /\ sigBuf = NoSignature
  /\ link = [c \in Conns |-> "new"]
  /\ open = {} /\ emitters = <<>> /\ sent = <<>> /\ broken = FALSE

(* adbus_conn_serial: the serial, which is followed by the next. *)
SerialFrom(n) == IF n = MaxSerial THEN 1 ELSE n

(* Serials used on c make the replies that wait on it older. *)
Older(c, n) == {[r EXCEPT !.age = IF r.conn = c THEN @ + n ELSE @] : r \in open}

(* adbus_msg_reset clears all but the path. *)
msg_reset(m) == [EmptyFactory EXCEPT !.path = m.path]

(* The setters, in groups: the fixed part of the header (adbus_msg_settype,
   adbus_msg_setserial, adbus_msg_setflags), the path, and the other fields. *)
msg_sethead(m, type, serial, noreply) ==
  [m EXCEPT !.type = type, !.serial = serial, !.noreply = noreply]
msg_setpath(m, path) == [m EXCEPT !.path = path]
msg_setdestination(m, dest) == [m EXCEPT !.dest = dest, !.fields = @ \cup {"destination"}]
msg_setfields(m, fields) == [m EXCEPT !.fields = @ \cup fields]

(* Required: the fields that adbus_msg_build checks. *)
Required(m) ==
  CASE m.type = "method" -> {"member"} \cup (IF m.path = Nothing THEN {"path"} ELSE {})
    [] m.type = "return" -> {"replySerial"}
    [] m.type = "error" -> {"error"}
    [] m.type = "signal" -> {"interface", "member"}

(* adbus_msg_build *)
msg_build(m) == m.serial >= 0 /\ Required(m) \subseteq m.fields

-----------------------------------------------------------------------------
(* The proxy *)

OutReady == ~broken /\ step = "idle"

(* adbus_proxy_init.  The interface goes, the kind of the last call stays. *)
ProxyInit(c, service, path) ==
  /\ OutReady
  /\ proxy' = [proxy EXCEPT !.conn = c, !.service = service, !.path = path, !.iface = FALSE]
  /\ sent' = <<>>
  /\ UNCHANGED <<nextSerial, factories, step, sigBuf, open, emitters, link, broken>>

(* adbus_proxy_setinterface *)
SetInterface ==
  /\ OutReady /\ proxy.conn # Nothing /\ ~proxy.iface
  /\ proxy' = [proxy EXCEPT !.iface = TRUE]
  /\ sent' = <<>>
  /\ UNCHANGED <<nextSerial, factories, step, sigBuf, open, emitters, link, broken>>

(* adbus_proxy_free, and adbus_proxy_new when the program makes another. *)
ProxyFree ==
  /\ OutReady /\ proxy.conn # Nothing
  /\ proxy' = NoProxy
  /\ factories' = [factories EXCEPT !["proxy"] = EmptyFactory]
  /\ sigBuf' = NoSignature
  /\ sent' = <<>>
  /\ UNCHANGED <<nextSerial, step, open, emitters, link, broken>>

(* adbus_msg_setsig of n characters, all of which but a variant are written. *)
Signed(n, written) ==
  [size |-> n, at |-> written, fourth |-> IF n >= 3 THEN n > 3 ELSE sigBuf.fourth]

(* The message of a call *)
ProxyMessage(m, serial, fields) ==
  msg_setfields(msg_setpath(msg_setdestination(msg_sethead(m, "method", serial, FALSE), proxy.service),
                            proxy.path), fields)

(* Mutant: the call takes the serial that comes next but leaves it there. *)
SetUp_Same(fields, sig) ==
  LET c == proxy.conn
      s == SerialFrom(nextSerial[c])
  IN  /\ nextSerial' = [nextSerial EXCEPT ![c] = s]
      /\ open' = Older(c, 1)
      /\ factories' = [factories EXCEPT !["proxy"] = ProxyMessage(@, s, fields)]
      /\ sigBuf' = sig /\ step' = "call"
      /\ sent' = <<>>
      /\ UNCHANGED <<emitters, link, broken>>

(* What is common to adbus_call_method, adbus_call_setproperty and
   adbus_call_getproperty. *)
SetUp(fields, sig) ==
  LET c == proxy.conn
      s == SerialFrom(nextSerial[c])
  IN  /\ nextSerial' = [nextSerial EXCEPT ![c] = s + 1]
      /\ open' = Older(c, 1)
      /\ factories' = [factories EXCEPT !["proxy"] = ProxyMessage(@, s, fields)]
      /\ sigBuf' = sig /\ step' = "call"
      /\ sent' = <<>>
      /\ UNCHANGED <<emitters, link, broken>>

(* An answer comes before its serial is used again. *)
Timely(c, n) == \A r \in open : r.conn = c => r.age + n <= MaxSerial - 2

(* adbus_call_method, and the user who writes the n arguments. *)
CallAMethod(n) ==
  /\ OutReady /\ proxy.conn # Nothing /\ Timely(proxy.conn, 1)
  /\ SetUp({"member"} \cup (IF proxy.iface THEN {"interface"} ELSE {}),
           Signed(n, n))
  /\ UNCHANGED proxy

(* adbus_call_setproperty; the variant is closed by adbus_call_send. *)
CallSetProperty ==
  /\ OutReady /\ proxy.iface /\ Timely(proxy.conn, 1)
  /\ SetUp({"member", "interface"}, Signed(3, 2))
  /\ proxy' = [proxy EXCEPT !.kind = "set"]

(* adbus_call_getproperty *)
CallGetProperty ==
  /\ OutReady /\ proxy.iface /\ Timely(proxy.conn, 1)
  /\ SetUp({"member", "interface"}, Signed(2, 2))
  /\ proxy' = [proxy EXCEPT !.kind = "get"]

(* adbus_msg_endvariant goes to the end of "ssv", whatever the signature is. *)
ClosedSig == IF proxy.kind = "set" THEN [sigBuf EXCEPT !.at = 3] ELSE sigBuf

(* The assertion of adbus_msg_end: the byte after the last argument is zero. *)
SigEnds(sig) == IF sig.at = 3 THEN ~sig.fourth ELSE sig.at = sig.size

(* adbus_call_send: the reply is registered or the message says that none is
   wanted, then the message is sent. *)
CallSend(wanted) ==
  /\ ~broken /\ step = "call"
  /\ wanted => Cardinality(open) < MaxOpen
  /\ LET m == [factories["proxy"] EXCEPT !.noreply = ~wanted]
         r == [conn |-> proxy.conn, serial |-> m.serial, remote |-> proxy.service, age |-> 0]
     IN  IF SigEnds(ClosedSig) /\ msg_build(m)
         THEN /\ open' = IF wanted THEN open \cup {r} ELSE open
              /\ sent' = <<[conn |-> proxy.conn, by |-> "proxy", msg |-> m]>>
              /\ factories' = [factories EXCEPT !["proxy"] = msg_reset(m)]
              /\ UNCHANGED broken
         ELSE /\ broken' = TRUE
              /\ UNCHANGED <<open, sent, factories>>
  /\ step' = "idle" /\ sigBuf' = ClosedSig
  /\ UNCHANGED <<nextSerial, proxy, emitters, link>>

(* The answer to a call, or the reply is removed. *)
Answered(r) ==
  /\ OutReady /\ r \in open /\ r.remote # Bus
  /\ open' = open \ {r}
  /\ sent' = <<>>
  /\ UNCHANGED <<nextSerial, factories, proxy, step, sigBuf, emitters, link, broken>>

-----------------------------------------------------------------------------
(* Connecting *)

HelloMessage(serial) ==
  msg_setfields(msg_setpath(msg_setdestination(msg_sethead(EmptyFactory, "method", serial, FALSE), Bus),
                            BusPath), {"member", "interface"})

(* adbus_conn_connect calls Hello through the proxy c->bus.  It must not be called
   twice. *)
ConnConnect(c) ==
  LET s == SerialFrom(nextSerial[c])
  IN  /\ OutReady /\ link[c] = "new" /\ Timely(c, 1)
      /\ link' = [link EXCEPT ![c] = "asked"]
      /\ nextSerial' = [nextSerial EXCEPT ![c] = s + 1]
      /\ open' = Older(c, 1) \cup {[conn |-> c, serial |-> s, remote |-> Bus, age |-> 0]}
      /\ sent' = <<[conn |-> c, by |-> "proxy", msg |-> HelloMessage(s)]>>
      /\ UNCHANGED <<factories, proxy, step, sigBuf, emitters, broken>>

(* adbusI_ConnectCallback: the answer tells the unique name, which is not known
   yet. *)
ConnectCallback(r) ==
  /\ OutReady /\ r \in open /\ r.remote = Bus
  /\ open' = open \ {r}
  /\ broken' = (link[r.conn] = "connected")
  /\ link' = [link EXCEPT ![r.conn] = "connected"]
  /\ sent' = <<>>
  /\ UNCHANGED <<nextSerial, factories, proxy, step, sigBuf, emitters>>

(* adbus_conn_isconnected, adbus_conn_uniquename: there is a name when it is
   connected. *)
IsConnected(c) == link[c] = "connected"

-----------------------------------------------------------------------------
(* Signals *)

(* adbus_sig_bind *)
SigBind(c, path) ==
  /\ OutReady /\ Len(emitters) < MaxEmitters
  /\ emitters' = Append(emitters, [conn |-> c, path |-> path])
  /\ sent' = <<>>
  /\ UNCHANGED <<nextSerial, factories, proxy, step, sigBuf, open, link, broken>>

(* adbus_sig_free, which resets the signal, and adbus_sig_new of another.  A program
   does not call adbus_sig_reset by itself: it frees the factory. *)
SigFree ==
  /\ OutReady /\ emitters # <<>>
  /\ emitters' = <<>>
  /\ factories' = [factories EXCEPT !["signal"] = EmptyFactory]
  /\ sent' = <<>>
  /\ UNCHANGED <<nextSerial, proxy, step, sigBuf, open, link, broken>>

(* How many of the first n emitters are on c. *)
On(c, n) == Cardinality({i \in 1..n : emitters[i].conn = c})

(* The serial of connection c after n more have been taken. *)
After(c, n) ==
  LET s == SerialFrom(nextSerial[c])
  IN  IF n = 0 THEN nextSerial[c]
      ELSE IF s + n <= MaxSerial THEN s + n ELSE s + n - (MaxSerial - 1)

SignalMessage(path, serial) ==
  msg_setpath(msg_sethead(msg_setfields(factories["signal"], {"member", "interface"}),
                          "signal", serial, TRUE), path)

(* The message for emitter i. *)
Emission(i) ==
  LET c == emitters[i].conn
  IN  SignalMessage(emitters[i].path, SerialFrom(After(c, On(c, i - 1))))

(* adbus_sig_emit: a message for each emitter, then adbus_sig_msg resets the
   factory. *)
SigEmit ==
  /\ OutReady /\ emitters # <<>>
  /\ \A c \in Conns : Timely(c, On(c, Len(emitters)))
  /\ sent' = [i \in DOMAIN emitters |->
                [conn |-> emitters[i].conn, by |-> "signal", msg |-> Emission(i)]]
  /\ nextSerial' = [c \in Conns |-> After(c, On(c, Len(emitters)))]
  /\ open' = {[r EXCEPT !.age = @ + On(r.conn, Len(emitters))] : r \in open}
  /\ factories' = [factories EXCEPT !["signal"] = msg_reset(Emission(Len(emitters)))]
  /\ UNCHANGED <<proxy, step, sigBuf, emitters, link, broken>>

-----------------------------------------------------------------------------
(* A factory of the user's own: adbus_msg_reset, setters, and adbus_msg_send,
   which takes a serial. *)
MsgSend(c, type, fields, path) ==
  LET s == SerialFrom(nextSerial[c])
      head == msg_setfields(msg_sethead(factories["user"], type, s, FALSE), fields)
      m == IF path = Nothing THEN head ELSE msg_setpath(head, path)
  IN  /\ OutReady /\ Timely(c, 1)
      /\ msg_build(m)
      /\ nextSerial' = [nextSerial EXCEPT ![c] = s + 1]
      /\ open' = Older(c, 1)
      /\ factories' = [factories EXCEPT !["user"] = msg_reset(m)]
      /\ sent' = <<[conn |-> c, by |-> "user", msg |-> m, set |-> fields]>>
      /\ UNCHANGED <<proxy, step, sigBuf, emitters, link, broken>>

OutNext ==
  \/ \E c \in Conns, path \in ObjectPaths :
       \/ \E service \in Remotes : ProxyInit(c, service, path)
       \/ SigBind(c, path)
  \/ SetInterface \/ ProxyFree \/ SigFree
  \/ \E n \in SigSizes : CallAMethod(n)
  \/ CallSetProperty \/ CallGetProperty
  \/ \E wanted \in BOOLEAN : CallSend(wanted)
  \/ \E r \in open : Answered(r)
  \/ \E c \in Conns : ConnConnect(c)
  \/ \E r \in open : ConnectCallback(r)
  \/ SigEmit
  \/ \E c \in Conns, type \in {"method", "return", "error", "signal"},
        fields \in UserFields, path \in ObjectPaths \cup {Nothing} :
       MsgSend(c, type, fields, path)

OutSpec == OutInit /\ [][OutNext]_outVars

-----------------------------------------------------------------------------
(* Properties *)

(* Whatever a factory was used for before, a message leaves with a serial that
   is not 0, with the fields that its type needs (adbus_msg_build), and with no
   field of an earlier message but the path (adbus_msg_reset). *)
WireComplete ==
  \A i \in DOMAIN sent :
    LET m == sent[i].msg
    IN  /\ m.serial \in 1..MaxSerial
        /\ m.type = "method" => "member" \in m.fields /\ m.path # Nothing
        /\ m.type = "return" => "replySerial" \in m.fields
        /\ m.type = "error" => "error" \in m.fields
        /\ m.type = "signal" => {"interface", "member"} \subseteq m.fields
        /\ sent[i].by = "user" => m.fields = sent[i].set

(* Over the wrap of the serials, no two calls that wait for an answer on one
   connection have the same serial, and none has that of a message that is being
   sent. *)
OpenDistinct ==
  /\ \A q, r \in open : q.conn = r.conn /\ q.serial = r.serial => q = r
  /\ \A i \in DOMAIN sent, r \in open :
       r.conn = sent[i].conn /\ r.serial = sent[i].msg.serial =>
         sent[i].by = "proxy" /\ r.age = 0

(* A call leaves with a reply registered for its serial, the connection and the
   service that it goes to, or says that no reply is wanted (adbus_call_send). *)
CallRegistered ==
  \A i \in DOMAIN sent :
    sent[i].by = "proxy" =>
      (sent[i].msg.noreply <=>
         ~\E r \in open : /\ r.conn = sent[i].conn /\ r.serial = sent[i].msg.serial
                          /\ r.remote = sent[i].msg.dest)

(* A connection learns its unique name once, from the answer to its one Hello, for
   which a reply waits until then. *)
ConnectsOnce ==
  \A c \in Conns :
    LET hello == {r \in open : r.conn = c /\ r.remote = Bus}
    IN  /\ link[c] = "asked" <=> hello # {}
        /\ Cardinality(hello) <= 1
        /\ IsConnected(c) => hello = {}

(* An emission goes to every emitter, with its own path and, on one connection,
   serials that differ and are not used again at once (adbus_sig_emit). *)
EmissionsDistinct ==
  \A i, j \in DOMAIN sent :
    /\ sent[i].by = "signal" => sent[i].msg.path = emitters[i].path /\ Len(sent) = Len(emitters)
    /\ i # j /\ sent[i].conn = sent[j].conn => sent[i].msg.serial # sent[j].msg.serial
    /\ sent[i].msg.serial # nextSerial[sent[i].conn] \/ nextSerial[sent[i].conn] = MaxSerial

(* Whatever a program sends, in whatever order it uses its proxies, signals and
   factories: messages are complete, their serials tell them apart, and an answer finds
   the call that it is for. *)
SendingSound ==
  /\ WireComplete /\ OpenDistinct /\ CallRegistered
  /\ ConnectsOnce /\ EmissionsDistinct
=============================================================================
