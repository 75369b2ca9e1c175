------------------------------ MODULE Sockets ------------------------------
(***************************************************************************)
(* Connecting and binding sockets (adbus/socket.c): which address a bus    *)
(* has, how an address is read, and the attempts to connect or bind; and   *)
(* the sockets that Lua programs hold in userdata (adbuslua/lsocket.c).    *)
(*                                                                         *)
(* An address is its protocol, or Unset if it has no colon, and its pairs  *)
(* of key and value.  The cutting of addresses that are too long for the   *)
(* buffers is left out.                                                    *)
(***************************************************************************)
EXTENDS Integers, Sequences, SequencesExt, FiniteSets

CONSTANTS
  EnvAddresses, \* addresses that environment variables may hold
  MaxResolved,  \* bound on the addresses that a host name stands for
  MaxSockets,   \* bound on the sockets of the program
  LuaSockets,   \* userdata of Lua
  Unset         \* a variable that is not set, a field that is missing

ASSUME SocketsAssumption ==
  /\ {MaxResolved, MaxSockets} \subseteq Nat
  /\ Unset \notin 1..MaxSockets /\ Unset \notin LuaSockets

VARIABLES
  env,     \* the environment: an address for each variable, or Unset
  attempt, \* what the running call does: phase, whether it binds, the
           \* address, the number of attempts left, the socket in use,
           \* the userdata that it is for (Unset: a C program calls)
  opened,  \* sockets that are open
  returned,   \* sockets that a call has returned to a C program
  handle      \* the socket in each userdata, Unset for ADBUS_SOCK_INVALID

sockVars == <<env, attempt, opened, returned, handle>>

Variables == {"DBUS_STARTER_ADDRESS", "DBUS_SESSION_BUS_ADDRESS", "DBUS_SYSTEM_BUS_ADDRESS"}

Autostart == [proto |-> "autostart", pairs |-> <<>>]
SystemSocket == [proto |-> "unix", pairs |-> <<<<"file", "/var/run/dbus/system_bus_socket">>>>]

ASSUME UnsetAssumption == Unset \notin {SystemSocket.proto, SystemSocket.pairs[1][2]}

NoAttempt == [phase |-> "idle", bind |-> FALSE, type |-> Unset, addr |-> Unset, left |-> 0,
              sock |-> Unset, by |-> Unset]

SockInit ==
  /\ env \in [Variables -> EnvAddresses \cup {Unset}]
  /\ attempt = NoAttempt
  /\ opened = {} /\ returned = {}
  /\ handle = [h \in LuaSockets |-> Unset]

-----------------------------------------------------------------------------
(* Addresses *)

(* The first of the variables that is set, or the address that is built in. *)
FirstSet(vars, otherwise) ==
  LET set == {i \in DOMAIN vars : env[vars[i]] # Unset}
  IN  IF set = {} THEN otherwise ELSE env[vars[Min(set)]]

(* EnvironmentString, as built for unix *)
EnvironmentString(type) ==
  CASE type = "default" ->
         FirstSet(<<"DBUS_STARTER_ADDRESS", "DBUS_SESSION_BUS_ADDRESS">>, Autostart)
    [] type = "session" -> FirstSet(<<"DBUS_SESSION_BUS_ADDRESS">>, Autostart)
    [] type = "system" -> FirstSet(<<"DBUS_SYSTEM_BUS_ADDRESS">>, SystemSocket)
    [] OTHER -> Unset

(* The field that a key names: a key is compared up to its own length, so that
   any start of a field's name is enough, and an empty key names the first. *)
FieldNamed(key) ==
  CASE key \in {"", "f", "fi", "fil", "file"} -> "file"
    [] key \in {"a", "ab", "abs", "abst", "abstr", "abstra", "abstrac", "abstract"} -> "abstract"
    [] key \in {"h", "ho", "hos", "host"} -> "host"
    [] key \in {"p", "po", "por", "port"} -> "port"
    [] OTHER -> Unset

(* ParseFields: the last value of each field. *)
ParseFields(addr) ==
  LET value(field) ==
        LET at == {i \in DOMAIN addr.pairs : FieldNamed(addr.pairs[i][1]) = field}
        IN  IF at = {} \/ addr.proto = Unset THEN Unset ELSE addr.pairs[Max(at)][2]
  IN  [field \in {"file", "abstract", "host", "port"} |-> value(field)]

(* How adbus_sock_connect_s and adbus_sock_bind_s reach an address. *)
Way(addr) ==
  LET f == ParseFields(addr)
  IN  IF addr.proto = "tcp" /\ f["host"] # Unset /\ f["port"] # Unset THEN "tcp"
      ELSE IF addr.proto = "unix" /\ f["file"] # Unset THEN "unix"
      ELSE IF addr.proto = "unix" /\ f["abstract"] # Unset THEN "abstract"
      ELSE Unset

-----------------------------------------------------------------------------
(* Attempts *)

(* adbus_sock_connect, adbus_sock_bind: the address is looked up first. *)
StartCall(type, bind) ==
  /\ attempt.phase = "idle"
  /\ attempt' = [NoAttempt EXCEPT !.phase = "address", !.bind = bind, !.type = type,
                                  !.addr = EnvironmentString(type)]
  /\ UNCHANGED <<env, opened, returned, handle>>

(* The call returns, ADBUS_SOCK_INVALID if fd is Unset; the socket of a userdata is
   then used for the handshake. *)
Returns(fd) ==
  IF attempt.by = Unset
  THEN /\ attempt' = NoAttempt
       /\ returned' = IF fd = Unset THEN returned ELSE returned \cup {fd}
       /\ UNCHANGED handle
  ELSE /\ attempt' = IF fd = Unset THEN NoAttempt
                     ELSE [NoAttempt EXCEPT !.phase = "cauth", !.by = attempt.by]
       /\ handle' = [handle EXCEPT ![attempt.by] = fd]
       /\ UNCHANGED returned

HasWay(way) == attempt.phase = "address" /\ attempt.addr # Unset /\ Way(attempt.addr) = way

(* adbus_sock_connect_s, adbus_sock_bind_s: there is no way for the address. *)
NoWay ==
  /\ attempt.phase = "address"
  /\ attempt.addr = Unset \/ HasWay(Unset)
  /\ Returns(Unset)
  /\ UNCHANGED <<env, opened>>

FreeSocket == Min((1..MaxSockets) \ opened)

(* A socket that is connected or bound in one attempt.  Without it, because socket
   fails or the attempt does, the call fails and nothing stays open. *)
OneAttempt(way, bind, success) ==
  /\ HasWay(way) /\ attempt.bind = bind
  /\ IF success
     THEN /\ Cardinality(opened) < MaxSockets
          /\ opened' = opened \cup {FreeSocket}
          /\ Returns(FreeSocket)
     ELSE Returns(Unset) /\ UNCHANGED opened
  /\ UNCHANGED env

ConnectAbstract(success) == OneAttempt("abstract", FALSE, success)
BindAbstract(success) == OneAttempt("abstract", TRUE, success)
ConnectUnix(success) == OneAttempt("unix", FALSE, success)
BindUnix(success) == OneAttempt("unix", TRUE, success)

(* getaddrinfo of ConnectTcp and BindTcp, which may fail *)
ResolveFails ==
  /\ HasWay("tcp")
  /\ Returns(Unset)
  /\ UNCHANGED <<env, opened>>

Resolve(n) ==
  /\ HasWay("tcp")
  /\ attempt' = [attempt EXCEPT !.phase = "try", !.left = n]
  /\ UNCHANGED <<env, opened, returned, handle>>

Trying == attempt.phase = "try" /\ attempt.sock = Unset /\ attempt.left > 0

(* socket fails: the next address is tried. *)
NoSocket ==
  /\ Trying
  /\ attempt' = [attempt EXCEPT !.left = @ - 1]
  /\ UNCHANGED <<env, opened, returned, handle>>

MakeSocket ==
  /\ Trying /\ Cardinality(opened) < MaxSockets
  /\ opened' = opened \cup {FreeSocket}
  /\ attempt' = [attempt EXCEPT !.sock = FreeSocket, !.left = @ - 1]
  /\ UNCHANGED <<env, returned, handle>>

(* connect or bind fails: the socket is closed and the next address tried. *)
Refused ==
  /\ attempt.sock # Unset
  /\ opened' = opened \ {attempt.sock}
  /\ attempt' = [attempt EXCEPT !.sock = Unset]
  /\ UNCHANGED <<env, returned, handle>>

(* connect or bind succeeds, and the loop ends. *)
Accepted ==
  /\ attempt.sock # Unset
  /\ Returns(attempt.sock)
  /\ UNCHANGED <<env, opened>>

(* All addresses have been tried. *)
GiveUp ==
  /\ attempt.phase = "try" /\ attempt.left = 0 /\ attempt.sock = Unset
  /\ Returns(Unset)
  /\ UNCHANGED <<env, opened>>

(* The program closes a socket of its own. *)
CloseSocket(fd) ==
  /\ attempt.phase = "idle" /\ fd \in returned
  /\ opened' = opened \ {fd} /\ returned' = returned \ {fd}
  /\ UNCHANGED <<env, attempt, handle>>

-----------------------------------------------------------------------------
(* Sockets of Lua.  A userdata that nothing refers to any more is collected, at any
   time, and can stand for a new one then. *)

(* NewSocket: the bus of a kind, or one at an address. *)
NewSocket(h, type, addr) ==
  /\ attempt.phase = "idle" /\ handle[h] = Unset
  /\ attempt' = [NoAttempt EXCEPT !.phase = "address", !.type = type, !.by = h,
                    !.addr = IF type = "address" THEN addr ELSE EnvironmentString(type)]
  /\ UNCHANGED <<env, opened, returned, handle>>

(* The handshake of NewSocket is over.  If it fails, an error is raised: the socket
   stays open until the userdata is collected. *)
SocketAuth ==
  /\ attempt.phase = "cauth"
  /\ attempt' = NoAttempt
  /\ UNCHANGED <<env, opened, returned, handle>>

(* Mutant: the userdata keeps the socket. *)
LuaClose_Keep(h) ==
  /\ attempt.phase = "idle"
  /\ opened' = opened \ {handle[h]}
  /\ UNCHANGED <<env, attempt, returned, handle>>

(* Close, called by the program or by the collector *)
LuaClose(h) ==
  /\ attempt.phase = "idle"
  /\ opened' = opened \ {handle[h]}
  /\ handle' = [handle EXCEPT ![h] = Unset]
  /\ UNCHANGED <<env, attempt, returned>>

(* Send and Recv: they fail on a closed socket, and an error of the system closes
   the socket. *)
LuaSocketSend(h, complete) ==
  IF handle[h] # Unset /\ ~complete THEN LuaClose(h)
  ELSE attempt.phase = "idle" /\ UNCHANGED sockVars

LuaSocketRecv(h, received) ==
  IF handle[h] # Unset /\ ~received THEN LuaClose(h)
  ELSE attempt.phase = "idle" /\ UNCHANGED sockVars

SockNext ==
  \/ \E type \in {"default", "session", "system", "other"}, bind \in BOOLEAN : StartCall(type, bind)
  \/ NoWay \/ ResolveFails
  \/ \E success \in BOOLEAN :
       \/ ConnectAbstract(success) \/ BindAbstract(success)
       \/ ConnectUnix(success) \/ BindUnix(success)
  \/ \E n \in 1..MaxResolved : Resolve(n)
  \/ NoSocket \/ MakeSocket \/ Refused \/ Accepted \/ GiveUp
  \/ \E fd \in 1..MaxSockets : CloseSocket(fd)
  \/ \E h \in LuaSockets :
       \/ \E type \in {"default", "session", "system"} : NewSocket(h, type, Unset)
       \/ \E addr \in EnvAddresses : NewSocket(h, "address", addr)
       \/ LuaClose(h)
       \/ \E done \in BOOLEAN : LuaSocketSend(h, done) \/ LuaSocketRecv(h, done)
  \/ SocketAuth

SockSpec == SockInit /\ [][SockNext]_sockVars

-----------------------------------------------------------------------------
(* Properties *)

(* Every open socket has one owner, the C program that a call has returned it to, a
   userdata, or the call that is connecting it, and a socket that is not open has
   none.  So whatever fails in a call leaves none behind, and no userdata closes or
   uses a socket that the system has given to somebody else since. *)
NoSocketLeft ==
  LET inLua(h) == {handle[h]} \ {Unset}
      trying == {attempt.sock} \ {Unset}
  IN  /\ opened = returned \cup trying \cup UNION {inLua(h) : h \in LuaSockets}
      /\ returned \cap trying = {}
      /\ \A h \in LuaSockets :
           /\ inLua(h) \cap (returned \cup trying) = {}
           /\ \A g \in LuaSockets \ {h} : inLua(h) \cap inLua(g) = {}

(* What the documentation of adbus_connect_address says: the variables in its order,
   and then the address built in. *)
Documented(type, addr) ==
  LET is(v) == env[v] # Unset /\ addr = env[v]
      unset(v) == env[v] = Unset
  IN  CASE type = "default" ->
             \/ is("DBUS_STARTER_ADDRESS")
             \/ unset("DBUS_STARTER_ADDRESS") /\ is("DBUS_SESSION_BUS_ADDRESS")
             \/ /\ unset("DBUS_STARTER_ADDRESS") /\ unset("DBUS_SESSION_BUS_ADDRESS")
                /\ addr = Autostart
        [] type = "session" ->
             is("DBUS_SESSION_BUS_ADDRESS") \/ (unset("DBUS_SESSION_BUS_ADDRESS") /\ addr = Autostart)
        [] type = "system" ->
             is("DBUS_SYSTEM_BUS_ADDRESS") \/ (unset("DBUS_SYSTEM_BUS_ADDRESS") /\ Way(addr) = "unix")
        [] OTHER -> addr = Unset

(* The address that a bus is reached at is the documented one, whatever is set. *)
AddressAsDocumented ==
  attempt.phase = "address" /\ attempt.type # "address" => Documented(attempt.type, attempt.addr)

(* No socket is lost or has two owners, whatever fails on the way to a connection, and
   the way leads to the documented address. *)
SocketsSound == NoSocketLeft /\ AddressAsDocumented
=============================================================================
