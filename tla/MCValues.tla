------------------------------ MODULE MCValues ------------------------------
(***************************************************************************)
(* What the library does with values, text and memory, checked side by     *)
(* side: in a behaviour one part runs and the others keep their initial    *)
(* states.                                                                 *)
(***************************************************************************)
EXTENDS Marshal, Outgoing, Interfaces, Rules, Names, HashTable, Buffers,
        Sockets, LuaMessages, LuaObjects

VARIABLE part  \* the part that runs

valuesVars ==
  <<part, marshalVars, outVars, ifaceVars, ruleVars, word, hashVars,
    stringVars, ringVars, recvVars, sockVars, luaMsgVars, luaVars>>

(* Values of every size and alignment, empty and nested containers. *)
Y == [t |-> "y", n |-> <<7>>]
Q == [t |-> "q", n |-> <<5, 0>>]
U == [t |-> "u", n |-> <<1, 2, 3, 4>>]
T == [t |-> "t", n |-> <<1, 2, 3, 4, 5, 6, 7, 8>>]
Txt(t, n) == [t |-> t, len |-> n]
Variant(v) == [t |-> "v", of |-> <<v>>]
Array(sig, vs) == [t |-> "a", entry |-> sig, of |-> vs]
Struct(vs) == [t |-> "(", of |-> vs]
Entry(k, v) == [t |-> "{", of |-> <<k, v>>]

SomeValues ==
  { Y, Q, U, T, Txt("s", 2), Txt("o", 1), Txt("g", 0),
    Variant(T), Variant(Array(<<"y">>, <<Y>>)), Variant(Variant(Y)),
    Array(<<"t">>, <<>>), Array(<<"y">>, <<Y, Y, Y>>),
    Array(<<"(", "y", "s", ")">>, <<Struct(<<Y, Txt("s", 2)>>), Struct(<<Y, Txt("s", 2)>>)>>),
    Array(<<"{", "y", "v", "}">>, <<Entry(Y, Variant(U))>>),
    Struct(<<Y, Variant(Txt("s", 2))>>) }

(* A user's factory is used for calls and signals without an interface, and for
   errors and returns. *)
SomeUserFields == {{"member"}, {"error", "replySerial"}}

AllEnds == [op \in {"call", "get", "set", "getall"} |-> {"ok", "error", "jump", "fail"}]

(* Rules with one field, in which "y" is a well-known name, and a path that is
   written as "x"; keys of three arguments. *)
OnePath == [v \in RuleValues |-> "x"]
SomeRuleFields ==
  {[NoMatch.fields EXCEPT ![k] = v] : k \in {"sender", "path", "member"}, v \in RuleValues \cup {Absent}}
ThreeArgKeys == <<"arg0", "arg1", "arg2">>
SomeOtherKeys == {"type", "member", "eavesdrop"} \cup ToSet(ThreeArgKeys)

(* Keys that collide in both table sizes they meet. *)
SameHash == [k \in HashKeys |-> k]
Primes == <<0, 3, 11, 23>>

SomePieces == {<<>>, <<"a">>, <<"b", "c">>, <<"d", "e", "f">>}

(* No line, a line that is cut, empty lines. *)
SomeStreams ==
  {<<>>, <<"a", "b", "c">>, <<"a", "CR", "LF", "b", "LF">>, <<"LF", "LF", "a", "b", "c", "LF", "d">>}

(* Complete addresses, and one without its port. *)
SomeAddresses ==
  { [proto |-> "tcp", pairs |-> <<<<"host", "h1">>, <<"port", "1">>>>],
    [proto |-> "tcp", pairs |-> <<<<"host", "h1">>>>],
    [proto |-> "unix", pairs |-> <<<<"abstract", "x">>, <<"guid", "g">>>>] }

(* Lua values that fit their types and values that do not, with fractions and beyond
   the range of the type, empty tables and tables with a metatable. *)
Ty(t) == [t |-> t]
SomeLuaArgs ==
  { <<Ty("y"), Num(5)>>, <<Ty("y"), Num(600)>>, <<Ty("y"), Str("x")>>, <<Ty("d"), Num(5)>>,
    <<Ty("s"), Str("x")>>, <<Ty("b"), Bool(TRUE)>>,
    <<ArrayOf(Ty("y")), Table(<<Num(2), Num(4)>>, <<>>)>>, <<ArrayOf(Ty("y")), Nil>>,
    <<ArrayOf(Ty("s")), Str("x")>>,
    <<MapOf(Ty("s"), VariantType), Table(<<>>, <<<<Str("x"), Num(1)>>>>)>>,
    <<MapOf(Ty("s"), VariantType), Table(<<>>, <<>>)>>,
    <<StructOf(<<Ty("y"), VariantType>>), Table(<<Num(2), Table(<<Num(3), Str("x")>>, <<>>)>>, <<>>)>>,
    <<StructOf(<<Ty("y"), VariantType>>), Table(<<Num(2)>>, <<>>)>>,
    <<VariantType, Table(<<Num(2), Bool(FALSE)>>, <<>>)>>, <<VariantType, Table(<<>>, <<>>)>>,
    <<VariantType, Nil>>,
    <<VariantType, [Table(<<>>, <<>>) EXCEPT !.sig = <<ArrayOf(Ty("y"))>>,
                                             !.val = <<Table(<<Num(2), Num(2)>>, <<>>)>>]>> }
SomeLuaPairs == {<<>>} \cup {<<a>> : a \in SomeLuaArgs} \cup {<<a, b>> : a, b \in SomeLuaArgs}
SomeLuaSigs ==
  {<<>>} \cup {<<a[1]>> : a \in SomeLuaArgs} \cup {<<a[1], b[1]>> : a, b \in SomeLuaArgs}

(* Tables for members: right ones, and some that fail at different steps of the reading,
   before and after slots are taken. *)
MemberTable == [unknown |-> FALSE, returns |-> "none", arguments |-> "ok", annotations |-> "none",
                flag |-> "ok", first |-> "ok", second |-> "none"]
SomeMembers ==
  {[MemberTable EXCEPT !.returns = "ok", !.second = "ok"],
   [MemberTable EXCEPT !.arguments = "bad"], [MemberTable EXCEPT !.first = "none", !.second = "bad"],
   [MemberTable EXCEPT !.unknown = TRUE, !.annotations = "bad", !.flag = "bad"]}
(* One object of each kind. *)
Kinds == [o \in LuaObjs |-> CASE o = "o1" -> "match" [] o = "o2" -> "reply" [] o = "o3" -> "bind"]

Init ==
  /\ part \in {"marshalling", "outgoing", "interface", "rules", "names",
               "hash", "string", "ring", "receive", "sockets", "lua messages", "lua objects"}
  /\ OutInit /\ IfaceInit /\ RulesInit /\ NamesInit /\ HashInit
  /\ StringInit /\ RingInit /\ LuaMsgInit
  /\ MarshalInit /\ (part # "marshalling" => buf = EmptyBuffer(TRUE))
  /\ RecvInit /\ (part # "receive" => incoming = <<>>)
  /\ SockInit /\ (part # "sockets" => env = [v \in Variables |-> Unset])
  /\ LuaInit /\ (part # "lua objects" => lconn.sender = NoSlot /\ lconn.connect = NoSlot)

(* One part takes a step; the variables of every other part are unchanged. *)
Keeps(p) ==
  /\ part = p /\ UNCHANGED part
  /\ p # "marshalling" => UNCHANGED marshalVars
  /\ p # "outgoing" => UNCHANGED outVars
  /\ p # "interface" => UNCHANGED ifaceVars
  /\ p # "rules" => UNCHANGED ruleVars
  /\ p # "names" => UNCHANGED word
  /\ p # "hash" => UNCHANGED hashVars
  /\ p # "string" => UNCHANGED stringVars
  /\ p # "ring" => UNCHANGED ringVars
  /\ p # "receive" => UNCHANGED recvVars
  /\ p # "sockets" => UNCHANGED sockVars
  /\ p # "lua messages" => UNCHANGED luaMsgVars
  /\ p # "lua objects" => UNCHANGED luaVars

MarshallingRuns == Keeps("marshalling") /\ MarshalNext
OutgoingRuns == Keeps("outgoing") /\ OutNext
InterfaceRuns == Keeps("interface") /\ IfaceNext
RulesRun == Keeps("rules") /\ RulesNext
NamesRun == Keeps("names") /\ NamesNext
HashRuns == Keeps("hash") /\ HashNext
StringRuns == Keeps("string") /\ StringNext
RingRuns == Keeps("ring") /\ RingNext
ReceiveRuns == Keeps("receive") /\ RecvNext
SocketsRun == Keeps("sockets") /\ SockNext
LuaMessagesRun == Keeps("lua messages") /\ LuaMsgNext
(* MaxLuaLoad: objects, errors and a connect, together. *)
MaxLuaLoad == 3
LuaLoad == Cardinality(MadeObjs) + errs.raised + (IF lconn.hello = "no" THEN 0 ELSE 1)
LuaObjectsRun == Keeps("lua objects") /\ LuaNext /\ LuaLoad' <= MaxLuaLoad

Next ==
  \/ MarshallingRuns \/ OutgoingRuns \/ InterfaceRuns \/ RulesRun \/ NamesRun
  \/ HashRuns \/ StringRuns \/ RingRuns \/ ReceiveRuns \/ SocketsRun
  \/ LuaMessagesRun \/ LuaObjectsRun

Spec == Init /\ [][Next]_valuesVars
=============================================================================
