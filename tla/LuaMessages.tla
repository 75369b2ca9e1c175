---------------------------- MODULE LuaMessages ----------------------------
(***************************************************************************)
(* The Lua binding's conversion of Lua values to the arguments of messages *)
(* and back (adbuslua/lmessage.c): a Lua program on one connection sends a *)
(* table as a message, or returns values from a method, and a Lua program  *)
(* on another gets it, as a table or unpacked into values.                 *)
(*                                                                         *)
(* Types are trees and not signatures: a container knows its entries.  A   *)
(* number is counted in halves, so that integer types can be told from     *)
(* doubles.  The table of a message is its fields and its arguments.       *)
(***************************************************************************)
EXTENDS Integers, Sequences, SequencesExt, FiniteSets

CONSTANTS
  LuaArgs,   \* pairs of a type and a Lua value that is given for it
  LuaPairs,  \* the arguments of messages: sequences of such pairs
  LuaSigs    \* signatures of methods' results: sequences of types

VARIABLES
  luaSent,   \* history: the Lua values that were given, and their types
  luaWire,   \* the message that came of them
  luaGot     \* the Lua values that the receiver gets of it

luaMsgVars == <<luaSent, luaWire, luaGot>>

-----------------------------------------------------------------------------
(* Lua values *)

Nil == [k |-> "nil"]
Num(h) == [k |-> "number", halves |-> h]
Str(s) == [k |-> "string", str |-> s]
Bool(b) == [k |-> "boolean", bool |-> b]

(* A table: its array part, its other entries, and what __dbus_signature and
   __dbus_value of its metatable give, if they are there. *)
Table(seq, map) == [k |-> "table", seq |-> seq, map |-> map, sig |-> <<>>, val |-> <<>>]

(* lua_objlen, also of a value that is no table: a number counts as its digits. *)
objlen(v) ==
  CASE v.k = "table" -> Len(v.seq)
    [] v.k \in {"string", "number"} -> 1
    [] OTHER -> 0

-----------------------------------------------------------------------------
(* From Lua *)

(* The ways a conversion ends: with a value for the wire, refused with an error
   message, with a Lua error that unwinds the library, or with a failed assertion or
   an access that Lua leaves undefined. *)
Made(w) == [r |-> "made", w |-> w]
Failed(r) == [r |-> r]

(* The conversions in order, up to the first that fails. *)
InOrder(rs) ==
  LET bad == {i \in DOMAIN rs : rs[i].r # "made"}
  IN  IF bad = {} THEN Made([i \in DOMAIN rs |-> rs[i].w])
      ELSE rs[CHOOSE i \in bad : \A j \in bad : i <= j]

IntegerTypes == {"y", "u"}
StringTypes == {"s", "o", "g"}

(* A C conversion to an integer type drops the fraction; what is left of a number
   that is too large are its low bits. *)
AsInteger(t, h) == LET n == IF h >= 0 THEN h \div 2 ELSE -((-h) \div 2)
                   IN  2 * (IF t = "y" THEN n % 256 ELSE n)

Fixed(t, v) ==
  CASE t = "b" -> IF v.k = "boolean" THEN Made([t |-> t, bool |-> v.bool]) ELSE Failed("refused")
    [] t \in StringTypes -> IF v.k = "string" THEN Made([t |-> t, str |-> v.str]) ELSE Failed("refused")
    [] t \in IntegerTypes ->
         IF v.k = "number" THEN Made([t |-> t, halves |-> AsInteger(t, v.halves)]) ELSE Failed("refused")
    [] t = "d" -> IF v.k = "number" THEN Made([t |-> t, halves |-> v.halves]) ELSE Failed("refused")

VariantType == [t |-> "v"]
ArrayOf(ty) == [t |-> "a", of |-> <<ty>>]
MapOf(key, val) == [t |-> "m", of |-> <<key, val>>]
StructOf(tys) == [t |-> "(", of |-> tys]

(* DetectVariantType: a table without a first entry is a map. *)
DetectVariantType(v) ==
  IF v.seq = <<>> THEN MapOf(VariantType, VariantType) ELSE ArrayOf(VariantType)

(* GetMetatableVariantType, and the types that need no metatable.  A table without a
   metatable has lua_getmetatable push nothing: the value on top of the stack is
   indexed in its stead, which raises an error if it cannot be. *)
VariantTypeOf(v, top) ==
  CASE v.k = "number" -> Made([t |-> "d"])
    [] v.k = "boolean" -> Made([t |-> "b"])
    [] v.k = "string" -> Made([t |-> "s"])
    [] v.k = "table" /\ v.sig # <<>> -> Made(v.sig[1])
    [] v.k = "table" /\ v.sig = <<>> ->
         IF top.k \in {"number", "boolean"} THEN Failed("raised") ELSE Made(DetectVariantType(v))
    [] OTHER -> Failed("refused")

(* GetMetatableVariantData *)
VariantData(v) == IF v.k = "table" /\ v.val # <<>> THEN v.val[1] ELSE v

RECURSIVE to_argument(_, _, _)

(* The entries of a table with their types; there is no type after the last. *)
Entries(tys, v) ==
  [i \in 1..objlen(v) |->
     IF i \in DOMAIN tys THEN to_argument(tys[i], v.seq[i], v.seq[i]) ELSE Failed("refused")]

(* lua_rawgeti of a value that is no table *)
NotIndexed(v) == v.k # "table" /\ objlen(v) > 0

AppendStruct(ty, v) ==
  IF NotIndexed(v) THEN Failed("broken")
  ELSE LET all == InOrder(Entries(ty.of, v))
       IN  IF all.r = "made" /\ objlen(v) < Len(ty.of) THEN Failed("broken")
           ELSE IF all.r = "made" THEN Made([t |-> "(", of |-> all.w]) ELSE all

AppendArray(ty, v) ==
  IF NotIndexed(v) THEN Failed("broken")
  ELSE LET all == InOrder(Entries([i \in 1..objlen(v) |-> ty.of[1]], v))
       IN  IF all.r = "made" THEN Made([t |-> "a", of |-> all.w]) ELSE all

(* The check after an entry looks at the start of the buffer's signature and not at
   the place in it, so that it refuses every map with an entry. *)
AppendMap(ty, v) ==
  IF v.k # "table" THEN Failed("broken")
  ELSE LET items == v.map \o [i \in DOMAIN v.seq |-> <<Num(2 * i), v.seq[i]>>]
       IN  IF items = <<>> THEN Made([t |-> "m", of |-> <<>>])
           ELSE LET first == InOrder(<<to_argument(ty.of[1], items[1][1], items[1][2]),
                                       to_argument(ty.of[2], items[1][2], items[1][2])>>)
                IN  IF first.r = "made" THEN Failed("refused") ELSE first

AppendVariant(v, top) ==
  LET ty == VariantTypeOf(v, top)
      w == to_argument(ty.w, VariantData(v), VariantData(v))
  IN  IF ty.r # "made" THEN ty
      ELSE IF w.r = "made" THEN Made([t |-> "v", of |-> <<w.w>>]) ELSE w

(* adbuslua_to_argument of the value v for the type ty; top is the value on top of
   Lua's stack. *)
to_argument(ty, v, top) ==
  CASE ty.t = "(" -> AppendStruct(ty, v)
    [] ty.t = "a" -> AppendArray(ty, v)
    [] ty.t = "m" -> AppendMap(ty, v)
    [] ty.t = "v" -> AppendVariant(v, top)
    [] OTHER -> Fixed(ty.t, v)

-----------------------------------------------------------------------------
(* To Lua *)

(* Mutant: the entries of an array are counted from 0. *)
RECURSIVE PushNextField_Zero(_)
PushNextField_Zero(w) ==
  CASE w.t = "a" /\ w.of # <<>> -> Table([i \in 1..Len(w.of) - 1 |-> PushNextField_Zero(w.of[i + 1])], <<>>)
    [] w.t \in {"a", "(", "m"} -> Table([i \in DOMAIN w.of |-> PushNextField_Zero(w.of[i])], <<>>)
    [] w.t = "v" -> PushNextField_Zero(w.of[1])
    [] w.t = "b" -> Bool(w.bool)
    [] w.t \in StringTypes -> Str(w.str)
    [] OTHER -> Num(w.halves)

RECURSIVE PushNextField(_)

(* Structs and arrays are tables that count from 1, maps are tables with keys, a
   variant is what is in it. *)
PushStruct(w) == Table([i \in DOMAIN w.of |-> PushNextField(w.of[i])], <<>>)
PushArray(w) == Table([i \in DOMAIN w.of |-> PushNextField(w.of[i])], <<>>)
PushMap(w) == Table(<<>>, [i \in DOMAIN w.of |-> <<PushNextField(w.of[i][1]), PushNextField(w.of[i][2])>>])
PushVariant(w) == PushNextField(w.of[1])

PushNextField(w) ==
  CASE w.t = "(" -> PushStruct(w)
    [] w.t = "a" -> PushArray(w)
    [] w.t = "m" -> PushMap(w)
    [] w.t = "v" -> PushVariant(w)
    [] w.t = "b" -> Bool(w.bool)
    [] w.t \in StringTypes -> Str(w.str)
    [] OTHER -> Num(w.halves)

-----------------------------------------------------------------------------
(* Messages *)

(* The arguments of a message, for a signature; building the message asserts that
   all of the signature is written (adbus_buf_end). *)
Arguments(sig, vals, tops) ==
  LET all == InOrder([i \in DOMAIN vals |->
                        IF i \in DOMAIN sig THEN to_argument(sig[i], vals[i], tops[i])
                        ELSE Failed("refused")])
  IN  IF all.r = "made" /\ Len(all.w) < Len(sig) THEN Failed("broken") ELSE all

MessageFields ==
  {"type", "no_reply", "no_autostart", "serial", "interface", "path", "member",
   "error_name", "reply_serial", "destination", "sender", "signature"}

(* The fields that adbuslua_to_message asks for. *)
RequiredFields(type) ==
  CASE type = "method_call" -> {"path", "member"}
    [] type = "method_return" -> {"reply_serial"}
    [] type = "error" -> {"error_name"}
    [] type = "signal" -> {"interface", "member"}

(* The fields are known, and none is of the wrong kind. *)
FieldsRight(fields, wrong) == fields \subseteq MessageFields /\ wrong = {}

(* adbuslua_to_message of a table with the fields, some of the wrong kind, and the
   arguments; type is the value of its field type. *)
to_message(type, fields, wrong, sig, vals) ==
  LET args == Arguments(sig, vals, vals)
  IN  IF \/ ~FieldsRight(fields, wrong)
         \/ type \notin {"method_call", "method_return", "error", "signal"}
         \/ vals # <<>> /\ "signature" \notin fields
      THEN Failed("refused")
      ELSE IF vals # <<>> /\ args.r # "made" THEN args
      ELSE IF RequiredFields(type) \ fields # {} THEN Failed("refused")
      ELSE Made([type |-> type, fields |-> fields, of |-> IF vals = <<>> THEN <<>> ELSE args.w])

(* lua_isstring, which is also true of numbers *)
isstring(v) == v.k \in {"string", "number"}

(* adbuslua_to_message_unpacked of the values that a method returned: nil and a
   string are an error, and what follows are its arguments, of the types of the
   results. *)
to_message_unpacked(sig, vals) ==
  LET isError == Len(vals) >= 2 /\ vals[1].k = "nil" /\ isstring(vals[2])
      rest == IF isError THEN SubSeq(vals, 3, Len(vals)) ELSE vals
      args == Arguments(IF vals = <<>> THEN <<>> ELSE sig, rest, [i \in DOMAIN rest |-> Last(vals)])
  IN  IF args.r # "made" THEN args
      ELSE Made([type |-> IF isError THEN "error" ELSE "method_return",
                 fields |-> {"reply_serial"} \cup (IF isError THEN {"error_name"} ELSE {}),
                 of |-> args.w])

(* PushMessage calls the name of an error 'error' and leaves the flags out. *)
PushMessage(m) ==
  [fields |-> {IF f = "error_name" THEN "error" ELSE f : f \in m.fields \ {"no_reply", "no_autostart"}}
                \cup {"type", "serial"},
   vals |-> [i \in DOMAIN m.of |-> PushNextField(m.of[i])]]

(* adbuslua_push_message, unpacked; a message without arguments has no signature,
   and it is read. *)
PushUnpacked(m) ==
  IF m.of = <<>> THEN Failed("broken")
  ELSE Made((IF m.type = "error" THEN <<Nil, Str("name")>> ELSE <<>>)
              \o [i \in DOMAIN m.of |-> PushNextField(m.of[i])])

-----------------------------------------------------------------------------
(* Steps *)

NoLua == [of |-> "nothing"]

LuaMsgInit == luaSent = NoLua /\ luaWire = NoLua /\ luaGot = NoLua

SendTable(type, fields, wrong, pairs) ==
  /\ luaSent = NoLua
  /\ LET sig == [i \in DOMAIN pairs |-> pairs[i][1]]
         vals == [i \in DOMAIN pairs |-> pairs[i][2]]
         named == /\ FieldsRight(fields, wrong) /\ RequiredFields(type) \subseteq fields
                  /\ pairs # <<>> => "signature" \in fields
     IN  /\ luaSent' = [sig |-> sig, vals |-> vals, as |-> "table", named |-> named]
         /\ luaWire' = to_message(type, fields, wrong, sig, vals)
  /\ UNCHANGED luaGot

ReturnValues(sig, vals) ==
  /\ luaSent = NoLua
  /\ luaSent' = [sig |-> sig, vals |-> vals, as |-> "values"]
  /\ luaWire' = to_message_unpacked(sig, vals)
  /\ UNCHANGED luaGot

LuaReceive(unpack) ==
  /\ luaWire # NoLua /\ luaWire.r = "made" /\ luaGot = NoLua
  /\ luaGot' = IF unpack THEN PushUnpacked(luaWire.w) ELSE Made(PushMessage(luaWire.w).vals)
  /\ UNCHANGED <<luaSent, luaWire>>

SomeFields ==
  { {"type", "path", "member", "signature"}, {"type", "interface", "member", "signature"},
    {"type", "reply_serial"}, {"type", "error_name", "signature", "no_reply"}, {"type", "error"} }

(* The values that a method may return for a signature: its results, too few or too
   many of them, or an error, which may have an argument. *)
Returned(sig) ==
  LET results == {vals \in [DOMAIN sig -> {a[2] : a \in LuaArgs}] :
                    \A i \in DOMAIN sig : <<sig[i], vals[i]>> \in LuaArgs}
  IN  results \cup {Append(vals, Num(2)) : vals \in results}
        \cup {<<Nil, name>> \o vals : name \in {Str("name"), Num(2)}, vals \in results}
        \cup {<<>>, <<Nil, Str("name")>>}

LuaMsgNext ==
  \/ /\ luaSent = NoLua
     /\ \E type \in {"method_call", "method_return", "error", "signal"}, fields \in SomeFields, pairs \in LuaPairs :
          \E wrong \in {{}, {"path"} \cap fields} : SendTable(type, fields, wrong, pairs)
  \/ /\ luaSent = NoLua
     /\ \E sig \in LuaSigs : \E vals \in Returned(sig) : ReturnValues(sig, vals)
  \/ \E unpack \in BOOLEAN : LuaReceive(unpack)

-----------------------------------------------------------------------------
(* Properties *)

(* The value v that was given for a type and the value g that came of it are the
   same to a Lua program: numbers up to the precision of the type, tables with the
   same entries, and a table for a table without any. *)
RECURSIVE SameValue(_, _, _)
SameValue(ty, v, g) ==
  LET same(t, s) == /\ g.k = "table" /\ Len(g.seq) = Len(s)
                    /\ \A i \in DOMAIN s : SameValue(t[i], s[i], g.seq[i])
  IN  CASE ty.t \in IntegerTypes -> g.k = "number" /\ g.halves % 2 = 0
                                      /\ (v.halves \in 0..511 => v.halves - g.halves \in {0, 1})
        [] ty.t = "a" -> IF v.k = "table" THEN same([i \in DOMAIN v.seq |-> ty.of[1]], v.seq)
                         ELSE g = Table(<<>>, <<>>)
        [] ty.t = "(" -> same(ty.of, v.seq)
        [] ty.t = "m" -> v.seq = <<>> /\ v.map = <<>> /\ g = Table(<<>>, <<>>)
        [] ty.t = "v" ->
             IF v.k = "table"
             THEN SameValue(IF v.sig # <<>> THEN v.sig[1] ELSE DetectVariantType(v), VariantData(v), g)
             ELSE g = v
        [] OTHER -> g = v

(* A value that is of a type, without a map that has an entry. *)
RECURSIVE Fits(_, _)
Fits(ty, v) ==
  CASE ty.t = "a" -> v.k = "table" /\ \A i \in DOMAIN v.seq : Fits(ty.of[1], v.seq[i])
    [] ty.t = "(" -> /\ v.k = "table" /\ Len(v.seq) = Len(ty.of)
                     /\ \A i \in DOMAIN v.seq : Fits(ty.of[i], v.seq[i])
    [] ty.t = "m" -> v.k = "table" /\ v.seq = <<>> /\ v.map = <<>>
    [] ty.t = "v" ->
         IF v.k = "table"
         THEN Fits(IF v.sig # <<>> THEN v.sig[1] ELSE DetectVariantType(v), VariantData(v))
         ELSE v.k # "nil"
    [] OTHER -> Fixed(ty.t, v).r = "made"

(* A message is sent if its values are of their types (adbuslua_to_message,
   adbuslua_to_message_unpacked), but for a map that has an entry, which AppendMap
   refuses whatever is in it (SameValue has no other), and but for a plain table in a
   variant that a method returns before a number or a boolean: the lookup of its
   metatable then takes the last value for it, and raises an error. *)
LuaValuesSent ==
  LET vals == luaSent.vals
      fit == Len(vals) = Len(luaSent.sig) /\ \A i \in DOMAIN vals : Fits(luaSent.sig[i], vals[i])
  IN  luaSent # NoLua /\ luaWire.r # "made" /\ fit =>
        IF luaSent.as = "table" THEN ~luaSent.named
        ELSE /\ luaWire.r = "raised" /\ Last(vals).k \in {"number", "boolean"}
             /\ \E i \in DOMAIN vals : vals[i].k = "table"

(* What a Lua program sends and the binding takes is what the other program gets
   (adbuslua_to_message, adbuslua_push_message): the same number of arguments with
   the same values, nested ones and those in variants too.  Only the unpacking of a
   message without arguments fails, for it reads a signature that is not there. *)
LuaValuesKept ==
  LET isError == luaWire.w.type = "error" /\ luaSent.as = "values"
      vals == IF isError THEN SubSeq(luaSent.vals, 3, Len(luaSent.vals)) ELSE luaSent.vals
      got == IF Len(luaGot.w) > Len(vals) THEN SubSeq(luaGot.w, 3, Len(luaGot.w)) ELSE luaGot.w
  IN  luaGot # NoLua =>
        IF luaGot.r = "made"
        THEN /\ Len(got) = Len(vals)
             /\ \A i \in DOMAIN vals : SameValue(luaSent.sig[i], vals[i], got[i])
        ELSE vals = <<>>

(* A method that returns nil and a name with arguments has its caller see just these
   (adbuslua_to_message_unpacked, adbuslua_push_message), and no other result is taken
   for an error, nor an error for a result.  Results that begin with nil and a number
   are an error as well, with the number for its name, for lua_isstring tells the two
   not apart. *)
LuaErrorsKept ==
  luaGot # NoLua /\ luaGot.r = "made" /\ luaSent.as = "values" /\ Len(luaGot.w) > 0 =>
    LET second == luaSent.vals[2].k
        failed == Len(luaSent.vals) >= 2 /\ luaSent.vals[1] = Nil /\ second \in {"string", "number"}
    IN  /\ failed <=> luaWire.w.type = "error"
        /\ luaGot.w[1] = Nil => failed /\ Len(luaGot.w) = Len(luaSent.vals)

(* What a Lua program sends or returns, values and errors, is sent when it fits, and is
   what the other program sees. *)
LuaMessagesSound == LuaValuesSent /\ LuaValuesKept /\ LuaErrorsKept
=============================================================================
