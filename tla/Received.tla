------------------------------ MODULE Received ------------------------------
(***************************************************************************)
(* Reading the header of a message (adbus_parse of adbus/parse.c) into the *)
(* one structure that the loop of adbus_conn_parse uses for all messages.  *)
(*                                                                         *)
(* A message on the wire has a type, 0 to 5, the fields of its header as   *)
(* triples of code, type and value, and the size of its arguments.  A      *)
(* value is the number of the message that it came with.  The order of the *)
(* bytes is the subject of Marshal.                                        *)
(***************************************************************************)
EXTENDS Integers, Sequences, Lists

CONSTANTS
  HeaderSets,  \* the sets of codes that messages have
  MaxStamp,    \* messages are told apart modulo this
  NoValue      \* NULL

ASSUME ReceivedAssumption ==
  /\ MaxStamp \in Nat /\ MaxStamp > 1
  /\ NoValue \notin 0..MaxStamp
  /\ HeaderSets \subseteq SUBSET (1..8)

VARIABLES
  inMsg,    \* the adbus_Message
  wire,     \* the message that was read last
  count,    \* its number
  outcome,  \* what became of it: dispatched, or the loop returned -1
  built     \* history: whether it came from adbus_msg_build

readVars == <<inMsg, wire, count, outcome, built>>

(* The codes of the header fields and the type of each. *)
INVALID == 0
PATH == 1
INTERFACE == 2
MEMBER == 3
ERROR_NAME == 4
REPLY_SERIAL == 5
DESTINATION == 6
SENDER == 7
SIGNATURE == 8
Unknown == 9

Codes == PATH..SIGNATURE
TypeOf(code) == CASE code = PATH -> "o" [] code = SIGNATURE -> "g" [] code = REPLY_SERIAL -> "u"
                  [] OTHER -> "s"

(* The types of messages. *)
METHOD == 1
RETURN == 2
ERROR == 3
SIGNAL == 4

NoFields == [c \in Codes |-> NoValue]

(* The structure before the first message: whatever is on the stack. *)
Uninitialised == [type |-> -1, fields |-> NoFields, argsize |-> 0]

ReadInit ==
  /\ inMsg = Uninitialised /\ count = 0 /\ outcome = "none" /\ built = FALSE
  /\ wire = [type |-> INVALID, fields |-> <<>>, argsize |-> 0]

-----------------------------------------------------------------------------

(* One field: the code is not 0, and a code that is known has its own type. *)
FieldOK(f) == f.code # INVALID /\ (f.code \in Codes => f.sig = TypeOf(f.code))

TakeField(fields, f) == IF f.code \in Codes THEN [fields EXCEPT ![f.code] = f.val] ELSE fields

(* The loop over the fields: a later one takes the place of an earlier one. *)
Taken(fs) ==
  LET Read[n \in 0..Len(fs)] ==
        IF n = 0 THEN NoFields ELSE TakeField(Read[n - 1], fs[n])
  IN  Read[Len(fs)]

(* The fields that adbus_parse asks for *)
Needed(type) ==
  CASE type = METHOD -> {PATH, MEMBER} [] type = RETURN -> {REPLY_SERIAL}
    [] type = ERROR -> {ERROR_NAME} [] OTHER -> {INTERFACE, MEMBER}

(* Mutant: arguments without a signature are let through. *)
adbus_parse_NoSig(m, w) ==
  LET fields == Taken(w.fields)
      fails == \/ w.type = INVALID
               \/ /\ w.type <= SIGNAL
                  /\ \/ \E i \in DOMAIN w.fields : ~FieldOK(w.fields[i])
                     \/ \E c \in Needed(w.type) : fields[c] = NoValue
  IN  [fails |-> fails,
       msg |-> IF w.type > SIGNAL THEN m
               ELSE [type |-> w.type, fields |-> fields, argsize |-> w.argsize]]

(* adbus_parse into the structure m: whether it fails, and the structure.  A type
   that is not known is no failure, and leaves the structure alone. *)
adbus_parse(m, w) ==
  LET fields == Taken(w.fields)
      fails == \/ w.type = INVALID
               \/ /\ w.type <= SIGNAL
                  /\ \/ \E i \in DOMAIN w.fields : ~FieldOK(w.fields[i])
                     \/ \E c \in Needed(w.type) : fields[c] = NoValue
                     \/ w.argsize > 0 /\ fields[SIGNATURE] = NoValue
  IN  [fails |-> fails,
       msg |-> IF w.type > SIGNAL THEN m
               ELSE [type |-> w.type, fields |-> fields, argsize |-> w.argsize]]

(* The loop of adbus_conn_parse: the message is read and dispatched.  After a
   failure the connection is of no more use. *)
Receive(w, fromFactory) ==
  LET r == adbus_parse(inMsg, w)
  IN  /\ outcome # "failed"
      /\ wire' = w /\ built' = fromFactory
      /\ count' = (count + 1) % MaxStamp
      /\ inMsg' = r.msg
      /\ outcome' = IF r.fails THEN "failed" ELSE "dispatched"

(* The fields in the order of adbus_msg_build, which writes the ones that are
   set, a signature if there are arguments, and no field that is not known. *)
Written(codes, n) ==
  LET order == <<INTERFACE, MEMBER, ERROR_NAME, DESTINATION, SENDER, PATH, REPLY_SERIAL, SIGNATURE>>
      set == Without(order, Codes \ codes)
  IN  [i \in 1..Len(set) |-> [code |-> set[i], sig |-> TypeOf(set[i]), val |-> n]]

(* A message from adbus_msg_build, which checks what its type needs. *)
ReceiveBuilt(type, codes, argsize) ==
  /\ CASE type = METHOD -> {PATH, MEMBER} \subseteq codes
       [] type = RETURN -> REPLY_SERIAL \in codes
       [] type = ERROR -> ERROR_NAME \in codes
       [] type = SIGNAL -> {INTERFACE, MEMBER} \subseteq codes
  /\ argsize > 0 <=> SIGNATURE \in codes
  /\ Receive([type |-> type, fields |-> Written(codes, count), argsize |-> argsize], TRUE)

(* A message of another program: of any type, with one field more, which may be
   unknown, repeated or of a wrong type. *)
ReceiveOther(type, codes, argsize, code, sig) ==
  Receive([type |-> type, argsize |-> argsize,
           fields |-> Append(Written(codes, count), [code |-> code, sig |-> sig, val |-> MaxStamp])],
          FALSE)

ReadNext ==
  \E codes \in HeaderSets, argsize \in {0, 1} :
    \/ \E type \in METHOD..SIGNAL : ReceiveBuilt(type, codes, argsize)
    \/ \E type \in INVALID..(SIGNAL + 1),
          extra \in {<<INVALID, "s">>, <<MEMBER, "s">>, <<MEMBER, "u">>, <<Unknown, "u">>} :
         ReceiveOther(type, codes, argsize, extra[1], extra[2])

ReadSpec == ReadInit /\ [][ReadNext]_readVars

-----------------------------------------------------------------------------
(* Properties *)

(* What adbus_msg_build wrote is read without a failure, with the fields it wrote
   and no other: the two agree on what each type needs. *)
BuiltIsRead ==
  built => /\ outcome = "dispatched"
           /\ \A c \in Codes : (inMsg.fields[c] # NoValue) <=> \E i \in DOMAIN wire.fields : wire.fields[i].code = c

(* A message of a known type is dispatched with the last value of each of its
   fields, and with nothing that an earlier message left in the structure.  (A
   message of an unknown type is dispatched as the message before it, or as
   whatever the structure holds.) *)
DispatchedAsRead ==
  outcome = "dispatched" /\ wire.type \in METHOD..SIGNAL =>
    /\ inMsg.type = wire.type
    /\ \A c \in Codes :
         LET at == {i \in DOMAIN wire.fields : wire.fields[i].code = c}
         IN  IF at = {} THEN inMsg.fields[c] = NoValue
             ELSE \E i \in at : (\A j \in at : j <= i) /\ inMsg.fields[c] = wire.fields[i].val

(* What a callback relies on: whatever was received, once one message has been
   read, a message that is dispatched has the fields that its type stands for,
   and a signature if it has arguments (adbus_parse). *)
CallbacksCanRely ==
  outcome = "dispatched" /\ inMsg # Uninitialised =>
    /\ \A c \in CASE inMsg.type = METHOD -> {PATH, MEMBER} [] inMsg.type = RETURN -> {REPLY_SERIAL}
                  [] inMsg.type = ERROR -> {ERROR_NAME} [] OTHER -> {INTERFACE, MEMBER} :
         inMsg.fields[c] # NoValue
    /\ inMsg.argsize > 0 => inMsg.fields[SIGNATURE] # NoValue

(* A message is dispatched as it was built, with nothing of an earlier one, and with
   what callbacks rely on. *)
ReceivedSound == BuiltIsRead /\ DispatchedAsRead /\ CallbacksCanRely
=============================================================================
