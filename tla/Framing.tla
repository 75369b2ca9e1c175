------------------------------ MODULE Framing ------------------------------
(***************************************************************************)
(* Sizes of messages on the wire (adbus/parse.c, adbus/server-parse.c,     *)
(* adbusI_Header and adbusI_ExtendedHeader of adbus/misc.h).               *)
(*                                                                         *)
(* Sizes are in words of 4 bytes: everything that decides where a message  *)
(* ends is a multiple of 4 or is rounded up to 8.  A message is the list   *)
(* of its header fields and the size of its body.                          *)
(***************************************************************************)
EXTENDS Integers, Sequences

CONSTANTS
  Bodies,   \* the sizes of bodies
  MaxMsgs   \* length of a stream

ASSUME BodiesAssumption == Bodies \subseteq Nat /\ MaxMsgs \in Nat

Header == 3          \* sizeof(adbusI_Header)
ExtendedHeader == 4  \* sizeof(adbusI_ExtendedHeader)

(* ADBUSI_ALIGN(n, 8) *)
Align(n) == 2 * ((n + 1) \div 2)

(* A header field: what it adds to the header, and whether it is the sender. *)
HeaderField == [sender : BOOLEAN, size : Nat]

(* headerFieldLength of a list of fields: each is aligned to 8, the last one
   is not padded. *)
FieldLength(fields) ==
  LET End[n \in 0..Len(fields)] ==
        IF n = 0 THEN 0 ELSE Align(End[n - 1]) + fields[n].size
  IN  End[Len(fields)]

HeaderSize(m) == Align(ExtendedHeader + FieldLength(m.fields))

(* The size that adbus_parse finds in a message, and a message has. *)
MessageSize(m) == HeaderSize(m) + m.body

(* Where message i of a stream starts. *)
Start(msgs, i) ==
  LET End[n \in 0..Len(msgs)] == IF n = 0 THEN 0 ELSE End[n - 1] + MessageSize(msgs[n])
  IN  End[i - 1]

(* The message whose header stands at offset pos of the stream, if any. *)
MessagesAt(msgs, pos) == {i \in DOMAIN msgs : Start(msgs, i) = pos}
=============================================================================
