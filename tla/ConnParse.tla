----------------------------- MODULE ConnParse -----------------------------
(***************************************************************************)
(* The parser of the client (adbus_conn_parse of adbus/connection.c with   *)
(* adbus_parse_size of adbus/parse.c).                                     *)
(*                                                                         *)
(* The counterpart of RemoteParse: messages stay in the receive buffer     *)
(* until they are complete and are taken from it one by one.  A buffer is  *)
(* its size, with the offset in the stream of its first word.              *)
(***************************************************************************)
EXTENDS Framing

CONSTANT BusFields  \* the lists of header fields that the server sends

ASSUME BusFieldsAssumption == BusFields \subseteq Seq(HeaderField)

VARIABLES
  stream,      \* what the server writes
  front,       \* offset of the front of the receive buffer
  buffered,    \* words in the receive buffer
  taken,       \* words of it that the running call has dispatched
  parsing,     \* inside adbus_conn_parse
  given,       \* offset and size of the data given to adbus_parse
  gaveUp       \* adbus_conn_parse has returned -1

connVars == <<stream, front, buffered, taken, parsing, given, gaveUp>>

(* fault: whether adbus_parse or adbus_conn_dispatch fails on the message.  The
   types are the four that adbus_parse knows. *)
BusMessages == [fields : BusFields, body : Bodies, fault : BOOLEAN]

(* Mutant: the header fields are not padded. *)
parse_size_Unaligned(m, size) ==
  IF size < ExtendedHeader THEN 0
  ELSE Header + FieldLength(m.fields) + m.body

(* adbus_parse_size of the data at the start of message m; 0 means that it
   cannot tell yet. *)
parse_size(m, size) ==
  IF size < ExtendedHeader THEN 0
  ELSE Align(Header + FieldLength(m.fields)) + m.body

ConnInit ==
  /\ stream \in [1..MaxMsgs -> BusMessages]
  /\ front = 0 /\ buffered = 0 /\ taken = 0
  /\ parsing = FALSE
  /\ given = <<>>
  /\ gaveUp = FALSE

WholeStream == Start(stream, Len(stream) + 1)

(* More of the stream is appended to the buffer, and the parser is called. *)
ConnReceive ==
  /\ ~parsing /\ ~gaveUp
  /\ \E k \in 1..(WholeStream - front - buffered) : buffered' = buffered + k
  /\ parsing' = TRUE
  /\ UNCHANGED <<stream, front, taken, given, gaveUp>>

(* The message that data points to. *)
Current == MessagesAt(stream, front + taken)

SizeOf(i) == parse_size(stream[i], buffered - taken)

(* One turn of the loop: a complete message. *)
ParseMessage ==
  /\ parsing
  /\ \E i \in Current :
       /\ SizeOf(i) # 0 /\ SizeOf(i) <= buffered - taken
       /\ ~stream[i].fault
       /\ given' = Append(given, [start |-> front + taken, size |-> SizeOf(i)])
       /\ taken' = taken + SizeOf(i)
  /\ UNCHANGED <<stream, front, buffered, parsing, gaveUp>>

(* A message that cannot be parsed or dispatched: nothing is removed. *)
ParseFails ==
  /\ parsing
  /\ \E i \in Current :
       /\ SizeOf(i) # 0 /\ SizeOf(i) <= buffered - taken
       /\ stream[i].fault
  /\ parsing' = FALSE
  /\ gaveUp' = TRUE
  /\ UNCHANGED <<stream, front, buffered, taken, given>>

(* No complete message is left: what was dispatched is removed. *)
ParseReturn ==
  /\ parsing
  /\ \A i \in Current : SizeOf(i) = 0 \/ SizeOf(i) > buffered - taken
  /\ Current # {} \/ taken = buffered
  /\ front' = front + taken
  /\ buffered' = buffered - taken
  /\ taken' = 0
  /\ parsing' = FALSE
  /\ UNCHANGED <<stream, given, gaveUp>>

ConnNext == ConnReceive \/ ParseMessage \/ ParseFails \/ ParseReturn

ConnSpec == ConnInit /\ [][ConnNext]_connVars

(* The parser runs; the network keeps delivering. *)
ConnFairSpec == ConnSpec /\ WF_connVars(ParseMessage \/ ParseFails \/ ParseReturn) /\ WF_connVars(ConnReceive)

-----------------------------------------------------------------------------
(***************************************************************************)
(* Properties                                                              *)
(***************************************************************************)

(* adbus_parse is given each message of the stream once, in order, from its
   first word to its last one: adbus_parse_size tells the size of the message
   and 0 only while the data do not tell it. *)
ExactMessages ==
  \A i \in DOMAIN given :
    /\ i <= Len(stream)
    /\ given[i] = [start |-> Start(stream, i), size |-> MessageSize(stream[i])]

(* When adbus_conn_parse returns, every message that has arrived as a whole
   has been dispatched and removed, incomplete ones are left in the buffer. *)
AllTaken ==
  ~parsing /\ ~gaveUp =>
    /\ front = Start(stream, Len(given) + 1)
    /\ \A i \in DOMAIN stream : Start(stream, i + 1) <= front + buffered => i <= Len(given)

(* A stream that begins to arrive is dispatched to its last message, or up to the one
   that fails. *)
AllParsed ==
  front + buffered > 0 ~>
    (Len(given) = Len(stream) \/ (gaveUp /\ stream[Len(given) + 1].fault))

(* However the stream is cut, adbus_conn_parse takes each message once and as a whole,
   and leaves none that has arrived. *)
ClientParserSound == ExactMessages /\ AllTaken
=============================================================================
