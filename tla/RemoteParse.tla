---------------------------- MODULE RemoteParse ----------------------------
(***************************************************************************)
(* The incremental parser of the server (adbus_remote_parse of             *)
(* adbus/server-parse.c).                                                  *)
(*                                                                         *)
(* A peer writes a stream of messages; the network hands it over in pieces *)
(* of any size.  After each piece adbus_remote_parse runs until it lacks   *)
(* data.  The case labels of its switch are the actions below; no other    *)
(* code runs between them.  Contents do not matter, so a buffer is its     *)
(* size, together with the offset in the stream of the first word that has *)
(* not been taken from the receive buffer.                                 *)
(***************************************************************************)
EXTENDS Framing, Lists

CONSTANTS
  PeerFields,  \* the lists of header fields that peers send
  SenderSize   \* size of the sender field that the server appends

ASSUME SenderAssumption == PeerFields \subseteq Seq(HeaderField) /\ SenderSize \in Nat \ {0}

VARIABLES
  msgs,           \* what the peer writes
  pos,            \* offset of the front of the receive buffer
  rx,             \* words in the receive buffer
  running,        \* inside adbus_remote_parse
  parseState,     \* r->parseState
  headerSize,     \* r->headerSize
  msgSize,        \* r->msgSize
  parsedMsgSize,  \* r->parsedMsgSize
  msize,          \* words in r->msg
  dispatched,     \* what DispatchMsg has dispatched: end offset and size
  kicked          \* adbus_remote_parse has returned -1: the peer is dropped

parseVars == <<msgs, pos, rx, running, parseState, headerSize, msgSize,
          parsedMsgSize, msize, dispatched, kicked>>

(* fault: whether FixHeaders or DispatchMsg fails on the message. *)
PeerMessages ==
  [fields : PeerFields, body : Bodies, fault : {"none", "header", "dispatch"}]

ParseInit ==
  /\ msgs \in [1..MaxMsgs -> PeerMessages]
  /\ pos = 0 /\ rx = 0
  /\ running = FALSE
  /\ parseState = "BEGIN"
  /\ headerSize = 0 /\ msgSize = 0 /\ parsedMsgSize = 0 /\ msize = 0
  /\ dispatched = <<>>
  /\ kicked = FALSE

StreamSize == Start(msgs, Len(msgs) + 1)

(* The network delivers some of the stream. *)
RemoteRecv ==
  /\ ~running /\ ~kicked
  /\ \E k \in 1..(StreamSize - pos - rx) : rx' = rx + k
  /\ running' = TRUE
  /\ UNCHANGED <<msgs, pos, parseState, headerSize, msgSize, parsedMsgSize,
                 msize, dispatched, kicked>>

(* goto end: what is left stays in the receive buffer. *)
Return == running' = FALSE

(* Move: all that is needed, or all there is. *)
Move(need) ==
  LET n == IF rx >= need THEN need ELSE rx
  IN  /\ pos' = pos + n
      /\ rx' = rx - n

BeginShort ==
  /\ running /\ parseState = "BEGIN"
  /\ rx < ExtendedHeader
  /\ Return
  /\ UNCHANGED <<msgs, pos, rx, parseState, headerSize, msgSize, parsedMsgSize,
                 msize, dispatched, kicked>>

(* The header tells the sizes. *)
Begin ==
  /\ running /\ parseState = "BEGIN"
  /\ rx >= ExtendedHeader
  /\ \E i \in MessagesAt(msgs, pos) :
       /\ headerSize' = HeaderSize(msgs[i])
       /\ msgSize' = headerSize' + msgs[i].body
  /\ parseState' = "HEADER"
  /\ msize' = 0
  /\ UNCHANGED <<msgs, pos, rx, running, parsedMsgSize, dispatched, kicked>>

HeaderShort ==
  /\ running /\ parseState = "HEADER"
  /\ rx < headerSize - msize
  /\ Move(headerSize - msize)
  /\ msize' = msize + rx
  /\ Return
  /\ UNCHANGED <<msgs, parseState, headerSize, msgSize, parsedMsgSize, dispatched, kicked>>

(* The message whose header is now in r->msg. *)
HeaderInBuffer == CHOOSE i \in DOMAIN msgs : Start(msgs, i) + headerSize = pos'

(* The header fields but for the sender, which a peer may send but not choose. *)
WithoutSender(fields) == Without(fields, {f \in HeaderField : f.sender})

(* Mutant: a sender field stays. *)
FixHeaders_Keep(m) ==
  LET len == Align(FieldLength(m.fields)) + SenderSize
  IN  /\ msize' = ExtendedHeader + Align(len)
      /\ parsedMsgSize' = msgSize - headerSize + Align(len) + ExtendedHeader

(* FixHeaders: the sender fields go, the real one is appended, and the size
   of the whole message changes. *)
FixHeaders(m) ==
  LET len == Align(FieldLength(WithoutSender(m.fields))) + SenderSize
  IN  /\ msize' = ExtendedHeader + Align(len)
      /\ parsedMsgSize' = msgSize - headerSize + Align(len) + ExtendedHeader

HeaderDone ==
  /\ running /\ parseState = "HEADER"
  /\ rx >= headerSize - msize
  /\ Move(headerSize - msize)
  /\ msgs[HeaderInBuffer].fault # "header"
  /\ FixHeaders(msgs[HeaderInBuffer])
  /\ parseState' = "DATA"
  /\ UNCHANGED <<msgs, running, headerSize, msgSize, dispatched, kicked>>

(* FixHeaders fails.  The caller drops the peer, and what r holds is not used
   again. *)
HeaderFails ==
  /\ running /\ parseState = "HEADER"
  /\ rx >= headerSize - msize
  /\ Move(headerSize - msize)
  /\ msgs[HeaderInBuffer].fault = "header"
  /\ kicked' = TRUE
  /\ Return
  /\ UNCHANGED <<msgs, parseState, headerSize, msgSize, parsedMsgSize, msize, dispatched>>

DataShort ==
  /\ running /\ parseState = "DATA"
  /\ rx < parsedMsgSize - msize
  /\ Move(parsedMsgSize - msize)
  /\ msize' = msize + rx
  /\ Return
  /\ UNCHANGED <<msgs, parseState, headerSize, msgSize, parsedMsgSize, dispatched, kicked>>

(* The message that is now complete in r->msg. *)
DataInBuffer == CHOOSE i \in DOMAIN msgs : Start(msgs, i + 1) = pos'

(* Mutant: a message without body waits for more data. *)
DataDone_Wait ==
  /\ running /\ parseState = "DATA"
  /\ rx >= parsedMsgSize - msize /\ rx > 0
  /\ Move(parsedMsgSize - msize)
  /\ msgs[DataInBuffer].fault # "dispatch"
  /\ dispatched' = Append(dispatched, [end |-> pos', size |-> parsedMsgSize])
  /\ headerSize' = 0 /\ msgSize' = 0 /\ parsedMsgSize' = 0 /\ msize' = 0
  /\ parseState' = "BEGIN"
  /\ UNCHANGED <<msgs, running, kicked>>

(* The message is complete: DispatchMsg, then around the loop. *)
DataDone ==
  /\ running /\ parseState = "DATA"
  /\ rx >= parsedMsgSize - msize
  /\ Move(parsedMsgSize - msize)
  /\ msgs[DataInBuffer].fault # "dispatch"
  /\ dispatched' = Append(dispatched, [end |-> pos', size |-> parsedMsgSize])
  /\ headerSize' = 0 /\ msgSize' = 0 /\ parsedMsgSize' = 0 /\ msize' = 0
  /\ parseState' = "BEGIN"
  /\ UNCHANGED <<msgs, running, kicked>>

(* DispatchMsg fails, with the same outcome. *)
DataFails ==
  /\ running /\ parseState = "DATA"
  /\ rx >= parsedMsgSize - msize
  /\ Move(parsedMsgSize - msize)
  /\ msgs[DataInBuffer].fault = "dispatch"
  /\ kicked' = TRUE
  /\ Return
  /\ UNCHANGED <<msgs, parseState, headerSize, msgSize, parsedMsgSize, msize, dispatched>>

Parse ==
  \/ BeginShort \/ Begin
  \/ HeaderShort \/ HeaderDone \/ HeaderFails
  \/ DataShort \/ DataDone \/ DataFails

ParseNext ==
  \/ RemoteRecv
  \/ BeginShort \/ Begin
  \/ HeaderShort \/ HeaderDone \/ HeaderFails
  \/ DataShort \/ DataDone \/ DataFails

ParseSpec == ParseInit /\ [][ParseNext]_parseVars

(* The parser runs; the network keeps delivering. *)
ParseFairSpec == ParseSpec /\ WF_parseVars(Parse) /\ WF_parseVars(RemoteRecv)

-----------------------------------------------------------------------------
(***************************************************************************)
(* Properties                                                              *)
(***************************************************************************)

(* Type correctness. *)
ParseTypeOK ==
  /\ pos \in Nat /\ rx \in Nat /\ pos + rx <= StreamSize
  /\ running \in BOOLEAN /\ kicked \in BOOLEAN
  /\ parseState \in {"BEGIN", "HEADER", "DATA"}
  /\ headerSize \in Nat /\ msgSize \in Nat /\ parsedMsgSize \in Nat /\ msize \in Nat

(* The assertions of adbus_remote_parse and adbus_remote_dispatch: something
   of the header is missing in HEADER, r->msg is never longer than the message
   in DATA, and between messages the sizes are zero. *)
Asserts ==
  /\ parseState = "HEADER" => headerSize > msize
  /\ parseState = "DATA" => parsedMsgSize >= msize /\ parsedMsgSize > ExtendedHeader
  /\ parseState = "BEGIN" => headerSize = 0 /\ msgSize = 0 /\ parsedMsgSize = 0

(* The message with the sender that the server knows and no other. *)
AsSent(m) ==
  [fields |-> Append(WithoutSender(m.fields), [sender |-> TRUE, size |-> SenderSize]),
   body |-> m.body]

(* However the stream is cut, the messages that are dispatched are the ones
   the peer wrote, in order, each with its own body and nothing else, up to
   the first one that makes the server drop the peer. *)
Framed ==
  /\ Len(dispatched) <= Len(msgs)
  /\ kicked => msgs[Len(dispatched) + 1].fault # "none"
  /\ \A i \in DOMAIN dispatched :
       /\ msgs[i].fault = "none"
       /\ dispatched[i].end = Start(msgs, i + 1)
       /\ dispatched[i].size = MessageSize(AsSent(msgs[i]))

(* When adbus_remote_parse returns it has dispatched every message that has
   arrived as a whole, and has taken all but a part of a fixed header. *)
NothingHeldBack ==
  ~running /\ ~kicked =>
    /\ \A i \in DOMAIN msgs : Start(msgs, i + 1) <= pos + rx => i <= Len(dispatched)
    /\ rx < ExtendedHeader

(* A stream that begins to arrive is dispatched to its last message, or the peer is
   dropped. *)
AllDispatched == pos + rx > 0 ~> (Len(dispatched) = Len(msgs) \/ kicked)

(* Whatever a peer writes and however the stream is cut, the assertions of
   adbus_remote_parse hold, and it dispatches the messages of the stream, all that have
   arrived and each as it was written but for the sender. *)
ServerParserSound == ParseTypeOK /\ Asserts /\ Framed /\ NothingHeldBack
=============================================================================
