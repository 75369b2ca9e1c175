------------------------------ MODULE Buffers ------------------------------
(***************************************************************************)
(* The strings of include/c/dmem/string.h and dmem/string.c, kept in the   *)
(* vector of vector.h, the ring buffer of queue.h, and the buffer that     *)
(* bytes are received into and lines taken from (adbus/rbuffer.c).         *)
(*                                                                         *)
(* A vector is the sequence of its elements; the string in it ends with a  *)
(* NUL, which the size of the vector counts.  What a popped element leaves *)
(* in the ring buffer is never read and is forgotten here.                 *)
(***************************************************************************)
EXTENDS Integers, FiniteSets, Sequences, SequencesExt

CONSTANTS
  Pieces,     \* texts that are put into the string
  PrintRoom,  \* the room for the first try of a formatted text: 128
  MaxText,    \* bound on the length of the string
  Grow,       \* what the ring buffer grows by before it is doubled: 16
  MaxPush,    \* bound on the elements of one push or pop
  MaxQueued,  \* bound on the elements in the ring buffer
  MaxAlloc,   \* bound on the room of the ring buffer
  Streams,    \* what a peer sends, as characters; a line ends with "LF"
  RecvSize    \* the room for one read

ASSUME BuffersAssumption ==
  /\ \A t \in Pieces \cup Streams : t \in Seq(Range(t))
  /\ \A t \in Pieces : "NUL" \notin Range(t)
  /\ {PrintRoom, MaxText, MaxPush, MaxQueued, MaxAlloc, RecvSize} \subseteq Nat
  /\ Grow \in Nat \ {0}

VARIABLES
  chars,  \* the vector of the string
  text,   \* history: what the string should be
  ring,   \* the dq_name_t: data, by index from 0, begin and end
  queued, \* history: what the queue should hold
  stamp,  \* the next element that is put into the queue
  block,  \* history: whether the last block pushed was in one piece
  rbuf,     \* the vector of the receive buffer
  incoming, \* what has not been received
  lineSeq,  \* history: the lines that were taken
  allSent   \* history: the whole stream

stringVars == <<chars, text>>
ringVars == <<ring, queued, stamp, block>>
recvVars == <<rbuf, incoming, lineSeq, allSent>>

(* What an unused element of the ring buffer holds. *)
Junk == -1

StringInit == chars = <<>> /\ text = <<>>

RingInit ==
  /\ ring = [data |-> [i \in {} |-> Junk], begin |-> 0, end |-> 0]
  /\ queued = <<>> /\ stamp = 0 /\ block = TRUE

RecvInit == rbuf = <<>> /\ incoming \in Streams /\ lineSeq = <<>> /\ allSent = incoming

-----------------------------------------------------------------------------
(* Strings; positions count from 0. *)

(* memcpy of t to pos *)
Copied(v, pos, t) == SubSeq(v, 1, pos) \o t \o SubSeq(v, pos + Len(t) + 1, Len(v))

(* dv_insert of n elements, which are filled with '?', and dv_remove *)
dv_insert(v, pos, n) == SubSeq(v, 1, pos) \o [i \in 1..n |-> "?"] \o SubSeq(v, pos + 1, Len(v))
dv_remove(v, pos, n) == SubSeq(v, 1, pos) \o SubSeq(v, pos + n + 1, Len(v))

(* ds_size *)
ds_size(v) == IF v = <<>> THEN 0 ELSE Len(v) - 1

(* ds_cat_n: a string that has a NUL already is overwritten from there. *)
ds_cat_n(v, t) == Copied(dv_insert(v, Len(v), IF v = <<>> THEN Len(t) + 1 ELSE Len(t)),
                         ds_size(v), t \o <<"NUL">>)

(* ds_insert_n, ds_insert_char *)
ds_insert_n(v, pos, t) ==
  IF pos = ds_size(v) THEN ds_cat_n(v, t) ELSE Copied(dv_insert(v, pos, Len(t)), pos, t)

(* vsnprintf of t at pos, with n bytes for it: the text is cut, and a NUL put
   after it. *)
vsnprintf(v, pos, n, t) == Copied(v, pos, SubSeq(t, 1, IF Len(t) < n THEN Len(t) ELSE n - 1) \o <<"NUL">>)

(* ds_insert_vf: the text is tried in a fixed room, which is then enlarged or
   cut to size.  The NUL that is written over the next character is replaced. *)
ds_insert_vf(v, pos, t) ==
  LET old == IF v = <<>> THEN <<"NUL">> ELSE v
      tried == vsnprintf(dv_insert(old, pos, PrintRoom), pos, PrintRoom + 1, t)
      sized == IF Len(t) > PrintRoom
               THEN vsnprintf(dv_insert(tried, pos + PrintRoom, Len(t) - PrintRoom),
                              pos, Len(t) + 1, t)
               ELSE dv_remove(tried, pos + Len(t), PrintRoom - Len(t))
  IN  [sized EXCEPT ![pos + Len(t) + 1] = old[pos + 1]]

StringIs(v, t) == Len(t) <= MaxText /\ chars' = v /\ text' = t

(* ds_set_n clears the vector first. *)
SetText(t) == StringIs(ds_cat_n(<<>>, t), t)

(* ds_cat_n, ds_insert_n, and the formatted forms ds_cat_f, ds_insert_f *)
InsertText(pos, t) ==
  StringIs(ds_insert_n(chars, pos, t), SubSeq(text, 1, pos) \o t \o SubSeq(text, pos + 1, Len(text)))
InsertFormatted(pos, t) ==
  StringIs(ds_insert_vf(chars, pos, t), SubSeq(text, 1, pos) \o t \o SubSeq(text, pos + 1, Len(text)))

(* ds_remove, of characters that are there *)
RemoveText(pos, n) ==
  /\ pos + n <= ds_size(chars)
  /\ StringIs(dv_remove(chars, pos, n), dv_remove(text, pos, n))

(* ds_remove_end *)
RemoveEnd(n) ==
  /\ n \in 1..ds_size(chars)
  /\ LET rest == SubSeq(chars, 1, Len(chars) - n)
     IN  StringIs([rest EXCEPT ![Len(rest)] = "NUL"], SubSeq(text, 1, Len(text) - n))

-----------------------------------------------------------------------------
(* The ring buffer *)

AllocOf(q) == Cardinality(DOMAIN q.data)

(* dq_size *)
dq_size(q) == IF q.end < q.begin THEN q.end + AllocOf(q) - q.begin ELSE q.end - q.begin

(* dq_a: the index of an element *)
dq_a(q, i) == IF q.begin + i >= AllocOf(q) THEN q.begin + i - AllocOf(q) ELSE q.begin + i

(* Mutant: the elements at the end stay where they are. *)
dq_resize_Stay(q, sz) ==
  LET twice == (AllocOf(q) + Grow) * 2
      alloc == IF twice <= sz THEN sz + 1 ELSE twice
  IN  [q EXCEPT !.data = [i \in 0..(alloc - 1) |-> IF i < AllocOf(q) THEN q.data[i] ELSE Junk]]

(* dq_resize: elements that wrap around are moved to the new end. *)
dq_resize(q, sz) ==
  LET old == AllocOf(q)
      twice == (old + Grow) * 2
      alloc == IF twice <= sz THEN sz + 1 ELSE twice
      wraps == q.end < q.begin
      moved == alloc - old
  IN  [data |-> [i \in 0..(alloc - 1) |->
                   IF wraps /\ i >= q.begin + moved THEN q.data[i - moved]
                   ELSE IF i < old /\ ~(wraps /\ i >= q.begin) THEN q.data[i] ELSE Junk],
       begin |-> IF wraps THEN q.begin + moved ELSE q.begin, end |-> q.end]

(* dq_linearize: all elements in one piece, behind the place of those that had
   wrapped around. *)
dq_linearize(q) ==
  LET r == dq_resize(q, dq_size(q) * 2)
      n == dq_size(r)
  IN  IF dq_size(q) = 0 THEN [q EXCEPT !.begin = 0, !.end = 0]
      ELSE IF q.end > q.begin THEN q
      ELSE [data |-> [i \in DOMAIN r.data |->
                        IF i \in r.end..(r.end + n - 1) THEN r.data[dq_a(r, i - r.end)] ELSE Junk],
            begin |-> r.end, end |-> r.end + n]

(* The end of dq_push_back: a block that wraps around is put in one piece. *)
pushed(q, sz, n) == IF dq_a(q, sz) > dq_a(q, sz + n) THEN dq_linearize(q) ELSE q

(* dq_push_back: the buffer is not filled up, or it would look empty. *)
dq_push_back(q, n) ==
  LET sz == dq_size(q)
      room == IF sz + n >= AllocOf(q) - 1 THEN dq_resize(q, sz + n) ELSE q
      start == IF dq_size(room) = 0 THEN [room EXCEPT !.begin = 0, !.end = 0] ELSE room
  IN  pushed([start EXCEPT !.end = IF @ + n >= AllocOf(start) THEN @ + n - AllocOf(start) ELSE @ + n],
             sz, n)

(* Three elements are told apart. *)
NextStamps(n) == [i \in 1..n |-> (stamp + i - 1) % 3]

(* A block is pushed and filled through the pointer to its first element. *)
PushBack(n) ==
  LET q == dq_push_back(ring, n)
      first == dq_a(q, dq_size(ring))
  IN  /\ Len(queued) + n <= MaxQueued /\ AllocOf(q) <= MaxAlloc
      /\ ring' = [q EXCEPT !.data = [i \in DOMAIN @ |->
                    IF i \in first..(first + n - 1) THEN NextStamps(n)[i - first + 1] ELSE @[i]]]
      /\ queued' = queued \o NextStamps(n) /\ stamp' = (stamp + n) % 3
      /\ block' = (first + n <= AllocOf(q))

Kept(q) == [q EXCEPT !.data = [i \in DOMAIN @ |->
              IF \E k \in 0..(dq_size(q) - 1) : dq_a(q, k) = i THEN @[i] ELSE Junk]]

(* dq_pop_front, dq_pop_back *)
PopFront(n) ==
  /\ n <= dq_size(ring)
  /\ ring' = Kept([ring EXCEPT !.begin = IF @ + n >= AllocOf(ring) THEN @ + n - AllocOf(ring) ELSE @ + n])
  /\ queued' = SubSeq(queued, n + 1, Len(queued))
  /\ UNCHANGED <<stamp, block>>
PopBack(n) ==
  /\ n <= dq_size(ring)
  /\ ring' = Kept([ring EXCEPT !.end = IF @ < n THEN @ + AllocOf(ring) - n ELSE @ - n])
  /\ queued' = SubSeq(queued, 1, Len(queued) - n)
  /\ UNCHANGED <<stamp, block>>

-----------------------------------------------------------------------------
(* The receive buffer *)

(* adbus_buf_recvbuf, and recv that fills the first n of it *)
buf_recvbuf(v, got) == Copied(dv_insert(v, Len(v), RecvSize), Len(v), got)

(* adbus_buf_recvd *)
buf_recvd(v, recvd) == SubSeq(v, 1, Len(v) - (RecvSize - (IF recvd > 0 THEN recvd ELSE 0)))

(* A read of n characters, or one that fails (-1). *)
RecvBytes(n) ==
  LET got == SubSeq(incoming, 1, n)
  IN  /\ n <= Len(incoming)
      /\ rbuf' = buf_recvd(buf_recvbuf(rbuf, got), n)
      /\ incoming' = SubSeq(incoming, Len(got) + 1, Len(incoming))
      /\ UNCHANGED <<lineSeq, allSent>>

(* adbus_buf_line: the length of the first line, 0 if there is none. *)
buf_line(v) == SelectInSeq(v, LAMBDA c : c = "LF")

(* A line is used, and removed with adbus_buf_remove. *)
TakeTheLine ==
  /\ buf_line(rbuf) > 0
  /\ lineSeq' = Append(lineSeq, SubSeq(rbuf, 1, buf_line(rbuf)))
  /\ rbuf' = dv_remove(rbuf, 0, buf_line(rbuf))
  /\ UNCHANGED <<incoming, allSent>>

RecvNext == TakeTheLine \/ \E n \in (-1)..RecvSize : RecvBytes(n)

StringNext ==
  \/ \E t \in Pieces :
       \/ SetText(t)
       \/ \E pos \in 0..ds_size(chars) : InsertText(pos, t) \/ InsertFormatted(pos, t)
  \/ \E n \in 1..MaxText : RemoveEnd(n) \/ \E pos \in 0..MaxText : RemoveText(pos, n)

RingNext == \E n \in 1..MaxPush : PushBack(n) \/ PopFront(n) \/ PopBack(n)

-----------------------------------------------------------------------------
(* Properties *)

(* After any sequence of operations a string holds its text with one NUL behind
   it, also after a formatted text that is longer than the first try, or
   nothing at all. *)
TextKept == chars = (IF chars = <<>> THEN text ELSE text \o <<"NUL">>)

(* The queue returns what was put into it in order, when it wraps around, is
   resized or put in one piece. *)
QueueInOrder == queued = [i \in 1..dq_size(ring) |-> ring.data[dq_a(ring, i - 1)]]

(* A block that is filled through one pointer does not reach past the end of the
   buffer (dq_push_back). *)
BlockInOnePiece == block

(* However the reads cut what a peer sends, and whether some of them fail, the lines that
   are taken and what is in the buffer are what has arrived, in order, and each
   line is one. *)
LinesWhole ==
  /\ FlattenSeq(lineSeq) \o rbuf \o incoming = allSent
  /\ \A i \in DOMAIN lineSeq : buf_line(lineSeq[i]) = Len(lineSeq[i])

(* Strings, queues and receive buffers hold what was put into them, in order, when they
   grow, wrap around or are read in pieces. *)
BuffersSound == TextKept /\ QueueInOrder /\ BlockInOnePiece /\ LinesWhole
=============================================================================
