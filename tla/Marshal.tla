------------------------------ MODULE Marshal ------------------------------
(***************************************************************************)
(* Marshalling: adbus_Buffer (adbus/rbuffer.c) writes arguments,           *)
(* adbus_Iterator (include/c/adbus-iterator.h, adbus/riterator.c) reads    *)
(* them back, the adbus_check functions read the arguments of a call and   *)
(* adbus_flip_data turns the data of the other byte order.                 *)
(*                                                                         *)
(* Data are bytes, least significant first.  A signature is a sequence of  *)
(* one-character strings, and a pointer into one is the rest from there.   *)
(* A value is a tree: its type "t", and its bytes "n", the length of its   *)
(* text or its parts; an array has the signature of its entries as well.   *)
(***************************************************************************)
EXTENDS Integers, Sequences, SequencesExt, Bitwise

CONSTANTS
  ArgValues,   \* the values that are written
  Expected,    \* the basic types that a method may ask for
  DataCuts,    \* how many bytes may be lost at the end of the data
  MaxWritten   \* bound on the number of arguments

ASSUME MarshalAssumption == DataCuts \subseteq Nat /\ MaxWritten \in Nat

VARIABLES
  written,     \* the values written
  buf,         \* the adbus_Buffer
  lost,        \* how many bytes of its data do not get to the reader
  cursor,      \* the adbus_Iterator over the data
  taken,       \* what has been read
  phase        \* "write", "read", "method", and how the reading ended

marshalVars == <<written, buf, lost, cursor, taken, phase>>

TypeCodes == <<"y", "n", "q", "b", "i", "u", "x", "t", "d", "s", "o", "g", "v", "a",
           "(", ")", "{", "}">>

Padded(n, size) == ((n + size - 1) \div size) * size
Zeros(n) == [i \in 1..n |-> 0]
Bytes(n, size) == SubSeq(<<n % 256, n \div 256>> \o Zeros(6), 1, size)
NumberOf(bytes) == bytes[1] + (IF Len(bytes) = 1 THEN 0 ELSE 256 * bytes[2])

(* The characters of a signature as bytes of data. *)
CodesOf(sig) == [i \in DOMAIN sig |-> 100 + CHOOSE k \in DOMAIN TypeCodes : TypeCodes[k] = sig[i]]
CharsOf(codes) == [i \in DOMAIN codes |-> TypeCodes[codes[i] - 100]]

Overwrite(data, pos, bytes) ==
  SubSeq(data, 1, pos) \o bytes \o SubSeq(data, pos + Len(bytes) + 1, Len(data))

(* AlignField, adbus_iter_alignfield *)
AlignOf(c) ==
  CASE c \in {"y", "g", "v"} -> 1
    [] c \in {"n", "q"} -> 2
    [] c \in {"b", "i", "u", "s", "o", "a"} -> 4
    [] c \in {"x", "t", "d", "(", "{"} -> 8
FixedTypes == {"y", "n", "q", "b", "i", "u", "x", "t", "d"}

(* adbus_nextarg: what follows the first complete type. *)
RECURSIVE nextarg(_), AfterStruct(_)
AfterStruct(sig) == IF Head(sig) = ")" THEN Tail(sig) ELSE AfterStruct(nextarg(sig))
nextarg(sig) ==
  CASE Head(sig) = "a" -> nextarg(Tail(sig))
    [] Head(sig) = "(" -> AfterStruct(Tail(sig))
    [] Head(sig) = "{" -> Tail(nextarg(nextarg(Tail(sig))))
    [] OTHER -> Tail(sig)
FirstArg(sig) == SubSeq(sig, 1, Len(sig) - Len(nextarg(sig)))

RECURSIVE SigOf(_)
SigsOf(vs) == FlattenSeq([i \in DOMAIN vs |-> SigOf(vs[i])])
SigOf(v) ==
  CASE v.t = "a" -> <<"a">> \o v.entry
    [] v.t = "(" -> <<"(">> \o SigsOf(v.of) \o <<")">>
    [] v.t = "{" -> <<"{">> \o SigsOf(v.of) \o <<"}">>
    [] OTHER -> <<v.t>>

-----------------------------------------------------------------------------
(* The buffer: data, signature, the point reached in it, whether an assertion
   has failed, and the byte order of the machine. *)

(* adbus_buf_new, adbus_buf_reset *)
EmptyBuffer(native) ==
  [data |-> <<>>, sig |-> <<>>, sigp |-> <<>>, bad |-> FALSE, native |-> native]

(* adbus_buf_setsig on an empty buffer, or adbus_buf_appendsig at its end *)
appendsig(b, sig) == [b EXCEPT !.sig = @ \o sig, !.sigp = @ \o sig]

(* SIG *)
SIG(b, c) == [b EXCEPT !.bad = @ \/ b.sigp = <<>> \/ Head(b.sigp) # c,
                       !.sigp = IF @ = <<>> THEN @ ELSE Tail(@)]

(* Align *)
AlignBuf(b, size) == [b EXCEPT !.data = @ \o Zeros(Padded(Len(@), size) - Len(@))]

(* Append8, Append16, Append32, Append64 *)
AppendInt(b, bytes) ==
  [AlignBuf(b, Len(bytes)) EXCEPT !.data = @ \o (IF b.native THEN bytes ELSE Reverse(bytes))]

(* adbus_buf_u8 .. adbus_buf_double *)
buf_fixed(b, c, bytes) == AppendInt(SIG(b, c), bytes)

TextBytes(n) == [i \in 1..n |-> 1] \o <<0>>

(* adbus_buf_string, adbus_buf_objectpath, adbus_buf_signature *)
buf_string(b, c, n) ==
  [AppendInt(SIG(b, c), Bytes(n, AlignOf(c))) EXCEPT !.data = @ \o TextBytes(n)]

(* adbus_buf_beginvariant *)
buf_beginvariant(b, sig) ==
  [AppendInt(SIG(b, "v"), <<Len(sig)>>)
     EXCEPT !.data = @ \o CodesOf(sig) \o <<0>>, !.sigp = sig]

(* adbus_buf_endvariant *)
buf_endvariant(b, oldsig) == [b EXCEPT !.sigp = oldsig]


(* adbus_buf_beginarray: the length is filled in at the end; it does not count
   the padding before the first entry. *)
buf_beginarray(b) ==
  LET sized == AppendInt(SIG(b, "a"), Zeros(4))
      begun == AlignBuf(sized, AlignOf(Head(sized.sigp)))
  IN  [buf |-> begun, szindex |-> Len(sized.data) - 4, dataindex |-> Len(begun.data),
       sigbegin |-> begun.sigp, sigend |-> nextarg(begun.sigp)]
buf_arrayentry(b, a) == [b EXCEPT !.sigp = a.sigbegin]
buf_endarray(b, a) ==
  LET size == Bytes(Len(b.data) - a.dataindex, 4) IN
  [b EXCEPT !.data = Overwrite(@, a.szindex, IF b.native THEN size ELSE Reverse(size)),
            !.sigp = a.sigend]

(* adbus_buf_beginstruct, adbus_buf_begindictentry *)
buf_begin(b, c) == AlignBuf(SIG(b, c), 8)

(* adbus_buf_endstruct; adbus_buf_enddictentry asserts the opening brace. *)
buf_end(b, c) == SIG(b, IF c = "(" THEN ")" ELSE "{")

(* What a program does that follows the signature, as the documentation of
   adbus_Buffer shows for each of the types. *)
RECURSIVE Serialise(_, _)
SerialiseAll(b, vs) == FoldLeft(Serialise, b, vs)
Serialise(b, v) ==
  CASE v.t \in FixedTypes -> buf_fixed(b, v.t, v.n)
    [] v.t \in {"s", "o", "g"} -> buf_string(b, v.t, v.len)
    [] v.t = "v" -> LET begun == buf_beginvariant(b, SigsOf(v.of))
                    IN  buf_endvariant(SerialiseAll(begun, v.of), SIG(b, "v").sigp)
    [] v.t = "a" -> LET a == buf_beginarray(b)
                        Entry(x, e) == Serialise(buf_arrayentry(x, a), e)
                    IN  buf_endarray(FoldLeft(Entry, a.buf, v.of), a)
    [] OTHER -> buf_end(SerialiseAll(buf_begin(b, v.t), v.of), v.t)

-----------------------------------------------------------------------------
(* The iterator: the data, how many bytes of them are before it, how many it
   believes to be left, the signature, and the value it has come to; or "fail"
   after a malformed value, "assert" where the signature is not the type that is
   asked for, and "beyond" where bytes are read that are not of the data.  It is
   loose when an array has been left before its end. *)

(* adbus_iter_buffer *)
IterOf(data, sig) ==
  [data |-> data, pos |-> 0, size |-> Len(data), sig |-> sig, result |-> "ok", value |-> <<>>,
   loose |-> FALSE]

IterFailed(i) == i.result # "ok"
IterFail(i) == [i EXCEPT !.result = "fail"]
IterBeyond(i) == [i EXCEPT !.result = "beyond"]
Yield(i, v) == IF IterFailed(i) THEN i ELSE [i EXCEPT !.value = v]

(* adbusI_iter_sig *)
iter_sig(i, c) ==
  IF i.sig # <<>> /\ Head(i.sig) = c THEN [i EXCEPT !.sig = Tail(@)]
  ELSE [i EXCEPT !.result = "assert"]

Advanced(i, n) == IF i.size < n THEN IterFail(i) ELSE [i EXCEPT !.pos = @ + n, !.size = @ - n]

(* adbus_iter_align *)
iter_align(i, size) == Advanced(i, Padded(i.pos, size) - i.pos)

(* adbusI_iter_get8 .. adbusI_iter_get64 *)
iter_get(i, size) ==
  LET from == Padded(i.pos, size)
  IN  IF IterFailed(i) THEN i
      ELSE IF i.size < from - i.pos + size THEN IterFail(i)
      ELSE IF from + size > Len(i.data) THEN IterBeyond(i)
      ELSE Yield(Advanced(i, from - i.pos + size), SubSeq(i.data, from + 1, from + size))

(* adbusI_iter_getstring: the terminator is where the length says, and the only
   one. *)
iter_getstring(i, n) ==
  LET text == SubSeq(i.data, i.pos + 1, Min({i.pos + n + 1, Len(i.data)}))
      zeros == {k \in DOMAIN text : text[k] = 0}
  IN  IF IterFailed(i) THEN i
      ELSE IF i.size < n + 1 \/ zeros \cap (1..n) # {} THEN IterFail(i)
      ELSE IF Len(text) <= n THEN IterBeyond(i)
      ELSE IF zeros = {} THEN IterFail(i)
      ELSE Yield(Advanced(i, n + 1), Front(text))

(* adbus_iter_bool .. adbus_iter_double *)
iter_fixed(i, c) == iter_get(iter_sig(i, c), AlignOf(c))

(* adbus_iter_string, adbus_iter_objectpath, adbus_iter_signature *)
iter_string(i, c) ==
  LET len == iter_fixed(i, c)
  IN  IF IterFailed(len) THEN len ELSE iter_getstring(len, NumberOf(len.value))

(* adbus_iter_beginvariant *)
iter_beginvariant(i) ==
  LET text == iter_string(i, "v")
      sig == CharsOf(text.value)
      begun == iter_align(text, AlignOf(Head(sig)))
  IN  IF IterFailed(text) THEN text
      ELSE IF IterFailed(begun) THEN begun
      ELSE [begun EXCEPT !.sig = sig, !.value = text.sig]

(* adbus_iter_endvariant *)
iter_endvariant(i, origsig) ==
  IF IterFailed(i) THEN i ELSE IF i.sig # <<>> THEN IterFail(i) ELSE [i EXCEPT !.sig = origsig]

(* adbus_iter_beginarray: the length may be more than is left. *)
iter_beginarray(i) ==
  LET len == iter_get(iter_sig(i, "a"), 4)
      begun == iter_align(len, AlignOf(Head(len.sig)))
  IN  IF IterFailed(len) THEN len
      ELSE IF IterFailed(begun) THEN begun
      ELSE Yield(begun, [end |-> begun.pos + NumberOf(len.value), sig |-> begun.sig])

(* adbus_iter_inarray *)
iter_inarray(i, a) == ~IterFailed(i) /\ i.pos < a.end

(* adbus_iter_endarray: i->size stays as it is, and counts what has not been read. *)
iter_endarray(i, a) ==
  IF IterFailed(i) THEN i
  ELSE [i EXCEPT !.pos = a.end, !.sig = nextarg(a.sig), !.loose = @ \/ i.pos # a.end]

(* adbus_iter_beginstruct, adbus_iter_begindictentry and their ends *)
iter_begin(i, c) ==
  LET begun == iter_sig(i, c) IN IF IterFailed(begun) THEN begun ELSE iter_align(begun, 8)
iter_end(i, c) ==
  IF IterFailed(i) THEN i ELSE iter_sig(i, IF c = "(" THEN ")" ELSE "}")

(* A program that reads one value of a type it has seen in the signature. *)
RECURSIVE ReadValue(_), ReadParts(_, _), ReadEntries(_, _, _)
ReadParts(i, parts) ==
  IF IterFailed(i) \/ Head(i.sig) \in {")", "}"} THEN Yield(i, parts)
  ELSE LET next == ReadValue(i) IN ReadParts(next, Append(parts, next.value))
ReadEntries(i, a, entries) ==
  IF iter_inarray(i, a)
  THEN LET next == ReadValue([i EXCEPT !.sig = a.sig])
       IN  ReadEntries(next, a, Append(entries, next.value))
  ELSE Yield(iter_endarray(i, a), [t |-> "a", entry |-> FirstArg(a.sig), of |-> entries])
NumberRead(i, c) == Yield(i, [t |-> c, n |-> i.value])
ReadValue(i) ==
  LET c == Head(i.sig) IN
  CASE IterFailed(i) -> i
    [] c \in FixedTypes -> NumberRead(iter_fixed(i, c), c)
    [] c \in {"s", "o", "g"} ->
         LET str == iter_string(i, c) IN Yield(str, [t |-> c, len |-> Len(str.value)])
    [] c = "v" -> LET begun == iter_beginvariant(i)
                      of == ReadValue(begun)
                  IN  IF IterFailed(begun) THEN begun
                      ELSE Yield(iter_endvariant(of, begun.value), [t |-> "v", of |-> <<of.value>>])
    [] c = "a" -> LET begun == iter_beginarray(i)
                  IN  IF IterFailed(begun) THEN begun ELSE ReadEntries(begun, begun.value, <<>>)
    [] OTHER -> LET parts == ReadParts(iter_begin(i, c), <<>>)
                IN  Yield(iter_end(parts, c), [t |-> c, of |-> parts.value])

(* adbus_iter_value: an array is left without looking at its entries. *)
RECURSIVE iter_value(_), SkipParts(_)
SkipParts(i) ==
  IF IterFailed(i) \/ Head(i.sig) \in {")", "}"} THEN i ELSE SkipParts(iter_value(i))
iter_value(i) ==
  LET c == Head(i.sig) IN
  CASE IterFailed(i) -> i
    [] c \in FixedTypes -> iter_fixed(i, c)
    [] c \in {"s", "o", "g"} -> iter_string(i, c)
    [] c = "v" -> LET begun == iter_beginvariant(i)
                  IN  IF IterFailed(begun) THEN begun
                      ELSE iter_endvariant(iter_value(begun), begun.value)
    [] c = "a" -> LET begun == iter_beginarray(i)
                  IN  IF IterFailed(begun) THEN begun ELSE iter_endarray(begun, begun.value)
    [] OTHER -> iter_end(SkipParts(iter_begin(i, c)), c)

-----------------------------------------------------------------------------
(* adbus_flip_value takes the type off the signature, and so do the functions
   of the iterator that it calls: the type has to stand there twice. *)

WithBytes(i, bytes) == [i EXCEPT !.data = Overwrite(@, i.pos, bytes)]

(* Flip64: the third and the fourth byte go to the same place. *)
Swapped(b) ==
  IF Len(b) < 8 THEN Reverse(b)
  ELSE <<b[8], b[7], b[6], b[5], b[3] | b[4], 0, b[2], b[1]>>

(* Flip16, Flip32, Flip64 *)
FlipWord(i, size, consume) ==
  LET end == iter_get(i, size)
      flipped == WithBytes([end EXCEPT !.pos = @ - size, !.size = @ + size], Swapped(end.value))
  IN  IF IterFailed(end) THEN end ELSE IF consume THEN Advanced(flipped, size) ELSE flipped

(* The result of adbus_flip_value for what is in a variant is not looked at. *)
Ignoring(i) == [i EXCEPT !.result = IF @ = "fail" THEN "ok" ELSE @]

RECURSIVE flip_value(_), FlipParts(_), FlipEntries(_, _)
FlipParts(i) ==
  IF IterFailed(i) \/ i.sig = <<>> \/ Head(i.sig) \in {")", "}"} THEN i
  ELSE FlipParts(flip_value(i))
FlipEntries(i, a) ==
  IF iter_inarray(i, a) THEN FlipEntries(flip_value([i EXCEPT !.sig = a.sig]), a)
  ELSE iter_endarray(i, a)
flip_value(i) ==
  LET c == Head(i.sig)
      typed == [i EXCEPT !.sig = Tail(@)]
      size == FlipWord(typed, 4, FALSE)
  IN  CASE c \in {"n", "q", "b", "i", "u", "x", "t"} -> FlipWord(typed, AlignOf(c), TRUE)
        [] c = "y" -> iter_fixed(typed, c)
        [] c \in {"s", "o"} -> IF IterFailed(size) THEN size ELSE iter_string(size, c)
        [] c = "g" -> iter_string(typed, c)
        [] c = "v" -> LET begun == iter_beginvariant(typed)
                      IN  IF IterFailed(begun) THEN begun
                          ELSE iter_endvariant(Ignoring(flip_value(begun)), begun.value)
        [] c = "a" -> LET begun == IF IterFailed(size) THEN size ELSE iter_beginarray(size)
                      IN  IF IterFailed(begun) THEN begun ELSE FlipEntries(begun, begun.value)
        [] c \in {"(", "{"} -> iter_end(FlipParts(iter_begin(typed, c)), c)
        [] OTHER -> [typed EXCEPT !.result = "assert"]

(* adbus_flip_data *)
RECURSIVE flip_data(_)
flip_data(i) ==
  IF IterFailed(i) \/ i.size = 0 THEN i
  ELSE IF i.sig = <<>> THEN [i EXCEPT !.result = "assert"]
  ELSE flip_data(flip_value(i))

-----------------------------------------------------------------------------
(* Actions *)

MarshalInit ==
  /\ written = <<>> /\ taken = <<>> /\ phase = "write" /\ lost = 0
  /\ buf \in {EmptyBuffer(native) : native \in BOOLEAN}
  /\ cursor = IterOf(<<>>, <<>>)

(* One argument is written, its signature first. *)
WriteArg(v) ==
  /\ phase = "write" /\ Len(written) < MaxWritten
  /\ written' = Append(written, v)
  /\ buf' = Serialise(appendsig(buf, SigOf(v)), v)
  /\ UNCHANGED <<lost, cursor, taken, phase>>

(* The data get to the reader, who turns them if they come from a machine of the
   other byte order (adbus_parse). *)
TakeData(cut, by) ==
  /\ phase = "write" /\ written # <<>>
  /\ cut < Len(buf.data)
  /\ LET i == IterOf(SubSeq(buf.data, 1, Len(buf.data) - cut), buf.sig)
         turned == IF buf.native THEN i ELSE flip_data(i)
     IN  /\ phase' = IF IterFailed(turned) THEN turned.result ELSE by
         /\ cursor' = [IterOf(turned.data, buf.sig) EXCEPT !.loose = turned.loose]
  /\ lost' = cut
  /\ UNCHANGED <<written, buf, taken>>

GoOn(next, value) ==
  /\ cursor' = next
  /\ IF IterFailed(next)
     THEN phase' = next.result /\ UNCHANGED taken
     ELSE phase' = phase /\ taken' = Append(taken, value)
  /\ UNCHANGED <<written, buf, lost>>

(* A reader that follows the signature. *)
ReadArg ==
  /\ phase = "read" /\ cursor.sig # <<>>
  /\ LET next == ReadValue(cursor) IN GoOn(next, next.value)

(* A reader skips an argument with adbus_iter_value. *)
SkipArg ==
  /\ phase = "read" /\ cursor.sig # <<>>
  /\ GoOn(iter_value(cursor), [t |-> "skipped"])

EndMethod(result) == phase' = result /\ UNCHANGED <<written, buf, lost, cursor, taken>>

(* The type that adbus_check_X compares with the signature. *)
CheckedAs(c) == IF c \in {"o", "g"} THEN "s" ELSE c

(* adbus_check_bool .. adbus_check_signature: the caller is told of an argument
   of another type, adbus_errorf_jmp ends the method. *)
CheckArg(c) ==
  /\ phase = "method"
  /\ IF cursor.sig = <<>> \/ Head(cursor.sig) # CheckedAs(c) THEN EndMethod("argumentError")
     ELSE LET next == IF c \in FixedTypes THEN iter_fixed(cursor, CheckedAs(c))
                      ELSE iter_string(cursor, CheckedAs(c))
          IN  GoOn(next, [t |-> CheckedAs(c)])

(* adbus_check_value: a method that takes a value of any type skips it. *)
CheckValue ==
  /\ phase = "method"
  /\ IF cursor.sig = <<>> THEN EndMethod("argumentError")
     ELSE GoOn(iter_value(cursor), [t |-> Head(cursor.sig)])

(* adbus_check_beginarray .. adbus_check_endvariant: a method that reads through a
   container of the type that it finds. *)
CheckContainer ==
  /\ phase = "method" /\ cursor.sig # <<>> /\ Head(cursor.sig) \in {"a", "(", "v"}
  /\ LET next == ReadValue(cursor) IN GoOn(next, [t |-> Head(cursor.sig)])

(* adbus_check_end *)
CheckEnd ==
  /\ phase = "method"
  /\ EndMethod(IF cursor.sig = <<>> THEN "called" ELSE "argumentError")

MarshalNext ==
  \/ \E v \in ArgValues : WriteArg(v)
  \/ \E cut \in DataCuts, by \in {"read", "method"} : TakeData(cut, by)
  \/ ReadArg \/ SkipArg
  \/ \E c \in Expected : CheckArg(c)
  \/ CheckValue \/ CheckContainer \/ CheckEnd

-----------------------------------------------------------------------------
(* Properties *)

(* The types that adbus_flip_data turns; for the others it compares the type that
   follows. *)
TurnedTypes == {"n", "q", "b", "i", "u", "x", "t"}

(* What becomes of a value from a machine of the other byte order: of the bytes of a
   64-bit number the fifth and the sixth are mixed up. *)
TurnedInto(v, got) ==
  /\ got.t = v.t
  /\ v.t \in {"x", "t"} => \A j \in (1..8) \ {5, 6} : got.n[j] = v.n[j]
  /\ v.t \notin {"x", "t"} => got = v

(* Whatever is written on a machine of this byte order can be read back, value for
   value, however it is padded and nested and with arguments skipped on the way;
   reading fails only where data are lost.  Of the other byte order only numbers get
   through, those of 64 bits with two bytes spoilt, and everything else is refused. *)
RoundTrip ==
  /\ phase \in {"fail", "assert"} =>
       lost > 0 \/ (~buf.native /\ \E k \in DOMAIN written : written[k].t \notin TurnedTypes)
  /\ (~buf.native /\ lost = 0 /\ phase \notin {"write", "fail", "assert"}) =>
       \A k \in DOMAIN written : written[k].t \in TurnedTypes
  /\ phase = "read" => \A k \in DOMAIN taken :
       \/ taken[k] = [t |-> "skipped"]
       \/ IF buf.native THEN taken[k] = written[k] ELSE TurnedInto(written[k], taken[k])
  /\ (phase = "read" /\ cursor.sig = <<>> /\ lost = 0) => cursor.pos = Len(cursor.data)

(* Reading stops at the end of the data, and no text or number is made of bytes
   that are lost, as long as no array is left before its end: a reader of all
   arguments of cut data does not come to the last one.  When an array has been left,
   which adbus_iter_value and adbus_check_value do with every array, the iterator
   believes that the bytes of its entries are still to come, and goes beyond the end
   only if data are lost. *)
WithinData ==
  /\ (phase = "beyond" \/ cursor.pos > Len(cursor.data)) => cursor.loose /\ lost > 0
  /\ (phase = "read" /\ Len(taken) = Len(written)) => lost = 0 \/ cursor.loose

(* A method that checks its arguments gets no value of a type that it did not
   ask for, is called only with all of them, and no assertion of the iterator
   fails, whatever a caller of this byte order has sent. *)
ArgumentsChecked ==
  /\ phase = "assert" => ~buf.native
  /\ \A k \in DOMAIN taken : taken[k].t \in {"skipped", written[k].t}
  /\ phase = "called" => Len(taken) = Len(written)

(* A program that writes what the signature says fails no assertion of the
   buffer, other than that at the end of a dict entry. *)
WriterInStep ==
  buf.bad => \E k \in DOMAIN written : \E j \in DOMAIN SigOf(written[k]) : SigOf(written[k])[j] = "{"

=============================================================================
