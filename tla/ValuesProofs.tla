---------------------------- MODULE ValuesProofs ----------------------------
(***************************************************************************)
(* Proofs about what the library keeps in memory.                          *)
(*                                                                         *)
(* Strings, queues and receive buffers (module Buffers) hold what was put  *)
(* into them, in order, for texts, blocks and reads of any length.  The    *)
(* operations are compositions of copies, insertions and removals, so the  *)
(* proofs say where each element of the result comes from.  A string that  *)
(* has been used holds its text and a NUL (Ends).  A ring buffer has its   *)
(* places inside the buffer and is never full (Ring); an operation keeps   *)
(* what is in front of it (AtFront), and a push opens places behind them   *)
(* in one piece (Opened).  For the receive buffer the lines, the buffer    *)
(* and what has not arrived are one list that is only cut anew.            *)
(*                                                                         *)
(* The objects of the Lua binding (module LuaObjects) hold the slots of    *)
(* Lua's registry, for any objects, tables of members and callbacks inside *)
(* callbacks.  A slot is named after what is in it, so the invariant says  *)
(* for each name which slots there are: those of the connection            *)
(* (ConnSlots), of each object (ObjSlots) and of the members of the        *)
(* interface (MemberSlots).  An action takes or gives back slots of some   *)
(* names and leaves the others; who holds a slot is read off its name.     *)
(*                                                                         *)
(* A hash table (module HashTable) finds what was put into it, with any    *)
(* keys and hash function.  The number of slots is a prime, so a search    *)
(* passes every slot once (PrimeProduct, ProbeFacts).  In a table between  *)
(* two operations (TableInv) the slots that a search for a key passes      *)
(* before its entry are all used, and the counts leave a free slot.  While *)
(* a rehash runs every entry is in one place: in an old slot that has not  *)
(* been passed, in a new slot that a search reaches, or in hand.  Counting *)
(* the places shows that the hand is empty when the loops end.             *)
(*                                                                         *)
(* Names (module Names) are accepted for what is between their separators, *)
(* whatever their length, as a statement about each character and the one  *)
(* before it (PartsPlain).  The loop that takes slashes away leaves two in *)
(* a row exactly if there were three (SlashGoes, CharStays, RemovedIs).    *)
(***************************************************************************)
EXTENDS Buffers, LuaObjects, HashTable, Names, ListFacts

-----------------------------------------------------------------------------
(* Strings *)

(* What texts are made of, and what the vector of a string holds *)
Letters == UNION {Range(t) : t \in Pieces}
Bytes == Letters \cup {"NUL", "?"}

(* memcpy: where the elements come from. *)
LEMMA CopiedPlaces ==
  ASSUME NEW S, NEW v \in Seq(S), NEW t \in Seq(S), NEW pos \in Nat, pos + Len(t) <= Len(v)
  PROVE  LET w == Copied(v, pos, t)
         IN  /\ w \in Seq(S) /\ Len(w) = Len(v)
             /\ \A i \in 1..Len(v) :
                  w[i] = IF i > pos /\ i <= pos + Len(t) THEN t[i - pos] ELSE v[i]
<1> DEFINE a == SubSeq(v, 1, pos)
           b == SubSeq(v, pos + Len(t) + 1, Len(v))
<1>1. Len(v) \in Nat /\ Len(t) \in Nat
  OBVIOUS
<1>2. a \in Seq(S) /\ Len(a) = pos /\ \A i \in 1..pos : a[i] = v[i]
  BY <1>1
<1>3. /\ b \in Seq(S) /\ Len(b) = Len(v) - (pos + Len(t))
      /\ \A i \in 1..(Len(v) - (pos + Len(t))) : b[i] = v[i + pos + Len(t)]
  BY <1>1
<1> HIDE DEF a, b
<1>4. /\ a \o t \in Seq(S) /\ Len(a \o t) = pos + Len(t)
      /\ \A i \in 1..(pos + Len(t)) : (a \o t)[i] = IF i <= pos THEN v[i] ELSE t[i - pos]
  BY <1>1, <1>2, SMTT(20)
<1> DEFINE at == a \o t
<1>5. at \in Seq(S) /\ Len(at) = pos + Len(t)
      /\ \A i \in 1..(pos + Len(t)) : at[i] = IF i <= pos THEN v[i] ELSE t[i - pos]
  BY <1>4
<1> HIDE DEF at
<1>6. /\ at \o b \in Seq(S) /\ Len(at \o b) = Len(v)
      /\ \A i \in 1..Len(v) : (at \o b)[i] = IF i <= pos + Len(t) THEN at[i] ELSE b[i - (pos + Len(t))]
  BY <1>1, <1>3, <1>5
<1>7. \A i \in 1..Len(v) :
        (at \o b)[i] = IF i > pos /\ i <= pos + Len(t) THEN t[i - pos] ELSE v[i]
  BY <1>1, <1>3, <1>5, <1>6
<1> QED BY <1>6, <1>7 DEF Copied, a, b, at

(* dv_insert: the same, with the new elements in between. *)
LEMMA InsertPlaces ==
  ASSUME NEW S, "?" \in S, NEW v \in Seq(S), NEW pos \in 0..Len(v), NEW n \in Nat
  PROVE  LET w == dv_insert(v, pos, n)
         IN  /\ w \in Seq(S) /\ Len(w) = Len(v) + n
             /\ \A i \in 1..(Len(v) + n) :
                  w[i] = IF i <= pos THEN v[i] ELSE IF i <= pos + n THEN "?" ELSE v[i - n]
<1> DEFINE a == SubSeq(v, 1, pos)
           f == [i \in 1..n |-> "?"]
           b == SubSeq(v, pos + 1, Len(v))
<1>1. Len(v) \in Nat /\ pos \in Nat
  OBVIOUS
<1>2. a \in Seq(S) /\ Len(a) = pos /\ \A i \in 1..pos : a[i] = v[i]
  BY <1>1
<1>3. b \in Seq(S) /\ Len(b) = Len(v) - pos /\ \A i \in 1..(Len(v) - pos) : b[i] = v[i + pos]
  BY <1>1
<1>4. f \in Seq(S) /\ Len(f) = n /\ \A i \in 1..n : f[i] = "?"
  OBVIOUS
<1> HIDE DEF a, b, f
<1> DEFINE c == a \o f
<1>5. c \in Seq(S) /\ Len(c) = pos + n /\ \A i \in 1..(pos + n) : c[i] = IF i <= pos THEN v[i] ELSE "?"
  BY <1>1, <1>2, <1>4
<1> HIDE DEF c
<1> DEFINE w == c \o b
<1>6. /\ w \in Seq(S) /\ Len(w) = Len(v) + n
      /\ \A i \in 1..(Len(v) + n) : w[i] = IF i <= pos + n THEN c[i] ELSE b[i - (pos + n)]
  <2>1. /\ w \in Seq(S) /\ Len(w) = Len(c) + Len(b)
        /\ \A i \in 1..(Len(c) + Len(b)) : w[i] = IF i <= Len(c) THEN c[i] ELSE b[i - Len(c)]
    BY <1>3, <1>5, JoinPlaces
  <2> HIDE DEF w
  <2>2. Len(c) + Len(b) = Len(v) + n
    BY <1>1, <1>3, <1>5
  <2> QED BY <2>1, <2>2, <1>5
<1> HIDE DEF w
<1>7. \A i \in 1..(Len(v) + n) :
        w[i] = IF i <= pos THEN v[i] ELSE IF i <= pos + n THEN "?" ELSE v[i - n]
  <2> TAKE i \in 1..(Len(v) + n)
  <2>1. CASE i <= pos + n
    BY <1>1, <1>5, <1>6, <2>1
  <2>2. CASE ~(i <= pos + n)
    <3>1. i - (pos + n) \in 1..(Len(v) - pos)
      BY <1>1, <2>2
    <3>2. w[i] = v[i - (pos + n) + pos]
      BY <1>3, <1>6, <2>2, <3>1
    <3>3. i - (pos + n) + pos = i - n /\ ~(i <= pos)
      BY <1>1, <2>2
    <3> QED BY <2>2, <3>2, <3>3
  <2> QED BY <2>1, <2>2
<1> QED BY <1>6, <1>7 DEF dv_insert, a, b, c, f, w

(* w is v without the n elements from pos. *)
Removed(w, v, pos, n) ==
  /\ Len(w) = Len(v) - n
  /\ \A i \in 1..(Len(v) - n) : w[i] = IF i <= pos THEN v[i] ELSE v[i + n]

(* dv_remove *)
LEMMA RemovePlaces ==
  ASSUME NEW S, NEW v \in Seq(S), NEW pos \in Nat, NEW n \in Nat, pos + n <= Len(v)
  PROVE  dv_remove(v, pos, n) \in Seq(S) /\ Removed(dv_remove(v, pos, n), v, pos, n)
<1> DEFINE a == SubSeq(v, 1, pos)
           b == SubSeq(v, pos + n + 1, Len(v))
<1>1. Len(v) \in Nat
  OBVIOUS
<1>2. a \in Seq(S) /\ Len(a) = pos /\ \A i \in 1..pos : a[i] = v[i]
  BY <1>1
<1>3. b \in Seq(S) /\ Len(b) = Len(v) - (pos + n) /\ \A i \in 1..(Len(v) - (pos + n)) : b[i] = v[i + pos + n]
  BY <1>1
<1> HIDE DEF a, b
<1> DEFINE w == a \o b
<1>4. /\ w \in Seq(S) /\ Len(w) = Len(v) - n
      /\ \A i \in 1..(Len(v) - n) : w[i] = IF i <= pos THEN a[i] ELSE b[i - pos]
  <2>1. /\ w \in Seq(S) /\ Len(w) = Len(a) + Len(b)
        /\ \A i \in 1..(Len(a) + Len(b)) : w[i] = IF i <= Len(a) THEN a[i] ELSE b[i - Len(a)]
    BY <1>2, <1>3, JoinPlaces
  <2> HIDE DEF w
  <2>2. Len(a) + Len(b) = Len(v) - n
    BY <1>1, <1>2, <1>3
  <2> QED BY <2>1, <2>2, <1>2
<1> HIDE DEF w
<1>5. \A i \in 1..(Len(v) - n) : w[i] = IF i <= pos THEN v[i] ELSE v[i + n]
  <2> TAKE i \in 1..(Len(v) - n)
  <2>1. CASE i <= pos
    BY <1>1, <1>2, <1>4, <2>1
  <2>2. CASE ~(i <= pos)
    <3>1. i - pos \in 1..(Len(v) - (pos + n))
      BY <1>1, <2>2
    <3>2. w[i] = v[i - pos + pos + n]
      BY <1>3, <1>4, <2>2, <3>1
    <3>3. i - pos + pos + n = i + n
      BY <1>1
    <3> QED BY <2>2, <3>2, <3>3
  <2> QED BY <2>1, <2>2
<1> QED BY <1>4, <1>5 DEF dv_remove, Removed, a, b, w

(* Two lists with the same elements at the same places are one. *)
LEMMA SamePlaces ==
  ASSUME NEW S, NEW v \in Seq(S), NEW w \in Seq(S), Len(v) = Len(w),
         \A i \in 1..Len(v) : v[i] = w[i]
  PROVE  v = w
OBVIOUS

(* The vector v holds text t and the NUL behind it. *)
Ends(v, t) ==
  /\ v \in Seq(Bytes) /\ t \in Seq(Letters)
  /\ Len(v) = Len(t) + 1 /\ v[Len(t) + 1] = "NUL"
  /\ \A i \in 1..Len(t) : v[i] = t[i]

(* A string that has not been used holds nothing. *)
HoldsText(v, t) == (v = <<>> /\ t = <<>>) \/ Ends(v, t)

(* A string that has been used is its text with a NUL behind it. *)
LEMMA EndsIsText ==
  ASSUME NEW v, NEW t, Ends(v, t)
  PROVE  v = t \o <<"NUL">> /\ v # <<>>
<1>1. t \in Seq(Bytes) /\ <<"NUL">> \in Seq(Bytes) /\ Len(<<"NUL">>) = 1 /\ <<"NUL">>[1] = "NUL"
  BY DEF Ends, Bytes
<1> DEFINE nul == <<"NUL">>
           w == t \o nul
<1> HIDE DEF nul
<1>2. /\ w \in Seq(Bytes) /\ Len(w) = Len(t) + 1
      /\ \A i \in 1..(Len(t) + 1) : w[i] = IF i <= Len(t) THEN t[i] ELSE nul[i - Len(t)]
  <2>1. nul \in Seq(Bytes) /\ Len(nul) = 1
    BY <1>1 DEF nul
  <2> HIDE DEF Bytes
  <2>2. /\ w \in Seq(Bytes) /\ Len(w) = Len(t) + Len(nul)
        /\ \A i \in 1..(Len(t) + Len(nul)) : w[i] = IF i <= Len(t) THEN t[i] ELSE nul[i - Len(t)]
    BY <1>1, <2>1, JoinPlaces
  <2> HIDE DEF w
  <2> QED BY <2>1, <2>2
<1> HIDE DEF w
<1>3. Len(t) \in Nat /\ nul[1] = "NUL"
  BY <1>1 DEF nul
<1>4. v \in Seq(Bytes) /\ Len(v) = Len(w) /\ \A i \in 1..Len(v) : v[i] = w[i]
  <2>1. ASSUME NEW i \in 1..Len(v) PROVE v[i] = w[i]
    <3>1. CASE i <= Len(t)
      BY <1>2, <1>3, <3>1 DEF Ends
    <3>2. CASE i = Len(t) + 1
      <4>1. i - Len(t) = 1 /\ ~(i <= Len(t))
        BY <1>3, <3>2
      <4> QED BY <1>2, <1>3, <3>2, <4>1 DEF Ends
    <3> QED BY <1>3, <3>1, <3>2 DEF Ends
  <2> QED BY <1>2, <2>1 DEF Ends
<1>5. v = w
  <2> HIDE DEF Bytes
  <2> QED BY <1>2, <1>4, SamePlaces
<1>6. v # <<>>
  BY <1>3 DEF Ends
<1> QED BY <1>5, <1>6 DEF w, nul

(* A piece p in front of position pos of text t. *)
Inserted(t, pos, p) == SubSeq(t, 1, pos) \o p \o SubSeq(t, pos + 1, Len(t))

(* Where the characters of a text with a piece in it come from. *)
LEMMA InsertedPlaces ==
  ASSUME NEW S, NEW t \in Seq(S), NEW p \in Seq(S), NEW pos \in 0..Len(t)
  PROVE  LET w == Inserted(t, pos, p)
         IN  /\ w \in Seq(S) /\ Len(w) = Len(t) + Len(p)
             /\ \A i \in 1..(Len(t) + Len(p)) :
                  w[i] = IF i <= pos THEN t[i] ELSE IF i <= pos + Len(p) THEN p[i - pos] ELSE t[i - Len(p)]
<1> DEFINE a == SubSeq(t, 1, pos)
           b == SubSeq(t, pos + 1, Len(t))
<1>1. Len(t) \in Nat /\ pos \in Nat /\ Len(p) \in Nat
  OBVIOUS
<1>2. a \in Seq(S) /\ Len(a) = pos /\ \A i \in 1..pos : a[i] = t[i]
  BY <1>1
<1>3. b \in Seq(S) /\ Len(b) = Len(t) - pos /\ \A i \in 1..(Len(t) - pos) : b[i] = t[i + pos]
  BY <1>1
<1> HIDE DEF a, b
<1> DEFINE c == a \o p
<1>4. c \in Seq(S) /\ Len(c) = pos + Len(p) /\ \A i \in 1..(pos + Len(p)) : c[i] = IF i <= pos THEN t[i] ELSE p[i - pos]
  <2>1. /\ c \in Seq(S) /\ Len(c) = Len(a) + Len(p)
        /\ \A i \in 1..(Len(a) + Len(p)) : c[i] = IF i <= Len(a) THEN a[i] ELSE p[i - Len(a)]
    BY <1>2, JoinPlaces
  <2> HIDE DEF c
  <2> QED BY <1>1, <1>2, <2>1
<1> HIDE DEF c
<1> DEFINE w == c \o b
<1>5. /\ w \in Seq(S) /\ Len(w) = Len(t) + Len(p)
      /\ \A i \in 1..(Len(t) + Len(p)) : w[i] = IF i <= pos + Len(p) THEN c[i] ELSE b[i - (pos + Len(p))]
  <2>1. /\ w \in Seq(S) /\ Len(w) = Len(c) + Len(b)
        /\ \A i \in 1..(Len(c) + Len(b)) : w[i] = IF i <= Len(c) THEN c[i] ELSE b[i - Len(c)]
    BY <1>3, <1>4, JoinPlaces
  <2> HIDE DEF w
  <2>2. Len(c) + Len(b) = Len(t) + Len(p)
    BY <1>1, <1>3, <1>4
  <2> QED BY <2>1, <2>2, <1>4
<1> HIDE DEF w
<1>6. \A i \in 1..(Len(t) + Len(p)) :
        w[i] = IF i <= pos THEN t[i] ELSE IF i <= pos + Len(p) THEN p[i - pos] ELSE t[i - Len(p)]
  <2> TAKE i \in 1..(Len(t) + Len(p))
  <2>1. CASE i <= pos + Len(p)
    BY <1>1, <1>4, <1>5, <2>1
  <2>2. CASE ~(i <= pos + Len(p))
    <3>1. i - (pos + Len(p)) \in 1..(Len(t) - pos)
      BY <1>1, <2>2
    <3>2. w[i] = t[i - (pos + Len(p)) + pos]
      BY <1>3, <1>5, <2>2, <3>1
    <3>3. i - (pos + Len(p)) + pos = i - Len(p) /\ ~(i <= pos)
      BY <1>1, <2>2
    <3> QED BY <2>2, <3>2, <3>3
  <2> QED BY <2>1, <2>2
<1> QED BY <1>5, <1>6 DEF Inserted, a, b, c, w

(* The piece with a NUL behind it *)
LEMMA NulBehind ==
  ASSUME NEW p \in Seq(Letters)
  PROVE  LET q == p \o <<"NUL">>
         IN  /\ q \in Seq(Bytes) /\ Len(q) = Len(p) + 1 /\ Len(p) \in Nat
             /\ q[Len(p) + 1] = "NUL"
             /\ \A i \in 1..Len(p) : q[i] = p[i]
<1>1. p \in Seq(Bytes) /\ <<"NUL">> \in Seq(Bytes)
  BY DEF Bytes
<1> HIDE DEF Bytes
<1> QED BY <1>1

(* ds_size is the length of the text. *)
LEMMA SizeIsLength ==
  ASSUME NEW v, NEW t \in Seq(Letters), HoldsText(v, t)
  PROVE  ds_size(v) = Len(t)
<1>1. CASE v = <<>> /\ t = <<>>
  BY <1>1 DEF ds_size
<1>2. CASE Ends(v, t)
  <2>1. v # <<>> /\ Len(v) = Len(t) + 1 /\ Len(t) \in Nat
    BY <1>2 DEF Ends
  <2> QED BY <2>1 DEF ds_size
<1> QED BY <1>1, <1>2 DEF HoldsText

(* ds_cat_n puts the piece behind the text and the NUL behind that. *)
LEMMA CatEnds ==
  ASSUME NEW v, NEW t \in Seq(Letters), HoldsText(v, t), NEW p \in Seq(Letters)
  PROVE  Ends(ds_cat_n(v, p), Inserted(t, Len(t), p))
<1> DEFINE k == IF v = <<>> THEN Len(p) + 1 ELSE Len(p)
           r == dv_insert(v, Len(v), k)
           q == p \o <<"NUL">>
           w == Copied(r, ds_size(v), q)
           m == Len(t)
           n == Len(p)
           x == Inserted(t, m, p)
<1>1. m \in Nat /\ n \in Nat /\ k \in Nat
  OBVIOUS
<1>2. q \in Seq(Bytes) /\ Len(q) = n + 1 /\ q[n + 1] = "NUL" /\ \A i \in 1..n : q[i] = p[i]
  BY NulBehind
<1>3. v \in Seq(Bytes) /\ Len(v) \in Nat /\ "?" \in Bytes
  BY DEF HoldsText, Ends, Bytes
<1>4. ds_size(v) = m /\ Len(v) + k = m + n + 1 /\ \A i \in 1..m : i <= Len(v) /\ v[i] = t[i]
  <2>1. CASE v = <<>> /\ t = <<>>
    BY <1>1, <2>1 DEF ds_size
  <2>2. CASE Ends(v, t)
    <3>1. v # <<>> /\ Len(v) = m + 1
      BY <1>1, <2>2 DEF Ends
    <3> QED BY <1>1, <2>2, <3>1 DEF ds_size, Ends
  <2> QED BY <2>1, <2>2 DEF HoldsText
<1> HIDE DEF k, q
<1>5. r \in Seq(Bytes) /\ Len(r) = m + n + 1 /\ \A i \in 1..m : r[i] = t[i]
  <2> HIDE DEF Bytes
  <2>1. /\ r \in Seq(Bytes) /\ Len(r) = Len(v) + k
        /\ \A i \in 1..(Len(v) + k) :
             r[i] = IF i <= Len(v) THEN v[i] ELSE IF i <= Len(v) + k THEN "?" ELSE v[i - k]
    <3>1. Len(v) \in 0..Len(v)
      BY <1>3
    <3> HIDE DEF r
    <3>2. LET u == dv_insert(v, Len(v), k)
          IN  /\ u \in Seq(Bytes) /\ Len(u) = Len(v) + k
              /\ \A i \in 1..(Len(v) + k) :
                   u[i] = IF i <= Len(v) THEN v[i] ELSE IF i <= Len(v) + k THEN "?" ELSE v[i - k]
      BY <1>1, <1>3, <3>1, InsertPlaces
    <3> QED BY <3>2 DEF r
  <2> HIDE DEF r
  <2> QED BY <1>1, <1>4, <2>1
<1> HIDE DEF r
<1>6. /\ w \in Seq(Bytes) /\ Len(w) = m + n + 1
      /\ \A i \in 1..(m + n + 1) : w[i] = IF i > m /\ i <= m + n + 1 THEN q[i - m] ELSE r[i]
  <2> HIDE DEF Bytes
  <2>1. m + Len(q) <= Len(r) /\ m + Len(q) = m + n + 1
    BY <1>1, <1>2, <1>5
  <2> QED BY <1>1, <1>2, <1>4, <1>5, <2>1, CopiedPlaces
<1> HIDE DEF w
<1>7. /\ x \in Seq(Letters) /\ Len(x) = m + n
      /\ \A i \in 1..(m + n) : x[i] = IF i <= m THEN t[i] ELSE IF i <= m + n THEN p[i - m] ELSE t[i - n]
  <2>1. Len(t) \in 0..Len(t)
    BY <1>1
  <2>2. LET u == Inserted(t, Len(t), p)
        IN  /\ u \in Seq(Letters) /\ Len(u) = Len(t) + Len(p)
            /\ \A i \in 1..(Len(t) + Len(p)) :
                 u[i] = IF i <= Len(t) THEN t[i]
                        ELSE IF i <= Len(t) + Len(p) THEN p[i - Len(t)] ELSE t[i - Len(p)]
    BY <2>1, InsertedPlaces
  <2> QED BY <2>2
<1> HIDE DEF x
<1>8. w[m + n + 1] = "NUL"
  <2>1. m + n + 1 - m = n + 1 /\ m + n + 1 \in 1..(m + n + 1) /\ m + n + 1 > m
    BY <1>1
  <2> QED BY <1>2, <1>6, <2>1
<1>9. \A i \in 1..(m + n) : w[i] = x[i]
  <2> TAKE i \in 1..(m + n)
  <2>1. CASE i <= m
    BY <1>1, <1>5, <1>6, <1>7, <2>1
  <2>2. CASE ~(i <= m)
    <3>1. i - m \in 1..n
      BY <1>1, <2>2
    <3> QED BY <1>1, <1>2, <1>6, <1>7, <2>2, <3>1
  <2> QED BY <2>1, <2>2
<1>10. ds_cat_n(v, p) = w
  BY DEF ds_cat_n, w, r, k, q
<1> QED BY <1>1, <1>6, <1>7, <1>8, <1>9, <1>10 DEF Ends, x

(* ds_insert_n puts a piece in front of a position of the text. *)
LEMMA InsertEnds ==
  ASSUME NEW v, NEW t \in Seq(Letters), HoldsText(v, t), NEW p \in Seq(Letters),
         NEW pos \in 0..ds_size(v)
  PROVE  Ends(ds_insert_n(v, pos, p), Inserted(t, pos, p))
<1> DEFINE m == Len(t)
           n == Len(p)
<1>1. m \in Nat /\ n \in Nat
  OBVIOUS
<1>2. ds_size(v) = m
  BY SizeIsLength
<1>3. CASE pos = m
  BY <1>2, <1>3, CatEnds DEF ds_insert_n
<1>4. CASE pos # m
  <2> DEFINE r == dv_insert(v, pos, n)
             w == Copied(r, pos, p)
             x == Inserted(t, pos, p)
  <2>1. pos \in 0..m /\ pos < m /\ pos \in Nat
    BY <1>1, <1>2, <1>4
  <2>2. t # <<>>
    BY <2>1
  <2>3. Ends(v, t)
    BY <2>2 DEF HoldsText
  <2>4. /\ v \in Seq(Bytes) /\ Len(v) = m + 1 /\ v[m + 1] = "NUL"
        /\ \A i \in 1..m : v[i] = t[i]
    BY <2>3 DEF Ends
  <2>5. "?" \in Bytes /\ p \in Seq(Bytes)
    BY DEF Bytes
  <2> HIDE DEF Bytes
  <2>6. /\ r \in Seq(Bytes) /\ Len(r) = m + 1 + n
        /\ \A i \in 1..(m + 1 + n) :
             r[i] = IF i <= pos THEN v[i] ELSE IF i <= pos + n THEN "?" ELSE v[i - n]
    <3>1. pos \in 0..Len(v)
      BY <1>1, <2>1, <2>4
    <3>2. LET u == dv_insert(v, pos, n)
          IN  /\ u \in Seq(Bytes) /\ Len(u) = Len(v) + n
              /\ \A i \in 1..(Len(v) + n) :
                   u[i] = IF i <= pos THEN v[i] ELSE IF i <= pos + n THEN "?" ELSE v[i - n]
      BY <1>1, <2>4, <2>5, <3>1, InsertPlaces
    <3> HIDE DEF n, m
    <3> QED BY <2>4, <3>2
  <2> HIDE DEF r
  <2>7. /\ w \in Seq(Bytes) /\ Len(w) = m + 1 + n
        /\ \A i \in 1..(m + 1 + n) : w[i] = IF i > pos /\ i <= pos + n THEN p[i - pos] ELSE r[i]
    <3>1. pos + Len(p) <= Len(r)
      BY <1>1, <2>1, <2>6
    <3>2. LET u == Copied(r, pos, p)
          IN  /\ u \in Seq(Bytes) /\ Len(u) = Len(r)
              /\ \A i \in 1..Len(r) : u[i] = IF i > pos /\ i <= pos + Len(p) THEN p[i - pos] ELSE r[i]
      BY <2>1, <2>5, <2>6, <3>1, CopiedPlaces
    <3> QED BY <2>6, <3>2
  <2> HIDE DEF w
  <2>8. /\ x \in Seq(Letters) /\ Len(x) = m + n
        /\ \A i \in 1..(m + n) :
             x[i] = IF i <= pos THEN t[i] ELSE IF i <= pos + n THEN p[i - pos] ELSE t[i - n]
    <3>1. pos \in 0..Len(t)
      BY <2>1
    <3> QED BY <3>1, InsertedPlaces
  <2> HIDE DEF x
  <2>9. w[m + n + 1] = "NUL"
    <3>1. /\ m + n + 1 - n = m + 1 /\ m + n + 1 \in 1..(m + 1 + n)
          /\ ~(m + n + 1 <= pos + n) /\ ~(m + n + 1 <= pos)
      BY <1>1, <2>1
    <3> DEFINE z == m + n + 1
    <3>2. z \in 1..(m + 1 + n) /\ ~(z <= pos + n) /\ ~(z <= pos) /\ z - n = m + 1
      BY <3>1
    <3> HIDE DEF m, n, z
    <3>3. w[z] = r[z]
      BY <2>7, <3>2
    <3>4. r[z] = v[z - n]
      BY <2>6, <3>2
    <3> QED BY <2>4, <3>2, <3>3, <3>4 DEF z
  <2>10. \A i \in 1..(m + n) : w[i] = x[i]
    <3> TAKE i \in 1..(m + n)
    <3> HIDE DEF m, n
    <3>1. i \in 1..(m + 1 + n)
      BY <1>1
    <3>2. CASE i <= pos
      BY <1>1, <2>1, <2>4, <2>6, <2>7, <2>8, <3>1, <3>2, SMTT(20)
    <3>3. CASE i > pos /\ i <= pos + n
      <4>1. i > pos /\ i <= pos + n /\ ~(i <= pos)
        BY <1>1, <2>1, <3>3
      <4>2. w[i] = p[i - pos]
        BY <2>7, <3>1, <4>1
      <4>3. x[i] = p[i - pos]
        BY <2>8, <4>1
      <4> QED BY <4>2, <4>3
    <3>4. CASE ~(i <= pos + n)
      <4>1. i - n \in 1..m /\ ~(i <= pos)
        BY <1>1, <2>1, <3>4
      <4> QED BY <1>1, <2>1, <2>4, <2>6, <2>7, <2>8, <3>1, <3>4, <4>1
    <3> QED BY <1>1, <2>1, <3>2, <3>3, <3>4
  <2>11. ds_insert_n(v, pos, p) = w
    BY <1>2, <1>4 DEF ds_insert_n, w, r
  <2>12. Len(w) = Len(x) + 1 /\ Len(x) = m + n /\ Len(x) + 1 = m + n + 1
    BY <1>1, <2>7, <2>8
  <2>13. Ends(w, x)
    BY <2>7, <2>8, <2>9, <2>10, <2>12 DEF Ends
  <2> QED BY <2>11, <2>13 DEF x
<1> QED BY <1>3, <1>4

(* w is v with the first k characters of p, and a NUL behind them, at pos. *)
Printed(w, v, pos, k, p) ==
  /\ w \in Seq(Bytes) /\ Len(w) = Len(v)
  /\ \A i \in 1..Len(v) :
       w[i] = IF i > pos /\ i <= pos + k THEN p[i - pos]
              ELSE IF i = pos + k + 1 THEN "NUL" ELSE v[i]

(* vsnprintf writes what fits of the text, and a NUL behind it. *)
LEMMA PrintPlaces ==
  ASSUME NEW v \in Seq(Bytes), NEW p \in Seq(Letters), NEW pos \in Nat, NEW room \in Nat,
         NEW k \in Nat, k = (IF Len(p) < room THEN Len(p) ELSE room - 1), pos + k + 1 <= Len(v)
  PROVE  Printed(vsnprintf(v, pos, room, p), v, pos, k, p)
<1> DEFINE c == SubSeq(p, 1, k)
           q == c \o <<"NUL">>
<1>1. Len(p) \in Nat /\ k <= Len(p)
  OBVIOUS
<1>2. c \in Seq(Letters) /\ Len(c) = k /\ \A i \in 1..k : c[i] = p[i]
  BY <1>1
<1> HIDE DEF c
<1>3. q \in Seq(Bytes) /\ Len(q) = k + 1 /\ q[k + 1] = "NUL" /\ \A i \in 1..k : q[i] = c[i]
  BY <1>2, NulBehind
<1> HIDE DEF q
<1> DEFINE w == Copied(v, pos, q)
<1>4. /\ w \in Seq(Bytes) /\ Len(w) = Len(v)
      /\ \A i \in 1..Len(v) : w[i] = IF i > pos /\ i <= pos + k + 1 THEN q[i - pos] ELSE v[i]
  <2> HIDE DEF Bytes
  <2>1. pos + Len(q) <= Len(v) /\ pos + Len(q) = pos + k + 1
    BY <1>3
  <2>2. LET u == Copied(v, pos, q)
        IN  /\ u \in Seq(Bytes) /\ Len(u) = Len(v)
            /\ \A i \in 1..Len(v) : u[i] = IF i > pos /\ i <= pos + Len(q) THEN q[i - pos] ELSE v[i]
    BY <1>3, <2>1, CopiedPlaces
  <2> QED BY <2>1, <2>2
<1>5. vsnprintf(v, pos, room, p) = w
  BY DEF vsnprintf, w, q, c
<1> HIDE DEF w
<1>6. \A i \in 1..Len(v) :
        w[i] = IF i > pos /\ i <= pos + k THEN p[i - pos]
               ELSE IF i = pos + k + 1 THEN "NUL" ELSE v[i]
  <2> TAKE i \in 1..Len(v)
  <2>1. CASE i > pos /\ i <= pos + k
    <3>1. i - pos \in 1..k
      BY <2>1
    <3> QED BY <1>2, <1>3, <1>4, <2>1, <3>1
  <2>2. CASE i = pos + k + 1
    <3>1. i - pos = k + 1
      BY <2>2
    <3> QED BY <1>3, <1>4, <2>2, <3>1
  <2>3. CASE ~(i > pos /\ i <= pos + k + 1)
    BY <1>4, <2>3
  <2> QED BY <2>1, <2>2, <2>3
<1> QED BY <1>4, <1>5, <1>6 DEF Printed

(* What ds_insert_vf has before it puts back the character that the NUL is on. *)
LEMMA SizedPlaces ==
  ASSUME NEW old \in Seq(Bytes), NEW p \in Seq(Letters), NEW pos \in Nat, pos < Len(old)
  PROVE  LET tried == vsnprintf(dv_insert(old, pos, PrintRoom), pos, PrintRoom + 1, p)
             w == IF Len(p) > PrintRoom
                  THEN vsnprintf(dv_insert(tried, pos + PrintRoom, Len(p) - PrintRoom),
                                 pos, Len(p) + 1, p)
                  ELSE dv_remove(tried, pos + Len(p), PrintRoom - Len(p))
         IN  /\ w \in Seq(Bytes) /\ Len(w) = Len(old) + Len(p)
             /\ \A i \in 1..pos : w[i] = old[i]
             /\ \A i \in 1..Len(p) : w[pos + i] = p[i]
             /\ \A i \in (pos + 2)..Len(old) : w[i + Len(p)] = old[i]
<1> DEFINE R == PrintRoom
           n == Len(p)
           m == Len(old)
           k == IF n < R + 1 THEN n ELSE R
           a == dv_insert(old, pos, R)
           b == vsnprintf(a, pos, R + 1, p)
<1>1. R \in Nat /\ n \in Nat /\ m \in Nat /\ pos \in 0..m /\ k \in Nat /\ k <= R
  BY BuffersAssumption
<1>2. "?" \in Bytes
  BY DEF Bytes
<1> HIDE DEF Bytes
<1>3. /\ a \in Seq(Bytes) /\ Len(a) = m + R
      /\ \A i \in 1..(m + R) :
           a[i] = IF i <= pos THEN old[i] ELSE IF i <= pos + R THEN "?" ELSE old[i - R]
  <2>1. R \in Nat /\ pos \in 0..Len(old)
    BY <1>1
  <2> HIDE DEF R, a
  <2>2. LET u == dv_insert(old, pos, R)
        IN  /\ u \in Seq(Bytes) /\ Len(u) = Len(old) + R
            /\ \A i \in 1..(Len(old) + R) :
                 u[i] = IF i <= pos THEN old[i] ELSE IF i <= pos + R THEN "?" ELSE old[i - R]
    BY <1>2, <2>1, InsertPlaces
  <2> QED BY <2>2 DEF a
<1> HIDE DEF a
<1>4. /\ b \in Seq(Bytes) /\ Len(b) = m + R
      /\ \A i \in 1..(m + R) :
           b[i] = IF i > pos /\ i <= pos + k THEN p[i - pos]
                  ELSE IF i = pos + k + 1 THEN "NUL" ELSE a[i]
  <2>1. pos + k + 1 <= Len(a)
    BY <1>1, <1>3
  <2>2. /\ b \in Seq(Bytes) /\ Len(b) = Len(a)
        /\ \A i \in 1..Len(a) :
           b[i] = IF i > pos /\ i <= pos + k THEN p[i - pos]
                  ELSE IF i = pos + k + 1 THEN "NUL" ELSE a[i]
    <3> DEFINE room == R + 1
    <3>1. k = (IF Len(p) < room THEN Len(p) ELSE room - 1) /\ room \in Nat /\ k \in Nat
      BY <1>1
    <3>0. a \in Seq(Bytes)
      BY <1>3
    <3> HIDE DEF k, m, n, b, room
    <3>2. Printed(vsnprintf(a, pos, room, p), a, pos, k, p)
      BY <2>1, <3>0, <3>1, PrintPlaces
    <3> QED BY <3>2 DEF b, room, Printed
  <2> HIDE DEF b, k, m, n
  <2> QED BY <1>3, <2>2
<1> HIDE DEF b
<1>5. \A i \in 1..pos : b[i] = old[i]
  <2> HIDE DEF m, n, k
  <2> TAKE i \in 1..pos
  <2>1. i \in 1..(m + R) /\ i <= pos /\ ~(i > pos) /\ i # pos + k + 1
    BY <1>1
  <2> QED BY <1>3, <1>4, <2>1
<1>6. \A i \in (pos + 2)..m : b[i + R] = old[i]
  <2> TAKE i \in (pos + 2)..m
  <2> DEFINE z == i + R
  <2>1. /\ z \in 1..(m + R) /\ ~(z <= pos + k) /\ z # pos + k + 1
        /\ ~(z <= pos) /\ ~(z <= pos + R) /\ z - R = i
    BY <1>1
  <2> HIDE DEF m, n, k, z
  <2>2. b[z] = a[z]
    BY <1>4, <2>1
  <2>3. a[z] = old[z - R]
    BY <1>3, <2>1
  <2>4. b[z] = old[i]
    BY <2>1, <2>2, <2>3
  <2> QED BY <2>4 DEF z
<1>7. CASE n > R
  <2> DEFINE c == dv_insert(b, pos + R, n - R)
             w == vsnprintf(c, pos, n + 1, p)
  <2>1. n - R \in Nat /\ pos + R \in 0..Len(b) /\ Len(b) + (n - R) = m + n
    BY <1>1, <1>4, <1>7
  <2>2. /\ c \in Seq(Bytes) /\ Len(c) = m + n
        /\ \A i \in 1..(m + n) :
             c[i] = IF i <= pos + R THEN b[i]
                    ELSE IF i <= pos + R + (n - R) THEN "?" ELSE b[i - (n - R)]
    <3>1. /\ c \in Seq(Bytes) /\ Len(c) = Len(b) + (n - R)
          /\ \A i \in 1..(Len(b) + (n - R)) :
             c[i] = IF i <= pos + R THEN b[i]
                    ELSE IF i <= pos + R + (n - R) THEN "?" ELSE b[i - (n - R)]
      BY <1>2, <1>4, <2>1, InsertPlaces
    <3> HIDE DEF c
    <3> QED BY <2>1, <3>1
  <2> HIDE DEF c
  <2>3. /\ w \in Seq(Bytes) /\ Len(w) = m + n
        /\ \A i \in 1..(m + n) :
             w[i] = IF i > pos /\ i <= pos + n THEN p[i - pos]
                    ELSE IF i = pos + n + 1 THEN "NUL" ELSE c[i]
    <3>1. pos + n + 1 <= Len(c) /\ n = (IF Len(p) < n + 1 THEN Len(p) ELSE n + 1 - 1)
      BY <1>1, <2>2
    <3>2. /\ w \in Seq(Bytes) /\ Len(w) = Len(c)
          /\ \A i \in 1..Len(c) :
             w[i] = IF i > pos /\ i <= pos + n THEN p[i - pos]
                    ELSE IF i = pos + n + 1 THEN "NUL" ELSE c[i]
      <4> HIDE DEF w
      <4> DEFINE room == n + 1
      <4>0. /\ n = (IF Len(p) < room THEN Len(p) ELSE room - 1) /\ room \in Nat /\ n \in Nat
            /\ c \in Seq(Bytes) /\ pos + n + 1 <= Len(c)
        BY <1>1, <2>2, <3>1
      <4> HIDE DEF room
      <4>1. Printed(vsnprintf(c, pos, room, p), c, pos, n, p)
        <5> HIDE DEF n
        <5> QED BY <4>0, PrintPlaces
      <4> QED BY <4>1 DEF w, room, Printed
    <3> HIDE DEF w, n
    <3> QED BY <2>2, <3>2
  <2> HIDE DEF w
  <2>4. \A i \in 1..pos : w[i] = old[i]
    <3> TAKE i \in 1..pos
    <3>1. i \in 1..(m + n) /\ ~(i > pos) /\ i # pos + n + 1 /\ i <= pos + R
      BY <1>1
    <3> HIDE DEF m, n
    <3> QED BY <1>5, <2>2, <2>3, <3>1
  <2>5. \A i \in 1..n : w[pos + i] = p[i]
    <3> TAKE i \in 1..n
    <3> DEFINE z == pos + i
    <3>1. z \in 1..(m + n) /\ z > pos /\ z <= pos + n /\ z - pos = i
      BY <1>1
    <3> HIDE DEF m, n, z
    <3> QED BY <2>3, <3>1 DEF z
  <2>6. \A i \in (pos + 2)..m : w[i + n] = old[i]
    <3> TAKE i \in (pos + 2)..m
    <3> DEFINE z == i + n
    <3>1. /\ z \in 1..(m + n) /\ ~(z <= pos + n) /\ z # pos + n + 1 /\ ~(z <= pos + R)
          /\ ~(z <= pos + R + (n - R)) /\ z - (n - R) = i + R
      BY <1>1, <1>7
    <3> HIDE DEF m, n, z
    <3>2. w[z] = c[z]
      BY <2>3, <3>1
    <3>3. c[z] = b[z - (n - R)]
      BY <2>2, <3>1
    <3> QED BY <1>6, <3>1, <3>2, <3>3 DEF z
  <2> QED BY <1>7, <2>3, <2>4, <2>5, <2>6 DEF w, c, b, a
<1>8. CASE ~(n > R)
  <2> DEFINE w == dv_remove(b, pos + n, R - n)
  <2>1. /\ R - n \in Nat /\ pos + n \in Nat /\ pos + n + (R - n) <= Len(b)
        /\ Len(b) - (R - n) = m + n /\ k = n
    BY <1>1, <1>4, <1>8
  <2>2. /\ w \in Seq(Bytes) /\ Len(w) = m + n
        /\ \A i \in 1..(m + n) : w[i] = IF i <= pos + n THEN b[i] ELSE b[i + (R - n)]
    <3>1. /\ w \in Seq(Bytes) /\ Len(w) = Len(b) - (R - n)
          /\ \A i \in 1..(Len(b) - (R - n)) : w[i] = IF i <= pos + n THEN b[i] ELSE b[i + (R - n)]
      <4> DEFINE at == pos + n
                 cut == R - n
      <4>1. at \in Nat /\ cut \in Nat /\ at + cut <= Len(b) /\ b \in Seq(Bytes)
        BY <1>4, <2>1
      <4> HIDE DEF at, cut, w
      <4>2. dv_remove(b, at, cut) \in Seq(Bytes) /\ Removed(dv_remove(b, at, cut), b, at, cut)
        BY <4>1, RemovePlaces
      <4> QED BY <4>2 DEF w, at, cut, Removed
    <3> HIDE DEF w
    <3> QED BY <2>1, <3>1
  <2> HIDE DEF w
  <2>3. \A i \in 1..pos : w[i] = old[i]
    <3> TAKE i \in 1..pos
    <3>1. i \in 1..(m + n) /\ i <= pos + n
      BY <1>1
    <3> HIDE DEF m, n
    <3> QED BY <1>5, <2>2, <3>1
  <2>4. \A i \in 1..n : w[pos + i] = p[i]
    <3> TAKE i \in 1..n
    <3> DEFINE z == pos + i
    <3>1. z \in 1..(m + n) /\ z \in 1..(m + R) /\ z > pos /\ z <= pos + n /\ z - pos = i
      BY <1>1, <1>8
    <3> HIDE DEF m, n, z, k
    <3>2. w[z] = b[z]
      BY <2>2, <3>1
    <3>3. b[z] = p[z - pos]
      BY <1>4, <2>1, <3>1
    <3> QED BY <3>1, <3>2, <3>3 DEF z
  <2>5. \A i \in (pos + 2)..m : w[i + n] = old[i]
    <3> TAKE i \in (pos + 2)..m
    <3> DEFINE z == i + n
    <3>1. z \in 1..(m + n) /\ ~(z <= pos + n) /\ z + (R - n) = i + R
      BY <1>1
    <3> HIDE DEF m, n, z
    <3>2. w[z] = b[z + (R - n)]
      BY <2>2, <3>1
    <3> QED BY <1>6, <3>1, <3>2 DEF z
  <2> QED BY <1>8, <2>2, <2>3, <2>4, <2>5 DEF w, b, a
<1> QED BY <1>7, <1>8

(* ds_insert_vf inserts a text of any length, longer or shorter than the first
   try. *)
LEMMA FormattedEnds ==
  ASSUME NEW v, NEW t \in Seq(Letters), HoldsText(v, t), NEW p \in Seq(Letters),
         NEW pos \in 0..ds_size(v)
  PROVE  Ends(ds_insert_vf(v, pos, p), Inserted(t, pos, p))
<1> DEFINE old == IF v = <<>> THEN <<"NUL">> ELSE v
           tried == vsnprintf(dv_insert(old, pos, PrintRoom), pos, PrintRoom + 1, p)
           s == IF Len(p) > PrintRoom
                THEN vsnprintf(dv_insert(tried, pos + PrintRoom, Len(p) - PrintRoom),
                               pos, Len(p) + 1, p)
                ELSE dv_remove(tried, pos + Len(p), PrintRoom - Len(p))
           m == Len(t)
           n == Len(p)
           w == [s EXCEPT ![pos + n + 1] = old[pos + 1]]
           x == Inserted(t, pos, p)
<1>1. m \in Nat /\ n \in Nat /\ pos \in 0..m /\ pos \in Nat
  BY SizeIsLength
<1>2. Ends(old, t)
  <2>1. CASE v = <<>> /\ t = <<>>
    <3>1. old = <<"NUL">> /\ old \in Seq(Bytes) /\ Len(old) = 1 /\ old[1] = "NUL" /\ Len(t) = 0
      BY <2>1 DEF Bytes
    <3> QED BY <3>1 DEF Ends
  <2>2. CASE Ends(v, t)
    <3>1. v # <<>>
      BY <2>2, EndsIsText
    <3> QED BY <2>2, <3>1
  <2> QED BY <2>1, <2>2 DEF HoldsText
<1>3. old \in Seq(Bytes) /\ Len(old) = m + 1 /\ old[m + 1] = "NUL" /\ \A i \in 1..m : old[i] = t[i]
  BY <1>2 DEF Ends
<1> HIDE DEF old
<1>4. /\ s \in Seq(Bytes) /\ Len(s) = m + 1 + n
      /\ \A i \in 1..pos : s[i] = old[i]
      /\ \A i \in 1..n : s[pos + i] = p[i]
      /\ \A i \in (pos + 2)..(m + 1) : s[i + n] = old[i]
  <2>1. pos < Len(old)
    BY <1>1, <1>3
  <2>2. /\ s \in Seq(Bytes) /\ Len(s) = Len(old) + Len(p)
        /\ \A i \in 1..pos : s[i] = old[i]
        /\ \A i \in 1..Len(p) : s[pos + i] = p[i]
        /\ \A i \in (pos + 2)..Len(old) : s[i + Len(p)] = old[i]
    BY <1>1, <1>3, <2>1, SizedPlaces
  <2> HIDE DEF s
  <2> QED BY <1>3, <2>2
<1>5. ds_insert_vf(v, pos, p) = w
  BY DEF ds_insert_vf, w, s, tried, old
<1> HIDE DEF s
<1>6. /\ x \in Seq(Letters) /\ Len(x) = m + n
      /\ \A i \in 1..(m + n) :
           x[i] = IF i <= pos THEN t[i] ELSE IF i <= pos + n THEN p[i - pos] ELSE t[i - n]
  BY <1>1, InsertedPlaces
<1> HIDE DEF x
<1>7. old[pos + 1] \in Bytes
  <2>1. pos + 1 \in 1..Len(old)
    BY <1>1, <1>3
  <2> HIDE DEF Bytes
  <2> QED BY <1>3, <2>1
<1>8. /\ w \in Seq(Bytes) /\ Len(w) = m + 1 + n
      /\ \A i \in 1..(m + 1 + n) : w[i] = IF i = pos + n + 1 THEN old[pos + 1] ELSE s[i]
  <2> HIDE DEF Bytes, m, n
  <2> QED BY <1>1, <1>4, <1>7
<1> HIDE DEF w
<1>9. \A i \in (pos + 1)..(m + 1) : w[i + n] = old[i]
  <2> TAKE i \in (pos + 1)..(m + 1)
  <2> DEFINE z == i + n
  <2>1. z \in 1..(m + 1 + n) /\ (z = pos + n + 1 <=> i = pos + 1)
    BY <1>1
  <2>2. i # pos + 1 => i \in (pos + 2)..(m + 1)
    BY <1>1
  <2> HIDE DEF m, n, z
  <2>3. w[z] = IF z = pos + n + 1 THEN old[pos + 1] ELSE s[z]
    BY <1>8, <2>1
  <2> QED BY <1>4, <2>1, <2>2, <2>3 DEF z
<1>10. w[m + n + 1] = "NUL"
  <2>1. m + 1 \in (pos + 1)..(m + 1) /\ m + 1 + n = m + n + 1
    BY <1>1
  <2> HIDE DEF m, n
  <2> QED BY <1>3, <1>9, <2>1
<1>11. \A i \in 1..(m + n) : w[i] = x[i]
  <2> TAKE i \in 1..(m + n)
  <2>0. i \in 1..(m + 1 + n)
    BY <1>1
  <2>1. CASE i <= pos
    <3>1. i \in 1..pos /\ i \in 1..m /\ i # pos + n + 1
      BY <1>1, <2>1
    <3> HIDE DEF m, n
    <3> QED BY <1>3, <1>4, <1>6, <1>8, <2>0, <2>1, <3>1
  <2>2. CASE i > pos /\ i <= pos + n
    <3> DEFINE j == i - pos
    <3>1. j \in 1..n /\ i = pos + j /\ i # pos + n + 1 /\ ~(i <= pos)
      BY <1>1, <2>2
    <3> HIDE DEF m, n, j
    <3>2. w[i] = s[i]
      BY <1>8, <2>0, <3>1
    <3>3. s[i] = p[j]
      BY <1>4, <3>1
    <3>4. x[i] = p[i - pos]
      BY <1>6, <2>2, <3>1
    <3> QED BY <3>2, <3>3, <3>4 DEF j
  <2>3. CASE ~(i <= pos + n)
    <3> DEFINE j == i - n
    <3>1. j \in (pos + 1)..(m + 1) /\ j \in 1..m /\ i = j + n /\ ~(i <= pos)
      BY <1>1, <2>3
    <3> HIDE DEF m, n, j
    <3>2. w[i] = old[j]
      BY <1>9, <3>1
    <3>3. x[i] = t[i - n]
      BY <1>6, <2>3, <3>1
    <3> QED BY <1>3, <3>1, <3>2, <3>3 DEF j
  <2> QED BY <1>1, <2>1, <2>2, <2>3
<1>12. Len(w) = Len(x) + 1 /\ Len(x) + 1 = m + n + 1
  BY <1>1, <1>6, <1>8
<1>13. Ends(w, x)
  BY <1>6, <1>8, <1>10, <1>11, <1>12 DEF Ends
<1> QED BY <1>5, <1>13 DEF x

(* dv_remove of characters that are there leaves the NUL. *)
LEMMA RemoveEnds ==
  ASSUME NEW v, NEW t \in Seq(Letters), HoldsText(v, t), NEW pos \in Nat, NEW n \in Nat \ {0},
         pos + n <= ds_size(v)
  PROVE  Ends(dv_remove(v, pos, n), dv_remove(t, pos, n))
<1> DEFINE m == Len(t)
           w == dv_remove(v, pos, n)
           x == dv_remove(t, pos, n)
<1>1. m \in Nat /\ pos + n <= m
  BY SizeIsLength
<1>2. Ends(v, t)
  <2>1. t # <<>>
    BY <1>1
  <2> QED BY <2>1 DEF HoldsText
<1>3. v \in Seq(Bytes) /\ Len(v) = m + 1 /\ v[m + 1] = "NUL" /\ \A i \in 1..m : v[i] = t[i]
  BY <1>2 DEF Ends
<1>4. w \in Seq(Bytes) /\ Removed(w, v, pos, n)
  <2>1. pos + n <= Len(v)
    BY <1>1, <1>3
  <2> QED BY <1>3, <2>1, RemovePlaces
<1>5. x \in Seq(Letters) /\ Removed(x, t, pos, n)
  BY <1>1, RemovePlaces
<1> HIDE DEF w, x
<1>6. Len(w) = m + 1 - n /\ Len(x) = m - n /\ Len(w) = Len(x) + 1
  BY <1>1, <1>3, <1>4, <1>5 DEF Removed
<1>7. w[Len(x) + 1] = "NUL"
  <2>1. m - n + 1 \in 1..(m + 1 - n) /\ ~(m - n + 1 <= pos) /\ m - n + 1 + n = m + 1
    BY <1>1
  <2>2. w[m - n + 1] = v[m - n + 1 + n]
    <3> HIDE DEF m
    <3> QED BY <1>3, <1>4, <2>1 DEF Removed
  <2> HIDE DEF m
  <2> QED BY <1>3, <1>6, <2>1, <2>2
<1>8. \A i \in 1..Len(x) : w[i] = x[i]
  <2> TAKE i \in 1..Len(x)
  <2>1. i \in 1..(m + 1 - n) /\ i \in 1..(m - n) /\ i \in 1..m /\ i + n \in 1..m
    BY <1>1, <1>6
  <2> HIDE DEF m
  <2>2. w[i] = IF i <= pos THEN v[i] ELSE v[i + n]
    <3>1. \A j \in 1..(Len(v) - n) : w[j] = IF j <= pos THEN v[j] ELSE v[j + n]
      BY <1>4 DEF Removed
    <3>2. i \in 1..(Len(v) - n)
      BY <1>1, <1>3, <2>1
    <3> QED BY <3>1, <3>2
  <2>3. x[i] = IF i <= pos THEN t[i] ELSE t[i + n]
    BY <1>5, <2>1 DEF Removed, m
  <2> QED BY <1>3, <2>1, <2>2, <2>3
<1>9. Ends(w, x)
  BY <1>4, <1>5, <1>6, <1>7, <1>8 DEF Ends
<1> QED BY <1>9 DEF w, x

(* ds_remove_end puts a new NUL. *)
LEMMA CutEnds ==
  ASSUME NEW v, NEW t \in Seq(Letters), HoldsText(v, t), NEW n \in 1..ds_size(v)
  PROVE  LET rest == SubSeq(v, 1, Len(v) - n)
         IN  Ends([rest EXCEPT ![Len(rest)] = "NUL"], SubSeq(t, 1, Len(t) - n))
<1> DEFINE m == Len(t)
           r == SubSeq(v, 1, Len(v) - n)
           w == [r EXCEPT ![Len(r)] = "NUL"]
           x == SubSeq(t, 1, m - n)
<1>1. m \in Nat /\ n \in 1..m
  BY SizeIsLength
<1>2. Ends(v, t)
  <2>1. t # <<>>
    BY <1>1
  <2> QED BY <2>1 DEF HoldsText
<1>3. v \in Seq(Bytes) /\ Len(v) = m + 1 /\ \A i \in 1..m : v[i] = t[i]
  BY <1>2 DEF Ends
<1>4. "NUL" \in Bytes
  BY DEF Bytes
<1> HIDE DEF Bytes
<1>5. r \in Seq(Bytes) /\ Len(r) = m + 1 - n /\ \A i \in 1..(m + 1 - n) : r[i] = v[i]
  BY <1>1, <1>3
<1>6. x \in Seq(Letters) /\ Len(x) = m - n /\ \A i \in 1..(m - n) : x[i] = t[i]
  BY <1>1
<1> HIDE DEF r, x
<1>7. /\ w \in Seq(Bytes) /\ Len(w) = m + 1 - n /\ w[m + 1 - n] = "NUL"
      /\ \A i \in 1..(m - n) : w[i] = r[i]
  <2>1. m + 1 - n \in Nat /\ m + 1 - n > 0
    BY <1>1
  <2> DEFINE k == m + 1 - n
  <2>2. k \in Nat /\ k > 0 /\ Len(r) = k /\ m - n = k - 1
    BY <1>1, <1>5
  <2> HIDE DEF k, m
  <2>3. w \in Seq(Bytes) /\ Len(w) = k /\ w[k] = "NUL" /\ \A i \in 1..(k - 1) : w[i] = r[i]
    BY <1>4, <1>5, <2>2
  <2> QED BY <2>2, <2>3 DEF k
<1> HIDE DEF w
<1>8. \A i \in 1..(m - n) : w[i] = x[i]
  <2> TAKE i \in 1..(m - n)
  <2>1. i \in 1..m /\ i \in 1..(m + 1 - n)
    BY <1>1
  <2> HIDE DEF m
  <2> QED BY <1>3, <1>5, <1>6, <1>7, <2>1
<1>9. m + 1 - n = Len(x) + 1
  BY <1>1, <1>6
<1>10. Ends(w, x)
  BY <1>6, <1>7, <1>8, <1>9 DEF Ends
<1> QED BY <1>10 DEF w, x, r

(* The invariant of a string *)
StringInv == text \in Seq(Letters) /\ HoldsText(chars, text)

(* A new string holds nothing. *)
LEMMA StringStart == StringInit => StringInv
BY DEF StringInit, StringInv, HoldsText

(* What the invariant is for. *)
LEMMA StringKept == StringInv => TextKept
<1> SUFFICES ASSUME StringInv PROVE TextKept
  OBVIOUS
<1>1. CASE chars = <<>> /\ text = <<>>
  BY <1>1 DEF TextKept
<1>2. CASE Ends(chars, text)
  BY <1>2, EndsIsText DEF TextKept
<1> QED BY <1>1, <1>2 DEF StringInv, HoldsText

(* What is put into a string is made of letters. *)
LEMMA PieceLetters ==
  ASSUME NEW p \in Pieces
  PROVE  p \in Seq(Letters)
<1>1. p \in Seq(Range(p))
  BY BuffersAssumption
<1>2. Range(p) \subseteq Letters
  BY DEF Letters
<1> DEFINE R == Range(p)
<1> HIDE DEF R
<1>3. p \in Seq(R) /\ R \subseteq Letters
  BY <1>1, <1>2 DEF R
<1> QED BY <1>3

(* Each operation on a string keeps its text. *)
LEMMA StringStep == StringInv /\ StringNext => StringInv'
<1> SUFFICES ASSUME StringInv, StringNext PROVE StringInv'
  OBVIOUS
<1>1. text \in Seq(Letters) /\ HoldsText(chars, text)
  BY DEF StringInv
<1>2. \/ \E t \in Pieces : SetText(t)
      \/ \E t \in Pieces : \E pos \in 0..ds_size(chars) : InsertText(pos, t)
      \/ \E t \in Pieces : \E pos \in 0..ds_size(chars) : InsertFormatted(pos, t)
      \/ \E n \in 1..MaxText : RemoveEnd(n)
      \/ \E n \in 1..MaxText : \E pos \in 0..MaxText : RemoveText(pos, n)
  BY DEF StringNext
<1>3. (\E v, t : chars' = v /\ text' = t /\ Ends(v, t)) => StringInv'
  BY DEF StringInv, HoldsText, Ends
<1>4. CASE \E t \in Pieces : SetText(t)
  <2>1. PICK p \in Pieces : SetText(p)
    BY <1>4
  <2>2. p \in Seq(Letters) /\ <<>> \in Seq(Letters) /\ HoldsText(<<>>, <<>>)
    BY PieceLetters DEF HoldsText
  <2>3. Ends(ds_cat_n(<<>>, p), Inserted(<<>>, Len(<<>>), p))
    BY <2>2, CatEnds
  <2>4. Inserted(<<>>, Len(<<>>), p) = p
    <3>1. SubSeq(<<>>, 1, 0) = <<>> /\ SubSeq(<<>>, 0 + 1, 0) = <<>> /\ Len(<<>>) = 0
      OBVIOUS
    <3>2. <<>> \o p \o <<>> = p
      BY <2>2
    <3> QED BY <3>1, <3>2 DEF Inserted
  <2> QED BY <1>3, <2>1, <2>3, <2>4 DEF SetText, StringIs
<1>5. CASE \E t \in Pieces : \E pos \in 0..ds_size(chars) : InsertText(pos, t)
  <2>1. PICK p \in Pieces : \E pos \in 0..ds_size(chars) : InsertText(pos, p)
    BY <1>5
  <2>2. PICK pos \in 0..ds_size(chars) : InsertText(pos, p)
    BY <2>1
  <2>3. Ends(ds_insert_n(chars, pos, p), Inserted(text, pos, p))
    BY <1>1, PieceLetters, InsertEnds
  <2> QED BY <1>3, <2>2, <2>3 DEF InsertText, StringIs, Inserted
<1>6. CASE \E t \in Pieces : \E pos \in 0..ds_size(chars) : InsertFormatted(pos, t)
  <2>1. PICK p \in Pieces : \E pos \in 0..ds_size(chars) : InsertFormatted(pos, p)
    BY <1>6
  <2>2. PICK pos \in 0..ds_size(chars) : InsertFormatted(pos, p)
    BY <2>1
  <2>3. Ends(ds_insert_vf(chars, pos, p), Inserted(text, pos, p))
    BY <1>1, PieceLetters, FormattedEnds
  <2> QED BY <1>3, <2>2, <2>3 DEF InsertFormatted, StringIs, Inserted
<1>7. CASE \E n \in 1..MaxText : RemoveEnd(n)
  <2>1. PICK n \in 1..MaxText : RemoveEnd(n)
    BY <1>7
  <2>2. n \in 1..ds_size(chars)
    BY <2>1 DEF RemoveEnd
  <2>3. LET rest == SubSeq(chars, 1, Len(chars) - n)
        IN  Ends([rest EXCEPT ![Len(rest)] = "NUL"], SubSeq(text, 1, Len(text) - n))
    BY <1>1, <2>2, CutEnds
  <2> QED BY <1>3, <2>1, <2>3 DEF RemoveEnd, StringIs
<1>8. CASE \E n \in 1..MaxText : \E pos \in 0..MaxText : RemoveText(pos, n)
  <2>1. PICK n \in 1..MaxText : \E pos \in 0..MaxText : RemoveText(pos, n)
    BY <1>8
  <2>2. PICK pos \in 0..MaxText : RemoveText(pos, n)
    BY <2>1
  <2>3. n \in Nat \ {0} /\ pos \in Nat /\ pos + n <= ds_size(chars)
    BY <2>2, BuffersAssumption DEF RemoveText
  <2>4. Ends(dv_remove(chars, pos, n), dv_remove(text, pos, n))
    BY <1>1, <2>3, RemoveEnds
  <2> QED BY <1>3, <2>2, <2>4 DEF RemoveText, StringIs
<1> QED BY <1>2, <1>4, <1>5, <1>6, <1>7, <1>8

-----------------------------------------------------------------------------
(* The receive buffer *)

(* What streams are made of *)
Sent == UNION {Range(t) : t \in Streams}

(* dv_insert at the end leaves what is there. *)
LEMMA RoomBehind ==
  ASSUME NEW S, "?" \in S, NEW v \in Seq(S), NEW n \in Nat
  PROVE  /\ dv_insert(v, Len(v), n) \in Seq(S) /\ Len(dv_insert(v, Len(v), n)) = Len(v) + n
         /\ \A i \in 1..Len(v) : dv_insert(v, Len(v), n)[i] = v[i]
<1> DEFINE w == dv_insert(v, Len(v), n)
<1>1. Len(v) \in 0..Len(v) /\ Len(v) \in Nat
  OBVIOUS
<1>2. /\ w \in Seq(S) /\ Len(w) = Len(v) + n
      /\ \A i \in 1..(Len(v) + n) :
           w[i] = IF i <= Len(v) THEN v[i] ELSE IF i <= Len(v) + n THEN "?" ELSE v[i - n]
  BY <1>1, InsertPlaces
<1> HIDE DEF w
<1>3. \A i \in 1..Len(v) : i \in 1..(Len(v) + n) /\ i <= Len(v)
  BY <1>1
<1>4. \A i \in 1..Len(v) : w[i] = v[i]
  BY <1>2, <1>3
<1> QED BY <1>2, <1>4 DEF w

(* What is received is put behind what the buffer holds, whatever the room that
   was made for it. *)
LEMMA ReceivedBehind ==
  ASSUME NEW v \in Seq(Sent), NEW got \in Seq(Sent), NEW n \in Int,
         Len(got) <= RecvSize, Len(got) = (IF n > 0 THEN n ELSE 0)
  PROVE  buf_recvd(buf_recvbuf(v, got), n) = v \o got
<1> DEFINE S == Sent \cup {"?"}
           R == RecvSize
           m == Len(v)
           g == Len(got)
           a == dv_insert(v, m, R)
           b == Copied(a, m, got)
           w == SubSeq(b, 1, m + g)
           x == v \o got
<1>1. R \in Nat /\ m \in Nat /\ g \in Nat /\ g <= R /\ Len(v) \in 0..Len(v)
  BY BuffersAssumption
<1>2. v \in Seq(S) /\ got \in Seq(S) /\ "?" \in S
  OBVIOUS
<1> HIDE DEF S
<1>3. a \in Seq(S) /\ Len(a) = m + R /\ \A i \in 1..m : a[i] = v[i]
  <2>1. R \in Nat
    BY <1>1
  <2> HIDE DEF R, a
  <2> QED BY <1>2, <2>1, RoomBehind DEF a
<1> HIDE DEF a
<1>4. /\ b \in Seq(S) /\ Len(b) = m + R
      /\ \A i \in 1..(m + g) : b[i] = IF i <= m THEN v[i] ELSE got[i - m]
  <2>1. m + Len(got) <= Len(a)
    BY <1>1, <1>3
  <2>2. LET u == Copied(a, m, got)
        IN  /\ u \in Seq(S) /\ Len(u) = Len(a)
            /\ \A i \in 1..Len(a) : u[i] = IF i > m /\ i <= m + Len(got) THEN got[i - m] ELSE a[i]
    BY <1>1, <1>2, <1>3, <2>1, CopiedPlaces
  <2> HIDE DEF b
  <2>3. /\ b \in Seq(S) /\ Len(b) = m + R
        /\ \A i \in 1..(m + R) : b[i] = IF i > m /\ i <= m + g THEN got[i - m] ELSE a[i]
    BY <1>3, <2>2 DEF b
  <2> HIDE DEF m, g, R
  <2>4. ASSUME NEW i \in 1..(m + g) PROVE b[i] = IF i <= m THEN v[i] ELSE got[i - m]
    <3>1. i \in 1..(m + R) /\ i <= m + g
      BY <1>1
    <3>2. CASE i <= m
      BY <1>1, <1>3, <2>3, <3>1, <3>2
    <3>3. CASE i > m
      <4>1. b[i] = IF i > m /\ i <= m + g THEN got[i - m] ELSE a[i]
        BY <2>3, <3>1
      <4>2. ~(i <= m)
        BY <1>1, <3>3
      <4> QED BY <3>1, <3>3, <4>1, <4>2
    <3> QED BY <1>1, <3>2, <3>3
  <2> QED BY <2>3, <2>4
<1> HIDE DEF b
<1>5. /\ w \in Seq(S) /\ Len(w) = m + g /\ \A i \in 1..(m + g) : w[i] = b[i]
  <2> DEFINE k == m + g
  <2>1. b \in Seq(S) /\ k \in 0..Len(b)
    <3> HIDE DEF m, g, R
    <3> QED BY <1>1, <1>4
  <2> HIDE DEF k
  <2>2. LET u == SubSeq(b, 1, k)
        IN  u \in Seq(S) /\ Len(u) = k /\ \A i \in 1..k : u[i] = b[i]
    BY <2>1
  <2> QED BY <2>2 DEF k
<1>6. /\ x \in Seq(S) /\ Len(x) = m + g
      /\ \A i \in 1..(m + g) : x[i] = IF i <= m THEN v[i] ELSE got[i - m]
  BY <1>2, JoinPlaces
<1>7. w = x
  <2> HIDE DEF w, x, m, g
  <2>1. Len(w) = Len(x) /\ \A i \in 1..Len(w) : w[i] = x[i]
    BY <1>4, <1>5, <1>6
  <2> QED BY <1>5, <1>6, <2>1, SamePlaces
<1>8. buf_recvd(b, n) = w
  <2>1. Len(b) - (RecvSize - (IF n > 0 THEN n ELSE 0)) = m + g
    <3>1. g = (IF n > 0 THEN n ELSE 0)
      OBVIOUS
    <3>2. Len(b) = m + RecvSize /\ RecvSize \in Nat
      BY <1>1, <1>4
    <3> HIDE DEF m, g
    <3>3. Len(b) - (RecvSize - g) = m + g
      BY <1>1, <3>2
    <3> QED BY <3>1, <3>3
  <2> QED BY <2>1 DEF buf_recvd, w
<1>9. buf_recvbuf(v, got) = b
  BY DEF buf_recvbuf, b, a
<1> QED BY <1>7, <1>8, <1>9

(* adbus_buf_line finds the first line. *)
LEMMA LineFacts ==
  ASSUME NEW S, NEW v \in Seq(S)
  PROVE  /\ buf_line(v) \in 0..Len(v)
         /\ buf_line(v) > 0 => v[buf_line(v)] = "LF" /\ \A j \in 1..(buf_line(v) - 1) : v[j] # "LF"
<1> DEFINE I == {i \in 1..Len(v) : v[i] = "LF"}
           k == buf_line(v)
<1>1. k = IF I # {} THEN Min(I) ELSE 0
  BY DEF buf_line, SelectInSeq
<1>2. CASE I = {}
  BY <1>1, <1>2
<1>3. CASE I # {}
  <2>1. I \in SUBSET Nat
    OBVIOUS
  <2>2. Min(I) \in I /\ \A j \in I : Min(I) <= j
    <3> HIDE DEF I
    <3>1. \E i \in I : \A j \in I : i <= j
      BY <1>3, <2>1, LeastNumber
    <3> QED BY <3>1 DEF Min
  <2>3. k \in I /\ \A j \in I : k <= j
    BY <1>1, <1>3, <2>2
  <2> HIDE DEF k
  <2>4. k \in 1..Len(v) /\ v[k] = "LF"
    BY <2>3
  <2>5. \A j \in 1..(k - 1) : v[j] # "LF"
    <3> TAKE j \in 1..(k - 1)
    <3>1. j \in 1..Len(v) /\ ~(k <= j)
      BY <2>4
    <3> QED BY <2>3, <3>1
  <2> QED BY <2>4, <2>5 DEF k
<1> QED BY <1>2, <1>3

(* The first line is found whole in itself. *)
LEMMA LineOfLine ==
  ASSUME NEW S, NEW v \in Seq(S), buf_line(v) > 0
  PROVE  LET line == SubSeq(v, 1, buf_line(v))
         IN  line \in Seq(S) /\ buf_line(line) = Len(line)
<1> DEFINE k == buf_line(v)
           line == SubSeq(v, 1, k)
<1>1. k \in 1..Len(v) /\ v[k] = "LF" /\ \A j \in 1..(k - 1) : v[j] # "LF"
  BY LineFacts
<1> HIDE DEF k
<1>2. line \in Seq(S) /\ Len(line) = k /\ \A j \in 1..k : line[j] = v[j]
  BY <1>1
<1> HIDE DEF line
<1> DEFINE I == {i \in 1..Len(line) : line[i] = "LF"}
<1>3. I = {k}
  BY <1>1, <1>2
<1>4. Min({k}) = k
  BY <1>1 DEF Min
<1>5. buf_line(line) = IF I # {} THEN Min(I) ELSE 0
  BY DEF buf_line, SelectInSeq
<1> HIDE DEF I
<1>6. buf_line(line) = k
  BY <1>3, <1>4, <1>5
<1> QED BY <1>2, <1>6 DEF line, k

(* The invariant of a receive buffer *)
RecvInv ==
  /\ rbuf \in Seq(Sent) /\ incoming \in Seq(Sent) /\ lineSeq \in Seq(Seq(Sent))
  /\ LinesWhole

(* Before the first read everything is still to arrive. *)
LEMMA RecvStart == RecvInit => RecvInv
<1> SUFFICES ASSUME RecvInit PROVE RecvInv
  OBVIOUS
<1>1. rbuf = <<>> /\ incoming \in Streams /\ lineSeq = <<>> /\ allSent = incoming
  BY DEF RecvInit
<1>2. incoming \in Seq(Sent)
  <2> DEFINE R == Range(incoming)
  <2>1. incoming \in Seq(R) /\ R \subseteq Sent
    BY <1>1, BuffersAssumption DEF Sent
  <2> HIDE DEF R
  <2> QED BY <2>1
<1>3. lineSeq \in Seq(Seq(Sent)) /\ rbuf \in Seq(Sent) /\ Len(lineSeq) = 0 /\ DOMAIN lineSeq = {}
  BY <1>1
<1>4. FlattenSeq(lineSeq) = <<>>
  <2>1. PICK K \in [0..Len(lineSeq) -> Seq(Sent)] :
          K[0] = <<>> /\ FlattenSeq(lineSeq) = K[Len(lineSeq)]
    BY <1>3, FlattenUnfolds
  <2> QED BY <1>3, <2>1
<1>5. <<>> \o <<>> \o incoming = incoming
  <2>1. <<>> \o <<>> = <<>>
    OBVIOUS
  <2>2. <<>> \o incoming = incoming
    BY <1>2
  <2> QED BY <2>1, <2>2
<1> QED BY <1>1, <1>2, <1>3, <1>4, <1>5 DEF RecvInv, LinesWhole

(* A line that is taken is cut off the buffer. *)
LEMMA TakeTheLineKeeps == RecvInv /\ TakeTheLine => RecvInv'
<1> SUFFICES ASSUME RecvInv, TakeTheLine PROVE RecvInv'
  OBVIOUS
<1> DEFINE k == buf_line(rbuf)
           line == SubSeq(rbuf, 1, k)
           rest == SubSeq(rbuf, k + 1, Len(rbuf))
           flat == FlattenSeq(lineSeq)
<1>1. /\ rbuf \in Seq(Sent) /\ incoming \in Seq(Sent) /\ lineSeq \in Seq(Seq(Sent))
      /\ flat \o rbuf \o incoming = allSent
      /\ \A i \in DOMAIN lineSeq : buf_line(lineSeq[i]) = Len(lineSeq[i])
  BY DEF RecvInv, LinesWhole
<1>2. k > 0 /\ lineSeq' = Append(lineSeq, line) /\ incoming' = incoming /\ allSent' = allSent
  BY DEF TakeTheLine
<1>3. k \in 1..Len(rbuf)
  BY <1>1, <1>2, LineFacts
<1>4. line \in Seq(Sent) /\ buf_line(line) = Len(line)
  BY <1>1, <1>2, LineOfLine
<1>5. rest \in Seq(Sent) /\ line \o rest = rbuf
  BY <1>1, <1>3, CutInTwo
<1>6. rbuf' = rest
  <2>1. rbuf' = SubSeq(rbuf, 1, 0) \o SubSeq(rbuf, 0 + k + 1, Len(rbuf))
    BY DEF TakeTheLine, dv_remove
  <2>2. 0 + k + 1 = k + 1
    BY <1>3
  <2>3. SubSeq(rbuf, 1, 0) = <<>>
    BY <1>1
  <2> HIDE DEF k
  <2>4. rbuf' = <<>> \o rest
    BY <2>1, <2>2, <2>3
  <2> HIDE DEF rest
  <2> QED BY <1>5, <2>4
<1>7. flat \in Seq(Sent)
  BY <1>1, FlattenFacts
<1>8. FlattenSeq(Append(lineSeq, line)) = flat \o line
  BY <1>1, <1>4, FlattenAppend
<1> HIDE DEF flat, line, rest, k
<1>9. flat \o line \o rest = flat \o rbuf
  <2>1. rest \in Seq(Sent) /\ line \in Seq(Sent)
    BY <1>4, <1>5
  <2>2. (flat \o line) \o rest = flat \o (line \o rest)
    BY <1>7, <2>1, ConcatAssociative
  <2> QED BY <1>5, <2>2
<1>10. FlattenSeq(lineSeq') \o rbuf' \o incoming' = allSent'
  BY <1>1, <1>2, <1>6, <1>8, <1>9
<1>11. lineSeq' \in Seq(Seq(Sent)) /\ \A i \in DOMAIN lineSeq' : buf_line(lineSeq'[i]) = Len(lineSeq'[i])
  <2> DEFINE T == Seq(Sent)
  <2>1. lineSeq \in Seq(T) /\ line \in T
    BY <1>1, <1>4
  <2> HIDE DEF T
  <2>2. /\ lineSeq' \in Seq(T) /\ Len(lineSeq) \in Nat /\ Len(lineSeq') = Len(lineSeq) + 1
        /\ lineSeq'[Len(lineSeq) + 1] = line
        /\ \A i \in 1..Len(lineSeq) : lineSeq'[i] = lineSeq[i]
    BY <1>2, <2>1, AppendPlaces
  <2>3. DOMAIN lineSeq = 1..Len(lineSeq) /\ DOMAIN lineSeq' = 1..(Len(lineSeq) + 1)
    BY <2>1, <2>2
  <2>4. ASSUME NEW i \in DOMAIN lineSeq' PROVE buf_line(lineSeq'[i]) = Len(lineSeq'[i])
    <3>1. i \in 1..Len(lineSeq) \/ i = Len(lineSeq) + 1
      BY <2>2, <2>3
    <3> QED BY <1>1, <1>4, <2>2, <2>3, <3>1
  <2> QED BY <2>2, <2>4 DEF T
<1> QED BY <1>1, <1>2, <1>5, <1>6, <1>10, <1>11 DEF RecvInv, LinesWhole

(* A read moves what has arrived into the buffer; one that fails, nothing. *)
LEMMA RecvBytesKeeps ==
  ASSUME RecvInv, NEW n \in (-1)..RecvSize, RecvBytes(n)
  PROVE  RecvInv'
<1> DEFINE got == SubSeq(incoming, 1, n)
           k == Len(got)
           rest == SubSeq(incoming, k + 1, Len(incoming))
           flat == FlattenSeq(lineSeq)
<1>1. /\ rbuf \in Seq(Sent) /\ incoming \in Seq(Sent) /\ lineSeq \in Seq(Seq(Sent))
      /\ flat \o rbuf \o incoming = allSent
      /\ \A i \in DOMAIN lineSeq : buf_line(lineSeq[i]) = Len(lineSeq[i])
  BY DEF RecvInv, LinesWhole
<1>2. /\ n <= Len(incoming) /\ rbuf' = buf_recvd(buf_recvbuf(rbuf, got), n) /\ incoming' = rest
      /\ lineSeq' = lineSeq /\ allSent' = allSent
  BY DEF RecvBytes
<1>3. RecvSize \in Nat /\ n \in Int /\ Len(incoming) \in Nat
  BY <1>1, BuffersAssumption
<1>4. got \in Seq(Sent) /\ Len(got) = (IF n > 0 THEN n ELSE 0)
  BY <1>1, <1>2, <1>3
<1>5. rest \in Seq(Sent) /\ got \o rest = incoming
  <2>1. CASE n > 0
    <3>1. k = n /\ n \in 1..Len(incoming)
      BY <1>2, <1>3, <1>4, <2>1
    <3> HIDE DEF k
    <3>2. /\ SubSeq(incoming, n + 1, Len(incoming)) \in Seq(Sent)
          /\ SubSeq(incoming, 1, n) \o SubSeq(incoming, n + 1, Len(incoming)) = incoming
      BY <1>1, <3>1, CutInTwo
    <3> QED BY <3>1, <3>2
  <2>2. CASE ~(n > 0)
    <3>1. k = 0 /\ got = <<>>
      BY <1>3, <1>4, <2>2
    <3>2. SubSeq(incoming, 0 + 1, Len(incoming)) = incoming
      BY <1>1
    <3> HIDE DEF k, got
    <3>3. <<>> \o incoming = incoming
      BY <1>1
    <3> QED BY <1>1, <3>1, <3>2, <3>3
  <2> QED BY <2>1, <2>2
<1>6. rbuf' = rbuf \o got
  <2>1. Len(got) <= RecvSize
    BY <1>3, <1>4
  <2> QED BY <1>1, <1>2, <1>3, <1>4, <2>1, ReceivedBehind
<1>7. flat \in Seq(Sent)
  BY <1>1, FlattenFacts
<1> HIDE DEF got, k, rest, flat
<1>8. flat \o (rbuf \o got) \o rest = flat \o rbuf \o incoming
  <2>1. flat \o (rbuf \o got) \o rest = flat \o ((rbuf \o got) \o rest)
    <3>1. rbuf \o got \in Seq(Sent)
      BY <1>1, <1>4
    <3>2. rest \in Seq(Sent)
      BY <1>5
    <3> DEFINE c == rbuf \o got
    <3> HIDE DEF c
    <3>3. (flat \o c) \o rest = flat \o (c \o rest)
      <4>1. c \in Seq(Sent)
        BY <3>1 DEF c
      <4> QED BY <1>7, <3>2, <4>1, ConcatAssociative, SMTT(30)
    <3> QED BY <3>3 DEF c
  <2>2. (rbuf \o got) \o rest = rbuf \o incoming
    <3>1. rbuf \in Seq(Sent) /\ got \in Seq(Sent) /\ rest \in Seq(Sent)
      BY <1>1, <1>4, <1>5
    <3>2. (rbuf \o got) \o rest = rbuf \o (got \o rest)
      BY <3>1, ConcatAssociative, SMTT(30)
    <3> QED BY <1>5, <3>2
  <2>3. flat \o (rbuf \o incoming) = flat \o rbuf \o incoming
    <3>1. rbuf \in Seq(Sent) /\ incoming \in Seq(Sent)
      BY <1>1
    <3> QED BY <1>7, <3>1, ConcatAssociative, SMTT(30)
  <2> QED BY <2>1, <2>2, <2>3
<1>9. rbuf' \in Seq(Sent)
  BY <1>1, <1>4, <1>6
<1>10. FlattenSeq(lineSeq') \o rbuf' \o incoming' = allSent'
  BY <1>1, <1>2, <1>6, <1>8 DEF flat
<1> QED BY <1>1, <1>2, <1>5, <1>9, <1>10 DEF RecvInv, LinesWhole

(* Each step of the receive buffer keeps its invariant. *)
LEMMA RecvStep == RecvInv /\ RecvNext => RecvInv'
BY TakeTheLineKeeps, RecvBytesKeeps DEF RecvNext

-----------------------------------------------------------------------------
(* The ring buffer *)

(* A ring buffer with room for a elements; it is never full. *)
Ring(q, a) ==
  /\ a \in Nat
  /\ q \in [data : [0..(a - 1) -> Int], begin : Nat, end : Nat]
  /\ (a = 0 /\ q.begin = 0 /\ q.end = 0) \/ (q.begin < a /\ q.end < a)

(* The index of element k counted from begin, and the number of elements *)
Place(q, a, k) == IF q.begin + k >= a THEN q.begin + k - a ELSE q.begin + k
Size(q, a) == IF q.end < q.begin THEN q.end + a - q.begin ELSE q.end - q.begin

(* s is at the front of the ring buffer. *)
AtFront(q, a, s) ==
  /\ s \in Seq(Nat) /\ Len(s) <= Size(q, a)
  /\ \A k \in 0..(Len(s) - 1) : q.data[Place(q, a, k)] = s[k + 1]

(* The operators of the model, for a ring buffer with room for a elements. *)
LEMMA RingFacts ==
  ASSUME NEW q, NEW a, Ring(q, a)
  PROVE  /\ AllocOf(q) = a
         /\ dq_size(q) = Size(q, a)
         /\ \A k : dq_a(q, k) = Place(q, a, k)
<1>1. a \in Nat /\ DOMAIN q.data = 0..(a - 1)
  BY DEF Ring
<1>2. AllocOf(q) = a
  <2>1. Cardinality(0..(a - 1)) = IF 0 > a - 1 THEN 0 ELSE a - 1 - 0 + 1
    BY <1>1, FS_Interval
  <2>2. Cardinality(0..(a - 1)) = a
    BY <1>1, <2>1
  <2> QED BY <1>1, <2>2 DEF AllocOf
<1> QED BY <1>2 DEF dq_size, dq_a, Size, Place

(* Elements have places of their own. *)
LEMMA PlaceFacts ==
  ASSUME NEW q, NEW a, Ring(q, a)
  PROVE  /\ a \in Nat /\ q.begin \in Nat /\ q.end \in Nat
         /\ Size(q, a) \in Nat /\ (a # 0 => Size(q, a) < a) /\ (a = 0 => Size(q, a) = 0)
         /\ \A k \in Nat : k < a => Place(q, a, k) \in 0..(a - 1)
         /\ \A k, j \in Nat : k < a /\ j < a /\ Place(q, a, k) = Place(q, a, j) => k = j
<1>1. a \in Nat /\ q.begin \in Nat /\ q.end \in Nat
  BY DEF Ring
<1>2. Size(q, a) \in Nat /\ (a # 0 => Size(q, a) < a) /\ (a = 0 => Size(q, a) = 0)
  BY <1>1 DEF Ring, Size
<1>3. \A k \in Nat : k < a => Place(q, a, k) \in 0..(a - 1)
  BY <1>1 DEF Ring, Place
<1>4. \A k, j \in Nat : k < a /\ j < a /\ Place(q, a, k) = Place(q, a, j) => k = j
  BY <1>1, SMTT(20) DEF Ring, Place
<1> QED BY <1>1, <1>2, <1>3, <1>4

(* dq_resize keeps the elements and makes more room than it is asked for. *)
LEMMA ResizeKeeps ==
  ASSUME NEW q, NEW a, Ring(q, a), NEW m \in Nat
  PROVE  \E b \in Nat :
           LET r == dq_resize(q, m)
           IN  /\ Ring(r, b) /\ b > m /\ Size(r, b) = Size(q, a)
               /\ (r.end < r.begin <=> q.end < q.begin)
               /\ \A s : AtFront(q, a, s) => AtFront(r, b, s)
<1> DEFINE twice == (a + Grow) * 2
           b == IF twice <= m THEN m + 1 ELSE twice
           wraps == q.end < q.begin
           moved == b - a
           d == [i \in 0..(b - 1) |->
                   IF wraps /\ i >= q.begin + moved THEN q.data[i - moved]
                   ELSE IF i < a /\ ~(wraps /\ i >= q.begin) THEN q.data[i] ELSE Junk]
           r == [data |-> d, begin |-> IF wraps THEN q.begin + moved ELSE q.begin, end |-> q.end]
<1>1. a \in Nat /\ q.begin \in Nat /\ q.end \in Nat /\ Grow \in Nat \ {0}
  BY PlaceFacts, BuffersAssumption
<1>2. twice \in Nat /\ twice > a
  BY <1>1
<1> HIDE DEF twice
<1>3. b \in Nat /\ b > m /\ b > a
  BY <1>1, <1>2
<1>4. dq_resize(q, m) = r
  <2>1. AllocOf(q) = a
    BY RingFacts
  <2> QED BY <2>1 DEF dq_resize, twice
<1> HIDE DEF b
<1>5. /\ (a = 0 /\ q.begin = 0 /\ q.end = 0) \/ (q.begin < a /\ q.end < a)
      /\ q.data \in [0..(a - 1) -> Int]
  BY DEF Ring
<1>6. d \in [0..(b - 1) -> Int]
  <2>1. ASSUME NEW i \in 0..(b - 1)
        PROVE  (IF wraps /\ i >= q.begin + moved THEN q.data[i - moved]
                ELSE IF i < a /\ ~(wraps /\ i >= q.begin) THEN q.data[i] ELSE Junk) \in Int
    <3>1. wraps /\ i >= q.begin + moved => i - moved \in 0..(a - 1)
      BY <1>1, <1>3
    <3>2. i < a => i \in 0..(a - 1)
      BY <1>1, <1>3
    <3>3. Junk \in Int
      BY DEF Junk
    <3> QED BY <1>5, <3>1, <3>2, <3>3
  <2> QED BY <2>1
<1> HIDE DEF d
<1>7. r.data = d /\ r.begin = (IF wraps THEN q.begin + moved ELSE q.begin) /\ r.end = q.end
  OBVIOUS
<1>8. Ring(r, b) /\ Size(r, b) = Size(q, a) /\ (r.end < r.begin <=> wraps)
  <2>1. r \in [data : [0..(b - 1) -> Int], begin : Nat, end : Nat]
    BY <1>1, <1>3, <1>6
  <2> HIDE DEF r
  <2>2. r.begin < b /\ r.end < b /\ (r.end < r.begin <=> wraps)
    BY <1>1, <1>3, <1>5, <1>7
  <2>3. Size(r, b) = Size(q, a)
    BY <1>1, <1>3, <1>5, <1>7, <2>2 DEF Size
  <2> QED BY <1>3, <2>1, <2>2, <2>3 DEF Ring
<1> HIDE DEF r
<1>9. ASSUME NEW s, AtFront(q, a, s) PROVE AtFront(r, b, s)
  <2>1. s \in Seq(Nat) /\ Len(s) <= Size(q, a) /\ \A k \in 0..(Len(s) - 1) : q.data[Place(q, a, k)] = s[k + 1]
    BY <1>9 DEF AtFront
  <2>2. Len(s) \in Nat /\ Len(s) <= Size(r, b)
    BY <1>8, <2>1
  <2>3. ASSUME NEW k \in 0..(Len(s) - 1) PROVE d[Place(r, b, k)] = q.data[Place(q, a, k)]
    <3>1. k \in Nat /\ k < Size(q, a)
      BY <2>1, <2>2, PlaceFacts
    <3>2. CASE wraps /\ q.begin + k >= a
      <4>1. Place(q, a, k) = q.begin + k - a /\ q.begin + k - a < q.end
        BY <1>1, <3>1, <3>2 DEF Place, Size
      <4>2. Place(r, b, k) = q.begin + k - a
        BY <1>1, <1>3, <1>7, <3>1, <3>2 DEF Place
      <4> DEFINE i == q.begin + k - a
      <4>3. i \in Int /\ i >= 0 /\ i < q.end /\ q.end < q.begin /\ q.begin < a
        BY <1>1, <1>5, <3>1, <3>2, <4>1, SMTT(20)
      <4> HIDE DEF i
      <4>4. i \in 0..(b - 1) /\ ~(i >= q.begin + moved) /\ i < a /\ ~(i >= q.begin)
        BY <1>1, <1>3, <4>3
      <4>5. d[i] = q.data[i]
        BY <4>4 DEF d
      <4> QED BY <4>1, <4>2, <4>5 DEF i
    <3>3. CASE wraps /\ ~(q.begin + k >= a)
      <4>1. Place(q, a, k) = q.begin + k
        BY <3>3 DEF Place
      <4> DEFINE i == q.begin + moved + k
      <4>2. Place(r, b, k) = i
        BY <1>1, <1>3, <1>7, <3>1, <3>3 DEF Place
      <4>3. i \in 0..(b - 1) /\ i >= q.begin + moved /\ i - moved = q.begin + k
        <5>1. k \in Nat /\ q.begin + k < a /\ moved \in Nat /\ a + moved = b
          BY <1>1, <1>3, <3>1, <3>3
        <5> HIDE DEF moved
        <5> QED BY <1>1, <1>3, <5>1
      <4> HIDE DEF i
      <4>4. d[i] = q.data[i - moved]
        BY <3>3, <4>3 DEF d
      <4> QED BY <4>1, <4>2, <4>3, <4>4
    <3>4. CASE ~wraps
      <4>1. q.begin + k < a /\ q.begin + k < b
        BY <1>1, <1>3, <1>5, <3>1, <3>4, SMTT(20) DEF Size
      <4>2. Place(q, a, k) = q.begin + k /\ Place(r, b, k) = q.begin + k
        BY <1>1, <1>3, <1>7, <3>1, <3>4, <4>1 DEF Place
      <4>3. q.begin + k \in 0..(b - 1) /\ q.begin + k < a
        BY <1>1, <1>3, <3>1, <4>1
      <4> QED BY <3>4, <4>2, <4>3 DEF d
    <3> QED BY <3>2, <3>3, <3>4
  <2> QED BY <1>7, <2>1, <2>2, <2>3 DEF AtFront
<1>10. /\ Ring(r, b) /\ b > m /\ Size(r, b) = Size(q, a)
       /\ (r.end < r.begin <=> q.end < q.begin)
       /\ \A s : AtFront(q, a, s) => AtFront(r, b, s)
  BY <1>3, <1>8, <1>9
<1> QED BY <1>3, <1>4, <1>10

(* dq_linearize puts elements that wrap around in one piece. *)
LEMMA LinearizeKeeps ==
  ASSUME NEW q, NEW a, Ring(q, a), q.end < q.begin
  PROVE  \E b \in Nat :
           LET l == dq_linearize(q)
           IN  /\ Ring(l, b) /\ Size(l, b) = Size(q, a) /\ l.begin + Size(q, a) < b
               /\ \A s : AtFront(q, a, s) => AtFront(l, b, s)
<1> DEFINE N == Size(q, a)
           r == dq_resize(q, dq_size(q) * 2)
<1>1. a \in Nat /\ q.begin \in Nat /\ q.end \in Nat /\ N \in Nat /\ N > 0
  <2>1. a \in Nat /\ q.begin \in Nat /\ q.end \in Nat /\ N \in Nat
    BY PlaceFacts
  <2>2. N > 0
    BY <2>1 DEF Size, Ring
  <2> QED BY <2>1, <2>2
<1>2. dq_size(q) = N /\ N * 2 \in Nat
  BY <1>1, RingFacts
<1>3. PICK b \in Nat : /\ Ring(r, b) /\ b > N * 2 /\ Size(r, b) = N /\ r.end < r.begin
                       /\ \A s : AtFront(q, a, s) => AtFront(r, b, s)
  <2>1. r = dq_resize(q, N * 2)
    BY <1>2
  <2> HIDE DEF r
  <2> QED BY <1>2, <2>1, ResizeKeeps
<1> HIDE DEF r
<1> DEFINE d == [i \in 0..(b - 1) |->
                   IF i \in r.end..(r.end + N - 1) THEN r.data[Place(r, b, i - r.end)] ELSE Junk]
           l == [data |-> d, begin |-> r.end, end |-> r.end + N]
<1>4. /\ r.begin \in Nat /\ r.end \in Nat /\ r.begin < b /\ r.end < b
      /\ r.data \in [0..(b - 1) -> Int] /\ DOMAIN r.data = 0..(b - 1)
      /\ dq_size(r) = N /\ \A k : dq_a(r, k) = Place(r, b, k)
  <2>1. dq_size(r) = N /\ \A k : dq_a(r, k) = Place(r, b, k)
    BY <1>3, RingFacts
  <2>2. r.begin \in Nat /\ r.end \in Nat /\ r.data \in [0..(b - 1) -> Int] /\ r.begin < b /\ r.end < b
    BY <1>3 DEF Ring
  <2> QED BY <2>1, <2>2
<1>5. r.end + N < b
  <2>1. r.end < N
    BY <1>1, <1>3, <1>4, SMTT(20) DEF Size
  <2> HIDE DEF N
  <2> QED BY <1>1, <1>3, <1>4, <2>1
<1>6. dq_linearize(q) = l
  <2>1. ~(dq_size(q) = 0) /\ ~(q.end > q.begin)
    BY <1>1, <1>2
  <2>2. [i \in DOMAIN r.data |->
           IF i \in r.end..(r.end + dq_size(r) - 1) THEN r.data[dq_a(r, i - r.end)] ELSE Junk] = d
    BY <1>4
  <2>3. l = [data |-> [i \in DOMAIN r.data |->
                         IF i \in r.end..(r.end + dq_size(r) - 1) THEN r.data[dq_a(r, i - r.end)] ELSE Junk],
             begin |-> r.end, end |-> r.end + dq_size(r)]
    BY <1>4, <2>2
  <2> HIDE DEF l
  <2> QED BY <2>1, <2>3 DEF dq_linearize, r
<1>7. \A k \in Nat : k < N => Place(r, b, k) \in 0..(b - 1)
  <2>1. \A k \in Nat : k < b => Place(r, b, k) \in 0..(b - 1)
    BY <1>3, PlaceFacts
  <2> HIDE DEF N
  <2> QED BY <1>1, <1>3, <2>1
<1> HIDE DEF N
<1>8. d \in [0..(b - 1) -> Int]
  <2>1. ASSUME NEW i \in 0..(b - 1)
        PROVE  (IF i \in r.end..(r.end + N - 1) THEN r.data[Place(r, b, i - r.end)] ELSE Junk) \in Int
    <3>1. i \in r.end..(r.end + N - 1) => i - r.end \in Nat /\ i - r.end < N
      BY <1>1, <1>4, SMTT(20)
    <3>2. i \in r.end..(r.end + N - 1) => Place(r, b, i - r.end) \in 0..(b - 1)
      BY <1>7, <3>1
    <3>3. Junk \in Int
      BY DEF Junk
    <3> QED BY <1>4, <3>2, <3>3
  <2> QED BY <2>1
<1> HIDE DEF d
<1>9. l.data = d /\ l.begin = r.end /\ l.end = r.end + N
  OBVIOUS
<1>10. Ring(l, b)
  <2>1. l \in [data : [0..(b - 1) -> Int], begin : Nat, end : Nat]
    BY <1>1, <1>4, <1>8, SMTT(20)
  <2> HIDE DEF l
  <2> QED BY <1>1, <1>4, <1>5, <1>9, <2>1 DEF Ring
<1> HIDE DEF l
<1>11. Size(l, b) = N
  BY <1>1, <1>4, <1>9 DEF Size
<1>12. ASSUME NEW s, AtFront(r, b, s) PROVE AtFront(l, b, s)
  <2>1. s \in Seq(Nat) /\ Len(s) <= N /\ Len(s) \in Nat
        /\ \A k \in 0..(Len(s) - 1) : r.data[Place(r, b, k)] = s[k + 1]
    BY <1>3, <1>12 DEF AtFront
  <2>2. ASSUME NEW k \in 0..(Len(s) - 1) PROVE l.data[Place(l, b, k)] = s[k + 1]
    <3> DEFINE i == r.end + k
    <3>1. Place(l, b, k) = i
      BY <1>1, <1>4, <1>5, <1>9, <2>1 DEF Place
    <3>2. i \in 0..(b - 1) /\ i \in r.end..(r.end + N - 1) /\ i - r.end = k
      <4>1. k \in Nat /\ k < N
        BY <1>1, <2>1
      <4>2. r.end \in Nat /\ N \in Nat
        BY <1>1, <1>4
      <4> DEFINE e == r.end
      <4>3. e \in Nat /\ e + N < b
        BY <1>5, <4>2
      <4> HIDE DEF e
      <4>4. e + k \in 0..(b - 1) /\ e + k \in e..(e + N - 1) /\ e + k - e = k
        BY <4>1, <4>2, <4>3
      <4> QED BY <4>2, <4>4 DEF e
    <3> HIDE DEF i
    <3>3. d[i] = r.data[Place(r, b, i - r.end)]
      BY <3>2 DEF d
    <3> QED BY <1>9, <2>1, <3>1, <3>2, <3>3
  <2> QED BY <1>11, <2>1, <2>2 DEF AtFront
<1>13. /\ Ring(l, b) /\ Size(l, b) = N /\ l.begin + N < b
       /\ \A s : AtFront(q, a, s) => AtFront(l, b, s)
  BY <1>3, <1>5, <1>9, <1>10, <1>11, <1>12
<1> QED BY <1>6, <1>13 DEF N

(* The n places behind the first z elements are the last, and in one piece. *)
OnePiece(p, b, z, n) ==
  /\ Size(p, b) = z + n
  /\ Place(p, b, z) \in Nat /\ Place(p, b, z) + n <= b
  /\ \A j \in 0..(n - 1) : Place(p, b, z + j) = Place(p, b, z) + j

(* What is in front of q, a ring buffer with room for a elements, is in front of
   p, too. *)
Follows(q, a, p, b) == \A s : AtFront(q, a, s) => AtFront(p, b, s)

(* What dq_push_back makes of a ring buffer q: its elements stay in front, and the
   n places behind them are in one piece. *)
Opened(q, a, p, n) ==
  \E b \in Nat : Ring(p, b) /\ OnePiece(p, b, Size(q, a), n) /\ Follows(q, a, p, b)

(* A ring buffer with room is empty from index 0, or as it was. *)
LEMMA EmptyAtStart ==
  ASSUME NEW q, NEW a, Ring(q, a)
  PROVE  LET p == IF dq_size(q) = 0 THEN [q EXCEPT !.begin = 0, !.end = 0] ELSE q
         IN  /\ Ring(p, a) /\ Size(p, a) = Size(q, a)
             /\ \A s : AtFront(q, a, s) => AtFront(p, a, s)
<1>1. dq_size(q) = Size(q, a)
  BY RingFacts
<1>2. CASE Size(q, a) = 0
  <2> DEFINE p == [q EXCEPT !.begin = 0, !.end = 0]
  <2>1. a \in Nat /\ q \in [data : [0..(a - 1) -> Int], begin : Nat, end : Nat]
    BY DEF Ring
  <2>2. /\ p \in [data : [0..(a - 1) -> Int], begin : Nat, end : Nat] /\ p.begin = 0 /\ p.end = 0
        /\ p.data = q.data
    BY <2>1
  <2> HIDE DEF p
  <2>3. Ring(p, a) /\ Size(p, a) = 0
    BY <2>1, <2>2 DEF Ring, Size
  <2>4. ASSUME NEW s, AtFront(q, a, s) PROVE AtFront(p, a, s)
    <3>1. s \in Seq(Nat) /\ Len(s) <= 0 /\ Len(s) \in Nat
      BY <1>2, <2>4 DEF AtFront
    <3>2. Len(s) = 0
      BY <3>1
    <3>3. 0..(Len(s) - 1) = {}
      BY <3>2
    <3> QED BY <2>3, <3>1, <3>3 DEF AtFront
  <2> QED BY <1>1, <1>2, <2>3, <2>4 DEF p
<1>3. CASE Size(q, a) # 0
  BY <1>1, <1>3
<1> QED BY <1>2, <1>3

(* The end moves by n where there is room for n more. *)
LEMMA EndMoves ==
  ASSUME NEW q, NEW b, Ring(q, b), NEW n \in Nat \ {0}, Size(q, b) + n < b,
         NEW p, p = [q EXCEPT !.end = IF q.end + n >= AllocOf(q)
                                      THEN q.end + n - AllocOf(q) ELSE q.end + n]
  PROVE  /\ Ring(p, b) /\ Size(p, b) = Size(q, b) + n
         /\ \A s : AtFront(q, b, s) => AtFront(p, b, s)
<1> DEFINE e == IF q.end + n >= b THEN q.end + n - b ELSE q.end + n
           N == Size(q, b)
<1>1. /\ b \in Nat /\ q.begin \in Nat /\ q.end \in Nat /\ N \in Nat
      /\ q \in [data : [0..(b - 1) -> Int], begin : Nat, end : Nat]
  BY PlaceFacts DEF Ring
<1>2. q.begin < b /\ q.end < b
  BY <1>1 DEF Ring
<1>3. /\ e \in Nat /\ e < b
      /\ N + n = (IF e < q.begin THEN e + b - q.begin ELSE e - q.begin)
      /\ e = (IF q.begin + (N + n) >= b THEN q.begin + (N + n) - b ELSE q.begin + (N + n))
  <2> DEFINE g == q.begin
             h == q.end
  <2>1. /\ b \in Nat /\ g \in Nat /\ h \in Nat /\ N \in Nat /\ g < b /\ h < b
        /\ N = (IF h < g THEN h + b - g ELSE h - g) /\ N + n < b
        /\ e = (IF h + n >= b THEN h + n - b ELSE h + n)
    BY <1>1, <1>2 DEF Size
  <2> HIDE DEF g, h, N, e
  <2>2. e \in Nat /\ e < b
    BY <2>1
  <2>3. N + n = (IF e < g THEN e + b - g ELSE e - g)
    BY <2>1
  <2>4. e = (IF g + (N + n) >= b THEN g + (N + n) - b ELSE g + (N + n))
    BY <2>1
  <2> QED BY <2>2, <2>3, <2>4 DEF g
<1>4. /\ N + n = (IF e < q.begin THEN e + b - q.begin ELSE e - q.begin)
      /\ e = (IF q.begin + (N + n) >= b THEN q.begin + (N + n) - b ELSE q.begin + (N + n))
  BY <1>3
<1> HIDE DEF e, N
<1>0. p = [q EXCEPT !.end = e]
  <2> DEFINE x == IF q.end + n >= AllocOf(q) THEN q.end + n - AllocOf(q) ELSE q.end + n
  <2>1. p = [q EXCEPT !.end = x]
    OBVIOUS
  <2>2. x = e
    BY RingFacts DEF e
  <2> HIDE DEF x
  <2> QED BY <2>1, <2>2
<1>5. /\ p \in [data : [0..(b - 1) -> Int], begin : Nat, end : Nat]
      /\ p.begin = q.begin /\ p.end = e /\ p.data = q.data
  BY <1>0, <1>1, <1>3
<1>6. Ring(p, b)
  BY <1>1, <1>2, <1>3, <1>5 DEF Ring
<1>7. Size(p, b) = N + n
  BY <1>4, <1>5 DEF Size
<1>8. ASSUME NEW s, AtFront(q, b, s) PROVE AtFront(p, b, s)
  <2>1. \A k : Place(p, b, k) = Place(q, b, k)
    BY <1>5 DEF Place
  <2>2. s \in Seq(Nat) /\ Len(s) <= N /\ Len(s) \in Nat
        /\ \A k \in 0..(Len(s) - 1) : q.data[Place(q, b, k)] = s[k + 1]
    BY <1>8 DEF AtFront, N
  <2>3. Len(s) <= Size(p, b)
    BY <1>1, <1>7, <2>2
  <2> QED BY <1>5, <2>1, <2>2, <2>3 DEF AtFront
<1> QED BY <1>6, <1>7, <1>8 DEF N

(* The end of dq_push_back. *)
LEMMA PushedOpens ==
  ASSUME NEW p, NEW b, Ring(p, b), NEW z \in Nat, NEW n \in Nat \ {0}, Size(p, b) = z + n
  PROVE  \E c \in Nat : /\ Ring(pushed(p, z, n), c) /\ OnePiece(pushed(p, z, n), c, z, n)
                        /\ Follows(p, b, pushed(p, z, n), c)
<1>1. /\ b \in Nat /\ p.begin \in Nat /\ p.end \in Nat /\ p.begin < b /\ p.end < b /\ z + n < b
  <2>1. /\ b \in Nat /\ p.begin \in Nat /\ p.end \in Nat /\ (b # 0 => z + n < b) /\ (b = 0 => z + n = 0)
    BY PlaceFacts
  <2>2. b # 0
    BY <2>1
  <2> QED BY <2>1, <2>2 DEF Ring
<1>2. dq_a(p, z) = Place(p, b, z) /\ dq_a(p, z + n) = Place(p, b, z + n)
  BY RingFacts
<1>3. CASE Place(p, b, z) > Place(p, b, z + n)
  <2> DEFINE l == dq_linearize(p)
  <2>1. pushed(p, z, n) = l
    BY <1>2, <1>3 DEF pushed
  <2>2. p.end < p.begin
    <3>1. p.begin + (z + n) >= b
      BY <1>1, <1>3 DEF Place
    <3> QED BY <1>1, <3>1 DEF Size
  <2>3. PICK c \in Nat : /\ Ring(l, c) /\ Size(l, c) = z + n /\ l.begin + (z + n) < c
                         /\ \A s : AtFront(p, b, s) => AtFront(l, c, s)
    BY <2>2, LinearizeKeeps
  <2> HIDE DEF l
  <2>4. l.begin \in Nat
    BY <2>3, PlaceFacts
  <2>5. Place(l, c, z) = l.begin + z
    BY <2>3, <2>4 DEF Place
  <2>6. ASSUME NEW j \in 0..(n - 1) PROVE Place(l, c, z + j) = l.begin + z + j
    <3>1. l.begin + (z + j) < c /\ l.begin + (z + j) = l.begin + z + j /\ l.begin + (z + j) \in Nat
      BY <2>3, <2>4
    <3> QED BY <3>1 DEF Place
  <2>7. l.begin + z \in Nat /\ l.begin + z + n <= c
    BY <2>3, <2>4
  <2>8. Ring(l, c) /\ OnePiece(l, c, z, n) /\ Follows(p, b, l, c)
    BY <2>3, <2>5, <2>6, <2>7 DEF OnePiece, Follows
  <2> QED BY <2>1, <2>8
<1>4. CASE ~(Place(p, b, z) > Place(p, b, z + n))
  <2>1. pushed(p, z, n) = p
    BY <1>2, <1>4 DEF pushed
  <2> DEFINE g == p.begin
  <2>2. g \in Nat /\ g < b
    BY <1>1
  <2>3. ~((IF g + z >= b THEN g + z - b ELSE g + z) > (IF g + (z + n) >= b THEN g + (z + n) - b ELSE g + (z + n)))
    BY <1>4 DEF Place
  <2> HIDE DEF g
  <2>4. (g + z < b /\ g + z + n < b) \/ (g + z >= b /\ g + z - b + n < b)
    BY <1>1, <2>2, <2>3
  <2> DEFINE first == IF g + z >= b THEN g + z - b ELSE g + z
  <2>5. Place(p, b, z) = first
    BY DEF Place, g
  <2>6. first \in Nat /\ first + n <= b
    BY <1>1, <2>2, <2>4
  <2>7. ASSUME NEW j \in 0..(n - 1) PROVE Place(p, b, z + j) = first + j
    <3>1. (IF g + (z + j) >= b THEN g + (z + j) - b ELSE g + (z + j)) = first + j
      BY <1>1, <2>2, <2>4
    <3> QED BY <3>1 DEF Place, g
  <2> HIDE DEF first
  <2>8. Ring(p, b) /\ OnePiece(p, b, z, n) /\ Follows(p, b, p, b)
    BY <2>5, <2>6, <2>7 DEF OnePiece, Follows
  <2> QED BY <1>1, <2>1, <2>8
<1> QED BY <1>3, <1>4

(* dq_push_back makes room, moves the end, and puts the block in one piece. *)
LEMMA PushOpens ==
  ASSUME NEW q, NEW a, Ring(q, a), NEW n \in Nat \ {0}
  PROVE  Opened(q, a, dq_push_back(q, n), n)
<1> DEFINE z == dq_size(q)
           room == IF z + n >= AllocOf(q) - 1 THEN dq_resize(q, z + n) ELSE q
           start == IF dq_size(room) = 0 THEN [room EXCEPT !.begin = 0, !.end = 0] ELSE room
           p == [start EXCEPT !.end = IF start.end + n >= AllocOf(start)
                                      THEN start.end + n - AllocOf(start) ELSE start.end + n]
<1>0. dq_push_back(q, n) = pushed(p, z, n)
  BY DEF dq_push_back
<1>1. z = Size(q, a) /\ AllocOf(q) = a /\ a \in Nat /\ z \in Nat
  BY RingFacts, PlaceFacts
<1> HIDE DEF z
<1>2. PICK b \in Nat : /\ Ring(room, b) /\ Size(room, b) = z /\ z + n < b
                       /\ \A s : AtFront(q, a, s) => AtFront(room, b, s)
  <2>1. CASE z + n >= AllocOf(q) - 1
    <3>1. room = dq_resize(q, z + n) /\ z + n \in Nat
      BY <1>1, <2>1
    <3> HIDE DEF room
    <3>2. \E b \in Nat : /\ Ring(room, b) /\ b > z + n /\ Size(room, b) = Size(q, a)
                         /\ \A s : AtFront(q, a, s) => AtFront(room, b, s)
      BY <3>1, ResizeKeeps
    <3> QED BY <1>1, <3>2
  <2>2. CASE ~(z + n >= AllocOf(q) - 1)
    <3>1. room = q
      BY <2>2
    <3> HIDE DEF room
    <3> QED BY <1>1, <2>2, <3>1
  <2> QED BY <2>1, <2>2
<1> HIDE DEF room
<1>3. /\ Ring(start, b) /\ Size(start, b) = z
      /\ \A s : AtFront(room, b, s) => AtFront(start, b, s)
  BY <1>2, EmptyAtStart
<1> HIDE DEF start
<1>4. AllocOf(start) = b
  BY <1>3, RingFacts
<1>5. /\ Ring(p, b) /\ Size(p, b) = z + n
      /\ \A s : AtFront(start, b, s) => AtFront(p, b, s)
  <2>2. Size(start, b) + n < b
    BY <1>2, <1>3
  <2> QED BY <1>3, <2>2, EndMoves
<1> HIDE DEF p
<1> DEFINE l == pushed(p, z, n)
<1>6. PICK c \in Nat : Ring(l, c) /\ OnePiece(l, c, z, n) /\ Follows(p, b, l, c)
  BY <1>1, <1>5, PushedOpens
<1> HIDE DEF l
<1>7. Follows(q, a, l, c)
  BY <1>2, <1>3, <1>5, <1>6 DEF Follows
<1>8. Opened(q, a, l, n)
  BY <1>1, <1>6, <1>7 DEF Opened
<1> QED BY <1>0, <1>8 DEF l

(* The whole of the ring buffer *)
Queues(q, a, s) == Ring(q, a) /\ AtFront(q, a, s) /\ Len(s) = Size(q, a)

(* The n places from first are filled. *)
Filled(p, first, n, new) ==
  [p EXCEPT !.data = [i \in DOMAIN p.data |->
                        IF i \in first..(first + n - 1) THEN new[i - first + 1] ELSE p.data[i]]]

(* A block that is filled is behind what was there. *)
LEMMA FillBehind ==
  ASSUME NEW q, NEW a, NEW s, Queues(q, a, s), NEW n \in Nat \ {0}, NEW p, Opened(q, a, p, n),
         NEW new \in Seq(Nat), Len(new) = n,
         NEW first, first = dq_a(p, dq_size(q)),
         NEW r, r = Filled(p, first, n, new)
  PROVE  first + n <= AllocOf(p) /\ \E b \in Nat : Queues(r, b, s \o new)
<1> DEFINE z == Len(s)
<1>1. Ring(q, a) /\ AtFront(q, a, s) /\ Size(q, a) = z /\ s \in Seq(Nat) /\ z \in Nat /\ dq_size(q) = z
  BY RingFacts DEF Queues, AtFront
<1>2. PICK b \in Nat :
        /\ Ring(p, b) /\ Size(p, b) = z + n /\ Place(p, b, z) \in Nat /\ Place(p, b, z) + n <= b
        /\ \A j \in 0..(n - 1) : Place(p, b, z + j) = Place(p, b, z) + j
        /\ AtFront(p, b, s)
  BY <1>1 DEF Opened, OnePiece, Follows
<1>3. AllocOf(p) = b /\ first = Place(p, b, z)
  BY <1>1, <1>2, RingFacts
<1>4. first \in Nat /\ first + n <= b /\ \A j \in 0..(n - 1) : Place(p, b, z + j) = first + j
  BY <1>2, <1>3
<1>5. p \in [data : [0..(b - 1) -> Int], begin : Nat, end : Nat] /\ DOMAIN p.data = 0..(b - 1)
  BY <1>2 DEF Ring
<1> DEFINE d == [i \in 0..(b - 1) |-> IF i \in first..(first + n - 1) THEN new[i - first + 1] ELSE p.data[i]]
<1>6. r = [p EXCEPT !.data = d]
  BY <1>5 DEF Filled
<1>7. d \in [0..(b - 1) -> Int]
  <2>1. ASSUME NEW i \in 0..(b - 1)
        PROVE  (IF i \in first..(first + n - 1) THEN new[i - first + 1] ELSE p.data[i]) \in Int
    <3>1. i \in first..(first + n - 1) => i - first + 1 \in 1..Len(new)
      BY <1>4
    <3>2. i \in first..(first + n - 1) => new[i - first + 1] \in Nat
      BY <3>1
    <3>3. p.data[i] \in Int
      BY <1>5
    <3> QED BY <3>2, <3>3
  <2> QED BY <2>1
<1> HIDE DEF d
<1>8. /\ r \in [data : [0..(b - 1) -> Int], begin : Nat, end : Nat]
      /\ r.data = d /\ r.begin = p.begin /\ r.end = p.end
  BY <1>5, <1>6, <1>7
<1>9. Ring(r, b) /\ Size(r, b) = z + n /\ \A k : Place(r, b, k) = Place(p, b, k)
  BY <1>2, <1>8 DEF Ring, Size, Place
<1> DEFINE t == s \o new
<1>10. /\ t \in Seq(Nat) /\ Len(t) = z + n
       /\ \A i \in 1..(z + n) : t[i] = IF i <= z THEN s[i] ELSE new[i - z]
  BY <1>1, JoinPlaces
<1> HIDE DEF t
<1>11. ASSUME NEW k \in 0..(z + n - 1) PROVE d[Place(p, b, k)] = t[k + 1]
  <2>0. /\ \A j \in Nat : j < b => Place(p, b, j) \in 0..(b - 1)
        /\ \A i, j \in Nat : i < b /\ j < b /\ Place(p, b, i) = Place(p, b, j) => i = j
        /\ z + n < b
    <3>1. /\ (b # 0 => Size(p, b) < b) /\ (b = 0 => Size(p, b) = 0)
          /\ \A j \in Nat : j < b => Place(p, b, j) \in 0..(b - 1)
          /\ \A i, j \in Nat : i < b /\ j < b /\ Place(p, b, i) = Place(p, b, j) => i = j
      BY <1>2, PlaceFacts
    <3>2. z + n < b
      BY <1>1, <1>2, <3>1
    <3> QED BY <3>1, <3>2
  <2>1. k \in Nat /\ k < b
    BY <1>1, <2>0
  <2>2. CASE k < z
    <3>1. Place(p, b, k) \in 0..(b - 1)
      BY <2>0, <2>1
    <3>2. ASSUME Place(p, b, k) \in first..(first + n - 1) PROVE FALSE
      <4> DEFINE j == Place(p, b, k) - first
      <4>1. j \in 0..(n - 1) /\ first + j = Place(p, b, k)
        BY <1>4, <3>1, <3>2, SMTT(20)
      <4> HIDE DEF j
      <4>2. Place(p, b, z + j) = Place(p, b, k)
        BY <1>4, <4>1
      <4>3. z + j \in Nat /\ z + j < b /\ z + j # k
        <5>1. z \in Nat /\ z + n < b /\ j \in 0..(n - 1)
          BY <1>1, <2>0, <4>1
        <5> HIDE DEF z
        <5> QED BY <2>1, <2>2, <5>1
      <4> QED BY <2>0, <2>1, <4>2, <4>3
    <3>3. d[Place(p, b, k)] = p.data[Place(p, b, k)]
      BY <3>1, <3>2 DEF d
    <3>4. p.data[Place(p, b, k)] = s[k + 1]
      <4>1. k \in 0..(z - 1)
        BY <1>1, <2>1, <2>2
      <4> QED BY <1>2, <4>1 DEF AtFront
    <3>5. t[k + 1] = s[k + 1]
      <4>1. k + 1 \in 1..(z + n) /\ k + 1 <= z
        BY <1>1, <2>1, <2>2
      <4> HIDE DEF z
      <4> QED BY <1>10, <4>1
    <3> QED BY <3>3, <3>4, <3>5
  <2>3. CASE ~(k < z)
    <3> DEFINE j == k - z
    <3>1. j \in 0..(n - 1) /\ k = z + j
      BY <1>1, <2>1, <2>3
    <3> HIDE DEF j, z
    <3>2. Place(p, b, k) = first + j
      BY <1>4, <3>1
    <3> DEFINE i == first + j
    <3>3. i \in 0..(b - 1) /\ i \in first..(first + n - 1) /\ i - first + 1 = j + 1
      BY <1>4, <3>1, SMTT(20)
    <3> HIDE DEF i
    <3>4. d[i] = new[i - first + 1]
      BY <3>3 DEF d
    <3>5. d[i] = new[j + 1]
      BY <3>3, <3>4
    <3> DEFINE y == k + 1
    <3>6. y \in 1..(z + n) /\ ~(y <= z) /\ y - z = j + 1
      BY <1>1, <2>1, <2>3, <3>1
    <3> HIDE DEF y
    <3>7. t[y] = new[y - z]
      BY <1>10, <3>6 DEF z
    <3>8. t[y] = new[j + 1]
      BY <3>6, <3>7
    <3> QED BY <3>2, <3>5, <3>8 DEF i, y
  <2> QED BY <2>2, <2>3
<1>12. AtFront(r, b, t)
  <2>1. Len(t) <= Size(r, b)
    BY <1>1, <1>9, <1>10
  <2>2. \A k \in 0..(Len(t) - 1) : r.data[Place(r, b, k)] = t[k + 1]
    <3> TAKE k \in 0..(Len(t) - 1)
    <3>1. k \in 0..(z + n - 1)
      BY <1>10
    <3>2. Place(r, b, k) = Place(p, b, k)
      BY <1>9
    <3> QED BY <1>8, <1>11, <3>1, <3>2
  <2> QED BY <1>10, <2>1, <2>2 DEF AtFront
<1>13. Queues(r, b, t)
  BY <1>9, <1>10, <1>12 DEF Queues
<1> QED BY <1>3, <1>4, <1>13 DEF t

(* What is forgotten when elements are popped is none of those that are left. *)
LEMMA KeptKeeps ==
  ASSUME NEW q, NEW a, NEW s, Queues(q, a, s)
  PROVE  Queues(Kept(q), a, s)
<1>1. Ring(q, a) /\ AtFront(q, a, s) /\ Len(s) = Size(q, a) /\ s \in Seq(Nat) /\ Len(s) \in Nat
  BY DEF Queues, AtFront
<1>2. a \in Nat /\ q \in [data : [0..(a - 1) -> Int], begin : Nat, end : Nat] /\ DOMAIN q.data = 0..(a - 1)
  BY <1>1 DEF Ring
<1>3. dq_size(q) = Size(q, a) /\ \A k : dq_a(q, k) = Place(q, a, k)
  BY <1>1, RingFacts
<1> DEFINE d == [i \in 0..(a - 1) |->
                   IF \E k \in 0..(dq_size(q) - 1) : dq_a(q, k) = i THEN q.data[i] ELSE Junk]
           r == [q EXCEPT !.data = d]
<1>4. Kept(q) = r
  BY <1>2 DEF Kept
<1>5. d \in [0..(a - 1) -> Int]
  <2>1. \A i \in 0..(a - 1) : q.data[i] \in Int
    BY <1>2
  <2> QED BY <2>1 DEF Junk
<1>6. \A k \in 0..(Len(s) - 1) : d[Place(q, a, k)] = q.data[Place(q, a, k)]
  <2> TAKE k \in 0..(Len(s) - 1)
  <2>1. Place(q, a, k) \in 0..(a - 1)
    <3>1. /\ (a # 0 => Size(q, a) < a) /\ (a = 0 => Size(q, a) = 0)
          /\ \A j \in Nat : j < a => Place(q, a, j) \in 0..(a - 1)
      BY <1>1, PlaceFacts
    <3>2. k \in Nat /\ k < a
      BY <1>1, <1>2, <3>1
    <3> QED BY <3>1, <3>2
  <2>2. \E j \in 0..(dq_size(q) - 1) : dq_a(q, j) = Place(q, a, k)
    BY <1>1, <1>3
  <2> QED BY <2>1, <2>2
<1> HIDE DEF d
<1>7. /\ r \in [data : [0..(a - 1) -> Int], begin : Nat, end : Nat]
      /\ r.data = d /\ r.begin = q.begin /\ r.end = q.end
  BY <1>2, <1>5
<1> HIDE DEF r
<1>8. Ring(r, a) /\ Size(r, a) = Size(q, a) /\ \A k : Place(r, a, k) = Place(q, a, k)
  BY <1>1, <1>7 DEF Ring, Size, Place
<1>9. AtFront(r, a, s)
  <2>1. \A k \in 0..(Len(s) - 1) : q.data[Place(q, a, k)] = s[k + 1]
    BY <1>1 DEF AtFront
  <2>2. Len(s) <= Size(r, a)
    BY <1>1, <1>8
  <2> QED BY <1>1, <1>6, <1>7, <1>8, <2>1, <2>2 DEF AtFront
<1> QED BY <1>1, <1>4, <1>8, <1>9 DEF Queues

(* A ring buffer of m elements, from u to e, with n fewer in front: g is the new
   beginning. *)
MovedUp(a, u, e, m, n, g) ==
  /\ g \in Nat /\ g < a
  /\ m - n = (IF e < g THEN e + a - g ELSE e - g)
  /\ \A k \in 0..(m - n - 1) :
       (IF g + k >= a THEN g + k - a ELSE g + k)
       = (IF u + (k + n) >= a THEN u + (k + n) - a ELSE u + (k + n))

(* The elements that are left are at the places that they had. *)
LEMMA PlacesMoveUp ==
  ASSUME NEW a \in Nat, NEW u \in Nat, NEW e \in Nat, NEW m \in Nat, NEW n \in Nat,
         u < a, e < a, m < a, 1 <= n, n <= m,
         m = (IF e < u THEN e + a - u ELSE e - u),
         NEW g, g = (IF u + n >= a THEN u + n - a ELSE u + n)
  PROVE  MovedUp(a, u, e, m, n, g)
<1>1. g \in Nat /\ g < a
  OBVIOUS
<1>2. m - n = (IF e < g THEN e + a - g ELSE e - g)
  OBVIOUS
<1>3. ASSUME NEW k \in 0..(m - n - 1)
      PROVE  (IF g + k >= a THEN g + k - a ELSE g + k)
             = (IF u + (k + n) >= a THEN u + (k + n) - a ELSE u + (k + n))
  <2>1. k \in Nat /\ k + n < m
    OBVIOUS
  <2> QED BY <1>1, <2>1
<1> QED BY <1>1, <1>2, <1>3 DEF MovedUp

(* The same with n fewer at the end: e is the new end. *)
MovedBack(a, u, m, n, e) ==
  e \in Nat /\ e < a /\ m - n = (IF e < u THEN e + a - u ELSE e - u)

(* The end stays inside the buffer, and n elements fewer are left. *)
LEMMA EndMovesBack ==
  ASSUME NEW a \in Nat, NEW u \in Nat, NEW h \in Nat, NEW m \in Nat, NEW n \in Nat,
         u < a, h < a, m < a, 1 <= n, n <= m,
         m = (IF h < u THEN h + a - u ELSE h - u),
         NEW e, e = (IF h < n THEN h + a - n ELSE h - n)
  PROVE  MovedBack(a, u, m, n, e)
BY DEF MovedBack

(* dq_pop_front: the others move up. *)
LEMMA FrontPopped ==
  ASSUME NEW q, NEW a, NEW s, Queues(q, a, s), NEW n \in 1..Len(s),
         NEW g, g = (IF q.begin + n >= a THEN q.begin + n - a ELSE q.begin + n)
  PROVE  Queues([q EXCEPT !.begin = g], a, SubSeq(s, n + 1, Len(s)))
<1> DEFINE m == Len(s)
           p == [q EXCEPT !.begin = g]
           t == SubSeq(s, n + 1, m)
<1>1. Ring(q, a) /\ AtFront(q, a, s) /\ m = Size(q, a) /\ s \in Seq(Nat) /\ m \in Nat
  BY DEF Queues, AtFront
<1>2. a \in Nat /\ q \in [data : [0..(a - 1) -> Int], begin : Nat, end : Nat]
  BY <1>1 DEF Ring
<1>3. q.begin < a /\ q.end < a /\ m < a
  <2>1. (a # 0 => m < a) /\ (a = 0 => m = 0)
    BY <1>1, PlaceFacts
  <2> QED BY <1>1, <1>2, <2>1 DEF Ring
<1>4. /\ g \in Nat /\ g < a
      /\ m - n = (IF q.end < g THEN q.end + a - g ELSE q.end - g)
      /\ \A k \in 0..(m - n - 1) : (IF g + k >= a THEN g + k - a ELSE g + k)
                                   = (IF q.begin + (k + n) >= a THEN q.begin + (k + n) - a ELSE q.begin + (k + n))
  <2> DEFINE u == q.begin
             e == q.end
  <2>1. /\ u \in Nat /\ e \in Nat /\ u < a /\ e < a /\ m < a /\ m \in Nat /\ n \in 1..m
        /\ m = (IF e < u THEN e + a - u ELSE e - u)
        /\ g = (IF u + n >= a THEN u + n - a ELSE u + n)
    BY <1>1, <1>2, <1>3 DEF Size
  <2> HIDE DEF u, e, m
  <2>2. n \in Nat /\ 1 <= n /\ n <= m
    BY <2>1
  <2>3. MovedUp(a, u, e, m, n, g)
    BY <1>2, <2>1, <2>2, PlacesMoveUp
  <2> QED BY <2>3 DEF MovedUp, u, e
<1>5. /\ p \in [data : [0..(a - 1) -> Int], begin : Nat, end : Nat]
      /\ p.data = q.data /\ p.begin = g /\ p.end = q.end
  BY <1>2, <1>4
<1> HIDE DEF p
<1>6. Ring(p, a) /\ Size(p, a) = m - n
  BY <1>2, <1>3, <1>4, <1>5 DEF Ring, Size
<1>7. \A k \in 0..(m - n - 1) : Place(p, a, k) = Place(q, a, k + n)
  BY <1>4, <1>5 DEF Place
<1>8. /\ t \in Seq(Nat) /\ Len(t) = m - n
      /\ \A i \in 1..(m - n) : t[i] = s[i + n]
  <2>1. n \in 1..m /\ m - n \in Nat
    BY <1>1
  <2>2. t \in Seq(Nat) /\ Len(t) = m - n
    BY <1>1, <2>1
  <2>3. \A i \in 1..(m - n) : t[i] = s[n + 1 + i - 1] /\ n + 1 + i - 1 = i + n
    BY <1>1, <2>1
  <2> HIDE DEF t
  <2> QED BY <2>2, <2>3
<1> HIDE DEF t
<1>9. \A k \in 0..(Len(t) - 1) : p.data[Place(p, a, k)] = t[k + 1]
  <2> TAKE k \in 0..(Len(t) - 1)
  <2>1. k \in 0..(m - n - 1) /\ k + n \in 0..(m - 1) /\ k + 1 \in 1..(m - n) /\ k + n + 1 = k + 1 + n
    <3>1. m \in Nat /\ n \in 1..m /\ k \in 0..(m - n - 1)
      BY <1>1, <1>8
    <3> HIDE DEF m
    <3> QED BY <3>1
  <2>2. p.data[Place(p, a, k)] = q.data[Place(q, a, k + n)]
    BY <1>5, <1>7, <2>1
  <2>3. q.data[Place(q, a, k + n)] = s[k + n + 1]
    BY <1>1, <2>1 DEF AtFront
  <2>4. t[k + 1] = s[k + 1 + n]
    BY <1>8, <2>1
  <2> QED BY <2>1, <2>2, <2>3, <2>4
<1>10. AtFront(p, a, t)
  <2>1. Len(t) <= Size(p, a)
    BY <1>1, <1>6, <1>8
  <2> QED BY <1>8, <1>9, <2>1 DEF AtFront
<1>11. Queues(p, a, t)
  BY <1>6, <1>8, <1>10 DEF Queues
<1> QED BY <1>11 DEF p, t

(* dq_pop_back: the others stay. *)
LEMMA BackPopped ==
  ASSUME NEW q, NEW a, NEW s, Queues(q, a, s), NEW n \in 1..Len(s),
         NEW e, e = (IF q.end < n THEN q.end + a - n ELSE q.end - n)
  PROVE  Queues([q EXCEPT !.end = e], a, SubSeq(s, 1, Len(s) - n))
<1> DEFINE m == Len(s)
           p == [q EXCEPT !.end = e]
           t == SubSeq(s, 1, m - n)
<1>1. Ring(q, a) /\ AtFront(q, a, s) /\ m = Size(q, a) /\ s \in Seq(Nat) /\ m \in Nat
  BY DEF Queues, AtFront
<1>2. a \in Nat /\ q \in [data : [0..(a - 1) -> Int], begin : Nat, end : Nat]
  BY <1>1 DEF Ring
<1>3. q.begin < a /\ q.end < a /\ m < a
  <2>1. (a # 0 => m < a) /\ (a = 0 => m = 0)
    BY <1>1, PlaceFacts
  <2> QED BY <1>1, <1>2, <2>1 DEF Ring
<1>4. /\ e \in Nat /\ e < a
      /\ m - n = (IF e < q.begin THEN e + a - q.begin ELSE e - q.begin)
  <2> DEFINE u == q.begin
             h == q.end
  <2>1. /\ u \in Nat /\ h \in Nat /\ u < a /\ h < a /\ m < a /\ m \in Nat /\ n \in 1..m
        /\ m = (IF h < u THEN h + a - u ELSE h - u)
        /\ e = (IF h < n THEN h + a - n ELSE h - n)
    BY <1>1, <1>2, <1>3 DEF Size
  <2> HIDE DEF u, h, m
  <2>2. n \in Nat /\ 1 <= n /\ n <= m
    BY <2>1
  <2>3. MovedBack(a, u, m, n, e)
    BY <1>2, <2>1, <2>2, EndMovesBack
  <2> QED BY <2>3 DEF MovedBack, u
<1>5. /\ p \in [data : [0..(a - 1) -> Int], begin : Nat, end : Nat]
      /\ p.data = q.data /\ p.begin = q.begin /\ p.end = e
  BY <1>2, <1>4
<1> HIDE DEF p
<1>6. Ring(p, a) /\ Size(p, a) = m - n
  BY <1>2, <1>3, <1>4, <1>5 DEF Ring, Size
<1>7. \A k : Place(p, a, k) = Place(q, a, k)
  BY <1>5 DEF Place
<1>8. /\ t \in Seq(Nat) /\ Len(t) = m - n
      /\ \A i \in 1..(m - n) : t[i] = s[i]
  BY <1>1
<1> HIDE DEF t
<1>9. \A k \in 0..(Len(t) - 1) : p.data[Place(p, a, k)] = t[k + 1]
  <2> TAKE k \in 0..(Len(t) - 1)
  <2>1. k \in 0..(m - 1) /\ k + 1 \in 1..(m - n)
    BY <1>1, <1>8
  <2>2. q.data[Place(q, a, k)] = s[k + 1]
    BY <1>1, <2>1 DEF AtFront
  <2> QED BY <1>5, <1>7, <1>8, <2>1, <2>2
<1>10. AtFront(p, a, t)
  <2>1. Len(t) <= Size(p, a)
    BY <1>1, <1>6, <1>8
  <2> QED BY <1>8, <1>9, <2>1 DEF AtFront
<1>11. Queues(p, a, t)
  BY <1>6, <1>8, <1>10 DEF Queues
<1> QED BY <1>11 DEF p, t

(* The invariant of a queue *)
RingInv == stamp \in Nat /\ block = TRUE /\ \E a \in Nat : Queues(ring, a, queued)

(* A new ring buffer is empty. *)
LEMMA RingStart == RingInit => RingInv
<1> SUFFICES ASSUME RingInit PROVE RingInv
  OBVIOUS
<1>1. /\ ring = [data |-> [i \in {} |-> Junk], begin |-> 0, end |-> 0]
      /\ queued = <<>> /\ stamp = 0 /\ block = TRUE
  BY DEF RingInit
<1>2. [i \in {} |-> Junk] \in [0..(0 - 1) -> Int]
  <2>1. 0..(0 - 1) = {}
    OBVIOUS
  <2> QED BY <2>1
<1>3. Ring(ring, 0) /\ Size(ring, 0) = 0
  <2> DEFINE d == [i \in {} |-> Junk]
  <2>1. ring = [data |-> d, begin |-> 0, end |-> 0] /\ d \in [0..(0 - 1) -> Int]
    BY <1>1, <1>2
  <2> HIDE DEF d
  <2> QED BY <2>1 DEF Ring, Size
<1>4. queued \in Seq(Nat) /\ Len(queued) = 0
  BY <1>1
<1>5. AtFront(ring, 0, queued)
  <2>1. 0..(0 - 1) = {}
    OBVIOUS
  <2> QED BY <1>3, <1>4, <2>1 DEF AtFront
<1> QED BY <1>1, <1>3, <1>4, <1>5 DEF RingInv, Queues

(* What the invariant is for. *)
LEMMA RingKept == RingInv => QueueInOrder /\ BlockInOnePiece
<1> SUFFICES ASSUME RingInv PROVE QueueInOrder /\ BlockInOnePiece
  OBVIOUS
<1>1. PICK a \in Nat : Queues(ring, a, queued)
  BY DEF RingInv
<1>2. /\ queued \in Seq(Nat) /\ Len(queued) = Size(ring, a) /\ Ring(ring, a) /\ Len(queued) \in Nat
      /\ \A k \in 0..(Len(queued) - 1) : ring.data[Place(ring, a, k)] = queued[k + 1]
  BY <1>1 DEF Queues, AtFront
<1>3. dq_size(ring) = Len(queued) /\ \A k : dq_a(ring, k) = Place(ring, a, k)
  BY <1>2, RingFacts
<1>4. \A i \in 1..Len(queued) : ring.data[dq_a(ring, i - 1)] = queued[i]
  <2> TAKE i \in 1..Len(queued)
  <2>1. i - 1 \in 0..(Len(queued) - 1) /\ i - 1 + 1 = i
    BY <1>2
  <2> QED BY <1>2, <1>3, <2>1
<1>5. queued = [i \in 1..Len(queued) |-> queued[i]]
  BY <1>2
<1>6. queued = [i \in 1..Len(queued) |-> ring.data[dq_a(ring, i - 1)]]
  BY <1>4, <1>5
<1> QED BY <1>3, <1>6 DEF QueueInOrder, BlockInOnePiece, RingInv

(* A push and the two pops keep the queue. *)
LEMMA RingStep == RingInv /\ RingNext => RingInv'
<1> SUFFICES ASSUME RingInv, RingNext PROVE RingInv'
  OBVIOUS
<1>1. PICK n \in 1..MaxPush : PushBack(n) \/ PopFront(n) \/ PopBack(n)
  BY DEF RingNext
<1>2. PICK a \in Nat : Queues(ring, a, queued)
  BY DEF RingInv
<1>3. n \in Nat \ {0} /\ stamp \in Nat /\ block = TRUE
  BY BuffersAssumption DEF RingInv
<1>4. Ring(ring, a) /\ dq_size(ring) = Len(queued) /\ AllocOf(ring) = a /\ queued \in Seq(Nat)
  BY <1>2, RingFacts DEF Queues, AtFront
<1>5. CASE PushBack(n)
  <2> DEFINE q == dq_push_back(ring, n)
             first == dq_a(q, dq_size(ring))
             new == NextStamps(n)
             r == Filled(q, first, n, new)
  <2>1. /\ ring' = r /\ queued' = queued \o new /\ stamp' = (stamp + n) % 3
        /\ block' = (first + n <= AllocOf(q))
    BY <1>5 DEF PushBack, Filled
  <2>2. Opened(ring, a, q, n)
    BY <1>3, <1>4, PushOpens
  <2>3. new \in Seq(Nat) /\ Len(new) = n
    <3>1. \A i \in 1..n : (stamp + i - 1) % 3 \in Nat
      BY <1>3
    <3> QED BY <1>3, <3>1 DEF NextStamps
  <2>0. /\ first = dq_a(q, dq_size(ring))
        /\ r = Filled(q, first, n, new)
    OBVIOUS
  <2> HIDE DEF q, new, first, r
  <2>4. first + n <= AllocOf(q) /\ \E b \in Nat : Queues(r, b, queued \o new)
    BY <1>2, <1>3, <2>0, <2>2, <2>3, FillBehind
  <2>5. stamp' \in Nat
    BY <1>3, <2>1
  <2> QED BY <2>1, <2>4, <2>5 DEF RingInv
<1>6. CASE PopFront(n)
  <2> DEFINE g == IF ring.begin + n >= a THEN ring.begin + n - a ELSE ring.begin + n
             p == [ring EXCEPT !.begin = g]
  <2>1. n \in 1..Len(queued)
    BY <1>3, <1>4, <1>6 DEF PopFront
  <2>2. /\ ring' = Kept(p) /\ queued' = SubSeq(queued, n + 1, Len(queued))
        /\ stamp' = stamp /\ block' = block
    BY <1>4, <1>6 DEF PopFront
  <2>3. Queues(p, a, SubSeq(queued, n + 1, Len(queued)))
    BY <1>2, <2>1, FrontPopped
  <2> HIDE DEF p
  <2>4. Queues(ring', a, queued')
    BY <2>2, <2>3, KeptKeeps
  <2> QED BY <1>3, <2>2, <2>4 DEF RingInv
<1>7. CASE PopBack(n)
  <2> DEFINE e == IF ring.end < n THEN ring.end + a - n ELSE ring.end - n
             p == [ring EXCEPT !.end = e]
  <2>1. n \in 1..Len(queued)
    BY <1>3, <1>4, <1>7 DEF PopBack
  <2>2. /\ ring' = Kept(p) /\ queued' = SubSeq(queued, 1, Len(queued) - n)
        /\ stamp' = stamp /\ block' = block
    BY <1>4, <1>7 DEF PopBack
  <2>3. Queues(p, a, SubSeq(queued, 1, Len(queued) - n))
    BY <1>2, <2>1, BackPopped
  <2> HIDE DEF p
  <2>4. Queues(ring', a, queued')
    BY <2>2, <2>3, KeptKeeps
  <2> QED BY <1>3, <2>2, <2>4 DEF RingInv
<1> QED BY <1>1, <1>5, <1>6, <1>7

-----------------------------------------------------------------------------
(* The three side by side *)

BuffersSpec ==
  /\ StringInit /\ RingInit /\ RecvInit
  /\ [][ \/ StringNext /\ UNCHANGED <<ringVars, recvVars>>
         \/ RingNext /\ UNCHANGED <<stringVars, recvVars>>
         \/ RecvNext /\ UNCHANGED <<stringVars, ringVars>> ]_<<stringVars, ringVars, recvVars>>

(* Strings, queues and receive buffers hold what was put into them, in order,
   whatever the pieces, the blocks and the reads, and however often they grow,
   wrap around or fail (dmem/string.c, dmem/queue.h, adbus/rbuffer.c). *)
THEOREM BuffersAreSound == BuffersSpec => []BuffersSound
<1> DEFINE Inv == StringInv /\ RingInv /\ RecvInv
           Step == \/ StringNext /\ UNCHANGED <<ringVars, recvVars>>
                   \/ RingNext /\ UNCHANGED <<stringVars, recvVars>>
                   \/ RecvNext /\ UNCHANGED <<stringVars, ringVars>>
           all == <<stringVars, ringVars, recvVars>>
<1>1. StringInit /\ RingInit /\ RecvInit => Inv
  BY StringStart, RingStart, RecvStart
<1>2. UNCHANGED stringVars => (StringInv' <=> StringInv)
  BY DEF stringVars, StringInv, HoldsText, Ends
<1>3. UNCHANGED ringVars => (RingInv' <=> RingInv)
  BY DEF ringVars, RingInv, Queues, Ring, AtFront, Size, Place
<1>4. UNCHANGED recvVars => (RecvInv' <=> RecvInv)
  BY DEF recvVars, RecvInv, LinesWhole
<1>5. Inv /\ [Step]_all => Inv'
  BY <1>2, <1>3, <1>4, StringStep, RingStep, RecvStep
<1>6. Inv => BuffersSound
  BY StringKept, RingKept DEF BuffersSound, RecvInv
<1> QED BY <1>1, <1>5, <1>6, PTL DEF BuffersSpec

-----------------------------------------------------------------------------
(* The registry of Lua: slots are taken and given back. *)

Whos == LuaObjs \cup {"errors", "sender", "connect", "sig", "function"}
LuaSlots == Whos \X (Nat \ {0})

(* A registry: finitely many slots, each named after what is in it. *)
IsRegistry(reg) ==
  /\ IsFiniteSet(DOMAIN reg)
  /\ \A s \in DOMAIN reg : s \in LuaSlots /\ reg[s] = s[1]

LEMMA NoSlotIsNone == NoSlot \notin LuaSlots
BY DEF NoSlot, LuaSlots

(* Giving slots back. *)
LEMMA UnrefFacts ==
  ASSUME NEW reg, IsRegistry(reg), NEW slots
  PROVE  /\ IsRegistry(UnrefAll(reg, slots))
         /\ DOMAIN UnrefAll(reg, slots) = DOMAIN reg \ slots
<1>1. DOMAIN UnrefAll(reg, slots) = DOMAIN reg \ slots
  BY DEF UnrefAll
<1>2. IsFiniteSet(DOMAIN reg \ slots)
  BY FS_Subset DEF IsRegistry
<1>3. \A s \in DOMAIN reg \ slots : UnrefAll(reg, slots)[s] = reg[s]
  BY DEF UnrefAll
<1> QED BY <1>1, <1>2, <1>3 DEF IsRegistry

Drops(reg, first, second, new) == IsRegistry(new) /\ DOMAIN new = (DOMAIN reg \ first) \ second

LEMMA UnrefTwice ==
  ASSUME NEW reg, IsRegistry(reg), NEW first, NEW second
  PROVE  Drops(reg, first, second, UnrefAll(UnrefAll(reg, first), second))
<1> DEFINE mid == UnrefAll(reg, first)
<1>1. IsRegistry(mid) /\ DOMAIN mid = DOMAIN reg \ first
  BY UnrefFacts
<1> HIDE DEF mid
<1>2. IsRegistry(UnrefAll(mid, second)) /\ DOMAIN UnrefAll(mid, second) = DOMAIN mid \ second
  BY <1>1, UnrefFacts
<1>3. Drops(reg, first, second, UnrefAll(mid, second))
  BY <1>1, <1>2 DEF Drops
<1> QED BY <1>3 DEF mid

(* Of one more slots than there are, one is free. *)
LEMMA FreeSlot ==
  ASSUME NEW reg, IsRegistry(reg), NEW who
  PROVE  \E n \in 1..Cardinality(DOMAIN reg) + 1 :
           <<who, n>> \notin DOMAIN reg /\ \A k \in 1..n - 1 : <<who, k>> \in DOMAIN reg
<1> DEFINE N == Cardinality(DOMAIN reg) + 1
           free == {n \in 1..N : <<who, n>> \notin DOMAIN reg}
<1>1. Cardinality(DOMAIN reg) \in Nat
  BY FS_CardinalityType DEF IsRegistry
<1>2. free # {}
  <2> SUFFICES ASSUME \A n \in 1..N : <<who, n>> \in DOMAIN reg PROVE FALSE
    OBVIOUS
  <2> DEFINE f == [n \in 1..N |-> <<who, n>>]
  <2>1. f \in Injection(1..N, DOMAIN reg)
    BY DEF Injection, IsInjective
  <2>2. Cardinality(1..N) <= Cardinality(DOMAIN reg)
    BY <2>1, FS_Injection DEF IsRegistry
  <2>3. Cardinality(1..N) = N
    BY <1>1, FS_Interval
  <2> QED BY <1>1, <2>2, <2>3
<1>3. free \in SUBSET Nat
  BY <1>1
<1>4. PICK n \in free : \A k \in free : n <= k
  <2> HIDE DEF free
  <2> QED BY <1>2, <1>3, LeastNumber
<1>5. \A k \in 1..n - 1 : <<who, k>> \in DOMAIN reg
  BY <1>1, <1>4
<1> QED BY <1>4, <1>5

(* Taking a slot. *)
RefRight(reg, who, r) ==
  /\ IsRegistry(r.reg)
  /\ r.ref \in LuaSlots /\ r.ref[1] = who /\ r.ref \notin DOMAIN reg
  /\ DOMAIN r.reg = DOMAIN reg \cup {r.ref}

LEMMA RefFacts ==
  ASSUME NEW reg, IsRegistry(reg), NEW who \in Whos
  PROVE  RefRight(reg, who, Ref(reg, who))
<1> DEFINE Free(n) == <<who, n>> \notin DOMAIN reg /\ \A k \in 1..n - 1 : <<who, k>> \in DOMAIN reg
           n == CHOOSE n \in 1..Cardinality(DOMAIN reg) + 1 : Free(n)
           new == [slot \in DOMAIN reg \cup {<<who, n>>} |-> IF slot = <<who, n>> THEN who ELSE reg[slot]]
<1>1. Ref(reg, who) = [reg |-> new, ref |-> <<who, n>>]
  BY Zenon DEF Ref
<1>2. Cardinality(DOMAIN reg) \in Nat
  BY FS_CardinalityType DEF IsRegistry
<1>3. n \in 1..Cardinality(DOMAIN reg) + 1 /\ Free(n)
  <2>1. \E m \in 1..Cardinality(DOMAIN reg) + 1 : Free(m)
    BY FreeSlot
  <2> HIDE DEF Free
  <2> QED BY <2>1
<1> HIDE DEF n
<1>4. n \in Nat \ {0} /\ <<who, n>> \notin DOMAIN reg
  BY <1>2, <1>3
<1>5. <<who, n>> \in LuaSlots
  BY <1>4 DEF LuaSlots
<1>6. DOMAIN new = DOMAIN reg \cup {<<who, n>>}
  OBVIOUS
<1>7. IsFiniteSet(DOMAIN reg \cup {<<who, n>>})
  BY FS_AddElement DEF IsRegistry
<1>8. \A s \in DOMAIN reg : new[s] = reg[s]
  BY <1>4
<1>9. new[<<who, n>>] = who
  OBVIOUS
<1> HIDE DEF new
<1>10. IsRegistry(new)
  BY <1>5, <1>6, <1>7, <1>8, <1>9 DEF IsRegistry
<1> QED BY <1>1, <1>4, <1>5, <1>6, <1>10 DEF RefRight

(* The recursion of RefAll: the function that it defines exists. *)
LEMMA RefAllUnfolds ==
  ASSUME NEW reg, NEW S, NEW whos \in Seq(S)
  PROVE  \E K : /\ K[0] = [reg |-> reg, refs |-> <<>>]
                /\ \A n \in 1..Len(whos) :
                     K[n] = [reg |-> Ref(K[n - 1].reg, whos[n]).reg,
                             refs |-> Append(K[n - 1].refs, Ref(K[n - 1].reg, whos[n]).ref)]
                /\ RefAll(reg, whos) = K[Len(whos)]
<1> DEFINE Step(g, n) == IF n = 0 THEN [reg |-> reg, refs |-> <<>>]
                         ELSE [reg |-> Ref(g[n - 1].reg, whos[n]).reg,
                               refs |-> Append(g[n - 1].refs, Ref(g[n - 1].reg, whos[n]).ref)]
           Fits(g, k) == g = [n \in 0..k |-> Step(g, n)]
           Good == {k \in Nat : \E g : Fits(g, k)}
           K == CHOOSE g : Fits(g, Len(whos))
<1>1. Len(whos) \in Nat
  OBVIOUS
<1>2. 0 \in Good
  <2>1. Fits([n \in 0..0 |-> [reg |-> reg, refs |-> <<>>]], 0)
    OBVIOUS
  <2> QED BY <2>1
<1>3. ASSUME NEW k \in 1..Len(whos), k - 1 \in Good
      PROVE  k \in Good
  <2>1. PICK g : Fits(g, k - 1)
    BY <1>3
  <2> DEFINE h == [n \in 0..k |-> IF n = k THEN Step(g, k) ELSE g[n]]
  <2>2. \A n \in 0..k : h[n] = Step(h, n)
    <3> TAKE n \in 0..k
    <3>1. CASE n = k
      <4>1. k \in 0..k /\ k # 0 /\ k - 1 \in 0..k /\ k - 1 # k
        OBVIOUS
      <4>2. h[k] = Step(g, k)
        <5> HIDE DEF Step
        <5> QED BY <4>1
      <4>3. h[k - 1] = g[k - 1]
        <5> HIDE DEF Step
        <5> QED BY <4>1
      <4> HIDE DEF h
      <4> QED BY <3>1, <4>1, <4>2, <4>3
    <3>2. CASE n # k
      <4>1. n \in 0..(k - 1) /\ h[n] = g[n]
        BY <3>2
      <4>2. g[n] = Step(g, n)
        <5> HIDE DEF Step
        <5> QED BY <2>1, <4>1
      <4>3. n # 0 => h[n - 1] = g[n - 1]
        BY <4>1
      <4> QED BY <4>1, <4>2, <4>3
    <3> QED BY <3>1, <3>2
  <2>3. Fits(h, k)
    <3>1. h = [n \in 0..k |-> h[n]]
      OBVIOUS
    <3> HIDE DEF h, Step
    <3> QED BY <2>2, <3>1
  <2>4. k \in Nat
    OBVIOUS
  <2> HIDE DEF Fits, h
  <2> QED BY <2>3, <2>4
<1>4. Len(whos) \in Good
  <2> HIDE DEF Good
  <2>1. Good \in SUBSET Nat
    BY DEF Good
  <2>2. \A k \in 1..Len(whos) : k - 1 \in Good => k \in Good
    BY <1>3
  <2>3. \A k \in 0..Len(whos) : k \in Good
    BY <1>1, <1>2, <2>1, <2>2, UpTo
  <2> QED BY <1>1, <2>3
<1>5. Fits(K, Len(whos))
  <2>1. \E g : Fits(g, Len(whos))
    <3> HIDE DEF Fits
    <3> QED BY <1>4
  <2> HIDE DEF Fits
  <2> QED BY <2>1
<1>6. RefAll(reg, whos) = K[Len(whos)]
  BY Zenon DEF RefAll
<1> HIDE DEF K
<1>7. \A n \in 0..Len(whos) : K[n] = Step(K, n)
  <2> HIDE DEF Step
  <2> QED BY <1>5
<1>8. K[0] = [reg |-> reg, refs |-> <<>>]
  <2>1. 0 \in 0..Len(whos)
    BY <1>1
  <2>2. K[0] = Step(K, 0)
    <3> HIDE DEF Step
    <3> QED BY <1>7, <2>1
  <2> QED BY <2>2
<1>9. ASSUME NEW n \in 1..Len(whos)
      PROVE  K[n] = [reg |-> Ref(K[n - 1].reg, whos[n]).reg,
                     refs |-> Append(K[n - 1].refs, Ref(K[n - 1].reg, whos[n]).ref)]
  <2>1. n \in 0..Len(whos) /\ n # 0
    BY <1>1
  <2>2. K[n] = Step(K, n)
    <3> HIDE DEF Step
    <3> QED BY <1>7, <2>1
  <2> QED BY <2>1, <2>2
<1> QED BY <1>6, <1>8, <1>9

(* Taking several slots: they are new, and named after what is in them. *)
AllRight(reg, whos, n, r) ==
  /\ IsRegistry(r.reg)
  /\ r.refs \in Seq(LuaSlots) /\ Len(r.refs) = n
  /\ \A i \in 1..n : r.refs[i][1] = whos[i]
  /\ Once(r.refs) /\ ToSet(r.refs) \cap DOMAIN reg = {}
  /\ DOMAIN r.reg = DOMAIN reg \cup ToSet(r.refs)

LEMMA RefAllFacts ==
  ASSUME NEW reg, IsRegistry(reg), NEW whos \in Seq(Whos)
  PROVE  AllRight(reg, whos, Len(whos), RefAll(reg, whos))
<1> DEFINE N == Len(whos)
<1>1. N \in Nat /\ \A i \in 1..N : whos[i] \in Whos
  OBVIOUS
<1>2. PICK K : /\ K[0] = [reg |-> reg, refs |-> <<>>]
               /\ \A n \in 1..N :
                    K[n] = [reg |-> Ref(K[n - 1].reg, whos[n]).reg,
                            refs |-> Append(K[n - 1].refs, Ref(K[n - 1].reg, whos[n]).ref)]
               /\ RefAll(reg, whos) = K[N]
  BY RefAllUnfolds
<1> HIDE DEF N
<1> DEFINE Good == {n \in Nat : AllRight(reg, whos, n, K[n])}
<1>3. 0 \in Good
  <2>1. <<>> \in Seq(LuaSlots) /\ Len(<<>>) = 0 /\ ToSet(<<>>) = {} /\ Once(<<>>)
    BY DEF ToSet, Once
  <2>2. AllRight(reg, whos, 0, K[0])
    <3>1. K[0].reg = reg /\ K[0].refs = <<>>
      BY <1>2
    <3>2. \A i \in 1..0 : K[0].refs[i][1] = whos[i]
      OBVIOUS
    <3> QED BY <2>1, <3>1, <3>2 DEF AllRight
  <2> QED BY <2>2
<1>4. ASSUME NEW n \in 1..N, n - 1 \in Good PROVE n \in Good
  <2> DEFINE old == K[n - 1]
             r == Ref(old.reg, whos[n])
  <2>1. AllRight(reg, whos, n - 1, old) /\ n \in Nat
    BY <1>1, <1>4
  <2>2. RefRight(old.reg, whos[n], r)
    BY <1>1, <2>1, RefFacts DEF AllRight
  <2>3. K[n].reg = r.reg /\ K[n].refs = Append(old.refs, r.ref)
    <3>1. K[n] = [reg |-> r.reg, refs |-> Append(old.refs, r.ref)]
      BY <1>2
    <3> HIDE DEF old, r
    <3> QED BY <3>1
  <2> DEFINE refs == old.refs
             ref == r.ref
  <2> HIDE DEF old, r
  <2>4. refs \in Seq(LuaSlots) /\ ref \in LuaSlots /\ ref \notin DOMAIN old.reg
        /\ Once(refs) /\ Len(refs) = n - 1 /\ DOMAIN old.reg = DOMAIN reg \cup ToSet(refs)
    BY <2>1, <2>2 DEF AllRight, RefRight
  <2>5. \A i \in 1..(n - 1) : refs[i][1] = whos[i]
    BY <2>1 DEF AllRight
  <2>6. ref[1] = whos[n] /\ DOMAIN r.reg = DOMAIN old.reg \cup {ref} /\ IsRegistry(r.reg)
    BY <2>2 DEF RefRight
  <2>7. ToSet(refs) \cap DOMAIN reg = {}
    BY <2>1 DEF AllRight
  <2> HIDE DEF refs, ref
  <2>8. /\ Append(refs, ref) \in Seq(LuaSlots)
        /\ ToSet(Append(refs, ref)) = ToSet(refs) \cup {ref}
        /\ Once(Append(refs, ref))
    BY <2>4, AppendFacts
  <2>9. /\ Len(Append(refs, ref)) = n
        /\ \A i \in 1..n : Append(refs, ref)[i] = IF i = n THEN ref ELSE refs[i]
    BY <2>1, <2>4
  <2>10. \A i \in 1..n : Append(refs, ref)[i][1] = whos[i]
    <3> TAKE i \in 1..n
    <3>1. i = n \/ i \in 1..(n - 1)
      OBVIOUS
    <3> QED BY <2>5, <2>6, <2>9, <3>1
  <2>11. AllRight(reg, whos, n, K[n])
    <3>1. K[n].refs = Append(refs, ref)
      BY <2>3 DEF refs, ref
    <3>2. DOMAIN r.reg = DOMAIN reg \cup ToSet(Append(refs, ref))
      BY <2>4, <2>6, <2>8
    <3>3. ToSet(Append(refs, ref)) \cap DOMAIN reg = {}
      BY <2>4, <2>7, <2>8
    <3> QED BY <2>3, <2>6, <2>8, <2>9, <2>10, <3>1, <3>2, <3>3 DEF AllRight
  <2> QED BY <2>1, <2>11
<1>5. N \in Good
  <2>1. Good \in SUBSET Nat /\ \A n \in 1..N : n - 1 \in Good => n \in Good
    BY <1>4
  <2> HIDE DEF Good
  <2>2. \A n \in 0..N : n \in Good
    BY <1>1, <1>3, <2>1, UpTo
  <2> QED BY <1>1, <2>2
<1> QED BY <1>2, <1>5 DEF N

-----------------------------------------------------------------------------
(* The inductive invariant: what calls and errors do, *)

LuaErrs == [raised : Nat, texts : Nat, values : Nat, thrown : Nat, masked : Nat, lost : Nat,
            odd : SUBSET {"value", "nil", "own"}]
LuaFrames == [for : LuaObjs, runs : Whos]

ErrsRight(e) ==
  /\ e \in LuaErrs
  /\ e.raised = e.texts + e.values + e.thrown + e.masked + e.lost
  /\ e.lost > 0 => e.odd \cap {"nil", "own"} # {}
  /\ e.values + e.masked > 0 => e.odd \cap {"value", "own"} # {}

FlowInv ==
  /\ frames \in Seq(LuaFrames) /\ lphase \in {"lua", "back"}
  /\ lphase = "back" => frames # <<>>
  /\ ErrsRight(errs)
  /\ OwnFunctionRuns

(* and who holds what.  A slot tells by its name whose it is. *)
MaybeSlot == LuaSlots \cup {NoSlot}

Ifaces == [kind : {"none", "method", "property", "signal"}, held : BOOLEAN, binds : Int,
           refs : Seq(LuaSlots), made : BOOLEAN]

LuaConns ==
  [open : BOOLEAN, set : SUBSET {"sender", "connect"}, hello : {"no", "sent", "done"},
   errors : MaybeSlot, sender : MaybeSlot, connect : MaybeSlot]

Objects == [L : BOOLEAN, lib : BOOLEAN, dead : BOOLEAN, callback : MaybeSlot, object : MaybeSlot]

SlotTypes ==
  /\ IsRegistry(registry)
  /\ lconn \in LuaConns
  /\ objs \in [LuaObjs -> Objects]
  /\ iface \in Ifaces
  /\ leaked \subseteq LuaSlots

Named(who) == {s \in DOMAIN registry : s[1] = who}

ConnSlots ==
  /\ Named("errors") = IF lconn.open THEN {lconn.errors} \ {NoSlot} ELSE {}
  /\ Named("connect") = IF lconn.open /\ "connect" \in lconn.set THEN {lconn.connect} \ {NoSlot} ELSE {}
  /\ Named("sender") = IF lconn.open /\ "sender" \in lconn.set THEN {lconn.sender} \ {NoSlot} ELSE {}

ObjSlots ==
  \A o \in LuaObjs :
    /\ Named(o) = IF objs[o].L THEN {objs[o].callback, objs[o].object} \ {NoSlot} ELSE {}
    /\ objs[o].callback = objs[o].object => objs[o].callback = NoSlot
    /\ objs[o].lib => objs[o].L /\ (ObjKind[o] # "bind" => objs[o].callback # NoSlot)
    /\ ObjKind[o] = "bind" => objs[o].callback = NoSlot /\ objs[o].object = NoSlot

MemberSlots ==
  /\ Named("sig") \cup Named("function") = ToSet(iface.refs) \cup leaked
  /\ ToSet(iface.refs) \cap leaked = {} /\ Once(iface.refs)
  /\ iface.refs # <<>> => iface.made /\ Last(iface.refs)[1] = "function"

SlotInv == SlotTypes /\ ConnSlots /\ ObjSlots /\ MemberSlots

LuaInv == FlowInv /\ SlotInv

slotVars == <<registry, lconn, objs, iface, leaked>>
flowVars == <<frames, lphase, errs>>

LEMMA SlotsStay == SlotInv /\ UNCHANGED slotVars => SlotInv'
BY DEF SlotInv, SlotTypes, ConnSlots, ObjSlots, MemberSlots, Named, slotVars, IsRegistry

LEMMA FlowStays == FlowInv /\ UNCHANGED flowVars => FlowInv'
BY DEF FlowInv, OwnFunctionRuns, flowVars

-----------------------------------------------------------------------------
(* Errors *)

ErrorKinds == {"none", "text", "value", "nil"}

(* CollectError: an error is counted once. *)
LEMMA ListedFacts ==
  ASSUME NEW e \in LuaErrs, NEW kind \in ErrorKinds, NEW f, f = Listed(e, kind)
  PROVE  /\ f \in LuaErrs /\ f.odd = e.odd /\ f.thrown = e.thrown /\ f.masked = e.masked
         /\ f.raised = e.raised + (IF kind = "none" THEN 0 ELSE 1)
         /\ f.texts = e.texts + (IF kind = "text" THEN 1 ELSE 0)
         /\ f.values = e.values + (IF kind = "value" THEN 1 ELSE 0)
         /\ f.lost = e.lost + (IF kind = "nil" THEN 1 ELSE 0)
<1> DEFINE r == IF kind = "none" THEN e.raised ELSE e.raised + 1
           t == IF kind = "text" THEN e.texts + 1 ELSE e.texts
           v == IF kind = "value" THEN e.values + 1 ELSE e.values
           n == IF kind = "nil" THEN e.lost + 1 ELSE e.lost
<1>1. e.raised \in Nat /\ e.texts \in Nat /\ e.values \in Nat /\ e.lost \in Nat
  BY DEF LuaErrs
<1>2. f = [e EXCEPT !.raised = r, !.texts = t, !.values = v, !.lost = n]
  BY DEF Listed, LuaErrs
<1>3. /\ r \in Nat /\ t \in Nat /\ v \in Nat /\ n \in Nat
      /\ r = e.raised + (IF kind = "none" THEN 0 ELSE 1)
      /\ t = e.texts + (IF kind = "text" THEN 1 ELSE 0)
      /\ v = e.values + (IF kind = "value" THEN 1 ELSE 0)
      /\ n = e.lost + (IF kind = "nil" THEN 1 ELSE 0)
  BY <1>1
<1> HIDE DEF r, t, v, n
<1>4. /\ f \in LuaErrs /\ f.odd = e.odd /\ f.thrown = e.thrown /\ f.masked = e.masked
      /\ f.raised = r /\ f.texts = t /\ f.values = v /\ f.lost = n
  BY <1>2, <1>3 DEF LuaErrs
<1> QED BY <1>3, <1>4

LEMMA CollectedFacts ==
  ASSUME FlowInv, NEW kind \in ErrorKinds
  PROVE  ErrsRight(Collected(kind)) /\ ErrsRight(CollectedOwn(kind))
<1> DEFINE f == Listed(errs, kind)
           own == IF kind = "none" THEN {} ELSE {"own"}
           odd == {kind} \cap {"value", "nil"}
<1>1. /\ errs \in LuaErrs /\ errs.odd \in SUBSET {"value", "nil", "own"}
      /\ errs.raised = errs.texts + errs.values + errs.thrown + errs.masked + errs.lost
      /\ errs.lost > 0 => errs.odd \cap {"nil", "own"} # {}
      /\ errs.values + errs.masked > 0 => errs.odd \cap {"value", "own"} # {}
  BY DEF FlowInv, ErrsRight, LuaErrs
<1>2. /\ f \in LuaErrs /\ f.odd = errs.odd /\ f.thrown = errs.thrown /\ f.masked = errs.masked
      /\ f.raised = errs.raised + (IF kind = "none" THEN 0 ELSE 1)
      /\ f.texts = errs.texts + (IF kind = "text" THEN 1 ELSE 0)
      /\ f.values = errs.values + (IF kind = "value" THEN 1 ELSE 0)
      /\ f.lost = errs.lost + (IF kind = "nil" THEN 1 ELSE 0)
  BY <1>1, ListedFacts
<1>3. /\ errs.raised \in Nat /\ errs.texts \in Nat /\ errs.values \in Nat /\ errs.thrown \in Nat
      /\ errs.masked \in Nat /\ errs.lost \in Nat
  BY <1>1 DEF LuaErrs
<1>4. f.raised = f.texts + f.values + f.thrown + f.masked + f.lost
  <2> DEFINE one(b) == IF b THEN 1 ELSE 0
  <2>1. one(kind = "text") + one(kind = "value") + one(kind = "nil") = (IF kind = "none" THEN 0 ELSE 1)
    BY DEF ErrorKinds
  <2>2. one(kind = "text") \in Nat /\ one(kind = "value") \in Nat /\ one(kind = "nil") \in Nat
    OBVIOUS
  <2>3. /\ f.texts = errs.texts + one(kind = "text") /\ f.values = errs.values + one(kind = "value")
        /\ f.lost = errs.lost + one(kind = "nil") /\ f.thrown = errs.thrown /\ f.masked = errs.masked
        /\ f.raised = errs.raised + (one(kind = "text") + one(kind = "value") + one(kind = "nil"))
    BY <1>2, <2>1
  <2> HIDE DEF one, f
  <2> QED BY <1>1, <1>3, <2>2, <2>3
<1>5. /\ f.lost > 0 => errs.lost > 0 \/ kind = "nil"
      /\ f.values + f.masked > 0 => errs.values + errs.masked > 0 \/ kind = "value"
  BY <1>2, <1>3
<1> HIDE DEF f
<1>6. ASSUME NEW more \in SUBSET {"value", "nil", "own"}, NEW g, g = [f EXCEPT !.odd = @ \cup more],
             kind = "nil" => more \cap {"nil", "own"} # {},
             kind = "value" => more \cap {"value", "own"} # {}
      PROVE  ErrsRight(g)
  <2>1. g \in LuaErrs
    BY <1>2, <1>6 DEF LuaErrs
  <2>2. /\ g.raised = f.raised /\ g.texts = f.texts /\ g.values = f.values /\ g.thrown = f.thrown
        /\ g.masked = f.masked /\ g.lost = f.lost /\ g.odd = errs.odd \cup more
    BY <1>2, <1>6 DEF LuaErrs
  <2>3. g.lost > 0 => g.odd \cap {"nil", "own"} # {}
    BY <1>1, <1>5, <1>6, <2>2
  <2>4. g.values + g.masked > 0 => g.odd \cap {"value", "own"} # {}
    BY <1>1, <1>5, <1>6, <2>2
  <2> QED BY <1>4, <2>1, <2>2, <2>3, <2>4 DEF ErrsRight
<1>7. ErrsRight(Collected(kind))
  <2>1. odd \in SUBSET {"value", "nil", "own"} /\ Collected(kind) = [f EXCEPT !.odd = @ \cup odd]
    BY DEF Collected, f
  <2>2. (kind = "nil" => "nil" \in odd) /\ (kind = "value" => "value" \in odd)
    OBVIOUS
  <2> HIDE DEF odd
  <2> QED BY <1>6, <2>1, <2>2
<1>8. ErrsRight(CollectedOwn(kind))
  <2>1. own \in SUBSET {"value", "nil", "own"} /\ CollectedOwn(kind) = [f EXCEPT !.odd = @ \cup own]
    BY DEF CollectedOwn, f
  <2>2. kind # "none" => "own" \in own
    OBVIOUS
  <2> HIDE DEF own
  <2> QED BY <1>6, <2>1, <2>2
<1> QED BY <1>7, <1>8

(* The list is emptied into an error that is thrown, and ends a callback or not. *)
LEMMA ThrownFacts ==
  ASSUME NEW e, ErrsRight(e)
  PROVE  ErrsRight(Thrown(e)) /\ ErrsRight(PassedOn(e))
<1> DEFINE f == Thrown(e)
<1>1. /\ e \in LuaErrs /\ e.raised \in Nat /\ e.texts \in Nat /\ e.values \in Nat
      /\ e.thrown \in Nat /\ e.masked \in Nat /\ e.lost \in Nat
      /\ e.raised = e.texts + e.values + e.thrown + e.masked + e.lost
      /\ e.lost > 0 => e.odd \cap {"nil", "own"} # {}
      /\ e.values + e.masked > 0 => e.odd \cap {"value", "own"} # {}
  BY DEF ErrsRight, LuaErrs
<1>2. CASE e.values = 0
  <2>1. f = [e EXCEPT !.texts = 0, !.thrown = e.thrown + e.texts] /\ PassedOn(e) = e
    BY <1>1, <1>2 DEF Thrown, PassedOn, LuaErrs
  <2> DEFINE h == e.thrown + e.texts
  <2>4. h \in Nat /\ f = [e EXCEPT !.texts = 0, !.thrown = h]
    BY <1>1, <2>1
  <2> HIDE DEF f, h
  <2>2. f \in LuaErrs /\ f.raised = e.raised /\ f.texts = 0 /\ f.values = 0 /\ f.masked = e.masked
        /\ f.thrown = e.thrown + e.texts /\ f.lost = e.lost /\ f.odd = e.odd
    <3>1. /\ f \in LuaErrs /\ f.raised = e.raised /\ f.texts = 0 /\ f.values = e.values
          /\ f.masked = e.masked /\ f.thrown = h /\ f.lost = e.lost /\ f.odd = e.odd
      BY <1>1, <2>4 DEF LuaErrs
    <3> QED BY <1>2, <3>1 DEF h
  <2>3. ErrsRight(f)
    BY <1>1, <1>2, <2>2 DEF ErrsRight
  <2> QED BY <2>1, <2>3 DEF f
<1>3. CASE e.values # 0
  <2>1. f = [e EXCEPT !.texts = 0, !.values = 0, !.masked = e.masked + e.texts + e.values]
        /\ PassedOn(e) = Listed(f, "text")
    BY <1>1, <1>3 DEF Thrown, PassedOn, LuaErrs
  <2> DEFINE m == e.masked + e.texts + e.values
  <2>7. m \in Nat /\ f = [e EXCEPT !.texts = 0, !.values = 0, !.masked = m]
    BY <1>1, <2>1
  <2> HIDE DEF f, m
  <2>2. f \in LuaErrs /\ f.raised = e.raised /\ f.texts = 0 /\ f.values = 0 /\ f.thrown = e.thrown
        /\ f.masked = e.masked + e.texts + e.values /\ f.lost = e.lost /\ f.odd = e.odd
    <3>1. /\ f \in LuaErrs /\ f.raised = e.raised /\ f.texts = 0 /\ f.values = 0
          /\ f.thrown = e.thrown /\ f.masked = m /\ f.lost = e.lost /\ f.odd = e.odd
      BY <1>1, <2>7 DEF LuaErrs
    <3> QED BY <3>1 DEF m
  <2>3. ErrsRight(f)
    BY <1>1, <1>3, <2>2 DEF ErrsRight
  <2> DEFINE g == Listed(f, "text")
  <2>4. /\ g \in LuaErrs /\ g.odd = f.odd /\ g.thrown = f.thrown /\ g.masked = f.masked
        /\ g.raised = f.raised + 1 /\ g.texts = f.texts + 1 /\ g.values = f.values /\ g.lost = f.lost
    <3>1. /\ g \in LuaErrs /\ g.odd = f.odd /\ g.thrown = f.thrown /\ g.masked = f.masked
          /\ g.raised = f.raised + 1 /\ g.texts = f.texts + 1 /\ g.values = f.values + 0 /\ g.lost = f.lost + 0
      BY <2>2, ListedFacts DEF ErrorKinds
    <3> QED BY <1>1, <2>2, <3>1
  <2> HIDE DEF g
  <2>5. ErrsRight(g)
    BY <1>1, <1>3, <2>2, <2>4 DEF ErrsRight
  <2> QED BY <2>1, <2>3, <2>5 DEF f, g
<1> QED BY <1>2, <1>3

LEMMA ThrowsKeeps ==
  ASSUME FlowInv, NEW e, ErrsRight(e), Throws(e)
  PROVE  FlowInv'
<1>1. frames' = frames
  BY DEF Throws
<1>2. ErrsRight(errs')
  <2>1. errs' = e \/ errs' = Thrown(e) \/ errs' = PassedOn(e)
    BY DEF Throws
  <2> QED BY <2>1, ThrownFacts
<1>3. lphase' = lphase \/ (lphase' = "back" /\ frames # <<>>)
  BY DEF Throws
<1> QED BY <1>1, <1>2, <1>3 DEF FlowInv, OwnFunctionRuns

(* A callback returns. *)
LEMMA EndsKeep ==
  ASSUME FlowInv, NEW kind \in ErrorKinds, frames # <<>>, LuaEnds(kind)
  PROVE  FlowInv'
<1>1. errs' = Collected(kind) /\ lphase' = "back" /\ frames' = frames
  BY DEF LuaEnds
<1> QED BY <1>1, CollectedFacts DEF FlowInv, OwnFunctionRuns

(* The innermost callback is the last. *)
LEMMA OuterFrames ==
  ASSUME NEW s \in Seq(LuaFrames), s # <<>>
  PROVE  /\ Front(s) \in Seq(LuaFrames) /\ Last(s) \in LuaFrames
         /\ \A i \in DOMAIN Front(s) : i \in DOMAIN s /\ Front(s)[i] = s[i]
<1>1. Len(s) \in Nat \ {0} /\ Front(s) = [i \in 1..(Len(s) - 1) |-> s[i]]
  BY DEF Front
<1> QED BY <1>1 DEF Last

LEMMA ReturnKeepsFlow ==
  ASSUME FlowInv, lphase = "back", frames' = Front(frames),
         \/ errs' = Thrown(errs) /\ lphase' = "lua"
         \/ Front(frames) # <<>> /\ lphase' = "back" /\ errs' = PassedOn(errs)
  PROVE  FlowInv'
<1>1. frames' \in Seq(LuaFrames) /\ \A i \in DOMAIN frames' : i \in DOMAIN frames /\ frames'[i] = frames[i]
  BY OuterFrames DEF FlowInv
<1>2. ErrsRight(errs')
  BY ThrownFacts DEF FlowInv
<1>3. lphase' \in {"lua", "back"} /\ (lphase' = "back" => frames' # <<>>)
  OBVIOUS
<1> QED BY <1>1, <1>2, <1>3 DEF FlowInv, OwnFunctionRuns

-----------------------------------------------------------------------------
(* Who holds what *)

(* Slots of one kind are taken or given back, those of other kinds stay. *)
LEMMA ConnKeeps ==
  ASSUME SlotInv, IsRegistry(registry'), UNCHANGED <<objs, iface, leaked>>,
         \A s \in LuaSlots : s[1] \notin {"errors", "connect", "sender"} =>
           (s \in DOMAIN registry' <=> s \in DOMAIN registry)
  PROVE  ObjSlots' /\ MemberSlots'
<1>1. \A o \in LuaObjs : o \notin {"errors", "connect", "sender"}
  BY LuaAssumption
<1>2. \A who : who \notin {"errors", "connect", "sender"} => Named(who)' = Named(who)
  BY DEF SlotInv, SlotTypes, IsRegistry, Named
<1>3. \A o \in LuaObjs : Named(o)' = Named(o)
  BY <1>1, <1>2
<1>4. Named("sig")' = Named("sig") /\ Named("function")' = Named("function")
  BY <1>2
<1> HIDE DEF Named
<1> QED BY <1>3, <1>4 DEF SlotInv, ObjSlots, MemberSlots

(* The names tell the slots of connection, objects and members apart. *)
LEMMA NamesApart ==
  /\ "errors" # "connect" /\ "errors" # "sender" /\ "connect" # "sender" /\ "sig" # "function"
  /\ \A o \in LuaObjs : o \notin {"errors", "connect", "sender", "sig", "function"}
BY LuaAssumption

LEMMA SlotNames ==
  ASSUME SlotInv
  PROVE  /\ \A o \in LuaObjs : objs[o].L =>
              \A s \in ObjRefs(o) : s = NoSlot \/ (s \in DOMAIN registry /\ s[1] = o)
         /\ \A s \in ToSet(iface.refs) \cup leaked :
              s \in DOMAIN registry /\ s[1] \in {"sig", "function"}
         /\ lconn.open =>
              /\ lconn.errors = NoSlot \/ lconn.errors \in Named("errors")
              /\ "connect" \in lconn.set => lconn.connect = NoSlot \/ lconn.connect \in Named("connect")
              /\ "sender" \in lconn.set => lconn.sender = NoSlot \/ lconn.sender \in Named("sender")
<1>1. ASSUME NEW o \in LuaObjs, objs[o].L, NEW s \in ObjRefs(o), s # NoSlot
      PROVE  s \in DOMAIN registry /\ s[1] = o
  <2>1. s \in Named(o)
    BY <1>1 DEF SlotInv, ObjSlots, ObjRefs
  <2> QED BY <2>1 DEF Named
<1>2. ASSUME NEW s \in ToSet(iface.refs) \cup leaked
      PROVE  s \in DOMAIN registry /\ s[1] \in {"sig", "function"}
  <2>1. s \in Named("sig") \cup Named("function")
    BY <1>2 DEF SlotInv, MemberSlots
  <2> QED BY <2>1 DEF Named
<1>3. lconn.open =>
        /\ lconn.errors = NoSlot \/ lconn.errors \in Named("errors")
        /\ "connect" \in lconn.set => lconn.connect = NoSlot \/ lconn.connect \in Named("connect")
        /\ "sender" \in lconn.set => lconn.sender = NoSlot \/ lconn.sender \in Named("sender")
  BY DEF SlotInv, ConnSlots
<1> QED BY <1>1, <1>2, <1>3

(* Slots of objects that leave. *)
LEMMA ObjectsDrop ==
  ASSUME SlotInv, NEW os \in SUBSET LuaObjs, IsRegistry(registry'),
         \A o \in LuaObjs : /\ objs'[o].callback = objs[o].callback /\ objs'[o].object = objs[o].object
                            /\ o \in os => ~objs'[o].L /\ ~objs'[o].lib
                            /\ o \notin os => objs'[o].L = objs[o].L /\ objs'[o].lib = objs[o].lib,
         \A o \in os : objs[o].L,
         \A s \in LuaSlots : s[1] \in LuaObjs =>
           (s \in DOMAIN registry' <=> s \in DOMAIN registry /\ \A o \in os : s \notin ObjRefs(o))
  PROVE  ObjSlots'
<1>0. /\ \A s \in DOMAIN registry : s \in LuaSlots
      /\ \A s \in DOMAIN registry' : s \in LuaSlots
  BY DEF SlotInv, SlotTypes, IsRegistry
<1>1. \A o \in LuaObjs : \A s : s \in Named(o)' <=> s \in Named(o) /\ \A q \in os : s \notin ObjRefs(q)
  BY <1>0 DEF Named
<1>2. ASSUME NEW o \in LuaObjs, o \in os PROVE Named(o)' = {}
  <2>1. Named(o) = ObjRefs(o) \ {NoSlot}
    BY <1>2 DEF SlotInv, ObjSlots, ObjRefs
  <2> QED BY <1>1, <1>2, <2>1
<1>3. ASSUME NEW o \in LuaObjs, o \notin os PROVE Named(o)' = Named(o)
  <2>1. ASSUME NEW q \in os, NEW s \in ObjRefs(q) PROVE s \notin Named(o)
    <3>1. s = NoSlot \/ s[1] = q
      BY <2>1, SlotNames
    <3>2. NoSlot \notin Named(o)
      BY <1>0, NoSlotIsNone DEF Named
    <3> QED BY <1>3, <3>1, <3>2 DEF Named
  <2> QED BY <1>1, <2>1
<1> HIDE DEF Named
<1>4. ASSUME NEW o \in LuaObjs
      PROVE  /\ Named(o)' = IF objs'[o].L THEN {objs'[o].callback, objs'[o].object} \ {NoSlot} ELSE {}
             /\ objs'[o].callback = objs'[o].object => objs'[o].callback = NoSlot
             /\ objs'[o].lib => objs'[o].L /\ (ObjKind[o] # "bind" => objs'[o].callback # NoSlot)
             /\ ObjKind[o] = "bind" => objs'[o].callback = NoSlot /\ objs'[o].object = NoSlot
  BY <1>2, <1>3 DEF SlotInv, ObjSlots
<1> QED BY <1>4 DEF ObjSlots

(* The members of an interface that nobody holds any more leave with their slots. *)
LEMMA MembersDrop ==
  ASSUME SlotInv, NEW i \in Ifaces, i.refs = iface.refs, i.made = iface.made, NEW calls,
         iface' = Unheld(i, calls), leaked' = leaked, IsRegistry(registry'),
         \A s \in LuaSlots : s[1] \in {"sig", "function"} =>
           (s \in DOMAIN registry' <=> s \in DOMAIN registry /\ s \notin IfaceRefs(i, calls))
  PROVE  MemberSlots' /\ iface' \in Ifaces
<1>0. /\ \A s \in DOMAIN registry : s \in LuaSlots
      /\ \A s \in DOMAIN registry' : s \in LuaSlots
  BY DEF SlotInv, SlotTypes, IsRegistry
<1>1. \A s : s \in Named("sig")' \cup Named("function")' <=>
               s \in Named("sig") \cup Named("function") /\ s \notin IfaceRefs(i, calls)
  BY <1>0 DEF Named
<1>2. CASE Holds(i, calls)
  <2>1. iface' = i /\ IfaceRefs(i, calls) = {}
    BY <1>2 DEF Unheld, IfaceRefs
  <2>2. Named("sig")' \cup Named("function")' = Named("sig") \cup Named("function")
    BY <1>1, <2>1
  <2> HIDE DEF Named
  <2> QED BY <2>1, <2>2 DEF SlotInv, MemberSlots
<1>3. CASE ~Holds(i, calls)
  <2>1. iface' = [i EXCEPT !.refs = <<>>, !.kind = "none"] /\ IfaceRefs(i, calls) = ToSet(iface.refs)
    BY <1>3 DEF Unheld, IfaceRefs
  <2>2. iface' \in Ifaces /\ iface'.refs = <<>>
    <3> DEFINE T == Seq(LuaSlots)
    <3>1. <<>> \in T /\ Ifaces = [kind : {"none", "method", "property", "signal"}, held : BOOLEAN,
                                  binds : Int, refs : T, made : BOOLEAN]
      BY DEF Ifaces
    <3> DEFINE none == <<>>
    <3>2. none \in T /\ iface' = [i EXCEPT !.refs = none, !.kind = "none"]
      BY <2>1, <3>1
    <3> HIDE DEF T, none
    <3>3. iface' \in Ifaces /\ iface'.refs = none
      BY <3>1, <3>2
    <3> QED BY <3>3 DEF none
  <2>3. ToSet(<<>>) = {} /\ Once(<<>>)
    BY DEF ToSet, Once
  <2>4. Named("sig")' \cup Named("function")' = leaked
    BY <1>1, <2>1 DEF SlotInv, MemberSlots
  <2> HIDE DEF Named
  <2> QED BY <2>2, <2>3, <2>4 DEF MemberSlots
<1> QED BY <1>2, <1>3

(* The connection's slots stay. *)
LEMMA ConnStays ==
  ASSUME SlotInv, IsRegistry(registry'), lconn' = lconn,
         \A s \in LuaSlots : s[1] \in {"errors", "connect", "sender"} =>
           (s \in DOMAIN registry' <=> s \in DOMAIN registry)
  PROVE  ConnSlots'
<1>0. /\ \A s \in DOMAIN registry : s \in LuaSlots
      /\ \A s \in DOMAIN registry' : s \in LuaSlots
  BY DEF SlotInv, SlotTypes, IsRegistry
<1>1. /\ Named("errors")' = Named("errors") /\ Named("connect")' = Named("connect")
      /\ Named("sender")' = Named("sender")
  BY <1>0 DEF Named
<1> HIDE DEF Named
<1> QED BY <1>1 DEF SlotInv, ConnSlots

-----------------------------------------------------------------------------
(* The steps *)

(* One slot of the connection is given back and another taken. *)
LEMMA SlotReplaced ==
  ASSUME SlotInv, NEW old, NEW who \in {"sender", "connect"}, Named(who) = {old} \ {NoSlot},
         NEW r, r = Ref(UnrefAll(registry, {old}), who), registry' = r.reg
  PROVE  /\ IsRegistry(registry') /\ r.ref \in LuaSlots
         /\ Named(who)' = {r.ref}
         /\ \A s \in LuaSlots : s[1] # who => (s \in DOMAIN registry' <=> s \in DOMAIN registry)
<1>1. IsRegistry(registry) /\ \A s \in DOMAIN registry : s \in LuaSlots
  BY DEF SlotInv, SlotTypes, IsRegistry
<1> DEFINE reg == UnrefAll(registry, {old})
<1>2. IsRegistry(reg) /\ DOMAIN reg = DOMAIN registry \ {old}
  BY <1>1, UnrefFacts
<1>3. RefRight(reg, who, r)
  BY <1>2, RefFacts DEF Whos
<1> HIDE DEF reg
<1>4. /\ IsRegistry(registry') /\ r.ref \in LuaSlots /\ r.ref[1] = who
      /\ DOMAIN registry' = (DOMAIN registry \ {old}) \cup {r.ref}
  BY <1>2, <1>3 DEF RefRight
<1>5. old = NoSlot \/ (old \in DOMAIN registry /\ old[1] = who)
  BY DEF Named
<1>6. \A s \in DOMAIN registry : s[1] = who => s = old
  BY DEF Named
<1>7. NoSlot \notin DOMAIN registry
  BY <1>1, NoSlotIsNone
<1>8. Named(who)' = {r.ref}
  BY <1>4, <1>6 DEF Named
<1> QED BY <1>4, <1>5, <1>7, <1>8, NoSlotIsNone

LEMMA SetSenderKeeps ==
  ASSUME SlotInv, SetSender
  PROVE  SlotInv'
<1>1. CASE ~SenderKnown
  <2>1. UNCHANGED slotVars
    BY <1>1 DEF SetSender, slotVars
  <2> QED BY <2>1, SlotsStay
<1>2. CASE SenderKnown
  <2> DEFINE r == Ref(UnrefAll(registry, {lconn.sender}), "sender")
  <2>1. /\ lconn.open /\ registry' = r.reg /\ lconn' = [lconn EXCEPT !.sender = r.ref, !.set = @ \cup {"sender"}]
        /\ UNCHANGED <<objs, iface, leaked>>
    BY <1>2 DEF SetSender
  <2>2. Named("sender") = {lconn.sender} \ {NoSlot}
    <3> HIDE DEF Named
    <3> QED BY <1>2, <2>1 DEF SlotInv, ConnSlots, SenderKnown
  <2>3. /\ IsRegistry(registry') /\ r.ref \in LuaSlots
        /\ Named("sender")' = {r.ref}
        /\ \A s \in LuaSlots : s[1] # "sender" => (s \in DOMAIN registry' <=> s \in DOMAIN registry)
    BY <2>1, <2>2, SlotReplaced
  <2> HIDE DEF r
  <2>4. ObjSlots' /\ MemberSlots'
    BY <2>1, <2>3, ConnKeeps
  <2>5. lconn \in LuaConns
    BY DEF SlotInv, SlotTypes
  <2>6. /\ lconn' \in LuaConns /\ lconn'.open /\ lconn'.sender = r.ref
        /\ "sender" \in lconn'.set /\ ("connect" \in lconn'.set <=> "connect" \in lconn.set)
        /\ lconn'.errors = lconn.errors /\ lconn'.connect = lconn.connect
    BY <2>1, <2>3, <2>5 DEF LuaConns, MaybeSlot
  <2>7. SlotTypes'
    BY <2>1, <2>3, <2>6 DEF SlotInv, SlotTypes
  <2>8. Named("errors")' = Named("errors") /\ Named("connect")' = Named("connect")
    BY <2>3 DEF SlotInv, SlotTypes, IsRegistry, Named
  <2>9. ConnSlots'
    <3> HIDE DEF Named
    <3> QED BY <2>1, <2>3, <2>6, <2>8, NoSlotIsNone DEF SlotInv, ConnSlots
  <2> QED BY <2>4, <2>7, <2>9 DEF SlotInv
<1> QED BY <1>1, <1>2

LEMMA ConnectKeepsSlots ==
  ASSUME SlotInv, NEW fn \in BOOLEAN, LuaConnect(fn)
  PROVE  SlotInv'
<1> DEFINE given == UnrefAll(registry, {lconn.connect})
           r == Ref(given, "connect")
<1>0. lconn \in LuaConns /\ IsRegistry(registry)
  BY DEF SlotInv, SlotTypes
<1>1. CASE UNCHANGED <<registry, lconn>>
  <2>1. UNCHANGED slotVars
    BY <1>1 DEF LuaConnect, slotVars
  <2> QED BY <2>1, SlotsStay
<1>2. CASE ConnectKnown /\ fn /\ registry' = r.reg
           /\ lconn' = [lconn EXCEPT !.connect = r.ref, !.set = @ \cup {"connect"}, !.hello = "sent"]
  <2>1. lconn.open /\ UNCHANGED <<objs, iface, leaked>>
    BY DEF LuaConnect
  <2>2. Named("connect") = {lconn.connect} \ {NoSlot}
    <3> HIDE DEF Named
    <3> QED BY <1>2, <2>1 DEF SlotInv, ConnSlots, ConnectKnown
  <2>3. /\ IsRegistry(registry') /\ r.ref \in LuaSlots
        /\ Named("connect")' = {r.ref}
        /\ \A s \in LuaSlots : s[1] # "connect" => (s \in DOMAIN registry' <=> s \in DOMAIN registry)
    BY <1>2, <2>2, SlotReplaced
  <2> HIDE DEF r
  <2>4. ObjSlots' /\ MemberSlots'
    BY <2>1, <2>3, ConnKeeps
  <2>6. /\ lconn' \in LuaConns /\ lconn'.open /\ lconn'.sender = lconn.sender
        /\ "connect" \in lconn'.set /\ ("sender" \in lconn'.set <=> "sender" \in lconn.set)
        /\ lconn'.errors = lconn.errors /\ lconn'.connect = r.ref
    BY <1>0, <1>2, <2>1, <2>3 DEF LuaConns, MaybeSlot
  <2>7. SlotTypes'
    BY <2>1, <2>3, <2>6 DEF SlotInv, SlotTypes
  <2>8. Named("errors")' = Named("errors") /\ Named("sender")' = Named("sender")
    BY <2>3 DEF SlotInv, SlotTypes, IsRegistry, Named
  <2>9. ConnSlots'
    <3> HIDE DEF Named
    <3> QED BY <2>1, <2>3, <2>6, <2>8, NoSlotIsNone DEF SlotInv, ConnSlots
  <2> QED BY <2>4, <2>7, <2>9 DEF SlotInv
<1>3. CASE ConnectKnown /\ ~fn /\ registry' = given
           /\ lconn' = [lconn EXCEPT !.set = @ \ {"connect"}, !.hello = "sent"]
  <2>1. lconn.open /\ UNCHANGED <<objs, iface, leaked>>
    BY DEF LuaConnect
  <2>2. Named("connect") = {lconn.connect} \ {NoSlot}
    <3> HIDE DEF Named
    <3> QED BY <1>3, <2>1 DEF SlotInv, ConnSlots, ConnectKnown
  <2>3. IsRegistry(registry') /\ DOMAIN registry' = DOMAIN registry \ {lconn.connect}
    BY <1>0, <1>3, UnrefFacts
  <2> HIDE DEF given
  <2>4. lconn.connect = NoSlot \/ lconn.connect[1] = "connect"
    BY <2>2 DEF Named
  <2>5. \A s \in LuaSlots : s[1] # "connect" => (s \in DOMAIN registry' <=> s \in DOMAIN registry)
    BY <2>3, <2>4, NoSlotIsNone
  <2>6. ObjSlots' /\ MemberSlots'
    BY <2>1, <2>3, <2>5, ConnKeeps
  <2>7. /\ lconn' \in LuaConns /\ lconn'.open /\ lconn'.sender = lconn.sender
        /\ "connect" \notin lconn'.set /\ ("sender" \in lconn'.set <=> "sender" \in lconn.set)
        /\ lconn'.errors = lconn.errors
    BY <1>0, <1>3, <2>1 DEF LuaConns
  <2>8. SlotTypes'
    BY <2>1, <2>3, <2>7 DEF SlotInv, SlotTypes
  <2>9. Named("errors")' = Named("errors") /\ Named("sender")' = Named("sender")
    BY <2>3, <2>5 DEF SlotInv, SlotTypes, IsRegistry, Named
  <2>10. Named("connect")' = {}
    BY <2>2, <2>3 DEF Named
  <2>11. ConnSlots'
    <3> HIDE DEF Named
    <3> QED BY <2>1, <2>7, <2>9, <2>10 DEF SlotInv, ConnSlots
  <2> QED BY <2>6, <2>8, <2>11 DEF SlotInv
<1> QED BY <1>1, <1>2, <1>3 DEF LuaConnect

(* Objects, and the members of an interface, leave with their slots. *)
LEMMA ReleaseKeeps ==
  ASSUME SlotInv, NEW os \in SUBSET LuaObjs, \A o \in os : objs[o].L,
         NEW i \in Ifaces, i.refs = iface.refs, i.made = iface.made, NEW calls,
         NEW C, \A s \in C : s = NoSlot \/ s[1] \in {"errors", "connect", "sender"},
         IsRegistry(registry'),
         DOMAIN registry' = ((DOMAIN registry \ UNION {ObjRefs(o) : o \in os}) \ IfaceRefs(i, calls)) \ C,
         \A o \in LuaObjs : /\ objs'[o].callback = objs[o].callback /\ objs'[o].object = objs[o].object
                            /\ o \in os => ~objs'[o].L /\ ~objs'[o].lib
                            /\ o \notin os => objs'[o].L = objs[o].L /\ objs'[o].lib = objs[o].lib,
         iface' = Unheld(i, calls), leaked' = leaked
  PROVE  /\ ObjSlots' /\ MemberSlots' /\ iface' \in Ifaces
         /\ \A s \in LuaSlots : s[1] \in {"errors", "connect", "sender"} =>
              (s \in DOMAIN registry' <=> s \in DOMAIN registry /\ s \notin C)
<1>1. \A s \in LuaSlots : s # NoSlot
  BY NoSlotIsNone
<1>2. \A s \in IfaceRefs(i, calls) : s[1] \in {"sig", "function"}
  BY SlotNames DEF IfaceRefs
<1>3. \A o \in os : \A s \in ObjRefs(o) : s = NoSlot \/ s[1] \in LuaObjs
  BY SlotNames
<1>4. \A s \in LuaSlots : s[1] \in LuaObjs =>
        (s \in DOMAIN registry' <=> s \in DOMAIN registry /\ \A o \in os : s \notin ObjRefs(o))
  <2> TAKE s \in LuaSlots
  <2> HAVE s[1] \in LuaObjs
  <2>1. s \notin IfaceRefs(i, calls) /\ s \notin C
    BY <1>1, <1>2, NamesApart
  <2> QED BY <2>1
<1>5. \A s \in LuaSlots : s[1] \in {"sig", "function"} =>
        (s \in DOMAIN registry' <=> s \in DOMAIN registry /\ s \notin IfaceRefs(i, calls))
  <2> TAKE s \in LuaSlots
  <2> HAVE s[1] \in {"sig", "function"}
  <2>1. s \notin C /\ \A o \in os : s \notin ObjRefs(o)
    BY <1>1, <1>3, NamesApart
  <2> QED BY <2>1
<1>6. \A s \in LuaSlots : s[1] \in {"errors", "connect", "sender"} =>
        (s \in DOMAIN registry' <=> s \in DOMAIN registry /\ s \notin C)
  <2> TAKE s \in LuaSlots
  <2> HAVE s[1] \in {"errors", "connect", "sender"}
  <2>1. s \notin IfaceRefs(i, calls) /\ \A o \in os : s \notin ObjRefs(o)
    BY <1>1, <1>2, <1>3, NamesApart
  <2> QED BY <2>1
<1>7. ObjSlots'
  BY <1>4, ObjectsDrop
<1>8. MemberSlots' /\ iface' \in Ifaces
  BY <1>5, MembersDrop
<1> QED BY <1>6, <1>7, <1>8

LEMMA RegistryHere == SlotInv => IsRegistry(registry) /\ lconn \in LuaConns /\ iface \in Ifaces /\ objs \in [LuaObjs -> Objects]
BY DEF SlotInv, SlotTypes

(* Releases on a connection that stays. *)
LEMMA ReleaseOnConn ==
  ASSUME SlotInv, NEW os \in SUBSET LuaObjs, \A o \in os : objs[o].L,
         NEW i \in Ifaces, i.refs = iface.refs, i.made = iface.made, NEW calls,
         IsRegistry(registry'),
         DOMAIN registry' = (DOMAIN registry \ UNION {ObjRefs(o) : o \in os}) \ IfaceRefs(i, calls),
         objs' \in [LuaObjs -> Objects],
         \A o \in LuaObjs : /\ objs'[o].callback = objs[o].callback /\ objs'[o].object = objs[o].object
                            /\ o \in os => ~objs'[o].L /\ ~objs'[o].lib
                            /\ o \notin os => objs'[o].L = objs[o].L /\ objs'[o].lib = objs[o].lib,
         iface' = Unheld(i, calls), UNCHANGED <<lconn, leaked>>
  PROVE  SlotInv'
<1> DEFINE C == {}
<1>1. DOMAIN registry' = ((DOMAIN registry \ UNION {ObjRefs(o) : o \in os}) \ IfaceRefs(i, calls)) \ C
  OBVIOUS
<1>2. \A s \in C : s = NoSlot \/ s[1] \in {"errors", "connect", "sender"}
  OBVIOUS
<1>3. \A s : s \notin C
  OBVIOUS
<1> HIDE DEF C
<1>4. /\ ObjSlots' /\ MemberSlots' /\ iface' \in Ifaces
      /\ \A s \in LuaSlots : s[1] \in {"errors", "connect", "sender"} =>
           (s \in DOMAIN registry' <=> s \in DOMAIN registry /\ s \notin C)
  BY <1>1, <1>2, ReleaseKeeps
<1>5. ConnSlots'
  BY <1>3, <1>4, ConnStays
<1>6. SlotTypes'
  BY <1>4 DEF SlotInv, SlotTypes
<1> QED BY <1>4, <1>5, <1>6 DEF SlotInv

LEMMA FreeInterfaceKeeps ==
  ASSUME SlotInv, FreeInterface
  PROVE  SlotInv'
<1> DEFINE i == [iface EXCEPT !.held = FALSE]
           os == {}
<1>1. /\ registry' = UnrefAll(registry, IfaceRefs(i, frames)) /\ iface' = Unheld(i, frames)
      /\ UNCHANGED <<lconn, objs, leaked>>
  BY DEF FreeInterface
<1>2. i \in Ifaces /\ i.refs = iface.refs /\ i.made = iface.made
  BY RegistryHere DEF Ifaces
<1> HIDE DEF i
<1>3. IsRegistry(registry') /\ DOMAIN registry' = DOMAIN registry \ IfaceRefs(i, frames)
  BY <1>1, RegistryHere, UnrefFacts
<1>4. /\ DOMAIN registry' = (DOMAIN registry \ UNION {ObjRefs(o) : o \in os}) \ IfaceRefs(i, frames)
      /\ os \in SUBSET LuaObjs /\ \A o : o \notin os
  BY <1>3
<1> HIDE DEF os
<1> QED BY <1>1, <1>2, <1>3, <1>4, RegistryHere, ReleaseOnConn

(* What IfaceWithout leaves. *)
LEMMA WithoutBinds ==
  ASSUME SlotInv, NEW os \in SUBSET LuaObjs
  PROVE  /\ IfaceWithout(os) \in Ifaces /\ IfaceWithout(os).refs = iface.refs
         /\ IfaceWithout(os).made = iface.made
<1> DEFINE n == Cardinality({o \in os : ObjKind[o] = "bind"})
<1>1. n \in Nat
  <2>1. IsFiniteSet({o \in os : ObjKind[o] = "bind"})
    BY LuaAssumption, FS_Subset
  <2> QED BY <2>1, FS_CardinalityType
<1>2. IfaceWithout(os) = [iface EXCEPT !.binds = @ - n]
  BY DEF IfaceWithout
<1> HIDE DEF n
<1> QED BY <1>1, <1>2, RegistryHere DEF Ifaces

(* An object is closed. *)
LEMMA ClosedFacts ==
  ASSUME SlotInv, NEW o \in LuaObjs
  PROVE  /\ Closed(o) \in Objects /\ ~Closed(o).L /\ ~Closed(o).lib
         /\ Closed(o).callback = objs[o].callback /\ Closed(o).object = objs[o].object
<1>1. objs[o] \in Objects
  BY RegistryHere
<1> QED BY <1>1 DEF Closed, Objects

LEMMA CloseObjectKeeps ==
  ASSUME LuaInv, NEW o \in LuaObjs, NEW collect \in BOOLEAN, CloseObject(o, collect)
  PROVE  LuaInv'
<1>0. FlowInv /\ SlotInv /\ objs[o] \in Objects /\ UNCHANGED <<lconn, leaked>>
  BY RegistryHere DEF LuaInv, CloseObject
<1>1. CASE ~objs[o].L
  <2>1. objs' = [objs EXCEPT ![o].dead = collect] /\ UNCHANGED <<registry, iface, frames, lphase, errs>>
    BY <1>1 DEF CloseObject
  <2>2. objs' \in [LuaObjs -> Objects]
    BY <2>1, <1>0, RegistryHere DEF Objects
  <2>3. \A q \in LuaObjs : /\ objs'[q].callback = objs[q].callback /\ objs'[q].object = objs[q].object
                           /\ objs'[q].L = objs[q].L /\ objs'[q].lib = objs[q].lib
    BY <2>1, <1>0, RegistryHere DEF Objects
  <2>4. SlotTypes'
    BY <1>0, <2>1, <2>2 DEF SlotInv, SlotTypes, IsRegistry
  <2>5. \A who : Named(who)' = Named(who)
    BY <2>1 DEF Named
  <2>6. ConnSlots' /\ ObjSlots' /\ MemberSlots'
    <3> HIDE DEF Named
    <3> QED BY <1>0, <2>1, <2>3, <2>5 DEF SlotInv, ConnSlots, ObjSlots, MemberSlots
  <2>7. FlowInv'
    BY <1>0, <2>1, FlowStays DEF flowVars
  <2> QED BY <2>4, <2>6, <2>7 DEF LuaInv, SlotInv
<1> DEFINE Twice == ~(ObjRefs(o) \ {NoSlot} \subseteq
                        DOMAIN (IF objs[o].lib THEN LuaReleased(registry, {o}) ELSE registry))
<1>2. CASE objs[o].L /\ (~lconn.open \/ Twice)
  <2>1. UNCHANGED slotVars /\ UNCHANGED flowVars
    BY <1>2 DEF CloseObject, slotVars, flowVars
  <2> QED BY <1>0, <2>1, SlotsStay, FlowStays DEF LuaInv
<1>3. CASE objs[o].L /\ lconn.open /\ ~Twice
  <2> DEFINE i == IF objs[o].lib THEN IfaceWithout({o}) ELSE iface
             os == {o}
  <2>1. /\ objs' = [objs EXCEPT ![o] = [Closed(o) EXCEPT !.dead = collect]]
        /\ registry' = UnrefAll(UnrefAll(registry, ObjRefs(o)), IfaceRefs(i, frames))
        /\ iface' = Unheld(i, frames) /\ Throws(errs)
    BY <1>3 DEF CloseObject
  <2> HIDE DEF Twice
  <2>2. i \in Ifaces /\ i.refs = iface.refs /\ i.made = iface.made
    BY <1>0, RegistryHere, WithoutBinds
  <2> HIDE DEF i
  <2>3. IsRegistry(registry') /\ DOMAIN registry' = (DOMAIN registry \ ObjRefs(o)) \ IfaceRefs(i, frames)
    <3>1. Drops(registry, ObjRefs(o), IfaceRefs(i, frames), registry')
      BY <1>0, <2>1, RegistryHere, UnrefTwice
    <3> QED BY <3>1 DEF Drops
  <2>4. DOMAIN registry' = (DOMAIN registry \ UNION {ObjRefs(q) : q \in os}) \ IfaceRefs(i, frames)
    BY <2>3
  <2>5. objs' \in [LuaObjs -> Objects] /\ objs'[o] = [Closed(o) EXCEPT !.dead = collect]
        /\ \A q \in LuaObjs : q # o => objs'[q] = objs[q]
    BY <1>0, <2>1, RegistryHere, ClosedFacts DEF Objects
  <2>6. /\ ~objs'[o].L /\ ~objs'[o].lib
        /\ objs'[o].callback = objs[o].callback /\ objs'[o].object = objs[o].object
    BY <1>0, <2>5, ClosedFacts DEF Objects
  <2>7. \A q \in LuaObjs : /\ objs'[q].callback = objs[q].callback /\ objs'[q].object = objs[q].object
                           /\ q \in os => ~objs'[q].L /\ ~objs'[q].lib
                           /\ q \notin os => objs'[q].L = objs[q].L /\ objs'[q].lib = objs[q].lib
    BY <2>5, <2>6
  <2>8. os \in SUBSET LuaObjs /\ \A q \in os : objs[q].L
    BY <1>3
  <2> HIDE DEF os
  <2>9. SlotInv'
    BY <1>0, <2>1, <2>2, <2>3, <2>4, <2>5, <2>7, <2>8, ReleaseOnConn
  <2>10. FlowInv'
    BY <1>0, <2>1, ThrowsKeeps DEF FlowInv
  <2> QED BY <2>9, <2>10 DEF LuaInv
<1> QED BY <1>0, <1>1, <1>2, <1>3 DEF Objects

LEMMA ParseReturnsKeeps ==
  ASSUME LuaInv, ParseReturns
  PROVE  LuaInv'
<1>0. FlowInv /\ SlotInv /\ UNCHANGED <<lconn, leaked>> /\ lphase = "back"
  BY DEF LuaInv, ParseReturns
<1>1. CASE ~lconn.open
  <2>1. UNCHANGED slotVars /\ UNCHANGED flowVars
    BY <1>1 DEF ParseReturns, slotVars, flowVars
  <2> QED BY <1>0, <2>1, SlotsStay, FlowStays DEF LuaInv
<1>2. CASE lconn.open
  <2> DEFINE o == Last(frames).for
             answered == o \in Registered /\ ObjKind[o] = "reply"
             outer == Front(frames)
             os == IF answered THEN {o} ELSE {}
  <2>1. /\ registry' = UnrefAll(IF answered THEN LuaReleased(registry, {o}) ELSE registry,
                                IfaceRefs(iface, outer))
        /\ iface' = Unheld(iface, outer)
        /\ objs' = IF answered THEN [objs EXCEPT ![o] = Closed(o)] ELSE objs
        /\ frames' = outer
        /\ \/ errs' = Thrown(errs) /\ lphase' = "lua"
           \/ outer # <<>> /\ lphase' = "back" /\ errs' = PassedOn(errs)
    BY <1>2 DEF ParseReturns
  <2>2. o \in LuaObjs
    <3>1. Last(frames) \in LuaFrames
      BY <1>0, OuterFrames DEF FlowInv
    <3> QED BY <3>1 DEF LuaFrames
  <2>3. FlowInv'
    BY <1>0, <2>1, ReturnKeepsFlow
  <2> HIDE DEF o, outer
  <2>4. IsRegistry(registry')
        /\ DOMAIN registry' = (DOMAIN registry \ UNION {ObjRefs(q) : q \in os}) \ IfaceRefs(iface, outer)
    <3>1. CASE answered
      <4>1. LuaReleased(registry, {o}) = UnrefAll(registry, UNION {ObjRefs(q) : q \in os})
        BY <3>1 DEF LuaReleased
      <4> DEFINE gone == UNION {ObjRefs(q) : q \in os}
      <4>2. registry' = UnrefAll(UnrefAll(registry, gone), IfaceRefs(iface, outer))
        BY <2>1, <3>1, <4>1
      <4> HIDE DEF gone
      <4>3. IsRegistry(registry') /\ DOMAIN registry' = (DOMAIN registry \ gone) \ IfaceRefs(iface, outer)
        <5>1. Drops(registry, gone, IfaceRefs(iface, outer), registry')
          BY <1>0, <4>2, RegistryHere, UnrefTwice
        <5> QED BY <5>1 DEF Drops
      <4> QED BY <4>3 DEF gone
    <3>2. CASE ~answered
      <4>1. IsRegistry(registry') /\ DOMAIN registry' = DOMAIN registry \ IfaceRefs(iface, outer)
        BY <1>0, <2>1, <3>2, RegistryHere, UnrefFacts
      <4> QED BY <3>2, <4>1
    <3> QED BY <3>1, <3>2
  <2>5. os \in SUBSET LuaObjs /\ \A q \in os : objs[q].L
    BY <1>0, <2>2 DEF Registered, SlotInv, ObjSlots
  <2>6. /\ objs' \in [LuaObjs -> Objects]
        /\ \A q \in LuaObjs : /\ objs'[q].callback = objs[q].callback /\ objs'[q].object = objs[q].object
                              /\ q \in os => ~objs'[q].L /\ ~objs'[q].lib
                              /\ q \notin os => objs'[q].L = objs[q].L /\ objs'[q].lib = objs[q].lib
    BY <1>0, <2>1, <2>2, RegistryHere, ClosedFacts
  <2>7. SlotInv'
    <3> HIDE DEF os
    <3> QED BY <1>0, <2>1, <2>4, <2>5, <2>6, RegistryHere, ReleaseOnConn
  <2> QED BY <2>3, <2>7 DEF LuaInv
<1>3. lconn.open \in BOOLEAN
  BY <1>0, RegistryHere DEF LuaConns
<1> QED BY <1>1, <1>2, <1>3

LEMMA CloseConnectionKeeps ==
  ASSUME LuaInv, CloseConnection
  PROVE  LuaInv'
<1>0. FlowInv /\ SlotInv /\ UNCHANGED leaked /\ lconn.open
  BY DEF LuaInv, CloseConnection
<1>1. CASE ~SenderKnown \/ ~ConnectKnown
  <2>1. UNCHANGED slotVars /\ UNCHANGED flowVars
    BY <1>1 DEF CloseConnection, slotVars, flowVars
  <2> QED BY <1>0, <2>1, SlotsStay, FlowStays DEF LuaInv
<1>2. CASE SenderKnown /\ ConnectKnown
  <2> DEFINE i == IfaceWithout(Registered)
             C == {lconn.sender, lconn.connect, lconn.errors}
             gone == UNION {ObjRefs(o) : o \in Registered}
  <2>1. /\ registry' = UnrefAll(UnrefAll(UnrefAll(registry, gone), IfaceRefs(i, frames)), C)
        /\ objs' = [o \in LuaObjs |-> IF o \in Registered THEN Closed(o) ELSE objs[o]]
        /\ iface' = Unheld(i, frames) /\ lconn' = [lconn EXCEPT !.open = FALSE] /\ Throws(errs)
    BY <1>2 DEF CloseConnection, LuaReleased
  <2>2. Registered \in SUBSET LuaObjs /\ \A o \in Registered : objs[o].L
    BY <1>0 DEF Registered, SlotInv, ObjSlots
  <2>3. i \in Ifaces /\ i.refs = iface.refs /\ i.made = iface.made
    BY <1>0, <2>2, WithoutBinds
  <2>4. \A s \in C : s = NoSlot \/ s \in Named("errors") \cup Named("connect") \cup Named("sender")
    BY <1>0, <1>2, SlotNames DEF SenderKnown, ConnectKnown
  <2>5. \A s \in C : s = NoSlot \/ s[1] \in {"errors", "connect", "sender"}
    BY <2>4 DEF Named
  <2> HIDE DEF i
  <2>6. /\ IsRegistry(registry')
        /\ DOMAIN registry' = ((DOMAIN registry \ gone) \ IfaceRefs(i, frames)) \ C
    <3> HIDE DEF gone, C
    <3> DEFINE mid == UnrefAll(UnrefAll(registry, gone), IfaceRefs(i, frames))
    <3>1. IsRegistry(mid) /\ DOMAIN mid = (DOMAIN registry \ gone) \ IfaceRefs(i, frames)
      <4>1. Drops(registry, gone, IfaceRefs(i, frames), mid)
        BY <1>0, RegistryHere, UnrefTwice
      <4> QED BY <4>1 DEF Drops
    <3>2. registry' = UnrefAll(mid, C)
      BY <2>1
    <3> HIDE DEF mid
    <3> QED BY <3>1, <3>2, UnrefFacts
  <2>7. /\ objs' \in [LuaObjs -> Objects]
        /\ \A o \in LuaObjs : /\ objs'[o].callback = objs[o].callback /\ objs'[o].object = objs[o].object
                              /\ o \in Registered => ~objs'[o].L /\ ~objs'[o].lib
                              /\ o \notin Registered => objs'[o].L = objs[o].L /\ objs'[o].lib = objs[o].lib
    BY <1>0, <2>1, RegistryHere, ClosedFacts
  <2>8. /\ ObjSlots' /\ MemberSlots' /\ iface' \in Ifaces
        /\ \A s \in LuaSlots : s[1] \in {"errors", "connect", "sender"} =>
             (s \in DOMAIN registry' <=> s \in DOMAIN registry /\ s \notin C)
    <3> HIDE DEF C
    <3> QED BY <1>0, <2>1, <2>2, <2>3, <2>5, <2>6, <2>7, ReleaseKeeps
  <2>9. lconn' \in LuaConns /\ ~lconn'.open
    BY <1>0, <2>1, RegistryHere DEF LuaConns
  <2>10. ConnSlots'
    <3>1. ASSUME NEW s \in DOMAIN registry', s[1] \in {"errors", "connect", "sender"} PROVE FALSE
      <4>1. s \in LuaSlots
        BY <2>6 DEF IsRegistry
      <4>2. s \in DOMAIN registry /\ s \notin C
        BY <2>8, <3>1, <4>1
      <4>3. s \in Named("errors") \cup Named("connect") \cup Named("sender")
        BY <3>1, <4>2 DEF Named
      <4>4. s \in C
        BY <1>0, <4>3 DEF SlotInv, ConnSlots
      <4> QED BY <4>2, <4>4
    <3>2. Named("errors")' = {} /\ Named("connect")' = {} /\ Named("sender")' = {}
      BY <3>1 DEF Named
    <3> HIDE DEF Named
    <3> QED BY <2>9, <3>2 DEF ConnSlots
  <2>11. SlotInv'
    BY <1>0, <2>6, <2>7, <2>8, <2>9, <2>10 DEF SlotInv, SlotTypes
  <2>12. FlowInv'
    BY <1>0, <2>1, ThrowsKeeps DEF FlowInv
  <2> QED BY <2>11, <2>12 DEF LuaInv
<1> QED BY <1>1, <1>2

(* Slots are taken: those of other names stay. *)
LEMMA OthersStay ==
  ASSUME IsRegistry(registry), IsRegistry(registry'), NEW new, NEW W,
         DOMAIN registry' = DOMAIN registry \cup new, \A s \in new : s[1] \in W
  PROVE  \A who : who \notin W => Named(who)' = Named(who)
BY DEF Named

(* The slots of an object, as it keeps them. *)
TwoRight(refs, first, second) ==
  /\ first \in MaybeSlot /\ second \in MaybeSlot
  /\ {first, second} \ {NoSlot} = ToSet(refs)
  /\ first = second => first = NoSlot
  /\ Len(refs) # 0 => first # NoSlot
  /\ Len(refs) = 0 => first = NoSlot /\ second = NoSlot

LEMMA TwoSlots ==
  ASSUME NEW refs \in Seq(LuaSlots), Len(refs) \in {0, 1, 2}, Once(refs),
         NEW first, first = IF 1 \in DOMAIN refs THEN refs[1] ELSE NoSlot,
         NEW second, second = IF 2 \in DOMAIN refs THEN refs[2] ELSE NoSlot
  PROVE  TwoRight(refs, first, second)
<1>0. DOMAIN refs = 1..Len(refs) /\ \A i \in 1..Len(refs) : refs[i] \in LuaSlots /\ refs[i] # NoSlot
  BY NoSlotIsNone
<1>1. CASE Len(refs) = 0
  <2>1. ToSet(refs) = {} /\ first = NoSlot /\ second = NoSlot
    BY <1>0, <1>1 DEF ToSet
  <2> QED BY <1>1, <2>1 DEF MaybeSlot, TwoRight
<1>2. CASE Len(refs) = 1
  <2>1. ToSet(refs) = {refs[1]} /\ first = refs[1] /\ second = NoSlot
    BY <1>0, <1>2 DEF ToSet
  <2> QED BY <1>0, <1>2, <2>1 DEF MaybeSlot, TwoRight
<1>3. CASE Len(refs) = 2
  <2>1. ToSet(refs) = {refs[1], refs[2]} /\ first = refs[1] /\ second = refs[2] /\ refs[1] # refs[2]
    BY <1>0, <1>3 DEF ToSet, Once
  <2> QED BY <1>0, <1>3, <2>1 DEF MaybeSlot, TwoRight
<1> QED BY <1>1, <1>2, <1>3

LEMMA RegisterKeeps ==
  ASSUME LuaInv, NEW o \in LuaObjs, NEW whos \in {<<>>, <<o>>, <<o, o>>}, NEW ends,
         ends = "ok" /\ ObjKind[o] # "bind" => whos # <<>>, ObjKind[o] = "bind" => whos = <<>>,
         LuaRegister(o, whos, ends),
         iface' \in Ifaces, iface'.refs = iface.refs, iface'.made = iface.made
  PROVE  LuaInv'
<1> DEFINE r == RefAll(registry, whos)
           refs == r.refs
           slot(n) == IF n \in DOMAIN refs THEN refs[n] ELSE NoSlot
           first == IF 1 \in DOMAIN refs THEN refs[1] ELSE NoSlot
           second == IF 2 \in DOMAIN refs THEN refs[2] ELSE NoSlot
           new == [L |-> TRUE, lib |-> ends = "ok", dead |-> FALSE, callback |-> first, object |-> second]
<1>0. FlowInv /\ SlotInv
  BY DEF LuaInv
<1>1. /\ objs[o] = NoObject /\ registry' = r.reg /\ objs' = [objs EXCEPT ![o] = new]
      /\ UNCHANGED <<lconn, leaked>>
  BY DEF LuaRegister
<1>2. /\ whos \in Seq(Whos) /\ Len(whos) \in {0, 1, 2} /\ \A i \in 1..Len(whos) : whos[i] = o
      /\ whos # <<>> <=> Len(whos) # 0
  <2>1. o \in Whos
    BY DEF Whos
  <2>2. CASE whos = <<>>
    BY <2>2
  <2>3. CASE whos = <<o>>
    BY <2>1, <2>3
  <2>4. CASE whos = <<o, o>>
    BY <2>1, <2>4
  <2> QED BY <2>2, <2>3, <2>4
<1>3. AllRight(registry, whos, Len(whos), r)
  BY <1>0, <1>2, RegistryHere, RefAllFacts
<1> HIDE DEF r
<1>4. /\ IsRegistry(registry') /\ refs \in Seq(LuaSlots) /\ Len(refs) = Len(whos) /\ Once(refs)
      /\ DOMAIN registry' = DOMAIN registry \cup ToSet(refs)
  BY <1>1, <1>3 DEF AllRight
<1>5. \A s \in ToSet(refs) : s[1] \in {o}
  <2>1. \A i \in 1..Len(whos) : refs[i][1] = o
    BY <1>2, <1>3 DEF AllRight
  <2> QED BY <1>4, <2>1 DEF ToSet
<1> HIDE DEF refs
<1>6. /\ first \in MaybeSlot /\ second \in MaybeSlot
      /\ {first, second} \ {NoSlot} = ToSet(refs)
      /\ first = second => first = NoSlot
      /\ Len(refs) # 0 => first # NoSlot
      /\ Len(refs) = 0 => first = NoSlot /\ second = NoSlot
  <2>1. Len(refs) \in {0, 1, 2} /\ refs \in Seq(LuaSlots) /\ Once(refs)
    BY <1>2, <1>4
  <2>2. TwoRight(refs, first, second)
    BY <2>1, TwoSlots
  <2> HIDE DEF first, second
  <2> QED BY <2>2 DEF TwoRight
<1> HIDE DEF first, second
<1>7. \A who : who \notin {o} => Named(who)' = Named(who)
  BY <1>0, <1>4, <1>5, OthersStay, RegistryHere
<1>8. Named(o) = {}
  BY <1>0, <1>1 DEF SlotInv, ObjSlots, NoObject
<1>9. Named(o)' = ToSet(refs)
  BY <1>4, <1>5, <1>8 DEF Named
<1> HIDE DEF Named
<1>10. /\ new \in Objects /\ new.L /\ (new.lib <=> ends = "ok")
       /\ new.callback = first /\ new.object = second
  BY <1>6 DEF Objects
<1> HIDE DEF new
<1>11. /\ objs' \in [LuaObjs -> Objects] /\ objs'[o] = new
       /\ \A q \in LuaObjs : q # o => objs'[q] = objs[q]
  BY <1>0, <1>1, <1>10, RegistryHere
<1>12. SlotTypes'
  BY <1>0, <1>1, <1>4, <1>11 DEF SlotInv, SlotTypes
<1>13. ConnSlots'
  <2>1. /\ Named("errors")' = Named("errors") /\ Named("connect")' = Named("connect")
        /\ Named("sender")' = Named("sender")
    BY <1>7, NamesApart
  <2> QED BY <1>0, <1>1, <2>1 DEF SlotInv, ConnSlots
<1>14. MemberSlots'
  <2>1. Named("sig")' = Named("sig") /\ Named("function")' = Named("function")
    BY <1>7, NamesApart
  <2> QED BY <1>0, <1>1, <2>1 DEF SlotInv, MemberSlots
<1>15. ASSUME NEW q \in LuaObjs
       PROVE  /\ Named(q)' = IF objs'[q].L THEN {objs'[q].callback, objs'[q].object} \ {NoSlot} ELSE {}
              /\ objs'[q].callback = objs'[q].object => objs'[q].callback = NoSlot
              /\ objs'[q].lib => objs'[q].L /\ (ObjKind[q] # "bind" => objs'[q].callback # NoSlot)
              /\ ObjKind[q] = "bind" => objs'[q].callback = NoSlot /\ objs'[q].object = NoSlot
  <2>1. CASE q = o
    BY <1>2, <1>4, <1>6, <1>9, <1>10, <1>11, <2>1
  <2>2. CASE q # o
    BY <1>0, <1>7, <1>11, <2>2 DEF SlotInv, ObjSlots
  <2> QED BY <2>1, <2>2
<1>16. ObjSlots'
  BY <1>15 DEF ObjSlots
<1>17. FlowInv'
  <2>1. CASE ends = "ok"
    <3>1. PICK kind \in SendErrors : Throws(CollectedOwn(kind))
      BY <2>1 DEF LuaRegister
    <3>2. kind \in ErrorKinds
      BY <3>1 DEF SendErrors, Raisable, ErrorKinds
    <3> QED BY <1>0, <3>1, <3>2, CollectedFacts, ThrowsKeeps
  <2>2. CASE ends # "ok"
    <3>1. UNCHANGED flowVars
      BY <2>2 DEF LuaRegister, flowVars
    <3> QED BY <1>0, <3>1, FlowStays
  <2> QED BY <2>1, <2>2
<1> QED BY <1>12, <1>13, <1>14, <1>16, <1>17 DEF LuaInv, SlotInv

LEMMA AddsKeep ==
  ASSUME LuaInv, NEW o \in LuaObjs, NEW ends \in {"ok", "early", "late"},
         LuaAddMatch(o, ends) \/ LuaAddReply(o, ends)
  PROVE  LuaInv'
<1>0. iface \in Ifaces
  BY RegistryHere DEF LuaInv
<1>1. CASE LuaAddMatch(o, ends)
  <2>1. ObjKind[o] # "bind" /\ LuaRegister(o, ToMatch(o, ends), ends) /\ iface' = iface
    BY <1>1 DEF LuaAddMatch
  <2>2. ToMatch(o, ends) \in {<<>>, <<o>>, <<o, o>>} /\ (ends = "ok" => ToMatch(o, ends) # <<>>)
    BY DEF ToMatch
  <2> HIDE DEF ToMatch
  <2> QED BY <1>0, <2>1, <2>2, RegisterKeeps
<1>2. CASE LuaAddReply(o, ends)
  <2>1. ObjKind[o] # "bind" /\ LuaRegister(o, ToReply(o, ends), ends) /\ iface' = iface
    BY <1>2 DEF LuaAddReply
  <2>2. ToReply(o, ends) \in {<<>>, <<o>>, <<o, o>>} /\ (ends = "ok" => ToReply(o, ends) # <<>>)
    BY DEF ToReply
  <2> QED BY <1>0, <2>1, <2>2, RegisterKeeps
<1> QED BY <1>1, <1>2

LEMMA BindKeeps ==
  ASSUME LuaInv, NEW o \in LuaObjs, LuaBind(o)
  PROVE  LuaInv'
<1>0. iface \in Ifaces
  BY RegistryHere DEF LuaInv
<1> DEFINE whos == <<>>
<1>1. ObjKind[o] = "bind" /\ LuaRegister(o, whos, "ok") /\ iface' = [iface EXCEPT !.binds = @ + 1]
  BY DEF LuaBind
<1>2. whos \in {<<>>, <<o>>, <<o, o>>} /\ whos = <<>>
  OBVIOUS
<1>3. iface' \in Ifaces /\ iface'.refs = iface.refs /\ iface'.made = iface.made
  BY <1>0, <1>1 DEF Ifaces
<1> HIDE DEF whos
<1> QED BY <1>1, <1>2, <1>3, RegisterKeeps

-----------------------------------------------------------------------------
(* The members of an interface *)

MemberWhos == {"sig", "function"}
ReadSteps == [fails : BOOLEAN, whos : Seq(MemberWhos)]

(* Reading a member takes the slot of a function last, if it takes any. *)
FunctionLast(steps) ==
  \/ \A i \in 1..Len(steps) : steps[i].whos = <<>>
  \/ \E m \in 1..Len(steps) : /\ steps[m].whos = <<"function">>
                              /\ \A i \in m + 1..Len(steps) : steps[i].whos = <<>>

StepsRight(steps) ==
  /\ steps \in Seq(ReadSteps)
  /\ (\A i \in DOMAIN steps : ~steps[i].fails) => FunctionLast(steps)

LEMMA StepTypes ==
  /\ \A b \in BOOLEAN : FailsIf(b) \in ReadSteps /\ FailsIf(b).fails = b /\ FailsIf(b).whos = <<>>
  /\ \A w \in MemberWhos : Takes(<<w>>) \in ReadSteps /\ ~Takes(<<w>>).fails /\ Takes(<<w>>).whos = <<w>>
<1> DEFINE T == Seq(MemberWhos)
           none == <<>>
<1>1. none \in T /\ \A w \in MemberWhos : <<w>> \in T
  OBVIOUS
<1>2. ASSUME NEW b \in BOOLEAN
      PROVE  FailsIf(b) \in ReadSteps /\ FailsIf(b).fails = b /\ FailsIf(b).whos = <<>>
  <2>1. FailsIf(b) = [fails |-> b, whos |-> none] /\ ReadSteps = [fails : BOOLEAN, whos : T]
    BY DEF FailsIf, ReadSteps
  <2> HIDE DEF T, none
  <2>2. FailsIf(b) \in ReadSteps /\ FailsIf(b).fails = b /\ FailsIf(b).whos = none
    BY <1>1, <2>1
  <2> QED BY <2>2 DEF none
<1>3. ASSUME NEW w \in MemberWhos
      PROVE  Takes(<<w>>) \in ReadSteps /\ ~Takes(<<w>>).fails /\ Takes(<<w>>).whos = <<w>>
  <2> DEFINE one == <<w>>
  <2>1. Takes(one) = [fails |-> FALSE, whos |-> one] /\ ReadSteps = [fails : BOOLEAN, whos : T]
    BY DEF Takes, ReadSteps
  <2>2. one \in T
    BY <1>1
  <2> HIDE DEF T, one
  <2>3. Takes(one) \in ReadSteps /\ ~Takes(one).fails /\ Takes(one).whos = one
    BY <2>1, <2>2
  <2> QED BY <2>3 DEF one
<1> QED BY <1>2, <1>3

LEMMA FieldSteps ==
  ASSUME NEW f
  PROVE  /\ FunctionField(f) \in ReadSteps /\ UnpackArguments(f) \in ReadSteps
         /\ ~FunctionField(f).fails => f # "bad"
         /\ f = "ok" => FunctionField(f).whos = <<"function">>
         /\ f # "ok" => FunctionField(f).whos = <<>>
BY StepTypes DEF FunctionField, UnpackArguments, MemberWhos

LEMMA MethodSteps ==
  ASSUME NEW t \in MemberTables
  PROVE  StepsRight(UnpackMethod(t))
<1> DEFINE a == KnownFields(t)
           b == UnpackArguments(t.returns)
           c == UnpackArguments(t.arguments)
           d == UnpackAnnotations(t.annotations)
           e == FailsIf(t.flag = "bad")
           f == FunctionField(t.first)
           g == FailsIf(t.first = "none")
           steps == <<a, b, c, d, e, f, g>>
<1>0. t.unknown \in BOOLEAN /\ t.first \in {"none", "bad", "ok"}
  BY LuaAssumption
<1>1. /\ a \in ReadSteps /\ b \in ReadSteps /\ c \in ReadSteps /\ d \in ReadSteps /\ e \in ReadSteps
      /\ f \in ReadSteps /\ g \in ReadSteps
  BY <1>0, StepTypes, FieldSteps DEF KnownFields, UnpackAnnotations
<1>2. g.whos = <<>> /\ (~g.fails /\ ~f.fails => f.whos = <<"function">>)
  BY <1>0, StepTypes, FieldSteps
<1>3. UnpackMethod(t) = steps
  BY DEF UnpackMethod
<1> HIDE DEF a, b, c, d, e, f, g
<1>4. steps \in Seq(ReadSteps) /\ Len(steps) = 7 /\ steps[6] = f /\ steps[7] = g
  BY <1>1
<1>5. (\A i \in DOMAIN steps : ~steps[i].fails) => FunctionLast(steps)
  <2> HAVE \A i \in DOMAIN steps : ~steps[i].fails
  <2>1. steps[6].whos = <<"function">> /\ steps[7].whos = <<>>
    BY <1>2, <1>4
  <2>2. 6 \in 1..Len(steps) /\ \A i \in 6 + 1..Len(steps) : i = 7
    BY <1>4
  <2> HIDE DEF steps
  <2>3. \A i \in 6 + 1..Len(steps) : steps[i].whos = <<>>
    BY <2>1, <2>2
  <2> QED BY <2>1, <2>2, <2>3 DEF FunctionLast
<1> QED BY <1>3, <1>4, <1>5 DEF StepsRight

LEMMA PropertySteps ==
  ASSUME NEW t \in MemberTables
  PROVE  StepsRight(UnpackProperty(t))
<1> DEFINE a == KnownFields(t)
           b == FailsIf(t.flag # "ok")
           c == UnpackAnnotations(t.annotations)
           d == FunctionField(t.first)
           e == FunctionField(t.second)
           f == FailsIf(t.first = "none" /\ t.second = "none")
           steps == <<a, b, c, d, e, f>>
<1>0. t.unknown \in BOOLEAN /\ t.first \in {"none", "bad", "ok"} /\ t.second \in {"none", "bad", "ok"}
  BY LuaAssumption
<1>1. /\ a \in ReadSteps /\ b \in ReadSteps /\ c \in ReadSteps /\ d \in ReadSteps /\ e \in ReadSteps
      /\ f \in ReadSteps
  BY <1>0, StepTypes, FieldSteps DEF KnownFields, UnpackAnnotations
<1>2. /\ f.whos = <<>>
      /\ ~d.fails /\ ~e.fails /\ ~f.fails =>
           \/ e.whos = <<"function">>
           \/ e.whos = <<>> /\ d.whos = <<"function">>
  BY <1>0, StepTypes, FieldSteps
<1>3. UnpackProperty(t) = steps
  BY DEF UnpackProperty
<1> HIDE DEF a, b, c, d, e, f
<1>4. steps \in Seq(ReadSteps) /\ Len(steps) = 6 /\ steps[4] = d /\ steps[5] = e /\ steps[6] = f
  BY <1>1
<1>5. (\A i \in DOMAIN steps : ~steps[i].fails) => FunctionLast(steps)
  <2> HAVE \A i \in DOMAIN steps : ~steps[i].fails
  <2>1. steps[6].whos = <<>> /\ \/ steps[5].whos = <<"function">>
                                \/ steps[5].whos = <<>> /\ steps[4].whos = <<"function">>
    BY <1>2, <1>4
  <2>2. /\ 5 \in 1..Len(steps) /\ 4 \in 1..Len(steps)
        /\ \A i \in 5 + 1..Len(steps) : i = 6
        /\ \A i \in 4 + 1..Len(steps) : i \in {5, 6}
    BY <1>4
  <2> HIDE DEF steps
  <2>3. CASE steps[5].whos = <<"function">>
    <3>1. \A i \in 5 + 1..Len(steps) : steps[i].whos = <<>>
      BY <2>1, <2>2
    <3> QED BY <2>2, <2>3, <3>1 DEF FunctionLast
  <2>4. CASE steps[5].whos = <<>> /\ steps[4].whos = <<"function">>
    <3>1. \A i \in 4 + 1..Len(steps) : steps[i].whos = <<>>
      BY <2>1, <2>2, <2>4
    <3> QED BY <2>2, <2>4, <3>1 DEF FunctionLast
  <2> QED BY <2>1, <2>3, <2>4
<1> QED BY <1>3, <1>4, <1>5 DEF StepsRight

LEMMA SignalSteps ==
  ASSUME NEW t \in MemberTables
  PROVE  StepsRight(UnpackSignal(t))
<1> DEFINE a == KnownFields(t)
           b == FailsIf(t.arguments = "bad")
           c == UnpackAnnotations(t.annotations)
           steps == <<a, b, c>>
<1>0. t.unknown \in BOOLEAN
  BY LuaAssumption
<1>1. /\ a \in ReadSteps /\ b \in ReadSteps /\ c \in ReadSteps
      /\ a.whos = <<>> /\ b.whos = <<>> /\ c.whos = <<>>
  BY <1>0, StepTypes DEF KnownFields, UnpackAnnotations
<1>2. UnpackSignal(t) = steps
  BY DEF UnpackSignal
<1> HIDE DEF a, b, c
<1>3. steps \in Seq(ReadSteps) /\ Len(steps) = 3 /\ steps[1] = a /\ steps[2] = b /\ steps[3] = c
  BY <1>1
<1>4. \A i \in 1..Len(steps) : steps[i].whos = <<>>
  <2>1. \A i \in 1..Len(steps) : i \in {1, 2, 3}
    BY <1>3
  <2> HIDE DEF steps
  <2> QED BY <1>1, <1>3, <2>1
<1> QED BY <1>2, <1>3, <1>4 DEF StepsRight, FunctionLast

(* Lists one behind the other end as the last of them that is not empty. *)
LEMMA FlattenLast ==
  ASSUME NEW S, NEW ss \in Seq(Seq(S)), NEW m \in 1..Len(ss), NEW x \in S, ss[m] = <<x>>,
         \A i \in m + 1..Len(ss) : ss[i] = <<>>
  PROVE  FlattenSeq(ss) # <<>> /\ Last(FlattenSeq(ss)) = x
<1> DEFINE N == Len(ss)
<1>1. PICK K \in [0..N -> Seq(S)] :
        /\ K[0] = <<>>
        /\ \A n \in 1..N : K[n] = K[n - 1] \o ss[n]
        /\ FlattenSeq(ss) = K[N]
  BY FlattenUnfolds
<1>2. N \in Nat
  <2> DEFINE T == Seq(S)
  <2>1. ss \in Seq(T)
    OBVIOUS
  <2> HIDE DEF T
  <2> QED BY <2>1
<1> HIDE DEF N
<1> DEFINE Good == {n \in Nat : n < m \/ (K[n] # <<>> /\ Last(K[n]) = x)}
<1>3. 0 \in Good /\ m \in 1..N /\ \A i \in m + 1..N : ss[i] = <<>>
  BY <1>2 DEF N
<1>4. ASSUME NEW n \in 1..N, n - 1 \in Good PROVE n \in Good
  <2>0. K[n - 1] \in Seq(S) /\ n \in Nat /\ n - 1 \in Nat
    <3>1. n \in Nat /\ n - 1 \in Nat /\ n - 1 \in 0..N
      BY <1>2
    <3> QED BY <1>1, <3>1
  <2>1. CASE n < m
    BY <2>0, <2>1
  <2>2. CASE n = m
    <3>1. K[n] = K[n - 1] \o <<x>>
      BY <1>1, <2>2
    <3> DEFINE q == K[n - 1]
    <3> HIDE DEF q
    <3>2. q \in Seq(S) /\ K[n] = q \o <<x>>
      BY <2>0, <3>1 DEF q
    <3>3. Len(K[n]) = Len(q) + 1 /\ Len(q) \in Nat /\ K[n][Len(q) + 1] = x
      BY <3>2
    <3>4. K[n] # <<>> /\ Last(K[n]) = x
      BY <3>2, <3>3 DEF Last
    <3> QED BY <2>0, <3>4
  <2>3. CASE n > m
    <3>1. ss[n] = <<>>
      BY <1>3, <1>2, <2>3
    <3>2. K[n] = K[n - 1] \o <<>>
      BY <1>1, <3>1
    <3>3. K[n] = K[n - 1]
      BY <2>0, <3>2
    <3>4. ~(n - 1 < m)
      BY <1>3, <2>0, <2>3
    <3> QED BY <1>4, <2>0, <3>3, <3>4
  <2> QED BY <1>3, <2>0, <2>1, <2>2, <2>3
<1>5. N \in Good
  <2>1. Good \in SUBSET Nat /\ \A n \in 1..N : n - 1 \in Good => n \in Good
    BY <1>4
  <2> HIDE DEF Good
  <2>2. \A n \in 0..N : n \in Good
    BY <1>2, <1>3, <2>1, UpTo
  <2> QED BY <1>2, <2>2
<1>6. ~(N < m)
  BY <1>2, <1>3
<1> QED BY <1>1, <1>5, <1>6

LEMMA FlattenNone ==
  ASSUME NEW S, NEW ss \in Seq(Seq(S)), \A i \in 1..Len(ss) : ss[i] = <<>>
  PROVE  FlattenSeq(ss) = <<>>
<1> DEFINE flat == FlattenSeq(ss)
<1>1. flat \in Seq(S) /\ \A x : x \in ToSet(flat) <=> \E i \in 1..Len(ss) : x \in ToSet(ss[i])
  BY FlattenFacts
<1>2. ToSet(<<>>) = {}
  BY DEF ToSet
<1>3. \A x : x \notin ToSet(flat)
  BY <1>1, <1>2
<1> HIDE DEF flat
<1>4. flat = <<>>
  <2>1. Len(flat) \in Nat /\ (Len(flat) # 0 => flat[1] \in ToSet(flat))
    BY <1>1 DEF ToSet
  <2> QED BY <1>1, <1>3, <2>1
<1> QED BY <1>4 DEF flat

(* What is read before a step fails. *)
ReadWhos(steps) ==
  LET done(i) == \A j \in 1..i : ~steps[j].fails
  IN  FlattenSeq([i \in DOMAIN steps |-> IF done(i) THEN steps[i].whos ELSE <<>>])

LEMMA ReadWhosFacts ==
  ASSUME NEW steps, StepsRight(steps)
  PROVE  /\ ReadWhos(steps) \in Seq(MemberWhos)
         /\ (\A i \in DOMAIN steps : ~steps[i].fails) /\ ReadWhos(steps) # <<>> =>
              Last(ReadWhos(steps)) = "function"
<1> DEFINE N == Len(steps)
           T == Seq(MemberWhos)
           done(i) == \A j \in 1..i : ~steps[j].fails
           ss == [i \in 1..N |-> IF done(i) THEN steps[i].whos ELSE <<>>]
           flat == FlattenSeq(ss)
<1>1. steps \in Seq(ReadSteps) /\ N \in Nat /\ DOMAIN steps = 1..N
  BY DEF StepsRight
<1>2. ReadWhos(steps) = flat
  BY <1>1 DEF ReadWhos
<1>3. ss \in Seq(T) /\ Len(ss) = N
  <2>1. \A i \in 1..N : steps[i].whos \in T
    <3>1. ReadSteps = [fails : BOOLEAN, whos : T]
      BY DEF ReadSteps
    <3> HIDE DEF T
    <3>2. \A x \in ReadSteps : x.whos \in T
      BY <3>1
    <3>3. \A i \in 1..N : steps[i] \in ReadSteps
      BY <1>1
    <3> QED BY <3>2, <3>3
  <2>2. <<>> \in T
    OBVIOUS
  <2> DEFINE none == <<>>
             choice(i) == IF done(i) THEN steps[i].whos ELSE none
  <2>3. ss = [i \in 1..N |-> choice(i)] /\ none \in T
    BY <2>2
  <2> HIDE DEF T, none, ss, N, done
  <2>4. ss \in [1..N -> T]
    BY <2>1, <2>3
  <2> QED BY <1>1, <2>4
<1>4. flat \in T
  <2>1. ss \in Seq(Seq(MemberWhos))
    BY <1>3
  <2> HIDE DEF ss
  <2> QED BY <2>1, FlattenFacts
<1>5. ASSUME \A i \in DOMAIN steps : ~steps[i].fails, flat # <<>> PROVE Last(flat) = "function"
  <2>1. FunctionLast(steps)
    BY <1>5 DEF StepsRight
  <2>2. \A i \in 1..N : ss[i] = steps[i].whos
    <3> TAKE i \in 1..N
    <3>1. done(i)
      BY <1>1, <1>5
    <3> QED BY <3>1
  <2>3. ss \in Seq(Seq(MemberWhos)) /\ Len(ss) = N
    BY <1>3
  <2> HIDE DEF ss
  <2>4. PICK m \in 1..N : steps[m].whos = <<"function">> /\ \A i \in m + 1..N : steps[i].whos = <<>>
    <3>1. ~ \A i \in 1..N : steps[i].whos = <<>>
      BY <1>5, <2>2, <2>3, FlattenNone
    <3> QED BY <2>1, <3>1 DEF FunctionLast
  <2>5. m \in 1..Len(ss) /\ ss[m] = <<"function">> /\ \A i \in m + 1..Len(ss) : ss[i] = <<>>
    <3>1. m \in 1..N /\ \A i \in m + 1..N : i \in 1..N
      BY <1>1
    <3> HIDE DEF N
    <3> QED BY <2>2, <2>3, <2>4, <3>1
  <2>6. "function" \in MemberWhos
    BY DEF MemberWhos
  <2> QED BY <2>3, <2>5, <2>6, FlattenLast
<1> HIDE DEF ss
<1> QED BY <1>2, <1>4, <1>5

LEMMA NewInterfaceKeeps ==
  ASSUME LuaInv, NEW kind \in {"method", "property", "signal"}, NEW steps, StepsRight(steps),
         NewInterface(kind, steps)
  PROVE  LuaInv'
<1> DEFINE ok == \A i \in DOMAIN steps : ~steps[i].fails
           whos == ReadWhos(steps)
           r == RefAll(registry, whos)
           refs == r.refs
           kept == IF ok THEN refs ELSE <<>>
<1>0. FlowInv /\ SlotInv
  BY DEF LuaInv
<1>1. /\ ~iface.made /\ registry' = r.reg
      /\ iface' = [kind |-> IF ok THEN kind ELSE "none", made |-> TRUE, held |-> ok, binds |-> 0, refs |-> kept]
      /\ leaked' = (IF ok THEN leaked ELSE leaked \cup ToSet(refs))
      /\ UNCHANGED <<lconn, objs>> /\ UNCHANGED flowVars
  BY DEF NewInterface, ReadWhos, flowVars
<1>2. whos \in Seq(MemberWhos) /\ (ok /\ whos # <<>> => Last(whos) = "function")
  BY ReadWhosFacts
<1> HIDE DEF whos
<1>3. whos \in Seq(Whos)
  BY <1>2 DEF MemberWhos, Whos
<1>4. AllRight(registry, whos, Len(whos), r)
  BY <1>0, <1>3, RegistryHere, RefAllFacts
<1> HIDE DEF r
<1>5. /\ IsRegistry(registry') /\ refs \in Seq(LuaSlots) /\ Len(refs) = Len(whos) /\ Once(refs)
      /\ DOMAIN registry' = DOMAIN registry \cup ToSet(refs) /\ ToSet(refs) \cap DOMAIN registry = {}
      /\ \A i \in 1..Len(whos) : refs[i][1] = whos[i]
  BY <1>1, <1>4 DEF AllRight
<1>6. \A s \in ToSet(refs) : s[1] \in MemberWhos /\ s \in LuaSlots
  <2>1. \A i \in 1..Len(whos) : whos[i] \in MemberWhos
    BY <1>2
  <2> QED BY <1>5, <2>1 DEF ToSet
<1> HIDE DEF refs
<1>7. \A who : who \notin MemberWhos => Named(who)' = Named(who)
  BY <1>0, <1>5, <1>6, OthersStay, RegistryHere
<1>8. iface.refs = <<>> /\ ToSet(<<>>) = {} /\ Once(<<>>)
  BY <1>0, <1>1 DEF SlotInv, MemberSlots, ToSet, Once
<1>9. Named("sig") \cup Named("function") = leaked
  BY <1>0, <1>8 DEF SlotInv, MemberSlots
<1>10. Named("sig")' \cup Named("function")' = leaked \cup ToSet(refs)
  <2>1. \A s : s \in Named("sig")' \cup Named("function")' <=>
                 s \in Named("sig") \cup Named("function") \/ s \in ToSet(refs)
    BY <1>5, <1>6 DEF Named, MemberWhos
  <2> QED BY <1>9, <2>1
<1>11. leaked \subseteq DOMAIN registry
  BY <1>9 DEF Named
<1> HIDE DEF Named
<1>12. /\ iface' \in Ifaces /\ iface'.refs = kept /\ iface'.made
  <2> DEFINE T == Seq(LuaSlots)
             none == <<>>
  <2>1. /\ none \in T /\ Ifaces = [kind : {"none", "method", "property", "signal"}, held : BOOLEAN,
                                   binds : Int, refs : T, made : BOOLEAN]
        /\ kept = (IF ok THEN refs ELSE none) /\ refs \in T
    BY <1>5 DEF Ifaces
  <2>2. kept \in T /\ ok \in BOOLEAN
    <3> HIDE DEF T, none
    <3> QED BY <2>1
  <2> HIDE DEF T, none, kept, ok
  <2> QED BY <1>1, <2>1, <2>2
<1>13. refs # <<>> /\ ok => Last(refs)[1] = "function"
  <2> HAVE refs # <<>> /\ ok
  <2>1. Len(refs) \in Nat \ {0}
    BY <1>5
  <2>2. whos # <<>> /\ Len(whos) \in 1..Len(whos)
    BY <1>5, <2>1
  <2> QED BY <1>2, <1>5, <2>2 DEF Last
<1>14. MemberSlots'
  <2>1. CASE ok
    BY <1>1, <1>5, <1>10, <1>11, <1>12, <1>13, <2>1 DEF MemberSlots
  <2>2. CASE ~ok
    BY <1>1, <1>8, <1>10, <1>12, <2>2 DEF MemberSlots
  <2> QED BY <2>1, <2>2
<1>15. ObjSlots' /\ ConnSlots'
  <2>1. /\ Named("errors")' = Named("errors") /\ Named("connect")' = Named("connect")
        /\ Named("sender")' = Named("sender")
    BY <1>7 DEF MemberWhos
  <2>2. \A o \in LuaObjs : Named(o)' = Named(o)
    BY <1>7, NamesApart DEF MemberWhos
  <2> QED BY <1>0, <1>1, <2>1, <2>2 DEF SlotInv, ConnSlots, ObjSlots
<1>16. SlotTypes'
  <2>1. leaked' \subseteq LuaSlots
    BY <1>0, <1>1, <1>6 DEF SlotInv, SlotTypes
  <2> QED BY <1>0, <1>1, <1>5, <1>12, <2>1 DEF SlotInv, SlotTypes
<1>17. FlowInv'
  BY <1>0, <1>1, FlowStays
<1> QED BY <1>14, <1>15, <1>16, <1>17 DEF LuaInv, SlotInv

-----------------------------------------------------------------------------
(* Callbacks *)

LEMMA ParseKeeps ==
  ASSUME LuaInv, NEW o \in LuaObjs, LuaParse(o)
  PROVE  LuaInv'
<1> DEFINE slot == IF ObjKind[o] = "bind" THEN Last(iface.refs) ELSE objs[o].callback
           who == IF ObjKind[o] = "bind" THEN "function" ELSE o
           call == [for |-> o, runs |-> registry[slot]]
<1>0. FlowInv /\ SlotInv
  BY DEF LuaInv
<1>1. /\ objs[o].lib /\ (ObjKind[o] = "bind" => iface.refs # <<>>)
      /\ frames' = Append(frames, call)
      /\ UNCHANGED slotVars /\ UNCHANGED <<lphase, errs>>
  BY DEF LuaParse, Registered, slotVars
<1>2. slot \in DOMAIN registry /\ slot[1] = who
  <2>1. CASE ObjKind[o] = "bind"
    <3>1. iface.refs \in Seq(LuaSlots) /\ iface.refs # <<>>
      BY <1>0, <1>1, <2>1, RegistryHere DEF Ifaces
    <3>2. Last(iface.refs) \in ToSet(iface.refs)
      BY <3>1 DEF Last, ToSet
    <3>3. Last(iface.refs)[1] = "function"
      BY <1>0, <3>1 DEF SlotInv, MemberSlots
    <3> QED BY <1>0, <2>1, <3>2, <3>3, SlotNames
  <2>2. CASE ObjKind[o] # "bind"
    <3>1. objs[o].L /\ objs[o].callback # NoSlot /\ objs[o].callback \in ObjRefs(o)
      BY <1>0, <1>1, <2>2 DEF SlotInv, ObjSlots, ObjRefs
    <3> QED BY <1>0, <2>2, <3>1, SlotNames
  <2> QED BY <2>1, <2>2
<1> HIDE DEF slot
<1>3. registry[slot] = who
  BY <1>0, <1>2, RegistryHere DEF IsRegistry
<1>4. call = [for |-> o, runs |-> who] /\ who \in Whos
  BY <1>3 DEF Whos
<1>5. call \in LuaFrames /\ call.for = o /\ call.runs = who
  <2> HIDE DEF who, call
  <2> QED BY <1>4 DEF LuaFrames
<1> HIDE DEF call
<1>6. /\ frames \in Seq(LuaFrames) /\ OwnFunctionRuns
  BY <1>0 DEF FlowInv
<1>7. /\ frames' \in Seq(LuaFrames) /\ Len(frames') = Len(frames) + 1
      /\ \A i \in 1..Len(frames) : frames'[i] = frames[i]
      /\ frames'[Len(frames) + 1] = call
  BY <1>1, <1>5, <1>6
<1>8. OwnFunctionRuns'
  <2>1. \A i \in DOMAIN frames' : i \in DOMAIN frames \/ i = Len(frames) + 1
    BY <1>6, <1>7
  <2>2. \A i \in DOMAIN frames : frames'[i] = frames[i]
    BY <1>6, <1>7
  <2> QED BY <1>5, <1>6, <1>7, <2>1, <2>2 DEF OwnFunctionRuns
<1>9. frames' # <<>>
  BY <1>6, <1>7
<1>10. FlowInv'
  BY <1>0, <1>1, <1>7, <1>8, <1>9 DEF FlowInv
<1> QED BY <1>0, <1>1, <1>10, SlotsStay DEF LuaInv

LEMMA EndsKeepAll ==
  ASSUME LuaInv, NEW kind \in ErrorKinds, CallbackEnds(kind) \/ MethodEnds(kind) \/ PropertyEnds(kind)
  PROVE  LuaInv'
<1>1. frames # <<>> /\ LuaEnds(kind)
  BY DEF CallbackEnds, MethodEnds, PropertyEnds
<1>2. UNCHANGED slotVars
  BY <1>1 DEF LuaEnds, slotVars
<1> QED BY <1>1, <1>2, EndsKeep, SlotsStay DEF LuaInv

(* The calls of the connection. *)
LEMMA CallsKeep ==
  ASSUME LuaInv,
         SetSender \/ (\E fn \in BOOLEAN : LuaConnect(fn)) \/ LuaConnected \/ LuaSend \/ FreeInterface
  PROVE  LuaInv'
<1>0. FlowInv /\ SlotInv /\ SendErrors \subseteq ErrorKinds /\ Raisable \subseteq ErrorKinds
  BY DEF LuaInv, SendErrors, Raisable, ErrorKinds
<1>1. CASE SetSender
  <2>1. UNCHANGED flowVars
    BY <1>1 DEF SetSender, flowVars
  <2> QED BY <1>0, <1>1, <2>1, SetSenderKeeps, FlowStays DEF LuaInv
<1>2. ASSUME NEW fn \in BOOLEAN, LuaConnect(fn) PROVE LuaInv'
  <2>1. /\ UNCHANGED <<frames, lphase>>
        /\ errs' = errs \/ \E kind \in SendErrors : errs' = CollectedOwn(kind)
    BY <1>2 DEF LuaConnect
  <2>2. FlowInv'
    BY <1>0, <2>1, CollectedFacts DEF FlowInv, OwnFunctionRuns
  <2> QED BY <1>0, <1>2, <2>2, ConnectKeepsSlots DEF LuaInv
<1>3. CASE LuaConnected
  <2>1. PICK kind \in ErrorKinds : Throws(CollectedOwn(kind))
    <3>1. {"none"} \subseteq ErrorKinds
      BY DEF ErrorKinds
    <3> QED BY <1>0, <1>3, <3>1 DEF LuaConnected
  <2>2. lconn' = [lconn EXCEPT !.hello = "done"] /\ UNCHANGED <<registry, objs, iface, leaked>>
    BY <1>3 DEF LuaConnected
  <2>3. FlowInv'
    BY <1>0, <2>1, CollectedFacts, ThrowsKeeps
  <2>4. /\ lconn' \in LuaConns /\ lconn'.open = lconn.open /\ lconn'.set = lconn.set
        /\ lconn'.errors = lconn.errors /\ lconn'.sender = lconn.sender /\ lconn'.connect = lconn.connect
    BY <1>0, <2>2, RegistryHere DEF LuaConns
  <2>5. \A who : Named(who)' = Named(who)
    BY <2>2 DEF Named
  <2>6. SlotTypes'
    BY <1>0, <2>2, <2>4 DEF SlotInv, SlotTypes, IsRegistry
  <2>7. ConnSlots' /\ ObjSlots' /\ MemberSlots'
    <3> HIDE DEF Named
    <3> QED BY <1>0, <2>2, <2>4, <2>5 DEF SlotInv, ConnSlots, ObjSlots, MemberSlots
  <2> QED BY <2>3, <2>6, <2>7 DEF LuaInv, SlotInv
<1>4. CASE LuaSend
  <2>1. PICK kind \in SendErrors : Throws(CollectedOwn(kind))
    BY <1>4 DEF LuaSend
  <2>2. UNCHANGED slotVars
    BY <1>4 DEF LuaSend, slotVars
  <2>3. FlowInv'
    BY <1>0, <2>1, CollectedFacts, ThrowsKeeps
  <2> QED BY <1>0, <2>2, <2>3, SlotsStay DEF LuaInv
<1>5. CASE FreeInterface
  <2>1. UNCHANGED flowVars
    BY <1>5 DEF FreeInterface, flowVars
  <2> QED BY <1>0, <1>5, <2>1, FreeInterfaceKeeps, FlowStays DEF LuaInv
<1> QED BY <1>1, <1>2, <1>3, <1>4, <1>5

(* The start: the connection has the slot of its list. *)
LEMMA LuaStarts == LuaInit => LuaInv
<1> HAVE LuaInit
<1> DEFINE list == <<"errors", 1>>
           none == <<>>
           r == Ref(none, "errors")
<1>1. /\ registry = r.reg
      /\ objs = [o \in LuaObjs |-> NoObject]
      /\ iface = [kind |-> "none", held |-> FALSE, binds |-> 0, refs |-> none, made |-> FALSE]
      /\ frames = <<>> /\ lphase = "lua"
      /\ errs = [raised |-> 0, texts |-> 0, values |-> 0, thrown |-> 0, masked |-> 0, lost |-> 0, odd |-> {}]
      /\ leaked = {}
  BY DEF LuaInit
<1>2. PICK s \in {NoSlot, list}, c \in {NoSlot, list} :
        lconn = [open |-> TRUE, errors |-> list, sender |-> s, connect |-> c, set |-> {}, hello |-> "no"]
  BY DEF LuaInit
<1>3. DOMAIN none = {}
  OBVIOUS
<1>4. r.ref = list /\ DOMAIN r.reg = {list} /\ r.reg[list] = "errors"
  <2> DEFINE Free(n) == <<"errors", n>> \notin DOMAIN none /\ \A k \in 1..n - 1 : <<"errors", k>> \in DOMAIN none
             n == CHOOSE n \in 1..Cardinality(DOMAIN none) + 1 : Free(n)
             new == [slot \in DOMAIN none \cup {<<"errors", n>>} |->
                       IF slot = <<"errors", n>> THEN "errors" ELSE none[slot]]
  <2>1. r = [reg |-> new, ref |-> <<"errors", n>>]
    BY Zenon DEF Ref
  <2>2. Cardinality(DOMAIN none) = 0
    BY <1>3, FS_EmptySet
  <2>3. n = 1
    <3>1. Free(1) /\ 1 \in 1..Cardinality(DOMAIN none) + 1
      BY <1>3, <2>2
    <3>2. \A m \in 1..Cardinality(DOMAIN none) + 1 : m = 1
      BY <2>2
    <3> HIDE DEF Free
    <3> QED BY <3>1, <3>2
  <2> HIDE DEF n
  <2>4. new = [slot \in {list} |-> "errors"]
    BY <1>3, <2>3
  <2> HIDE DEF new, r
  <2> QED BY <2>1, <2>3, <2>4
<1> HIDE DEF r
<1>5. IsRegistry(registry)
  <2>1. list \in LuaSlots /\ list[1] = "errors"
    BY DEF LuaSlots, Whos
  <2>2. IsFiniteSet({list})
    BY FS_Singleton
  <2> HIDE DEF list
  <2> QED BY <1>1, <1>4, <2>1, <2>2 DEF IsRegistry
<1>6. list \in LuaSlots /\ list # NoSlot /\ list[1] = "errors"
  BY DEF LuaSlots, Whos, NoSlot
<1> HIDE DEF list
<1>7. SlotTypes
  <2>1. lconn \in LuaConns
    BY <1>2, <1>6 DEF LuaConns, MaybeSlot
  <2>2. objs \in [LuaObjs -> Objects]
    BY <1>1 DEF NoObject, Objects, MaybeSlot
  <2>3. iface \in Ifaces
    <3> DEFINE T == Seq(LuaSlots)
    <3>1. none \in T /\ Ifaces = [kind : {"none", "method", "property", "signal"}, held : BOOLEAN,
                                  binds : Int, refs : T, made : BOOLEAN]
      BY DEF Ifaces
    <3> HIDE DEF T, none
    <3> QED BY <1>1, <3>1
  <2> QED BY <1>1, <1>5, <2>1, <2>2, <2>3 DEF SlotTypes
<1>8. Named("errors") = {list} /\ \A who : who # "errors" => Named(who) = {}
  BY <1>1, <1>4, <1>6 DEF Named
<1> HIDE DEF Named
<1>9. ConnSlots
  BY <1>2, <1>6, <1>8, NamesApart DEF ConnSlots
<1>10. ObjSlots
  <2>1. \A o \in LuaObjs : Named(o) = {} /\ objs[o] = NoObject
    BY <1>1, <1>8, NamesApart
  <2> QED BY <2>1 DEF ObjSlots, NoObject
<1>11. MemberSlots
  <2>1. Named("sig") = {} /\ Named("function") = {}
    BY <1>8
  <2>2. ToSet(<<>>) = {} /\ Once(<<>>)
    BY DEF ToSet, Once
  <2> QED BY <1>1, <2>1, <2>2 DEF MemberSlots
<1>12. FlowInv
  <2>1. ErrsRight(errs)
    BY <1>1 DEF ErrsRight, LuaErrs
  <2> QED BY <1>1, <2>1 DEF FlowInv, OwnFunctionRuns
<1> QED BY <1>7, <1>9, <1>10, <1>11, <1>12 DEF LuaInv, SlotInv

LEMMA LuaStep == LuaInv /\ [LuaNext]_luaVars => LuaInv'
<1> SUFFICES ASSUME LuaInv, [LuaNext]_luaVars PROVE LuaInv'
  OBVIOUS
<1>1. CASE SetSender \/ (\E fn \in BOOLEAN : LuaConnect(fn)) \/ LuaConnected \/ LuaSend \/ FreeInterface
  BY <1>1, CallsKeep
<1>2. CASE CloseConnection
  BY <1>2, CloseConnectionKeeps
<1>3. CASE ParseReturns
  BY <1>3, ParseReturnsKeeps
<1>4. ASSUME NEW t \in MemberTables,
             \/ NewInterface("method", UnpackMethod(t))
             \/ NewInterface("property", UnpackProperty(t))
             \/ NewInterface("signal", UnpackSignal(t))
      PROVE  LuaInv'
  BY <1>4, MethodSteps, PropertySteps, SignalSteps, NewInterfaceKeeps
<1>5. ASSUME NEW o \in LuaObjs, NEW ends \in {"ok", "early", "late"},
             LuaAddMatch(o, ends) \/ LuaAddReply(o, ends)
      PROVE  LuaInv'
  BY <1>5, AddsKeep
<1>6. ASSUME NEW o \in LuaObjs, LuaBind(o) PROVE LuaInv'
  BY <1>6, BindKeeps
<1>7. ASSUME NEW o \in LuaObjs, NEW collect \in BOOLEAN, CloseObject(o, collect) PROVE LuaInv'
  BY <1>7, CloseObjectKeeps
<1>8. ASSUME NEW o \in LuaObjs, LuaParse(o) PROVE LuaInv'
  BY <1>8, ParseKeeps
<1>9. ASSUME NEW kind \in ErrorKinds, CallbackEnds(kind) \/ MethodEnds(kind) \/ PropertyEnds(kind)
      PROVE  LuaInv'
  BY <1>9, EndsKeepAll
<1>10. CASE UNCHANGED luaVars
  <2>1. UNCHANGED slotVars /\ UNCHANGED flowVars
    BY <1>10 DEF luaVars, slotVars, flowVars
  <2> QED BY <2>1, SlotsStay, FlowStays DEF LuaInv
<1> QED BY <1>1, <1>2, <1>3, <1>4, <1>5, <1>6, <1>7, <1>8, <1>9, <1>10 DEF LuaNext, ErrorKinds

-----------------------------------------------------------------------------
(* How a program ends *)

(* The reason is there when the program ends, and nothing happens after that. *)
LEMMA StopsKeep == LuaInv /\ StopsForAReason /\ [LuaNext]_luaVars => StopsForAReason'
<1> SUFFICES ASSUME LuaInv, StopsForAReason, [LuaNext]_luaVars PROVE StopsForAReason'
  OBVIOUS
<1>0. SlotInv /\ FlowInv
  BY DEF LuaInv
<1>1. CASE stopped.how = "no" /\ UNCHANGED stopped
  BY <1>1 DEF StopsForAReason
<1>2. CASE SetSender /\ ~SenderKnown
  <2>1. stopped' = [how |-> "spoiled", by |-> "sender"] /\ lconn' = lconn
    BY <1>2 DEF SetSender, LuaStops
  <2> QED BY <1>2, <2>1 DEF StopsForAReason, SenderKnown
<1>3. ASSUME NEW fn \in BOOLEAN, LuaConnect(fn) PROVE StopsForAReason'
  <2>1. CASE ~ConnectKnown /\ LuaStops("spoiled", "connect") /\ lconn' = lconn
    BY <2>1 DEF StopsForAReason, ConnectKnown, LuaStops
  <2>2. CASE ~ConnectedOnce /\ LuaStops("broken", "connect") /\ lconn' = lconn
    BY <2>2 DEF StopsForAReason, ConnectedOnce, LuaStops
  <2>3. CASE UNCHANGED stopped
    BY <1>1, <1>3, <2>3 DEF LuaConnect, LuaRuns
  <2> QED BY <1>3, <2>1, <2>2, <2>3 DEF LuaConnect
<1>4. ASSUME NEW o \in LuaObjs, NEW collect \in BOOLEAN, CloseObject(o, collect) PROVE StopsForAReason'
  <2>1. CASE UNCHANGED stopped
    BY <1>1, <1>4, <2>1 DEF CloseObject, LuaRuns
  <2>2. CASE ~lconn.open /\ LuaStops("broken", o)
    <3>1. stopped' = [how |-> "broken", by |-> o] /\ lconn' = lconn
      BY <1>4, <2>2 DEF CloseObject, LuaStops
    <3> QED BY <2>2, <3>1 DEF StopsForAReason
  <2> DEFINE found == DOMAIN (IF objs[o].lib THEN LuaReleased(registry, {o}) ELSE registry)
  <2>3. CASE objs[o].L /\ ~(ObjRefs(o) \ {NoSlot} \subseteq found) /\ LuaStops("spoiled", o) /\ objs' = objs
    <3>1. objs[o].lib
      <4>1. SUFFICES ASSUME ~objs[o].lib PROVE FALSE
        OBVIOUS
      <4>2. found = DOMAIN registry
        BY <4>1
      <4> HIDE DEF found
      <4> QED BY <1>0, <2>3, <4>2, SlotNames
    <3>2. ObjKind[o] # "bind"
      BY <1>0, <2>3 DEF SlotInv, ObjSlots, ObjRefs
    <3>3. stopped' = [how |-> "spoiled", by |-> o] /\ o \in Registered'
      BY <2>3, <3>1 DEF LuaStops, Registered
    <3> QED BY <3>2, <3>3 DEF StopsForAReason
  <2> QED BY <1>4, <2>1, <2>2, <2>3 DEF CloseObject
<1>5. CASE ParseReturns /\ ~lconn.open
  <2>1. stopped' = [how |-> "broken", by |-> Last(frames).for] /\ lconn' = lconn
    BY <1>5 DEF ParseReturns, LuaStops
  <2> QED BY <1>5, <2>1 DEF StopsForAReason
<1>6. CASE CloseConnection /\ (~SenderKnown \/ ~ConnectKnown)
  <2>1. /\ stopped' = [how |-> "spoiled", by |-> IF SenderKnown THEN "connect" ELSE "sender"]
        /\ lconn' = lconn
    BY <1>6 DEF CloseConnection, LuaStops
  <2>2. (SenderKnown' <=> SenderKnown) /\ (ConnectKnown' <=> ConnectKnown)
    BY <2>1 DEF SenderKnown, ConnectKnown
  <2> HIDE DEF SenderKnown, ConnectKnown
  <2> QED BY <1>6, <2>1, <2>2 DEF StopsForAReason
<1>7. CASE UNCHANGED luaVars
  BY <1>7 DEF StopsForAReason, luaVars, Registered, SenderKnown, ConnectKnown, ConnectedOnce
<1>8. CASE LuaConnected \/ LuaSend \/ FreeInterface \/ (SetSender /\ SenderKnown)
           \/ (CloseConnection /\ SenderKnown /\ ConnectKnown) \/ (ParseReturns /\ lconn.open)
  <2>1. stopped.how = "no" /\ UNCHANGED stopped
    BY <1>8 DEF LuaConnected, LuaSend, FreeInterface, SetSender, CloseConnection, ParseReturns, LuaRuns
  <2> QED BY <1>1, <2>1
<1>9. ASSUME NEW kind, NEW steps, NewInterface(kind, steps) PROVE StopsForAReason'
  BY <1>1, <1>9 DEF NewInterface, LuaRuns
<1>10. ASSUME NEW o \in LuaObjs, NEW whos, NEW ends, LuaRegister(o, whos, ends) PROVE StopsForAReason'
  BY <1>1, <1>10 DEF LuaRegister, LuaRuns
<1>11. ASSUME NEW o \in LuaObjs, LuaParse(o) PROVE StopsForAReason'
  BY <1>1, <1>11 DEF LuaParse, LuaRuns
<1>12. ASSUME NEW kind, LuaEnds(kind) PROVE StopsForAReason'
  BY <1>1, <1>12 DEF LuaEnds, LuaRuns
<1> HIDE DEF StopsForAReason
<1> QED BY <1>2, <1>3, <1>4, <1>5, <1>6, <1>7, <1>8, <1>9, <1>10, <1>11, <1>12
        DEF LuaNext, LuaAddMatch, LuaAddReply, LuaBind, CallbackEnds, MethodEnds, PropertyEnds

-----------------------------------------------------------------------------
(* The holders of slots *)

ByConnection(c, f) == lconn.open /\ c = <<"connection", f, lconn[f]>> /\ c[3] \in Named(f)
ByInterface(c, i) == i \in DOMAIN iface.refs /\ c = <<"interface", i, iface.refs[i]>>
ByCallback(c, o) == objs[o].L /\ c = <<"callback", o, objs[o].callback>> /\ c[3] \in Named(o)
ByObject(c, o) == objs[o].L /\ c = <<"object", o, objs[o].object>> /\ c[3] \in Named(o)
ByNobody(c) == c[3] \in leaked /\ c = <<"nobody", 0, c[3]>>

ConnNames == {"errors", "connect", "sender"}

LEMMA ClaimOrigins ==
  ASSUME SlotInv, NEW c \in Claims
  PROVE  \/ \E f \in ConnNames : ByConnection(c, f)
         \/ \E i : ByInterface(c, i)
         \/ \E o \in LuaObjs : ByCallback(c, o)
         \/ \E o \in LuaObjs : ByObject(c, o)
         \/ ByNobody(c)
<1> DEFINE fields == IF ~lconn.open THEN {}
                     ELSE {"errors"} \cup lconn.set
<1>0. c[3] # NoSlot
  BY DEF Claims
<1>1. \/ \E f \in fields : c = <<"connection", f, lconn[f]>>
      \/ \E i \in DOMAIN iface.refs : c = <<"interface", i, iface.refs[i]>>
      \/ \E o \in LuaObjs : objs[o].L /\ c = <<"callback", o, objs[o].callback>>
      \/ \E o \in LuaObjs : objs[o].L /\ c = <<"object", o, objs[o].object>>
      \/ \E slot \in leaked : c = <<"nobody", 0, slot>>
  BY DEF Claims
<1>2. ASSUME NEW f \in fields, c = <<"connection", f, lconn[f]>>
      PROVE  f \in ConnNames /\ ByConnection(c, f)
  <2>1. lconn.open /\ f \in ConnNames /\ (f # "errors" => f \in lconn.set)
    BY <1>2, RegistryHere DEF ConnNames, LuaConns
  <2>2. c[3] = lconn[f]
    BY <1>2
  <2>3. lconn[f] \in Named(f)
    <3>1. CASE f = "errors"
      BY <1>0, <2>1, <2>2, <3>1 DEF SlotInv, ConnSlots
    <3>2. CASE f = "connect"
      BY <1>0, <2>1, <2>2, <3>2 DEF SlotInv, ConnSlots
    <3>3. CASE f = "sender"
      BY <1>0, <2>1, <2>2, <3>3 DEF SlotInv, ConnSlots
    <3> QED BY <2>1, <3>1, <3>2, <3>3 DEF ConnNames
  <2> QED BY <1>2, <2>1, <2>2, <2>3 DEF ByConnection
<1>3. ASSUME NEW i \in DOMAIN iface.refs, c = <<"interface", i, iface.refs[i]>> PROVE ByInterface(c, i)
  BY <1>3 DEF ByInterface
<1>4. ASSUME NEW o \in LuaObjs, objs[o].L
      PROVE  Named(o) = {objs[o].callback, objs[o].object} \ {NoSlot}
  BY <1>4 DEF SlotInv, ObjSlots
<1>5. ASSUME NEW o \in LuaObjs, objs[o].L, c = <<"callback", o, objs[o].callback>> PROVE ByCallback(c, o)
  BY <1>0, <1>4, <1>5 DEF ByCallback
<1>6. ASSUME NEW o \in LuaObjs, objs[o].L, c = <<"object", o, objs[o].object>> PROVE ByObject(c, o)
  BY <1>0, <1>4, <1>6 DEF ByObject
<1>7. ASSUME NEW slot \in leaked, c = <<"nobody", 0, slot>> PROVE ByNobody(c)
  BY <1>7 DEF ByNobody
<1> HIDE DEF fields
<1> QED BY <1>1, <1>2, <1>3, <1>5, <1>6, <1>7

(* The name of a slot tells who holds it. *)
LEMMA ClaimNames ==
  ASSUME SlotInv, NEW c
  PROVE  /\ \A f : ByConnection(c, f) => c[3] \in DOMAIN registry /\ c[3][1] = f
         /\ \A i : ByInterface(c, i) => c[3] \in DOMAIN registry /\ c[3][1] \in MemberWhos /\ c[3] \notin leaked
         /\ \A o : ByCallback(c, o) \/ ByObject(c, o) => c[3] \in DOMAIN registry /\ c[3][1] = o
         /\ ByNobody(c) => c[3] \in DOMAIN registry /\ c[3][1] \in MemberWhos
<1>1. ASSUME NEW i, ByInterface(c, i)
      PROVE  c[3] \in DOMAIN registry /\ c[3][1] \in MemberWhos /\ c[3] \notin leaked
  <2>1. c[3] \in ToSet(iface.refs)
    BY <1>1 DEF ByInterface, ToSet
  <2> QED BY <2>1, SlotNames DEF MemberWhos, SlotInv, MemberSlots
<1>2. ByNobody(c) => c[3] \in DOMAIN registry /\ c[3][1] \in MemberWhos
  BY SlotNames DEF ByNobody, MemberWhos
<1>3. \A f : ByConnection(c, f) => c[3] \in DOMAIN registry /\ c[3][1] = f
  BY DEF ByConnection, Named
<1>4. \A o : ByCallback(c, o) \/ ByObject(c, o) => c[3] \in DOMAIN registry /\ c[3][1] = o
  BY DEF ByCallback, ByObject, Named
<1> QED BY <1>1, <1>2, <1>3, <1>4

LEMMA HoldersApart ==
  \A x : /\ x \in ConnNames => x \notin MemberWhos /\ x \notin LuaObjs
         /\ x \in MemberWhos => x \notin LuaObjs
BY NamesApart DEF ConnNames, MemberWhos

LEMMA OneHolder ==
  ASSUME SlotInv, NEW c \in Claims, NEW d \in Claims, c[3] = d[3]
  PROVE  c = d
<1> DEFINE who == c[3][1]
<1>1. /\ \A f : ByConnection(c, f) => who = f
      /\ \A i : ByInterface(c, i) => who \in MemberWhos /\ c[3] \notin leaked
      /\ \A o : ByCallback(c, o) \/ ByObject(c, o) => who = o
      /\ ByNobody(c) => who \in MemberWhos
  BY ClaimNames
<1>2. /\ \A f : ByConnection(d, f) => who = f
      /\ \A i : ByInterface(d, i) => who \in MemberWhos /\ c[3] \notin leaked
      /\ \A o : ByCallback(d, o) \/ ByObject(d, o) => who = o
      /\ ByNobody(d) => who \in MemberWhos
  BY ClaimNames
<1> HIDE DEF who
<1>3. CASE who \in ConnNames
  <2>1. (\E f \in ConnNames : ByConnection(c, f)) /\ (\E f \in ConnNames : ByConnection(d, f))
    BY <1>1, <1>2, <1>3, ClaimOrigins, HoldersApart
  <2>2. ByConnection(c, who) /\ ByConnection(d, who)
    BY <1>1, <1>2, <2>1
  <2> QED BY <2>2 DEF ByConnection
<1>4. CASE who \in LuaObjs
  <2>1. (ByCallback(c, who) \/ ByObject(c, who)) /\ (ByCallback(d, who) \/ ByObject(d, who))
    BY <1>1, <1>2, <1>4, ClaimOrigins, HoldersApart
  <2>2. c[3] # NoSlot
    BY DEF Claims
  <2>3. objs[who].callback = objs[who].object => objs[who].callback = NoSlot
    BY <1>4 DEF SlotInv, ObjSlots
  <2>4. CASE ByCallback(c, who)
    BY <2>1, <2>2, <2>3, <2>4 DEF ByCallback, ByObject
  <2>5. CASE ByObject(c, who)
    BY <2>1, <2>2, <2>3, <2>5 DEF ByCallback, ByObject
  <2> QED BY <2>1, <2>4, <2>5
<1>5. CASE who \in MemberWhos
  <2>1. /\ (\E i : ByInterface(c, i)) \/ ByNobody(c)
        /\ (\E i : ByInterface(d, i)) \/ ByNobody(d)
    BY <1>1, <1>2, <1>5, ClaimOrigins, HoldersApart
  <2>2. CASE c[3] \in leaked
    <3>1. ByNobody(c) /\ ByNobody(d)
      BY <1>1, <1>2, <2>1, <2>2
    <3> QED BY <3>1 DEF ByNobody
  <2>3. CASE c[3] \notin leaked
    <3>1. ~ByNobody(c) /\ ~ByNobody(d)
      BY <2>3 DEF ByNobody
    <3>2. PICK i : ByInterface(c, i)
      BY <2>1, <3>1
    <3>3. PICK j : ByInterface(d, j)
      BY <2>1, <3>1
    <3>4. iface.refs[i] = iface.refs[j] /\ i \in DOMAIN iface.refs /\ j \in DOMAIN iface.refs
      BY <3>2, <3>3 DEF ByInterface
    <3>5. i = j
      BY <3>4 DEF SlotInv, MemberSlots, Once
    <3> QED BY <3>2, <3>3, <3>5 DEF ByInterface
  <2> QED BY <2>2, <2>3
<1>6. who \in ConnNames \cup LuaObjs \cup MemberWhos
  BY <1>1, ClaimOrigins
<1> QED BY <1>3, <1>4, <1>5, <1>6

LEMMA EverySlotHeld ==
  ASSUME SlotInv, NEW s \in DOMAIN registry
  PROVE  \E c \in Claims : c[3] = s
<1> DEFINE fields == IF ~lconn.open THEN {}
                     ELSE {"errors"} \cup lconn.set
<1>0. s \in LuaSlots /\ s[1] \in Whos /\ s # NoSlot
  BY NoSlotIsNone, RegistryHere DEF IsRegistry, LuaSlots
<1>1. s \in Named(s[1])
  BY DEF Named
<1>2. CASE s[1] \in ConnNames
  <2> DEFINE f == s[1]
             c == <<"connection", f, lconn[f]>>
  <2>1. f \in fields /\ lconn[f] = s
    <3>1. CASE f = "errors"
      BY <1>1, <3>1 DEF SlotInv, ConnSlots
    <3>2. CASE f = "connect"
      BY <1>1, <3>2 DEF SlotInv, ConnSlots
    <3>3. CASE f = "sender"
      BY <1>1, <3>3 DEF SlotInv, ConnSlots
    <3> QED BY <1>2, <3>1, <3>2, <3>3 DEF ConnNames
  <2> HIDE DEF f
  <2>2. c \in Claims
    BY <1>0, <2>1 DEF Claims
  <2> QED BY <2>1, <2>2
<1>3. CASE s[1] \in LuaObjs
  <2> DEFINE o == s[1]
  <2>1. objs[o].L /\ (s = objs[o].callback \/ s = objs[o].object) /\ o \in LuaObjs
    BY <1>1, <1>3 DEF SlotInv, ObjSlots
  <2> HIDE DEF o
  <2>2. CASE s = objs[o].callback
    <3>1. <<"callback", o, objs[o].callback>> \in Claims
      BY <1>0, <2>1, <2>2 DEF Claims
    <3> QED BY <2>2, <3>1
  <2>3. CASE s = objs[o].object
    <3>1. <<"object", o, objs[o].object>> \in Claims
      BY <1>0, <2>1, <2>3 DEF Claims
    <3> QED BY <2>3, <3>1
  <2> QED BY <2>1, <2>2, <2>3
<1>4. CASE s[1] \in MemberWhos
  <2>1. s \in ToSet(iface.refs) \/ s \in leaked
    BY <1>1, <1>4 DEF MemberWhos, SlotInv, MemberSlots
  <2>2. CASE s \in ToSet(iface.refs)
    <3>1. PICK i \in DOMAIN iface.refs : iface.refs[i] = s
      BY <2>2 DEF ToSet
    <3>2. <<"interface", i, iface.refs[i]>> \in Claims
      BY <1>0, <3>1 DEF Claims
    <3> QED BY <3>1, <3>2
  <2>3. CASE s \in leaked
    <3>1. <<"nobody", 0, s>> \in Claims
      BY <1>0, <2>3 DEF Claims
    <3> QED BY <3>1
  <2> QED BY <2>1, <2>2, <2>3
<1> QED BY <1>0, <1>2, <1>3, <1>4 DEF Whos, ConnNames, MemberWhos

LEMMA LuaInvSuffices == LuaInv /\ StopsForAReason => LuaObjectsSound
<1> SUFFICES ASSUME LuaInv, StopsForAReason PROVE LuaObjectsSound
  OBVIOUS
<1>0. FlowInv /\ SlotInv
  BY DEF LuaInv
<1>1. \A c, d \in Claims : c[3] = d[3] => c = d
  BY <1>0, OneHolder
<1>2. {c[3] : c \in Claims} = DOMAIN registry
  <2>1. \A c \in Claims : c[3] \in DOMAIN registry
    BY <1>0, ClaimOrigins, ClaimNames
  <2>2. \A s \in DOMAIN registry : \E c \in Claims : c[3] = s
    BY <1>0, EverySlotHeld
  <2> HIDE DEF Claims
  <2> QED BY <2>1, <2>2
<1> QED BY <1>0, <1>1, <1>2 DEF LuaObjectsSound, SlotsHeld, FlowInv, ErrsRight, NoErrorLost

(* The objects of the Lua binding (lconnection.c, lmatch.c, linterface.c), in whatever
   order they are made, released, closed and collected, also inside their own
   callbacks: every slot of Lua's registry has one holder; one is given back that is
   not held only by closing or collecting a match or a reply that the library still
   has, after a connect without a function, and if a field of the connection was never
   set; a callback runs the function that was registered for it; an error of a callback
   that is a text is lost only with one that is not, and one of the function for sending
   or connecting may be. *)
THEOREM LuaObjectsAreSound == LuaSpec => []LuaObjectsSound
<1>1. LuaInv /\ StopsForAReason /\ [LuaNext]_luaVars => (LuaInv /\ StopsForAReason)'
  BY LuaStep, StopsKeep
<1>2. LuaInit => LuaInv /\ StopsForAReason
  <2>1. LuaInit => stopped.how = "no"
    BY DEF LuaInit
  <2>2. stopped.how = "no" => StopsForAReason
    BY DEF StopsForAReason
  <2> QED BY <2>1, <2>2, LuaStarts
<1>3. LuaInv /\ StopsForAReason => LuaObjectsSound
  BY LuaInvSuffices
<1> QED BY <1>1, <1>2, <1>3, PTL DEF LuaSpec

-----------------------------------------------------------------------------
(* Hash tables *)

(* Division with remainder. *)
LEMMA Remainder ==
  ASSUME NEW a \in Int, NEW n \in Nat, n > 0
  PROVE  /\ a % n \in 0..(n - 1) /\ a \div n \in Int
         /\ a = (n * (a \div n)) + (a % n)
OBVIOUS

LEMMA SameRemainder ==
  ASSUME NEW a \in Int, NEW b \in Int, NEW n \in Nat, n > 0, a % n = b % n
  PROVE  \E q \in Int : a - b = n * q
OBVIOUS

LEMMA MultipleIs ==
  ASSUME NEW n \in Nat, n > 0, NEW q \in Int
  PROVE  (n * q) % n = 0
OBVIOUS

(* A product of smaller numbers is no multiple of a prime: the least first factor of
   such a product leaves, divided into the prime, a smaller one. *)
LEMMA PrimeProduct ==
  ASSUME NEW p \in Nat, p > 1, Prime(p), NEW a \in 1..(p - 1), NEW b \in 1..(p - 1)
  PROVE  (a * b) % p # 0
<1> DEFINE T == {x \in 1..(p - 1) : (x * b) % p = 0}
<1> SUFFICES ASSUME T # {} PROVE FALSE
  OBVIOUS
<1>1. PICK x \in T : \A y \in T : x <= y
  <2>1. T \in SUBSET Nat
    OBVIOUS
  <2> HIDE DEF T
  <2> QED BY <2>1, LeastNumber
<1>2. x \in 1..(p - 1) /\ (x * b) % p = 0
  BY <1>1
<1>3. x # 1
  <2>1. b % p = b
    OBVIOUS
  <2> QED BY <1>2, <2>1
<1>4. p % x # 0
  <2>1. x \in 2..(p - 1)
    BY <1>2, <1>3
  <2> QED BY <2>1, Zenon DEF Prime
<1> DEFINE y == p % x
           q == p \div x
<1>5. y \in 1..(x - 1) /\ q \in Int /\ p = (x * q) + y
  <2>1. x \in Nat /\ x > 0
    BY <1>2
  <2> QED BY <1>4, <2>1, Remainder
<1>6. PICK m \in Int : x * b = p * m
  <2>1. x * b \in Int
    BY <1>2
  <2>2. x * b = (p * ((x * b) \div p)) + ((x * b) % p) /\ (x * b) \div p \in Int
    BY <2>1, Remainder
  <2> DEFINE m == (x * b) \div p
  <2>3. m \in Int /\ x * b = p * m
    BY <1>2, <2>1, <2>2
  <2> HIDE DEF m
  <2> QED BY <2>3
<1> HIDE DEF y, q
<1>7. y * b = p * (b - (m * q))
  <2>1. (x * q) * b = (x * b) * q
    BY <1>2, <1>5
  <2>2. (x * q) * b = p * (m * q)
    BY <1>2, <1>5, <1>6, <2>1
  <2>3. p * b = ((x * q) * b) + (y * b)
    BY <1>2, <1>5
  <2> QED BY <1>2, <1>5, <1>6, <2>2, <2>3
<1>8. (y * b) % p = 0
  <2> DEFINE d == b - (m * q)
  <2>1. d \in Int /\ y * b = p * d
    BY <1>5, <1>6, <1>7
  <2> HIDE DEF d
  <2> QED BY <2>1, MultipleIs
<1>9. y \in T /\ y < x
  BY <1>2, <1>5, <1>8
<1> QED BY <1>1, <1>2, <1>5, <1>9

(* The slots of a search are all different. *)
LEMMA ProbeDiffers ==
  ASSUME NEW h \in Nat, NEW n \in Nat, n > 2, Prime(n), NEW inc \in 1..(n - 1),
         NEW j \in Slots(n), NEW k \in Slots(n), (h + j * inc) % n = (h + k * inc) % n
  PROVE  j = k
<1>1. ASSUME NEW u \in Slots(n), NEW v \in Slots(n), u < v, (h + u * inc) % n = (h + v * inc) % n
      PROVE  FALSE
  <2>1. h + u * inc \in Int /\ h + v * inc \in Int
    BY DEF Slots
  <2>2. PICK q \in Int : (h + v * inc) - (h + u * inc) = n * q
    <3> DEFINE a == h + v * inc
               b == h + u * inc
    <3>1. a \in Int /\ b \in Int /\ a % n = b % n
      BY <1>1, <2>1
    <3> HIDE DEF a, b
    <3>2. \E q \in Int : a - b = n * q
      BY <3>1, SameRemainder
    <3> QED BY <3>2 DEF a, b
  <2>3. (v - u) * inc = n * q
    BY <2>2 DEF Slots
  <2>4. v - u \in 1..(n - 1)
    BY <1>1 DEF Slots
  <2>5. ((v - u) * inc) % n = 0
    BY <2>3, MultipleIs
  <2> QED BY <2>4, <2>5, PrimeProduct
<1> QED BY <1>1 DEF Slots

(* A search for key passes through every slot once. *)
LEMMA ProbeFacts ==
  ASSUME NEW key \in HashKeys, NEW n \in Nat, n > 2, Prime(n)
  PROVE  /\ \A j \in Slots(n) : Probe(key, n, j) \in Slots(n)
         /\ \A j, k \in Slots(n) : Probe(key, n, j) = Probe(key, n, k) => j = k
         /\ \A i \in Slots(n) : \E j \in Slots(n) : Probe(key, n, j) = i
<1> DEFINE h == HashOf[key]
           inc == 1 + (h % (n - 1))
           f == [j \in Slots(n) |-> (h + j * inc) % n]
<1>1. h \in Nat
  BY HashAssumption
<1>2. inc \in 1..(n - 1)
  <2>1. h % (n - 1) \in 0..(n - 2)
    BY <1>1
  <2> QED BY <2>1
<1>3. \A j \in Slots(n) : Probe(key, n, j) = (h + j * inc) % n
  BY DEF Probe
<1> HIDE DEF h, inc
<1>4. \A j \in Slots(n) : (h + j * inc) % n \in Slots(n)
  BY <1>1, <1>2 DEF Slots
<1>5. \A j, k \in Slots(n) : (h + j * inc) % n = (h + k * inc) % n => j = k
  BY <1>1, <1>2, ProbeDiffers
<1>6. f \in Injection(Slots(n), Slots(n))
  <2>1. f \in [Slots(n) -> Slots(n)]
    BY <1>4
  <2>2. \A j, k \in Slots(n) : f[j] = f[k] => j = k
    BY <1>5
  <2> QED BY <2>1, <2>2 DEF Injection, IsInjective
<1>7. IsFiniteSet(Slots(n))
  BY FS_Interval DEF Slots
<1>8. f \in Surjection(Slots(n), Slots(n))
  <2> HIDE DEF f
  <2> QED BY <1>6, <1>7, FS_Injection
<1>9. \A i \in Slots(n) : \E j \in Slots(n) : f[j] = i
  <2> HIDE DEF f
  <2> QED BY <1>8 DEF Surjection
<1> QED BY <1>3, <1>4, <1>5, <1>9

(* The sizes that a table can have. *)
Sizes == {PrimeList[t] : t \in 2..Len(PrimeList)}

LEMMA SizesArePrimes ==
  \A n \in Sizes : n \in Nat /\ n > 2 /\ Prime(n)
BY HashAssumption DEF Sizes

LEMMA PrimePlaces ==
  LET len == Len(PrimeList)
  IN  len \in Nat /\ DOMAIN PrimeList = 1..len /\ \A k \in 1..len : PrimeList[k] \in Nat
<1>1. PrimeList \in Seq(Nat)
  BY HashAssumption
<1> QED BY <1>1

(* The list of primes rises. *)
LEMMA PrimesRise ==
  ASSUME NEW s \in DOMAIN PrimeList, NEW t \in DOMAIN PrimeList, s < t
  PROVE  PrimeList[s] < PrimeList[t]
<1> DEFINE len == Len(PrimeList)
           Good == {k \in Nat : s + k \in 1..len /\ k > 0 => PrimeList[s] < PrimeList[s + k]}
<1>1. len \in Nat /\ DOMAIN PrimeList = 1..len /\ \A k \in 1..len : PrimeList[k] \in Nat
  BY PrimePlaces
<1>2. \A k \in 2..len : PrimeList[k - 1] < PrimeList[k]
  BY HashAssumption
<1> HIDE DEF len
<1>3. \A k \in 1..len : k - 1 \in Good => k \in Good
  <2> SUFFICES ASSUME NEW k \in 1..len, k - 1 \in Good, s + k \in 1..len
               PROVE  PrimeList[s] < PrimeList[s + k]
    OBVIOUS
  <2>1. s \in 1..len /\ s + k \in 2..len /\ s + (k - 1) \in 1..len /\ (s + k) - 1 = s + (k - 1)
    <3> HIDE DEF Good
    <3>1. s \in Nat /\ s > 0 /\ s <= len
      BY <1>1
    <3>2. k \in Nat /\ k > 0 /\ s + k <= len /\ len \in Nat
      BY <1>1
    <3> QED BY <3>1, <3>2
  <2>2. PrimeList[s + (k - 1)] < PrimeList[s + k]
    BY <1>2, <2>1
  <2>3. k - 1 > 0 => PrimeList[s] < PrimeList[s + (k - 1)]
    BY <2>1
  <2> HIDE DEF Good
  <2>4. k - 1 > 0 \/ s + (k - 1) = s
    BY <1>1, <2>1
  <2>5. /\ PrimeList[s] \in Nat /\ PrimeList[s + k] \in Nat
        /\ PrimeList[s + (k - 1)] \in Nat
    BY <1>1, <2>1
  <2>6. CASE k - 1 > 0
    BY <2>2, <2>3, <2>5, <2>6
  <2>7. CASE s + (k - 1) = s
    BY <2>2, <2>7
  <2> QED BY <2>4, <2>6, <2>7
<1>4. 0 \in Good /\ Good \in SUBSET Nat
  OBVIOUS
<1>5. \A k \in 0..len : k \in Good
  <2> HIDE DEF Good
  <2> QED BY <1>1, <1>3, <1>4, UpTo
<1>6. t - s \in 0..len /\ t - s > 0 /\ s + (t - s) = t
  BY <1>1
<1> QED BY <1>1, <1>5, <1>6

(* A clean-up keeps the number of slots. *)
LEMMA SamePrime ==
  ASSUME NEW n \in Sizes
  PROVE  NextPrime(n - 1) = n
<1>1. PICK t \in 2..Len(PrimeList) : n = PrimeList[t]
  BY DEF Sizes
<1> DEFINE len == Len(PrimeList)
           T == {k \in DOMAIN PrimeList : PrimeList[k] <= n - 1}
<1>2. len \in Nat /\ DOMAIN PrimeList = 1..len /\ \A k \in 1..len : PrimeList[k] \in Nat
  BY PrimePlaces
<1> HIDE DEF len
<1>3. t - 1 \in T
  <2>1. t - 1 \in 1..len /\ t \in 1..len /\ t - 1 < t
    BY <1>1, <1>2 DEF len
  <2>2. PrimeList[t - 1] < PrimeList[t]
    BY <1>2, <2>1, PrimesRise
  <2> QED BY <1>1, <1>2, <2>1, <2>2
<1>4. \A k \in T : k <= t - 1
  <2> SUFFICES ASSUME NEW k \in T, k >= t PROVE FALSE
    BY <1>1, <1>2
  <2>1. k \in 1..len /\ t \in 1..len /\ PrimeList[k] <= n - 1 /\ k # t
    BY <1>1, <1>2 DEF len
  <2>2. PrimeList[t] < PrimeList[k]
    BY <1>2, <2>1, PrimesRise
  <2> QED BY <1>1, <1>2, <2>1, <2>2
<1>5. Max(T) = t - 1
  <2>1. T \in SUBSET (1..len)
    BY <1>2
  <2> HIDE DEF T
  <2> QED BY <1>2, <1>3, <1>4, <2>1, MaxIs
<1>6. NextPrime(n - 1) = PrimeList[1 + Max(T)]
  BY DEF NextPrime
<1> QED BY <1>1, <1>5, <1>6

(* A table that grows gets more slots than were asked for. *)
LEMMA LargerPrime ==
  ASSUME NEW n \in Nat, n <= 2 * Cardinality(HashKeys) + 1
  PROVE  NextPrime(n) \in Sizes /\ NextPrime(n) > n
<1> DEFINE len == Len(PrimeList)
           T == {k \in DOMAIN PrimeList : PrimeList[k] <= n}
<1>0. PrimeList \in Seq(Nat) /\ PrimeList # <<>> /\ PrimeList[1] = 0
  BY HashAssumption
<1>1. len \in Nat /\ len > 0 /\ DOMAIN PrimeList = 1..len /\ \A k \in 1..len : PrimeList[k] \in Nat
  BY <1>0
<1>2. PrimeList[len] > n
  <2>1. Cardinality(HashKeys) \in Nat
    BY HashAssumption, FS_CardinalityType
  <2>2. PrimeList[len] > 2 * Cardinality(HashKeys) + 1
    BY HashAssumption
  <2> QED BY <1>1, <2>1, <2>2
<1> HIDE DEF len
<1>3. 1 \in T /\ T \in SUBSET (1..len) /\ len \notin T
  BY <1>0, <1>1, <1>2
<1>4. PICK m \in T : \A k \in T : k <= m
  <2> HIDE DEF T
  <2> QED BY <1>1, <1>3, GreatestNumber
<1>5. Max(T) = m
  <2> HIDE DEF T
  <2> QED BY <1>1, <1>3, <1>4, MaxIs
<1>6. 1 + m \in 2..len /\ 1 + m \notin T
  BY <1>1, <1>3, <1>4
<1>7. NextPrime(n) = PrimeList[1 + m]
  BY <1>5 DEF NextPrime
<1> QED BY <1>1, <1>6, <1>7 DEF Sizes, len

(* Some slots stay free when the bound is kept, and a table has room after a resize. *)
LEMMA BoundFacts ==
  ASSUME NEW n \in Nat, NEW size \in Nat
  PROVE  /\ UpperBound(n) \in Nat /\ UpperBound(0) = 0
         /\ n > 2 => UpperBound(n) < n
         /\ n > 2 * size => size < UpperBound(n)
         /\ \A m \in Nat : m > n + 1 /\ size <= UpperBound(n) => size < UpperBound(m)
BY DEF UpperBound

-----------------------------------------------------------------------------
Flags == {"empty", "live", "del"}
KeyCells == HashKeys \cup {NoEntry}
ValCells == HashVals \cup {NoEntry}

LiveIn(flags) == {i \in DOMAIN flags : flags[i] = "live"}
UsedIn(flags) == {i \in DOMAIN flags : flags[i] # "empty"}

(* A search for key comes to slot i. *)
Reaches(flags, n, key, i) ==
  \E j \in Slots(n) :
    Probe(key, n, j) = i /\ \A k \in Slots(j) : flags[Probe(key, n, k)] # "empty"

(* The table t has the entries e. *)
TableType(t) ==
  /\ t \in [n_buckets : Nat, flags : [Slots(t.n_buckets) -> Flags],
            keys : [Slots(t.n_buckets) -> KeyCells], vals : [Slots(t.n_buckets) -> ValCells],
            size : Nat, n_occupied : Nat]
  /\ t.n_buckets \in Sizes \cup {0}

SlotsHold(t, e) ==
  /\ DOMAIN e \subseteq HashKeys
  /\ \A i \in LiveIn(t.flags) :
       /\ t.keys[i] \in DOMAIN e /\ t.vals[i] = e[t.keys[i]]
       /\ Reaches(t.flags, t.n_buckets, t.keys[i], i)
  /\ \A i, k \in LiveIn(t.flags) : t.keys[i] = t.keys[k] => i = k
  /\ \A key \in DOMAIN e : \E i \in LiveIn(t.flags) : t.keys[i] = key

Counted(t) ==
  /\ t.size = Cardinality(LiveIn(t.flags))
  /\ t.n_occupied = Cardinality(UsedIn(t.flags))
  /\ t.n_occupied <= UpperBound(t.n_buckets)

TableInv(t, e) == TableType(t) /\ SlotsHold(t, e) /\ Counted(t)

(* The slots of a table are finitely many. *)
LEMMA SlotsFinite ==
  ASSUME NEW n \in Nat
  PROVE  /\ IsFiniteSet(Slots(n)) /\ Cardinality(Slots(n)) = n
         /\ \A S \in SUBSET Slots(n) :
              IsFiniteSet(S) /\ Cardinality(S) \in Nat /\ Cardinality(S) <= n
<1>1. IsFiniteSet(Slots(n)) /\ Cardinality(Slots(n)) = n
  BY FS_Interval DEF Slots
<1> QED BY <1>1, FS_Subset, FS_CardinalityType

(* A table that keeps its bound has an empty slot, to which every search comes. *)
LEMMA EmptySlot ==
  ASSUME NEW n \in Sizes, NEW flags \in [Slots(n) -> Flags], NEW key \in HashKeys,
         Cardinality(UsedIn(flags)) <= UpperBound(n)
  PROVE  \E j \in Slots(n) : flags[Probe(key, n, j)] = "empty"
<1>1. n \in Nat /\ n > 2 /\ Prime(n)
  BY SizesArePrimes
<1>2. UpperBound(n) < n /\ UpperBound(n) \in Nat
  BY <1>1, BoundFacts
<1>3. UsedIn(flags) \in SUBSET Slots(n)
  BY DEF UsedIn
<1>4. UsedIn(flags) # Slots(n)
  BY <1>1, <1>2, <1>3, SlotsFinite
<1>5. PICK i \in Slots(n) : flags[i] = "empty"
  BY <1>3, <1>4 DEF UsedIn
<1> QED BY <1>1, <1>5, ProbeFacts

(* Where a search ends: at the key, or at an empty slot if the table does not have it. *)
LEMMA SearchEnds ==
  ASSUME NEW t, NEW e, TableInv(t, e), t.n_buckets # 0, NEW key \in HashKeys
  PROVE  LET m == Min(Stops(t, key))
             x == Probe(key, t.n_buckets, m)
         IN  /\ Stops(t, key) # {} /\ m \in Slots(t.n_buckets) /\ x \in Slots(t.n_buckets)
             /\ \A k \in Slots(m) : t.flags[Probe(key, t.n_buckets, k)] # "empty"
             /\ \/ t.flags[x] = "live" /\ t.keys[x] = key /\ key \in DOMAIN e
                \/ t.flags[x] = "empty" /\ key \notin DOMAIN e
<1> DEFINE n == t.n_buckets
           stops == Stops(t, key)
           m == Min(stops)
           P(j) == Probe(key, n, j)
           x == P(m)
<1>1. n \in Sizes /\ t.flags \in [Slots(n) -> Flags]
  BY DEF TableInv, TableType
<1>2. n \in Nat /\ n > 2 /\ Prime(n)
  BY <1>1, SizesArePrimes
<1>3. /\ stops \subseteq Slots(n)
      /\ \A j \in Slots(n) :
           j \in stops <=>
             (t.flags[P(j)] = "empty" \/ (t.flags[P(j)] = "live" /\ t.keys[P(j)] = key))
  BY DEF Stops
<1>4. \E j \in Slots(n) : t.flags[P(j)] = "empty"
  BY <1>1, EmptySlot DEF TableInv, Counted
<1>5. stops # {} /\ stops \in SUBSET Nat
  <2> HIDE DEF stops, P, n
  <2>1. Slots(n) \subseteq Nat
    BY <1>2 DEF Slots
  <2> QED BY <1>3, <1>4, <2>1, Zenon
<1>6. m \in stops /\ \A k \in stops : m <= k
  <2> HIDE DEF stops
  <2> QED BY <1>5, MinIs
<1>7. \A j \in Slots(n) : P(j) \in Slots(n)
  BY <1>2, ProbeFacts
<1>8. m \in Slots(n) /\ x \in Slots(n)
  BY <1>3, <1>6, <1>7
<1> HIDE DEF n, stops, m, P
<1>9. \A k \in Slots(m) : k \in Slots(n) /\ k \notin stops
  BY <1>2, <1>6, <1>8 DEF Slots
<1>10. \A k \in Slots(m) : t.flags[P(k)] # "empty"
  BY <1>3, <1>9
<1>11. \/ t.flags[x] = "empty"
       \/ t.flags[x] = "live" /\ t.keys[x] = key
  BY <1>3, <1>6
<1>12. CASE t.flags[x] = "live" /\ t.keys[x] = key
  <2>1. x \in LiveIn(t.flags)
    BY <1>1, <1>8, <1>12 DEF LiveIn
  <2>2. key \in DOMAIN e
    BY <1>12, <2>1 DEF TableInv, SlotsHold
  <2> QED BY <1>5, <1>8, <1>10, <1>12, <2>2 DEF n, stops, m, P
<1>13. CASE t.flags[x] = "empty"
  <2>1. ASSUME key \in DOMAIN e PROVE FALSE
    <3>1. PICK i \in LiveIn(t.flags) : t.keys[i] = key
      BY <2>1 DEF TableInv, SlotsHold
    <3>2. Reaches(t.flags, n, key, i)
      BY <3>1 DEF TableInv, SlotsHold, n
    <3>3. PICK j \in Slots(n) : P(j) = i /\ \A k \in Slots(j) : t.flags[P(k)] # "empty"
      BY <3>2 DEF Reaches, P
    <3>4. j \in stops
      BY <1>3, <3>1, <3>3 DEF LiveIn
    <3>5. m <= j
      BY <1>6, <3>4
    <3>6. m = j \/ m \in Slots(j)
      BY <1>2, <1>8, <3>3, <3>5 DEF Slots
    <3> QED BY <1>13, <3>1, <3>3, <3>6 DEF LiveIn
  <2> QED BY <1>5, <1>8, <1>10, <1>13, <2>1 DEF n, stops, m, P
<1> QED BY <1>11, <1>12, <1>13

(* dh_get finds the slot of a key that the table has. *)
LEMMA GetFinds ==
  ASSUME NEW t, NEW e, TableInv(t, e), NEW key \in HashKeys
  PROVE  IF key \in DOMAIN e
         THEN dh_get(t, key) \in LiveIn(t.flags) /\ t.keys[dh_get(t, key)] = key
         ELSE dh_get(t, key) = t.n_buckets
<1>1. CASE t.n_buckets = 0
  <2>1. Stops(t, key) = {} /\ LiveIn(t.flags) = {}
    BY <1>1 DEF Stops, Slots, LiveIn, TableInv, TableType
  <2>2. key \notin DOMAIN e
    BY <2>1 DEF TableInv, SlotsHold
  <2> QED BY <2>1, <2>2 DEF dh_get
<1>2. CASE t.n_buckets # 0
  <2> DEFINE x == Probe(key, t.n_buckets, Min(Stops(t, key)))
  <2>1. /\ Stops(t, key) # {} /\ x \in Slots(t.n_buckets)
        /\ \/ t.flags[x] = "live" /\ t.keys[x] = key /\ key \in DOMAIN e
           \/ t.flags[x] = "empty" /\ key \notin DOMAIN e
    BY <1>2, SearchEnds
  <2>2. dh_get(t, key) = IF t.flags[x] # "live" THEN t.n_buckets ELSE x
    BY <2>1 DEF dh_get
  <2>3. DOMAIN t.flags = Slots(t.n_buckets)
    BY DEF TableInv, TableType
  <2> HIDE DEF x
  <2> QED BY <2>1, <2>2, <2>3 DEF LiveIn
<1> QED BY <1>1, <1>2

(* dh_put: the slot of the key, or one that a search for the key comes to. *)
LEMMA SlotForFacts ==
  ASSUME NEW t, NEW e, TableInv(t, e), t.n_buckets # 0, NEW key \in HashKeys
  PROVE  LET x == SlotFor(t, key)
         IN  /\ x \in Slots(t.n_buckets) /\ Reaches(t.flags, t.n_buckets, key, x)
             /\ key \in DOMAIN e => t.flags[x] = "live" /\ t.keys[x] = key
             /\ key \notin DOMAIN e => t.flags[x] # "live"
<1> DEFINE n == t.n_buckets
           m == Min(Stops(t, key))
           P(j) == Probe(key, n, j)
           end == P(m)
           gone == {j \in Slots(m) : t.flags[P(j)] = "del"}
<1>1. /\ Stops(t, key) # {} /\ m \in Slots(n) /\ end \in Slots(n)
      /\ \A k \in Slots(m) : t.flags[P(k)] # "empty"
      /\ \/ t.flags[end] = "live" /\ t.keys[end] = key /\ key \in DOMAIN e
         \/ t.flags[end] = "empty" /\ key \notin DOMAIN e
  BY SearchEnds
<1>2. SlotFor(t, key) = IF gone # {} /\ t.flags[end] = "empty" THEN P(Max(gone)) ELSE end
  BY <1>1 DEF SlotFor
<1>3. n \in Nat /\ n > 2 /\ Prime(n)
  BY SizesArePrimes DEF TableInv, TableType
<1>4. \A j \in Slots(n) : P(j) \in Slots(n)
  BY <1>3, ProbeFacts
<1> HIDE DEF m
<1>5. ASSUME gone # {} PROVE Max(gone) \in gone
  <2>1. gone \subseteq 0..n
    BY <1>1, <1>3 DEF Slots
  <2> HIDE DEF gone
  <2> DEFINE D == {n - j : j \in gone}
  <2>2. D \in SUBSET Nat /\ D # {}
    <3>1. \A j \in gone : n - j \in Nat
      BY <1>3, <2>1
    <3> QED BY <1>5, <3>1
  <2>3. PICK d \in D : \A c \in D : d <= c
    <3> HIDE DEF D
    <3> QED BY <2>2, LeastNumber
  <2>4. PICK g \in gone : d = n - g
    OBVIOUS
  <2>5. \A j \in gone : g >= j
    <3> TAKE j \in gone
    <3>1. n - g <= n - j
      BY <2>3, <2>4
    <3> QED BY <1>3, <2>1, <3>1
  <2> QED BY <2>5, Zenon DEF Max
<1>6. Reaches(t.flags, n, key, end)
  BY <1>1 DEF Reaches
<1>7. CASE gone # {} /\ t.flags[end] = "empty"
  <2> DEFINE g == Max(gone)
  <2>1. SlotFor(t, key) = P(g) /\ g \in gone
    BY <1>2, <1>5, <1>7
  <2> HIDE DEF g
  <2>2. g \in Slots(m) /\ t.flags[P(g)] = "del"
    BY <2>1
  <2>3. g \in Slots(n) /\ \A k \in Slots(g) : k \in Slots(m)
    BY <1>1, <1>3, <2>2 DEF Slots
  <2>4. Reaches(t.flags, n, key, P(g))
    BY <1>1, <2>3 DEF Reaches
  <2> HIDE DEF gone, end, P
  <2> QED BY <1>1, <1>4, <1>7, <2>1, <2>2, <2>3, <2>4 DEF n
<1>8. CASE ~(gone # {} /\ t.flags[end] = "empty")
  <2>1. SlotFor(t, key) = end
    BY <1>2, <1>8
  <2> HIDE DEF gone, end, P
  <2> QED BY <1>1, <1>6, <2>1 DEF n
<1> QED BY <1>7, <1>8

(* Slots that are not empty stay so: what a search came to it still comes to. *)
LEMMA StillReaches ==
  ASSUME NEW n \in Sizes, NEW f \in [Slots(n) -> Flags], NEW g \in [Slots(n) -> Flags],
         \A i \in Slots(n) : f[i] # "empty" => g[i] # "empty",
         NEW key \in HashKeys, NEW i, Reaches(f, n, key, i)
  PROVE  Reaches(g, n, key, i)
<1>1. PICK j \in Slots(n) : Probe(key, n, j) = i /\ \A k \in Slots(j) : f[Probe(key, n, k)] # "empty"
  BY DEF Reaches
<1>2. \A k \in Slots(j) : k \in Slots(n)
  BY SizesArePrimes DEF Slots
<1>3. \A k \in Slots(j) : Probe(key, n, k) \in Slots(n)
  BY <1>2, SizesArePrimes, ProbeFacts
<1> QED BY <1>1, <1>3 DEF Reaches

(* A table, and its entries, with one more. *)
Stored(t, key, val) ==
  LET x == SlotFor(t, key)
  IN  [t EXCEPT !.flags[x] = "live", !.keys[x] = key, !.vals[x] = val,
                !.size = IF t.flags[x] # "live" THEN @ + 1 ELSE @,
                !.n_occupied = IF t.flags[x] = "empty" THEN @ + 1 ELSE @]
With(e, key, val) == [k \in DOMAIN e \cup {key} |-> IF k = key THEN val ELSE e[k]]

(* dh_put in a table that has room. *)
LEMMA PutKeeps ==
  ASSUME NEW t, NEW e, TableInv(t, e), t.n_buckets # 0, t.n_occupied < UpperBound(t.n_buckets),
         NEW key \in HashKeys, NEW val \in HashVals
  PROVE  TableInv(Stored(t, key, val), With(e, key, val))
<1> DEFINE n == t.n_buckets
           x == SlotFor(t, key)
           u == [t EXCEPT !.flags[x] = "live", !.keys[x] = key, !.vals[x] = val,
                          !.size = IF t.flags[x] # "live" THEN @ + 1 ELSE @,
                          !.n_occupied = IF t.flags[x] = "empty" THEN @ + 1 ELSE @]
           d == [k \in DOMAIN e \cup {key} |-> IF k = key THEN val ELSE e[k]]
<1>1. /\ x \in Slots(n) /\ Reaches(t.flags, n, key, x)
      /\ key \in DOMAIN e => t.flags[x] = "live" /\ t.keys[x] = key
      /\ key \notin DOMAIN e => t.flags[x] # "live"
  BY SlotForFacts
<1>2. /\ n \in Sizes /\ n \in Nat /\ t.flags \in [Slots(n) -> Flags]
      /\ t.keys \in [Slots(n) -> KeyCells] /\ t.vals \in [Slots(n) -> ValCells]
      /\ t.size \in Nat /\ t.n_occupied \in Nat
  BY DEF TableInv, TableType
<1> HIDE DEF x
<1>3. /\ u.n_buckets = n
      /\ u.flags = [t.flags EXCEPT ![x] = "live"]
      /\ u.keys = [t.keys EXCEPT ![x] = key]
      /\ u.vals = [t.vals EXCEPT ![x] = val]
      /\ u.size = IF t.flags[x] # "live" THEN t.size + 1 ELSE t.size
      /\ u.n_occupied = IF t.flags[x] = "empty" THEN t.n_occupied + 1 ELSE t.n_occupied
  BY DEF TableInv, TableType
<1>4. TableType(u)
  <2> DEFINE f == [t.flags EXCEPT ![x] = "live"]
             ks == [t.keys EXCEPT ![x] = key]
             vs == [t.vals EXCEPT ![x] = val]
             a == IF t.flags[x] # "live" THEN t.size + 1 ELSE t.size
             b == IF t.flags[x] = "empty" THEN t.n_occupied + 1 ELSE t.n_occupied
  <2>1. f \in [Slots(n) -> Flags]
    BY <1>2 DEF Flags
  <2>2. ks \in [Slots(n) -> KeyCells]
    BY <1>2 DEF KeyCells
  <2>3. vs \in [Slots(n) -> ValCells]
    BY <1>2 DEF ValCells
  <2>4. a \in Nat /\ b \in Nat
    BY <1>2
  <2>5. u = [t EXCEPT !.flags = f, !.keys = ks, !.vals = vs, !.size = a, !.n_occupied = b]
    BY DEF TableInv, TableType
  <2>6. t \in [n_buckets : Nat, flags : [Slots(n) -> Flags],
               keys : [Slots(n) -> KeyCells], vals : [Slots(n) -> ValCells],
               size : Nat, n_occupied : Nat]
    BY DEF TableInv, TableType
  <2> HIDE DEF f, ks, vs, a, b, u
  <2>7. u \in [n_buckets : Nat, flags : [Slots(n) -> Flags],
               keys : [Slots(n) -> KeyCells], vals : [Slots(n) -> ValCells],
               size : Nat, n_occupied : Nat]
    BY <2>1, <2>2, <2>3, <2>4, <2>5, <2>6
  <2> QED BY <1>2, <1>3, <2>7 DEF TableType
<1> HIDE DEF u
<1>5. /\ u.flags \in [Slots(n) -> Flags]
      /\ \A i \in Slots(n) : u.flags[i] = IF i = x THEN "live" ELSE t.flags[i]
      /\ \A i \in Slots(n) : u.keys[i] = IF i = x THEN key ELSE t.keys[i]
      /\ \A i \in Slots(n) : u.vals[i] = IF i = x THEN val ELSE t.vals[i]
  BY <1>1, <1>2, <1>3 DEF Flags
<1>6. LiveIn(u.flags) = LiveIn(t.flags) \cup {x} /\ UsedIn(u.flags) = UsedIn(t.flags) \cup {x}
  BY <1>1, <1>2, <1>5 DEF LiveIn, UsedIn
<1>7. /\ LiveIn(t.flags) \in SUBSET Slots(n) /\ UsedIn(t.flags) \in SUBSET Slots(n)
      /\ x \in LiveIn(t.flags) <=> t.flags[x] = "live"
      /\ x \in UsedIn(t.flags) <=> t.flags[x] # "empty"
  BY <1>1, <1>2 DEF LiveIn, UsedIn
<1>8. Counted(u)
  <2>1. /\ t.size = Cardinality(LiveIn(t.flags)) /\ t.n_occupied = Cardinality(UsedIn(t.flags))
    BY DEF TableInv, Counted
  <2>2. IsFiniteSet(LiveIn(t.flags)) /\ IsFiniteSet(UsedIn(t.flags))
    BY <1>2, <1>7, SlotsFinite
  <2>3. u.size = Cardinality(LiveIn(u.flags))
    BY <1>3, <1>6, <1>7, <2>1, <2>2, FS_AddElement
  <2>4. u.n_occupied = Cardinality(UsedIn(u.flags))
    BY <1>3, <1>6, <1>7, <2>1, <2>2, FS_AddElement
  <2>5. u.n_occupied <= UpperBound(n)
    BY <1>2, <1>3, BoundFacts
  <2> QED BY <1>3, <2>3, <2>4, <2>5 DEF Counted
<1>9. SlotsHold(u, d)
  <2>1. /\ DOMAIN d = DOMAIN e \cup {key} /\ d[key] = val
        /\ \A k \in DOMAIN e : k # key => d[k] = e[k]
    OBVIOUS
  <2>2. /\ DOMAIN e \subseteq HashKeys
        /\ \A i \in LiveIn(t.flags) :
             /\ t.keys[i] \in DOMAIN e /\ t.vals[i] = e[t.keys[i]]
             /\ Reaches(t.flags, n, t.keys[i], i)
        /\ \A i, k \in LiveIn(t.flags) : t.keys[i] = t.keys[k] => i = k
        /\ \A k \in DOMAIN e : \E i \in LiveIn(t.flags) : t.keys[i] = k
    BY DEF TableInv, SlotsHold
  <2> HIDE DEF d, n
  <2>3. \A i \in LiveIn(t.flags) : i # x => t.keys[i] # key
    BY <1>1, <1>2, <1>7, <2>2 DEF LiveIn
  <2>4. \A k \in HashKeys, i \in Slots(n) :
          Reaches(t.flags, n, k, i) => Reaches(u.flags, n, k, i)
    BY <1>2, <1>5, StillReaches
  <2>5. ASSUME NEW i \in LiveIn(u.flags)
        PROVE  /\ u.keys[i] \in DOMAIN d /\ u.vals[i] = d[u.keys[i]]
               /\ Reaches(u.flags, n, u.keys[i], i)
    <3>1. CASE i = x
      BY <1>1, <1>5, <2>1, <2>4, <3>1
    <3>2. CASE i # x
      <4>1. i \in LiveIn(t.flags) /\ i \in Slots(n)
        BY <1>6, <1>7, <3>2
      <4>2. u.keys[i] = t.keys[i] /\ u.vals[i] = t.vals[i]
        BY <1>5, <3>2, <4>1
      <4> QED BY <2>1, <2>2, <2>3, <2>4, <3>2, <4>1, <4>2
    <3> QED BY <3>1, <3>2
  <2>6. \A i, k \in LiveIn(u.flags) : u.keys[i] = u.keys[k] => i = k
    BY <1>1, <1>5, <1>6, <1>7, <2>2, <2>3
  <2>7. \A k \in DOMAIN d : \E i \in LiveIn(u.flags) : u.keys[i] = k
    <3> TAKE k \in DOMAIN d
    <3>1. CASE k = key
      BY <1>1, <1>5, <1>6, <3>1
    <3>2. CASE k # key
      <4>1. PICK i \in LiveIn(t.flags) : t.keys[i] = k
        BY <2>1, <2>2, <3>2
      <4>2. i # x
        BY <1>1, <1>7, <2>2, <3>2, <4>1
      <4> QED BY <1>5, <1>6, <1>7, <4>1, <4>2
    <3> QED BY <3>1, <3>2
  <2>8. DOMAIN d \subseteq HashKeys
    BY <2>1, <2>2
  <2> QED BY <1>3, <2>5, <2>6, <2>7, <2>8 DEF SlotsHold
<1>10. u = Stored(t, key, val) /\ d = With(e, key, val)
  BY DEF Stored, With, u, x
<1> HIDE DEF d
<1> QED BY <1>4, <1>8, <1>9, <1>10 DEF TableInv

(* dh_del of what dh_get finds. *)
LEMMA DelKeeps ==
  ASSUME NEW t, NEW e, TableInv(t, e), NEW key \in HashKeys, dh_get(t, key) # t.n_buckets
  PROVE  LET x == dh_get(t, key)
         IN  TableInv([t EXCEPT !.flags[x] = "del", !.size = @ - 1, !.keys[x] = NoEntry,
                                !.vals[x] = NoEntry],
                      [k \in DOMAIN e \ {key} |-> e[k]])
<1> DEFINE n == t.n_buckets
           x == dh_get(t, key)
           u == [t EXCEPT !.flags[x] = "del", !.size = @ - 1, !.keys[x] = NoEntry,
                          !.vals[x] = NoEntry]
           d == [k \in DOMAIN e \ {key} |-> e[k]]
<1>1. key \in DOMAIN e /\ x \in LiveIn(t.flags) /\ t.keys[x] = key
  BY GetFinds
<1>2. /\ n \in Sizes \cup {0} /\ n \in Nat /\ t.flags \in [Slots(n) -> Flags]
      /\ t.keys \in [Slots(n) -> KeyCells] /\ t.vals \in [Slots(n) -> ValCells]
      /\ t.size \in Nat /\ t.n_occupied \in Nat
      /\ t \in [n_buckets : Nat, flags : [Slots(n) -> Flags],
                keys : [Slots(n) -> KeyCells], vals : [Slots(n) -> ValCells],
                size : Nat, n_occupied : Nat]
  BY DEF TableInv, TableType
<1> HIDE DEF x
<1>3. x \in Slots(n) /\ t.flags[x] = "live" /\ LiveIn(t.flags) \in SUBSET Slots(n)
  BY <1>1, <1>2 DEF LiveIn
<1>4. /\ t.size = Cardinality(LiveIn(t.flags)) /\ t.n_occupied = Cardinality(UsedIn(t.flags))
      /\ t.n_occupied <= UpperBound(n)
  BY DEF TableInv, Counted
<1>5. IsFiniteSet(LiveIn(t.flags))
  BY <1>2, <1>3, SlotsFinite
<1>6. t.size - 1 = Cardinality(LiveIn(t.flags) \ {x}) /\ t.size - 1 \in Nat
  <2>1. Cardinality(LiveIn(t.flags) \ {x}) = Cardinality(LiveIn(t.flags)) - 1
    BY <1>1, <1>5, FS_RemoveElement
  <2>2. IsFiniteSet(LiveIn(t.flags) \ {x})
    BY <1>5, FS_RemoveElement
  <2>3. Cardinality(LiveIn(t.flags) \ {x}) \in Nat
    BY <2>2, FS_CardinalityType
  <2> QED BY <1>4, <2>1, <2>3
<1> DEFINE f == [t.flags EXCEPT ![x] = "del"]
           ks == [t.keys EXCEPT ![x] = NoEntry]
           vs == [t.vals EXCEPT ![x] = NoEntry]
<1>7. /\ f \in [Slots(n) -> Flags] /\ ks \in [Slots(n) -> KeyCells] /\ vs \in [Slots(n) -> ValCells]
      /\ \A i \in Slots(n) : i # x => f[i] = t.flags[i] /\ ks[i] = t.keys[i] /\ vs[i] = t.vals[i]
      /\ f[x] = "del"
  BY <1>2, <1>3 DEF Flags, KeyCells, ValCells
<1>8. u = [t EXCEPT !.flags = f, !.size = t.size - 1, !.keys = ks, !.vals = vs]
  BY <1>2
<1> HIDE DEF f, ks, vs, u
<1>9. /\ u \in [n_buckets : Nat, flags : [Slots(n) -> Flags],
                keys : [Slots(n) -> KeyCells], vals : [Slots(n) -> ValCells],
                size : Nat, n_occupied : Nat]
      /\ u.n_buckets = n /\ u.flags = f /\ u.keys = ks /\ u.vals = vs /\ u.size = t.size - 1
      /\ u.n_occupied = t.n_occupied
  BY <1>2, <1>6, <1>7, <1>8
<1>10. TableType(u)
  BY <1>2, <1>9 DEF TableType
<1>11. LiveIn(f) = LiveIn(t.flags) \ {x} /\ UsedIn(f) = UsedIn(t.flags)
  BY <1>2, <1>3, <1>7 DEF LiveIn, UsedIn
<1>12. Counted(u)
  BY <1>4, <1>6, <1>9, <1>11 DEF Counted
<1>13. SlotsHold(u, d)
  <2>1. DOMAIN d = DOMAIN e \ {key} /\ \A k \in DOMAIN d : d[k] = e[k]
    OBVIOUS
  <2>2. /\ DOMAIN e \subseteq HashKeys
        /\ \A i \in LiveIn(t.flags) :
             /\ t.keys[i] \in DOMAIN e /\ t.vals[i] = e[t.keys[i]]
             /\ Reaches(t.flags, n, t.keys[i], i)
        /\ \A i, k \in LiveIn(t.flags) : t.keys[i] = t.keys[k] => i = k
        /\ \A k \in DOMAIN e : \E i \in LiveIn(t.flags) : t.keys[i] = k
    BY DEF TableInv, SlotsHold
  <2>3. n \in Sizes
    BY <1>2, <1>3 DEF Slots
  <2> HIDE DEF d, n
  <2>4. \A i \in LiveIn(f) : i \in LiveIn(t.flags) /\ i # x /\ i \in Slots(n)
    BY <1>3, <1>11
  <2>5. \A i \in LiveIn(f) : ks[i] = t.keys[i] /\ vs[i] = t.vals[i] /\ t.keys[i] # key
    BY <1>1, <1>7, <2>2, <2>4
  <2>6. \A k \in HashKeys, i \in Slots(n) : Reaches(t.flags, n, k, i) => Reaches(f, n, k, i)
    BY <1>2, <1>7, <2>3, StillReaches
  <2>7. \A i \in LiveIn(f) : /\ ks[i] \in DOMAIN d /\ vs[i] = d[ks[i]]
                             /\ Reaches(f, n, ks[i], i)
    BY <2>1, <2>2, <2>4, <2>5, <2>6
  <2>8. \A i, k \in LiveIn(f) : ks[i] = ks[k] => i = k
    BY <2>2, <2>4, <2>5
  <2>9. \A k \in DOMAIN d : \E i \in LiveIn(f) : ks[i] = k
    <3> TAKE k \in DOMAIN d
    <3>1. PICK i \in LiveIn(t.flags) : t.keys[i] = k
      BY <2>1, <2>2
    <3>2. i \in LiveIn(f)
      BY <1>1, <1>11, <2>1, <3>1
    <3> QED BY <2>5, <3>1, <3>2
  <2> QED BY <1>9, <2>1, <2>2, <2>7, <2>8, <2>9 DEF SlotsHold
<1> QED BY <1>10, <1>12, <1>13 DEF TableInv, u, x

(* A table of empty slots. *)
LEMMA EmptyTable ==
  ASSUME NEW t, TableType(t), t.flags = AllEmpty(t.n_buckets), t.size = 0, t.n_occupied = 0
  PROVE  TableInv(t, [k \in {} |-> NoEntry])
<1>1. LiveIn(t.flags) = {} /\ UsedIn(t.flags) = {}
  BY DEF LiveIn, UsedIn, AllEmpty
<1>2. Counted(t)
  BY <1>1, FS_EmptySet, BoundFacts DEF Counted, TableType
<1> QED BY <1>1, <1>2 DEF TableInv, SlotsHold

(* dh_clear *)
LEMMA ClearKeeps ==
  ASSUME NEW t, NEW e, TableInv(t, e)
  PROVE  TableInv([t EXCEPT !.flags = AllEmpty(t.n_buckets), !.size = 0, !.n_occupied = 0,
                            !.keys = InUseOf(AllEmpty(t.n_buckets), @),
                            !.vals = InUseOf(AllEmpty(t.n_buckets), @)],
                  [k \in {} |-> NoEntry])
<1> DEFINE n == t.n_buckets
           f == AllEmpty(n)
           ks == InUseOf(f, t.keys)
           vs == InUseOf(f, t.vals)
           u == [t EXCEPT !.flags = f, !.size = 0, !.n_occupied = 0, !.keys = ks, !.vals = vs]
<1>1. /\ n \in Sizes \cup {0}
      /\ t \in [n_buckets : Nat, flags : [Slots(n) -> Flags],
                keys : [Slots(n) -> KeyCells], vals : [Slots(n) -> ValCells],
                size : Nat, n_occupied : Nat]
  BY DEF TableInv, TableType
<1>2. f \in [Slots(n) -> Flags] /\ ks \in [Slots(n) -> KeyCells] /\ vs \in [Slots(n) -> ValCells]
  BY DEF AllEmpty, InUseOf, Flags, KeyCells, ValCells
<1> HIDE DEF f, ks, vs, u
<1>3. /\ u \in [n_buckets : Nat, flags : [Slots(n) -> Flags],
                keys : [Slots(n) -> KeyCells], vals : [Slots(n) -> ValCells],
                size : Nat, n_occupied : Nat]
      /\ u.n_buckets = n /\ u.flags = f /\ u.size = 0 /\ u.n_occupied = 0
  BY <1>1, <1>2 DEF u
<1>4. TableType(u) /\ u.flags = AllEmpty(u.n_buckets)
  BY <1>1, <1>3 DEF TableType, f
<1>5. TableInv(u, [k \in {} |-> NoEntry])
  BY <1>3, <1>4, EmptyTable
<1> QED BY <1>5 DEF u, f, ks, vs

-----------------------------------------------------------------------------
(* dh_resize *)

(* The number of cells of keys and vals while entries move. *)
Most(old, n) == IF n > old THEN n ELSE old

RehashType(r, oldSize, n) ==
  r \in [old : [Slots(oldSize) -> Flags], new : [Slots(n) -> {"empty", "live"}],
         keys : [Slots(Most(oldSize, n)) -> KeyCells], vals : [Slots(Most(oldSize, n)) -> ValCells],
         j : 0..oldSize, inHand : BOOLEAN, key : KeyCells, val : ValCells]

(* The cells that hold an entry, for the old or for the new flags. *)
HeldIn(r) == LiveIn(r.old) \cup LiveIn(r.new)

(* Every entry is in one place: a slot of the old flags that the loop has not come to,
   a slot of the new flags that a search comes to, or in hand. *)
Moving(r, n, e) ==
  /\ LiveIn(r.old) \cap LiveIn(r.new) = {}
  /\ \A i \in LiveIn(r.old) : i >= r.j
  /\ \A i \in HeldIn(r) : r.keys[i] \in DOMAIN e /\ r.vals[i] = e[r.keys[i]]
  /\ \A i \in LiveIn(r.new) : Reaches(r.new, n, r.keys[i], i)
  /\ r.inHand => r.key \in DOMAIN e /\ r.val = e[r.key]
  /\ \A i, k \in HeldIn(r) : r.keys[i] = r.keys[k] => i = k
  /\ r.inHand => \A i \in HeldIn(r) : r.keys[i] # r.key
  /\ \A key \in DOMAIN e : (r.inHand /\ r.key = key) \/ \E i \in HeldIn(r) : r.keys[i] = key

(* As many entries as the table had, and passes as slots passed and entries placed. *)
MovingCounts(r, oldSize, size, k) ==
  /\ Cardinality(LiveIn(r.old)) + Cardinality(LiveIn(r.new)) + (IF r.inHand THEN 1 ELSE 0) = size
  /\ (~r.inHand /\ r.j = oldSize) \/ r.j + Cardinality(LiveIn(r.new)) = k

RehashInv(r, oldSize, n, e, size, k) ==
  RehashType(r, oldSize, n) /\ Moving(r, n, e) /\ MovingCounts(r, oldSize, size, k)

(* The loop takes the next entry of the old table. *)
LEMMA SlotTaken ==
  ASSUME NEW oldSize \in Nat, NEW n \in Sizes, NEW e, NEW size \in Nat, NEW k \in Nat,
         DOMAIN e \subseteq HashKeys,
         NEW r, RehashInv(r, oldSize, n, e, size, k), ~r.inHand, r.j < oldSize
  PROVE  RehashInv(RehashSlot(r), oldSize, n, e, size, k + 1)
<1> DEFINE u == RehashSlot(r)
           j == r.j
<1>1. /\ r.old \in [Slots(oldSize) -> Flags] /\ r.new \in [Slots(n) -> {"empty", "live"}]
      /\ r.keys \in [Slots(Most(oldSize, n)) -> KeyCells]
      /\ r.vals \in [Slots(Most(oldSize, n)) -> ValCells]
      /\ j \in 0..oldSize /\ r.inHand = FALSE /\ r.key \in KeyCells /\ r.val \in ValCells
  BY DEF RehashInv, RehashType
<1>2. r \in [old : [Slots(oldSize) -> Flags], new : [Slots(n) -> {"empty", "live"}],
             keys : [Slots(Most(oldSize, n)) -> KeyCells],
             vals : [Slots(Most(oldSize, n)) -> ValCells],
             j : 0..oldSize, inHand : BOOLEAN, key : KeyCells, val : ValCells]
  BY DEF RehashInv, RehashType
<1>3. n \in Nat /\ j \in Slots(oldSize) /\ j + 1 \in 0..oldSize /\ j \in Slots(Most(oldSize, n))
  BY <1>1, SizesArePrimes DEF Slots, Most
<1>4. LiveIn(r.old) \in SUBSET Slots(oldSize) /\ LiveIn(r.new) \in SUBSET Slots(n)
  BY <1>1 DEF LiveIn
<1>5. /\ IsFiniteSet(LiveIn(r.old)) /\ Cardinality(LiveIn(r.old)) \in Nat
      /\ IsFiniteSet(LiveIn(r.new)) /\ Cardinality(LiveIn(r.new)) \in Nat
  BY <1>3, <1>4, SlotsFinite
<1>6. CASE r.old[j] # "live"
  <2>1. u = [r EXCEPT !.j = j + 1]
    BY <1>6 DEF RehashSlot
  <2> HIDE DEF u
  <2>2. /\ u \in [old : [Slots(oldSize) -> Flags], new : [Slots(n) -> {"empty", "live"}],
                  keys : [Slots(Most(oldSize, n)) -> KeyCells],
                  vals : [Slots(Most(oldSize, n)) -> ValCells],
                  j : 0..oldSize, inHand : BOOLEAN, key : KeyCells, val : ValCells]
        /\ u.old = r.old /\ u.new = r.new /\ u.keys = r.keys /\ u.vals = r.vals
        /\ u.j = j + 1 /\ u.inHand = r.inHand /\ u.key = r.key /\ u.val = r.val
    BY <1>2, <1>3, <2>1
  <2>3. RehashType(u, oldSize, n)
    BY <2>2 DEF RehashType
  <2>4. \A i \in LiveIn(u.old) : i >= u.j
    <3> TAKE i \in LiveIn(u.old)
    <3>1. i \in LiveIn(r.old) /\ i # j /\ i \in Slots(oldSize)
      BY <1>4, <1>6, <2>2 DEF LiveIn
    <3>2. i >= j
      BY <3>1 DEF RehashInv, Moving
    <3> QED BY <1>1, <2>2, <3>1, <3>2 DEF Slots
  <2>5. Moving(u, n, e)
    BY <2>2, <2>4 DEF RehashInv, Moving, HeldIn
  <2>6. MovingCounts(u, oldSize, size, k + 1)
    BY <1>1, <1>5, <2>2 DEF RehashInv, MovingCounts
  <2> QED BY <2>3, <2>5, <2>6 DEF RehashInv, u
<1>7. CASE r.old[j] = "live"
  <2> DEFINE f == [r.old EXCEPT ![j] = "del"]
             key == r.keys[j]
             val == r.vals[j]
  <2>1. u = [r EXCEPT !.j = j + 1, !.inHand = TRUE, !.key = key, !.val = val, !.old = f]
    BY <1>2, <1>7 DEF RehashSlot
  <2>2. /\ f \in [Slots(oldSize) -> Flags] /\ key \in KeyCells /\ val \in ValCells
        /\ LiveIn(f) = LiveIn(r.old) \ {j} /\ j \in LiveIn(r.old)
    BY <1>1, <1>3, <1>7 DEF LiveIn, Flags
  <2> HIDE DEF u, f
  <2>3. /\ u \in [old : [Slots(oldSize) -> Flags], new : [Slots(n) -> {"empty", "live"}],
                  keys : [Slots(Most(oldSize, n)) -> KeyCells],
                  vals : [Slots(Most(oldSize, n)) -> ValCells],
                  j : 0..oldSize, inHand : BOOLEAN, key : KeyCells, val : ValCells]
        /\ u.old = f /\ u.new = r.new /\ u.keys = r.keys /\ u.vals = r.vals
        /\ u.j = j + 1 /\ u.inHand = TRUE /\ u.key = key /\ u.val = val
    BY <1>2, <1>3, <2>1, <2>2
  <2>4. RehashType(u, oldSize, n)
    BY <2>3 DEF RehashType
  <2>5. /\ LiveIn(r.old) \cap LiveIn(r.new) = {}
        /\ \A i \in LiveIn(r.old) : i >= r.j
        /\ \A i \in HeldIn(r) : r.keys[i] \in DOMAIN e /\ r.vals[i] = e[r.keys[i]]
        /\ \A i \in LiveIn(r.new) : Reaches(r.new, n, r.keys[i], i)
        /\ \A i, l \in HeldIn(r) : r.keys[i] = r.keys[l] => i = l
        /\ \A x \in DOMAIN e : \E i \in HeldIn(r) : r.keys[i] = x
    BY DEF RehashInv, Moving
  <2>6. HeldIn(u) = HeldIn(r) \ {j} /\ j \in HeldIn(r)
    BY <2>2, <2>3, <2>5 DEF HeldIn
  <2>7. \A i \in LiveIn(u.old) : i >= u.j
    <3> TAKE i \in LiveIn(u.old)
    <3>1. i \in LiveIn(r.old) /\ i # j /\ i \in Slots(oldSize)
      BY <1>4, <2>2, <2>3
    <3> QED BY <1>1, <2>3, <2>5, <3>1 DEF Slots
  <2>8. Moving(u, n, e)
    <3>1. LiveIn(u.old) \cap LiveIn(u.new) = {}
      BY <2>2, <2>3, <2>5
    <3>2. \A i \in HeldIn(u) : u.keys[i] \in DOMAIN e /\ u.vals[i] = e[u.keys[i]]
      BY <2>3, <2>5, <2>6
    <3>3. \A i \in LiveIn(u.new) : Reaches(u.new, n, u.keys[i], i)
      BY <2>3, <2>5
    <3>4. u.key \in DOMAIN e /\ u.val = e[u.key] /\ \A i \in HeldIn(u) : u.keys[i] # u.key
      BY <2>3, <2>5, <2>6
    <3>5. \A i, l \in HeldIn(u) : u.keys[i] = u.keys[l] => i = l
      BY <2>3, <2>5, <2>6
    <3>6. \A x \in DOMAIN e : u.key = x \/ \E i \in HeldIn(u) : u.keys[i] = x
      BY <2>3, <2>5, <2>6
    <3> QED BY <2>3, <2>7, <3>1, <3>2, <3>3, <3>4, <3>5, <3>6 DEF Moving
  <2>9. MovingCounts(u, oldSize, size, k + 1)
    <3>1. Cardinality(LiveIn(u.old)) = Cardinality(LiveIn(r.old)) - 1
      BY <1>5, <2>2, <2>3, FS_RemoveElement
    <3>2. /\ Cardinality(LiveIn(r.old)) + Cardinality(LiveIn(r.new)) = size
          /\ j + Cardinality(LiveIn(r.new)) = k
      BY <1>1, <1>5 DEF RehashInv, MovingCounts
    <3>3. /\ Cardinality(LiveIn(u.old)) + Cardinality(LiveIn(u.new)) + 1 = size
          /\ u.j + Cardinality(LiveIn(u.new)) = k + 1
      BY <1>1, <1>5, <2>3, <3>1, <3>2
    <3> QED BY <2>3, <3>3 DEF MovingCounts
  <2> QED BY <2>4, <2>8, <2>9 DEF RehashInv, u
<1> QED BY <1>6, <1>7

(* The entry in hand is placed, and the one that was in its slot is in hand. *)
LEMMA EntryPlaced ==
  ASSUME NEW oldSize \in Nat, NEW n \in Sizes, NEW e, NEW size \in Nat, NEW k \in Nat,
         DOMAIN e \subseteq HashKeys, size < UpperBound(n),
         NEW r, RehashInv(r, oldSize, n, e, size, k), r.inHand
  PROVE  RehashInv(PlaceEntry(r, n), oldSize, n, e, size, k + 1)
<1> DEFINE u == PlaceEntry(r, n)
           key == r.key
           free == {j \in Slots(n) : r.new[Probe(key, n, j)] = "empty"}
           m == Min(free)
           i == Probe(key, n, m)
           taken == i \in LiveIn(r.old)
           cells == Slots(Most(oldSize, n))
<1>1. r \in [old : [Slots(oldSize) -> Flags], new : [Slots(n) -> {"empty", "live"}],
             keys : [cells -> KeyCells], vals : [cells -> ValCells],
             j : 0..oldSize, inHand : BOOLEAN, key : KeyCells, val : ValCells]
  BY DEF RehashInv, RehashType
<1>2. /\ r.old \in [Slots(oldSize) -> Flags] /\ r.new \in [Slots(n) -> {"empty", "live"}]
      /\ r.keys \in [cells -> KeyCells] /\ r.vals \in [cells -> ValCells]
      /\ r.j \in 0..oldSize /\ r.inHand = TRUE /\ key \in KeyCells /\ r.val \in ValCells
  BY <1>1
<1>3. /\ LiveIn(r.old) \cap LiveIn(r.new) = {}
      /\ \A x \in LiveIn(r.old) : x >= r.j
      /\ \A x \in HeldIn(r) : r.keys[x] \in DOMAIN e /\ r.vals[x] = e[r.keys[x]]
      /\ \A x \in LiveIn(r.new) : Reaches(r.new, n, r.keys[x], x)
      /\ key \in DOMAIN e /\ r.val = e[key]
      /\ \A x, y \in HeldIn(r) : r.keys[x] = r.keys[y] => x = y
      /\ \A x \in HeldIn(r) : r.keys[x] # key
      /\ \A x \in DOMAIN e : key = x \/ \E y \in HeldIn(r) : r.keys[y] = x
  BY DEF RehashInv, Moving
<1>4. n \in Nat /\ n > 2 /\ Prime(n) /\ UpperBound(n) \in Nat
  BY SizesArePrimes, BoundFacts
<1>5. LiveIn(r.old) \in SUBSET Slots(oldSize) /\ LiveIn(r.new) \in SUBSET Slots(n)
  BY <1>2 DEF LiveIn
<1>6. /\ IsFiniteSet(LiveIn(r.old)) /\ Cardinality(LiveIn(r.old)) \in Nat
      /\ IsFiniteSet(LiveIn(r.new)) /\ Cardinality(LiveIn(r.new)) \in Nat
  BY <1>4, <1>5, SlotsFinite
<1>7. /\ Cardinality(LiveIn(r.old)) + Cardinality(LiveIn(r.new)) + 1 = size
      /\ r.j + Cardinality(LiveIn(r.new)) = k
  BY <1>2 DEF RehashInv, MovingCounts
<1>8. free # {}
  <2>1. r.new \in [Slots(n) -> Flags] /\ UsedIn(r.new) = LiveIn(r.new)
    BY <1>2 DEF UsedIn, LiveIn, Flags
  <2>2. Cardinality(UsedIn(r.new)) <= UpperBound(n)
    BY <1>4, <1>6, <1>7, <2>1
  <2>3. key \in HashKeys
    BY <1>3
  <2> QED BY <2>1, <2>2, <2>3, EmptySlot
<1>9. m \in free /\ \A j \in free : m <= j
  <2>1. free \in SUBSET Nat
    BY <1>4 DEF Slots
  <2> HIDE DEF free
  <2> QED BY <1>8, <2>1, MinIs
<1>10. m \in Slots(n) /\ r.new[i] = "empty"
  BY <1>9
<1>11. i \in Slots(n)
  BY <1>3, <1>4, <1>10, ProbeFacts
<1>12. \A j \in Slots(m) : j \in Slots(n) /\ r.new[Probe(key, n, j)] # "empty"
  <2> HIDE DEF m
  <2> TAKE j \in Slots(m)
  <2>1. j \in Slots(n) /\ ~(m <= j)
    BY <1>4, <1>10 DEF Slots
  <2>2. j \notin free
    BY <1>9, <2>1
  <2> QED BY <2>1, <2>2
<1> HIDE DEF m, i
<1>13. i \in cells /\ \A x \in Slots(n) : x \in cells
  BY <1>4, <1>11 DEF Slots, Most
<1>14. \A x \in Slots(oldSize) : x \in cells
  BY <1>4 DEF Slots, Most
<1> DEFINE g == [r.new EXCEPT ![i] = "live"]
           ks == [r.keys EXCEPT ![i] = key]
           vs == [r.vals EXCEPT ![i] = r.val]
           f == IF taken THEN [r.old EXCEPT ![i] = "del"] ELSE r.old
           nextKey == IF taken THEN r.keys[i] ELSE key
           nextVal == IF taken THEN r.vals[i] ELSE r.val
<1>15. u = [r EXCEPT !.new = g, !.keys = ks, !.vals = vs, !.old = f, !.key = nextKey,
                     !.val = nextVal, !.inHand = taken]
  <2>1. taken <=> (i \in DOMAIN r.old /\ r.old[i] = "live")
    BY DEF LiveIn
  <2> DEFINE was == i \in DOMAIN r.old /\ r.old[i] = "live"
  <2>2. u = [r EXCEPT !.new[i] = "live", !.keys[i] = r.key, !.vals[i] = r.val,
                      !.old = IF was THEN [@ EXCEPT ![i] = "del"] ELSE @,
                      !.key = IF was THEN r.keys[i] ELSE @,
                      !.val = IF was THEN r.vals[i] ELSE @,
                      !.inHand = was]
    BY DEF PlaceEntry, m, i
  <2>3. was = taken
    BY <2>1
  <2> HIDE DEF was, taken, u
  <2>4. u = [r EXCEPT !.new[i] = "live", !.keys[i] = r.key, !.vals[i] = r.val,
                      !.old = IF taken THEN [@ EXCEPT ![i] = "del"] ELSE @,
                      !.key = IF taken THEN r.keys[i] ELSE @,
                      !.val = IF taken THEN r.vals[i] ELSE @,
                      !.inHand = taken]
    BY <2>2, <2>3
  <2> QED BY <1>1, <2>4
<1>16. /\ g \in [Slots(n) -> {"empty", "live"}] /\ ks \in [cells -> KeyCells]
       /\ vs \in [cells -> ValCells] /\ f \in [Slots(oldSize) -> Flags]
       /\ nextKey \in KeyCells /\ nextVal \in ValCells /\ taken \in BOOLEAN
  <2>1. g \in [Slots(n) -> {"empty", "live"}]
    BY <1>2
  <2>2. ks \in [cells -> KeyCells] /\ vs \in [cells -> ValCells]
    BY <1>2
  <2>3. f \in [Slots(oldSize) -> Flags]
    BY <1>2 DEF Flags
  <2> QED BY <1>2, <1>13, <2>1, <2>2, <2>3
<1>17. /\ LiveIn(g) = LiveIn(r.new) \cup {i} /\ i \notin LiveIn(r.new)
       /\ LiveIn(f) = LiveIn(r.old) \ {i}
  <2>1. LiveIn(g) = LiveIn(r.new) \cup {i} /\ i \notin LiveIn(r.new)
    BY <1>2, <1>10, <1>11 DEF LiveIn, i
  <2>2. LiveIn(f) = LiveIn(r.old) \ {i}
    BY <1>2 DEF LiveIn
  <2> QED BY <2>1, <2>2
<1>18. /\ ks[i] = key /\ vs[i] = r.val
       /\ \A x \in cells : x # i => ks[x] = r.keys[x] /\ vs[x] = r.vals[x]
  BY <1>2, <1>13
<1>19. g[i] = "live" /\ \A x \in Slots(n) : x # i => g[x] = r.new[x]
  BY <1>2, <1>11
<1> HIDE DEF g, ks, vs, f, u, cells
<1>20. /\ u \in [old : [Slots(oldSize) -> Flags], new : [Slots(n) -> {"empty", "live"}],
                 keys : [cells -> KeyCells], vals : [cells -> ValCells],
                 j : 0..oldSize, inHand : BOOLEAN, key : KeyCells, val : ValCells]
       /\ u.old = f /\ u.new = g /\ u.keys = ks /\ u.vals = vs /\ u.j = r.j
       /\ u.inHand = taken /\ u.key = nextKey /\ u.val = nextVal
  <2> HIDE DEF nextKey, nextVal, taken
  <2> QED BY <1>1, <1>15, <1>16
<1>21. RehashType(u, oldSize, n)
  BY <1>20 DEF RehashType, cells
<1>22. /\ HeldIn(u) = HeldIn(r) \cup {i}
       /\ taken => i \in HeldIn(r)
       /\ \A x \in HeldIn(u) : x \in cells
  BY <1>5, <1>13, <1>14, <1>17, <1>20 DEF HeldIn
<1>23. \A x \in HeldIn(r) : x # i \/ taken
  BY <1>17 DEF HeldIn
<1>24. Moving(u, n, e)
  <2>1. LiveIn(u.old) \cap LiveIn(u.new) = {} /\ \A x \in LiveIn(u.old) : x >= u.j
    BY <1>3, <1>17, <1>20
  <2>2. \A x \in HeldIn(u) : u.keys[x] \in DOMAIN e /\ u.vals[x] = e[u.keys[x]]
    BY <1>3, <1>18, <1>20, <1>22
  <2>3. \A x \in LiveIn(u.new) : Reaches(u.new, n, u.keys[x], x)
    <3>1. r.new \in [Slots(n) -> Flags] /\ g \in [Slots(n) -> Flags]
      BY <1>2, <1>16 DEF Flags
    <3>2. \A y \in HashKeys, x \in Slots(n) : Reaches(r.new, n, y, x) => Reaches(g, n, y, x)
      BY <1>19, <3>1, StillReaches
    <3>3. Reaches(r.new, n, key, i)
      BY <1>10, <1>12 DEF Reaches, i
    <3>4. Reaches(g, n, key, i)
      BY <1>3, <1>11, <3>2, <3>3
    <3>5. ASSUME NEW x \in LiveIn(r.new) PROVE Reaches(g, n, ks[x], x)
      <4>1. x \in Slots(n) /\ x # i /\ x \in HeldIn(r)
        BY <1>5, <1>17 DEF HeldIn
      <4>2. ks[x] = r.keys[x] /\ r.keys[x] \in HashKeys
        BY <1>3, <1>13, <1>18, <4>1
      <4> QED BY <1>3, <3>2, <4>1, <4>2
    <3> QED BY <1>17, <1>18, <1>20, <3>4, <3>5
  <2>4. u.inHand => u.key \in DOMAIN e /\ u.val = e[u.key]
    BY <1>3, <1>20, <1>22
  <2>5. \A x, y \in HeldIn(u) : u.keys[x] = u.keys[y] => x = y
    BY <1>3, <1>18, <1>20, <1>22
  <2>6. u.inHand => \A x \in HeldIn(u) : u.keys[x] # u.key
    BY <1>3, <1>18, <1>20, <1>22
  <2>7. \A x \in DOMAIN e : (u.inHand /\ u.key = x) \/ \E y \in HeldIn(u) : u.keys[y] = x
    <3> TAKE x \in DOMAIN e
    <3>1. CASE key = x
      BY <1>18, <1>20, <1>22, <3>1
    <3>2. CASE key # x
      <4>1. PICK y \in HeldIn(r) : r.keys[y] = x
        BY <1>3, <3>2
      <4>2. CASE y = i
        BY <1>20, <1>23, <4>1, <4>2
      <4>3. CASE y # i
        BY <1>18, <1>20, <1>22, <4>1, <4>3
      <4> QED BY <4>2, <4>3
    <3> QED BY <3>1, <3>2
  <2> QED BY <2>1, <2>2, <2>3, <2>4, <2>5, <2>6, <2>7 DEF Moving
<1>25. MovingCounts(u, oldSize, size, k + 1)
  <2>1. Cardinality(LiveIn(u.new)) = Cardinality(LiveIn(r.new)) + 1
    BY <1>6, <1>17, <1>20, FS_AddElement
  <2>2. Cardinality(LiveIn(u.old)) = IF taken THEN Cardinality(LiveIn(r.old)) - 1
                                     ELSE Cardinality(LiveIn(r.old))
    BY <1>6, <1>17, <1>20, FS_RemoveElement
  <2>3. Cardinality(LiveIn(u.old)) + Cardinality(LiveIn(u.new)) + (IF taken THEN 1 ELSE 0) = size
    BY <1>6, <1>7, <2>1, <2>2
  <2>4. u.j + Cardinality(LiveIn(u.new)) = k + 1
    BY <1>2, <1>6, <1>7, <1>20, <2>1
  <2> QED BY <1>20, <2>3, <2>4 DEF MovingCounts
<1> QED BY <1>21, <1>24, <1>25 DEF RehashInv, u

(* The function of the passes exists. *)
LEMMA RehashUnfolds ==
  ASSUME NEW t, NEW n, t.n_buckets \in Nat
  PROVE  \E K : /\ K[0] = RehashStart(t, n)
                /\ \A k \in 1..(2 * t.n_buckets) : K[k] = RehashPass(K[k - 1], t.n_buckets, n)
                /\ Rehash(t, n) = K[2 * t.n_buckets]
<1> DEFINE last == 2 * t.n_buckets
           Step(g, k) == IF k = 0 THEN RehashStart(t, n) ELSE RehashPass(g[k - 1], t.n_buckets, n)
           Fits(g, l) == g = [k \in 0..l |-> Step(g, k)]
           Good == {l \in Nat : \E g : Fits(g, l)}
           K == CHOOSE g : Fits(g, last)
<1>1. last \in Nat
  OBVIOUS
<1>2. 0 \in Good
  <2>1. Fits([k \in 0..0 |-> RehashStart(t, n)], 0)
    OBVIOUS
  <2> QED BY <2>1
<1>3. ASSUME NEW l \in 1..last, l - 1 \in Good
      PROVE  l \in Good
  <2>1. PICK g : Fits(g, l - 1)
    BY <1>3
  <2> DEFINE h == [k \in 0..l |-> IF k = l THEN Step(g, l) ELSE g[k]]
  <2>2. \A k \in 0..l : h[k] = Step(h, k)
    <3> TAKE k \in 0..l
    <3>1. CASE k = l
      BY <3>1
    <3>2. CASE k # l
      <4>1. k \in 0..(l - 1) /\ h[k] = g[k]
        BY <3>2
      <4>2. g[k] = Step(g, k)
        BY <2>1, <4>1
      <4>3. k # 0 => h[k - 1] = g[k - 1]
        BY <4>1
      <4> QED BY <4>1, <4>2, <4>3
    <3> QED BY <3>1, <3>2
  <2>3. Fits(h, l)
    BY <2>2
  <2>4. l \in Nat
    BY <1>1
  <2> HIDE DEF Fits, h
  <2> QED BY <2>3, <2>4
<1>4. last \in Good
  <2> HIDE DEF Good, last
  <2>1. Good \in SUBSET Nat
    BY DEF Good
  <2>2. \A l \in 1..last : l - 1 \in Good => l \in Good
    BY <1>3
  <2>3. \A l \in 0..last : l \in Good
    BY <1>1, <1>2, <2>1, <2>2, UpTo
  <2> QED BY <1>1, <2>3
<1>5. Fits(K, last)
  BY <1>4
<1>6. Rehash(t, n) = K[last]
  BY Zenon DEF Rehash
<1> HIDE DEF K
<1>7. K[0] = RehashStart(t, n)
  BY <1>1, <1>5
<1>8. \A k \in 1..last : K[k] = RehashPass(K[k - 1], t.n_buckets, n)
  <2> TAKE k \in 1..last
  <2>1. K[k] = Step(K, k)
    <3> HIDE DEF Step
    <3> QED BY <1>1, <1>5
  <2> QED BY <2>1
<1> QED BY <1>6, <1>7, <1>8

(* Before the first pass every entry is in the old table. *)
LEMMA RehashBegins ==
  ASSUME NEW t, NEW e, TableInv(t, e), NEW n \in Sizes
  PROVE  RehashInv(RehashStart(t, n), t.n_buckets, n, e, t.size, 0)
<1> DEFINE old == t.n_buckets
           cells == Slots(Most(old, n))
           u == RehashStart(t, n)
           ks == [i \in cells |-> IF i \in Slots(old) THEN t.keys[i] ELSE NoEntry]
           vs == [i \in cells |-> IF i \in Slots(old) THEN t.vals[i] ELSE NoEntry]
<1>1. /\ old \in Nat /\ t.flags \in [Slots(old) -> Flags] /\ t.size \in Nat
      /\ t.keys \in [Slots(old) -> KeyCells] /\ t.vals \in [Slots(old) -> ValCells]
  BY DEF TableInv, TableType
<1>2. u = [old |-> t.flags, new |-> AllEmpty(n), keys |-> ks, vals |-> vs,
           j |-> 0, inHand |-> FALSE, key |-> NoEntry, val |-> NoEntry]
  BY DEF RehashStart, Most
<1>3. AllEmpty(n) \in [Slots(n) -> {"empty", "live"}] /\ LiveIn(AllEmpty(n)) = {}
  BY DEF AllEmpty, LiveIn
<1>4. ks \in [cells -> KeyCells] /\ vs \in [cells -> ValCells]
  BY <1>1 DEF KeyCells, ValCells
<1>5. \A i \in LiveIn(t.flags) : i \in Slots(old) /\ i \in cells /\ ks[i] = t.keys[i] /\ vs[i] = t.vals[i]
  <2>1. \A i \in Slots(old) : i \in cells
    BY <1>1, SizesArePrimes DEF Slots, Most
  <2>2. \A i \in LiveIn(t.flags) : i \in Slots(old)
    BY <1>1 DEF LiveIn
  <2> QED BY <2>1, <2>2
<1>6. NoEntry \in KeyCells /\ NoEntry \in ValCells /\ 0 \in 0..old
  BY <1>1 DEF KeyCells, ValCells
<1> HIDE DEF ks, vs, u
<1>7. /\ u \in [old : [Slots(old) -> Flags], new : [Slots(n) -> {"empty", "live"}],
                keys : [cells -> KeyCells], vals : [cells -> ValCells],
                j : 0..old, inHand : BOOLEAN, key : KeyCells, val : ValCells]
      /\ u.old = t.flags /\ u.new = AllEmpty(n) /\ u.keys = ks /\ u.vals = vs
      /\ u.j = 0 /\ u.inHand = FALSE
  BY <1>1, <1>2, <1>3, <1>4, <1>6
<1>8. RehashType(u, old, n)
  BY <1>7 DEF RehashType
<1>9. HeldIn(u) = LiveIn(t.flags) /\ LiveIn(u.new) = {}
  BY <1>3, <1>7 DEF HeldIn
<1>10. Moving(u, n, e)
  <2>1. \A i \in LiveIn(u.old) : i >= u.j
    BY <1>1, <1>5, <1>7 DEF Slots
  <2>2. /\ \A i \in LiveIn(t.flags) : t.keys[i] \in DOMAIN e /\ t.vals[i] = e[t.keys[i]]
        /\ \A i, k \in LiveIn(t.flags) : t.keys[i] = t.keys[k] => i = k
        /\ \A key \in DOMAIN e : \E i \in LiveIn(t.flags) : t.keys[i] = key
    BY DEF TableInv, SlotsHold
  <2> QED BY <1>5, <1>7, <1>9, <2>1, <2>2 DEF Moving
<1>11. MovingCounts(u, old, t.size, 0)
  BY <1>1, <1>7, <1>9, FS_EmptySet DEF MovingCounts, TableInv, Counted
<1> QED BY <1>8, <1>10, <1>11 DEF RehashInv, u

(* A pass of the loops. *)
LEMMA PassKeeps ==
  ASSUME NEW oldSize \in Nat, NEW n \in Sizes, NEW e, NEW size \in Nat, NEW k \in Nat,
         DOMAIN e \subseteq HashKeys, size < UpperBound(n),
         NEW r, RehashInv(r, oldSize, n, e, size, k)
  PROVE  RehashInv(RehashPass(r, oldSize, n), oldSize, n, e, size, k + 1)
<1>1. CASE r.inHand
  BY <1>1, EntryPlaced DEF RehashPass
<1>2. CASE ~r.inHand /\ r.j < oldSize
  BY <1>2, SlotTaken DEF RehashPass
<1>3. CASE ~r.inHand /\ ~(r.j < oldSize)
  <2>1. r.j = oldSize
    BY <1>3 DEF RehashInv, RehashType
  <2>2. RehashPass(r, oldSize, n) = r
    BY <1>3 DEF RehashPass
  <2> QED BY <1>3, <2>1, <2>2 DEF RehashInv, MovingCounts
<1> QED BY <1>1, <1>2, <1>3

(* dh_resize keeps the entries and leaves no deleted slot. *)
LEMMA RehashKeeps ==
  ASSUME NEW t, NEW e, TableInv(t, e), NEW want, NextPrime(want) \in Sizes,
         t.size < UpperBound(NextPrime(want))
  PROVE  LET u == dh_resize(t, want)
         IN  /\ TableInv(u, e) /\ u.n_buckets = NextPrime(want)
             /\ u.n_occupied < UpperBound(u.n_buckets)
<1> DEFINE n == NextPrime(want)
           old == t.n_buckets
           r == Rehash(t, n)
           u == dh_resize(t, want)
           ks == InUseOf(r.new, r.keys)
           vs == InUseOf(r.new, r.vals)
           cells == Slots(Most(old, n))
<1>1. /\ old \in Sizes \cup {0} /\ old \in Nat /\ t.size \in Nat /\ t.n_occupied \in Nat
      /\ t.flags \in [Slots(old) -> Flags]
      /\ t \in [n_buckets : Nat, flags : [Slots(old) -> Flags],
                keys : [Slots(old) -> KeyCells], vals : [Slots(old) -> ValCells],
                size : Nat, n_occupied : Nat]
  BY DEF TableInv, TableType
<1>2. n \in Sizes /\ n \in Nat /\ UpperBound(n) \in Nat /\ DOMAIN e \subseteq HashKeys
  BY SizesArePrimes, BoundFacts DEF TableInv, SlotsHold
<1> HIDE DEF n
<1>3. RehashInv(r, old, n, e, t.size, 2 * old)
  <2>1. PICK K : /\ K[0] = RehashStart(t, n)
                 /\ \A k \in 1..(2 * old) : K[k] = RehashPass(K[k - 1], old, n)
                 /\ Rehash(t, n) = K[2 * old]
    BY <1>1, RehashUnfolds
  <2> DEFINE Good == {k \in Nat : RehashInv(K[k], old, n, e, t.size, k)}
  <2>2. 0 \in Good
    BY <1>2, <2>1, RehashBegins
  <2>3. \A k \in 1..(2 * old) : k - 1 \in Good => k \in Good
    <3> SUFFICES ASSUME NEW k \in 1..(2 * old), k - 1 \in Good PROVE k \in Good
      OBVIOUS
    <3>1. k - 1 \in Nat /\ k \in Nat /\ (k - 1) + 1 = k
      BY <1>1
    <3>2. RehashInv(K[k - 1], old, n, e, t.size, k - 1)
      OBVIOUS
    <3>3. RehashInv(RehashPass(K[k - 1], old, n), old, n, e, t.size, (k - 1) + 1)
      <4> DEFINE l == k - 1
      <4> HIDE DEF l
      <4>1. l \in Nat /\ RehashInv(K[l], old, n, e, t.size, l)
        BY <3>1, <3>2 DEF l
      <4>2. RehashInv(RehashPass(K[l], old, n), old, n, e, t.size, l + 1)
        BY <1>1, <1>2, <4>1, PassKeeps DEF n
      <4> QED BY <4>2 DEF l
    <3> QED BY <2>1, <3>1, <3>3
  <2>4. Good \in SUBSET Nat /\ 2 * old \in Nat
    BY <1>1
  <2> HIDE DEF Good
  <2>5. \A k \in 0..(2 * old) : k \in Good
    BY <2>2, <2>3, <2>4, UpTo
  <2>6. 2 * old \in Good
    BY <2>4, <2>5
  <2> QED BY <2>1, <2>6 DEF Good
<1> HIDE DEF r
<1>4. r \in [old : [Slots(old) -> Flags], new : [Slots(n) -> {"empty", "live"}],
             keys : [cells -> KeyCells], vals : [cells -> ValCells],
             j : 0..old, inHand : BOOLEAN, key : KeyCells, val : ValCells]
  BY <1>3 DEF RehashInv, RehashType
<1>5. /\ r.old \in [Slots(old) -> Flags] /\ r.new \in [Slots(n) -> {"empty", "live"}]
      /\ r.keys \in [cells -> KeyCells] /\ r.vals \in [cells -> ValCells]
      /\ r.j \in 0..old /\ r.inHand \in BOOLEAN
  BY <1>4
<1>6. /\ LiveIn(r.old) \in SUBSET Slots(old) /\ LiveIn(r.new) \in SUBSET Slots(n)
      /\ Cardinality(LiveIn(r.old)) \in Nat /\ Cardinality(LiveIn(r.new)) \in Nat
  <2>1. LiveIn(r.old) \in SUBSET Slots(old) /\ LiveIn(r.new) \in SUBSET Slots(n)
    BY <1>5 DEF LiveIn
  <2> QED BY <1>1, <1>2, <2>1, SlotsFinite
<1>7. t.size < old \/ (old = 0 /\ t.size = 0)
  <2>1. LiveIn(t.flags) \subseteq UsedIn(t.flags) /\ UsedIn(t.flags) \in SUBSET Slots(old)
    BY <1>1 DEF LiveIn, UsedIn
  <2>2. IsFiniteSet(UsedIn(t.flags))
    BY <1>1, <2>1, SlotsFinite
  <2>3. Cardinality(LiveIn(t.flags)) <= Cardinality(UsedIn(t.flags))
    BY <2>1, <2>2, FS_Subset
  <2>4. t.size <= t.n_occupied /\ t.n_occupied <= UpperBound(old)
    BY <2>3 DEF TableInv, Counted
  <2>5. /\ old # 0 => UpperBound(old) < old /\ UpperBound(old) \in Nat
        /\ UpperBound(0) = 0
    BY <1>1, SizesArePrimes, BoundFacts
  <2> QED BY <1>1, <2>4, <2>5
<1>8. ~r.inHand /\ r.j = old
  <2>1. /\ Cardinality(LiveIn(r.old)) + Cardinality(LiveIn(r.new)) + (IF r.inHand THEN 1 ELSE 0) = t.size
        /\ (~r.inHand /\ r.j = old) \/ r.j + Cardinality(LiveIn(r.new)) = 2 * old
    BY <1>3 DEF RehashInv, MovingCounts
  <2>2. Cardinality(LiveIn(r.new)) <= t.size
    BY <1>1, <1>6, <2>1
  <2>3. r.j # old \/ r.inHand => r.j + Cardinality(LiveIn(r.new)) = 2 * old
    BY <2>1
  <2>4. CASE old = 0
    <3>1. r.j = 0 /\ t.size = 0
      BY <1>1, <1>5, <1>7, <2>4
    <3>2. ASSUME r.inHand PROVE FALSE
      <4>1. Cardinality(LiveIn(r.old)) + Cardinality(LiveIn(r.new)) + 1 = t.size
        BY <2>1, <3>2
      <4> QED BY <1>6, <3>1, <4>1
    <3> QED BY <2>4, <3>1, <3>2
  <2>5. CASE old # 0
    <3> DEFINE c == Cardinality(LiveIn(r.new))
    <3>1. c \in Nat /\ c < old /\ r.j <= old /\ r.j \in Nat
      BY <1>1, <1>5, <1>6, <1>7, <2>2, <2>5
    <3> HIDE DEF c
    <3>2. r.j + c # 2 * old
      BY <1>1, <3>1
    <3> QED BY <1>5, <2>3, <3>2 DEF c
  <2> QED BY <2>4, <2>5
<1>9. LiveIn(r.old) = {} /\ HeldIn(r) = LiveIn(r.new)
  <2>1. \A i \in LiveIn(r.old) : i >= r.j
    BY <1>3 DEF RehashInv, Moving
  <2>2. LiveIn(r.old) = {}
    BY <1>1, <1>6, <1>8, <2>1 DEF Slots
  <2> QED BY <2>2 DEF HeldIn
<1>10. Cardinality(LiveIn(r.new)) = t.size
  BY <1>1, <1>3, <1>6, <1>8, <1>9, FS_EmptySet DEF RehashInv, MovingCounts
<1>11. u = [t EXCEPT !.n_buckets = n, !.flags = r.new, !.n_occupied = t.size,
                     !.keys = ks, !.vals = vs]
  BY <1>1, <1>2 DEF dh_resize, n, r
<1>12. \A i \in Slots(n) : i \in cells
  BY <1>1, <1>2 DEF Slots, Most
<1>13. /\ r.new \in [Slots(n) -> Flags]
       /\ ks \in [Slots(n) -> KeyCells] /\ vs \in [Slots(n) -> ValCells]
       /\ \A i \in LiveIn(r.new) : ks[i] = r.keys[i] /\ vs[i] = r.vals[i]
  <2>1. r.new \in [Slots(n) -> Flags]
    BY <1>5 DEF Flags
  <2>2. ks \in [Slots(n) -> KeyCells] /\ vs \in [Slots(n) -> ValCells]
    BY <1>5, <1>12 DEF InUseOf, KeyCells, ValCells
  <2>3. \A i \in LiveIn(r.new) : ks[i] = r.keys[i] /\ vs[i] = r.vals[i]
    BY DEF InUseOf, LiveIn
  <2> QED BY <2>1, <2>2, <2>3
<1> HIDE DEF ks, vs, u
<1>14. /\ u \in [n_buckets : Nat, flags : [Slots(n) -> Flags],
                 keys : [Slots(n) -> KeyCells], vals : [Slots(n) -> ValCells],
                 size : Nat, n_occupied : Nat]
       /\ u.n_buckets = n /\ u.flags = r.new /\ u.n_occupied = t.size /\ u.size = t.size
       /\ u.keys = ks /\ u.vals = vs
  BY <1>1, <1>2, <1>11, <1>13
<1>15. TableType(u)
  BY <1>2, <1>14 DEF TableType
<1>16. UsedIn(r.new) = LiveIn(r.new)
  BY <1>5 DEF UsedIn, LiveIn
<1>17. Counted(u) /\ u.n_occupied < UpperBound(n)
  BY <1>1, <1>2, <1>10, <1>14, <1>16 DEF Counted, n
<1>18. SlotsHold(u, e)
  <2>1. /\ \A i \in LiveIn(r.new) : r.keys[i] \in DOMAIN e /\ r.vals[i] = e[r.keys[i]]
        /\ \A i \in LiveIn(r.new) : Reaches(r.new, n, r.keys[i], i)
        /\ \A i, k \in LiveIn(r.new) : r.keys[i] = r.keys[k] => i = k
        /\ \A key \in DOMAIN e : \E i \in LiveIn(r.new) : r.keys[i] = key
    BY <1>3, <1>8, <1>9 DEF RehashInv, Moving
  <2> QED BY <1>2, <1>13, <1>14, <2>1 DEF SlotsHold
<1> QED BY <1>14, <1>15, <1>17, <1>18 DEF TableInv, u, n

(* What dh_put does first makes room. *)
LEMMA ResizedHasRoom ==
  ASSUME NEW t, NEW e, TableInv(t, e)
  PROVE  LET u == Resized(t)
         IN  /\ TableInv(u, e) /\ u.n_buckets # 0
             /\ u.n_occupied < UpperBound(u.n_buckets)
<1> DEFINE n == t.n_buckets
<1>1. /\ n \in Sizes \cup {0} /\ n \in Nat /\ t.size \in Nat /\ t.n_occupied \in Nat
      /\ t.flags \in [Slots(n) -> Flags]
  BY DEF TableInv, TableType
<1>2. UpperBound(n) \in Nat /\ UpperBound(0) = 0
  BY <1>1, BoundFacts
<1>3. LiveIn(t.flags) \subseteq UsedIn(t.flags) /\ UsedIn(t.flags) \in SUBSET Slots(n)
  BY <1>1 DEF LiveIn, UsedIn
<1>4. IsFiniteSet(UsedIn(t.flags)) /\ IsFiniteSet(LiveIn(t.flags))
  BY <1>1, <1>3, SlotsFinite
<1>5. t.size <= t.n_occupied /\ t.n_occupied <= UpperBound(n)
  BY <1>3, <1>4, FS_Subset DEF TableInv, Counted
<1>6. t.size <= Cardinality(HashKeys) /\ Cardinality(HashKeys) \in Nat
  <2> DEFINE f == [i \in LiveIn(t.flags) |-> t.keys[i]]
  <2>1. /\ \A i \in LiveIn(t.flags) : t.keys[i] \in HashKeys
        /\ \A i, k \in LiveIn(t.flags) : t.keys[i] = t.keys[k] => i = k
    BY DEF TableInv, SlotsHold
  <2>2. f \in Injection(LiveIn(t.flags), HashKeys)
    BY <2>1 DEF Injection, IsInjective
  <2> HIDE DEF f
  <2>3. IsFiniteSet(HashKeys)
    BY HashAssumption
  <2>4. Cardinality(LiveIn(t.flags)) <= Cardinality(HashKeys)
    BY <2>2, <2>3, FS_Injection
  <2> QED BY <2>3, <2>4, FS_CardinalityType DEF TableInv, Counted
<1>7. CASE t.n_occupied < UpperBound(n)
  <2>1. n # 0
    BY <1>1, <1>2, <1>7
  <2> QED BY <1>7, <2>1 DEF Resized
<1>8. CASE ~(t.n_occupied < UpperBound(n)) /\ n > 2 * t.size
  <2>1. n \in Sizes
    BY <1>1, <1>8
  <2>2. NextPrime(n - 1) = n
    BY <2>1, SamePrime
  <2>3. t.size < UpperBound(n)
    BY <1>1, <1>8, BoundFacts
  <2>4. Resized(t) = dh_resize(t, n - 1)
    BY <1>8 DEF Resized
  <2> QED BY <2>1, <2>2, <2>3, <2>4, RehashKeeps, SizesArePrimes
<1>9. CASE ~(t.n_occupied < UpperBound(n)) /\ ~(n > 2 * t.size)
  <2>1. n + 1 \in Nat /\ n + 1 <= 2 * Cardinality(HashKeys) + 1
    BY <1>1, <1>6, <1>9
  <2> DEFINE m == NextPrime(n + 1)
  <2>2. m \in Sizes /\ m > n + 1
    BY <2>1, LargerPrime
  <2>3. m \in Nat /\ m > 2
    BY <2>2, SizesArePrimes
  <2>4. t.size <= UpperBound(n)
    BY <1>1, <1>2, <1>5
  <2> HIDE DEF m
  <2>5. t.size < UpperBound(m)
    BY <1>1, <2>2, <2>3, <2>4, BoundFacts
  <2>6. Resized(t) = dh_resize(t, n + 1)
    BY <1>9 DEF Resized
  <2> QED BY <2>2, <2>3, <2>5, <2>6, RehashKeeps DEF m
<1> QED BY <1>7, <1>8, <1>9

-----------------------------------------------------------------------------
(* The table *)

HashInv == TableInv(table, entries)

LEMMA HashStarts == HashInit => HashInv
<1> SUFFICES ASSUME HashInit PROVE HashInv
  OBVIOUS
<1>1. table = [n_buckets |-> 0, flags |-> AllEmpty(0), keys |-> [i \in {} |-> NoEntry],
               vals |-> [i \in {} |-> NoEntry], size |-> 0, n_occupied |-> 0]
      /\ entries = [k \in {} |-> NoEntry]
  BY DEF HashInit
<1>2. Slots(0) = {}
  BY DEF Slots
<1>3. AllEmpty(0) \in [Slots(0) -> Flags] /\ [i \in {} |-> NoEntry] \in [Slots(0) -> KeyCells]
      /\ [i \in {} |-> NoEntry] \in [Slots(0) -> ValCells]
  BY <1>2 DEF AllEmpty
<1>4. TableType(table)
  BY <1>1, <1>3 DEF TableType
<1>5. table.flags = AllEmpty(table.n_buckets) /\ table.size = 0 /\ table.n_occupied = 0
  BY <1>1
<1> QED BY <1>1, <1>4, <1>5, EmptyTable DEF HashInv

LEMMA HashStep ==
  ASSUME HashInv, [HashNext]_hashVars
  PROVE  HashInv'
<1>1. ASSUME NEW key \in HashKeys, NEW val \in HashVals, Put(key, val)
      PROVE  HashInv'
  <2> DEFINE t == Resized(table)
  <2>1. TableInv(t, entries) /\ t.n_buckets # 0 /\ t.n_occupied < UpperBound(t.n_buckets)
    BY ResizedHasRoom DEF HashInv
  <2>2. table' = Stored(t, key, val) /\ entries' = With(entries, key, val)
    BY <1>1 DEF Put, Stored, With
  <2> HIDE DEF t
  <2>3. TableInv(Stored(t, key, val), With(entries, key, val))
    BY <2>1, PutKeeps
  <2> QED BY <2>2, <2>3 DEF HashInv
<1>2. ASSUME NEW key \in HashKeys, Del(key) PROVE HashInv'
  <2> DEFINE x == dh_get(table, key)
             u == [table EXCEPT !.flags[x] = "del", !.size = @ - 1, !.keys[x] = NoEntry,
                                !.vals[x] = NoEntry]
             d == [k \in DOMAIN entries \ {key} |-> entries[k]]
  <2>1. x # table.n_buckets /\ table' = u /\ entries' = d
    BY <1>2 DEF Del
  <2>2. TableInv(u, d)
    BY <2>1, DelKeeps DEF HashInv
  <2> HIDE DEF u, d
  <2> QED BY <2>1, <2>2 DEF HashInv
<1>3. ASSUME Clear PROVE HashInv'
  <2> DEFINE u == [table EXCEPT !.flags = AllEmpty(table.n_buckets), !.size = 0, !.n_occupied = 0,
                                !.keys = InUseOf(AllEmpty(table.n_buckets), @),
                                !.vals = InUseOf(AllEmpty(table.n_buckets), @)]
             d == [k \in {} |-> NoEntry]
  <2>1. table' = u /\ entries' = d
    BY <1>3 DEF Clear
  <2>2. TableInv(u, d)
    BY ClearKeeps DEF HashInv
  <2> HIDE DEF u, d
  <2> QED BY <2>1, <2>2 DEF HashInv
<1>4. ASSUME UNCHANGED hashVars PROVE HashInv'
  <2>1. table' = table /\ entries' = entries
    BY <1>4 DEF hashVars
  <2> QED BY <2>1 DEF HashInv
<1> QED BY <1>1, <1>2, <1>3, <1>4 DEF HashNext

LEMMA HashInvSuffices == HashInv => HashSound
<1> SUFFICES ASSUME HashInv PROVE HashSound
  OBVIOUS
<1> DEFINE n == table.n_buckets
           live == {i \in Slots(n) : table.flags[i] = "live"}
<1>1. TableInv(table, entries)
  BY DEF HashInv
<1>2. n \in Sizes \cup {0} /\ n \in Nat /\ table.flags \in [Slots(n) -> Flags]
  BY <1>1 DEF TableInv, TableType
<1>3. live = LiveIn(table.flags) /\ {i \in Slots(n) : table.flags[i] # "empty"} = UsedIn(table.flags)
  BY <1>2 DEF LiveIn, UsedIn
<1>4. /\ \A i \in live : table.keys[i] \in DOMAIN entries /\ table.vals[i] = entries[table.keys[i]]
      /\ \A i, k \in live : table.keys[i] = table.keys[k] => i = k
      /\ \A key \in DOMAIN entries : \E i \in live : table.keys[i] = key
  BY <1>1, <1>3 DEF TableInv, SlotsHold
<1>5. SearchFinds
  <2> SUFFICES ASSUME NEW key \in HashKeys
               PROVE  LET x == dh_get(table, key)
                      IN  IF key \in DOMAIN entries
                          THEN x # table.n_buckets /\ table.vals[x] = entries[key]
                          ELSE x = table.n_buckets
    BY DEF SearchFinds
  <2> DEFINE x == dh_get(table, key)
  <2>1. IF key \in DOMAIN entries THEN x \in LiveIn(table.flags) /\ table.keys[x] = key ELSE x = n
    BY <1>1, GetFinds
  <2> HIDE DEF x
  <2>2. x \in live => x # n
    BY <1>2 DEF Slots
  <2>3. CASE key \in DOMAIN entries
    <3>1. x \in live /\ table.keys[x] = key
      BY <1>3, <2>1, <2>3
    <3> QED BY <1>4, <2>2, <2>3, <3>1 DEF x
  <2>4. CASE key \notin DOMAIN entries
    BY <2>1, <2>4 DEF x
  <2> QED BY <2>3, <2>4
<1>6. WalkVisitsOnce
  <2> HIDE DEF live
  <2>1. {<<table.keys[i], table.vals[i]>> : i \in live} = {<<k, entries[k]>> : k \in DOMAIN entries}
    BY <1>4
  <2>2. Cardinality(live) = Cardinality(DOMAIN entries)
    <3> DEFINE f == [i \in live |-> table.keys[i]]
    <3>1. IsFiniteSet(live)
      BY <1>2, SlotsFinite DEF live
    <3>2. f \in [live -> DOMAIN entries] /\ (\A i, k \in live : f[i] = f[k] => i = k)
          /\ \A key \in DOMAIN entries : \E i \in live : f[i] = key
      BY <1>4
    <3> HIDE DEF f
    <3>3. f \in Bijection(live, DOMAIN entries)
      BY <3>2 DEF Bijection, Injection, Surjection, IsInjective
    <3>4. ExistsBijection(live, DOMAIN entries)
      BY <3>3 DEF ExistsBijection
    <3> QED BY <3>1, <3>4, FS_Bijection
  <2> QED BY <2>1, <2>2 DEF WalkVisitsOnce, live
<1>7. FreeSlotLeft
  <2>1. /\ table.size = Cardinality(live) /\ table.n_occupied = Cardinality(UsedIn(table.flags))
        /\ table.n_occupied <= UpperBound(n)
    BY <1>1, <1>3 DEF TableInv, Counted
  <2>2. n > 0 => table.n_occupied < n
    <3>1. n > 0 => UpperBound(n) < n /\ UpperBound(n) \in Nat
      BY <1>2, SizesArePrimes, BoundFacts
    <3>2. table.n_occupied \in Nat
      BY <1>1 DEF TableInv, TableType
    <3> QED BY <1>2, <2>1, <3>1, <3>2
  <2> QED BY <1>3, <2>1, <2>2 DEF FreeSlotLeft
<1> QED BY <1>5, <1>6, <1>7 DEF HashSound

HashSpec == HashInit /\ [][HashNext]_hashVars

(* The hash table (dmem/hash.h) with any keys, any hash function and any list of primes
   that is long enough: after any insertions, deletions and resizes a search finds the
   value that was last put and nothing else, a walk visits every entry once, the counts
   are those of the slots, and a free slot is left, so that the loops end. *)
THEOREM HashTableIsSound == HashSpec => []HashSound
<1>1. HashInit => HashInv
  BY HashStarts
<1>2. HashInv /\ [HashNext]_hashVars => HashInv'
  BY HashStep
<1>3. HashInv => HashSound
  BY HashInvSuffices
<1> QED BY <1>1, <1>2, <1>3, PTL DEF HashSpec

-----------------------------------------------------------------------------
(* Names *)

(* The separator that follows. *)
LEMMA NextCutIs ==
  ASSUME NEW S, NEW s \in Seq(S), NEW sep, NEW i \in Cuts(s, sep), i <= Len(s)
  PROVE  LET j == NextCut(s, sep, i)
         IN  /\ i \in Nat /\ j \in Cuts(s, sep) /\ j \in Nat /\ i < j /\ j <= Len(s) + 1
             /\ \A k \in Cuts(s, sep) : k > i => j <= k
<1> DEFINE T == {j \in Cuts(s, sep) : j > i}
           j == NextCut(s, sep, i)
<1>1. Len(s) \in Nat /\ DOMAIN s = 1..Len(s)
  OBVIOUS
<1>2. Cuts(s, sep) \subseteq 0..(Len(s) + 1) /\ Len(s) + 1 \in Cuts(s, sep)
  BY <1>1 DEF Cuts
<1>3. T \in SUBSET Nat /\ Len(s) + 1 \in T
  BY <1>1, <1>2
<1>4. Min(T) \in T /\ \A k \in T : Min(T) <= k
  <2> HIDE DEF T
  <2> QED BY <1>3, MinIs
<1>5. j = Min(T)
  BY DEF NextCut
<1> HIDE DEF j
<1> QED BY <1>1, <1>2, <1>4, <1>5 DEF j

(* What it means that the parts of a text are plain. *)
LEMMA PartsPlain ==
  ASSUME NEW S, NEW s \in Seq(S), NEW sep, NEW wanted, sep \notin wanted
  PROVE  (\A p \in Parts(s, sep) : Plain(p, wanted)) <=>
           /\ s # <<>> /\ s[Len(s)] # sep
           /\ \A i \in 1..Len(s) :
                IF s[i] = sep THEN i > 1 /\ s[i - 1] # sep ELSE s[i] \in wanted
<1> DEFINE len == Len(s)
           cuts == Cuts(s, sep)
           next(i) == NextCut(s, sep, i)
           part(i) == SubSeq(s, i + 1, next(i) - 1)
<1>1. len \in Nat /\ DOMAIN s = 1..len
  OBVIOUS
<1>2. \A i : i \in cuts <=> i = 0 \/ i = len + 1 \/ (i \in 1..len /\ s[i] = sep)
  BY <1>1 DEF Cuts
<1>3. \A i \in cuts : i <= len =>
        /\ i \in Nat /\ next(i) \in cuts /\ next(i) \in Nat /\ i < next(i) /\ next(i) <= len + 1
        /\ \A k \in cuts : k > i => next(i) <= k
  BY NextCutIs
<1>4. Parts(s, sep) = {part(i) : i \in {j \in cuts : j <= len}}
  BY DEF Parts
<1>5. \A i \in cuts : i <= len =>
        /\ Len(part(i)) = next(i) - i - 1 /\ part(i) \in Seq(S)
        /\ \A k \in 1..(next(i) - i - 1) : part(i)[k] = s[i + k]
  <2> SUFFICES ASSUME NEW i \in cuts, i <= len
               PROVE  /\ Len(part(i)) = next(i) - i - 1 /\ part(i) \in Seq(S)
                      /\ \A k \in 1..(next(i) - i - 1) : part(i)[k] = s[i + k]
    OBVIOUS
  <2> DEFINE j == next(i)
  <2>1. i \in Nat /\ j \in Nat /\ i < j /\ j <= len + 1
    BY <1>3
  <2> HIDE DEF j
  <2>2. LET p == SubSeq(s, i + 1, j - 1)
        IN  /\ Len(p) = j - i - 1 /\ p \in Seq(S)
            /\ \A k \in 1..(j - i - 1) : p[k] = s[i + k]
    BY <1>1, <2>1
  <2> QED BY <2>2 DEF j
<1> HIDE DEF len, cuts, next, part
<1>6. \A i \in cuts : i <= len =>
        (Plain(part(i), wanted) <=>
           next(i) > i + 1 /\ \A k \in (i + 1)..(next(i) - 1) : s[k] \in wanted)
  <2> SUFFICES ASSUME NEW i \in cuts, i <= len
               PROVE  Plain(part(i), wanted) <=>
                        next(i) > i + 1 /\ \A k \in (i + 1)..(next(i) - 1) : s[k] \in wanted
    OBVIOUS
  <2> DEFINE p == part(i)
             n == next(i) - i - 1
  <2>1. Len(p) = n /\ p \in Seq(S) /\ (\A k \in 1..n : p[k] = s[i + k])
        /\ i \in Nat /\ next(i) \in Nat
    BY <1>3, <1>5
  <2> HIDE DEF p
  <2>2. Plain(p, wanted) <=> p # <<>> /\ \A k \in 1..n : p[k] \in wanted
    <3>1. DOMAIN p = 1..n
      BY <2>1
    <3>2. ToSet(p) = {p[k] : k \in 1..n}
      BY <3>1 DEF ToSet
    <3> QED BY <3>2 DEF Plain
  <2>3. p # <<>> <=> n > 0
    BY <2>1
  <2>4. (\A k \in 1..n : p[k] \in wanted) <=> \A k \in (i + 1)..(next(i) - 1) : s[k] \in wanted
    <3>1. ASSUME \A k \in 1..n : p[k] \in wanted, NEW k \in (i + 1)..(next(i) - 1)
          PROVE  s[k] \in wanted
      <4>1. k - i \in 1..n /\ i + (k - i) = k
        BY <2>1
      <4> QED BY <2>1, <3>1, <4>1
    <3>2. ASSUME \A k \in (i + 1)..(next(i) - 1) : s[k] \in wanted, NEW k \in 1..n
          PROVE  p[k] \in wanted
      <4>1. i + k \in (i + 1)..(next(i) - 1)
        BY <2>1
      <4> QED BY <2>1, <3>2, <4>1
    <3> QED BY <3>1, <3>2
  <2> QED BY <2>1, <2>2, <2>3, <2>4 DEF p
<1>7. ASSUME \A p \in Parts(s, sep) : Plain(p, wanted)
      PROVE  /\ s # <<>> /\ s[len] # sep
             /\ \A i \in 1..len : IF s[i] = sep THEN i > 1 /\ s[i - 1] # sep ELSE s[i] \in wanted
  <2>1. \A i \in cuts : i <= len =>
          next(i) > i + 1 /\ \A k \in (i + 1)..(next(i) - 1) : s[k] \in wanted
    BY <1>4, <1>6, <1>7
  <2>2. \A i \in cuts : i <= len => i + 1 \notin cuts
    <3> SUFFICES ASSUME NEW i \in cuts, i <= len, i + 1 \in cuts PROVE FALSE
      OBVIOUS
    <3>1. i \in Nat /\ next(i) <= i + 1 /\ next(i) \in Nat
      BY <1>3
    <3> QED BY <2>1, <3>1
  <2>3. len # 0
    BY <1>1, <1>2, <2>2
  <2>4. s # <<>> /\ s[len] # sep
    <3>1. len \in cuts => FALSE
      BY <1>1, <1>2, <2>2
    <3> QED BY <1>1, <1>2, <2>3, <3>1 DEF len
  <2>5. ASSUME NEW i \in 1..len, s[i] = sep PROVE i > 1 /\ s[i - 1] # sep
    <3>1. i \in cuts
      BY <1>2, <2>5
    <3>2. i - 1 \notin cuts
      BY <1>1, <2>2, <3>1
    <3> QED BY <1>1, <1>2, <3>2
  <2>6. ASSUME NEW i \in 1..len, s[i] # sep PROVE s[i] \in wanted
    <3> DEFINE T == {i - k : k \in {l \in cuts : l < i}}
    <3>1. \A k \in cuts : k \in Nat
      BY <1>1, <1>2
    <3>2. 0 \in cuts
      BY <1>2
    <3>3. T \in SUBSET Nat /\ T # {}
      BY <1>1, <3>1, <3>2
    <3>4. PICK d \in T : \A c \in T : d <= c
      <4> HIDE DEF T
      <4> QED BY <3>3, LeastNumber
    <3>5. PICK k \in cuts : k < i /\ d = i - k
      BY <3>4
    <3>6. \A l \in cuts : l < i => l <= k
      <4> SUFFICES ASSUME NEW l \in cuts, l < i PROVE l <= k
        OBVIOUS
      <4>1. i - l \in T
        OBVIOUS
      <4>2. d <= i - l
        BY <3>4, <4>1
      <4> QED BY <1>1, <3>1, <3>5, <4>2
    <3>7. k <= len /\ k \in Nat
      BY <1>1, <3>1, <3>5
    <3>8. next(k) \in cuts /\ next(k) \in Nat /\ k < next(k)
      BY <1>3, <3>7
    <3>9. ~(next(k) < i)
      BY <1>1, <3>6, <3>7, <3>8
    <3>10. next(k) # i
      BY <1>1, <1>2, <2>6, <3>8
    <3>11. i \in (k + 1)..(next(k) - 1)
      BY <1>1, <3>5, <3>7, <3>8, <3>9, <3>10
    <3> QED BY <2>1, <3>7, <3>11
  <2> QED BY <2>4, <2>5, <2>6
<1>8. ASSUME s # <<>>, s[len] # sep,
             \A i \in 1..len : IF s[i] = sep THEN i > 1 /\ s[i - 1] # sep ELSE s[i] \in wanted
      PROVE  \A p \in Parts(s, sep) : Plain(p, wanted)
  <2> SUFFICES ASSUME NEW i \in cuts, i <= len PROVE Plain(part(i), wanted)
    BY <1>4
  <2>1. i \in Nat /\ next(i) \in cuts /\ next(i) \in Nat /\ i < next(i) /\ next(i) <= len + 1
    BY <1>3
  <2>2. len # 0
    BY <1>8 DEF len
  <2>3. next(i) # i + 1
    <3> SUFFICES ASSUME next(i) = i + 1 PROVE FALSE
      OBVIOUS
    <3>1. i + 1 = len + 1 \/ (i + 1 \in 1..len /\ s[i + 1] = sep)
      BY <1>1, <1>2, <2>1
    <3>2. i = 0 \/ (i \in 1..len /\ s[i] = sep)
      BY <1>1, <1>2, <2>1
    <3>3. CASE i = len
      BY <1>8, <2>2, <3>2, <3>3
    <3>4. CASE i # len
      <4>1. i + 1 \in 1..len /\ s[i + 1] = sep
        BY <1>1, <2>1, <3>1, <3>4
      <4>2. i + 1 > 1 /\ s[(i + 1) - 1] # sep
        BY <1>8, <4>1
      <4> QED BY <2>1, <3>2, <4>2
    <3> QED BY <3>3, <3>4
  <2>4. ASSUME NEW k \in (i + 1)..(next(i) - 1) PROVE s[k] \in wanted
    <3>1. k \in 1..len
      BY <1>1, <2>1
    <3>2. k \notin cuts
      <4>1. k \in cuts => next(i) <= k
        BY <1>3, <2>1
      <4> QED BY <2>1, <4>1
    <3>3. s[k] # sep
      BY <1>2, <3>1, <3>2
    <3> QED BY <1>8, <3>1, <3>3
  <2> QED BY <1>6, <2>1, <2>3, <2>4
<1> QED BY <1>7, <1>8 DEF len

(* A text of which the last character may be cut off. *)
CutDot(t) == IF t # <<>> /\ t[Len(t)] = "." THEN Front(t) ELSE t

(* Parts with dots between them, of which the last may be followed by one: what the loops
   of the name checks look for, from any first character on. *)
LEMMA Dotted ==
  ASSUME NEW S, NEW s \in Seq(S), NEW wanted, "." \notin wanted
  PROVE  (\A p \in Parts(CutDot(s), ".") : Plain(p, wanted)) <=>
           /\ s # <<>> /\ s[1] \in wanted
           /\ \A i \in 2..Len(s) : IF s[i] = "." THEN s[i - 1] # "." ELSE s[i] \in wanted
<1>1. Len(s) \in Nat
  OBVIOUS
<1>2. CASE s # <<>> /\ s[Len(s)] = "."
  <2> DEFINE c == Front(s)
             n == Len(s) - 1
  <2>1. CutDot(s) = c
    BY <1>2 DEF CutDot
  <2>2. c \in Seq(S) /\ Len(c) = n /\ (\A i \in 1..n : c[i] = s[i]) /\ n \in Nat
    BY <1>1, <1>2, FrontPlaces
  <2> HIDE DEF c
  <2>3. (\A p \in Parts(c, ".") : Plain(p, wanted)) <=>
          /\ c # <<>> /\ c[Len(c)] # "."
          /\ \A i \in 1..Len(c) : IF c[i] = "." THEN i > 1 /\ c[i - 1] # "." ELSE c[i] \in wanted
    BY <2>2, PartsPlain
  <2>4. c # <<>> <=> n > 0
    BY <2>2
  <2>5. ASSUME n > 0, c[n] # ".",
               \A i \in 1..n : IF c[i] = "." THEN i > 1 /\ c[i - 1] # "." ELSE c[i] \in wanted
        PROVE  /\ s[1] \in wanted
               /\ \A i \in 2..Len(s) : IF s[i] = "." THEN s[i - 1] # "." ELSE s[i] \in wanted
    <3>1. s[1] = c[1] /\ s[n] = c[n] /\ c[1] \in wanted
      BY <2>2, <2>5
    <3>2. ASSUME NEW i \in 2..Len(s)
          PROVE  IF s[i] = "." THEN s[i - 1] # "." ELSE s[i] \in wanted
      <4>1. CASE i = Len(s)
        BY <1>1, <1>2, <2>2, <2>5, <3>1, <4>1
      <4>2. CASE i # Len(s)
        <5>1. i \in 1..n /\ i - 1 \in 1..n
          BY <1>1, <4>2
        <5> QED BY <2>2, <2>5, <5>1
      <4> QED BY <4>1, <4>2
    <3> QED BY <3>1, <3>2
  <2>6. ASSUME s[1] \in wanted,
               \A i \in 2..Len(s) : IF s[i] = "." THEN s[i - 1] # "." ELSE s[i] \in wanted
        PROVE  /\ n > 0 /\ c[n] # "."
               /\ \A i \in 1..n : IF c[i] = "." THEN i > 1 /\ c[i - 1] # "." ELSE c[i] \in wanted
    <3>1. Len(s) # 1 /\ Len(s) # 0
      BY <1>2, <2>6
    <3>2. n > 0 /\ Len(s) \in 2..Len(s)
      <4> DEFINE l == Len(s)
      <4>1. l \in Nat /\ l # 0 /\ l # 1
        BY <1>1, <3>1
      <4> HIDE DEF l
      <4>2. l - 1 > 0 /\ l \in 2..l
        BY <4>1
      <4> QED BY <4>2 DEF l
    <3>3. s[Len(s) - 1] # "."
      BY <1>2, <2>6, <3>2
    <3>4. ASSUME NEW i \in 1..n
          PROVE  IF c[i] = "." THEN i > 1 /\ c[i - 1] # "." ELSE c[i] \in wanted
      <4>1. CASE i = 1
        BY <2>2, <2>6, <4>1
      <4>2. CASE i # 1
        <5>1. i \in 2..Len(s) /\ i - 1 \in 1..n /\ i > 1
          BY <1>1, <4>2
        <5> QED BY <2>2, <2>6, <5>1
      <4> QED BY <4>1, <4>2
    <3> QED BY <2>2, <3>2, <3>3, <3>4
  <2> QED BY <1>2, <2>1, <2>2, <2>3, <2>4, <2>5, <2>6
<1>3. CASE ~(s # <<>> /\ s[Len(s)] = ".")
  <2>1. CutDot(s) = s
    BY <1>3 DEF CutDot
  <2>2. (\A p \in Parts(s, ".") : Plain(p, wanted)) <=>
          /\ s # <<>> /\ s[Len(s)] # "."
          /\ \A i \in 1..Len(s) : IF s[i] = "." THEN i > 1 /\ s[i - 1] # "." ELSE s[i] \in wanted
    BY PartsPlain
  <2>3. ASSUME s # <<>>
        PROVE  (\A i \in 1..Len(s) : IF s[i] = "." THEN i > 1 /\ s[i - 1] # "." ELSE s[i] \in wanted)
               <=> /\ s[1] \in wanted
                   /\ \A i \in 2..Len(s) : IF s[i] = "." THEN s[i - 1] # "." ELSE s[i] \in wanted
    <3>1. 1 \in 1..Len(s)
      BY <2>3
    <3>2. \A i \in 1..Len(s) : i = 1 \/ i \in 2..Len(s)
      BY <1>1
    <3>3. \A i \in 2..Len(s) : i \in 1..Len(s) /\ i > 1
      BY <1>1
    <3> QED BY <3>1, <3>2, <3>3
  <2> QED BY <1>3, <2>1, <2>2, <2>3
<1> QED BY <1>2, <1>3

(* The check of object paths. *)
LEMMA ObjectPathsChecked ==
  ASSUME NEW S, NEW s \in Seq(S)
  PROVE  isValidObjectPath(s) <=>
           (s = <<"/">> \/ (s # <<>> /\ s[1] = "/" /\ \A p \in Parts(Tail(s), "/") : Plain(p, NameChars)))
<1>1. Len(s) \in Nat /\ (s = <<>> <=> Len(s) = 0)
  OBVIOUS
<1>2. CASE s = <<>> \/ s[1] # "/"
  BY <1>2 DEF isValidObjectPath
<1>3. CASE s # <<>> /\ s[1] = "/" /\ Len(s) = 1
  <2>1. s = <<"/">>
    BY <1>3
  <2>2. Rejected(s, 2, "/", NameChars) = {}
    BY <1>3 DEF Rejected
  <2> QED BY <1>3, <2>1, <2>2 DEF isValidObjectPath
<1>4. CASE s # <<>> /\ s[1] = "/" /\ Len(s) > 1
  <2> DEFINE t == Tail(s)
             n == Len(s) - 1
  <2>1. t \in Seq(S) /\ Len(t) = n /\ n \in Nat /\ n > 0 /\ \A i \in 1..n : t[i] = s[i + 1]
    BY <1>1, <1>4
  <2> HIDE DEF t
  <2>2. (\A p \in Parts(t, "/") : Plain(p, NameChars)) <=>
          /\ t # <<>> /\ t[n] # "/"
          /\ \A i \in 1..n : IF t[i] = "/" THEN i > 1 /\ t[i - 1] # "/" ELSE t[i] \in NameChars
    BY <2>1, PartsPlain DEF NameChars
  <2>3. t # <<>> /\ t[n] = s[Len(s)]
    BY <1>1, <2>1
  <2>4. Rejected(s, 2, "/", NameChars) = {} <=>
          \A i \in 2..Len(s) : IF s[i] = "/" THEN s[i - 1] # "/" ELSE s[i] \in NameChars
    BY <1>1 DEF Rejected
  <2>5. ASSUME \A i \in 2..Len(s) : IF s[i] = "/" THEN s[i - 1] # "/" ELSE s[i] \in NameChars,
               NEW i \in 1..n
        PROVE  IF t[i] = "/" THEN i > 1 /\ t[i - 1] # "/" ELSE t[i] \in NameChars
    <3>1. i + 1 \in 2..Len(s) /\ (i + 1) - 1 = i /\ t[i] = s[i + 1]
      BY <1>1, <2>1
    <3>2. IF s[i + 1] = "/" THEN s[i] # "/" ELSE s[i + 1] \in NameChars
      BY <2>5, <3>1
    <3>3. i # 1 => i > 1 /\ i - 1 \in 1..n /\ (i - 1) + 1 = i
      BY <2>1
    <3>4. i # 1 => t[i - 1] = s[i]
      BY <2>1, <3>3
    <3> QED BY <1>4, <3>1, <3>2, <3>3, <3>4
  <2>6. ASSUME \A i \in 1..n : IF t[i] = "/" THEN i > 1 /\ t[i - 1] # "/" ELSE t[i] \in NameChars,
               NEW i \in 2..Len(s)
        PROVE  IF s[i] = "/" THEN s[i - 1] # "/" ELSE s[i] \in NameChars
    <3>1. i - 1 \in 1..n /\ (i - 1) + 1 = i
      BY <1>1
    <3>2. t[i - 1] = s[i]
      BY <2>1, <3>1
    <3>3. i - 1 > 1 => (i - 1) - 1 \in 1..n /\ ((i - 1) - 1) + 1 = i - 1
      BY <2>1, <3>1
    <3>4. i - 1 > 1 => t[(i - 1) - 1] = s[i - 1]
      BY <2>1, <3>3
    <3> QED BY <2>6, <3>1, <3>2, <3>4
  <2>7. s # <<"/">>
    <3>1. ASSUME s = <<"/">> PROVE Len(s) = 1
      BY <3>1
    <3>2. Len(s) # 1
      <4> DEFINE l == Len(s)
      <4>1. l > 1
        BY <1>4
      <4> HIDE DEF l
      <4>2. l # 1
        BY <4>1
      <4> QED BY <4>2 DEF l
    <3> QED BY <3>1, <3>2, Zenon
  <2> QED BY <1>1, <1>4, <2>2, <2>3, <2>4, <2>5, <2>6, <2>7 DEF isValidObjectPath, t
<1>5. s = <<>> \/ Len(s) = 1 \/ Len(s) > 1
  <2> DEFINE l == Len(s)
  <2>1. l \in Nat
    BY <1>1
  <2> HIDE DEF l
  <2>2. l = 0 \/ l = 1 \/ l > 1
    BY <2>1
  <2> QED BY <1>1, <2>2 DEF l
<1> QED BY <1>2, <1>3, <1>4, <1>5

(* A loop that starts at the second character. *)
LEMMA NothingRejected ==
  ASSUME NEW S, NEW s \in Seq(S), NEW sep, NEW allowed
  PROVE  Rejected(s, 2, sep, allowed) = {} <=>
           \A i \in 2..Len(s) : IF s[i] = sep THEN s[i - 1] # sep ELSE s[i] \in allowed
<1>1. Len(s) \in Nat
  OBVIOUS
<1> QED BY <1>1 DEF Rejected

(* The check of interface names. *)
LEMMA InterfaceNamesChecked ==
  ASSUME NEW S, NEW s \in Seq(S)
  PROVE  isValidInterfaceName(s) <=>
           /\ Len(s) <= NameLimit /\ \E i \in DOMAIN s : s[i] = "."
           /\ \A p \in Parts(CutDot(s), ".") : Plain(p, NameChars)
           /\ s[1] # "0"
<1> DEFINE Chain == \A i \in 2..Len(s) : IF s[i] = "." THEN s[i - 1] # "." ELSE s[i] \in NameChars
           All == \A p \in Parts(CutDot(s), ".") : Plain(p, NameChars)
<1>1. Len(s) \in Nat /\ DOMAIN s = 1..Len(s) /\ (s = <<>> <=> Len(s) = 0) /\ NameLimit \in Nat
  BY NamesAssumption
<1>2. All <=> s # <<>> /\ s[1] \in NameChars /\ Chain
  BY Dotted DEF NameChars
<1>3. Rejected(s, 2, ".", NameChars) = {} <=> Chain
  BY NothingRejected
<1>4. Len(s) \in 1..NameLimit <=> s # <<>> /\ Len(s) <= NameLimit
  BY <1>1
<1>5. s[1] = "a" <=> s[1] \in NameChars /\ s[1] # "0"
  BY DEF NameChars
<1>6. s[1] = "a" => ((\E i \in 2..Len(s) : s[i] = ".") <=> \E i \in DOMAIN s : s[i] = ".")
  <2> SUFFICES ASSUME s[1] = "a"
               PROVE  (\E i \in 2..Len(s) : s[i] = ".") <=> \E i \in DOMAIN s : s[i] = "."
    OBVIOUS
  <2>1. \A i \in 2..Len(s) : i \in DOMAIN s
    BY <1>1
  <2>2. \A i \in DOMAIN s : i = 1 \/ i \in 2..Len(s)
    BY <1>1
  <2> QED BY <2>1, <2>2
<1> HIDE DEF Chain, All
<1> QED BY <1>2, <1>3, <1>4, <1>5, <1>6 DEF isValidInterfaceName, All

(* The check of member names. *)
LEMMA MemberNamesChecked ==
  ASSUME NEW S, NEW s \in Seq(S)
  PROVE  isValidMemberName(s) <=> Len(s) <= NameLimit /\ Plain(s, NameChars) /\ s[1] # "0"
<1>1. Len(s) \in Nat /\ DOMAIN s = 1..Len(s) /\ (s = <<>> <=> Len(s) = 0) /\ NameLimit \in Nat
  BY NamesAssumption
<1>2. Plain(s, NameChars) <=> s # <<>> /\ \A i \in 1..Len(s) : s[i] \in NameChars
  <2>1. ToSet(s) = {s[i] : i \in 1..Len(s)}
    BY <1>1 DEF ToSet
  <2> QED BY <2>1 DEF Plain
<1>3. Len(s) \in 1..NameLimit <=> s # <<>> /\ Len(s) <= NameLimit
  BY <1>1
<1>4. s[1] = "a" <=> s[1] \in NameChars /\ s[1] # "0"
  BY DEF NameChars
<1>5. s # <<>> => ((\A i \in 1..Len(s) : s[i] \in NameChars) <=>
                     s[1] \in NameChars /\ \A i \in 2..Len(s) : s[i] \in NameChars)
  <2> SUFFICES ASSUME s # <<>>
               PROVE  (\A i \in 1..Len(s) : s[i] \in NameChars) <=>
                        s[1] \in NameChars /\ \A i \in 2..Len(s) : s[i] \in NameChars
    OBVIOUS
  <2>1. 1 \in 1..Len(s) /\ \A i \in 2..Len(s) : i \in 1..Len(s)
    BY <1>1
  <2>2. \A i \in 1..Len(s) : i = 1 \/ i \in 2..Len(s)
    BY <1>1
  <2> QED BY <2>1, <2>2
<1> QED BY <1>2, <1>3, <1>4, <1>5 DEF isValidMemberName

(* The check of bus names. *)
LEMMA BusNamesChecked ==
  ASSUME NEW S, NEW s \in Seq(S)
  PROVE  LET body == IF s # <<>> /\ s[1] = ":" THEN Tail(s) ELSE s
         IN  isValidBusName(s) <=>
               /\ Len(s) <= NameLimit /\ s # <<>> /\ s[1] # "0"
               /\ s = <<":">> \/ \A p \in Parts(CutDot(body), ".") : Plain(p, NameChars \cup {"-"})
               /\ s[1] = ":" \/ \E i \in DOMAIN s : s[i] = "."
<1> DEFINE wanted == NameChars \cup {"-"}
           Chain == \A i \in 2..Len(s) : IF s[i] = "." THEN s[i - 1] # "." ELSE s[i] \in wanted
           All(t) == \A p \in Parts(CutDot(t), ".") : Plain(p, wanted)
<1>1. Len(s) \in Nat /\ DOMAIN s = 1..Len(s) /\ (s = <<>> <=> Len(s) = 0) /\ NameLimit \in Nat
  BY NamesAssumption
<1>2. "." \notin wanted /\ ":" \notin wanted
  BY DEF NameChars
<1>3. Rejected(s, 2, ".", wanted) = {} <=> Chain
  BY NothingRejected
<1>4. Len(s) \in 1..NameLimit <=> s # <<>> /\ Len(s) <= NameLimit
  BY <1>1
<1>5. CASE s # <<>> /\ s[1] = ":"
  <2> DEFINE t == Tail(s)
             n == Len(s) - 1
  <2>1. t \in Seq(S) /\ Len(t) = n /\ n \in Nat /\ \A i \in 1..n : t[i] = s[i + 1]
    BY <1>1, <1>5
  <2> HIDE DEF t, wanted
  <2>2. All(t) <=> /\ t # <<>> /\ t[1] \in wanted
                   /\ \A i \in 2..n : IF t[i] = "." THEN t[i - 1] # "." ELSE t[i] \in wanted
    BY <1>2, <2>1, Dotted
  <2>3. (Chain /\ ~(Len(s) > 1 /\ s[2] = ".")) <=> (s = <<":">> \/ All(t))
    <3>1. CASE Len(s) = 1
      <4>1. s = <<":">>
        BY <1>5, <3>1
      <4>2. Chain /\ ~(Len(s) > 1)
        BY <3>1
      <4> QED BY <4>1, <4>2
    <3>2. CASE Len(s) # 1
      <4>1. n > 0 /\ Len(s) > 1 /\ t # <<>> /\ 1 \in 1..n /\ t[1] = s[2]
        BY <1>1, <1>5, <2>1, <3>2
      <4>2. s # <<":">>
        <5>1. ASSUME s = <<":">> PROVE Len(s) = 1
          BY <5>1
        <5> QED BY <3>2, <5>1, Zenon
      <4>3. ASSUME Chain, s[2] # "." PROVE All(t)
        <5>1. s[2] \in wanted
          <6>1. 2 \in 2..Len(s)
            BY <1>1, <4>1
          <6> QED BY <4>3, <6>1
        <5>2. ASSUME NEW i \in 2..n
              PROVE  IF t[i] = "." THEN t[i - 1] # "." ELSE t[i] \in wanted
          <6>1. i + 1 \in 2..Len(s) /\ i \in 1..n /\ i - 1 \in 1..n /\ (i + 1) - 1 = i /\ (i - 1) + 1 = i
            BY <1>1, <2>1
          <6>2. t[i] = s[i + 1] /\ t[i - 1] = s[i]
            BY <2>1, <6>1
          <6> QED BY <4>3, <6>1, <6>2
        <5> QED BY <2>2, <4>1, <5>1, <5>2
      <4>4. ASSUME All(t) PROVE Chain /\ s[2] # "."
        <5>1. s[2] \in wanted /\ s[2] # "."
          BY <1>2, <2>2, <4>1, <4>4
        <5>2. ASSUME NEW i \in 2..Len(s)
              PROVE  IF s[i] = "." THEN s[i - 1] # "." ELSE s[i] \in wanted
          <6>1. CASE i = 2
            BY <5>1, <6>1
          <6>2. CASE i # 2
            <7>1. i - 1 \in 2..n /\ i - 1 \in 1..n /\ (i - 1) - 1 \in 1..n
              BY <1>1, <2>1, <6>2
            <7>2. (i - 1) + 1 = i /\ ((i - 1) - 1) + 1 = i - 1
              BY <1>1
            <7>3. t[i - 1] = s[i] /\ t[(i - 1) - 1] = s[i - 1]
              BY <2>1, <7>1, <7>2
            <7>4. IF t[i - 1] = "." THEN t[(i - 1) - 1] # "." ELSE t[i - 1] \in wanted
              BY <2>2, <4>4, <7>1
            <7> QED BY <7>3, <7>4
          <6> QED BY <6>1, <6>2
        <5> QED BY <5>1, <5>2
      <4> HIDE DEF Chain, All
      <4> QED BY <4>1, <4>2, <4>3, <4>4
    <3> QED BY <3>1, <3>2
  <2> HIDE DEF Chain, All
  <2>4. isValidBusName(s) <=> Len(s) <= NameLimit /\ (s = <<":">> \/ All(t))
    BY <1>3, <1>4, <1>5, <2>3 DEF isValidBusName, wanted
  <2>5. s[1] # "0"
    BY <1>5
  <2> QED BY <1>5, <2>4, <2>5 DEF All, t, wanted
<1>6. CASE ~(s # <<>> /\ s[1] = ":")
  <2>1. All(s) <=> s # <<>> /\ s[1] \in wanted /\ Chain
    BY <1>2, Dotted
  <2>2. s # <<>> => (s[1] \in {":", "a", "-"} <=> s[1] \in wanted /\ s[1] # "0")
    BY <1>6 DEF NameChars
  <2>3. s[1] \in wanted =>
          ((\E i \in 2..Len(s) : s[i] = ".") <=> \E i \in DOMAIN s : s[i] = ".")
    <3> SUFFICES ASSUME s[1] \in wanted
                 PROVE  (\E i \in 2..Len(s) : s[i] = ".") <=> \E i \in DOMAIN s : s[i] = "."
      OBVIOUS
    <3>1. \A i \in 2..Len(s) : i \in DOMAIN s
      BY <1>1
    <3>2. \A i \in DOMAIN s : i = 1 \/ i \in 2..Len(s)
      BY <1>1
    <3> QED BY <1>2, <3>1, <3>2
  <2>4. s # <<":">>
    BY <1>6
  <2> HIDE DEF Chain, All
  <2>5. isValidBusName(s) <=>
          /\ Len(s) <= NameLimit /\ s # <<>> /\ s[1] # "0" /\ All(s)
          /\ \E i \in DOMAIN s : s[i] = "."
    BY <1>3, <1>4, <1>6, <2>1, <2>2, <2>3 DEF isValidBusName
  <2> QED BY <1>6, <2>4, <2>5 DEF All
<1> QED BY <1>5, <1>6

LEMMA NamesAreChecked ==
  ASSUME NEW S, word \in Seq(S)
  PROVE  NamesChecked
BY ObjectPathsChecked, InterfaceNamesChecked, BusNamesChecked, MemberNamesChecked
   DEF NamesChecked, CutDot

-----------------------------------------------------------------------------
(* Paths that are joined *)

(* The function of the loop exists. *)
LEMMA RemoveUnfolds ==
  ASSUME NEW S, NEW s \in Seq(S)
  PROVE  \E K : /\ K[0] = [text |-> s, at |-> 2]
                /\ \A k \in 1..Len(s) : K[k] = RemoveSlash(K[k - 1])
                /\ RemoveRepeated(s) = K[Len(s)].text
<1> DEFINE last == Len(s)
           Step(g, k) == IF k = 0 THEN [text |-> s, at |-> 2] ELSE RemoveSlash(g[k - 1])
           Fits(g, l) == g = [k \in 0..l |-> Step(g, k)]
           Good == {l \in Nat : \E g : Fits(g, l)}
           K == CHOOSE g : Fits(g, last)
<1>1. last \in Nat
  OBVIOUS
<1>2. 0 \in Good
  <2>1. Fits([k \in 0..0 |-> [text |-> s, at |-> 2]], 0)
    OBVIOUS
  <2> QED BY <2>1
<1>3. ASSUME NEW l \in 1..last, l - 1 \in Good
      PROVE  l \in Good
  <2>1. PICK g : Fits(g, l - 1)
    BY <1>3
  <2> DEFINE h == [k \in 0..l |-> IF k = l THEN Step(g, l) ELSE g[k]]
  <2>2. \A k \in 0..l : h[k] = Step(h, k)
    <3> TAKE k \in 0..l
    <3>1. CASE k = l
      BY <3>1
    <3>2. CASE k # l
      <4>1. k \in 0..(l - 1) /\ h[k] = g[k]
        BY <3>2
      <4>2. g[k] = Step(g, k)
        BY <2>1, <4>1
      <4>3. k # 0 => h[k - 1] = g[k - 1]
        BY <4>1
      <4> QED BY <4>1, <4>2, <4>3
    <3> QED BY <3>1, <3>2
  <2>3. Fits(h, l)
    BY <2>2
  <2>4. l \in Nat
    BY <1>1
  <2> HIDE DEF Fits, h
  <2> QED BY <2>3, <2>4
<1>4. last \in Good
  <2> HIDE DEF Good, last
  <2>1. Good \in SUBSET Nat
    BY DEF Good
  <2>2. \A l \in 1..last : l - 1 \in Good => l \in Good
    BY <1>3
  <2>3. \A l \in 0..last : l \in Good
    BY <1>1, <1>2, <2>1, <2>2, UpTo
  <2> QED BY <1>1, <2>3
<1>5. Fits(K, last)
  BY <1>4
<1>6. RemoveRepeated(s) = K[last].text
  BY Zenon DEF RemoveRepeated
<1> HIDE DEF K
<1>7. K[0] = [text |-> s, at |-> 2]
  BY <1>1, <1>5
<1>8. \A k \in 1..last : K[k] = RemoveSlash(K[k - 1])
  <2> TAKE k \in 1..last
  <2>1. K[k] = Step(K, k)
    <3> HIDE DEF Step
    <3> QED BY <1>1, <1>5
  <2> QED BY <2>1
<1> QED BY <1>6, <1>7, <1>8

(* The loop passes over a text without repeated slashes. *)
LEMMA PassesOver ==
  ASSUME NEW S, NEW s \in Seq(S), ~DoubleSlash(s), NEW at \in Nat, at > 1
  PROVE  \E next \in Nat :
           next >= at /\ RemoveSlash([text |-> s, at |-> at]) = [text |-> s, at |-> next]
<1>1. CASE at > Len(s)
  BY <1>1 DEF RemoveSlash
<1>2. CASE ~(at > Len(s))
  <2>1. at - 1 \in 1..(Len(s) - 1) /\ (at - 1) + 1 = at
    <3>1. Len(s) \in Nat
      OBVIOUS
    <3> QED BY <1>2, <3>1
  <2>2. ~(s[at - 1] = "/" /\ s[at] = "/")
    BY <2>1 DEF DoubleSlash
  <2>3. RemoveSlash([text |-> s, at |-> at]) = [text |-> s, at |-> at + 1]
    BY <1>2, <2>2 DEF RemoveSlash
  <2> QED BY <2>3
<1> QED BY <1>1, <1>2

LEMMA NothingRemoved ==
  ASSUME NEW S, NEW s \in Seq(S), ~DoubleSlash(s)
  PROVE  RemoveRepeated(s) = s
<1>1. PICK K : /\ K[0] = [text |-> s, at |-> 2]
               /\ \A k \in 1..Len(s) : K[k] = RemoveSlash(K[k - 1])
               /\ RemoveRepeated(s) = K[Len(s)].text
  BY RemoveUnfolds
<1> DEFINE Good == {k \in Nat : \E at \in Nat : at > 1 /\ K[k] = [text |-> s, at |-> at]}
<1>2. 0 \in Good /\ Good \in SUBSET Nat /\ Len(s) \in Nat
  <2>1. \E at \in Nat : at > 1 /\ K[0] = [text |-> s, at |-> at]
    <3>1. 2 \in Nat /\ 2 > 1
      OBVIOUS
    <3> QED BY <1>1, <3>1
  <2>2. 0 \in Good
    BY <2>1
  <2>3. Good \in SUBSET Nat /\ Len(s) \in Nat
    OBVIOUS
  <2> QED BY <2>2, <2>3
<1>3. \A k \in 1..Len(s) : k - 1 \in Good => k \in Good
  <2> SUFFICES ASSUME NEW k \in 1..Len(s), k - 1 \in Good PROVE k \in Good
    OBVIOUS
  <2>1. PICK at \in Nat : at > 1 /\ K[k - 1] = [text |-> s, at |-> at]
    OBVIOUS
  <2>2. PICK next \in Nat :
          next >= at /\ RemoveSlash([text |-> s, at |-> at]) = [text |-> s, at |-> next]
    BY <2>1, PassesOver
  <2>3. K[k] = [text |-> s, at |-> next] /\ next > 1 /\ k \in Nat
    BY <1>1, <1>2, <2>1, <2>2
  <2> QED BY <2>3
<1>4. Len(s) \in Good
  <2> HIDE DEF Good
  <2>1. \A k \in 0..Len(s) : k \in Good
    BY <1>2, <1>3, UpTo
  <2> QED BY <1>2, <2>1
<1>5. PICK at \in Nat : K[Len(s)] = [text |-> s, at |-> at]
  BY <1>4
<1> QED BY <1>1, <1>5

(* A text without the character at a place. *)
LEMMA RemoveAtPlaces ==
  ASSUME NEW S, NEW s \in Seq(S), NEW d \in 1..Len(s)
  PROVE  LET y == RemoveAt(s, d)
         IN  /\ y \in Seq(S) /\ Len(y) = Len(s) - 1
             /\ \A i \in 1..(Len(s) - 1) : y[i] = IF i < d THEN s[i] ELSE s[i + 1]
<1> DEFINE a == SubSeq(s, 1, d - 1)
           b == SubSeq(s, d + 1, Len(s))
<1>1. Len(s) \in Nat /\ d \in Nat /\ d > 0 /\ d <= Len(s)
  OBVIOUS
<1>2. a \in Seq(S) /\ Len(a) = d - 1 /\ \A i \in 1..(d - 1) : a[i] = s[i]
  BY <1>1
<1>3. b \in Seq(S) /\ Len(b) = Len(s) - d /\ \A i \in 1..(Len(s) - d) : b[i] = s[i + d]
  BY <1>1
<1>4. RemoveAt(s, d) = a \o b
  BY DEF RemoveAt
<1> HIDE DEF a, b
<1>5. /\ a \o b \in Seq(S) /\ Len(a \o b) = Len(a) + Len(b)
      /\ \A i \in 1..(Len(a) + Len(b)) : (a \o b)[i] = IF i <= Len(a) THEN a[i] ELSE b[i - Len(a)]
  BY <1>2, <1>3, JoinPlaces
<1>6. Len(a) + Len(b) = Len(s) - 1
  BY <1>1, <1>2, <1>3
<1> DEFINE y == RemoveAt(s, d)
<1>7. y \in Seq(S) /\ Len(y) = Len(s) - 1
  BY <1>4, <1>5, <1>6
<1>8. ASSUME NEW i \in 1..(Len(s) - 1)
      PROVE  y[i] = IF i < d THEN s[i] ELSE s[i + 1]
  <2>1. y[i] = IF i <= d - 1 THEN a[i] ELSE b[i - (d - 1)]
    BY <1>2, <1>4, <1>5, <1>6
  <2>2. CASE i < d
    <3>1. i \in 1..(d - 1)
      BY <1>1, <2>2
    <3> QED BY <1>1, <1>2, <2>1, <2>2, <3>1
  <2>3. CASE ~(i < d)
    <3>1. i - (d - 1) \in 1..(Len(s) - d) /\ (i - (d - 1)) + d = i + 1 /\ ~(i <= d - 1)
      BY <1>1, <2>3
    <3> QED BY <1>3, <2>1, <2>3, <3>1
  <2> QED BY <2>2, <2>3
<1> QED BY <1>7, <1>8

(* Of two slashes in a row, the only ones, the loop leaves one. *)
LEMMA OneRemoved ==
  ASSUME NEW S, NEW s \in Seq(S), NEW d \in 2..Len(s), s[d] = "/", s[d - 1] = "/",
         \A i \in 2..Len(s) : s[i] = "/" /\ s[i - 1] = "/" => i = d
  PROVE  RemoveRepeated(s) = RemoveAt(s, d) /\ ~DoubleSlash(RemoveAt(s, d))
<1> DEFINE y == RemoveAt(s, d)
<1>1. Len(s) \in Nat /\ d \in Nat /\ d > 1 /\ d <= Len(s)
  OBVIOUS
<1>2. /\ y \in Seq(S) /\ Len(y) = Len(s) - 1
      /\ \A i \in 1..(Len(s) - 1) : y[i] = IF i < d THEN s[i] ELSE s[i + 1]
  BY <1>1, RemoveAtPlaces
<1> HIDE DEF y
<1>3. ~DoubleSlash(y)
  <2> SUFFICES ASSUME NEW i \in 1..(Len(y) - 1), y[i] = "/", y[i + 1] = "/" PROVE FALSE
    BY DEF DoubleSlash
  <2>1. i \in 1..(Len(s) - 1) /\ i + 1 \in 1..(Len(s) - 1)
    BY <1>1, <1>2
  <2>2. i + 1 < d => FALSE
    <3> SUFFICES ASSUME i + 1 < d PROVE FALSE
      OBVIOUS
    <3>1. s[i] = "/" /\ s[i + 1] = "/"
      BY <1>1, <1>2, <2>1
    <3>2. i + 1 \in 2..Len(s) /\ (i + 1) - 1 = i /\ i + 1 # d
      BY <1>1, <2>1
    <3> QED BY <3>1, <3>2
  <2>3. ASSUME ~(i + 1 < d) PROVE FALSE
    <3>1. s[(i + 1) + 1] = "/"
      BY <1>1, <1>2, <2>1, <2>3
    <3>2. s[i + 1] = "/"
      <4>1. CASE i < d
        <5>1. i + 1 = d
          BY <1>1, <2>1, <2>3, <4>1
        <5> QED BY <5>1
      <4>2. CASE ~(i < d)
        BY <1>2, <2>1, <4>2
      <4> QED BY <4>1, <4>2
    <3>3. (i + 1) + 1 \in 2..Len(s) /\ ((i + 1) + 1) - 1 = i + 1 /\ (i + 1) + 1 # d
      BY <1>1, <2>1, <2>3
    <3> QED BY <3>1, <3>2, <3>3
  <2> QED BY <2>2, <2>3
<1>4. PICK K : /\ K[0] = [text |-> s, at |-> 2]
               /\ \A k \in 1..Len(s) : K[k] = RemoveSlash(K[k - 1])
               /\ RemoveRepeated(s) = K[Len(s)].text
  BY RemoveUnfolds
<1> DEFINE Good == {k \in Nat :
             \/ k + 2 <= d /\ K[k] = [text |-> s, at |-> k + 2]
             \/ k + 2 > d /\ \E at \in Nat : at > d /\ K[k] = [text |-> y, at |-> at]}
<1>5. 0 \in Good /\ Good \in SUBSET Nat
  BY <1>1, <1>4
<1>6. \A k \in 1..Len(s) : k - 1 \in Good => k \in Good
  <2> SUFFICES ASSUME NEW k \in 1..Len(s), k - 1 \in Good PROVE k \in Good
    OBVIOUS
  <2>1. k \in Nat /\ k - 1 \in Nat /\ (k - 1) + 2 = k + 1 /\ K[k] = RemoveSlash(K[k - 1])
    BY <1>1, <1>4
  <2>2. CASE k + 1 < d
    <3>1. K[k - 1] = [text |-> s, at |-> k + 1]
      BY <1>1, <2>1, <2>2
    <3>2. ~(k + 1 > Len(s)) /\ k + 1 \in 2..Len(s) /\ k + 1 # d
      BY <1>1, <2>1, <2>2
    <3>3. ~(s[k + 1] = "/" /\ s[(k + 1) - 1] = "/")
      BY <3>2
    <3>4. RemoveSlash([text |-> s, at |-> k + 1]) = [text |-> s, at |-> (k + 1) + 1]
      BY <3>2, <3>3 DEF RemoveSlash
    <3>5. (k + 1) + 1 = k + 2 /\ k + 2 <= d
      BY <1>1, <2>1, <2>2
    <3> QED BY <2>1, <3>1, <3>4, <3>5
  <2>3. CASE k + 1 = d
    <3>1. K[k - 1] = [text |-> s, at |-> d]
      BY <1>1, <2>1, <2>3
    <3>2. RemoveSlash([text |-> s, at |-> d]) = [text |-> y, at |-> d + 1]
      BY <1>1 DEF RemoveSlash, y
    <3>3. k + 2 > d /\ d + 1 > d /\ d + 1 \in Nat
      BY <1>1, <2>1, <2>3
    <3> QED BY <2>1, <3>1, <3>2, <3>3
  <2>4. CASE k + 1 > d
    <3>1. PICK at \in Nat : at > d /\ K[k - 1] = [text |-> y, at |-> at]
      BY <1>1, <2>1, <2>4
    <3>2. at > 1
      BY <1>1, <3>1
    <3>3. PICK next \in Nat :
            next >= at /\ RemoveSlash([text |-> y, at |-> at]) = [text |-> y, at |-> next]
      BY <1>2, <1>3, <3>2, PassesOver
    <3>4. k + 2 > d /\ next > d
      BY <1>1, <2>1, <2>4, <3>1, <3>3
    <3> QED BY <2>1, <3>1, <3>3, <3>4
  <2> HIDE DEF Good
  <2>5. k + 1 < d \/ k + 1 = d \/ k + 1 > d
    BY <1>1, <2>1
  <2> QED BY <2>2, <2>3, <2>4, <2>5
<1>7. Len(s) \in Good
  <2> HIDE DEF Good
  <2>1. \A k \in 0..Len(s) : k \in Good
    BY <1>1, <1>5, <1>6, UpTo
  <2> QED BY <1>1, <2>1
<1>8. PICK at \in Nat : K[Len(s)] = [text |-> y, at |-> at]
  <2>1. ~(Len(s) + 2 <= d)
    BY <1>1
  <2> QED BY <1>7, <2>1
<1>9. RemoveRepeated(s) = y
  BY <1>4, <1>8
<1> QED BY <1>3, <1>9 DEF y

(* How far the loop has come with s: it has removed sh slashes, and what is from the
   character before at on is what has not been looked at. *)
Passed(s, y, at, sh) ==
  /\ at > 1 /\ Len(y) = Len(s) - sh
  /\ \A i \in 1..Len(y) : i + 1 >= at => y[i] = s[i + sh]
  /\ (Len(y) = 0 <=> Len(s) = 0) /\ (Len(y) > 0 => y[1] = s[1])

(* Two slashes in a row that the loop has left behind. *)
Left(y, at) == \E i \in 1..(Len(y) - 1) : i + 1 < at /\ y[i] = "/" /\ y[i + 1] = "/"

TripleAt(s, p) == p \in 1..(Len(s) - 2) /\ s[p] = "/" /\ s[p + 1] = "/" /\ s[p + 2] = "/"

(* Two slashes are left behind only if there were three, and always then. *)
Leaves(s, y, at, sh) ==
  /\ Left(y, at) => TripleSlash(s) /\ sh > 0
  /\ \A p \in Nat : TripleAt(s, p) => (at - 1) + sh <= p \/ Left(y, at)

(* A slash is removed, and the character behind it is passed over. *)
LEMMA SlashGoes ==
  ASSUME NEW S, NEW s \in Seq(S), NEW y \in Seq(S), NEW at \in Nat, NEW sh \in Nat,
         Passed(s, y, at, sh), Leaves(s, y, at, sh), at <= Len(y), y[at] = "/", y[at - 1] = "/"
  PROVE  LET z == RemoveAt(y, at)
         IN  z \in Seq(S) /\ Passed(s, z, at + 1, sh + 1) /\ Leaves(s, z, at + 1, sh + 1)
<1> DEFINE z == RemoveAt(y, at)
           l == Len(y)
<1>1. l \in Nat /\ Len(s) \in Nat /\ at > 1 /\ at <= l /\ at \in 1..Len(y) /\ Len(s) = l + sh
  BY DEF Passed
<1>2. z \in Seq(S) /\ Len(z) = l - 1 /\ \A i \in 1..(l - 1) : z[i] = IF i < at THEN y[i] ELSE y[i + 1]
  BY <1>1, RemoveAtPlaces
<1>3. \A i \in 1..l : i + 1 >= at => y[i] = s[i + sh]
  BY DEF Passed
<1>4. y[1] = s[1]
  BY <1>1 DEF Passed
<1> HIDE DEF z, l
<1>5. \A i \in 1..(l - 1) : i + 1 >= at + 1 => z[i] = s[i + (sh + 1)]
  <2> SUFFICES ASSUME NEW i \in 1..(l - 1), i + 1 >= at + 1 PROVE z[i] = s[i + (sh + 1)]
    OBVIOUS
  <2>1. ~(i < at) /\ i + 1 \in 1..l /\ (i + 1) + 1 >= at /\ (i + 1) + sh = i + (sh + 1)
    BY <1>1
  <2>2. z[i] = y[i + 1]
    BY <1>2, <2>1
  <2> QED BY <1>3, <2>1, <2>2
<1>6. Passed(s, z, at + 1, sh + 1)
  <2>1. 1 \in 1..(l - 1) /\ 1 < at
    BY <1>1
  <2>2. z[1] = s[1]
    BY <1>2, <1>4, <2>1
  <2> QED BY <1>1, <1>2, <1>5, <2>2 DEF Passed
<1>7. at - 1 \in 1..l /\ (at - 1) + 1 >= at /\ (at - 1) + 1 = at /\ at \in 1..l /\ at + 1 >= at
  BY <1>1
<1>8. s[(at - 1) + sh] = "/" /\ s[at + sh] = "/"
  BY <1>3, <1>7
<1>9. ASSUME at <= l - 1, z[at] = "/" PROVE TripleAt(s, (at - 1) + sh)
  <2>1. at \in 1..(l - 1) /\ at + 1 >= at + 1 /\ at + (sh + 1) = ((at - 1) + sh) + 2
        /\ at + sh = ((at - 1) + sh) + 1 /\ (at - 1) + sh \in 1..(Len(s) - 2)
    BY <1>1, <1>9
  <2>2. z[at] = s[at + (sh + 1)]
    BY <1>5, <2>1
  <2> QED BY <1>8, <1>9, <2>1, <2>2 DEF TripleAt
<1>10. ASSUME NEW i \in 1..(l - 1), i + 1 < at
       PROVE  z[i] = y[i] /\ z[i + 1] = y[i + 1] /\ i \in 1..(Len(z) - 1) /\ i + 1 < at + 1
  <2>1. i < at /\ i + 1 \in 1..(l - 1) /\ i \in 1..((l - 1) - 1)
    BY <1>1, <1>10
  <2> QED BY <1>1, <1>2, <1>10, <2>1
<1>11. Left(z, at + 1) => TripleSlash(s) /\ sh + 1 > 0
  <2> SUFFICES ASSUME NEW i \in 1..(Len(z) - 1), i + 1 < at + 1, z[i] = "/", z[i + 1] = "/"
               PROVE  TripleSlash(s) /\ sh + 1 > 0
    BY DEF Left
  <2>1. sh + 1 > 0 /\ i \in 1..(l - 1) /\ i + 1 \in 1..(l - 1)
    BY <1>1, <1>2
  <2>2. CASE i + 1 < at
    <3>1. y[i] = "/" /\ y[i + 1] = "/"
      BY <1>10, <2>1, <2>2
    <3>2. Left(y, at)
      BY <2>1, <2>2, <3>1 DEF Left, l
    <3> QED BY <2>1, <3>2 DEF Leaves
  <2>3. CASE ~(i + 1 < at)
    <3>1. i + 1 = at /\ at <= l - 1
      BY <1>1, <2>1, <2>3
    <3>2. TripleAt(s, (at - 1) + sh)
      BY <1>9, <3>1
    <3> QED BY <2>1, <3>2 DEF TripleAt, TripleSlash
  <2> QED BY <2>2, <2>3
<1>12. ASSUME NEW p \in Nat, TripleAt(s, p), ~(((at + 1) - 1) + (sh + 1) <= p)
       PROVE  Left(z, at + 1)
  <2>1. p \in 1..(Len(s) - 2) /\ s[p] = "/" /\ s[p + 1] = "/" /\ s[p + 2] = "/"
    BY <1>12 DEF TripleAt
  <2>2. CASE Left(y, at)
    <3>1. PICK i \in 1..(l - 1) : i + 1 < at /\ y[i] = "/" /\ y[i + 1] = "/"
      BY <2>2 DEF Left, l
    <3> QED BY <1>10, <3>1 DEF Left
  <2>3. CASE ~Left(y, at)
    <3>1. (at - 1) + sh <= p
      BY <1>12, <2>3 DEF Leaves
    <3>2. at + (sh + 1) = p + 1 \/ at + (sh + 1) = p + 2
      BY <1>1, <1>12, <3>1
    <3>3. s[at + (sh + 1)] = "/" /\ at \in 1..(l - 1)
      BY <1>1, <2>1, <3>1, <3>2
    <3>4. z[at] = "/"
      BY <1>1, <1>5, <3>3
    <3>5. at - 1 \in 1..(l - 1) /\ at - 1 < at /\ (at - 1) + 1 = at /\ at - 1 \in 1..((l - 1) - 1)
      BY <1>1, <3>3
    <3>6. z[at - 1] = "/"
      BY <1>2, <3>5
    <3> QED BY <1>1, <1>2, <3>4, <3>5, <3>6 DEF Left
  <2> QED BY <2>2, <2>3
<1>13. Leaves(s, z, at + 1, sh + 1)
  BY <1>11, <1>12 DEF Leaves
<1> QED BY <1>2, <1>6, <1>13 DEF z

(* A character is passed over. *)
LEMMA CharStays ==
  ASSUME NEW S, NEW s \in Seq(S), NEW y \in Seq(S), NEW at \in Nat, NEW sh \in Nat,
         Passed(s, y, at, sh), Leaves(s, y, at, sh), at <= Len(y), ~(y[at] = "/" /\ y[at - 1] = "/")
  PROVE  Passed(s, y, at + 1, sh) /\ Leaves(s, y, at + 1, sh)
<1> DEFINE l == Len(y)
<1>1. l \in Nat /\ Len(s) \in Nat /\ at > 1 /\ at <= l /\ Len(s) = l + sh
  BY DEF Passed
<1>2. \A i \in 1..l : i + 1 >= at => y[i] = s[i + sh]
  BY DEF Passed
<1>3. (Len(y) = 0 <=> Len(s) = 0) /\ (Len(y) > 0 => y[1] = s[1])
  BY DEF Passed
<1> HIDE DEF l
<1>4. Passed(s, y, at + 1, sh)
  <2>1. \A i \in 1..l : i + 1 >= at + 1 => y[i] = s[i + sh]
    BY <1>1, <1>2
  <2> QED BY <1>1, <1>3, <2>1 DEF Passed, l
<1>5. Left(y, at + 1) <=> Left(y, at)
  <2>1. ASSUME NEW i \in 1..(l - 1), i + 1 < at + 1, y[i] = "/", y[i + 1] = "/" PROVE i + 1 < at
    <3>1. i + 1 # at
      <4> SUFFICES ASSUME i + 1 = at PROVE FALSE
        OBVIOUS
      <4>1. i = at - 1
        BY <1>1
      <4> QED BY <2>1, <4>1
    <3> QED BY <1>1, <2>1, <3>1
  <2>2. \A i \in 1..(l - 1) : i + 1 < at => i + 1 < at + 1
    BY <1>1
  <2> QED BY <2>1, <2>2 DEF Left, l
<1>6. ASSUME NEW p \in Nat, TripleAt(s, p), ~Left(y, at) PROVE ((at + 1) - 1) + sh <= p
  <2>1. p \in 1..(Len(s) - 2) /\ s[p] = "/" /\ s[p + 1] = "/" /\ (at - 1) + sh <= p
    BY <1>6 DEF TripleAt, Leaves
  <2> SUFFICES ASSUME p = (at - 1) + sh PROVE FALSE
    BY <1>1, <2>1
  <2>2. at - 1 \in 1..l /\ at \in 1..l /\ (at - 1) + 1 >= at /\ at + 1 >= at /\ at + sh = p + 1
    BY <1>1
  <2>3. y[at - 1] = s[p] /\ y[at] = s[p + 1]
    BY <1>2, <2>2
  <2> QED BY <2>1, <2>3
<1> QED BY <1>4, <1>5, <1>6 DEF Leaves

(* What the loop makes of a text: repeated slashes stay exactly if there are three in a
   row. *)
LEMMA RemovedIs ==
  ASSUME NEW S, NEW s \in Seq(S)
  PROVE  LET y == RemoveRepeated(s)
         IN  /\ y \in Seq(S) /\ Len(y) <= Len(s) /\ (y = <<>> <=> s = <<>>) /\ (y # <<>> => y[1] = s[1])
             /\ DoubleSlash(y) <=> TripleSlash(s)
             /\ DoubleSlash(s) => y # s
<1> DEFINE n == Len(s)
<1>1. PICK K : /\ K[0] = [text |-> s, at |-> 2]
               /\ \A k \in 1..n : K[k] = RemoveSlash(K[k - 1])
               /\ RemoveRepeated(s) = K[n].text
  BY RemoveUnfolds
<1> DEFINE Good == {k \in Nat : \E y \in Seq(S), at \in Nat, sh \in Nat :
                      /\ K[k] = [text |-> y, at |-> at] /\ (at >= k + 2 \/ at > Len(y))
                      /\ Passed(s, y, at, sh) /\ Leaves(s, y, at, sh)}
<1>2. n \in Nat /\ Good \in SUBSET Nat
  OBVIOUS
<1>3. 0 \in Good
  <2>1. Passed(s, s, 2, 0)
    BY DEF Passed
  <2>2. ~Left(s, 2)
    BY DEF Left
  <2>3. \A p \in Nat : TripleAt(s, p) => (2 - 1) + 0 <= p
    BY DEF TripleAt
  <2>4. Leaves(s, s, 2, 0)
    BY <2>2, <2>3 DEF Leaves
  <2>5. 2 \in Nat /\ 0 \in Nat /\ 2 >= 0 + 2
    OBVIOUS
  <2> QED BY <1>1, <2>1, <2>4, <2>5
<1>4. ASSUME NEW k \in 1..n, k - 1 \in Good PROVE k \in Good
  <2>1. PICK y \in Seq(S), at \in Nat, sh \in Nat :
          /\ K[k - 1] = [text |-> y, at |-> at] /\ (at >= (k - 1) + 2 \/ at > Len(y))
          /\ Passed(s, y, at, sh) /\ Leaves(s, y, at, sh)
    BY <1>4
  <2>2. K[k] = RemoveSlash([text |-> y, at |-> at]) /\ k \in Nat /\ Len(y) \in Nat
    BY <1>1, <1>2, <2>1
  <2>3. CASE at > Len(y)
    <3>1. K[k] = [text |-> y, at |-> at]
      BY <2>2, <2>3 DEF RemoveSlash
    <3> QED BY <2>1, <2>2, <2>3, <3>1
  <2>4. CASE ~(at > Len(y)) /\ y[at] = "/" /\ y[at - 1] = "/"
    <3> DEFINE z == RemoveAt(y, at)
    <3>1. K[k] = [text |-> z, at |-> at + 1]
      BY <2>2, <2>4 DEF RemoveSlash
    <3>2. z \in Seq(S) /\ Passed(s, z, at + 1, sh + 1) /\ Leaves(s, z, at + 1, sh + 1)
      <4>1. at <= Len(y)
        BY <2>2, <2>4
      <4> QED BY <2>1, <2>4, <4>1, SlashGoes
    <3>3. at + 1 \in Nat /\ sh + 1 \in Nat /\ at + 1 >= k + 2
      BY <2>1, <2>2, <2>4
    <3> HIDE DEF z
    <3> QED BY <2>2, <3>1, <3>2, <3>3
  <2>5. CASE ~(at > Len(y)) /\ ~(y[at] = "/" /\ y[at - 1] = "/")
    <3>1. K[k] = [text |-> y, at |-> at + 1]
      BY <2>2, <2>5 DEF RemoveSlash
    <3>2. Passed(s, y, at + 1, sh) /\ Leaves(s, y, at + 1, sh)
      <4>1. at <= Len(y)
        BY <2>2, <2>5
      <4> QED BY <2>1, <2>5, <4>1, CharStays
    <3>3. at + 1 \in Nat /\ at + 1 >= k + 2
      BY <2>1, <2>2, <2>5
    <3> QED BY <2>2, <3>1, <3>2, <3>3
  <2> QED BY <2>3, <2>4, <2>5
<1>5. n \in Good
  <2> HIDE DEF Good, n
  <2>1. \A k \in 0..n : k \in Good
    BY <1>2, <1>3, <1>4, UpTo
  <2> QED BY <1>2, <2>1
<1>6. PICK y \in Seq(S), at \in Nat, sh \in Nat :
        /\ K[n] = [text |-> y, at |-> at] /\ (at >= n + 2 \/ at > Len(y))
        /\ Passed(s, y, at, sh) /\ Leaves(s, y, at, sh)
  BY <1>5
<1>7. RemoveRepeated(s) = y
  BY <1>1, <1>6
<1>8. Len(y) \in Nat /\ Len(y) = n - sh /\ at > Len(y)
  BY <1>6 DEF Passed
<1>9. DoubleSlash(y) <=> Left(y, at)
  <2>1. \A i \in 1..(Len(y) - 1) : i + 1 < at
    BY <1>8
  <2> QED BY <2>1 DEF DoubleSlash, Left
<1>10. TripleSlash(s) => Left(y, at)
  <2> SUFFICES ASSUME NEW p \in 1..(n - 2), s[p] = "/", s[p + 1] = "/", s[p + 2] = "/" PROVE Left(y, at)
    BY DEF TripleSlash
  <2>1. p \in Nat /\ TripleAt(s, p) /\ ~((at - 1) + sh <= p)
    BY <1>8 DEF TripleAt
  <2> QED BY <1>6, <2>1 DEF Leaves
<1>11. Left(y, at) => TripleSlash(s) /\ sh > 0
  BY <1>6 DEF Leaves
<1>12. (y = <<>> <=> s = <<>>) /\ (y # <<>> => y[1] = s[1])
  <2>1. (Len(y) = 0 <=> Len(s) = 0) /\ (Len(y) > 0 => y[1] = s[1])
    BY <1>6 DEF Passed
  <2> QED BY <1>8, <2>1
<1>13. ASSUME DoubleSlash(s), y = s PROVE FALSE
  <2>1. sh = 0
    BY <1>2, <1>8, <1>13
  <2>2. Left(y, at)
    BY <1>9, <1>13
  <2> QED BY <1>11, <2>1, <2>2
<1> QED BY <1>2, <1>7, <1>8, <1>9, <1>10, <1>11, <1>12, <1>13

(* A path as it is kept: a slash at the front, none at the end, none repeated. *)
Tidy(p) ==
  /\ ~DoubleSlash(p)
  /\ p # <<>> => p[1] = "/" /\ (p # <<"/">> => p[Len(p)] # "/")

Trimmed(y) == IF Len(y) > 1 /\ y[Len(y)] = "/" THEN Front(y) ELSE y

(* The slash at the end goes. *)
LEMMA TrimmedIsTidy ==
  ASSUME NEW S, NEW y \in Seq(S), ~DoubleSlash(y), y # <<>> => y[1] = "/"
  PROVE  Trimmed(y) \in Seq(S) /\ Tidy(Trimmed(y)) /\ (Trimmed(y) = <<>> <=> y = <<>>)
<1> DEFINE n == Len(y)
<1>1. n \in Nat /\ (y = <<>> <=> n = 0)
  OBVIOUS
<1>2. CASE n > 1 /\ y[n] = "/"
  <2> DEFINE f == Front(y)
             m == n - 1
  <2>1. y # <<>> /\ m \in Nat /\ m > 0 /\ m + 1 = n
    BY <1>1, <1>2
  <2>2. f \in Seq(S) /\ Len(f) = m /\ \A i \in 1..m : f[i] = y[i]
    BY <1>1, <2>1, FrontPlaces
  <2>3. Trimmed(y) = f
    BY <1>2 DEF Trimmed
  <2> HIDE DEF f, n, m
  <2>4. ~DoubleSlash(f)
    <3> SUFFICES ASSUME NEW i \in 1..(Len(f) - 1), f[i] = "/", f[i + 1] = "/" PROVE FALSE
      BY DEF DoubleSlash
    <3>1. i \in 1..m /\ i + 1 \in 1..m /\ i \in 1..(n - 1)
      BY <1>1, <2>1, <2>2
    <3>2. y[i] = "/" /\ y[i + 1] = "/"
      BY <2>2, <3>1
    <3> QED BY <3>1, <3>2 DEF DoubleSlash, n
  <2>5. f # <<>> /\ f[1] = "/"
    BY <2>1, <2>2
  <2>6. f[m] # "/"
    <3>1. m \in 1..(n - 1) /\ m \in 1..m
      BY <1>1, <2>1
    <3>2. ~(y[m] = "/" /\ y[m + 1] = "/")
      BY <3>1 DEF DoubleSlash, n
    <3> QED BY <1>2, <2>1, <2>2, <3>1, <3>2
  <2> QED BY <2>1, <2>2, <2>3, <2>4, <2>5, <2>6 DEF Tidy
<1>3. CASE ~(n > 1 /\ y[n] = "/")
  <2>1. Trimmed(y) = y
    BY <1>3 DEF Trimmed
  <2>2. ASSUME y # <<>>, y # <<"/">> PROVE y[n] # "/"
    <3>1. y[1] = "/"
      BY <2>2
    <3>2. CASE n > 1
      BY <1>3, <3>2
    <3>3. CASE ~(n > 1)
      <4>1. n = 1
        <5>1. n # 0
          BY <1>1, <2>2
        <5> HIDE DEF n
        <5> QED BY <1>1, <3>3, <5>1
      <4>2. y = <<"/">>
        BY <3>1, <4>1
      <4> QED BY <2>2, <4>2
    <3> QED BY <3>2, <3>3
  <2> QED BY <2>1, <2>2 DEF Tidy
<1> QED BY <1>2, <1>3

LEMMA RelativeIs ==
  ASSUME NEW s, NEW t
  PROVE  relativePath(s, t) = Trimmed(RemoveRepeated(Slashed(s) \o Slashed(t)))
BY DEF relativePath, Trimmed

(* A tidy path does not change. *)
LEMMA TidyStays ==
  ASSUME NEW S, NEW p \in Seq(S), Tidy(p)
  PROVE  Slashed(p) = p /\ RemoveRepeated(p) = p /\ Trimmed(p) = p /\ Sanitised(p)
<1>1. Slashed(p) = p /\ Slashed(<<>>) = <<>> /\ p \o <<>> = p
  BY DEF Slashed, Tidy
<1>2. RemoveRepeated(p) = p
  BY NothingRemoved DEF Tidy
<1>3. Trimmed(p) = p
  <2>1. ASSUME Len(p) > 1, p[Len(p)] = "/" PROVE FALSE
    <3>1. p # <<>>
      BY <2>1
    <3>2. p = <<"/">>
      BY <2>1, <3>1 DEF Tidy
    <3>3. Len(p) = 1
      BY <3>2
    <3> HIDE DEF Tidy
    <3> DEFINE l == Len(p)
    <3>4. l > 1 /\ l = 1
      BY <2>1, <3>3
    <3> HIDE DEF l
    <3> QED BY <3>4
  <2> QED BY <2>1 DEF Trimmed
<1>4. relativePath(p, <<>>) = p
  BY <1>1, <1>2, <1>3, RelativeIs
<1> QED BY <1>1, <1>2, <1>3, <1>4 DEF Sanitised

(* A path that still has a slash too many is not what a path is kept as. *)
LEMMA UntidyIsNot ==
  ASSUME NEW S, NEW p \in Seq(S), p # <<>>, p[1] = "/", DoubleSlash(p) \/ (Len(p) > 1 /\ p[Len(p)] = "/")
  PROVE  ~Sanitised(p)
<1> DEFINE y == RemoveRepeated(p)
<1>1. Slashed(p) = p /\ Slashed(<<>>) = <<>> /\ p \o <<>> = p
  BY DEF Slashed
<1>2. relativePath(p, <<>>) = Trimmed(y)
  BY <1>1, RelativeIs
<1>3. y \in Seq(S) /\ Len(y) <= Len(p) /\ (DoubleSlash(p) => y # p)
  BY RemovedIs
<1>4. ~DoubleSlash(p) => y = p
  BY NothingRemoved
<1> HIDE DEF y
<1>5. Len(y) \in Nat /\ Len(p) \in Nat
  BY <1>3
<1>6. CASE Len(y) > 1 /\ y[Len(y)] = "/"
  <2>1. y # <<>>
    BY <1>6
  <2>2. Trimmed(y) = Front(y) /\ Len(Front(y)) = Len(y) - 1
    BY <1>3, <1>6, <2>1, FrontPlaces DEF Trimmed
  <2>3. Len(Front(y)) # Len(p)
    BY <1>3, <1>5, <2>2
  <2> QED BY <1>2, <2>2, <2>3 DEF Sanitised
<1>7. CASE ~(Len(y) > 1 /\ y[Len(y)] = "/")
  <2>1. Trimmed(y) = y
    BY <1>7 DEF Trimmed
  <2>2. y # p
    BY <1>3, <1>4, <1>7
  <2> QED BY <1>2, <2>1, <2>2 DEF Sanitised
<1> QED BY <1>6, <1>7

(* Where slashes are left, one at the end does not help. *)
LEMMA TrimmedIsNot ==
  ASSUME NEW S, NEW y \in Seq(S), DoubleSlash(y), y[1] = "/"
  PROVE  /\ Trimmed(y) \in Seq(S) /\ Trimmed(y) # <<>> /\ Trimmed(y)[1] = "/"
         /\ Trimmed(y) = <<"/">> \/ ~Sanitised(Trimmed(y))
<1> DEFINE n == Len(y)
<1>1. PICK i \in 1..(n - 1) : y[i] = "/" /\ y[i + 1] = "/"
  BY DEF DoubleSlash
<1>2. n \in Nat /\ n > 1 /\ i \in Nat /\ i + 1 <= n /\ y # <<>>
  BY <1>1
<1>3. CASE y[n] = "/"
  <2> DEFINE f == Front(y)
             m == n - 1
  <2>1. m \in Nat /\ m > 0 /\ m + 1 = n
    BY <1>2
  <2>2. f \in Seq(S) /\ Len(f) = m /\ \A j \in 1..m : f[j] = y[j]
    BY <1>2, FrontPlaces
  <2>3. Trimmed(y) = f
    BY <1>2, <1>3 DEF Trimmed
  <2> HIDE DEF f, n, m
  <2>4. f # <<>> /\ f[1] = "/"
    BY <2>1, <2>2
  <2>5. CASE m = 1
    <3>1. f = <<"/">>
      BY <2>2, <2>4, <2>5
    <3> QED BY <2>2, <2>3, <2>4, <3>1
  <2>6. CASE m > 1 /\ i < m
    <3>1. i \in 1..(Len(f) - 1) /\ i \in 1..m /\ i + 1 \in 1..m
      BY <1>2, <2>1, <2>2, <2>6
    <3>2. DoubleSlash(f)
      BY <1>1, <2>2, <3>1 DEF DoubleSlash
    <3> QED BY <2>2, <2>3, <2>4, <3>2, UntidyIsNot
  <2>7. CASE m > 1 /\ ~(i < m)
    <3>1. i = m /\ m \in 1..m
      BY <1>2, <2>1, <2>7
    <3>2. Len(f) > 1 /\ f[Len(f)] = "/"
      BY <1>1, <2>2, <2>7, <3>1
    <3> QED BY <2>2, <2>3, <2>4, <3>2, UntidyIsNot
  <2> QED BY <2>1, <2>5, <2>6, <2>7
<1>4. CASE y[n] # "/"
  <2>1. Trimmed(y) = y
    BY <1>4 DEF Trimmed
  <2> QED BY <1>2, <2>1, UntidyIsNot
<1> QED BY <1>3, <1>4

(* A slash in front of a text. *)
LEMMA SlashedPlaces ==
  ASSUME NEW S, "/" \in S, NEW s \in Seq(S)
  PROVE  LET u == Slashed(s)
         IN  u \in Seq(S) /\ (u = <<>> <=> s = <<>>) /\ (u # <<>> => u[1] = "/")
<1>1. CASE s # <<>> /\ s[1] # "/"
  <2> DEFINE u == <<"/">> \o s
             n == Len(s)
  <2>1. Slashed(s) = u
    BY <1>1 DEF Slashed
  <2>2. u \in Seq(S) /\ Len(u) = 1 + n /\ n \in Nat /\ u[1] = "/"
    BY <1>1
  <2> HIDE DEF u, n
  <2>3. u # <<>>
    BY <2>2
  <2> QED BY <1>1, <2>1, <2>2, <2>3
<1>2. CASE ~(s # <<>> /\ s[1] # "/")
  BY <1>2 DEF Slashed
<1> QED BY <1>1, <1>2

(* What two texts come to that are joined. *)
LEMMA JoinedIs ==
  ASSUME NEW S, "/" \in S, NEW s \in Seq(S), NEW t \in Seq(S)
  PROVE  LET path == relativePath(s, t)
         IN  /\ path \in Seq(S) /\ (path = <<>> <=> s = <<>> /\ t = <<>>) /\ (path # <<>> => path[1] = "/")
             /\ TripleSlash(Slashed(s) \o Slashed(t)) => path = <<"/">> \/ ~Sanitised(path)
             /\ ~TripleSlash(Slashed(s) \o Slashed(t)) => Tidy(path)
<1> DEFINE u == Slashed(s)
           v == Slashed(t)
           x == u \o v
           y == RemoveRepeated(x)
<1>1. u \in Seq(S) /\ (u = <<>> <=> s = <<>>) /\ (u # <<>> => u[1] = "/")
  BY SlashedPlaces
<1>2. v \in Seq(S) /\ (v = <<>> <=> t = <<>>) /\ (v # <<>> => v[1] = "/")
  BY SlashedPlaces
<1> HIDE DEF u, v
<1>3. x \in Seq(S) /\ (x = <<>> <=> u = <<>> /\ v = <<>>) /\ (x # <<>> => x[1] = "/")
  <2>1. CASE u = <<>>
    <3>1. x = v
      BY <1>2, <2>1
    <3> QED BY <1>2, <2>1, <3>1
  <2>2. CASE u # <<>>
    <3>1. Len(u) \in Nat /\ Len(u) > 0 /\ Len(v) \in Nat
      BY <1>1, <1>2, <2>2
    <3>2. /\ x \in Seq(S) /\ Len(x) = Len(u) + Len(v)
          /\ \A i \in 1..(Len(u) + Len(v)) : x[i] = IF i <= Len(u) THEN u[i] ELSE v[i - Len(u)]
      BY <1>1, <1>2, JoinPlaces
    <3>3. 1 \in 1..(Len(u) + Len(v)) /\ 1 <= Len(u)
      BY <3>1
    <3> HIDE DEF x
    <3>4. x # <<>> /\ x[1] = "/"
      BY <1>1, <2>2, <3>1, <3>2, <3>3
    <3> QED BY <2>2, <3>2, <3>4
  <2> QED BY <2>1, <2>2
<1> HIDE DEF x
<1>4. /\ y \in Seq(S) /\ (y = <<>> <=> x = <<>>) /\ (y # <<>> => y[1] = x[1])
      /\ DoubleSlash(y) <=> TripleSlash(x)
  BY <1>3, RemovedIs
<1> HIDE DEF y
<1>5. relativePath(s, t) = Trimmed(y)
  BY RelativeIs DEF y, x, u, v
<1>6. CASE TripleSlash(x)
  <2>1. DoubleSlash(y)
    BY <1>4, <1>6
  <2>2. y # <<>>
    BY <2>1 DEF DoubleSlash
  <2>3. y[1] = "/"
    BY <1>3, <1>4, <2>2
  <2>4. /\ Trimmed(y) \in Seq(S) /\ Trimmed(y) # <<>> /\ Trimmed(y)[1] = "/"
        /\ Trimmed(y) = <<"/">> \/ ~Sanitised(Trimmed(y))
    BY <1>4, <2>1, <2>3, TrimmedIsNot
  <2> QED BY <1>1, <1>2, <1>3, <1>4, <1>5, <1>6, <2>2, <2>4 DEF x, u, v
<1>7. CASE ~TripleSlash(x)
  <2>1. ~DoubleSlash(y) /\ (y # <<>> => y[1] = "/")
    BY <1>3, <1>4, <1>7
  <2>2. Trimmed(y) \in Seq(S) /\ Tidy(Trimmed(y)) /\ (Trimmed(y) = <<>> <=> y = <<>>)
    BY <1>4, <2>1, TrimmedIsTidy
  <2>3. Trimmed(y) # <<>> => Trimmed(y)[1] = "/"
    BY <2>2 DEF Tidy
  <2> QED BY <1>1, <1>2, <1>3, <1>4, <1>5, <1>7, <2>2, <2>3 DEF x, u, v
<1> QED BY <1>6, <1>7

LEMMA PathsAreJoined ==
  ASSUME NEW S, "/" \in S, word \in Seq(S)
  PROVE  JoinedPaths
<1> SUFFICES ASSUME NEW n \in 0..Len(word)
             PROVE  LET s == SubSeq(word, 1, n)
                        t == SubSeq(word, n + 1, Len(word))
                        path == relativePath(s, t)
                    IN  /\ path = <<>> <=> word = <<>>
                        /\ path # <<>> => path[1] = "/"
                        /\ IF TripleSlash(Slashed(s) \o Slashed(t))
                           THEN path = <<"/">> \/ ~Sanitised(path)
                           ELSE /\ ~DoubleSlash(path) /\ Sanitised(path)
                                /\ path \notin {<<>>, <<"/">>} => path[Len(path)] # "/"
  BY DEF JoinedPaths
<1> DEFINE s == SubSeq(word, 1, n)
           t == SubSeq(word, n + 1, Len(word))
           path == relativePath(s, t)
<1>1. Len(word) \in Nat /\ (word = <<>> <=> Len(word) = 0)
  OBVIOUS
<1>2. s \in Seq(S) /\ Len(s) = n /\ t \in Seq(S) /\ Len(t) = Len(word) - n
  BY <1>1
<1> HIDE DEF s, t
<1>3. (s = <<>> /\ t = <<>>) <=> word = <<>>
  <2>1. (s = <<>> <=> n = 0) /\ (t = <<>> <=> Len(word) - n = 0)
    BY <1>2
  <2> QED BY <1>1, <2>1
<1>4. /\ path \in Seq(S) /\ (path = <<>> <=> s = <<>> /\ t = <<>>) /\ (path # <<>> => path[1] = "/")
      /\ TripleSlash(Slashed(s) \o Slashed(t)) => path = <<"/">> \/ ~Sanitised(path)
      /\ ~TripleSlash(Slashed(s) \o Slashed(t)) => Tidy(path)
  BY <1>2, JoinedIs
<1> HIDE DEF path
<1>5. Tidy(path) => Sanitised(path) /\ ~DoubleSlash(path) /\ (path \notin {<<>>, <<"/">>} => path[Len(path)] # "/")
  <2>1. Tidy(path) => Sanitised(path)
    BY <1>4, TidyStays
  <2> QED BY <2>1 DEF Tidy
<1> QED BY <1>3, <1>4, <1>5 DEF path, s, t

(* What a valid path is like, character by character. *)
LEMMA ValidPlaces ==
  ASSUME NEW S, NEW s \in Seq(S), s # <<>>
  PROVE  isValidObjectPath(s) <=>
           /\ s[1] = "/" /\ (Len(s) > 1 => s[Len(s)] # "/")
           /\ \A i \in 2..Len(s) : IF s[i] = "/" THEN s[i - 1] # "/" ELSE s[i] \in NameChars
BY NothingRejected DEF isValidObjectPath

LEMMA ValidIsTidy ==
  ASSUME NEW S, NEW s \in Seq(S), isValidObjectPath(s)
  PROVE  Tidy(s)
<1>1. s # <<>>
  BY DEF isValidObjectPath
<1>2. /\ s[1] = "/" /\ (Len(s) > 1 => s[Len(s)] # "/")
      /\ \A i \in 2..Len(s) : IF s[i] = "/" THEN s[i - 1] # "/" ELSE s[i] \in NameChars
  BY <1>1, ValidPlaces
<1> DEFINE n == Len(s)
<1>3. n \in Nat /\ n # 0
  BY <1>1
<1>4. ~DoubleSlash(s)
  <2> SUFFICES ASSUME NEW i \in 1..(n - 1), s[i] = "/", s[i + 1] = "/" PROVE FALSE
    BY DEF DoubleSlash
  <2>1. i + 1 \in 2..n /\ (i + 1) - 1 = i
    <3> HIDE DEF n
    <3> QED BY <1>3
  <2> QED BY <1>2, <2>1
<1>5. ASSUME s # <<"/">> PROVE n > 1
  <2>1. n # 1
    BY <1>2, <1>5
  <2> HIDE DEF n
  <2> QED BY <1>3, <2>1
<1> QED BY <1>2, <1>4, <1>5 DEF Tidy

(* The part behind the last slash is a part. *)
LEMMA LastPart ==
  ASSUME NEW S, NEW s \in Seq(S), s # <<>>, NEW g \in 1..(Len(s) - 1), g = 1 \/ s[g] = "/",
         \A i \in (g + 1)..Len(s) : s[i] # "/"
  PROVE  SubSeq(s, g + 1, Len(s)) \in Parts(Tail(s), "/")
<1> DEFINE t == Tail(s)
           n == Len(s)
           c == g - 1
           cuts == Cuts(t, "/")
           next == NextCut(t, "/", c)
<1>1. t \in Seq(S) /\ n \in Nat /\ Len(t) = n - 1 /\ \A i \in 1..(n - 1) : t[i] = s[i + 1]
  BY TailPlaces
<1> HIDE DEF t, n
<1>2. g \in 1..(n - 1) /\ c \in Nat /\ c + 1 = g /\ c <= n - 1
  BY <1>1 DEF n
<1>3. DOMAIN t = 1..(n - 1)
  BY <1>1
<1>4. \A i : i \in cuts <=> i = 0 \/ i = n \/ (i \in 1..(n - 1) /\ t[i] = "/")
  <2>1. (n - 1) + 1 = n
    BY <1>1
  <2> QED BY <1>1, <1>3, <2>1 DEF Cuts
<1>5. c \in cuts
  <2>1. CASE c = 0
    BY <1>4, <2>1
  <2>2. CASE c # 0
    <3>1. c \in 1..(n - 1) /\ g # 1
      BY <1>2, <2>2
    <3>2. t[c] = "/"
      BY <1>1, <1>2, <3>1
    <3> HIDE DEF c
    <3> QED BY <1>4, <3>1, <3>2
  <2> QED BY <2>1, <2>2
<1> HIDE DEF c
<1>6. /\ next \in cuts /\ next \in Nat /\ c < next /\ next <= n
      /\ \A k \in cuts : k > c => next <= k
  <2>1. c <= Len(t) /\ Len(t) + 1 = n
    BY <1>1, <1>2
  <2> QED BY <1>1, <1>5, <2>1, NextCutIs
<1> HIDE DEF next, cuts
<1>7. next = n
  <2> SUFFICES ASSUME next # n PROVE FALSE
    OBVIOUS
  <2>1. next # 0
    BY <1>2, <1>6
  <2>2. next \in 1..(n - 1) /\ t[next] = "/"
    BY <1>4, <1>6, <2>1
  <2>3. next + 1 \in (g + 1)..n
    BY <1>1, <1>2, <1>6, <2>2
  <2>4. s[next + 1] # "/"
    BY <2>3 DEF n
  <2> QED BY <1>1, <2>2, <2>4
<1>8. SubSeq(t, c + 1, n - 1) \in Parts(t, "/")
  <2>1. c \in {j \in cuts : j <= Len(t)}
    BY <1>1, <1>2, <1>5
  <2>2. SubSeq(t, c + 1, next - 1) \in Parts(t, "/")
    BY <2>1 DEF Parts, next, cuts
  <2> QED BY <1>7, <2>2
<1>9. SubSeq(t, c + 1, n - 1) = SubSeq(s, g + 1, n)
  <2> DEFINE a == SubSeq(t, g, n - 1)
             b == SubSeq(s, g + 1, n)
  <2>1. a \in Seq(S) /\ Len(a) = n - g /\ \A i \in 1..(n - g) : a[i] = t[g + i - 1]
    BY <1>1, <1>2
  <2>2. b \in Seq(S) /\ Len(b) = n - g /\ \A i \in 1..(n - g) : b[i] = s[g + i]
    BY <1>1, <1>2 DEF n
  <2> HIDE DEF a, b
  <2>3. \A i \in 1..Len(a) : a[i] = b[i]
    <3> TAKE i \in 1..Len(a)
    <3>1. i \in 1..(n - g)
      BY <2>1
    <3>2. g + i - 1 \in 1..(n - 1) /\ (g + i - 1) + 1 = g + i
      <4>1. n \in Nat /\ g \in 1..(n - 1)
        BY <1>1, <1>2
      <4> QED BY <3>1, <4>1
    <3> QED BY <1>1, <2>1, <2>2, <3>1, <3>2
  <2>4. a = b
    BY <2>1, <2>2, <2>3, SamePlaces
  <2> QED BY <1>2, <2>4 DEF a, b
<1> QED BY <1>8, <1>9 DEF t, n

(* A part in front of which the slash was is joined to the path above it. *)
LEMMA JoinedBack ==
  ASSUME NEW S, "/" \in S, NEW s \in Seq(S), Tidy(s), s # <<>>, NEW g \in 1..(Len(s) - 1),
         s[g] = "/", s[g + 1] # "/"
  PROVE  LET above == IF g = 1 THEN SubSeq(s, 1, 1) ELSE SubSeq(s, 1, g - 1)
         IN  Tidy(above) => relativePath(above, SubSeq(s, g + 1, Len(s))) = s
<1> DEFINE n == Len(s)
           p == SubSeq(s, g + 1, n)
           q == <<"/">> \o p
           above == IF g = 1 THEN SubSeq(s, 1, 1) ELSE SubSeq(s, 1, g - 1)
<1> SUFFICES ASSUME Tidy(above) PROVE relativePath(above, p) = s
  OBVIOUS
<1>1. n \in Nat /\ g \in Nat /\ g > 0 /\ g < n
  OBVIOUS
<1>2. p \in Seq(S) /\ Len(p) = n - g /\ \A i \in 1..(n - g) : p[i] = s[g + i]
  BY <1>1
<1>3. s[1] = "/" /\ Trimmed(s) = s /\ RemoveRepeated(s) = s
  BY TidyStays DEF Tidy
<1> HIDE DEF p, n
<1>4. /\ q \in Seq(S) /\ Len(q) = 1 + (n - g)
      /\ q[1] = "/" /\ \A i \in 1..(n - g) : q[i + 1] = p[i]
  <2> DEFINE o == <<"/">>
  <2>1. o \in Seq(S) /\ Len(o) = 1 /\ o[1] = "/"
    OBVIOUS
  <2> HIDE DEF o
  <2>2. /\ o \o p \in Seq(S) /\ Len(o \o p) = 1 + (n - g)
        /\ \A i \in 1..(1 + (n - g)) : (o \o p)[i] = IF i <= 1 THEN o[i] ELSE p[i - 1]
    <3>1. /\ o \o p \in Seq(S) /\ Len(o \o p) = Len(o) + Len(p)
          /\ \A i \in 1..(Len(o) + Len(p)) : (o \o p)[i] = IF i <= Len(o) THEN o[i] ELSE p[i - Len(o)]
      BY <1>2, <2>1, JoinPlaces
    <3> QED BY <1>2, <2>1, <3>1
  <2>3. (o \o p)[1] = "/"
    <3>1. 1 \in 1..(1 + (n - g))
      BY <1>1
    <3> QED BY <2>1, <2>2, <3>1
  <2>4. ASSUME NEW i \in 1..(n - g) PROVE (o \o p)[i + 1] = p[i]
    <3>1. i + 1 \in 1..(1 + (n - g)) /\ ~(i + 1 <= 1) /\ (i + 1) - 1 = i
      BY <1>1
    <3> QED BY <2>2, <3>1
  <2> QED BY <2>2, <2>3, <2>4 DEF o
<1>5. Slashed(p) = q
  <2>1. 1 \in 1..(n - g)
    BY <1>1
  <2>2. p # <<>> /\ p[1] # "/"
    BY <1>1, <1>2, <2>1
  <2> QED BY <2>2 DEF Slashed
<1>6. \A i \in 1..(1 + (n - g)) : q[i] = s[g + i - 1]
  <2> TAKE i \in 1..(1 + (n - g))
  <2>1. CASE i = 1
    <3>1. g + i - 1 = g
      BY <1>1, <2>1
    <3> QED BY <1>4, <2>1, <3>1
  <2>2. CASE i # 1
    <3>1. i - 1 \in 1..(n - g) /\ (i - 1) + 1 = i /\ g + (i - 1) = g + i - 1
      BY <1>1, <2>2
    <3>2. q[i] = p[i - 1] /\ p[i - 1] = s[g + (i - 1)]
      BY <1>2, <1>4, <3>1
    <3> QED BY <3>1, <3>2
  <2> QED BY <2>1, <2>2
<1> HIDE DEF q
<1>7. above \in Seq(S) /\ Len(above) = (IF g = 1 THEN 1 ELSE g - 1)
      /\ \A i \in 1..Len(above) : above[i] = s[i]
  <2>1. CASE g = 1
    BY <1>1, <2>1 DEF n
  <2>2. CASE g # 1
    <3> DEFINE b == SubSeq(s, 1, g - 1)
    <3>1. b \in Seq(S) /\ Len(b) = g - 1 /\ \A i \in 1..(g - 1) : b[i] = s[i]
      BY <1>1, <2>2 DEF n
    <3>2. above = b
      BY <2>2
    <3> HIDE DEF b, above
    <3> QED BY <2>2, <3>1, <3>2
  <2> QED BY <2>1, <2>2
<1>8. Slashed(above) = above
  <2> HIDE DEF above
  <2> QED BY <1>7, TidyStays
<1> HIDE DEF above
<1> DEFINE x == above \o q
           m == Len(above)
<1>9. /\ x \in Seq(S) /\ Len(x) = m + Len(q)
      /\ \A i \in 1..(m + Len(q)) : x[i] = IF i <= m THEN above[i] ELSE q[i - m]
  BY <1>4, <1>7, JoinPlaces
<1>10. relativePath(above, p) = Trimmed(RemoveRepeated(x))
  BY <1>5, <1>8, RelativeIs
<1> HIDE DEF x
<1>11. CASE g # 1
  <2>1. m = g - 1 /\ m + Len(q) = n
    BY <1>1, <1>4, <1>7, <1>11
  <2>2. \A i \in 1..Len(x) : x[i] = s[i]
    <3> TAKE i \in 1..Len(x)
    <3>1. i \in 1..n
      BY <1>9, <2>1
    <3>2. CASE i <= m
      BY <1>1, <1>7, <1>9, <2>1, <3>1, <3>2
    <3>3. CASE ~(i <= m)
      <4>1. i - m \in 1..(1 + (n - g)) /\ g + (i - m) - 1 = i
        BY <1>1, <2>1, <3>1, <3>3
      <4>2. q[i - m] = s[i]
        BY <1>6, <4>1
      <4> QED BY <1>9, <2>1, <3>1, <3>3, <4>2
    <3> QED BY <3>2, <3>3
  <2>3. x = s
    BY <1>9, <2>1, <2>2, SamePlaces DEF n
  <2> QED BY <1>3, <1>10, <2>3
<1>12. CASE g = 1
  <2>1. m = 1 /\ Len(q) = n /\ Len(x) = n + 1 /\ n > 1
    BY <1>1, <1>4, <1>7, <1>9, <1>12
  <2>2. x[1] = "/" /\ \A i \in 2..(n + 1) : x[i] = s[i - 1]
    <3>1. x[1] = "/"
      <4>1. 1 \in 1..(m + Len(q)) /\ 1 \in 1..m
        BY <2>1
      <4> QED BY <1>3, <1>7, <1>9, <2>1, <4>1
    <3>2. ASSUME NEW i \in 2..(n + 1) PROVE x[i] = s[i - 1]
      <4>1. i \in 1..(m + Len(q)) /\ ~(i <= m) /\ i - m = i - 1
        BY <1>1, <2>1
      <4>2. i - 1 \in 1..(1 + (n - g)) /\ g + (i - 1) - 1 = i - 1
        BY <1>1, <1>12
      <4>3. q[i - 1] = s[i - 1]
        BY <1>6, <4>2
      <4> QED BY <1>9, <4>1, <4>3
    <3> QED BY <3>1, <3>2
  <2>3. 2 \in 2..Len(x) /\ x[2] = "/" /\ x[2 - 1] = "/"
    BY <1>3, <2>1, <2>2
  <2>4. ASSUME NEW i \in 2..Len(x), x[i] = "/", x[i - 1] = "/" PROVE i = 2
    <3> SUFFICES ASSUME i # 2 PROVE FALSE
      OBVIOUS
    <3>1. i \in 2..(n + 1) /\ i - 1 \in 2..(n + 1) /\ (i - 1) - 1 \in 1..(n - 1)
          /\ ((i - 1) - 1) + 1 = i - 1
      BY <1>1, <2>1
    <3>2. s[i - 1] = "/" /\ s[(i - 1) - 1] = "/"
      BY <2>2, <2>4, <3>1
    <3>3. DoubleSlash(s)
      BY <3>1, <3>2 DEF DoubleSlash, n
    <3> QED BY <3>3 DEF Tidy
  <2>5. RemoveRepeated(x) = RemoveAt(x, 2)
    BY <1>9, <2>3, <2>4, OneRemoved
  <2> DEFINE y == RemoveAt(x, 2)
  <2>6. 2 \in 1..Len(x)
    BY <2>1, <1>1
  <2>7. /\ y \in Seq(S) /\ Len(y) = Len(x) - 1
        /\ \A i \in 1..(Len(x) - 1) : y[i] = IF i < 2 THEN x[i] ELSE x[i + 1]
    BY <1>9, <2>6, RemoveAtPlaces
  <2> HIDE DEF y
  <2>8. \A i \in 1..Len(y) : y[i] = s[i]
    <3> TAKE i \in 1..Len(y)
    <3>1. i \in 1..n /\ i \in 1..(Len(x) - 1)
      BY <1>1, <2>1, <2>7
    <3>2. CASE i < 2
      <4>1. i = 1
        BY <3>1, <3>2
      <4> QED BY <1>3, <2>2, <2>7, <3>1, <3>2, <4>1
    <3>3. CASE ~(i < 2)
      <4>1. i + 1 \in 2..(n + 1) /\ (i + 1) - 1 = i
        BY <1>1, <3>1
      <4> QED BY <2>2, <2>7, <3>1, <3>3, <4>1
    <3> QED BY <3>2, <3>3
  <2>9. Len(y) = n
    BY <1>1, <2>1, <2>7
  <2>10. y = s
    BY <2>7, <2>8, <2>9, SamePlaces DEF n
  <2> QED BY <1>3, <1>10, <2>5, <2>10 DEF y
<1> QED BY <1>11, <1>12 DEF p, n

(* The path above a valid path. *)
LEMMA AboveIsValid ==
  ASSUME NEW S, NEW s \in Seq(S), isValidObjectPath(s), NEW g \in 1..(Len(s) - 1), s[g] = "/"
  PROVE  isValidObjectPath(IF g = 1 THEN SubSeq(s, 1, 1) ELSE SubSeq(s, 1, g - 1))
<1> DEFINE n == Len(s)
           b == SubSeq(s, 1, g - 1)
<1>1. n \in Nat /\ g \in Nat /\ g > 0 /\ g < n /\ s # <<>>
  BY DEF isValidObjectPath
<1>2. /\ s[1] = "/" /\ (n > 1 => s[n] # "/")
      /\ \A i \in 2..n : IF s[i] = "/" THEN s[i - 1] # "/" ELSE s[i] \in NameChars
  BY <1>1, ValidPlaces
<1>3. CASE g = 1
  <2> DEFINE a == SubSeq(s, 1, 1)
  <2>1. a \in Seq(S) /\ Len(a) = 1 /\ a[1] = s[1] /\ a # <<>>
    BY <1>1
  <2> HIDE DEF a
  <2>2. isValidObjectPath(a)
    BY <1>2, <2>1, ValidPlaces
  <2> QED BY <1>3, <2>2 DEF a
<1>4. CASE g # 1
  <2>1. b \in Seq(S) /\ Len(b) = g - 1 /\ \A i \in 1..(g - 1) : b[i] = s[i]
    BY <1>1, <1>4
  <2> HIDE DEF b, n
  <2>2. g \in 2..n /\ g - 1 \in 1..(g - 1) /\ 1 \in 1..(g - 1)
    BY <1>1, <1>4
  <2>3. s[g - 1] # "/"
    BY <1>2, <2>2
  <2>4. b # <<>> /\ b[1] = "/" /\ b[Len(b)] # "/"
    BY <1>2, <2>1, <2>2, <2>3
  <2>5. ASSUME NEW i \in 2..Len(b)
        PROVE  IF b[i] = "/" THEN b[i - 1] # "/" ELSE b[i] \in NameChars
    <3>1. i \in 2..n /\ i \in 1..(g - 1) /\ i - 1 \in 1..(g - 1)
      BY <1>1, <2>1
    <3>2. b[i] = s[i] /\ b[i - 1] = s[i - 1]
      BY <2>1, <3>1
    <3> QED BY <1>2, <3>1, <3>2
  <2>6. isValidObjectPath(b)
    BY <2>1, <2>4, <2>5, ValidPlaces
  <2> QED BY <1>4, <2>6 DEF b
<1> QED BY <1>3, <1>4

LEMMA ParentsAreFound ==
  ASSUME NEW S, "/" \in S, word \in Seq(S)
  PROVE  ParentsLeadToRoot
<1> DEFINE s == word
           n == Len(s)
           sizes == {k \in 1..(n - 1) : s[k] = "/"}
           parent == parentPath(s)
<1> SUFFICES ASSUME isValidObjectPath(s)
             PROVE  IF s = <<"/">> THEN parent = <<>>
                    ELSE /\ isValidObjectPath(parent)
                         /\ \E p \in Parts(Tail(s), "/") : relativePath(parent, p) = s
  BY DEF ParentsLeadToRoot
<1>1. s # <<>> /\ n \in Nat /\ n # 0
  BY DEF isValidObjectPath
<1>2. /\ s[1] = "/" /\ (n > 1 => s[n] # "/")
  BY <1>1, ValidPlaces
<1>3. Tidy(s)
  BY ValidIsTidy
<1>4. CASE s = <<"/">>
  <2>1. n = 1
    BY <1>4
  <2>2. sizes = {}
    <3> HIDE DEF n
    <3> QED BY <2>1
  <2>3. parent = <<>>
    BY <2>2 DEF parentPath
  <2> QED BY <1>4, <2>3
<1>5. CASE s # <<"/">>
  <2>1. n > 1
    <3>1. n # 1
      BY <1>1, <1>2, <1>5
    <3> HIDE DEF n
    <3> QED BY <1>1, <3>1
  <2>2. n - 1 \in Nat /\ sizes \in SUBSET (1..(n - 1)) /\ 1 \in sizes
    <3>1. n - 1 \in Nat /\ 1 \in 1..(n - 1)
      <4> HIDE DEF n
      <4> QED BY <1>1, <2>1
    <3> QED BY <1>2, <3>1
  <2>3. PICK g \in sizes : \A k \in sizes : k <= g
    <3> HIDE DEF sizes, n
    <3> QED BY <2>2, GreatestNumber
  <2>4. Max(sizes) = g
    <3> HIDE DEF sizes, n
    <3> QED BY <2>2, <2>3, MaxIs
  <2>5. g \in 1..(n - 1) /\ s[g] = "/"
    BY <2>3
  <2> DEFINE above == IF g = 1 THEN SubSeq(s, 1, 1) ELSE SubSeq(s, 1, g - 1)
             p == SubSeq(s, g + 1, n)
  <2>6. parent = above
    <3> DEFINE size == IF sizes = {} THEN 0 ELSE Max(sizes)
    <3>1. size = g
      <4> HIDE DEF sizes
      <4> QED BY <2>2, <2>4
    <3>2. g # 0
      <4> HIDE DEF n, sizes
      <4> QED BY <1>1, <2>5
    <3>3. parent = (CASE size = 0 -> <<>> [] size = 1 -> SubSeq(s, 1, 1) [] OTHER -> SubSeq(s, 1, size - 1))
      BY DEF parentPath
    <3> HIDE DEF size, parent, sizes
    <3> QED BY <3>1, <3>2, <3>3
  <2>7. \A i \in (g + 1)..n : s[i] # "/"
    <3> SUFFICES ASSUME NEW i \in (g + 1)..n, s[i] = "/" PROVE FALSE
      OBVIOUS
    <3>1. i \in 1..n /\ i > g /\ (i # n => i \in 1..(n - 1))
      <4> HIDE DEF n, sizes
      <4> QED BY <1>1, <2>5
    <3>2. i # n
      BY <1>2, <2>1
    <3>3. i \in sizes
      BY <3>1, <3>2
    <3> HIDE DEF sizes, n
    <3> QED BY <1>1, <2>3, <2>5, <3>1, <3>3
  <2>8. isValidObjectPath(above)
    BY <2>5, AboveIsValid
  <2>9. p \in Parts(Tail(s), "/")
    BY <1>1, <2>5, <2>7, LastPart
  <2>10. s[g + 1] # "/"
    <3>1. g + 1 \in (g + 1)..n
      <4> HIDE DEF n, sizes
      <4> QED BY <1>1, <2>5
    <3> QED BY <2>7, <3>1
  <2>11. above \in Seq(S)
    <3>1. 1 \in 1..n /\ g - 1 \in 0..n
      <4> HIDE DEF n, sizes
      <4> QED BY <1>1, <2>5
    <3>2. SubSeq(s, 1, 1) \in Seq(S) /\ SubSeq(s, 1, g - 1) \in Seq(S)
      BY <1>1, <3>1
    <3> QED BY <3>2
  <2>12. Tidy(above)
    <3> HIDE DEF above
    <3> QED BY <2>8, <2>11, ValidIsTidy
  <2>13. relativePath(above, p) = s
    BY <1>1, <1>3, <2>5, <2>10, <2>12, JoinedBack
  <2> HIDE DEF above, p, parent
  <2> QED BY <1>5, <2>6, <2>8, <2>9, <2>13
<1> QED BY <1>4, <1>5

NamesSpec == NamesInit /\ [][NamesNext]_word

WordTyped == word \in Seq(Chars \cup {"/"})

(* Names are checked as the parts between the separators demand, a path that is
   joined from two parts is tidy exactly if there are no three slashes in a row, and
   from a valid path the way up leads to the root (the isValid functions,
   adbusI_relativePath and adbusI_parentPath), for texts of every length over all
   characters. *)
THEOREM NamesAreSound == NamesSpec => []NamesSound
<1>1. NamesInit => WordTyped
  BY DEF NamesInit, WordTyped
<1>2. WordTyped /\ [NamesNext]_word => WordTyped'
  BY DEF NamesNext, WordTyped
<1>3. WordTyped => NamesSound
  BY NamesAreChecked, PathsAreJoined, ParentsAreFound DEF WordTyped, NamesSound
<1> QED BY <1>1, <1>2, <1>3, PTL DEF NamesSpec
=============================================================================
