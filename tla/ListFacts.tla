----------------------------- MODULE ListFacts -----------------------------
(***************************************************************************)
(* Facts about sequences that the proofs of several components rest on:    *)
(* what their elements are after an operation, and that an element that is *)
(* there once stays so.                                                    *)
(*                                                                         *)
(* The induction theorems of the library have operators as parameters,     *)
(* which the provers do not instantiate.  Induction is done here with sets *)
(* of numbers: a set of counterexamples that is not empty has a least one. *)
(***************************************************************************)
EXTENDS Lists, SequencesExt, SequenceTheorems, FiniteSetTheorems, WellFoundedInduction, TLAPS

(* Every element of a list is there once. *)
Once(s) == \A i, j \in DOMAIN s : s[i] = s[j] => i = j

-----------------------------------------------------------------------------
(* Numbers *)

(* A set of natural numbers that is not empty has a least element. *)
LEMMA LeastNumber ==
  ASSUME NEW T \in SUBSET Nat, T # {}
  PROVE  \E n \in T : \A k \in T : n <= k
<1> DEFINE R == OpToRel(<, Nat)
<1>1. IsWellFoundedOn(R, Nat)
  BY NatLessThanWellFounded
<1>2. \A k, n \in Nat : <<k, n>> \in R <=> k < n
  BY DEF OpToRel
<1> HIDE DEF R
<1>3. PICK n \in T : \A k \in T : ~(<<k, n>> \in R)
  BY <1>1, WFMin
<1>4. \A k \in T : ~(k < n)
  BY <1>2, <1>3
<1> QED BY <1>4

(* Induction over the numbers up to a bound. *)
LEMMA UpTo ==
  ASSUME NEW n \in Nat, NEW Good \in SUBSET Nat, 0 \in Good,
         \A k \in 1..n : k - 1 \in Good => k \in Good
  PROVE  \A k \in 0..n : k \in Good
<1> DEFINE T == {k \in 0..n : k \notin Good}
<1>1. SUFFICES ASSUME T # {} PROVE FALSE
  OBVIOUS
<1>2. T \in SUBSET Nat
  OBVIOUS
<1>3. PICK k \in T : \A l \in T : k <= l
  <2> HIDE DEF T
  <2> QED BY <1>1, <1>2, LeastNumber
<1>4. k # 0 /\ k \in 1..n
  BY <1>3
<1>5. k - 1 \in Good
  BY <1>3, <1>4
<1> QED BY <1>3, <1>4, <1>5

(* A function that is given by its first value and by each next one exists. *)
LEMMA RecursionExists ==
  ASSUME NEW S, NEW first \in S, NEW n \in Nat, NEW F \in [1..n -> [S -> S]]
  PROVE  \E K \in [0..n -> S] :
           K[0] = first /\ \A k \in 1..n : K[k] = F[k][K[k - 1]]
<1> DEFINE Fits(K, m) ==
             /\ K \in [0..m -> S] /\ K[0] = first
             /\ \A k \in 1..m : K[k] = F[k][K[k - 1]]
           Good == {m \in Nat : \E K : Fits(K, m)}
<1>1. 0 \in Good
  <2>1. Fits([k \in 0..0 |-> first], 0)
    OBVIOUS
  <2> QED BY <2>1
<1>2. ASSUME NEW m \in 1..n, m - 1 \in Good PROVE m \in Good
  <2>1. PICK K : Fits(K, m - 1)
    BY <1>2
  <2> DEFINE new == F[m][K[m - 1]]
             L == [k \in 0..m |-> IF k = m THEN new ELSE K[k]]
  <2>2. new \in S
    <3>1. m - 1 \in 0..(m - 1) /\ K \in [0..(m - 1) -> S]
      BY <2>1
    <3> QED BY <3>1
  <2> HIDE DEF new
  <2>3. \A k \in 0..m : k # m => k \in 0..(m - 1)
    OBVIOUS
  <2>4. L \in [0..m -> S] /\ L[0] = first /\ L[m] = new
    BY <2>1, <2>2, <2>3
  <2>5. \A k \in 1..m : L[k] = F[k][L[k - 1]]
    <3> TAKE k \in 1..m
    <3>1. k - 1 \in 0..m /\ k - 1 # m
      OBVIOUS
    <3>2. L[k - 1] = K[k - 1]
      BY <3>1
    <3>3. CASE k = m
      BY <2>4, <3>2, <3>3 DEF new
    <3>4. CASE k # m
      <4>1. k \in 1..(m - 1) /\ L[k] = K[k]
        BY <3>4
      <4> QED BY <2>1, <3>2, <4>1
    <3> QED BY <3>3, <3>4
  <2>6. m \in Nat
    OBVIOUS
  <2> HIDE DEF L
  <2>7. Fits(L, m)
    BY <2>4, <2>5
  <2> HIDE DEF Fits
  <2> QED BY <2>6, <2>7
<1>3. n \in Good
  <2>1. Good \in SUBSET Nat
    OBVIOUS
  <2>2. \A m \in 1..n : m - 1 \in Good => m \in Good
    BY <1>2
  <2> HIDE DEF Good
  <2>3. \A k \in 0..n : k \in Good
    BY <1>1, <2>1, <2>2, UpTo
  <2> QED BY <2>3
<1> QED BY <1>3
-----------------------------------------------------------------------------
(* Removal from a list *)

(* The recursion of Without: the function that it defines exists. *)
LEMMA WithoutUnfolds ==
  ASSUME NEW S, NEW list \in Seq(S), NEW gone
  PROVE  \E K : /\ K[0] = <<>>
                /\ \A n \in 1..Len(list) :
                     K[n] = IF list[n] \in gone THEN K[n - 1] ELSE Append(K[n - 1], list[n])
                /\ Without(list, gone) = K[Len(list)]
<1> DEFINE Step(g, n) == IF n = 0 THEN <<>>
                         ELSE IF list[n] \in gone THEN g[n - 1]
                         ELSE Append(g[n - 1], list[n])
           Fits(g, k) == g = [n \in 0..k |-> Step(g, n)]
           Good == {k \in Nat : \E g : Fits(g, k)}
           K == CHOOSE g : Fits(g, Len(list))
<1>1. Len(list) \in Nat
  OBVIOUS
<1>2. 0 \in Good
  <2>1. Fits([n \in 0..0 |-> <<>>], 0)
    OBVIOUS
  <2> QED BY <2>1
<1>3. ASSUME NEW k \in 1..Len(list), k - 1 \in Good
      PROVE  k \in Good
  <2>1. PICK g : Fits(g, k - 1)
    BY <1>3
  <2> DEFINE h == [n \in 0..k |-> IF n = k THEN Step(g, k) ELSE g[n]]
  <2>2. \A n \in 0..k : h[n] = Step(h, n)
    <3> TAKE n \in 0..k
    <3>1. CASE n = k
      BY <3>1
    <3>2. CASE n # k
      <4>1. n \in 0..(k - 1) /\ h[n] = g[n]
        BY <3>2
      <4>2. g[n] = Step(g, n)
        BY <2>1, <4>1
      <4>3. n # 0 => h[n - 1] = g[n - 1]
        BY <4>1
      <4> QED BY <4>1, <4>2, <4>3
    <3> QED BY <3>1, <3>2
  <2>3. Fits(h, k)
    BY <2>2
  <2>4. k \in Nat
    OBVIOUS
  <2> HIDE DEF Fits, h
  <2> QED BY <2>3, <2>4
<1>4. Len(list) \in Good
  <2> HIDE DEF Good
  <2>1. Good \in SUBSET Nat
    BY DEF Good
  <2>2. \A k \in 1..Len(list) : k - 1 \in Good => k \in Good
    BY <1>3
  <2>3. \A k \in 0..Len(list) : k \in Good
    BY <1>1, <1>2, <2>1, <2>2, UpTo
  <2> QED BY <1>1, <2>3
<1>5. Fits(K, Len(list))
  BY <1>4
<1>6. Without(list, gone) = K[Len(list)]
  BY Zenon DEF Without
<1> HIDE DEF K
<1>7. K[0] = <<>>
  BY <1>1, <1>5
<1>8. \A n \in 1..Len(list) :
        K[n] = IF list[n] \in gone THEN K[n - 1] ELSE Append(K[n - 1], list[n])
  <2> TAKE n \in 1..Len(list)
  <2>1. K[n] = Step(K, n)
    <3> HIDE DEF Step
    <3> QED BY <1>1, <1>5
  <2> QED BY <2>1
<1> QED BY <1>6, <1>7, <1>8
-----------------------------------------------------------------------------
(* Lists as sets *)

(* An element put at the end, or at the beginning, of a list that does not have it. *)
LEMMA AppendFacts ==
  ASSUME NEW S, NEW s \in Seq(S), NEW x \in S
  PROVE  /\ Append(s, x) \in Seq(S)
         /\ ToSet(Append(s, x)) = ToSet(s) \cup {x}
         /\ Once(s) /\ x \notin ToSet(s) => Once(Append(s, x))
<1>1. ToSet(Append(s, x)) = ToSet(s) \cup {x}
  <2>1. ASSUME NEW y \in ToSet(s) PROVE y \in ToSet(Append(s, x))
    <3>1. PICK i \in DOMAIN s : y = s[i]
      BY DEF ToSet
    <3>2. i \in DOMAIN Append(s, x) /\ Append(s, x)[i] = y
      BY <3>1
    <3> QED BY <3>2 DEF ToSet
  <2>2. x \in ToSet(Append(s, x))
    <3>1. Len(s) + 1 \in DOMAIN Append(s, x) /\ Append(s, x)[Len(s) + 1] = x
      OBVIOUS
    <3> QED BY <3>1 DEF ToSet
  <2>3. ToSet(Append(s, x)) \subseteq ToSet(s) \cup {x}
    BY DEF ToSet
  <2> QED BY <2>1, <2>2, <2>3
<1>2. Once(s) /\ x \notin ToSet(s) => Once(Append(s, x))
  BY DEF Once, ToSet
<1> QED BY <1>1, <1>2

LEMMA ConsFacts ==
  ASSUME NEW S, NEW s \in Seq(S), NEW x \in S
  PROVE  /\ <<x>> \o s \in Seq(S)
         /\ ToSet(<<x>> \o s) = ToSet(s) \cup {x}
         /\ Once(s) /\ x \notin ToSet(s) => Once(<<x>> \o s)
<1> DEFINE t == <<x>> \o s
<1>0. t \in Seq(S) /\ Len(t) = Len(s) + 1 /\ t[1] = x /\ \A i \in 1..Len(s) : t[i + 1] = s[i]
  OBVIOUS
<1> HIDE DEF t
<1>1. ToSet(t) = ToSet(s) \cup {x}
  <2>1. ASSUME NEW y \in ToSet(s) PROVE y \in ToSet(t)
    <3>1. PICK i \in DOMAIN s : y = s[i]
      BY DEF ToSet
    <3>2. i + 1 \in DOMAIN t /\ t[i + 1] = y
      BY <1>0, <3>1
    <3> QED BY <3>2 DEF ToSet
  <2>2. x \in ToSet(t)
    BY <1>0 DEF ToSet
  <2>3. ASSUME NEW y \in ToSet(t) PROVE y \in ToSet(s) \cup {x}
    <3>1. PICK i \in DOMAIN t : y = t[i]
      BY DEF ToSet
    <3>2. i = 1 \/ (i - 1 \in 1..Len(s) /\ t[(i - 1) + 1] = s[i - 1])
      BY <1>0
    <3>3. i = 1 \/ (i - 1 \in DOMAIN s /\ t[i] = s[i - 1])
      BY <1>0, <3>2
    <3> QED BY <1>0, <3>1, <3>3 DEF ToSet
  <2> QED BY <2>1, <2>2, <2>3
<1>2. ASSUME Once(s), x \notin ToSet(s) PROVE Once(t)
  <2> SUFFICES ASSUME NEW i \in DOMAIN t, NEW j \in DOMAIN t, t[i] = t[j] PROVE i = j
    BY DEF Once
  <2>1. \A k \in DOMAIN t : k = 1 \/ (k - 1 \in 1..Len(s) /\ t[(k - 1) + 1] = s[k - 1])
    BY <1>0
  <2>2. \A k \in DOMAIN t : k = 1 \/ (k - 1 \in DOMAIN s /\ t[k] = s[k - 1] /\ t[k] # x)
    BY <1>0, <1>2, <2>1 DEF ToSet
  <2> QED BY <1>0, <1>2, <2>2 DEF Once
<1> QED BY <1>0, <1>1, <1>2 DEF t

(* The first element taken off a list. *)
LEMMA TailFacts ==
  ASSUME NEW S, NEW s \in Seq(S), s # <<>>
  PROVE  /\ Head(s) \in S /\ Tail(s) \in Seq(S)
         /\ Head(s) \in ToSet(s) /\ Head(s) = s[1]
         /\ ToSet(Tail(s)) \subseteq ToSet(s)
         /\ ToSet(s) \subseteq ToSet(Tail(s)) \cup {Head(s)}
         /\ Once(s) => Once(Tail(s)) /\ Head(s) \notin ToSet(Tail(s))
<1>0. Tail(s) \in Seq(S) /\ Head(s) = s[1] /\ 1 \in DOMAIN s /\ Head(s) \in S
      /\ DOMAIN s = 1..Len(s) /\ Len(s) \in Nat
      /\ DOMAIN Tail(s) = 1..(Len(s) - 1) /\ \A i \in 1..(Len(s) - 1) : Tail(s)[i] = s[i + 1]
  OBVIOUS
<1>1. \A i \in DOMAIN Tail(s) : i + 1 \in DOMAIN s /\ Tail(s)[i] = s[i + 1]
  BY <1>0
<1>2. Head(s) \in ToSet(s)
  BY <1>0 DEF ToSet
<1>3. ToSet(Tail(s)) \subseteq ToSet(s)
  BY <1>1 DEF ToSet
<1>4. ASSUME NEW y \in ToSet(s) PROVE y \in ToSet(Tail(s)) \cup {Head(s)}
  <2>1. PICK i \in DOMAIN s : y = s[i]
    BY DEF ToSet
  <2>2. i = 1 \/ (i - 1 \in 1..(Len(s) - 1) /\ Tail(s)[i - 1] = s[(i - 1) + 1])
    BY <1>0
  <2>3. i = 1 \/ (i - 1 \in DOMAIN Tail(s) /\ Tail(s)[i - 1] = s[i])
    BY <1>0, <2>2
  <2> QED BY <1>0, <2>1, <2>3 DEF ToSet
<1>5. ASSUME Once(s) PROVE Once(Tail(s)) /\ Head(s) \notin ToSet(Tail(s))
  <2>1. Once(Tail(s))
    BY <1>0, <1>1, <1>5 DEF Once
  <2>2. \A i \in DOMAIN Tail(s) : Tail(s)[i] # Head(s)
    BY <1>0, <1>1, <1>5 DEF Once
  <2> QED BY <2>1, <2>2 DEF ToSet
<1> QED BY <1>0, <1>2, <1>3, <1>4, <1>5

(* What Without leaves. *)
LEMMA WithoutFacts ==
  ASSUME NEW S, NEW list \in Seq(S), NEW gone
  PROVE  /\ Without(list, gone) \in Seq(S)
         /\ ToSet(Without(list, gone)) = ToSet(list) \ gone
         /\ Once(list) => Once(Without(list, gone))
<1>1. PICK K : /\ K[0] = <<>>
               /\ \A n \in 1..Len(list) :
                    K[n] = IF list[n] \in gone THEN K[n - 1] ELSE Append(K[n - 1], list[n])
               /\ Without(list, gone) = K[Len(list)]
  BY WithoutUnfolds
<1> DEFINE First(n) == {list[i] : i \in 1..n}
           Right(n) == /\ K[n] \in Seq(S)
                       /\ ToSet(K[n]) = First(n) \ gone
                       /\ Once(list) => Once(K[n])
           Good == {n \in 0..Len(list) : Right(n)}
<1>2. Len(list) \in Nat /\ DOMAIN list = 1..Len(list) /\ \A i \in 1..Len(list) : list[i] \in S
  OBVIOUS
<1>3. 0 \in Good
  <2>1. <<>> \in Seq(S) /\ ToSet(<<>>) = {} /\ Once(<<>>)
    BY DEF ToSet, Once
  <2>2. First(0) = {}
    OBVIOUS
  <2>3. Right(0)
    <3> HIDE DEF First
    <3> QED BY <1>1, <2>1, <2>2
  <2> HIDE DEF Right
  <2> QED BY <1>2, <2>3
<1>4. ASSUME NEW n \in 1..Len(list), n - 1 \in Good
      PROVE  n \in Good
  <2>1. Right(n - 1)
    <3> HIDE DEF Right
    <3> QED BY <1>4
  <2>2. First(n) = First(n - 1) \cup {list[n]}
    <3>1. 1..n = 1..(n - 1) \cup {n}
      BY <1>2
    <3> QED BY <3>1
  <2>3. list[n] \in S
    BY <1>2
  <2>4. K[n] = IF list[n] \in gone THEN K[n - 1] ELSE Append(K[n - 1], list[n])
    BY <1>1
  <2>5. Once(list) => list[n] \notin First(n - 1)
    <3>1. \A i \in 1..(n - 1) : i \in DOMAIN list /\ n \in DOMAIN list /\ i # n
      BY <1>2
    <3> QED BY <3>1 DEF Once
  <2> HIDE DEF First
  <2>6. Right(n)
    <3>1. CASE list[n] \in gone
      BY <2>1, <2>2, <2>4, <3>1
    <3>2. CASE list[n] \notin gone
      <4> DEFINE before == K[n - 1]
      <4>1. before \in Seq(S) /\ ToSet(before) = First(n - 1) \ gone
            /\ (Once(list) => Once(before)) /\ K[n] = Append(before, list[n])
        BY <2>1, <2>4, <3>2
      <4> HIDE DEF before
      <4>2. /\ Append(before, list[n]) \in Seq(S)
            /\ ToSet(Append(before, list[n])) = ToSet(before) \cup {list[n]}
            /\ Once(before) /\ list[n] \notin ToSet(before) => Once(Append(before, list[n]))
        BY <2>3, <4>1, AppendFacts
      <4>3. ToSet(K[n]) = First(n) \ gone
        BY <2>2, <3>2, <4>1, <4>2
      <4> QED BY <2>5, <4>1, <4>2, <4>3
    <3> QED BY <3>1, <3>2
  <2> HIDE DEF Right
  <2> QED BY <1>2, <2>6
<1>5. Right(Len(list))
  <2> HIDE DEF Right
  <2>1. \A n \in 1..Len(list) : n - 1 \in Good => n \in Good
    BY <1>4
  <2>2. Good \in SUBSET Nat
    BY <1>2
  <2>3. \A n \in 0..Len(list) : n \in Good
    <3> HIDE DEF Good
    <3> QED BY <1>2, <1>3, <2>1, <2>2, UpTo
  <2> QED BY <1>2, <2>3
<1>6. First(Len(list)) = ToSet(list)
  BY <1>2 DEF ToSet
<1> QED BY <1>1, <1>5, <1>6

(* A list is empty when it has no elements. *)
LEMMA EmptyList ==
  ASSUME NEW S, NEW s \in Seq(S)
  PROVE  s = <<>> <=> ToSet(s) = {}
<1>1. s = <<>> => ToSet(s) = {}
  BY DEF ToSet
<1>2. s # <<>> => s[1] \in ToSet(s)
  BY DEF ToSet
<1> QED BY <1>1, <1>2

(* The lists of no element and of one. *)
LEMMA SmallSetToSeq ==
  /\ SetToSeq({}) = <<>>
  /\ \A x : SetToSeq({x}) = <<x>>
<1>1. SetToSeq({}) = <<>>
  <2>1. Cardinality({}) = 0
    BY FS_EmptySet
  <2>2. \A f \in [1..0 -> {}] : f = <<>>
    OBVIOUS
  <2>3. <<>> \in [1..0 -> {}] /\ IsInjective(<<>>)
    BY DEF IsInjective
  <2> QED BY <2>1, <2>2, <2>3 DEF SetToSeq
<1>2. ASSUME NEW x PROVE SetToSeq({x}) = <<x>>
  <2>1. Cardinality({x}) = 1
    BY FS_Singleton
  <2>2. \A f \in [1..1 -> {x}] : f = <<x>>
    OBVIOUS
  <2>3. <<x>> \in [1..1 -> {x}] /\ IsInjective(<<x>>)
    BY DEF IsInjective
  <2> QED BY <2>1, <2>2, <2>3 DEF SetToSeq
<1> QED BY <1>1, <1>2
-----------------------------------------------------------------------------
(* Places in a list *)

(* An element put at the end is behind those that keep their places. *)
LEMMA AppendPlaces ==
  ASSUME NEW S, NEW s \in Seq(S), NEW x \in S
  PROVE  /\ Append(s, x) \in Seq(S)
         /\ Len(s) \in Nat /\ Len(Append(s, x)) = Len(s) + 1
         /\ DOMAIN s = 1..Len(s) /\ DOMAIN Append(s, x) = 1..(Len(s) + 1)
         /\ \A i \in 1..Len(s) : Append(s, x)[i] = s[i]
         /\ Append(s, x)[Len(s) + 1] = x
OBVIOUS

(* When the first is taken, the others move up. *)
LEMMA TailPlaces ==
  ASSUME NEW S, NEW s \in Seq(S), s # <<>>
  PROVE  /\ Tail(s) \in Seq(S) /\ s[1] \in S
         /\ Len(s) \in Nat /\ 1 \in 1..Len(s) /\ Len(Tail(s)) = Len(s) - 1
         /\ DOMAIN s = 1..Len(s) /\ DOMAIN Tail(s) = 1..(Len(s) - 1)
         /\ \A i \in 1..(Len(s) - 1) : Tail(s)[i] = s[i + 1]
<1>1. Len(s) \in Nat \ {0}
  OBVIOUS
<1> QED BY <1>1

(* Without keeps the order of what it leaves. *)
LEMMA WithoutOrder ==
  ASSUME NEW S, NEW list \in Seq(S), NEW gone
  PROVE  \A i, j \in DOMAIN Without(list, gone) : i < j =>
           \E a, b \in DOMAIN list :
             a < b /\ list[a] = Without(list, gone)[i] /\ list[b] = Without(list, gone)[j]
<1>1. PICK K : /\ K[0] = <<>>
               /\ \A n \in 1..Len(list) :
                    K[n] = IF list[n] \in gone THEN K[n - 1] ELSE Append(K[n - 1], list[n])
               /\ Without(list, gone) = K[Len(list)]
  BY WithoutUnfolds
<1> DEFINE From(n) == \A i \in DOMAIN K[n] : \E a \in 1..n : list[a] = K[n][i]
           Ordered(n) == \A i, j \in DOMAIN K[n] : i < j =>
                           \E a, b \in 1..n : a < b /\ list[a] = K[n][i] /\ list[b] = K[n][j]
           Right(n) == K[n] \in Seq(S) /\ From(n) /\ Ordered(n)
           Good == {n \in 0..Len(list) : Right(n)}
<1>2. Len(list) \in Nat /\ DOMAIN list = 1..Len(list) /\ \A i \in 1..Len(list) : list[i] \in S
  OBVIOUS
<1>3. 0 \in Good
  <2>1. <<>> \in Seq(S) /\ DOMAIN <<>> = {}
    OBVIOUS
  <2>2. Right(0)
    BY <1>1, <2>1
  <2> HIDE DEF Right
  <2> QED BY <1>2, <2>2
<1>4. ASSUME NEW n \in 1..Len(list), n - 1 \in Good
      PROVE  n \in Good
  <2>1. Right(n - 1)
    <3> HIDE DEF Right
    <3> QED BY <1>4
  <2>2. list[n] \in S /\ 1..(n - 1) \subseteq 1..n /\ n \in 1..n
        /\ \A a \in 1..(n - 1) : a < n
    BY <1>2
  <2>3. K[n] = IF list[n] \in gone THEN K[n - 1] ELSE Append(K[n - 1], list[n])
    BY <1>1
  <2>4. Right(n)
    <3>1. CASE list[n] \in gone
      <4>1. K[n] = K[n - 1]
        BY <2>3, <3>1
      <4> QED BY <2>1, <2>2, <4>1
    <3>2. CASE list[n] \notin gone
      <4> DEFINE q == K[n - 1]
                 l == Len(q)
      <4>1. /\ q \in Seq(S) /\ K[n] = Append(q, list[n])
            /\ \A i \in DOMAIN q : \E a \in 1..(n - 1) : list[a] = q[i]
            /\ \A i, j \in DOMAIN q : i < j =>
                 \E a, b \in 1..(n - 1) : a < b /\ list[a] = q[i] /\ list[b] = q[j]
        BY <2>1, <2>3, <3>2
      <4> HIDE DEF q
      <4>2. /\ Append(q, list[n]) \in Seq(S) /\ l \in Nat
            /\ DOMAIN q = 1..l /\ DOMAIN Append(q, list[n]) = 1..(l + 1)
            /\ \A i \in 1..l : Append(q, list[n])[i] = q[i]
            /\ Append(q, list[n])[l + 1] = list[n]
        BY <2>2, <4>1, AppendPlaces
      <4>3. /\ K[n] \in Seq(S) /\ DOMAIN K[n] = 1..(l + 1)
            /\ \A i \in DOMAIN q : K[n][i] = q[i]
            /\ K[n][l + 1] = list[n]
        BY <4>1, <4>2
      <4>4. /\ \A i \in DOMAIN K[n] : i \in DOMAIN q \/ i = l + 1
            /\ \A i, j \in DOMAIN K[n] : i < j => i \in DOMAIN q /\ (j \in DOMAIN q \/ j = l + 1)
        BY <4>2, <4>3
      <4>5. ASSUME NEW i \in DOMAIN K[n]
            PROVE  \E a \in 1..n : list[a] = K[n][i]
        <5>1. CASE i \in DOMAIN q
          BY <2>2, <4>1, <4>3, <5>1
        <5>2. CASE i = l + 1
          BY <2>2, <4>3, <5>2
        <5> QED BY <4>4, <5>1, <5>2
      <4>6. ASSUME NEW i \in DOMAIN K[n], NEW j \in DOMAIN K[n], i < j
            PROVE  \E a, b \in 1..n : a < b /\ list[a] = K[n][i] /\ list[b] = K[n][j]
        <5>1. CASE j \in DOMAIN q
          BY <2>2, <4>1, <4>3, <4>4, <4>6, <5>1
        <5>2. CASE j = l + 1
          <6>1. PICK a \in 1..(n - 1) : list[a] = q[i]
            BY <4>1, <4>4, <4>6
          <6>2. a \in 1..n /\ a < n /\ list[a] = K[n][i] /\ list[n] = K[n][j]
            BY <2>2, <4>3, <4>4, <4>6, <5>2, <6>1
          <6> QED BY <2>2, <6>2
        <5> QED BY <4>4, <4>6, <5>1, <5>2
      <4> QED BY <4>3, <4>5, <4>6
    <3> QED BY <3>1, <3>2
  <2> HIDE DEF Right
  <2> QED BY <1>2, <2>4
<1>5. Right(Len(list))
  <2> HIDE DEF Right
  <2>1. \A n \in 1..Len(list) : n - 1 \in Good => n \in Good
    BY <1>4
  <2>2. Good \in SUBSET Nat
    BY <1>2
  <2>3. \A n \in 0..Len(list) : n \in Good
    <3> HIDE DEF Good
    <3> QED BY <1>2, <1>3, <2>1, <2>2, UpTo
  <2> QED BY <1>2, <2>3
<1> DEFINE w == Without(list, gone)
<1>6. w = K[Len(list)]
  BY <1>1
<1> HIDE DEF w
<1>7. \A i, j \in DOMAIN w : i < j =>
        \E a, b \in 1..Len(list) : a < b /\ list[a] = w[i] /\ list[b] = w[j]
  BY <1>5, <1>6
<1> QED BY <1>2, <1>7 DEF w

-----------------------------------------------------------------------------
(* A list that is in two places, the first part p and the rest t. *)

(* Taking from the first part takes from the whole. *)
LEMMA TakeFromJoined ==
  ASSUME NEW S, NEW p \in Seq(S), NEW t \in Seq(S), p # <<>>
  PROVE  /\ Tail(p) \in Seq(S)
         /\ Tail(p) \o t = Tail(p \o t)
         /\ p \o t # <<>>
         /\ (p \o t)[1] = p[1]
<1>1. Len(p) \in Nat \ {0} /\ Len(t) \in Nat
  OBVIOUS
<1>2. Tail(p) \in Seq(S) /\ Len(Tail(p)) = Len(p) - 1
  BY <1>1
<1>3. p \o t \in Seq(S) /\ Len(p \o t) = Len(p) + Len(t)
  OBVIOUS
<1>4. p \o t # <<>> /\ (p \o t)[1] = p[1]
  BY <1>1, <1>3
<1>5. Tail(p \o t) \in Seq(S) /\ Len(Tail(p \o t)) = Len(p) + Len(t) - 1
  BY <1>1, <1>3
<1>6. Tail(p) \o t \in Seq(S) /\ Len(Tail(p) \o t) = Len(p) + Len(t) - 1
  BY <1>1, <1>2
<1>7. \A i \in 1..(Len(p) + Len(t) - 1) : (Tail(p) \o t)[i] = Tail(p \o t)[i]
  BY <1>1, <1>2, <1>3
<1>8. Tail(p) \o t = Tail(p \o t)
  BY <1>1, <1>5, <1>6, <1>7, SeqEqual
<1> QED BY <1>2, <1>4, <1>8

(* Putting something behind the rest puts it behind the whole. *)
LEMMA PutBehindJoined ==
  ASSUME NEW S, NEW p \in Seq(S), NEW t \in Seq(S), NEW x \in S
  PROVE  p \o Append(t, x) = Append(p \o t, x)
<1>1. Len(p) \in Nat /\ Len(t) \in Nat
  OBVIOUS
<1>2. /\ p \o Append(t, x) \in Seq(S)
      /\ Len(p \o Append(t, x)) = Len(p) + Len(t) + 1
  OBVIOUS
<1>3. /\ Append(p \o t, x) \in Seq(S)
      /\ Len(Append(p \o t, x)) = Len(p) + Len(t) + 1
  OBVIOUS
<1>4. \A i \in 1..(Len(p) + Len(t) + 1) : (p \o Append(t, x))[i] = Append(p \o t, x)[i]
  BY <1>1
<1> QED BY <1>1, <1>2, <1>3, <1>4, SeqEqual

(* A list that is cut in two is the same list. *)
LEMMA CutInTwo ==
  ASSUME NEW S, NEW s \in Seq(S), NEW k \in 1..Len(s)
  PROVE  /\ SubSeq(s, 1, k) \in Seq(S)
         /\ SubSeq(s, k + 1, Len(s)) \in Seq(S)
         /\ SubSeq(s, 1, k) \o SubSeq(s, k + 1, Len(s)) = s
<1>1. Len(s) \in Nat /\ k \in Nat
  OBVIOUS
<1>2. SubSeq(s, 1, k) \in Seq(S) /\ Len(SubSeq(s, 1, k)) = k
  BY <1>1
<1>3. SubSeq(s, k + 1, Len(s)) \in Seq(S) /\ Len(SubSeq(s, k + 1, Len(s))) = Len(s) - k
  BY <1>1
<1> DEFINE w == SubSeq(s, 1, k) \o SubSeq(s, k + 1, Len(s))
<1>4. w \in Seq(S) /\ Len(w) = Len(s)
  BY <1>1, <1>2, <1>3
<1>5. \A i \in 1..Len(s) : w[i] = s[i]
  BY <1>1, <1>2, <1>3
<1> HIDE DEF w
<1>6. w = s
  BY <1>1, <1>4, <1>5, SeqEqual
<1> QED BY <1>2, <1>3, <1>6 DEF w

-----------------------------------------------------------------------------
(* Lists one behind the other *)

(* Two lists one behind the other. *)
LEMMA JoinFacts ==
  ASSUME NEW S, NEW s \in Seq(S), NEW t \in Seq(S)
  PROVE  /\ s \o t \in Seq(S)
         /\ ToSet(s \o t) = ToSet(s) \cup ToSet(t)
         /\ Once(s) /\ Once(t) /\ ToSet(s) \cap ToSet(t) = {} => Once(s \o t)
<1> DEFINE m == Len(s)
           n == Len(t)
           j == s \o t
<1>1. m \in Nat /\ n \in Nat /\ DOMAIN s = 1..m /\ DOMAIN t = 1..n
  OBVIOUS
<1>2. /\ j \in Seq(S) /\ Len(j) = m + n /\ DOMAIN j = 1..(m + n)
      /\ \A i \in 1..(m + n) : j[i] = IF i <= m THEN s[i] ELSE t[i - m]
  BY <1>1
<1> HIDE DEF m, n, j
<1>3. ToSet(j) \subseteq ToSet(s) \cup ToSet(t)
  <2> SUFFICES ASSUME NEW i \in 1..(m + n) PROVE j[i] \in ToSet(s) \cup ToSet(t)
    BY <1>2 DEF ToSet
  <2>1. i <= m => i \in DOMAIN s /\ j[i] = s[i]
    BY <1>1, <1>2
  <2>2. ~(i <= m) => i - m \in DOMAIN t /\ j[i] = t[i - m]
    BY <1>1, <1>2
  <2> QED BY <2>1, <2>2 DEF ToSet
<1>4. \A i \in 1..m : i \in 1..(m + n) /\ j[i] = s[i]
  BY <1>1, <1>2
<1>5. \A i \in 1..n : i + m \in 1..(m + n) /\ j[i + m] = t[i]
  BY <1>1, <1>2
<1>6. ToSet(s) \cup ToSet(t) \subseteq ToSet(j)
  <2>1. \A i \in 1..m : s[i] \in ToSet(j)
    BY <1>2, <1>4 DEF ToSet
  <2>2. \A i \in 1..n : t[i] \in ToSet(j)
    BY <1>2, <1>5 DEF ToSet
  <2> QED BY <1>1, <2>1, <2>2 DEF ToSet
<1>7. ASSUME Once(s), Once(t), ToSet(s) \cap ToSet(t) = {}
      PROVE  Once(j)
  <2> SUFFICES ASSUME NEW i \in 1..(m + n), NEW k \in 1..(m + n), j[i] = j[k] PROVE i = k
    BY <1>2 DEF Once
  <2>1. CASE i <= m /\ k <= m
    <3>1. i \in DOMAIN s /\ k \in DOMAIN s /\ s[i] = s[k]
      BY <1>1, <1>2, <2>1
    <3> QED BY <1>7, <3>1 DEF Once
  <2>2. CASE ~(i <= m) /\ ~(k <= m)
    <3>1. i - m \in DOMAIN t /\ k - m \in DOMAIN t /\ t[i - m] = t[k - m]
      BY <1>1, <1>2, <2>2
    <3>2. i - m = k - m
      BY <1>7, <3>1 DEF Once
    <3> QED BY <1>1, <3>2
  <2>3. CASE i <= m /\ ~(k <= m)
    <3>1. i \in DOMAIN s /\ k - m \in DOMAIN t /\ s[i] = t[k - m]
      BY <1>1, <1>2, <2>3
    <3> QED BY <1>7, <3>1 DEF ToSet
  <2>4. CASE ~(i <= m) /\ k <= m
    <3>1. k \in DOMAIN s /\ i - m \in DOMAIN t /\ s[k] = t[i - m]
      BY <1>1, <1>2, <2>4
    <3> QED BY <1>7, <3>1 DEF ToSet
  <2> QED BY <2>1, <2>2, <2>3, <2>4
<1> QED BY <1>2, <1>3, <1>6, <1>7 DEF j

(* The recursion of FlattenSeq: the function that it defines exists. *)
LEMMA FlattenUnfolds ==
  ASSUME NEW S, NEW ss \in Seq(Seq(S))
  PROVE  \E K \in [0..Len(ss) -> Seq(S)] :
           /\ K[0] = <<>>
           /\ \A n \in 1..Len(ss) : K[n] = K[n - 1] \o ss[n]
           /\ FlattenSeq(ss) = K[Len(ss)]
<1> DEFINE n == Len(ss)
           Step(g, i) == IF i = 1 THEN ss[i] ELSE g[i - 1] \o ss[i]
           Fits(g) == g = [i \in 1..n |-> Step(g, i)]
           G == CHOOSE g : Fits(g)
<1>1. n \in Nat /\ \A i \in 1..n : ss[i] \in Seq(S)
  <2> DEFINE T == Seq(S)
  <2>1. ss \in Seq(T)
    OBVIOUS
  <2> HIDE DEF T
  <2>2. n \in Nat /\ \A i \in 1..n : ss[i] \in T
    BY <2>1
  <2> QED BY <2>2 DEF T
<1> HIDE DEF n
<1>2. PICK K \in [0..n -> Seq(S)] : K[0] = <<>> /\ \A i \in 1..n : K[i] = K[i - 1] \o ss[i]
  <2> DEFINE T == Seq(S)
             F == [i \in 1..n |-> [x \in T |-> x \o ss[i]]]
             none == <<>>
  <2>1. <<>> \in T /\ \A x \in T, i \in 1..n : x \o ss[i] \in T
    BY <1>1
  <2> HIDE DEF T
  <2>2. F \in [1..n -> [T -> T]]
    BY <2>1
  <2> HIDE DEF F
  <2>3. none \in T /\ n \in Nat
    BY <1>1, <2>1
  <2> HIDE DEF none
  <2>4. \E K \in [0..n -> T] : K[0] = none /\ \A i \in 1..n : K[i] = F[i][K[i - 1]]
    BY <2>2, <2>3, RecursionExists, SMTT(60)
  <2>5. PICK K \in [0..n -> T] : K[0] = none /\ \A i \in 1..n : K[i] = F[i][K[i - 1]]
    BY <2>4
  <2>6. \A i \in 1..n : K[i - 1] \in T
    BY <1>1
  <2>7. \A i \in 1..n : K[i] = K[i - 1] \o ss[i]
    BY <2>5, <2>6 DEF F
  <2> QED BY <2>5, <2>7 DEF T, none
<1>3. CASE n = 0
  <2>1. FlattenSeq(ss) = ss
    BY <1>3 DEF FlattenSeq, n
  <2>2. ss = <<>>
    BY <1>3 DEF n
  <2> QED BY <1>2, <1>3, <2>1, <2>2 DEF n
<1>4. CASE n # 0
  <2>0. 1 \in 1..n /\ K[1] = K[0] \o ss[1]
    <3>1. 1 \in 1..n /\ 1 - 1 = 0
      BY <1>1, <1>4
    <3> QED BY <1>2, <3>1
  <2>1. FlattenSeq(ss) = G[n]
    BY <1>4, Zenon DEF FlattenSeq, n
  <2>2. \E g : Fits(g)
    <3> DEFINE g == [i \in 1..n |-> K[i]]
    <3>1. \A i \in 1..n : g[i] = Step(g, i)
      <4> TAKE i \in 1..n
      <4>1. CASE i = 1
        <5>1. K[1] = K[0] \o ss[1] /\ ss[1] \in Seq(S)
          BY <1>1, <4>1, <2>0
        <5> QED BY <1>2, <4>1, <5>1
      <4>2. CASE i # 1
        <5>1. i - 1 \in 1..n
          BY <1>1, <4>2
        <5> QED BY <1>2, <4>2, <5>1
      <4> QED BY <4>1, <4>2
    <3>2. Fits(g)
      BY <3>1
    <3> HIDE DEF g, Fits
    <3> QED BY <3>2
  <2>3. Fits(G)
    BY <2>2
  <2> HIDE DEF G
  <2>4. \A i \in 1..n : G[i] = IF i = 1 THEN ss[i] ELSE G[i - 1] \o ss[i]
    BY <2>3
  <2> DEFINE Good == {k \in Nat : k \in 1..n => G[k] = K[k]}
  <2>5. 0 \in Good
    OBVIOUS
  <2>6. ASSUME NEW k \in 1..n, k - 1 \in Good PROVE k \in Good
    <3>1. CASE k = 1
      <4>1. K[1] = K[0] \o ss[1] /\ ss[1] \in Seq(S)
        BY <1>1, <3>1, <2>0
      <4>2. G[1] = ss[1]
        BY <2>4, <3>1
      <4> QED BY <1>2, <3>1, <4>1, <4>2
    <3>2. CASE k # 1
      <4>1. k - 1 \in 1..n /\ G[k - 1] = K[k - 1]
        BY <1>1, <2>6, <3>2
      <4>2. G[k] = G[k - 1] \o ss[k]
        BY <2>4, <3>2
      <4>3. K[k] = K[k - 1] \o ss[k]
        BY <1>2
      <4>4. G[k] = K[k] /\ k \in Nat
        BY <4>1, <4>2, <4>3
      <4> QED BY <4>4
    <3> QED BY <3>1, <3>2
  <2>7. n \in Good
    <3>1. Good \in SUBSET Nat /\ \A k \in 1..n : k - 1 \in Good => k \in Good
      BY <2>6
    <3> HIDE DEF Good
    <3>2. \A k \in 0..n : k \in Good
      BY <1>1, <2>5, <3>1, UpTo
    <3> QED BY <1>1, <3>2
  <2>8. G[n] = K[n]
    BY <1>1, <1>4, <2>7
  <2> QED BY <1>2, <2>1, <2>8 DEF n
<1> QED BY <1>3, <1>4

(* The elements of lists one behind the other. *)
LEMMA FlattenFacts ==
  ASSUME NEW S, NEW ss \in Seq(Seq(S))
  PROVE  /\ FlattenSeq(ss) \in Seq(S)
         /\ \A x : x \in ToSet(FlattenSeq(ss)) <=> \E i \in 1..Len(ss) : x \in ToSet(ss[i])
         /\ /\ \A i \in 1..Len(ss) : Once(ss[i])
            /\ \A i, j \in 1..Len(ss) : i # j => ToSet(ss[i]) \cap ToSet(ss[j]) = {}
            => Once(FlattenSeq(ss))
<1> DEFINE n == Len(ss)
           apart == /\ \A i \in 1..n : Once(ss[i])
                    /\ \A i, j \in 1..n : i # j => ToSet(ss[i]) \cap ToSet(ss[j]) = {}
<1>1. PICK K \in [0..n -> Seq(S)] :
        /\ K[0] = <<>>
        /\ \A i \in 1..n : K[i] = K[i - 1] \o ss[i]
        /\ FlattenSeq(ss) = K[n]
  BY FlattenUnfolds
<1>2. n \in Nat /\ \A i \in 1..n : ss[i] \in Seq(S)
  <2> DEFINE T == Seq(S)
  <2>1. ss \in Seq(T)
    OBVIOUS
  <2> HIDE DEF T
  <2>2. n \in Nat /\ \A i \in 1..n : ss[i] \in T
    BY <2>1
  <2> QED BY <2>2 DEF T
<1> HIDE DEF n
<1> DEFINE Has(k) == \A x : x \in ToSet(K[k]) <=> \E i \in 1..k : x \in ToSet(ss[i])
           Good == {k \in Nat : k \in 0..n => Has(k) /\ (apart => Once(K[k]))}
<1>3. 0 \in Good
  <2>1. ToSet(<<>>) = {} /\ Once(<<>>)
    BY DEF ToSet, Once
  <2> QED BY <1>1, <2>1
<1>4. ASSUME NEW k \in 1..n, k - 1 \in Good PROVE k \in Good
  <2>1. k - 1 \in 0..n /\ Has(k - 1) /\ (apart => Once(K[k - 1]))
    <3> HIDE DEF Has, apart
    <3> QED BY <1>2, <1>4
  <2>2. K[k] = K[k - 1] \o ss[k] /\ K[k - 1] \in Seq(S) /\ ss[k] \in Seq(S)
    BY <1>1, <1>2, <2>1
  <2>3. ToSet(K[k]) = ToSet(K[k - 1]) \cup ToSet(ss[k])
    BY <2>2, JoinFacts
  <2>4. \A i : i \in 1..k <=> i \in 1..(k - 1) \/ i = k
    BY <1>2
  <2>5. Has(k)
    BY <2>1, <2>3, <2>4
  <2>6. ASSUME apart PROVE Once(K[k])
    <3>1. ToSet(K[k - 1]) \cap ToSet(ss[k]) = {}
      <4> SUFFICES ASSUME NEW x \in ToSet(K[k - 1]), x \in ToSet(ss[k]) PROVE FALSE
        OBVIOUS
      <4>1. PICK i \in 1..(k - 1) : x \in ToSet(ss[i])
        BY <2>1
      <4>2. i \in 1..n /\ i # k
        BY <1>2
      <4> QED BY <2>6, <4>1, <4>2
    <3>2. Once(K[k - 1]) /\ Once(ss[k])
      BY <2>1, <2>6
    <3> QED BY <2>2, <3>1, <3>2, JoinFacts
  <2> HIDE DEF Has, apart
  <2> QED BY <2>5, <2>6
<1>5. n \in Good
  <2>1. Good \in SUBSET Nat /\ \A k \in 1..n : k - 1 \in Good => k \in Good
    BY <1>4
  <2> HIDE DEF Good
  <2>2. \A k \in 0..n : k \in Good
    BY <1>2, <1>3, <2>1, UpTo
  <2> QED BY <1>2, <2>2
<1>6. Has(n) /\ (apart => Once(K[n]))
  <2> HIDE DEF Has, apart
  <2> QED BY <1>2, <1>5
<1>7. K[n] \in Seq(S)
  BY <1>1, <1>2
<1> QED BY <1>1, <1>6, <1>7 DEF n

(* One more list at the end. *)
LEMMA FlattenAppend ==
  ASSUME NEW S, NEW ss \in Seq(Seq(S)), NEW s \in Seq(S)
  PROVE  FlattenSeq(Append(ss, s)) = FlattenSeq(ss) \o s
<1> DEFINE n == Len(ss)
           tt == Append(ss, s)
<1>1. n \in Nat /\ tt \in Seq(Seq(S)) /\ Len(tt) = n + 1 /\ tt[n + 1] = s /\ \A i \in 1..n : tt[i] = ss[i]
  <2> DEFINE T == Seq(S)
  <2>1. ss \in Seq(T) /\ s \in T
    OBVIOUS
  <2> HIDE DEF T
  <2>2. n \in Nat /\ tt \in Seq(T) /\ Len(tt) = n + 1 /\ tt[n + 1] = s /\ \A i \in 1..n : tt[i] = ss[i]
    BY <2>1, AppendPlaces
  <2> QED BY <2>2 DEF T
<1>2. PICK K \in [0..n -> Seq(S)] :
        K[0] = <<>> /\ (\A i \in 1..n : K[i] = K[i - 1] \o ss[i]) /\ FlattenSeq(ss) = K[n]
  BY FlattenUnfolds
<1> HIDE DEF n, tt
<1>3. PICK L \in [0..(n + 1) -> Seq(S)] :
        L[0] = <<>> /\ (\A i \in 1..(n + 1) : L[i] = L[i - 1] \o tt[i]) /\ FlattenSeq(tt) = L[n + 1]
  <2>1. \E L \in [0..Len(tt) -> Seq(S)] :
          L[0] = <<>> /\ (\A i \in 1..Len(tt) : L[i] = L[i - 1] \o tt[i]) /\ FlattenSeq(tt) = L[Len(tt)]
    BY <1>1, FlattenUnfolds
  <2> QED BY <1>1, <2>1
<1> DEFINE Good == {k \in Nat : k \in 0..n => L[k] = K[k]}
<1>4. 0 \in Good
  BY <1>2, <1>3
<1>5. ASSUME NEW k \in 1..n, k - 1 \in Good PROVE k \in Good
  <2>1. L[k - 1] = K[k - 1] /\ k \in 1..(n + 1) /\ tt[k] = ss[k] /\ k \in Nat
    BY <1>1, <1>5
  <2>2. L[k] = L[k - 1] \o tt[k] /\ K[k] = K[k - 1] \o ss[k]
    BY <1>2, <1>3, <2>1
  <2>3. L[k] = K[k]
    BY <2>1, <2>2
  <2> QED BY <2>1, <2>3
<1>6. n \in Good
  <2>1. Good \in SUBSET Nat /\ \A k \in 1..n : k - 1 \in Good => k \in Good
    BY <1>5
  <2> HIDE DEF Good
  <2>2. \A k \in 0..n : k \in Good
    BY <1>1, <1>4, <2>1, UpTo
  <2> QED BY <1>1, <2>2
<1>7. L[n] = K[n]
  BY <1>1, <1>6
<1>8. n + 1 \in 1..(n + 1) /\ (n + 1) - 1 = n
  BY <1>1
<1>9. L[n + 1] = L[n] \o tt[n + 1]
  BY <1>3, <1>8
<1> QED BY <1>1, <1>2, <1>3, <1>7, <1>9 DEF tt

(* Some places in a list have a last one. *)
LEMMA GreatestNumber ==
  ASSUME NEW n \in Nat, NEW T \in SUBSET (1..n), T # {}
  PROVE  \E m \in T : \A k \in T : k <= m
<1> DEFINE D == {n - k : k \in T}
<1>1. D \in SUBSET Nat /\ D # {}
  OBVIOUS
<1>2. PICK d \in D : \A e \in D : d <= e
  <2> HIDE DEF D
  <2> QED BY <1>1, LeastNumber
<1>3. PICK m \in T : d = n - m
  OBVIOUS
<1>4. \A k \in T : n - m <= n - k
  BY <1>2, <1>3
<1>5. \A k \in T : k <= m
  BY <1>4
<1> QED BY <1>5

(* The first occurrence of an element is taken out of a list. *)
LEMMA RemoveFirstFacts ==
  ASSUME NEW S, NEW s \in Seq(S), NEW e
  PROVE  LET t == RemoveFirst(s, e)
         IN  /\ t \in Seq(S) /\ Len(t) <= Len(s)
             /\ ToSet(t) \subseteq ToSet(s) /\ ToSet(s) \subseteq ToSet(t) \cup {e}
             /\ Once(s) => Once(t) /\ e \notin ToSet(t)
<1> DEFINE t == RemoveFirst(s, e)
           n == Len(s)
           at == {i \in 1..n : s[i] = e}
           k == Min(at)
<1>1. n \in Nat /\ DOMAIN s = 1..n
  OBVIOUS
<1>2. CASE at = {}
  <2>1. t = s
    BY <1>2 DEF RemoveFirst
  <2>2. e \notin ToSet(s)
    BY <1>2 DEF ToSet
  <2> HIDE DEF t
  <2> QED BY <2>1, <2>2 DEF t
<1>3. CASE at # {}
  <2>1. at \in SUBSET Nat
    BY <1>1
  <2>2. k \in at
    <3> HIDE DEF at
    <3>1. \E i \in at : \A j \in at : i <= j
      BY <1>3, <2>1, LeastNumber
    <3> QED BY <3>1 DEF Min
  <2>3. t = RemoveAt(s, k)
    BY <1>3 DEF RemoveFirst, SelectInSeq
  <2> HIDE DEF k, t
  <2>4. k \in 1..n /\ s[k] = e
    BY <2>2
  <2> DEFINE a == SubSeq(s, 1, k - 1)
             b == SubSeq(s, k + 1, n)
  <2>5. a \in Seq(S) /\ Len(a) = k - 1 /\ \A i \in 1..(k - 1) : a[i] = s[i]
    <3>1. 1 \in Int /\ k - 1 \in Int /\ \A i \in 1..(k - 1) : s[i] \in S
      BY <1>1, <2>4
    <3>2. /\ a \in Seq(S) /\ Len(a) = IF 1 <= k - 1 THEN k - 1 - 1 + 1 ELSE 0
          /\ \A i \in 1..(k - 1 - 1 + 1) : a[i] = s[1 + i - 1]
      BY <3>1, SubSeqProperties
    <3> QED BY <2>4, <3>2
  <2>6. b \in Seq(S) /\ Len(b) = n - k /\ \A i \in 1..(n - k) : b[i] = s[i + k]
    <3>1. k + 1 \in Int /\ n \in Int /\ \A i \in (k + 1)..n : s[i] \in S
      BY <1>1, <2>4
    <3>2. /\ b \in Seq(S) /\ Len(b) = IF k + 1 <= n THEN n - (k + 1) + 1 ELSE 0
          /\ \A i \in 1..(n - (k + 1) + 1) : b[i] = s[(k + 1) + i - 1]
      BY <3>1, SubSeqProperties
    <3> QED BY <1>1, <2>4, <3>2
  <2>7. t = a \o b
    BY <2>3 DEF RemoveAt
  <2> HIDE DEF a, b
  <2>8. /\ t \in Seq(S) /\ Len(t) = n - 1 /\ DOMAIN t = 1..(n - 1)
        /\ \A i \in 1..(n - 1) : t[i] = IF i < k THEN s[i] ELSE s[i + 1]
    <3>1. t \in Seq(S) /\ Len(t) = Len(a) + Len(b)
      BY <2>5, <2>6, <2>7, ConcatProperties
    <3>2. \A i \in 1..(Len(a) + Len(b)) : t[i] = IF i <= Len(a) THEN a[i] ELSE b[i - Len(a)]
      BY <2>5, <2>6, <2>7, ConcatProperties
    <3>3. Len(t) = n - 1 /\ DOMAIN t = 1..(n - 1)
      BY <1>1, <2>4, <2>5, <2>6, <3>1
    <3>4. ASSUME NEW i \in 1..(n - 1) PROVE t[i] = IF i < k THEN s[i] ELSE s[i + 1]
      <4>1. CASE i < k
        <5>1. i \in 1..(k - 1) /\ i <= Len(a) /\ i \in 1..(Len(a) + Len(b))
          BY <1>1, <2>4, <2>5, <2>6, <4>1
        <5> QED BY <2>5, <3>2, <4>1, <5>1
      <4>2. CASE ~(i < k)
        <5>1. i - (k - 1) \in 1..(n - k) /\ ~(i <= Len(a)) /\ i \in 1..(Len(a) + Len(b)) /\ i - (k - 1) + k = i + 1
          BY <1>1, <2>4, <2>5, <2>6, <4>2
        <5>2. t[i] = b[i - (k - 1)]
          BY <2>5, <3>2, <5>1
        <5>3. b[i - (k - 1)] = s[i - (k - 1) + k]
          BY <2>6, <5>1
        <5> QED BY <4>2, <5>1, <5>2, <5>3
      <4> QED BY <4>1, <4>2
    <3> QED BY <3>1, <3>3, <3>4
  <2>9. ToSet(t) \subseteq ToSet(s)
    <3> SUFFICES ASSUME NEW i \in 1..(n - 1) PROVE t[i] \in ToSet(s)
      BY <2>8 DEF ToSet
    <3>1. i \in 1..n /\ i + 1 \in 1..n
      BY <1>1
    <3> QED BY <1>1, <2>8, <3>1 DEF ToSet
  <2>10. ToSet(s) \subseteq ToSet(t) \cup {e}
    <3> SUFFICES ASSUME NEW i \in 1..n, s[i] # e PROVE s[i] \in ToSet(t)
      BY <1>1 DEF ToSet
    <3>1. i # k
      BY <2>4
    <3>2. CASE i < k
      <4>1. i \in 1..(n - 1) /\ t[i] = s[i]
        BY <1>1, <2>4, <2>8, <3>2
      <4> QED BY <2>8, <4>1 DEF ToSet
    <3>3. CASE ~(i < k)
      <4>1. i - 1 \in 1..(n - 1) /\ ~(i - 1 < k) /\ (i - 1) + 1 = i
        BY <1>1, <2>4, <3>1, <3>3
      <4>2. t[i - 1] = s[i]
        BY <2>8, <4>1
      <4> QED BY <2>8, <4>1, <4>2 DEF ToSet
    <3> QED BY <3>2, <3>3
  <2>11. ASSUME Once(s) PROVE Once(t) /\ e \notin ToSet(t)
    <3> DEFINE P(i) == IF i < k THEN i ELSE i + 1
    <3>1. \A i \in 1..(n - 1) : P(i) \in DOMAIN s /\ t[i] = s[P(i)] /\ P(i) # k
      BY <1>1, <2>4, <2>8
    <3>2. \A i, j \in 1..(n - 1) : P(i) = P(j) => i = j
      BY <1>1, <2>4
    <3>3. \A i \in 1..(n - 1) : t[i] # e
      <4> HIDE DEF P
      <4> QED BY <1>1, <2>4, <2>11, <3>1 DEF Once
    <3>4. \A i, j \in 1..(n - 1) : t[i] = t[j] => i = j
      <4> HIDE DEF P
      <4> QED BY <2>11, <3>1, <3>2 DEF Once
    <3> QED BY <2>8, <3>3, <3>4 DEF Once, ToSet
  <2>12. Len(t) <= Len(s)
    BY <1>1, <2>8 DEF n
  <2> QED BY <2>8, <2>9, <2>10, <2>11, <2>12 DEF t
<1> QED BY <1>2, <1>3

(* Where the elements of two lists, one behind the other, are. *)
LEMMA JoinPlaces ==
  ASSUME NEW S, NEW s \in Seq(S), NEW t \in Seq(S)
  PROVE  /\ s \o t \in Seq(S) /\ Len(s \o t) = Len(s) + Len(t)
         /\ \A i \in 1..(Len(s) + Len(t)) : (s \o t)[i] = IF i <= Len(s) THEN s[i] ELSE t[i - Len(s)]
OBVIOUS

(* A list without its last element. *)
LEMMA FrontPlaces ==
  ASSUME NEW S, NEW s \in Seq(S), s # <<>>
  PROVE  Front(s) \in Seq(S) /\ Len(Front(s)) = Len(s) - 1 /\ \A i \in 1..(Len(s) - 1) : Front(s)[i] = s[i]
<1>1. Len(s) \in Nat /\ Len(s) # 0
  OBVIOUS
<1>2. Len(s) - 1 \in Nat /\ Len(s) - 1 <= Len(s)
  BY <1>1
<1> DEFINE n == Len(s) - 1
<1> HIDE DEF n
<1>3. n \in Nat /\ n <= Len(s)
  BY <1>2 DEF n
<1>4. LET t == SubSeq(s, 1, n)
      IN  t \in Seq(S) /\ Len(t) = n /\ \A i \in 1..n : t[i] = s[i]
  BY <1>1, <1>3
<1>5. Front(s) = SubSeq(s, 1, n)
  BY DEF Front, n
<1> QED BY <1>4, <1>5 DEF n

(* The least of some numbers. *)
LEMMA MinIs ==
  ASSUME NEW T \in SUBSET Nat, T # {}
  PROVE  Min(T) \in T /\ \A k \in T : Min(T) <= k
<1>1. \E x \in T : \A y \in T : x =< y
  BY LeastNumber
<1> QED BY <1>1, Zenon DEF Min

(* The greatest of some places. *)
LEMMA MaxIs ==
  ASSUME NEW n \in Nat, NEW T \in SUBSET (1..n), NEW m \in T, \A k \in T : k <= m
  PROVE  Max(T) = m
<1>1. \A x \in T : x \in Int
  OBVIOUS
<1>2. m \in T /\ \A y \in T : m >= y
  BY <1>1
<1>3. Max(T) \in T /\ \A y \in T : Max(T) >= y
  BY <1>2, Zenon DEF Max
<1> DEFINE g == Max(T)
<1>4. g \in T /\ g >= m
  BY <1>2, <1>3
<1> HIDE DEF g
<1>5. g = m
  BY <1>1, <1>2, <1>4
<1> QED BY <1>5 DEF g
=============================================================================
