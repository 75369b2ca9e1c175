--------------------------- MODULE ServiceProofs ---------------------------
(***************************************************************************)
(* Proofs about how a program on the client side finds a service           *)
(* (module ServiceLookup) and keeps track of those that it has registered  *)
(* (module StateTracker).  The two share no state: each has a section with *)
(* its inductive invariant, one lemma for each group of actions, and its   *)
(* theorems.                                                               *)
(***************************************************************************)
EXTENDS ServiceLookup, StateTracker, ListFacts

-----------------------------------------------------------------------------
(***************************************************************************)
(* The lookup of a service on the client side (module                      *)
(* ServiceLookup): for any number of owners, changes of owner, calls and   *)
(* signals, a call is registered in one place, the lookup ends up with the *)
(* owner, and a match by name takes just the signals of the owner.         *)
(*                                                                         *)
(* What the client will know is in the messages on their way to it.  The   *)
(* invariant follows the news about the owner, NameOwnerChanged and the    *)
(* reply of GetNameOwner: the last of them, or the unique name if there is *)
(* none, names the owner; and what is known when a signal is taken, the    *)
(* last news before it, decides whether its sender was the owner.          *)
(***************************************************************************)

(* The messages *)
AskRule == [kind |-> "AddMatch", rule |-> "owner"]
SignalRule == [kind |-> "AddMatch", rule |-> "signal"]
AskOwner == [kind |-> "GetNameOwner"]
ToService(s) == [kind |-> "Call", serial |-> s]

Requests == {AskRule, SignalRule, AskOwner} \cup {ToService(s) : s \in Serials}

Changes == [kind : {"changed"}, name : Owners \cup {Empty}]
Found == [kind : {"owner"}, name : Owners]
NotFound == [kind : {"noowner"}]
Answers == [kind : {"return", "error"}, serial : Serials, from : Owners]
Heard == [kind : {"signal"}, from : Owners, owned : BOOLEAN]

Messages == Changes \cup Found \cup NotFound \cup Answers \cup Heard

(* The types of the variables of the bus. *)
BusTypeOK ==
  /\ owner \in Owners \cup {None}
  /\ rules \subseteq {"owner", "signal"}
  /\ toBus \in Seq(Requests) /\ toClient \in Seq(Messages)
  /\ called \in [Owners -> SUBSET Serials]
  /\ lookup \in BOOLEAN /\ matching \in BOOLEAN

(* Before the lookup nothing has been sent. *)
NothingSent ==
  ~lookup => /\ toBus = <<>> /\ toClient = <<>> /\ rules = {}
             /\ \A x \in Owners : called[x] = {}

(* A call is registered for one remote, while it waits. *)
InOnePlace ==
  \A s \in Serials :
    /\ \A k, l \in Keys : s \in replies[k] /\ s \in replies[l] => k = l
    /\ calls[s] = "waiting" <=> \E k \in Keys : s \in replies[k]

(* What the bus is told comes in order: the rule for the owner, the question, and then
   the rule for signals. *)
InOrder ==
  /\ lookup /\ "owner" \notin rules =>
       /\ \E j \in DOMAIN toBus : toBus[j] = AskOwner
       /\ \A j \in DOMAIN toBus : toBus[j] = AskOwner => \E i \in 1..(j - 1) : toBus[i] = AskRule
  /\ \A i, j \in DOMAIN toBus : toBus[i] = SignalRule /\ toBus[j] = AskOwner => j < i
  /\ "signal" \in rules => lookup /\ \A j \in DOMAIN toBus : toBus[j] # AskOwner

(* News about the owner *)
News(m) == m.kind \in {"changed", "owner"}
NameOf(x) == IF x = None THEN Empty ELSE x

NoNews == \A i \in DOMAIN toClient : ~News(toClient[i])
LastNews(i) == News(toClient[i]) /\ \A l \in (i + 1)..Len(toClient) : ~News(toClient[l])
RefusalOnWay == \E i \in DOMAIN toClient : toClient[i].kind = "noowner"
QuestionOnWay == \E j \in DOMAIN toBus : toBus[j] = AskOwner

(* Until the bus has the rule there is no news. *)
NothingKnown == "owner" \notin rules => NoNews /\ unique = None /\ ~RefusalOnWay

(* With it, the last news names the owner. *)
Follows ==
  Alive /\ "owner" \in rules =>
    \/ NoNews /\ unique = NameOf(owner)
    \/ NoNews /\ unique = None /\ (QuestionOnWay \/ RefusalOnWay)
    \/ \E i \in DOMAIN toClient : LastNews(i) /\ toClient[i].name = NameOf(owner)

(* The signal at i meets a client that has stopped, or one that knows from the last
   news before i, or from its unique name, who the owner was. *)
Judged(i) ==
  LET m == toClient[i]
  IN  \/ \E j \in 1..(i - 1) : toClient[j].kind = "noowner"
      \/ \E j \in 1..(i - 1) :
           /\ News(toClient[j]) /\ \A l \in (j + 1)..(i - 1) : ~News(toClient[l])
           /\ m.owned = (toClient[j].name = m.from)
      \/ /\ \A j \in 1..(i - 1) : ~News(toClient[j])
         /\ unique # None /\ m.owned = (unique = m.from)

SignalsJudged ==
  Alive => \A i \in DOMAIN toClient : toClient[i].kind = "signal" => Judged(i)

LookupInv ==
  /\ BusTypeOK /\ LookupTypeOK /\ NothingSent
  /\ InOnePlace /\ RepliesMoved
  /\ InOrder /\ NothingKnown /\ Follows /\ SignalsJudged /\ SignalsFollowOwner

-----------------------------------------------------------------------------
(* Names and messages *)

LEMMA ThreeAtMost == ASSUME NEW a, NEW b, NEW c PROVE Cardinality({a, b, c}) # 4
<1>1. IsFiniteSet({a}) /\ Cardinality({a}) = 1
  BY FS_Singleton
<1>2. IsFiniteSet({a} \cup {b}) /\ Cardinality({a} \cup {b}) \in {1, 2}
  BY <1>1, FS_AddElement
<1>3. Cardinality(({a} \cup {b}) \cup {c}) \in {1, 2, 3}
  BY <1>2, FS_AddElement
<1>4. ({a} \cup {b}) \cup {c} = {a, b, c}
  OBVIOUS
<1> QED BY <1>3, <1>4

LEMMA NamesDiffer ==
  /\ Service # BusName /\ Service # Empty /\ Service # None
  /\ BusName # Empty /\ BusName # None /\ Empty # None
  /\ \A x \in Owners : x \notin {Service, BusName, Empty, None}
<1>1. Cardinality({Service, BusName, Empty, None}) = 4
  BY NamesAssumption
<1> DEFINE all == {Service, BusName, Empty, None}
<1>2. /\ Service = BusName => all = {BusName, Empty, None}
      /\ Service = Empty => all = {BusName, Empty, None}
      /\ Service = None => all = {BusName, Empty, None}
      /\ BusName = Empty => all = {Service, Empty, None}
      /\ BusName = None => all = {Service, Empty, None}
      /\ Empty = None => all = {Service, BusName, None}
  OBVIOUS
<1>3. all # {BusName, Empty, None} /\ all # {Service, Empty, None} /\ all # {Service, BusName, None}
  BY <1>1, ThreeAtMost
<1> QED BY <1>2, <1>3, NamesAssumption

(* What the fields of a message are. *)
LEMMA Fields ==
  ASSUME NEW m \in Messages
  PROVE  /\ m.kind \in {"changed", "owner", "noowner", "return", "error", "signal"}
         /\ m.kind = "changed" => m.name \in Owners \cup {Empty}
         /\ m.kind = "owner" => m.name \in Owners
         /\ m.kind \in {"return", "error"} => m.serial \in Serials /\ m.from \in Owners
         /\ m.kind = "signal" => m.from \in Owners /\ m.owned \in BOOLEAN
BY DEF Messages, Changes, Found, NotFound, Answers, Heard

LEMMA RequestsDiffer ==
  /\ AskRule # AskOwner /\ SignalRule # AskOwner /\ AskRule # SignalRule
  /\ \A s : ToService(s) \notin {AskRule, AskOwner, SignalRule}
<1>1. AskRule.kind = "AddMatch" /\ SignalRule.kind = "AddMatch" /\ AskOwner.kind = "GetNameOwner"
  BY DEF AskRule, SignalRule, AskOwner
<1>2. AskRule.rule = "owner" /\ SignalRule.rule = "signal"
  BY DEF AskRule, SignalRule
<1>3. \A s : ToService(s).kind = "Call"
  BY DEF ToService
<1> QED BY <1>1, <1>2, <1>3

-----------------------------------------------------------------------------
(* A message is sent to the client. *)

LEMMA NewsStays ==
  ASSUME toClient \in Seq(Messages), NEW m \in Messages, toClient' = Append(toClient, m)
  PROVE  /\ RefusalOnWay => RefusalOnWay'
         /\ m.kind = "noowner" => RefusalOnWay'
         /\ ~News(m) /\ NoNews => NoNews'
         /\ ~News(m) => \A i \in DOMAIN toClient : LastNews(i) =>
              i \in DOMAIN toClient' /\ LastNews(i)' /\ toClient'[i] = toClient[i]
         /\ News(m) => \E i \in DOMAIN toClient' : LastNews(i)' /\ toClient'[i] = m
<1>0. PICK n \in Nat : n = Len(toClient)
  BY AppendPlaces
<1>1. /\ n \in Nat /\ Len(toClient') = n + 1
      /\ DOMAIN toClient = 1..n /\ DOMAIN toClient' = 1..(n + 1)
      /\ \A i \in 1..n : toClient'[i] = toClient[i]
      /\ toClient'[n + 1] = m
  BY <1>0, AppendPlaces
<1>2. RefusalOnWay => RefusalOnWay'
  BY <1>1 DEF RefusalOnWay
<1>3. m.kind = "noowner" => RefusalOnWay'
  BY <1>1 DEF RefusalOnWay
<1>4. ~News(m) /\ NoNews => NoNews'
  <2> SUFFICES ASSUME ~News(m), NoNews, NEW i \in DOMAIN toClient' PROVE ~News(toClient'[i])
    BY DEF NoNews
  <2>1. CASE i = n + 1
    BY <1>1, <2>1
  <2>2. CASE i # n + 1
    BY <1>1, <2>2 DEF NoNews
  <2> QED BY <2>1, <2>2
<1>5. ASSUME ~News(m), NEW i \in DOMAIN toClient, LastNews(i)
      PROVE  i \in DOMAIN toClient' /\ LastNews(i)' /\ toClient'[i] = toClient[i]
  <2>1. i \in DOMAIN toClient' /\ toClient'[i] = toClient[i] /\ News(toClient'[i])
    BY <1>1, <1>5 DEF LastNews
  <2>2. ASSUME NEW l \in (i + 1)..(n + 1) PROVE ~News(toClient'[l])
    <3>1. CASE l = n + 1
      BY <1>1, <1>5, <3>1
    <3>2. CASE l # n + 1
      <4>1. l \in (i + 1)..n /\ l \in 1..n
        BY <1>1, <1>5, <3>2
      <4>2. ~News(toClient[l])
        BY <1>0, <1>5, <4>1 DEF LastNews
      <4> QED BY <1>1, <4>1, <4>2
    <3> QED BY <3>1, <3>2
  <2> QED BY <1>1, <2>1, <2>2 DEF LastNews
<1>6. ASSUME News(m) PROVE n + 1 \in DOMAIN toClient' /\ LastNews(n + 1)' /\ toClient'[n + 1] = m
  BY <1>1, <1>6 DEF LastNews
<1> QED BY <1>2, <1>3, <1>4, <1>5, <1>6

(* It does not change what is known of a signal before it. *)
LEMMA JudgedStays ==
  ASSUME toClient \in Seq(Messages), NEW m \in Messages, toClient' = Append(toClient, m),
         unique' = unique, NEW i \in DOMAIN toClient, Judged(i)
  PROVE  Judged(i)' /\ i \in DOMAIN toClient' /\ toClient'[i] = toClient[i]
<1> DEFINE n == Len(toClient)
<1>1. /\ n \in Nat /\ Len(toClient') = n + 1
      /\ DOMAIN toClient = 1..n /\ DOMAIN toClient' = 1..(n + 1)
      /\ \A j \in 1..n : toClient'[j] = toClient[j]
  BY AppendPlaces
<1> HIDE DEF n
<1>2. i \in 1..n /\ toClient'[i] = toClient[i] /\ \A j \in 1..(i - 1) : toClient'[j] = toClient[j]
  BY <1>1
<1>3. \A j \in 1..(i - 1) : \A l \in (j + 1)..(i - 1) : l \in 1..(i - 1)
  BY <1>1
<1>4. Judged(i)'
  BY <1>2, <1>3 DEF Judged
<1> QED BY <1>1, <1>2, <1>4

LEMMA SignalsStay ==
  ASSUME toClient \in Seq(Messages), NEW m \in Messages, toClient' = Append(toClient, m),
         UNCHANGED <<unique, fault>>, SignalsJudged, m.kind # "signal"
  PROVE  SignalsJudged'
<1> SUFFICES ASSUME Alive, NEW i \in DOMAIN toClient', toClient'[i].kind = "signal"
             PROVE  Judged(i)'
  BY DEF SignalsJudged, Alive
<1>1. /\ Len(toClient) \in Nat /\ DOMAIN toClient = 1..Len(toClient)
      /\ DOMAIN toClient' = 1..(Len(toClient) + 1)
      /\ \A j \in 1..Len(toClient) : toClient'[j] = toClient[j]
      /\ toClient'[Len(toClient) + 1] = m
  BY AppendPlaces
<1>2. i \in DOMAIN toClient /\ toClient[i].kind = "signal"
  BY <1>1
<1>3. Judged(i)
  BY <1>2 DEF SignalsJudged
<1> QED BY <1>2, <1>3, JudgedStays

-----------------------------------------------------------------------------
(* The client takes a message. *)

LEMMA NewsMoves ==
  ASSUME toClient \in Seq(Messages), toClient # <<>>, toClient' = Tail(toClient)
  PROVE  /\ NoNews => NoNews' /\ ~News(toClient[1])
         /\ RefusalOnWay' => RefusalOnWay
         /\ RefusalOnWay /\ toClient[1].kind # "noowner" => RefusalOnWay'
         /\ LastNews(1) => NoNews'
         /\ \A i \in DOMAIN toClient : LastNews(i) /\ i # 1 =>
              i - 1 \in DOMAIN toClient' /\ LastNews(i - 1)' /\ toClient'[i - 1] = toClient[i]
<1>0. PICK n \in Nat : n = Len(toClient)
  BY TailPlaces
<1>1. /\ 1 \in 1..n /\ Len(toClient') = n - 1
      /\ DOMAIN toClient = 1..n /\ DOMAIN toClient' = 1..(n - 1)
      /\ \A i \in 1..(n - 1) : toClient'[i] = toClient[i + 1]
  BY <1>0, TailPlaces
<1>2. NoNews => NoNews' /\ ~News(toClient[1])
  <2> SUFFICES ASSUME NoNews PROVE NoNews' /\ ~News(toClient[1])
    OBVIOUS
  <2>1. ASSUME NEW i \in DOMAIN toClient' PROVE ~News(toClient'[i])
    <3>1. i + 1 \in DOMAIN toClient /\ toClient'[i] = toClient[i + 1]
      BY <1>1
    <3> QED BY <3>1 DEF NoNews
  <2> QED BY <1>1, <2>1 DEF NoNews
<1>3. RefusalOnWay' => RefusalOnWay
  <2> SUFFICES ASSUME NEW i \in DOMAIN toClient', toClient'[i].kind = "noowner" PROVE RefusalOnWay
    BY DEF RefusalOnWay
  <2>1. i + 1 \in DOMAIN toClient /\ toClient'[i] = toClient[i + 1]
    BY <1>1
  <2> QED BY <2>1 DEF RefusalOnWay
<1>4. RefusalOnWay /\ toClient[1].kind # "noowner" => RefusalOnWay'
  <2> SUFFICES ASSUME NEW i \in DOMAIN toClient, toClient[i].kind = "noowner",
                      toClient[1].kind # "noowner"
               PROVE  RefusalOnWay'
    BY DEF RefusalOnWay
  <2>1. i - 1 \in DOMAIN toClient' /\ toClient'[i - 1] = toClient[i]
    BY <1>1
  <2> QED BY <2>1 DEF RefusalOnWay
<1>5. LastNews(1) => NoNews'
  <2> SUFFICES ASSUME LastNews(1), NEW i \in DOMAIN toClient' PROVE ~News(toClient'[i])
    BY DEF NoNews
  <2>1. i + 1 \in (1 + 1)..Len(toClient) /\ toClient'[i] = toClient[i + 1]
    BY <1>0, <1>1
  <2> QED BY <2>1 DEF LastNews
<1>6. ASSUME NEW i \in DOMAIN toClient, LastNews(i), i # 1
      PROVE  i - 1 \in DOMAIN toClient' /\ LastNews(i - 1)' /\ toClient'[i - 1] = toClient[i]
  <2>1. i - 1 \in DOMAIN toClient' /\ toClient'[i - 1] = toClient[i]
    BY <1>1, <1>6
  <2>2. ASSUME NEW l \in ((i - 1) + 1)..(n - 1) PROVE ~News(toClient'[l])
    <3>1. l + 1 \in (i + 1)..Len(toClient) /\ toClient'[l] = toClient[l + 1]
      BY <1>0, <1>1, <1>6
    <3> QED BY <1>6, <3>1 DEF LastNews
  <2>3. News(toClient'[i - 1])
    BY <1>6, <2>1 DEF LastNews
  <2> QED BY <1>1, <2>1, <2>2, <2>3 DEF LastNews
<1> QED BY <1>2, <1>3, <1>4, <1>5, <1>6

(* What is known when a signal is taken does not change while what is before it is
   taken. *)
LEMMA SignalsMove ==
  ASSUME toClient \in Seq(Messages), toClient # <<>>, toClient' = Tail(toClient), Alive, SignalsJudged,
         toClient[1].kind # "noowner",
         \/ News(toClient[1]) /\ unique' = toClient[1].name /\ unique' # None
         \/ ~News(toClient[1]) /\ unique' = unique
  PROVE  SignalsJudged'
<1> SUFFICES ASSUME NEW i \in DOMAIN toClient', toClient'[i].kind = "signal" PROVE Judged(i)'
  BY DEF SignalsJudged
<1>0. PICK n \in Nat : n = Len(toClient)
  BY TailPlaces
<1>1. /\ 1 \in 1..n /\ Len(toClient') = n - 1
      /\ DOMAIN toClient = 1..n /\ DOMAIN toClient' = 1..(n - 1)
      /\ \A j \in 1..(n - 1) : toClient'[j] = toClient[j + 1]
  BY <1>0, TailPlaces
<1>2. i \in 1..(n - 1) /\ i + 1 \in DOMAIN toClient /\ toClient'[i] = toClient[i + 1]
  BY <1>1
<1>3. \A j \in 1..(i - 1) : j + 1 \in 1..((i + 1) - 1) /\ toClient'[j] = toClient[j + 1]
  BY <1>1, <1>2
<1>4. \A j \in 1..((i + 1) - 1) : j # 1 => j - 1 \in 1..(i - 1) /\ toClient'[j - 1] = toClient[j]
  BY <1>1, <1>2
<1>5. Judged(i + 1)
  BY <1>2 DEF SignalsJudged
<1> DEFINE m == toClient[i + 1]
<1>6. CASE \E j \in 1..((i + 1) - 1) : toClient[j].kind = "noowner"
  <2>1. \E j \in 1..(i - 1) : toClient'[j].kind = "noowner"
    BY <1>4, <1>6
  <2> QED BY <2>1 DEF Judged
<1>7. CASE \E j \in 1..((i + 1) - 1) :
             /\ News(toClient[j]) /\ \A l \in (j + 1)..((i + 1) - 1) : ~News(toClient[l])
             /\ m.owned = (toClient[j].name = m.from)
  <2>1. PICK j \in 1..((i + 1) - 1) :
             /\ News(toClient[j]) /\ \A l \in (j + 1)..((i + 1) - 1) : ~News(toClient[l])
             /\ m.owned = (toClient[j].name = m.from)
    BY <1>7
  <2>2. CASE j = 1
    <3>1. unique' = toClient[1].name /\ unique' # None
      BY <2>1, <2>2
    <3>2. ASSUME NEW l \in 1..(i - 1) PROVE ~News(toClient'[l])
      <4>1. l + 1 \in (j + 1)..((i + 1) - 1) /\ toClient'[l] = toClient[l + 1]
        BY <1>1, <1>2, <2>2
      <4> QED BY <2>1, <4>1
    <3>3. toClient'[i].owned = (unique' = toClient'[i].from)
      BY <1>2, <2>1, <2>2, <3>1
    <3> QED BY <3>1, <3>2, <3>3 DEF Judged
  <2>3. CASE j # 1
    <3>1. j - 1 \in 1..(i - 1) /\ toClient'[j - 1] = toClient[j]
      BY <1>4, <2>3
    <3>2. ASSUME NEW l \in ((j - 1) + 1)..(i - 1) PROVE ~News(toClient'[l])
      <4>1. l + 1 \in (j + 1)..((i + 1) - 1) /\ toClient'[l] = toClient[l + 1]
        BY <1>1, <1>2, <3>1
      <4> QED BY <2>1, <4>1
    <3>3. /\ News(toClient'[j - 1])
          /\ toClient'[i].owned = (toClient'[j - 1].name = toClient'[i].from)
      BY <1>2, <2>1, <3>1
    <3>4. \E k \in 1..(i - 1) :
            /\ News(toClient'[k]) /\ \A l \in (k + 1)..(i - 1) : ~News(toClient'[l])
            /\ toClient'[i].owned = (toClient'[k].name = toClient'[i].from)
      BY <3>1, <3>2, <3>3
    <3> QED BY <3>4 DEF Judged
  <2> QED BY <2>2, <2>3
<1>8. CASE /\ \A j \in 1..((i + 1) - 1) : ~News(toClient[j])
           /\ unique # None /\ m.owned = (unique = m.from)
  <2>1. 1 \in 1..((i + 1) - 1)
    BY <1>1, <1>2
  <2>2. unique' = unique
    BY <1>8, <2>1
  <2>3. \A j \in 1..(i - 1) : ~News(toClient'[j])
    BY <1>3, <1>8
  <2> QED BY <1>2, <1>8, <2>2, <2>3 DEF Judged
<1> QED BY <1>5, <1>6, <1>7, <1>8 DEF Judged

(* All that a message can change of what is known. *)
LEMMA Taken ==
  ASSUME LookupInv, NEW kind, Take(kind), UNCHANGED <<owner, rules, toBus, lookup, called>>,
         \/ News(toClient[1]) /\ unique' = toClient[1].name
         \/ unique' = unique /\ (Alive' => ~News(toClient[1]) /\ kind # "noowner")
  PROVE  /\ toClient' \in Seq(Messages) /\ toClient[1] \in Messages /\ toClient[1].kind = kind
         /\ unique' \in Owners \cup {Empty, None} /\ lookup
         /\ NothingSent' /\ InOrder' /\ NothingKnown' /\ Follows' /\ SignalsJudged'
<1>1. /\ toClient # <<>> /\ toClient' = Tail(toClient) /\ toClient[1].kind = kind /\ Alive
      /\ toClient \in Seq(Messages)
  BY DEF Take, LookupInv, BusTypeOK
<1>2. toClient' \in Seq(Messages) /\ toClient[1] \in Messages
  BY <1>1, TailPlaces
<1>3. lookup
  BY <1>1 DEF LookupInv, NothingSent, BusTypeOK
<1>4. News(toClient[1]) => toClient[1].name \in Owners \cup {Empty} /\ toClient[1].name # None
  BY <1>2, Fields, NamesDiffer DEF News
<1>5. unique' \in Owners \cup {Empty, None}
  BY <1>4 DEF LookupInv, LookupTypeOK
<1>6. NothingSent' /\ InOrder'
  <2>1. InOrder
    BY DEF LookupInv
  <2> QED BY <1>3, <2>1 DEF NothingSent, InOrder
<1>7. /\ NoNews => NoNews' /\ ~News(toClient[1])
      /\ RefusalOnWay' => RefusalOnWay
      /\ RefusalOnWay /\ toClient[1].kind # "noowner" => RefusalOnWay'
      /\ LastNews(1) => NoNews'
      /\ \A i \in DOMAIN toClient : LastNews(i) /\ i # 1 =>
           i - 1 \in DOMAIN toClient' /\ LastNews(i - 1)' /\ toClient'[i - 1] = toClient[i]
  BY <1>1, NewsMoves
<1>8. NothingKnown'
  BY <1>7 DEF LookupInv, NothingKnown
<1>9. Follows'
  <2> SUFFICES ASSUME Alive', "owner" \in rules
               PROVE  \/ NoNews' /\ unique' = NameOf(owner)
                      \/ NoNews' /\ unique' = None /\ (QuestionOnWay \/ RefusalOnWay')
                      \/ \E i \in DOMAIN toClient' : LastNews(i)' /\ toClient'[i].name = NameOf(owner)
    BY DEF Follows, QuestionOnWay, NameOf
  <2>1. kind # "noowner" /\ (~News(toClient[1]) => unique' = unique)
    BY <1>1 DEF News
  <2>2. CASE NoNews /\ unique = NameOf(owner)
    BY <1>7, <2>1, <2>2
  <2>3. CASE NoNews /\ unique = None /\ (QuestionOnWay \/ RefusalOnWay)
    BY <1>1, <1>7, <2>1, <2>3
  <2>4. CASE \E i \in DOMAIN toClient : LastNews(i) /\ toClient[i].name = NameOf(owner)
    <3>1. PICK i \in DOMAIN toClient : LastNews(i) /\ toClient[i].name = NameOf(owner)
      BY <2>4
    <3>2. CASE i = 1
      <4>1. News(toClient[1])
        BY <3>1, <3>2 DEF LastNews
      <4>2. unique' = NameOf(owner)
        BY <3>1, <3>2, <4>1
      <4> QED BY <1>7, <3>1, <3>2, <4>2
    <3>3. CASE i # 1
      BY <1>7, <3>1, <3>3
    <3> QED BY <3>2, <3>3
  <2> QED BY <1>1, <2>2, <2>3, <2>4 DEF LookupInv, Follows
<1>10. SignalsJudged'
  <2>1. CASE ~Alive'
    BY <2>1 DEF SignalsJudged
  <2>2. CASE Alive'
    <3>1. kind # "noowner"
      BY <1>1, <2>2 DEF News
    <3>2. SignalsJudged
      BY DEF LookupInv
    <3>3. \/ News(toClient[1]) /\ unique' = toClient[1].name /\ unique' # None
          \/ ~News(toClient[1]) /\ unique' = unique
      BY <1>4, <2>2
    <3> QED BY <1>1, <3>1, <3>2, <3>3, SignalsMove
  <2> QED BY <2>1, <2>2
<1> QED BY <1>1, <1>2, <1>3, <1>5, <1>6, <1>8, <1>9, <1>10

-----------------------------------------------------------------------------
(* The reply table *)

Tables == [Keys -> SUBSET (Serials \cup {LookupSerial})]

LEMMA Moved ==
  ASSUME NEW table \in Tables, NEW to \in Keys, to # Service
  PROVE  /\ MoveReplies(table, to) \in Tables
         /\ MoveReplies(table, to)[Service] = {}
         /\ MoveReplies(table, to)[to] = table[to] \cup table[Service]
         /\ \A k \in Keys : k \notin {Service, to} => MoveReplies(table, to)[k] = table[k]
<1>1. Service \in Keys /\ DOMAIN table = Keys
  BY DEF Keys, Tables
<1>2. table[to] \subseteq Serials \cup {LookupSerial} /\ table[Service] \subseteq Serials \cup {LookupSerial}
  BY <1>1 DEF Tables
<1> QED BY <1>1, <1>2 DEF MoveReplies, Tables

(* The answers that are waited for stay in one place when they are moved. *)
LEMMA MovedOnce ==
  ASSUME InOnePlace, NEW table \in Tables, NEW to \in Keys, to # Service,
         \A s \in Serials, k \in Keys : s \in table[k] <=> s \in replies[k],
         replies' = MoveReplies(table, to), calls' = calls
  PROVE  InOnePlace' /\ replies'[Service] = {} /\ replies' \in Tables
<1>0. Service \in Keys
  BY DEF Keys
<1>1. /\ replies'[Service] = {} /\ replies' \in Tables
      /\ replies'[to] = table[to] \cup table[Service]
      /\ \A k \in Keys : k \notin {Service, to} => replies'[k] = table[k]
  BY Moved
<1>2. ASSUME NEW s \in Serials
      PROVE  /\ \A k, l \in Keys : s \in replies'[k] /\ s \in replies'[l] => k = l
             /\ calls[s] = "waiting" <=> \E k \in Keys : s \in replies'[k]
  <2>1. /\ \A k, l \in Keys : s \in table[k] /\ s \in table[l] => k = l
        /\ calls[s] = "waiting" <=> \E k \in Keys : s \in table[k]
    BY DEF InOnePlace
  <2>2. \A k \in Keys : s \in replies'[k] <=>
          \/ k = to /\ (s \in table[to] \/ s \in table[Service])
          \/ k \notin {Service, to} /\ s \in table[k]
    BY <1>1
  <2>3. \A k, l \in Keys : s \in replies'[k] /\ s \in replies'[l] => k = l
    BY <1>0, <2>1, <2>2
  <2>4. (\E k \in Keys : s \in table[k]) <=> \E k \in Keys : s \in replies'[k]
    BY <1>0, <2>2
  <2> QED BY <2>1, <2>3, <2>4
<1> QED BY <1>1, <1>2 DEF InOnePlace

(* The types, in one place. *)
LEMMA InvTypes ==
  ASSUME LookupInv
  PROVE  /\ replies \in Tables /\ calls \in [Serials -> {"unused", "waiting", "answered"}]
         /\ unique \in Owners \cup {Empty, None}
         /\ heard \subseteq [owned : BOOLEAN, accepted : BOOLEAN]
         /\ toBus \in Seq(Requests) /\ toClient \in Seq(Messages)
         /\ rules \subseteq {"owner", "signal"} /\ called \in [Owners -> SUBSET Serials]
         /\ lookup \in BOOLEAN /\ matching \in BOOLEAN /\ owner \in Owners \cup {None}
         /\ ~lookup => unique = None /\ \A k \in Keys : replies[k] = {}
BY DEF LookupInv, LookupTypeOK, BusTypeOK, Tables

LEMMA NewChange == LookupInv /\ NameOwnerChanged => LookupInv'
<1> SUFFICES ASSUME LookupInv, NameOwnerChanged PROVE LookupInv'
  OBVIOUS
<1>1. /\ Take("changed") /\ unique' = toClient[1].name
      /\ replies' = MoveReplies(replies, toClient[1].name)
      /\ UNCHANGED <<owner, rules, called, toBus, lookup, calls, matching, heard, fault>>
  BY DEF NameOwnerChanged, busVars
<1>2. toClient[1].kind = "changed" /\ News(toClient[1])
  BY <1>1 DEF Take, News
<1>3. /\ toClient' \in Seq(Messages) /\ toClient[1] \in Messages /\ toClient[1].kind = "changed"
      /\ unique' \in Owners \cup {Empty, None} /\ lookup
      /\ NothingSent' /\ InOrder' /\ NothingKnown' /\ Follows' /\ SignalsJudged'
  BY <1>1, <1>2, Taken
<1>4. toClient[1].name \in Keys /\ toClient[1].name # Service
  BY <1>3, Fields, NamesDiffer DEF Keys
<1>5. replies \in Tables /\ InOnePlace
  BY InvTypes DEF LookupInv
<1>6. InOnePlace' /\ replies'[Service] = {} /\ replies' \in Tables
  BY <1>1, <1>4, <1>5, MovedOnce
<1>7. BusTypeOK' /\ LookupTypeOK'
  BY <1>1, <1>3, <1>6, InvTypes DEF BusTypeOK, LookupTypeOK, Tables
<1>8. SignalsFollowOwner' /\ RepliesMoved'
  BY <1>1, <1>6 DEF LookupInv, SignalsFollowOwner, RepliesMoved
<1> QED BY <1>3, <1>6, <1>7, <1>8 DEF LookupInv

(* The table without the question. *)
LEMMA WithoutQuestion ==
  ASSUME NEW table \in Tables
  PROVE  /\ [table EXCEPT ![BusName] = @ \ {LookupSerial}] \in Tables
         /\ \A s \in Serials, k \in Keys :
              s \in [table EXCEPT ![BusName] = @ \ {LookupSerial}][k] <=> s \in table[k]
         /\ [table EXCEPT ![BusName] = @ \ {LookupSerial}][Service] = table[Service]
<1>1. BusName \in Keys /\ Service \in Keys /\ Service # BusName
  BY NamesDiffer DEF Keys
<1>2. \A s \in Serials : s # LookupSerial
  <2>1. MaxCalls \in Nat
    BY CallsAssumption
  <2> QED BY <2>1 DEF Serials, LookupSerial
<1>3. table[BusName] \ {LookupSerial} \subseteq Serials \cup {LookupSerial}
  BY <1>1 DEF Tables
<1> QED BY <1>1, <1>2, <1>3 DEF Tables

LEMMA NewOwner == LookupInv /\ GetNameOwner => LookupInv'
<1> SUFFICES ASSUME LookupInv, GetNameOwner PROVE LookupInv'
  OBVIOUS
<1> DEFINE table == [replies EXCEPT ![BusName] = @ \ {LookupSerial}]
<1>1. /\ Take("owner")
      /\ UNCHANGED <<owner, rules, called, toBus, lookup, calls, matching, heard>>
      /\ \/ /\ unique = None /\ unique' = toClient[1].name
            /\ replies' = MoveReplies(table, toClient[1].name) /\ fault' = fault
         \/ unique # None /\ fault' = "assert" /\ replies' = table /\ unique' = unique
  BY DEF GetNameOwner, busVars
<1>2. /\ table \in Tables /\ table[Service] = replies[Service]
      /\ \A s \in Serials, k \in Keys : s \in table[k] <=> s \in replies[k]
  BY InvTypes, WithoutQuestion
<1> HIDE DEF table
<1>3. toClient[1].kind = "owner" /\ News(toClient[1])
  BY <1>1 DEF Take, News
<1>4. fault' = "assert" => ~Alive'
  BY DEF Alive
<1>5. /\ toClient' \in Seq(Messages) /\ toClient[1] \in Messages /\ toClient[1].kind = "owner"
      /\ unique' \in Owners \cup {Empty, None} /\ lookup
      /\ NothingSent' /\ InOrder' /\ NothingKnown' /\ Follows' /\ SignalsJudged'
  BY <1>1, <1>3, <1>4, Taken
<1>6. toClient[1].name \in Keys /\ toClient[1].name # Service
  BY <1>5, Fields, NamesDiffer DEF Keys
<1>7. InOnePlace' /\ replies' \in Tables /\ (unique' # None => replies'[Service] = {})
  <2>1. CASE unique = None
    <3>1. replies' = MoveReplies(table, toClient[1].name)
      BY <1>1, <2>1
    <3>2. InOnePlace
      BY DEF LookupInv
    <3> QED BY <1>1, <1>2, <1>6, <3>1, <3>2, MovedOnce
  <2>2. CASE unique # None
    <3>1. replies' = table /\ unique' = unique
      BY <1>1, <2>2
    <3>2. InOnePlace'
      BY <1>1, <1>2, <3>1 DEF LookupInv, InOnePlace
    <3> QED BY <1>2, <2>2, <3>1, <3>2 DEF LookupInv, RepliesMoved
  <2> QED BY <2>1, <2>2
<1>8. BusTypeOK' /\ LookupTypeOK'
  BY <1>1, <1>5, <1>7, InvTypes DEF BusTypeOK, LookupTypeOK, Tables
<1>9. SignalsFollowOwner' /\ RepliesMoved'
  BY <1>1, <1>7 DEF LookupInv, SignalsFollowOwner, RepliesMoved
<1> QED BY <1>5, <1>7, <1>8, <1>9 DEF LookupInv

LEMMA NoOwner == LookupInv /\ GetNameOwnerFails => LookupInv'
<1> SUFFICES ASSUME LookupInv, GetNameOwnerFails PROVE LookupInv'
  OBVIOUS
<1>1. /\ Take("noowner") /\ fault' = "null"
      /\ replies' = [replies EXCEPT ![BusName] = @ \ {LookupSerial}]
      /\ UNCHANGED <<owner, rules, called, toBus, lookup, unique, calls, matching, heard>>
  BY DEF GetNameOwnerFails, busVars
<1>2. /\ replies' \in Tables /\ replies'[Service] = replies[Service]
      /\ \A s \in Serials, k \in Keys : s \in replies'[k] <=> s \in replies[k]
  BY <1>1, InvTypes, WithoutQuestion
<1>3. ~Alive'
  BY <1>1 DEF Alive
<1>4. /\ toClient' \in Seq(Messages)
      /\ unique' \in Owners \cup {Empty, None} /\ lookup
      /\ NothingSent' /\ InOrder' /\ NothingKnown' /\ Follows' /\ SignalsJudged'
  BY <1>1, <1>3, Taken
<1>5. BusTypeOK' /\ LookupTypeOK'
  BY <1>1, <1>2, <1>4, InvTypes DEF BusTypeOK, LookupTypeOK, Tables
<1>6. InOnePlace'
  BY <1>1, <1>2 DEF LookupInv, InOnePlace
<1>7. SignalsFollowOwner' /\ RepliesMoved'
  BY <1>1, <1>2 DEF LookupInv, SignalsFollowOwner, RepliesMoved
<1> QED BY <1>4, <1>5, <1>6, <1>7 DEF LookupInv

LEMMA ReplyComes ==
  ASSUME LookupInv, NEW type \in {"return", "error"}, DispatchReply(type) PROVE LookupInv'
<1> DEFINE m == toClient[1]
<1>1. /\ Take(type)
      /\ UNCHANGED <<owner, rules, called, toBus, lookup, unique, matching, heard, fault>>
      /\ \/ /\ m.serial \in replies[m.from]
            /\ replies' = [replies EXCEPT ![m.from] = @ \ {m.serial}]
            /\ calls' = [calls EXCEPT ![m.serial] = "answered"]
         \/ replies' = replies /\ calls' = calls
  BY DEF DispatchReply, busVars
<1>2. m.kind = type /\ ~News(m)
  BY <1>1 DEF Take, News
<1>3. /\ toClient' \in Seq(Messages) /\ m \in Messages
      /\ unique' \in Owners \cup {Empty, None} /\ lookup
      /\ NothingSent' /\ InOrder' /\ NothingKnown' /\ Follows' /\ SignalsJudged'
  BY <1>1, <1>2, Taken
<1>4. m.serial \in Serials /\ m.from \in Keys
  BY <1>2, <1>3, Fields DEF Keys
<1> HIDE DEF m
<1>5. /\ replies \in Tables /\ calls \in [Serials -> {"unused", "waiting", "answered"}]
      /\ InOnePlace
  BY InvTypes DEF LookupInv
<1>6. /\ replies' \in Tables /\ calls' \in [Serials -> {"unused", "waiting", "answered"}]
      /\ \A k \in Keys : replies'[k] \subseteq replies[k]
  BY <1>1, <1>4, <1>5 DEF Tables
<1>7. InOnePlace'
  <2>1. CASE replies' = replies /\ calls' = calls
    BY <1>5, <2>1 DEF InOnePlace
  <2>2. CASE /\ m.serial \in replies[m.from]
             /\ replies' = [replies EXCEPT ![m.from] = @ \ {m.serial}]
             /\ calls' = [calls EXCEPT ![m.serial] = "answered"]
    <3> SUFFICES ASSUME NEW s \in Serials
                 PROVE  /\ \A k, l \in Keys : s \in replies'[k] /\ s \in replies'[l] => k = l
                        /\ calls'[s] = "waiting" <=> \E k \in Keys : s \in replies'[k]
      BY DEF InOnePlace
    <3>1. \A k, l \in Keys : s \in replies[k] /\ s \in replies[l] => k = l
      BY <1>5 DEF InOnePlace
    <3>2. calls[s] = "waiting" <=> \E k \in Keys : s \in replies[k]
      BY <1>5 DEF InOnePlace
    <3>3. \A k \in Keys : replies'[k] = IF k = m.from THEN replies[k] \ {m.serial} ELSE replies[k]
      BY <1>4, <1>5, <2>2 DEF Tables
    <3>4. calls'[s] = IF s = m.serial THEN "answered" ELSE calls[s]
      BY <1>4, <1>5, <2>2
    <3>5. CASE s = m.serial
      <4>1. \A k \in Keys : s \notin replies'[k]
        BY <1>4, <2>2, <3>1, <3>3, <3>5
      <4> QED BY <3>4, <3>5, <4>1
    <3>6. CASE s # m.serial
      <4>1. \A k \in Keys : s \in replies'[k] <=> s \in replies[k]
        BY <3>3, <3>6
      <4> QED BY <3>1, <3>2, <3>4, <3>6, <4>1
    <3> QED BY <3>5, <3>6
  <2> QED BY <1>1, <2>1, <2>2
<1>8. BusTypeOK' /\ LookupTypeOK'
  BY <1>1, <1>3, <1>6, InvTypes DEF BusTypeOK, LookupTypeOK, Tables
<1>9. SignalsFollowOwner' /\ RepliesMoved'
  <2>1. Service \in Keys
    BY DEF Keys
  <2> QED BY <1>1, <1>6, <2>1 DEF LookupInv, SignalsFollowOwner, RepliesMoved
<1> QED BY <1>3, <1>7, <1>8, <1>9 DEF LookupInv

(* The match takes a signal if its sender was the owner. *)
LEMMA SignalComes == LookupInv /\ DispatchSignal => LookupInv'
<1> SUFFICES ASSUME LookupInv, DispatchSignal PROVE LookupInv'
  OBVIOUS
<1> DEFINE m == toClient[1]
<1>1. /\ Take("signal")
      /\ heard' = heard \cup {[owned |-> m.owned, accepted |-> Accepts(m.from)]}
      /\ UNCHANGED <<owner, rules, called, toBus, lookup, unique, replies, calls, matching, fault>>
  BY DEF DispatchSignal, busVars
<1>2. /\ m.kind = "signal" /\ ~News(m) /\ Alive /\ toClient # <<>>
  BY <1>1 DEF Take, News
<1>3. /\ toClient' \in Seq(Messages) /\ m \in Messages
      /\ unique' \in Owners \cup {Empty, None} /\ lookup
      /\ NothingSent' /\ InOrder' /\ NothingKnown' /\ Follows' /\ SignalsJudged'
  BY <1>1, <1>2, Taken
<1>4. m.from \in Owners /\ m.owned \in BOOLEAN
  BY <1>2, <1>3, Fields
<1>5. Judged(1)
  <2>1. 1 \in DOMAIN toClient
    BY <1>2, InvTypes, TailPlaces
  <2> QED BY <1>2, <2>1 DEF LookupInv, SignalsJudged
<1>6. unique # None /\ m.owned = (unique = m.from)
  <2>1. \A j \in 1..(1 - 1) : FALSE
    OBVIOUS
  <2> QED BY <1>5, <2>1 DEF Judged
<1>7. Accepts(m.from) = m.owned
  BY <1>4, <1>6 DEF Accepts
<1>8. SignalsFollowOwner' /\ heard' \subseteq [owned : BOOLEAN, accepted : BOOLEAN]
  <2> HIDE DEF m
  <2>1. heard \subseteq [owned : BOOLEAN, accepted : BOOLEAN]
    BY InvTypes
  <2>2. heard' = heard \cup {[owned |-> m.owned, accepted |-> m.owned]}
    BY <1>1, <1>7
  <2> QED BY <1>4, <2>1, <2>2 DEF LookupInv, SignalsFollowOwner
<1>9. BusTypeOK' /\ LookupTypeOK'
  BY <1>1, <1>3, <1>8, InvTypes DEF BusTypeOK, LookupTypeOK, Tables
<1>10. InOnePlace' /\ RepliesMoved'
  BY <1>1 DEF LookupInv, InOnePlace, RepliesMoved
<1> QED BY <1>3, <1>8, <1>9, <1>10 DEF LookupInv

-----------------------------------------------------------------------------
(* The client calls and matches. *)

LEMMA ThreeInOrder ==
  ASSUME NEW S, NEW a \in S, NEW b \in S, NEW c \in S, NEW w, w = <<>> \o <<a, b>> \o <<c>>
  PROVE  w \in Seq(S) /\ DOMAIN w = 1..3 /\ w[1] = a /\ w[2] = b /\ w[3] = c
<1>1. PICK q : q = <<a, b>>
  OBVIOUS
<1>2. q \in Seq(S) /\ Len(q) = 2 /\ q[1] = a /\ q[2] = b
  BY <1>1
<1>3. <<>> \o q = q /\ q \o <<c>> = Append(q, c)
  BY <1>2, ConcatEmptySeq, AppendIsConcat
<1>4. w = Append(q, c)
  BY <1>1, <1>3
<1> QED BY <1>2, <1>4

LEMMA Sent ==
  ASSUME LookupInv, NEW r \in Requests, r # AskRule, r # AskOwner,
         toBus' = toBus \o LookupRequests \o <<r>>, lookup' = TRUE,
         UNCHANGED <<owner, rules, toClient, unique, fault>>
  PROVE  /\ toBus' \in Seq(Requests)
         /\ NothingSent' /\ InOrder' /\ NothingKnown' /\ Follows' /\ SignalsJudged'
<1>1. /\ toBus \in Seq(Requests) /\ lookup \in BOOLEAN /\ InOrder /\ NothingSent
      /\ NothingKnown /\ Follows /\ SignalsJudged
  BY InvTypes DEF LookupInv
<1>2. AskRule \in Requests /\ AskOwner \in Requests
  BY DEF Requests
<1>3. CASE lookup
  <2>1. toBus' = Append(toBus, r)
    <3>1. toBus \o <<>> = toBus
      BY <1>1, ConcatEmptySeq
    <3>2. toBus \o <<r>> = Append(toBus, r)
      BY <1>1, AppendIsConcat
    <3> QED BY <1>3, <3>1, <3>2 DEF LookupRequests
  <2>2. PICK n \in Nat : n = Len(toBus)
    BY <1>1
  <2>3. /\ toBus' \in Seq(Requests) /\ DOMAIN toBus = 1..n /\ DOMAIN toBus' = 1..(n + 1)
        /\ \A i \in 1..n : toBus'[i] = toBus[i]
        /\ toBus'[n + 1] = r
    <3>1. /\ Append(toBus, r) \in Seq(Requests)
          /\ DOMAIN toBus = 1..Len(toBus) /\ DOMAIN Append(toBus, r) = 1..(Len(toBus) + 1)
          /\ \A i \in 1..Len(toBus) : Append(toBus, r)[i] = toBus[i]
          /\ Append(toBus, r)[Len(toBus) + 1] = r
      BY <1>1, AppendPlaces
    <3> QED BY <2>1, <2>2, <3>1
  <2>4. \A j \in DOMAIN toBus' : toBus'[j] = AskOwner => j \in 1..n /\ toBus[j] = AskOwner
    BY <2>3
  <2>5. InOrder'
    <3>1. ASSUME "owner" \notin rules
          PROVE  /\ \E j \in DOMAIN toBus' : toBus'[j] = AskOwner
                 /\ \A j \in DOMAIN toBus' : toBus'[j] = AskOwner =>
                      \E i \in 1..(j - 1) : toBus'[i] = AskRule
      <4>1. /\ \E j \in DOMAIN toBus : toBus[j] = AskOwner
            /\ \A j \in DOMAIN toBus : toBus[j] = AskOwner => \E i \in 1..(j - 1) : toBus[i] = AskRule
        BY <1>1, <1>3, <3>1 DEF InOrder
      <4>2. \A j \in 1..n : \A i \in 1..(j - 1) : toBus'[i] = toBus[i]
        BY <2>3
      <4> QED BY <2>3, <2>4, <4>1, <4>2
    <3>2. \A i, j \in DOMAIN toBus' : toBus'[i] = SignalRule /\ toBus'[j] = AskOwner => j < i
      <4> SUFFICES ASSUME NEW i \in DOMAIN toBus', NEW j \in DOMAIN toBus',
                          toBus'[i] = SignalRule, toBus'[j] = AskOwner
                   PROVE  j < i
        OBVIOUS
      <4>1. j \in 1..n /\ toBus[j] = AskOwner
        BY <2>4
      <4>2. CASE i = n + 1
        BY <4>1, <4>2
      <4>3. CASE i # n + 1
        <5>1. i \in DOMAIN toBus /\ toBus[i] = SignalRule
          BY <2>3, <4>3
        <5> QED BY <1>1, <2>3, <4>1, <5>1 DEF InOrder
      <4> QED BY <4>2, <4>3
    <3>3. "signal" \in rules => \A j \in DOMAIN toBus' : toBus'[j] # AskOwner
      BY <1>1, <2>3, <2>4 DEF InOrder
    <3> QED BY <3>1, <3>2, <3>3 DEF InOrder
  <2>6. QuestionOnWay => QuestionOnWay'
    BY <2>3 DEF QuestionOnWay
  <2>7. NothingKnown' /\ SignalsJudged'
    BY <1>1 DEF NothingKnown, SignalsJudged, NoNews, RefusalOnWay, Judged, Alive
  <2>8. Follows'
    BY <1>1, <2>6 DEF Follows, Alive, NoNews, RefusalOnWay, LastNews
  <2> QED BY <2>3, <2>5, <2>7, <2>8 DEF NothingSent
<1>4. CASE ~lookup
  <2>1. toBus = <<>> /\ toClient = <<>> /\ rules = {}
    BY <1>1, <1>4 DEF NothingSent
  <2>2. toBus' = <<>> \o <<AskRule, AskOwner>> \o <<r>>
    BY <1>4, <2>1 DEF LookupRequests, AskRule, AskOwner
  <2>3. /\ toBus' \in Seq(Requests) /\ DOMAIN toBus' = 1..3
        /\ toBus'[1] = AskRule /\ toBus'[2] = AskOwner /\ toBus'[3] = r
    <3>1. \A w : w = <<>> \o <<AskRule, AskOwner>> \o <<r>> =>
            /\ w \in Seq(Requests) /\ DOMAIN w = 1..3
            /\ w[1] = AskRule /\ w[2] = AskOwner /\ w[3] = r
      BY <1>2, ThreeInOrder
    <3> QED BY <2>2, <3>1, Zenon
  <2>4. InOrder'
    BY <2>1, <2>3, RequestsDiffer DEF InOrder
  <2>5. NothingKnown' /\ SignalsJudged' /\ Follows'
    <3>1. DOMAIN toClient' = {}
      BY <2>1
    <3>2. NothingKnown'
      BY <1>1, <2>1, <3>1 DEF NothingKnown, NoNews, RefusalOnWay
    <3> QED BY <2>1, <3>1, <3>2 DEF SignalsJudged, Follows
  <2> QED BY <2>3, <2>4, <2>5 DEF NothingSent
<1> QED BY <1>1, <1>3, <1>4

(* The registration of the question does not touch the calls. *)
LEMMA QuestionRegistered ==
  ASSUME LookupInv
  PROVE  /\ WithLookup \in Tables /\ WithLookup[Service] = replies[Service]
         /\ \A s \in Serials, k \in Keys : s \in WithLookup[k] <=> s \in replies[k]
<1>1. replies \in Tables
  BY InvTypes
<1>2. BusName \in Keys /\ Service \in Keys /\ Service # BusName
  BY NamesDiffer DEF Keys
<1>3. \A s \in Serials : s # LookupSerial
  <2>1. MaxCalls \in Nat
    BY CallsAssumption
  <2> QED BY <2>1 DEF Serials, LookupSerial
<1>4. replies[BusName] \cup {LookupSerial} \subseteq Serials \cup {LookupSerial}
  BY <1>1, <1>2 DEF Tables
<1> QED BY <1>1, <1>2, <1>3, <1>4 DEF WithLookup, Tables

LEMMA CallGoesOut ==
  ASSUME LookupInv, NEW c \in Serials, CallService(c) PROVE LookupInv'
<1>1. /\ calls[c] = "unused" /\ calls' = [calls EXCEPT ![c] = "waiting"] /\ lookup' = TRUE
      /\ replies' = [WithLookup EXCEPT ![ReplyKey] = @ \cup {c}]
      /\ toBus' = toBus \o LookupRequests \o <<ToService(c)>>
      /\ UNCHANGED <<owner, rules, called, toClient, unique, matching, heard, fault>>
  BY Zenon DEF CallService, busVars, ToService
<1>2. /\ WithLookup \in Tables /\ WithLookup[Service] = replies[Service]
      /\ \A s \in Serials, k \in Keys : s \in WithLookup[k] <=> s \in replies[k]
  BY QuestionRegistered
<1>3. ReplyKey \in Keys /\ (unique # None => ReplyKey = unique /\ ReplyKey # Service)
  BY InvTypes, NamesDiffer DEF ReplyKey, Keys
<1>4. /\ toBus' \in Seq(Requests)
      /\ NothingSent' /\ InOrder' /\ NothingKnown' /\ Follows' /\ SignalsJudged'
  <2>1. ToService(c) \in Requests
    BY DEF Requests
  <2> QED BY <1>1, <2>1, RequestsDiffer, Sent
<1>5. replies' \in Tables /\ \A k \in Keys :
        replies'[k] = IF k = ReplyKey THEN WithLookup[k] \cup {c} ELSE WithLookup[k]
  BY <1>1, <1>2, <1>3 DEF Tables
<1>6. calls \in [Serials -> {"unused", "waiting", "answered"}] /\ InOnePlace
  BY InvTypes DEF LookupInv
<1>7. InOnePlace'
  <2> SUFFICES ASSUME NEW s \in Serials
               PROVE  /\ \A k, l \in Keys : s \in replies'[k] /\ s \in replies'[l] => k = l
                      /\ calls'[s] = "waiting" <=> \E k \in Keys : s \in replies'[k]
    BY DEF InOnePlace
  <2>1. /\ \A k, l \in Keys : s \in WithLookup[k] /\ s \in WithLookup[l] => k = l
        /\ calls[s] = "waiting" <=> \E k \in Keys : s \in WithLookup[k]
    BY <1>2, <1>6 DEF InOnePlace
  <2>2. calls'[s] = IF s = c THEN "waiting" ELSE calls[s]
    BY <1>1, <1>6
  <2>3. CASE s = c
    <3>1. \A k \in Keys : s \in replies'[k] <=> k = ReplyKey
      <4>1. \A k \in Keys : s \notin WithLookup[k]
        BY <1>1, <2>1, <2>3
      <4> QED BY <1>3, <1>5, <2>3, <4>1
    <3> QED BY <1>3, <2>2, <2>3, <3>1
  <2>4. CASE s # c
    <3>1. \A k \in Keys : s \in replies'[k] <=> s \in WithLookup[k]
      BY <1>5, <2>4
    <3> QED BY <2>1, <2>2, <2>4, <3>1
  <2> QED BY <2>3, <2>4
<1>8. BusTypeOK' /\ LookupTypeOK'
  <2>1. calls' \in [Serials -> {"unused", "waiting", "answered"}]
    BY <1>1, <1>6
  <2> QED BY <1>1, <1>4, <1>5, <2>1, InvTypes DEF BusTypeOK, LookupTypeOK, Tables
<1>9. RepliesMoved'
  <2> SUFFICES ASSUME unique # None PROVE replies'[Service] = {}
    BY <1>1 DEF RepliesMoved
  <2>1. Service \in Keys /\ replies[Service] = {}
    BY DEF Keys, LookupInv, RepliesMoved
  <2> QED BY <1>2, <1>3, <1>5, <2>1
<1>10. SignalsFollowOwner'
  BY <1>1 DEF LookupInv, SignalsFollowOwner
<1> QED BY <1>4, <1>7, <1>8, <1>9, <1>10 DEF LookupInv

LEMMA MatchGoesOut == LookupInv /\ MatchService => LookupInv'
<1> SUFFICES ASSUME LookupInv, MatchService PROVE LookupInv'
  OBVIOUS
<1>1. /\ matching' = TRUE /\ lookup' = TRUE /\ replies' = WithLookup
      /\ toBus' = toBus \o LookupRequests \o <<SignalRule>>
      /\ UNCHANGED <<owner, rules, called, toClient, unique, calls, heard, fault>>
  BY Zenon DEF MatchService, busVars, SignalRule
<1>2. /\ WithLookup \in Tables /\ WithLookup[Service] = replies[Service]
      /\ \A s \in Serials, k \in Keys : s \in WithLookup[k] <=> s \in replies[k]
  BY QuestionRegistered
<1>3. /\ toBus' \in Seq(Requests)
      /\ NothingSent' /\ InOrder' /\ NothingKnown' /\ Follows' /\ SignalsJudged'
  <2>1. SignalRule \in Requests
    BY DEF Requests
  <2> QED BY <1>1, <2>1, RequestsDiffer, Sent
<1>4. BusTypeOK' /\ LookupTypeOK'
  BY <1>1, <1>2, <1>3, InvTypes DEF BusTypeOK, LookupTypeOK, Tables
<1>5. InOnePlace'
  BY <1>1, <1>2 DEF LookupInv, InOnePlace
<1>6. RepliesMoved' /\ SignalsFollowOwner'
  BY <1>1, <1>2 DEF LookupInv, RepliesMoved, SignalsFollowOwner
<1> QED BY <1>3, <1>4, <1>5, <1>6 DEF LookupInv

-----------------------------------------------------------------------------
(* The bus *)

LEMMA RequestKinds ==
  ASSUME NEW r \in Requests
  PROVE  /\ r.kind = "AddMatch" => \/ r = AskRule /\ r.rule = "owner"
                                   \/ r = SignalRule /\ r.rule = "signal"
         /\ r.kind = "GetNameOwner" => r = AskOwner
         /\ r.kind = "Call" => r.serial \in Serials /\ r \notin {AskRule, SignalRule, AskOwner}
<1>1. CASE r = AskRule
  BY <1>1 DEF AskRule
<1>2. CASE r = SignalRule
  BY <1>2 DEF SignalRule
<1>3. CASE r = AskOwner
  BY <1>3 DEF AskOwner
<1>4. CASE \E s \in Serials : r = ToService(s)
  <2>1. PICK s \in Serials : r = ToService(s)
    BY <1>4
  <2>2. r.kind = "Call" /\ r.serial = s
    BY <2>1 DEF ToService
  <2> QED BY <2>1, <2>2, RequestsDiffer
<1> QED BY <1>1, <1>2, <1>3, <1>4 DEF Requests

(* The bus takes a request. *)
LEMMA BusTakes ==
  ASSUME LookupInv, toBus # <<>>, toBus' = Tail(toBus), lookup' = lookup,
         "owner" \in rules' <=> "owner" \in rules \/ toBus[1] = AskRule,
         "signal" \in rules' <=> "signal" \in rules \/ toBus[1] = SignalRule
  PROVE  /\ toBus' \in Seq(Requests) /\ toBus[1] \in Requests /\ lookup
         /\ InOrder'
         /\ toBus[1] = AskOwner => "owner" \in rules
         /\ QuestionOnWay /\ toBus[1] # AskOwner => QuestionOnWay'
         /\ "owner" \notin rules => QuestionOnWay
<1>1. toBus \in Seq(Requests) /\ InOrder /\ lookup
  BY InvTypes DEF LookupInv, NothingSent
<1>2. PICK n \in Nat : n = Len(toBus)
  BY <1>1
<1>3. /\ toBus' \in Seq(Requests) /\ toBus[1] \in Requests
      /\ 1 \in 1..n /\ DOMAIN toBus = 1..n /\ DOMAIN toBus' = 1..(n - 1)
      /\ \A i \in 1..(n - 1) : toBus'[i] = toBus[i + 1]
  <2>1. /\ Tail(toBus) \in Seq(Requests) /\ toBus[1] \in Requests
        /\ 1 \in 1..Len(toBus) /\ DOMAIN toBus = 1..Len(toBus) /\ DOMAIN Tail(toBus) = 1..(Len(toBus) - 1)
        /\ \A i \in 1..(Len(toBus) - 1) : Tail(toBus)[i] = toBus[i + 1]
    BY <1>1, TailPlaces
  <2> QED BY <1>2, <2>1
<1>4. \A i \in DOMAIN toBus' : i + 1 \in DOMAIN toBus /\ toBus'[i] = toBus[i + 1]
  BY <1>3
<1>5. \A i \in DOMAIN toBus : i # 1 => i - 1 \in DOMAIN toBus' /\ toBus'[i - 1] = toBus[i]
  BY <1>3
<1>6. toBus[1] = AskOwner => "owner" \in rules
  <2>1. \A i \in 1..(1 - 1) : FALSE
    OBVIOUS
  <2> QED BY <1>1, <1>3, <2>1 DEF InOrder
<1>7. QuestionOnWay /\ toBus[1] # AskOwner => QuestionOnWay'
  BY <1>5 DEF QuestionOnWay
<1>8. "owner" \notin rules => QuestionOnWay
  BY <1>1 DEF InOrder, QuestionOnWay
<1>9. InOrder'
  <2>1. ASSUME "owner" \notin rules'
        PROVE  /\ \E j \in DOMAIN toBus' : toBus'[j] = AskOwner
               /\ \A j \in DOMAIN toBus' : toBus'[j] = AskOwner => \E i \in 1..(j - 1) : toBus'[i] = AskRule
    <3>1. "owner" \notin rules /\ toBus[1] # AskRule /\ toBus[1] # AskOwner
      BY <1>6, <2>1
    <3>2. \E j \in DOMAIN toBus' : toBus'[j] = AskOwner
      BY <1>7, <1>8, <3>1 DEF QuestionOnWay
    <3>3. ASSUME NEW j \in DOMAIN toBus', toBus'[j] = AskOwner
          PROVE  \E i \in 1..(j - 1) : toBus'[i] = AskRule
      <4>1. PICK i \in 1..((j + 1) - 1) : toBus[i] = AskRule
        BY <1>1, <1>4, <3>1, <3>3 DEF InOrder
      <4>2. i - 1 \in 1..(j - 1) /\ toBus'[i - 1] = toBus[i]
        BY <1>3, <3>1, <4>1
      <4> QED BY <4>1, <4>2
    <3> QED BY <3>2, <3>3
  <2>2. ASSUME NEW i \in DOMAIN toBus', NEW j \in DOMAIN toBus',
               toBus'[i] = SignalRule, toBus'[j] = AskOwner
        PROVE  j < i
    <3>1. j + 1 < i + 1
      BY <1>1, <1>4, <2>2 DEF InOrder
    <3> QED BY <1>3, <3>1
  <2>3. ASSUME "signal" \in rules', NEW j \in DOMAIN toBus' PROVE toBus'[j] # AskOwner
    <3>1. CASE "signal" \in rules
      BY <1>1, <1>4, <3>1 DEF InOrder
    <3>2. CASE toBus[1] = SignalRule
      <4>1. toBus'[j] = AskOwner => j + 1 < 1
        BY <1>1, <1>3, <1>4, <3>2 DEF InOrder
      <4> QED BY <1>3, <4>1
    <3> QED BY <2>3, <3>1, <3>2
  <2> QED BY <1>1, <2>1, <2>2, <2>3 DEF InOrder
<1> QED BY <1>1, <1>3, <1>6, <1>7, <1>8, <1>9

(* What the bus does without the client. *)
LEMMA ClientWaits ==
  ASSUME LookupInv, UNCHANGED followVars
  PROVE  InOnePlace' /\ RepliesMoved' /\ SignalsFollowOwner' /\ LookupTypeOK'
         /\ UNCHANGED <<lookup, unique, fault, matching>>
BY DEF LookupInv, followVars, InOnePlace, RepliesMoved, SignalsFollowOwner, LookupTypeOK

LEMMA BusWorks == LookupInv /\ BusStep => LookupInv'
<1> SUFFICES ASSUME LookupInv, BusStep PROVE LookupInv'
  OBVIOUS
<1> DEFINE m == toBus[1]
<1>1. /\ toBus # <<>> /\ toBus' = Tail(toBus) /\ UNCHANGED owner /\ UNCHANGED followVars
      /\ \/ m.kind = "AddMatch" /\ rules' = rules \cup {m.rule} /\ toClient' = toClient /\ called' = called
         \/ /\ m.kind = "GetNameOwner" /\ rules' = rules /\ called' = called
            /\ toClient' = Append(toClient, IF owner = None THEN [kind |-> "noowner"]
                                            ELSE [kind |-> "owner", name |-> owner])
         \/ /\ m.kind = "Call" /\ rules' = rules /\ toClient' = toClient
            /\ called' = IF owner = None THEN called ELSE [called EXCEPT ![owner] = @ \cup {m.serial}]
  BY DEF BusStep, Told
<1>2. InOnePlace' /\ RepliesMoved' /\ SignalsFollowOwner' /\ LookupTypeOK'
      /\ UNCHANGED <<lookup, unique, fault, matching>>
  BY <1>1, ClientWaits
<1>3. m \in Requests
  BY <1>1, InvTypes, TailPlaces
<1>4. /\ m.kind = "AddMatch" => \/ m = AskRule /\ m.rule = "owner"
                                \/ m = SignalRule /\ m.rule = "signal"
      /\ m.kind = "GetNameOwner" => m = AskOwner
      /\ m.kind = "Call" => m.serial \in Serials /\ m \notin {AskRule, SignalRule, AskOwner}
  BY <1>3, RequestKinds
<1>5. /\ "owner" \in rules' <=> "owner" \in rules \/ m = AskRule
      /\ "signal" \in rules' <=> "signal" \in rules \/ m = SignalRule
      /\ rules' \subseteq {"owner", "signal"}
  BY <1>1, <1>4, InvTypes, RequestsDiffer
<1>6. /\ toBus' \in Seq(Requests) /\ lookup /\ InOrder'
      /\ m = AskOwner => "owner" \in rules
      /\ QuestionOnWay /\ m # AskOwner => QuestionOnWay'
      /\ "owner" \notin rules => QuestionOnWay
  BY <1>1, <1>2, <1>5, BusTakes
<1>7. NothingSent'
  BY <1>2, <1>6 DEF NothingSent
<1> HIDE DEF m
<1>8. /\ toClient \in Seq(Messages) /\ called \in [Owners -> SUBSET Serials]
      /\ owner \in Owners \cup {None} /\ matching \in BOOLEAN /\ lookup \in BOOLEAN
      /\ NothingKnown /\ Follows /\ SignalsJudged
  BY InvTypes DEF LookupInv
<1>9. called' \in [Owners -> SUBSET Serials]
  BY <1>1, <1>4, <1>8
<1>10. CASE m = AskOwner
  <2> DEFINE a == IF owner = None THEN [kind |-> "noowner"] ELSE [kind |-> "owner", name |-> owner]
  <2>1. toClient' = Append(toClient, a) /\ rules' = rules
    BY <1>1, <1>4, <1>10, RequestsDiffer DEF AskOwner
  <2>2. /\ a \in Messages /\ a.kind # "signal"
        /\ owner = None => a.kind = "noowner" /\ ~News(a)
        /\ owner # None => News(a) /\ a.name = owner
    BY <1>8 DEF Messages, Found, NotFound, News
  <2> HIDE DEF a
  <2>3. toClient' \in Seq(Messages)
    BY <1>8, <2>1, <2>2
  <2>4. SignalsJudged'
    BY <1>2, <1>8, <2>1, <2>2, SignalsStay
  <2>5. NothingKnown'
    BY <1>6, <1>10, <2>1 DEF NothingKnown
  <2>6. /\ a.kind = "noowner" => RefusalOnWay'
        /\ ~News(a) /\ NoNews => NoNews'
        /\ ~News(a) => \A i \in DOMAIN toClient : LastNews(i) =>
             i \in DOMAIN toClient' /\ LastNews(i)' /\ toClient'[i] = toClient[i]
        /\ News(a) => \E i \in DOMAIN toClient' : LastNews(i)' /\ toClient'[i] = a
    BY <1>8, <2>1, <2>2, NewsStays
  <2>7. Follows'
    <3> SUFFICES ASSUME Alive
                 PROVE  \/ NoNews' /\ unique = NameOf(owner)
                        \/ NoNews' /\ unique = None /\ RefusalOnWay'
                        \/ \E i \in DOMAIN toClient' : LastNews(i)' /\ toClient'[i].name = NameOf(owner)
      BY <1>1, <1>2 DEF Follows, Alive, NameOf
    <3>1. CASE owner # None
      BY <2>2, <2>6, <3>1 DEF NameOf
    <3>2. CASE owner = None
      <4>1. \/ NoNews /\ unique = NameOf(owner)
            \/ NoNews /\ unique = None
            \/ \E i \in DOMAIN toClient : LastNews(i) /\ toClient[i].name = NameOf(owner)
        BY <1>6, <1>8, <1>10 DEF Follows
      <4> QED BY <2>2, <2>6, <3>2, <4>1
    <3> QED BY <3>1, <3>2
  <2>8. BusTypeOK'
    BY <1>1, <1>2, <1>5, <1>6, <1>8, <1>9, <2>3 DEF BusTypeOK
  <2> QED BY <1>2, <1>6, <1>7, <2>4, <2>5, <2>7, <2>8 DEF LookupInv
<1>11. CASE m # AskOwner
  <2>1. toClient' = toClient
    BY <1>1, <1>4, <1>11
  <2>2. SignalsJudged'
    BY <1>2, <1>8, <2>1 DEF SignalsJudged, Judged, Alive
  <2>3. NothingKnown'
    BY <1>2, <1>5, <1>8, <2>1 DEF NothingKnown, NoNews, RefusalOnWay
  <2>4. Follows'
    <3>1. "owner" \notin rules => NoNews /\ unique = None /\ QuestionOnWay'
      BY <1>6, <1>8, <1>11 DEF NothingKnown
    <3>2. QuestionOnWay => QuestionOnWay'
      BY <1>6, <1>11
    <3>3. (NoNews' <=> NoNews) /\ (RefusalOnWay' <=> RefusalOnWay)
      BY <2>1 DEF NoNews, RefusalOnWay
    <3>4. \A i : LastNews(i)' <=> LastNews(i)
      BY <2>1 DEF LastNews
    <3>5. (Alive' <=> Alive) /\ NameOf(owner)' = NameOf(owner)
      BY <1>1, <1>2 DEF Alive, NameOf
    <3> QED BY <1>2, <1>8, <2>1, <3>1, <3>2, <3>3, <3>4, <3>5 DEF Follows
  <2>5. BusTypeOK'
    BY <1>1, <1>2, <1>5, <1>6, <1>8, <1>9, <2>1 DEF BusTypeOK
  <2> QED BY <1>2, <1>6, <1>7, <2>2, <2>3, <2>4, <2>5 DEF LookupInv
<1> QED BY <1>10, <1>11

(* The service changes hands: that is news, once the bus has the rule. *)
LEMMA OwnerChanges ==
  ASSUME LookupInv, NEW new \in Owners \cup {None}, Change(new) PROVE LookupInv'
<1> DEFINE a == [kind |-> "changed", name |-> NameOf(new)]
<1>1. /\ owner' = new /\ UNCHANGED <<rules, called, toBus>> /\ UNCHANGED followVars
      /\ IF "owner" \in rules THEN toClient' = Append(toClient, a) ELSE toClient' = toClient
  BY DEF Change, Told, NameOf
<1>2. InOnePlace' /\ RepliesMoved' /\ SignalsFollowOwner' /\ LookupTypeOK'
      /\ UNCHANGED <<lookup, unique, fault, matching>>
  BY <1>1, ClientWaits
<1>3. /\ toClient \in Seq(Messages) /\ NothingKnown /\ Follows /\ SignalsJudged /\ InOrder /\ NothingSent
  BY InvTypes DEF LookupInv
<1>4. a \in Messages /\ News(a) /\ a.kind # "signal" /\ a.name = NameOf(new)
  BY DEF Messages, Changes, NameOf, News
<1> HIDE DEF a
<1>5. toClient' \in Seq(Messages)
  <2>1. Append(toClient, a) \in Seq(Messages)
    BY <1>3, <1>4
  <2> QED BY <1>1, <1>3, <2>1
<1>6. BusTypeOK'
  BY <1>1, <1>2, <1>5, InvTypes DEF BusTypeOK
<1>7. NothingSent' /\ InOrder'
  BY <1>1, <1>2, <1>3 DEF NothingSent, InOrder
<1>8. CASE "owner" \in rules
  <2>1. toClient' = Append(toClient, a)
    BY <1>1, <1>8
  <2>2. \E i \in DOMAIN toClient' : LastNews(i)' /\ toClient'[i] = a
    BY <1>3, <1>4, <2>1, NewsStays
  <2>3. Follows'
    <3>1. NameOf(owner)' = NameOf(new)
      BY <1>1 DEF NameOf
    <3> QED BY <1>4, <2>2, <3>1 DEF Follows
  <2>4. SignalsJudged'
    BY <1>2, <1>3, <1>4, <2>1, SignalsStay
  <2>5. NothingKnown'
    BY <1>1, <1>8 DEF NothingKnown
  <2> QED BY <1>2, <1>6, <1>7, <2>3, <2>4, <2>5 DEF LookupInv
<1>9. CASE "owner" \notin rules
  <2>1. toClient' = toClient
    BY <1>1, <1>9
  <2>2. SignalsJudged' /\ NothingKnown' /\ Follows'
    BY <1>1, <1>2, <1>3, <1>9, <2>1
       DEF SignalsJudged, Judged, Alive, NothingKnown, NoNews, RefusalOnWay, Follows
  <2> QED BY <1>2, <1>6, <1>7, <2>2 DEF LookupInv
<1> QED BY <1>8, <1>9

(* A message that is neither news nor a refusal leaves what is known. *)
LEMMA NoNewsSent ==
  ASSUME LookupInv, NEW a \in Messages, ~News(a), a.kind # "noowner", toClient' = Append(toClient, a),
         UNCHANGED followVars, UNCHANGED <<owner, rules, toBus>>, lookup
  PROVE  /\ toClient' \in Seq(Messages)
         /\ NothingSent' /\ InOrder' /\ NothingKnown' /\ Follows'
<1>1. UNCHANGED <<lookup, unique, fault>>
  BY DEF followVars
<1>2. /\ toClient \in Seq(Messages) /\ NothingKnown /\ Follows /\ InOrder
  BY InvTypes DEF LookupInv
<1>3. toClient' \in Seq(Messages) /\ NothingSent' /\ InOrder'
  BY <1>1, <1>2 DEF NothingSent, InOrder
<1>4. /\ RefusalOnWay => RefusalOnWay'
      /\ NoNews => NoNews'
      /\ \A i \in DOMAIN toClient : LastNews(i) =>
           i \in DOMAIN toClient' /\ LastNews(i)' /\ toClient'[i] = toClient[i]
  BY <1>2, NewsStays
<1>5. RefusalOnWay' => RefusalOnWay
  <2>1. /\ DOMAIN toClient = 1..Len(toClient) /\ DOMAIN toClient' = 1..(Len(toClient) + 1)
        /\ Len(toClient) \in Nat
        /\ \A i \in 1..Len(toClient) : toClient'[i] = toClient[i]
        /\ toClient'[Len(toClient) + 1] = a
    BY <1>2, AppendPlaces
  <2> SUFFICES ASSUME NEW i \in DOMAIN toClient', toClient'[i].kind = "noowner" PROVE RefusalOnWay
    BY DEF RefusalOnWay
  <2>2. i \in DOMAIN toClient /\ toClient[i].kind = "noowner"
    BY <2>1
  <2> QED BY <2>2 DEF RefusalOnWay
<1>6. NothingKnown'
  BY <1>1, <1>2, <1>4, <1>5 DEF NothingKnown
<1>7. Follows'
  <2>1. (Alive' <=> Alive) /\ NameOf(owner)' = NameOf(owner) /\ (QuestionOnWay' <=> QuestionOnWay)
    BY <1>1 DEF Alive, NameOf, QuestionOnWay
  <2> QED BY <1>1, <1>2, <1>4, <2>1 DEF Follows
<1> QED BY <1>3, <1>6, <1>7

LEMMA OwnerAnswers ==
  ASSUME LookupInv, NEW x \in Owners, NEW s \in Serials, NEW type \in {"return", "error"},
         Answer(x, s, type)
  PROVE  LookupInv'
<1> DEFINE a == [kind |-> type, serial |-> s, from |-> x]
<1>1. /\ s \in called[x] /\ called' = [called EXCEPT ![x] = @ \ {s}] /\ toClient' = Append(toClient, a)
      /\ UNCHANGED <<owner, rules, toBus>> /\ UNCHANGED followVars
  BY DEF Answer, Told
<1>2. InOnePlace' /\ RepliesMoved' /\ SignalsFollowOwner' /\ LookupTypeOK'
      /\ UNCHANGED <<lookup, unique, fault, matching>>
  BY <1>1, ClientWaits
<1>3. a \in Messages /\ ~News(a) /\ a.kind # "signal" /\ a.kind # "noowner"
  BY DEF Messages, Answers, News
<1> HIDE DEF a
<1>4. lookup
  BY <1>1 DEF LookupInv, NothingSent
<1>5. /\ toClient' \in Seq(Messages)
      /\ NothingSent' /\ InOrder' /\ NothingKnown' /\ Follows'
  BY <1>1, <1>3, <1>4, NoNewsSent
<1>6. SignalsJudged'
  BY <1>1, <1>2, <1>3, InvTypes, SignalsStay DEF LookupInv
<1>7. called' \in [Owners -> SUBSET Serials]
  BY <1>1, InvTypes
<1>8. BusTypeOK'
  BY <1>1, <1>2, <1>5, <1>7, InvTypes DEF BusTypeOK
<1> QED BY <1>2, <1>5, <1>6, <1>8 DEF LookupInv

(* A signal: the last news before it names the owner, so it is known whether that is
   its sender. *)
LEMMA SignalGoesOut ==
  ASSUME LookupInv, NEW x \in Owners, Signal(x) PROVE LookupInv'
<1> DEFINE a == [kind |-> "signal", from |-> x, owned |-> x = owner]
<1>1. /\ "signal" \in rules /\ toClient' = Append(toClient, a)
      /\ UNCHANGED <<owner, rules, called, toBus>> /\ UNCHANGED followVars
  BY DEF Signal, Told
<1>2. InOnePlace' /\ RepliesMoved' /\ SignalsFollowOwner' /\ LookupTypeOK'
      /\ UNCHANGED <<lookup, unique, fault, matching>>
  BY <1>1, ClientWaits
<1>3. /\ a \in Messages /\ ~News(a) /\ a.kind = "signal" /\ a.from = x /\ a.owned = (x = owner)
      /\ a.kind # "noowner"
  BY DEF Messages, Heard, News
<1> HIDE DEF a
<1>4. lookup /\ "owner" \in rules /\ ~QuestionOnWay
  BY <1>1 DEF LookupInv, InOrder, QuestionOnWay
<1>5. /\ toClient' \in Seq(Messages)
      /\ NothingSent' /\ InOrder' /\ NothingKnown' /\ Follows'
  BY <1>1, <1>3, <1>4, NoNewsSent
<1>6. /\ toClient \in Seq(Messages) /\ owner \in Owners \cup {None}
      /\ SignalsJudged /\ Follows
  BY InvTypes DEF LookupInv
<1>7. PICK n \in Nat : n = Len(toClient)
  BY <1>6
<1>8. /\ DOMAIN toClient = 1..n /\ DOMAIN toClient' = 1..(n + 1)
      /\ \A i \in 1..n : toClient'[i] = toClient[i]
      /\ toClient'[n + 1] = a
  <2>1. /\ DOMAIN toClient = 1..Len(toClient) /\ DOMAIN Append(toClient, a) = 1..(Len(toClient) + 1)
        /\ \A i \in 1..Len(toClient) : Append(toClient, a)[i] = toClient[i]
        /\ Append(toClient, a)[Len(toClient) + 1] = a
    BY <1>3, <1>6, AppendPlaces
  <2> QED BY <1>1, <1>7, <2>1
<1>9. (NameOf(owner) = x) = (x = owner) /\ NameOf(owner) # None
  BY <1>6, NamesDiffer DEF NameOf
<1>10. Alive => Judged(n + 1)'
  <2> SUFFICES ASSUME Alive PROVE Judged(n + 1)'
    OBVIOUS
  <2>0. (n + 1) - 1 = n
    BY <1>7
  <2>1. CASE NoNews /\ unique = NameOf(owner)
    <3>1. \A j \in 1..((n + 1) - 1) : ~News(toClient'[j])
      BY <1>8, <2>0, <2>1 DEF NoNews
    <3>2. unique' # None /\ toClient'[n + 1].owned = (unique' = toClient'[n + 1].from)
      BY <1>2, <1>3, <1>8, <1>9, <2>1
    <3> QED BY <3>1, <3>2 DEF Judged
  <2>2. CASE NoNews /\ unique = None /\ (QuestionOnWay \/ RefusalOnWay)
    <3>1. \E j \in 1..((n + 1) - 1) : toClient'[j].kind = "noowner"
      BY <1>4, <1>8, <2>0, <2>2 DEF RefusalOnWay
    <3> QED BY <3>1 DEF Judged
  <2>3. CASE \E i \in DOMAIN toClient : LastNews(i) /\ toClient[i].name = NameOf(owner)
    <3>1. PICK i \in DOMAIN toClient : LastNews(i) /\ toClient[i].name = NameOf(owner)
      BY <2>3
    <3>2. i \in 1..((n + 1) - 1) /\ News(toClient'[i]) /\ toClient'[i].name = NameOf(owner)
      BY <1>8, <2>0, <3>1 DEF LastNews
    <3>3. \A l \in (i + 1)..((n + 1) - 1) : ~News(toClient'[l])
      <4> TAKE l \in (i + 1)..((n + 1) - 1)
      <4>1. l \in (i + 1)..Len(toClient) /\ toClient'[l] = toClient[l]
        BY <1>7, <1>8, <2>0, <3>2
      <4> QED BY <3>1, <4>1 DEF LastNews
    <3>4. toClient'[n + 1].owned = (toClient'[i].name = toClient'[n + 1].from)
      BY <1>3, <1>8, <1>9, <3>2
    <3> QED BY <3>2, <3>3, <3>4 DEF Judged
  <2> QED BY <1>4, <1>6, <2>1, <2>2, <2>3 DEF Follows
<1>11. SignalsJudged'
  <2> SUFFICES ASSUME Alive, NEW i \in DOMAIN toClient', toClient'[i].kind = "signal"
               PROVE  Judged(i)'
    BY <1>2 DEF SignalsJudged, Alive
  <2>1. CASE i = n + 1
    BY <1>10, <2>1
  <2>2. CASE i # n + 1
    <3>1. i \in DOMAIN toClient /\ toClient[i].kind = "signal"
      BY <1>8, <2>2
    <3>2. Judged(i)
      BY <1>6, <3>1 DEF SignalsJudged
    <3> QED BY <1>1, <1>2, <1>3, <1>6, <3>1, <3>2, JudgedStays
  <2> QED BY <2>1, <2>2
<1>12. BusTypeOK'
  BY <1>1, <1>2, <1>5, InvTypes DEF BusTypeOK
<1> QED BY <1>2, <1>5, <1>11, <1>12 DEF LookupInv

-----------------------------------------------------------------------------
(* The invariant *)

LEMMA LookupStarts == LookupInit => LookupInv
<1> SUFFICES ASSUME LookupInit PROVE LookupInv
  OBVIOUS
<1>1. <<>> \in Seq(Requests) /\ <<>> \in Seq(Messages) /\ DOMAIN <<>> = {}
  OBVIOUS
<1>2. BusTypeOK /\ LookupTypeOK /\ NothingSent
  BY <1>1, NamesAssumption DEF LookupInit, BusTypeOK, LookupTypeOK, NothingSent
<1>3. InOnePlace /\ RepliesMoved /\ SignalsFollowOwner
  BY DEF LookupInit, InOnePlace, RepliesMoved, SignalsFollowOwner
<1>4. InOrder /\ NothingKnown /\ Follows /\ SignalsJudged
  <2>1. DOMAIN toBus = {} /\ DOMAIN toClient = {} /\ rules = {} /\ ~lookup /\ unique = None
    BY <1>1 DEF LookupInit
  <2> QED BY <2>1 DEF InOrder, NothingKnown, NoNews, RefusalOnWay, Follows, SignalsJudged
<1> QED BY <1>2, <1>3, <1>4 DEF LookupInv

LEMMA LookupSteps == LookupInv /\ [LookupNext]_lookupVars => LookupInv'
<1> SUFFICES ASSUME LookupInv, [LookupNext]_lookupVars PROVE LookupInv'
  OBVIOUS
<1>1. CASE \E s \in Serials : CallService(s)
  BY <1>1, CallGoesOut
<1>2. CASE \E type \in {"return", "error"} : DispatchReply(type)
  BY <1>2, ReplyComes
<1>3. CASE \E new \in Owners \cup {None} : Change(new)
  BY <1>3, OwnerChanges
<1>4. CASE \E x \in Owners, s \in Serials, type \in {"return", "error"} : Answer(x, s, type)
  BY <1>4, OwnerAnswers
<1>5. CASE \E x \in Owners : Signal(x)
  BY <1>5, SignalGoesOut
<1>6. CASE MatchService \/ NameOwnerChanged \/ GetNameOwner \/ GetNameOwnerFails \/ DispatchSignal \/ BusStep
  BY <1>6, MatchGoesOut, NewChange, NewOwner, NoOwner, SignalComes, BusWorks
<1>7. CASE UNCHANGED lookupVars
  <2>1. /\ UNCHANGED <<owner, rules, called, toBus, toClient>> /\ UNCHANGED followVars
    BY <1>7 DEF lookupVars, busVars
  <2>2. InOnePlace' /\ RepliesMoved' /\ SignalsFollowOwner' /\ LookupTypeOK'
        /\ UNCHANGED <<lookup, unique, fault, matching>>
    BY <2>1, ClientWaits
  <2>3. BusTypeOK' /\ NothingSent' /\ InOrder'
    BY <2>1, <2>2 DEF LookupInv, BusTypeOK, NothingSent, InOrder
  <2>4. NothingKnown' /\ SignalsJudged'
    BY <2>1, <2>2 DEF LookupInv, NothingKnown, NoNews, RefusalOnWay, SignalsJudged, Judged, Alive
  <2>5. Follows'
    BY <2>1, <2>2 DEF LookupInv, Follows, NoNews, RefusalOnWay, QuestionOnWay, LastNews, Alive, NameOf
  <2> QED BY <2>2, <2>3, <2>4, <2>5 DEF LookupInv
<1> QED BY <1>1, <1>2, <1>3, <1>4, <1>5, <1>6, <1>7 DEF LookupNext

LEMMA LookupImplies == LookupInv => LookupSound
<1> SUFFICES ASSUME LookupInv PROVE LookupSound
  OBVIOUS
<1>1. OneRegistration
  <2> SUFFICES ASSUME NEW s \in Serials
               PROVE  Cardinality({k \in Keys : s \in replies[k]})
                        = IF calls[s] = "waiting" THEN 1 ELSE 0
    BY DEF OneRegistration
  <2>1. /\ \A k, l \in Keys : s \in replies[k] /\ s \in replies[l] => k = l
        /\ calls[s] = "waiting" <=> \E k \in Keys : s \in replies[k]
    BY DEF LookupInv, InOnePlace
  <2>2. CASE calls[s] = "waiting"
    <3>1. PICK k \in Keys : s \in replies[k]
      BY <2>1, <2>2
    <3>2. {l \in Keys : s \in replies[l]} = {k}
      BY <2>1, <3>1
    <3> QED BY <2>2, <3>2, FS_Singleton
  <2>3. CASE calls[s] # "waiting"
    <3>1. {l \in Keys : s \in replies[l]} = {}
      BY <2>1, <2>3
    <3> QED BY <2>3, <3>1, FS_EmptySet
  <2> QED BY <2>2, <2>3
<1>2. LookupSettles
  <2> SUFFICES ASSUME lookup, Alive, toBus = <<>>, toClient = <<>>
               PROVE  IF owner = None THEN unique \in {Empty, None} ELSE unique = owner
    BY DEF LookupSettles
  <2>1. DOMAIN toBus = {} /\ DOMAIN toClient = {}
    OBVIOUS
  <2>2. "owner" \in rules
    BY <2>1 DEF LookupInv, InOrder
  <2>3. unique = NameOf(owner)
    BY <2>1, <2>2 DEF LookupInv, Follows, QuestionOnWay, RefusalOnWay
  <2> QED BY <2>3 DEF NameOf
<1> QED BY <1>1, <1>2 DEF LookupInv, LookupSound

(* For any number of owners, calls, changes and signals, however what the bus, the
   owners and the client do is interleaved: a call waits in exactly one place of the
   reply table until it is answered; when nothing is on its way the lookup holds the
   owner; no reply stays under the service name once the owner is known; and a match
   by name takes a signal exactly if its sender owned the service when it sent it. *)
THEOREM LookupIsSound == LookupSpec => []LookupSound
<1>1. LookupSpec => []LookupInv
  BY LookupStarts, LookupSteps, PTL DEF LookupSpec
<1> QED BY <1>1, LookupImplies, PTL

-----------------------------------------------------------------------------
(***************************************************************************)
(* adbus_State (module StateTracker): until the program is stopped a state *)
(* lists what it has registered and nothing that is gone, tells the owner  *)
(* of each service once, and leaves nothing behind when it is reset; on    *)
(* one thread nothing stops it, on two a reset of listed services does.    *)
(*                                                                         *)
(* The invariant follows each service on its way: it is about to be added  *)
(* (a callback on the way to the connection), it is listed, its struct is  *)
(* about to be freed (a callback on the way back), its owner is about to   *)
(* be told, and it has been told.  No two of these hold at once.  Each     *)
(* struct Conn is the current one or has its reset on the way, behind the  *)
(* services that are about to be added to it.                              *)
(***************************************************************************)

Structs == 1..MaxConns

(* The callbacks that are on the way. *)
Adding(d) == [op |-> "add", of |-> d]
Resetting(e) == [op |-> "reset", of |-> e]
Freeing(d) == [op |-> "free", of |-> d]
Telling(d) == [op |-> "told", of |-> d]

ToConnType == {Adding(d) : d \in Tracked} \cup {Resetting(e) : e \in Structs}
ToLocalType == {Freeing(d) : d \in Tracked} \cup {Telling(d) : d \in Tracked}

(* The types of the variables. *)
StateTypeOK ==
  /\ proxied \in BOOLEAN
  /\ current \in 0..MaxConns
  /\ conns \in [Structs -> {"new", "live", "freed"}]
  /\ connOf \in [Tracked -> 0..MaxConns]
  /\ tracked \in [Structs -> Seq(Tracked)]
  /\ services \subseteq Tracked /\ freed \subseteq Tracked
  /\ toConn \in Seq(ToConnType) /\ toLocal \in Seq(ToLocalType)
  /\ Once(toConn) /\ Once(toLocal)

(* A service that is about to be added has its struct Conn and is nowhere else yet. *)
AddPending ==
  \A d \in Tracked : Adding(d) \in ToSet(toConn) =>
    /\ connOf[d] # 0 /\ conns[connOf[d]] = "live" /\ d \notin freed
    /\ \A e \in Structs : d \notin ToSet(tracked[e])

(* What the lists hold. *)
ListsHold ==
  \A e \in Structs :
    /\ Once(tracked[e])
    /\ \A d \in ToSet(tracked[e]) : connOf[d] = e /\ d \notin freed /\ conns[e] = "live"

(* A struct Data that is about to be freed is still listed; an owner that is about to
   be told has not been. *)
FreePending ==
  \A d \in Tracked : Freeing(d) \in ToSet(toLocal) =>
    connOf[d] # 0 /\ d \in ToSet(tracked[connOf[d]]) /\ d \notin services
TellPending ==
  \A d \in Tracked : Telling(d) \in ToSet(toLocal) => d \in freed /\ told[d] = 0

FreedWasAdded == \A d \in freed : connOf[d] # 0

(* The connection has what is listed, on one thread; on two it may have let go of it. *)
Registered ==
  /\ \A d \in services : connOf[d] # 0 /\ d \in ToSet(tracked[connOf[d]])
  /\ ~proxied => \A e \in Structs : ToSet(tracked[e]) \subseteq services

OneThread == ~proxied => toConn = <<>> /\ toLocal = <<>>

LiveStructs(c) == {e \in Structs : c[e] = "live"}

(* The live structs are the current one and those with a reset on the way. *)
StructsLive ==
  /\ current # 0 => conns[current] = "live"
  /\ \A e \in Structs : Resetting(e) \in ToSet(toConn) => conns[e] = "live" /\ e # current
  /\ \A e \in Structs : conns[e] = "live" => e = current \/ Resetting(e) \in ToSet(toConn)
  /\ connRefs = Cardinality(LiveStructs(conns))

(* A reset comes after the services that were added before it. *)
AddsFirst ==
  \A i \in DOMAIN toConn, d \in Tracked : toConn[i] = Adding(d) =>
    \/ connOf[d] = current
    \/ \E j \in DOMAIN toConn : j > i /\ toConn[j] = Resetting(connOf[d])

(* The structs are used in order. *)
UsedInOrder ==
  \E last \in 0..MaxConns : \A e \in Structs : conns[e] = "new" <=> e > last

(* The owners are told once. *)
ToldSoFar ==
  /\ told \in [Tracked -> {0, 1}]
  /\ \A d \in Tracked : told[d] = 1 => d \in freed /\ d \notin services

StateCore ==
  /\ StateTypeOK /\ AddPending /\ ListsHold /\ FreePending /\ TellPending
  /\ FreedWasAdded /\ Registered /\ OneThread /\ StructsLive /\ AddsFirst /\ UsedInOrder

(* A service that has been added is on its way, listed or freed. *)
Accounted ==
  \A d \in Tracked : connOf[d] # 0 =>
    Adding(d) \in ToSet(toConn) \/ d \in ToSet(tracked[connOf[d]]) \/ d \in freed

(* On one thread the owner is told at once. *)
ToldHere == ~proxied => \A d \in freed : told[d] = 1

(* When the program is stopped nothing more happens. *)
StateInv ==
  /\ ToldSoFar /\ HarmAcrossThreads
  /\ Unharmed => StateCore /\ Accounted /\ ToldHere
  /\ ~Unharmed => ResetOutcome
-----------------------------------------------------------------------------
(* Facts about callbacks, lists and structs *)

(* Callbacks differ when they do different things or are for different services. *)
LEMMA CallbacksDiffer ==
  \A x, y :
    /\ Adding(x) = Adding(y) <=> x = y
    /\ Resetting(x) = Resetting(y) <=> x = y
    /\ Freeing(x) = Freeing(y) <=> x = y
    /\ Telling(x) = Telling(y) <=> x = y
    /\ Adding(x) # Resetting(y) /\ Freeing(x) # Telling(y)
    /\ Adding(x).op = "add" /\ Resetting(x).op = "reset"
    /\ Freeing(x).op = "free" /\ Telling(x).op = "told"
    /\ Adding(x).of = x /\ Resetting(x).of = x /\ Freeing(x).of = x /\ Telling(x).of = x
  BY DEF Adding, Resetting, Freeing, Telling

(* What is at the head of the queues. *)
LEMMA HeadOfToConn ==
  ASSUME StateTypeOK, toConn # <<>>
  PROVE  /\ Head(toConn).op = "add" =>
              Head(toConn).of \in Tracked /\ Head(toConn) = Adding(Head(toConn).of)
         /\ Head(toConn).op = "reset" =>
              Head(toConn).of \in Structs /\ Head(toConn) = Resetting(Head(toConn).of)
<1>1. Head(toConn) \in ToConnType
  BY TailFacts DEF StateTypeOK
<1> QED BY <1>1, CallbacksDiffer DEF ToConnType

LEMMA HeadOfToLocal ==
  ASSUME StateTypeOK, toLocal # <<>>
  PROVE  /\ Head(toLocal).op = "free" =>
              Head(toLocal).of \in Tracked /\ Head(toLocal) = Freeing(Head(toLocal).of)
         /\ Head(toLocal).op = "told" =>
              Head(toLocal).of \in Tracked /\ Head(toLocal) = Telling(Head(toLocal).of)
<1>1. Head(toLocal) \in ToLocalType
  BY TailFacts DEF StateTypeOK
<1> QED BY <1>1, CallbacksDiffer DEF ToLocalType

(* What FreeData leaves on the lists. *)
LEMMA ListsWithout ==
  ASSUME NEW t \in [Structs -> Seq(Tracked)], NEW ds
  PROVE  LET u == [e \in DOMAIN t |-> Without(t[e], ds)]
         IN  /\ u \in [Structs -> Seq(Tracked)]
             /\ \A e \in Structs : ToSet(u[e]) = ToSet(t[e]) \ ds /\ (Once(t[e]) => Once(u[e]))
<1> DEFINE u == [e \in DOMAIN t |-> Without(t[e], ds)]
<1>1. ASSUME NEW e \in Structs
      PROVE  /\ u[e] \in Seq(Tracked)
             /\ ToSet(u[e]) = ToSet(t[e]) \ ds /\ (Once(t[e]) => Once(u[e]))
  <2>1. t[e] \in Seq(Tracked) /\ u[e] = Without(t[e], ds)
    OBVIOUS
  <2> HIDE DEF u
  <2> QED BY <2>1, WithoutFacts
<1>2. DOMAIN u = Structs
  OBVIOUS
<1>3. u \in [Structs -> Seq(Tracked)]
  BY <1>1, <1>2
<1> HIDE DEF u
<1>4. \A e \in Structs : ToSet(u[e]) = ToSet(t[e]) \ ds /\ (Once(t[e]) => Once(u[e]))
  BY <1>1
<1> QED BY <1>3, <1>4 DEF u

(* A service that has not been added is nowhere. *)
LEMMA NotYetAdded ==
  ASSUME ToldSoFar, StateCore, NEW d \in Tracked, connOf[d] = 0
  PROVE  /\ d \notin services /\ d \notin freed /\ told[d] = 0
         /\ \A e \in Structs : d \notin ToSet(tracked[e])
         /\ Adding(d) \notin ToSet(toConn)
         /\ Freeing(d) \notin ToSet(toLocal) /\ Telling(d) \notin ToSet(toLocal)
<1>1. d \notin freed /\ told[d] = 0
  BY DEF StateCore, FreedWasAdded, ToldSoFar
<1>2. d \notin services
  BY DEF StateCore, Registered
<1>3. \A e \in Structs : d \notin ToSet(tracked[e])
  BY DEF StateCore, ListsHold, Structs
<1>4. Adding(d) \notin ToSet(toConn)
  BY DEF StateCore, AddPending
<1>5. Freeing(d) \notin ToSet(toLocal)
  BY DEF StateCore, FreePending
<1>6. Telling(d) \notin ToSet(toLocal)
  BY <1>1 DEF StateCore, TellPending
<1> QED BY <1>1, <1>2, <1>3, <1>4, <1>5, <1>6

LEMMA LiveFinite ==
  ASSUME MaxConns \in Nat
  PROVE  \A c : IsFiniteSet(LiveStructs(c))
<1>1. IsFiniteSet(Structs)
  BY FS_Interval DEF Structs
<1>2. \A c : LiveStructs(c) \subseteq Structs
  BY DEF LiveStructs
<1> QED BY <1>1, <1>2, FS_Subset

(* LookupConnection: the service gets the current struct, or a new one. *)
LEMMA LookupEffect ==
  ASSUME MaxConns \in Nat, StateCore, NEW d \in Tracked, LookupConnection(d)
  PROVE  \E e \in Structs :
           /\ connOf' = [connOf EXCEPT ![d] = e]
           /\ current' = e
           /\ conns' = [conns EXCEPT ![e] = "live"]
           /\ current \in {0, e}
           /\ conns[e] = "live" => current = e
           /\ connRefs' = Cardinality(LiveStructs(conns'))
           /\ UsedInOrder'
           /\ conns[e] # "freed"
<1>0. /\ conns \in [Structs -> {"new", "live", "freed"}] /\ current \in 0..MaxConns
      /\ current # 0 => conns[current] = "live"
      /\ connRefs = Cardinality(LiveStructs(conns))
      /\ UsedInOrder
  BY DEF StateCore, StateTypeOK, StructsLive, LiveStructs
<1>1. CASE current # 0
  <2>1. connOf' = [connOf EXCEPT ![d] = current] /\ UNCHANGED <<current, conns, connRefs>>
    BY <1>1 DEF LookupConnection
  <2>2. current \in Structs /\ conns[current] = "live"
    BY <1>0, <1>1 DEF Structs
  <2>3. conns' = [conns EXCEPT ![current] = "live"]
    BY <1>0, <2>1, <2>2
  <2>4. UsedInOrder'
    BY <1>0, <2>1 DEF UsedInOrder
  <2>5. connRefs' = Cardinality(LiveStructs(conns'))
    BY <1>0, <2>1
  <2>6. current' = current
    BY <2>1
  <2> QED BY <2>1, <2>2, <2>3, <2>4, <2>5, <2>6
<1>2. CASE current = 0
  <2> DEFINE fresh == CHOOSE e \in DOMAIN conns :
                        conns[e] = "new" /\ \A f \in 1..(e - 1) : conns[f] # "new"
  <2>1. /\ \E e \in DOMAIN conns : conns[e] = "new"
        /\ connOf' = [connOf EXCEPT ![d] = fresh]
        /\ current' = fresh
        /\ conns' = [conns EXCEPT ![fresh] = "live"]
        /\ connRefs' = connRefs + 1
    BY <1>2 DEF LookupConnection
  <2>2. PICK last \in 0..MaxConns : \A e \in Structs : conns[e] = "new" <=> e > last
    BY <1>0 DEF UsedInOrder
  <2>3. last + 1 \in Structs /\ conns[last + 1] = "new"
        /\ \A f \in 1..((last + 1) - 1) : conns[f] # "new"
    BY <1>0, <2>1, <2>2 DEF Structs
  <2>4. /\ fresh \in Structs /\ conns[fresh] = "new"
        /\ \A f \in 1..(fresh - 1) : conns[f] # "new"
    BY <1>0, <2>3
  <2> HIDE DEF fresh
  <2>5. fresh = last + 1
    BY <2>2, <2>3, <2>4 DEF Structs
  <2>6. UsedInOrder'
    <3>1. \A e \in Structs : conns'[e] = "new" <=> e > last + 1
      BY <1>0, <2>1, <2>2, <2>5 DEF Structs
    <3>2. last + 1 \in 0..MaxConns
      BY <2>3 DEF Structs
    <3> QED BY <3>1, <3>2 DEF UsedInOrder
  <2>7. connRefs' = Cardinality(LiveStructs(conns'))
    <3>1. LiveStructs(conns') = LiveStructs(conns) \cup {fresh} /\ fresh \notin LiveStructs(conns)
      BY <1>0, <2>1, <2>4 DEF LiveStructs
    <3>2. IsFiniteSet(LiveStructs(conns))
      BY LiveFinite
    <3>3. Cardinality(LiveStructs(conns) \cup {fresh}) = Cardinality(LiveStructs(conns)) + 1
      BY <3>1, <3>2, FS_AddElement
    <3> QED BY <1>0, <2>1, <3>1, <3>3
  <2> QED BY <1>2, <2>1, <2>4, <2>6, <2>7
<1> QED BY <1>1, <1>2
-----------------------------------------------------------------------------
(* Each step keeps the invariant. *)

(* What the invariant says, one fact at a time. *)
LEMMA CoreFacts ==
  ASSUME StateCore
  PROVE  /\ proxied \in BOOLEAN /\ current \in 0..MaxConns
         /\ conns \in [Structs -> {"new", "live", "freed"}]
         /\ connOf \in [Tracked -> 0..MaxConns]
         /\ tracked \in [Structs -> Seq(Tracked)]
         /\ services \subseteq Tracked /\ freed \subseteq Tracked
         /\ toConn \in Seq(ToConnType) /\ toLocal \in Seq(ToLocalType)
         /\ Once(toConn) /\ Once(toLocal)
  BY DEF StateCore, StateTypeOK

(* An addition that is sent to the connection's thread. *)
LEMMA AddIsSent ==
  ASSUME MaxConns \in Nat, ToldSoFar, StateCore, NEW d \in Tracked, connOf[d] = 0,
         LookupConnection(d), proxied, toConn' = Append(toConn, Adding(d)),
         UNCHANGED <<proxied, services, tracked, freed, told, toLocal>>
  PROVE  StateCore'
<1>1. PICK e \in Structs :
        /\ connOf' = [connOf EXCEPT ![d] = e]
        /\ current' = e
        /\ conns' = [conns EXCEPT ![e] = "live"]
        /\ current \in {0, e}
        /\ conns[e] = "live" => current = e
        /\ connRefs' = Cardinality(LiveStructs(conns'))
        /\ UsedInOrder'
        /\ conns[e] # "freed"
  BY LookupEffect
<1>2. /\ d \notin services /\ d \notin freed /\ told[d] = 0
      /\ \A f \in Structs : d \notin ToSet(tracked[f])
      /\ Adding(d) \notin ToSet(toConn)
      /\ Freeing(d) \notin ToSet(toLocal) /\ Telling(d) \notin ToSet(toLocal)
  BY NotYetAdded
<1>t. /\ proxied \in BOOLEAN /\ current \in 0..MaxConns
      /\ conns \in [Structs -> {"new", "live", "freed"}]
      /\ connOf \in [Tracked -> 0..MaxConns]
      /\ tracked \in [Structs -> Seq(Tracked)]
      /\ services \subseteq Tracked /\ freed \subseteq Tracked
      /\ toConn \in Seq(ToConnType) /\ toLocal \in Seq(ToLocalType)
      /\ Once(toConn) /\ Once(toLocal)
  BY CoreFacts
<1>3. /\ toConn' \in Seq(ToConnType) /\ ToSet(toConn') = ToSet(toConn) \cup {Adding(d)}
      /\ Once(toConn')
  <2>1. Adding(d) \in ToConnType
    BY DEF ToConnType
  <2>2. /\ Append(toConn, Adding(d)) \in Seq(ToConnType)
        /\ ToSet(Append(toConn, Adding(d))) = ToSet(toConn) \cup {Adding(d)}
        /\ Once(toConn) /\ Adding(d) \notin ToSet(toConn) => Once(Append(toConn, Adding(d)))
    BY <1>t, <2>1, AppendFacts
  <2> QED BY <1>2, <1>t, <2>2
<1>4. /\ \A c \in Tracked : c # d => connOf'[c] = connOf[c]
      /\ connOf'[d] = e /\ e # 0 /\ conns'[e] = "live"
      /\ \A f \in Structs : f # e => conns'[f] = conns[f]
      /\ \A f \in Structs : conns[f] = "live" => conns'[f] = "live"
  BY <1>1, <1>t DEF Structs
<1>5. StateTypeOK'
  <2>1. e \in 0..MaxConns
    BY DEF Structs
  <2>2. conns' \in [Structs -> {"new", "live", "freed"}] /\ connOf' \in [Tracked -> 0..MaxConns]
    BY <1>1, <1>t, <2>1
  <2> QED BY <1>1, <1>3, <1>t, <2>1, <2>2 DEF StateTypeOK
<1>6. AddPending'
  <2> SUFFICES ASSUME NEW c \in Tracked, Adding(c) \in ToSet(toConn')
               PROVE  /\ connOf'[c] # 0 /\ conns'[connOf'[c]] = "live" /\ c \notin freed'
                      /\ \A f \in Structs : c \notin ToSet(tracked'[f])
    BY DEF AddPending
  <2>1. CASE c = d
    BY <1>2, <1>4, <2>1
  <2>2. CASE c # d
    <3>1. Adding(c) \in ToSet(toConn)
      BY <1>3, <2>2, CallbacksDiffer
    <3>2. /\ connOf[c] # 0 /\ conns[connOf[c]] = "live" /\ c \notin freed
          /\ \A f \in Structs : c \notin ToSet(tracked[f])
      BY <3>1 DEF StateCore, AddPending
    <3>3. connOf[c] \in Structs
      BY <1>t, <3>2 DEF Structs
    <3> QED BY <1>4, <2>2, <3>2, <3>3
  <2> QED BY <2>1, <2>2
<1>7. ListsHold'
  <2> SUFFICES ASSUME NEW f \in Structs
               PROVE  /\ Once(tracked[f])
                      /\ \A c \in ToSet(tracked[f]) :
                           connOf'[c] = f /\ c \notin freed /\ conns'[f] = "live"
    BY DEF ListsHold
  <2>1. /\ Once(tracked[f])
        /\ \A c \in ToSet(tracked[f]) : connOf[c] = f /\ c \notin freed /\ conns[f] = "live"
    BY DEF StateCore, ListsHold
  <2>2. ToSet(tracked[f]) \subseteq Tracked
    BY <1>t DEF ToSet
  <2> QED BY <1>2, <1>4, <2>1, <2>2
<1>8. FreePending'
  <2>1. FreePending
    BY DEF StateCore
  <2> QED BY <1>2, <1>4, <2>1 DEF FreePending
<1>9. TellPending'
  BY DEF StateCore, TellPending
<1>10. FreedWasAdded'
  <2>1. FreedWasAdded
    BY DEF StateCore
  <2> QED BY <1>2, <1>4, <1>t, <2>1 DEF FreedWasAdded
<1>11. Registered'
  <2>1. Registered
    BY DEF StateCore
  <2>2. \A c \in services : connOf'[c] # 0 /\ c \in ToSet(tracked[connOf'[c]])
    BY <1>2, <1>4, <1>t, <2>1 DEF Registered
  <2>3. proxied'
    OBVIOUS
  <2> QED BY <2>2, <2>3 DEF Registered
<1>12. OneThread'
  BY DEF OneThread
<1>13. StructsLive'
  <2>1. StructsLive
    BY DEF StateCore
  <2>2. \A f \in Structs : Resetting(f) \in ToSet(toConn') <=> Resetting(f) \in ToSet(toConn)
    BY <1>3, CallbacksDiffer
  <2>3. Resetting(e) \notin ToSet(toConn)
    <3>1. Resetting(e) \in ToSet(toConn) => conns[e] = "live" /\ e # current
      BY <2>1 DEF StructsLive
    <3> QED BY <1>1, <3>1
  <2>4. current' # 0 => conns'[current'] = "live"
    BY <1>1, <1>4
  <2>5. \A f \in Structs : Resetting(f) \in ToSet(toConn') => conns'[f] = "live" /\ f # current'
    BY <1>1, <1>4, <2>1, <2>2, <2>3 DEF StructsLive
  <2>6. \A f \in Structs : conns'[f] = "live" => f = current' \/ Resetting(f) \in ToSet(toConn')
    <3> SUFFICES ASSUME NEW f \in Structs, conns'[f] = "live", f # e
                 PROVE  Resetting(f) \in ToSet(toConn)
      BY <1>1, <2>2
    <3>1. conns[f] = "live" /\ f # current
      BY <1>1, <1>4 DEF Structs
    <3> QED BY <2>1, <3>1 DEF StructsLive
  <2> QED BY <1>1, <2>4, <2>5, <2>6 DEF StructsLive
<1>14. AddsFirst'
  <2>1. AddsFirst
    BY DEF StateCore
  <2>2. DOMAIN toConn = 1..Len(toConn) /\ Len(toConn) \in Nat
        /\ DOMAIN toConn' = 1..(Len(toConn) + 1) /\ toConn'[Len(toConn) + 1] = Adding(d)
        /\ \A i \in 1..Len(toConn) : toConn'[i] = toConn[i]
    BY <1>t
  <2> SUFFICES ASSUME NEW i \in DOMAIN toConn', NEW c \in Tracked, toConn'[i] = Adding(c)
               PROVE  \/ connOf'[c] = current'
                      \/ \E j \in DOMAIN toConn' : j > i /\ toConn'[j] = Resetting(connOf'[c])
    BY DEF AddsFirst
  <2>3. CASE c = d
    BY <1>1, <1>4, <2>3
  <2>4. CASE c # d
    <3>1. i \in DOMAIN toConn /\ toConn[i] = Adding(c)
      BY <2>2, <2>4, CallbacksDiffer
    <3>2. CASE connOf[c] = current
      <4>1. connOf[c] # 0
        BY <3>1 DEF StateCore, AddPending, ToSet
      <4> QED BY <1>1, <1>4, <2>4, <3>2, <4>1
    <3>3. CASE \E j \in DOMAIN toConn : j > i /\ toConn[j] = Resetting(connOf[c])
      BY <1>4, <2>2, <2>4, <3>3
    <3> QED BY <2>1, <3>1, <3>2, <3>3 DEF AddsFirst
  <2> QED BY <2>3, <2>4
<1> QED BY <1>1, <1>5, <1>6, <1>7, <1>8, <1>9, <1>10, <1>11, <1>12, <1>13, <1>14 DEF StateCore
(* One service more on a list. *)
LEMMA ListsWith ==
  ASSUME NEW t \in [Structs -> Seq(Tracked)], NEW d \in Tracked, NEW e \in Structs,
         \A f \in Structs : d \notin ToSet(t[f])
  PROVE  LET u == [t EXCEPT ![e] = <<d>> \o @]
         IN  /\ u \in [Structs -> Seq(Tracked)]
             /\ ToSet(u[e]) = ToSet(t[e]) \cup {d}
             /\ \A f \in Structs : f # e => u[f] = t[f]
             /\ \A f \in Structs : Once(t[f]) => Once(u[f])
<1> DEFINE u == [t EXCEPT ![e] = <<d>> \o @]
<1>1. /\ <<d>> \o t[e] \in Seq(Tracked)
      /\ ToSet(<<d>> \o t[e]) = ToSet(t[e]) \cup {d}
      /\ Once(t[e]) /\ d \notin ToSet(t[e]) => Once(<<d>> \o t[e])
  <2>1. t[e] \in Seq(Tracked)
    OBVIOUS
  <2> QED BY <2>1, ConsFacts
<1>2. u[e] = <<d>> \o t[e] /\ \A f \in Structs : f # e => u[f] = t[f]
  OBVIOUS
<1>3. u \in [Structs -> Seq(Tracked)]
  BY <1>1
<1> HIDE DEF u
<1>4. \A f \in Structs : Once(t[f]) => Once(u[f])
  BY <1>1, <1>2
<1> QED BY <1>1, <1>2, <1>3, <1>4 DEF u

(* On one thread there are no callbacks on the way. *)
LEMMA NothingOnTheWay ==
  ASSUME toConn = <<>>, toLocal = <<>>
  PROVE  /\ \A x : x \notin ToSet(toConn) /\ x \notin ToSet(toLocal)
         /\ toConn \in Seq(ToConnType) /\ toLocal \in Seq(ToLocalType)
         /\ Once(toConn) /\ Once(toLocal)
         /\ AddPending /\ FreePending /\ TellPending /\ AddsFirst /\ OneThread
  BY DEF ToSet, Once, AddPending, FreePending, TellPending, AddsFirst, OneThread

(* An addition on the connection's own thread. *)
LEMMA AddHere ==
  ASSUME MaxConns \in Nat, ToldSoFar, StateCore, NEW d \in Tracked, connOf[d] = 0,
         NEW accepted \in BOOLEAN,
         LookupConnection(d), ~proxied, DoAdd(d, connOf'[d], accepted),
         UNCHANGED <<proxied, toConn>>
  PROVE  StateCore' /\ ToldSoFar'
<1>1. PICK e \in Structs :
        /\ connOf' = [connOf EXCEPT ![d] = e]
        /\ current' = e
        /\ conns' = [conns EXCEPT ![e] = "live"]
        /\ current \in {0, e}
        /\ conns[e] = "live" => current = e
        /\ connRefs' = Cardinality(LiveStructs(conns'))
        /\ UsedInOrder'
        /\ conns[e] # "freed"
  BY LookupEffect
<1>2. /\ d \notin services /\ d \notin freed /\ told[d] = 0
      /\ \A f \in Structs : d \notin ToSet(tracked[f])
  BY NotYetAdded
<1>t. /\ proxied \in BOOLEAN /\ current \in 0..MaxConns
      /\ conns \in [Structs -> {"new", "live", "freed"}]
      /\ connOf \in [Tracked -> 0..MaxConns]
      /\ tracked \in [Structs -> Seq(Tracked)]
      /\ services \subseteq Tracked /\ freed \subseteq Tracked
  BY CoreFacts
<1>4. /\ \A c \in Tracked : c # d => connOf'[c] = connOf[c]
      /\ connOf'[d] = e /\ e # 0 /\ conns'[e] = "live"
      /\ \A f \in Structs : f # e => conns'[f] = conns[f]
      /\ \A f \in Structs : conns[f] = "live" => conns'[f] = "live"
      /\ conns' \in [Structs -> {"new", "live", "freed"}] /\ connOf' \in [Tracked -> 0..MaxConns]
      /\ current' \in 0..MaxConns
  BY <1>1, <1>t DEF Structs
<1>5. toConn = <<>> /\ toLocal = <<>>
  BY DEF StateCore, OneThread
<1>6. toConn' = <<>> /\ toLocal' = <<>>
  BY <1>5 DEF DoAdd, FreeData, conn_getproxy
<1>7. /\ \A x : x \notin ToSet(toConn') /\ x \notin ToSet(toLocal')
      /\ toConn' \in Seq(ToConnType) /\ toLocal' \in Seq(ToLocalType)
      /\ Once(toConn') /\ Once(toLocal')
      /\ AddPending' /\ FreePending' /\ TellPending' /\ AddsFirst' /\ OneThread'
  BY <1>6, NothingOnTheWay DEF ToSet, Once, AddPending, FreePending, TellPending, AddsFirst, OneThread
<1>8. StructsLive'
  <2>1. \A f \in Structs : conns[f] = "live" => f = current
    <3>1. \A x : x \notin ToSet(toConn)
      BY <1>5, NothingOnTheWay
    <3> QED BY <3>1 DEF StateCore, StructsLive
  <2>2. \A f \in Structs : conns'[f] = "live" => f = current'
    BY <1>1, <1>4, <2>1 DEF Structs
  <2> QED BY <1>1, <1>4, <1>7, <2>2 DEF StructsLive
<1>9. \A f \in Structs : ToSet(tracked[f]) \subseteq Tracked
  BY <1>t DEF ToSet
<1>10. CASE accepted
  <2>1. /\ services' = services \cup {d}
        /\ tracked' = [tracked EXCEPT ![e] = <<d>> \o @]
        /\ UNCHANGED <<freed, told>>
    BY <1>4, <1>10 DEF DoAdd
  <2>2. /\ tracked' \in [Structs -> Seq(Tracked)]
        /\ ToSet(tracked'[e]) = ToSet(tracked[e]) \cup {d}
        /\ \A f \in Structs : f # e => tracked'[f] = tracked[f]
        /\ \A f \in Structs : Once(tracked[f]) => Once(tracked'[f])
    BY <1>2, <1>t, <2>1, ListsWith
  <2>3. StateTypeOK'
    BY <1>4, <1>7, <1>t, <2>1, <2>2 DEF StateTypeOK
  <2>4. ListsHold'
    <3> SUFFICES ASSUME NEW f \in Structs
                 PROVE  /\ Once(tracked'[f])
                        /\ \A c \in ToSet(tracked'[f]) :
                             connOf'[c] = f /\ c \notin freed' /\ conns'[f] = "live"
      BY DEF ListsHold
    <3>1. /\ Once(tracked[f])
          /\ \A c \in ToSet(tracked[f]) : connOf[c] = f /\ c \notin freed /\ conns[f] = "live"
      BY DEF StateCore, ListsHold
    <3>2. \A c \in ToSet(tracked[f]) : connOf'[c] = f /\ c \notin freed' /\ conns'[f] = "live"
      BY <1>2, <1>4, <1>9, <2>1, <3>1
    <3>3. Once(tracked'[f])
      BY <2>2, <3>1
    <3>4. CASE f = e
      BY <1>2, <1>4, <2>1, <2>2, <3>2, <3>3, <3>4
    <3>5. CASE f # e
      BY <2>2, <3>2, <3>3, <3>5
    <3> QED BY <3>4, <3>5
  <2>5. FreedWasAdded'
    BY <1>2, <1>4, <1>t, <2>1 DEF StateCore, FreedWasAdded
  <2>6. Registered'
    <3>1. Registered
      BY DEF StateCore
    <3>2. \A c \in services' : connOf'[c] # 0 /\ c \in ToSet(tracked'[connOf'[c]])
      <4> SUFFICES ASSUME NEW c \in services'
                   PROVE  connOf'[c] # 0 /\ c \in ToSet(tracked'[connOf'[c]])
        OBVIOUS
      <4>1. CASE c = d
        BY <1>4, <2>2, <4>1
      <4>2. CASE c # d
        <5>1. c \in services /\ connOf[c] # 0 /\ c \in ToSet(tracked[connOf[c]])
          BY <2>1, <3>1, <4>2 DEF Registered
        <5>2. connOf[c] \in Structs /\ connOf'[c] = connOf[c]
          BY <1>4, <1>t, <4>2, <5>1 DEF Structs
        <5> QED BY <2>2, <5>1, <5>2
      <4> QED BY <4>1, <4>2
    <3>3. \A f \in Structs : ToSet(tracked'[f]) \subseteq services'
      <4>1. \A f \in Structs : ToSet(tracked[f]) \subseteq services
        BY <3>1 DEF Registered
      <4> QED BY <2>1, <2>2, <4>1
    <3> QED BY <3>2, <3>3 DEF Registered
  <2>7. ToldSoFar'
    BY <1>2, <2>1 DEF ToldSoFar
  <2> QED BY <1>1, <1>7, <1>8, <2>3, <2>4, <2>5, <2>6, <2>7 DEF StateCore
<1>11. CASE ~accepted
  <2>1. /\ services' = services
        /\ freed' = freed \cup {d}
        /\ tracked' = [f \in DOMAIN tracked |-> Without(tracked[f], {d})]
        /\ told' = [c \in Tracked |-> IF c \in {d} THEN told[c] + 1 ELSE told[c]]
    BY <1>11 DEF DoAdd, FreeData, conn_getproxy
  <2>2. /\ tracked' \in [Structs -> Seq(Tracked)]
        /\ \A f \in Structs : ToSet(tracked'[f]) = ToSet(tracked[f]) \ {d}
                             /\ (Once(tracked[f]) => Once(tracked'[f]))
    BY <1>t, <2>1, ListsWithout
  <2>3. \A f \in Structs : ToSet(tracked'[f]) = ToSet(tracked[f])
    BY <1>2, <2>2
  <2>4. StateTypeOK'
    BY <1>4, <1>7, <1>t, <2>1, <2>2 DEF StateTypeOK
  <2>5. ListsHold'
    <3> SUFFICES ASSUME NEW f \in Structs
                 PROVE  /\ Once(tracked'[f])
                        /\ \A c \in ToSet(tracked'[f]) :
                             connOf'[c] = f /\ c \notin freed' /\ conns'[f] = "live"
      BY DEF ListsHold
    <3>1. /\ Once(tracked[f])
          /\ \A c \in ToSet(tracked[f]) : connOf[c] = f /\ c \notin freed /\ conns[f] = "live"
      BY DEF StateCore, ListsHold
    <3> QED BY <1>2, <1>4, <1>9, <2>1, <2>2, <2>3, <3>1
  <2>6. FreedWasAdded'
    BY <1>4, <1>t, <2>1 DEF StateCore, FreedWasAdded
  <2>7. Registered'
    <3>1. Registered
      BY DEF StateCore
    <3>2. \A c \in services : connOf'[c] # 0 /\ c \in ToSet(tracked'[connOf'[c]])
      <4> SUFFICES ASSUME NEW c \in services
                   PROVE  connOf'[c] # 0 /\ c \in ToSet(tracked'[connOf'[c]])
        OBVIOUS
      <4>1. c # d /\ connOf[c] # 0 /\ c \in ToSet(tracked[connOf[c]])
        BY <1>2, <3>1 DEF Registered
      <4>2. connOf[c] \in Structs /\ connOf'[c] = connOf[c]
        BY <1>4, <1>t, <4>1 DEF Structs
      <4> QED BY <2>3, <4>1, <4>2
    <3>3. \A f \in Structs : ToSet(tracked'[f]) \subseteq services
      BY <2>3, <3>1 DEF Registered
    <3> QED BY <2>1, <3>2, <3>3 DEF Registered
  <2>8. ToldSoFar'
    BY <1>2, <2>1 DEF ToldSoFar
  <2> QED BY <1>1, <1>7, <1>8, <2>4, <2>5, <2>6, <2>7, <2>8 DEF StateCore
<1> QED BY <1>10, <1>11
(* The first callback leaves the queue to the connection. *)
LEMMA ToConnMoves ==
  ASSUME StateCore, toConn # <<>>, toConn' = Tail(toConn), UNCHANGED connOf,
         current' = current
  PROVE  /\ toConn' \in Seq(ToConnType) /\ Once(toConn')
         /\ ToSet(toConn') = ToSet(toConn) \ {Head(toConn)}
         /\ AddsFirst'
<1>t. toConn \in Seq(ToConnType) /\ Once(toConn) /\ AddsFirst
  BY DEF StateCore, StateTypeOK
<1>1. /\ Head(toConn) \in ToConnType /\ Tail(toConn) \in Seq(ToConnType)
      /\ Head(toConn) \in ToSet(toConn) /\ Head(toConn) = toConn[1]
      /\ ToSet(Tail(toConn)) \subseteq ToSet(toConn)
      /\ ToSet(toConn) \subseteq ToSet(Tail(toConn)) \cup {Head(toConn)}
      /\ Once(toConn) => Once(Tail(toConn)) /\ Head(toConn) \notin ToSet(Tail(toConn))
  BY <1>t, TailFacts
<1>2. /\ toConn' \in Seq(ToConnType) /\ Once(toConn')
      /\ ToSet(toConn') = ToSet(toConn) \ {Head(toConn)}
  BY <1>1, <1>t
<1>3. AddsFirst'
  <2>1. /\ DOMAIN toConn = 1..Len(toConn) /\ Len(toConn) \in Nat /\ Len(toConn) > 0
        /\ DOMAIN toConn' = 1..(Len(toConn) - 1)
        /\ \A i \in 1..(Len(toConn) - 1) : toConn'[i] = toConn[i + 1]
    BY <1>t
  <2> SUFFICES ASSUME NEW i \in DOMAIN toConn', NEW c \in Tracked, toConn'[i] = Adding(c)
               PROVE  \/ connOf[c] = current
                      \/ \E j \in DOMAIN toConn' : j > i /\ toConn'[j] = Resetting(connOf[c])
    BY DEF AddsFirst
  <2>2. i + 1 \in DOMAIN toConn /\ toConn[i + 1] = Adding(c)
    BY <2>1
  <2>3. \/ connOf[c] = current
        \/ \E j \in DOMAIN toConn : j > i + 1 /\ toConn[j] = Resetting(connOf[c])
    BY <1>t, <2>2 DEF AddsFirst
  <2>4. ASSUME NEW j \in DOMAIN toConn, j > i + 1, toConn[j] = Resetting(connOf[c])
        PROVE  \E k \in DOMAIN toConn' : k > i /\ toConn'[k] = Resetting(connOf[c])
    <3>1. j - 1 \in 1..(Len(toConn) - 1) /\ j - 1 > i /\ (j - 1) + 1 = j
      BY <2>1, <2>4
    <3>2. j - 1 \in DOMAIN toConn' /\ toConn'[j - 1] = Resetting(connOf[c])
      BY <2>1, <2>4, <3>1
    <3> QED BY <3>1, <3>2
  <2> QED BY <2>3, <2>4
<1> QED BY <1>2, <1>3

(* One callback more on the way to the local thread. *)
LEMMA ToLocalGrows ==
  ASSUME toLocal \in Seq(ToLocalType), Once(toLocal), NEW x \in ToLocalType, x \notin ToSet(toLocal)
  PROVE  /\ toLocal \o SetToSeq({x}) \in Seq(ToLocalType)
         /\ ToSet(toLocal \o SetToSeq({x})) = ToSet(toLocal) \cup {x}
         /\ Once(toLocal \o SetToSeq({x}))
<1>1. SetToSeq({x}) = <<x>>
  BY SmallSetToSeq
<1>2. toLocal \o <<x>> = Append(toLocal, x)
  OBVIOUS
<1>3. /\ Append(toLocal, x) \in Seq(ToLocalType)
      /\ ToSet(Append(toLocal, x)) = ToSet(toLocal) \cup {x}
      /\ Once(toLocal) /\ x \notin ToSet(toLocal) => Once(Append(toLocal, x))
  BY AppendFacts
<1> QED BY <1>1, <1>2, <1>3

(* The half of an addition that runs on the connection's thread. *)
LEMMA ProxyAddKeeps ==
  ASSUME MaxConns \in Nat, ToldSoFar, StateCore, NEW kind, NEW accepted \in BOOLEAN,
         ProxyAdd(kind, accepted)
  PROVE  StateCore' /\ ToldSoFar'
<1> DEFINE d == Head(toConn).of
           e == connOf[d]
<1>0. /\ toConn # <<>> /\ Head(toConn).op = "add"
      /\ toConn' = Tail(toConn)
      /\ UNCHANGED <<proxied, current, conns, connOf, connRefs, harm>>
      /\ \E ok \in BOOLEAN : DoAdd(d, e, ok)
  BY Zenon DEF ProxyAdd, DoKind, StateDoBind, DoAddMatch, DoAddReply
<1>t. /\ proxied \in BOOLEAN /\ current \in 0..MaxConns
      /\ conns \in [Structs -> {"new", "live", "freed"}]
      /\ connOf \in [Tracked -> 0..MaxConns]
      /\ tracked \in [Structs -> Seq(Tracked)]
      /\ services \subseteq Tracked /\ freed \subseteq Tracked
      /\ toConn \in Seq(ToConnType) /\ toLocal \in Seq(ToLocalType)
      /\ Once(toConn) /\ Once(toLocal)
  BY CoreFacts
<1>1. d \in Tracked /\ Head(toConn) = Adding(d)
  BY <1>0, HeadOfToConn DEF StateCore
<1>2. Adding(d) \in ToSet(toConn)
  BY <1>0, <1>1, <1>t, TailFacts
<1> HIDE DEF d
<1>3. /\ connOf[d] # 0 /\ conns[e] = "live" /\ d \notin freed
      /\ \A f \in Structs : d \notin ToSet(tracked[f])
  BY <1>1, <1>2 DEF StateCore, AddPending
<1>4. e \in Structs /\ connOf[d] = e
  BY <1>1, <1>3, <1>t DEF Structs
<1> HIDE DEF e
<1>5. proxied
  BY <1>0 DEF StateCore, OneThread
<1>6. /\ toConn' \in Seq(ToConnType) /\ Once(toConn')
      /\ ToSet(toConn') = ToSet(toConn) \ {Adding(d)}
      /\ AddsFirst'
  BY <1>0, <1>1, ToConnMoves
<1>7. d \notin services /\ told[d] = 0
  BY <1>1, <1>3, <1>4 DEF StateCore, Registered, ToldSoFar
<1>8. Freeing(d) \notin ToSet(toLocal) /\ Telling(d) \notin ToSet(toLocal)
  BY <1>1, <1>3, <1>4 DEF StateCore, FreePending, TellPending
<1>9. \A f \in Structs : ToSet(tracked[f]) \subseteq Tracked
  BY <1>t DEF ToSet
<1>10. StructsLive' /\ UsedInOrder' /\ OneThread'
  <2>1. StructsLive /\ UsedInOrder
    BY DEF StateCore
  <2>2. \A f \in Structs : Resetting(f) \in ToSet(toConn') <=> Resetting(f) \in ToSet(toConn)
    BY <1>6, CallbacksDiffer
  <2>3. StructsLive'
    BY <1>0, <2>1, <2>2 DEF StructsLive
  <2>4. UsedInOrder'
    BY <1>0, <2>1 DEF UsedInOrder
  <2> QED BY <1>0, <1>5, <2>3, <2>4 DEF OneThread
<1>11. PICK ok \in BOOLEAN : DoAdd(d, e, ok)
  BY <1>0
<1>12. \A c \in Tracked : Adding(c) \in ToSet(toConn') =>
         /\ c # d /\ connOf[c] # 0 /\ conns[connOf[c]] = "live" /\ c \notin freed
         /\ \A f \in Structs : c \notin ToSet(tracked[f])
  BY <1>6 DEF StateCore, AddPending
<1>13. CASE ok
  <2>1. /\ services' = services \cup {d}
        /\ tracked' = [tracked EXCEPT ![e] = <<d>> \o @]
        /\ UNCHANGED <<freed, told, toLocal>>
    BY <1>11, <1>13 DEF DoAdd
  <2>2. /\ tracked' \in [Structs -> Seq(Tracked)]
        /\ ToSet(tracked'[e]) = ToSet(tracked[e]) \cup {d}
        /\ \A f \in Structs : f # e => tracked'[f] = tracked[f]
        /\ \A f \in Structs : Once(tracked[f]) => Once(tracked'[f])
    <3>1. d \in Tracked /\ e \in Structs /\ tracked \in [Structs -> Seq(Tracked)]
          /\ \A f \in Structs : d \notin ToSet(tracked[f])
      BY <1>1, <1>3, <1>4, <1>t
    <3> QED BY <2>1, <3>1, ListsWith
  <2>3. StateTypeOK'
    BY <1>0, <1>1, <1>6, <1>t, <2>1, <2>2 DEF StateTypeOK
  <2>4. ListsHold'
    <3> SUFFICES ASSUME NEW f \in Structs
                 PROVE  /\ Once(tracked'[f])
                        /\ \A c \in ToSet(tracked'[f]) :
                             connOf[c] = f /\ c \notin freed /\ conns[f] = "live"
      BY <1>0, <2>1 DEF ListsHold
    <3>1. /\ Once(tracked[f])
          /\ \A c \in ToSet(tracked[f]) : connOf[c] = f /\ c \notin freed /\ conns[f] = "live"
      BY DEF StateCore, ListsHold
    <3>2. CASE f = e
      BY <1>3, <1>4, <2>2, <3>1, <3>2
    <3>3. CASE f # e
      BY <2>2, <3>1, <3>3
    <3> QED BY <3>2, <3>3
  <2>5. AddPending'
    <3> SUFFICES ASSUME NEW c \in Tracked, Adding(c) \in ToSet(toConn')
                 PROVE  /\ connOf[c] # 0 /\ conns[connOf[c]] = "live" /\ c \notin freed
                        /\ \A f \in Structs : c \notin ToSet(tracked'[f])
      BY <1>0, <2>1 DEF AddPending
    <3>1. ASSUME NEW f \in Structs PROVE c \notin ToSet(tracked'[f])
      BY <1>12, <2>2
    <3> QED BY <1>12, <3>1
  <2>6. FreePending'
    <3> SUFFICES ASSUME NEW c \in Tracked, Freeing(c) \in ToSet(toLocal)
                 PROVE  connOf[c] # 0 /\ c \in ToSet(tracked'[connOf[c]]) /\ c \notin services'
      BY <1>0, <2>1 DEF FreePending
    <3>1. connOf[c] # 0 /\ c \in ToSet(tracked[connOf[c]]) /\ c \notin services /\ c # d
      BY <1>8 DEF StateCore, FreePending
    <3>2. connOf[c] \in Structs
      BY <1>t, <3>1 DEF Structs
    <3> QED BY <2>1, <2>2, <3>1, <3>2
  <2>7. TellPending' /\ FreedWasAdded'
    BY <1>0, <2>1 DEF StateCore, TellPending, FreedWasAdded
  <2>8. Registered'
    <3> SUFFICES ASSUME NEW c \in services'
                 PROVE  connOf[c] # 0 /\ c \in ToSet(tracked'[connOf[c]])
      BY <1>0, <1>5 DEF Registered
    <3>1. CASE c = d
      BY <1>3, <1>4, <2>2, <3>1
    <3>2. CASE c # d
      <4>1. connOf[c] # 0 /\ c \in ToSet(tracked[connOf[c]]) /\ c \in Tracked
        BY <1>t, <2>1, <3>2 DEF StateCore, Registered
      <4>2. connOf[c] \in Structs
        BY <1>t, <4>1 DEF Structs
      <4> QED BY <2>2, <4>1, <4>2
    <3> QED BY <3>1, <3>2
  <2>9. ToldSoFar'
    BY <1>7, <2>1 DEF ToldSoFar
  <2> QED BY <1>6, <1>10, <2>3, <2>4, <2>5, <2>6, <2>7, <2>8, <2>9 DEF StateCore
<1>14. CASE ~ok
  <2>1. /\ services' = services
        /\ freed' = freed \cup {d}
        /\ tracked' = [f \in DOMAIN tracked |-> Without(tracked[f], {d})]
        /\ toLocal' = toLocal \o SetToSeq({[op |-> "told", of |-> c] : c \in {d}})
        /\ told' = told
    BY <1>5, <1>11, <1>14 DEF DoAdd, FreeData, conn_getproxy
  <2>2. /\ tracked' \in [Structs -> Seq(Tracked)]
        /\ \A f \in Structs : ToSet(tracked'[f]) = ToSet(tracked[f]) \ {d}
                             /\ (Once(tracked[f]) => Once(tracked'[f]))
    BY <1>t, <2>1, ListsWithout
  <2>3. \A f \in Structs : ToSet(tracked'[f]) = ToSet(tracked[f])
    BY <1>3, <2>2
  <2>4. /\ toLocal' \in Seq(ToLocalType) /\ Once(toLocal')
        /\ ToSet(toLocal') = ToSet(toLocal) \cup {Telling(d)}
    <3>1. {[op |-> "told", of |-> c] : c \in {d}} = {Telling(d)}
      BY DEF Telling
    <3>2. Telling(d) \in ToLocalType
      BY <1>1 DEF ToLocalType
    <3>3. toLocal' = toLocal \o SetToSeq({Telling(d)})
      BY <2>1, <3>1
    <3> QED BY <1>8, <1>t, <3>2, <3>3, ToLocalGrows
  <2>5. StateTypeOK'
    BY <1>0, <1>1, <1>6, <1>t, <2>1, <2>2, <2>4 DEF StateTypeOK
  <2>6. ListsHold'
    <3> SUFFICES ASSUME NEW f \in Structs
                 PROVE  /\ Once(tracked'[f])
                        /\ \A c \in ToSet(tracked'[f]) :
                             connOf[c] = f /\ c \notin freed' /\ conns[f] = "live"
      BY <1>0 DEF ListsHold
    <3>1. /\ Once(tracked[f])
          /\ \A c \in ToSet(tracked[f]) : connOf[c] = f /\ c \notin freed /\ conns[f] = "live"
      BY DEF StateCore, ListsHold
    <3> QED BY <1>3, <2>1, <2>2, <2>3, <3>1
  <2>7. AddPending'
    <3> SUFFICES ASSUME NEW c \in Tracked, Adding(c) \in ToSet(toConn')
                 PROVE  /\ connOf[c] # 0 /\ conns[connOf[c]] = "live" /\ c \notin freed'
                        /\ \A f \in Structs : c \notin ToSet(tracked'[f])
      BY <1>0 DEF AddPending
    <3> QED BY <1>12, <2>1, <2>3
  <2>8. FreePending'
    <3> SUFFICES ASSUME NEW c \in Tracked, Freeing(c) \in ToSet(toLocal')
                 PROVE  connOf[c] # 0 /\ c \in ToSet(tracked'[connOf[c]]) /\ c \notin services
      BY <1>0, <2>1 DEF FreePending
    <3>1. Freeing(c) \in ToSet(toLocal)
      BY <2>4, CallbacksDiffer
    <3>2. connOf[c] # 0 /\ c \in ToSet(tracked[connOf[c]]) /\ c \notin services
      BY <3>1 DEF StateCore, FreePending
    <3>3. connOf[c] \in Structs
      BY <1>t, <3>2 DEF Structs
    <3> QED BY <2>3, <3>2, <3>3
  <2>9. TellPending'
    <3> SUFFICES ASSUME NEW c \in Tracked, Telling(c) \in ToSet(toLocal')
                 PROVE  c \in freed' /\ told[c] = 0
      BY <2>1 DEF TellPending
    <3>1. c = d \/ Telling(c) \in ToSet(toLocal)
      BY <2>4, CallbacksDiffer
    <3> QED BY <1>7, <2>1, <3>1 DEF StateCore, TellPending
  <2>10. FreedWasAdded'
    BY <1>0, <1>3, <2>1 DEF StateCore, FreedWasAdded
  <2>11. Registered'
    <3> SUFFICES ASSUME NEW c \in services
                 PROVE  connOf[c] # 0 /\ c \in ToSet(tracked'[connOf[c]])
      BY <1>0, <1>5, <2>1 DEF Registered
    <3>1. connOf[c] # 0 /\ c \in ToSet(tracked[connOf[c]]) /\ c \in Tracked
      BY <1>t DEF StateCore, Registered
    <3>2. connOf[c] \in Structs
      BY <1>t, <3>1 DEF Structs
    <3> QED BY <2>3, <3>1, <3>2
  <2>12. ToldSoFar'
    BY <2>1 DEF ToldSoFar
  <2> QED BY <1>6, <1>10, <2>5, <2>6, <2>7, <2>8, <2>9, <2>10, <2>11, <2>12 DEF StateCore
<1> QED BY <1>13, <1>14
(* Services that the connection lets go of on its own thread are freed at once. *)
LEMMA FreedHere ==
  ASSUME ToldSoFar, StateCore, ~proxied, NEW ds, ds \subseteq services,
         services' = services \ ds, FreeData(ds), UNCHANGED <<proxied, connOf, toConn>>,
         conns' \in [Structs -> {"new", "live", "freed"}], current' \in 0..MaxConns,
         \A f \in Structs : ToSet(tracked[f]) \subseteq ds \/ conns'[f] = conns[f],
         StructsLive', UsedInOrder'
  PROVE  StateCore' /\ ToldSoFar'
<1>t. /\ proxied \in BOOLEAN /\ current \in 0..MaxConns
      /\ conns \in [Structs -> {"new", "live", "freed"}]
      /\ connOf \in [Tracked -> 0..MaxConns]
      /\ tracked \in [Structs -> Seq(Tracked)]
      /\ services \subseteq Tracked /\ freed \subseteq Tracked
      /\ toConn \in Seq(ToConnType) /\ toLocal \in Seq(ToLocalType)
      /\ Once(toConn) /\ Once(toLocal)
  BY CoreFacts
<1>1. /\ freed' = freed \cup ds
      /\ tracked' = [f \in DOMAIN tracked |-> Without(tracked[f], ds)]
      /\ told' = [c \in Tracked |-> IF c \in ds THEN told[c] + 1 ELSE told[c]]
      /\ toLocal' = toLocal
  BY DEF FreeData, conn_getproxy
<1>2. /\ tracked' \in [Structs -> Seq(Tracked)]
      /\ \A f \in Structs : ToSet(tracked'[f]) = ToSet(tracked[f]) \ ds
                           /\ (Once(tracked[f]) => Once(tracked'[f]))
  BY <1>1, <1>t, ListsWithout
<1>3. toConn' = <<>> /\ toLocal' = <<>>
  BY <1>1 DEF StateCore, OneThread
<1>4. /\ toConn' \in Seq(ToConnType) /\ toLocal' \in Seq(ToLocalType)
      /\ Once(toConn') /\ Once(toLocal')
      /\ AddPending' /\ FreePending' /\ TellPending' /\ AddsFirst' /\ OneThread'
  BY <1>3 DEF ToSet, Once, AddPending, FreePending, TellPending, AddsFirst, OneThread
<1>5. \A c \in ds : c \in Tracked /\ connOf[c] # 0 /\ connOf[c] \in Structs
                   /\ c \in ToSet(tracked[connOf[c]])
  <2>1. \A c \in ds : c \in Tracked /\ connOf[c] # 0 /\ c \in ToSet(tracked[connOf[c]])
    BY <1>t DEF StateCore, Registered
  <2> QED BY <1>t, <2>1 DEF Structs
<1>6. \A c \in ds : c \notin freed /\ told[c] = 0
  <2>1. \A c \in ds : c \notin freed
    BY <1>5 DEF StateCore, ListsHold
  <2> QED BY <1>5, <2>1 DEF ToldSoFar
<1>7. StateTypeOK'
  <2>1. services' \subseteq Tracked /\ freed' \subseteq Tracked /\ proxied' \in BOOLEAN
        /\ connOf' \in [Tracked -> 0..MaxConns]
    BY <1>1, <1>t
  <2> QED BY <1>2, <1>4, <2>1 DEF StateTypeOK
<1>8. ListsHold'
  <2> SUFFICES ASSUME NEW f \in Structs
               PROVE  /\ Once(tracked'[f])
                      /\ \A c \in ToSet(tracked'[f]) :
                           connOf[c] = f /\ c \notin freed' /\ conns'[f] = "live"
    BY DEF ListsHold
  <2>1. /\ Once(tracked[f])
        /\ \A c \in ToSet(tracked[f]) : connOf[c] = f /\ c \notin freed /\ conns[f] = "live"
    BY DEF StateCore, ListsHold
  <2> QED BY <1>1, <1>2, <2>1
<1>9. FreedWasAdded'
  BY <1>1, <1>5 DEF StateCore, FreedWasAdded
<1>10. Registered'
  <2>1. ASSUME NEW c \in services'
        PROVE  connOf[c] # 0 /\ c \in ToSet(tracked'[connOf[c]])
    <3>1. c \notin ds /\ connOf[c] # 0 /\ c \in ToSet(tracked[connOf[c]]) /\ c \in Tracked
      BY <1>t DEF StateCore, Registered
    <3>2. connOf[c] \in Structs
      BY <1>t, <3>1 DEF Structs
    <3> QED BY <1>2, <3>1, <3>2
  <2>2. ASSUME NEW f \in Structs PROVE ToSet(tracked'[f]) \subseteq services'
    <3>1. ToSet(tracked[f]) \subseteq services
      BY DEF StateCore, Registered
    <3> QED BY <1>2, <3>1
  <2> QED BY <2>1, <2>2 DEF Registered
<1>11. ToldSoFar'
  BY <1>1, <1>6 DEF ToldSoFar
<1> QED BY <1>4, <1>7, <1>8, <1>9, <1>10, <1>11 DEF StateCore

(* The connection lets go of a service by itself. *)
LEMMA ServiceGoneKeeps ==
  ASSUME ToldSoFar, StateCore, NEW d \in Tracked, ServiceGone(d)
  PROVE  StateCore' /\ ToldSoFar'
<1>t. /\ proxied \in BOOLEAN /\ current \in 0..MaxConns
      /\ conns \in [Structs -> {"new", "live", "freed"}]
      /\ connOf \in [Tracked -> 0..MaxConns]
      /\ tracked \in [Structs -> Seq(Tracked)]
      /\ services \subseteq Tracked /\ freed \subseteq Tracked
      /\ toConn \in Seq(ToConnType) /\ toLocal \in Seq(ToLocalType)
      /\ Once(toConn) /\ Once(toLocal)
  BY CoreFacts
<1>0. /\ d \in services /\ services' = services \ {d} /\ ReleaseData({d})
      /\ UNCHANGED <<proxied, current, conns, connOf, toConn, connRefs, harm>>
  BY DEF ServiceGone
<1>1. StructsLive' /\ UsedInOrder'
  BY <1>0 DEF StateCore, StructsLive, UsedInOrder
<1>2. CASE ~proxied
  <2>1. FreeData({d})
    BY <1>0, <1>2 DEF ReleaseData, conn_getproxy
  <2>2. /\ {d} \subseteq services /\ conns' \in [Structs -> {"new", "live", "freed"}]
        /\ current' \in 0..MaxConns
        /\ \A f \in Structs : ToSet(tracked[f]) \subseteq {d} \/ conns'[f] = conns[f]
    BY <1>0, <1>t
  <2> QED BY <1>0, <1>1, <1>2, <2>1, <2>2, FreedHere
<1>3. CASE proxied
  <2>1. /\ toLocal' = toLocal \o SetToSeq({[op |-> "free", of |-> c] : c \in {d}})
        /\ UNCHANGED <<freed, tracked, told>>
    BY <1>0, <1>3 DEF ReleaseData, conn_getproxy
  <2>2. connOf[d] # 0 /\ d \in ToSet(tracked[connOf[d]])
    BY <1>0 DEF StateCore, Registered
  <2>3. Freeing(d) \notin ToSet(toLocal)
    BY <1>0 DEF StateCore, FreePending
  <2>4. /\ toLocal' \in Seq(ToLocalType) /\ Once(toLocal')
        /\ ToSet(toLocal') = ToSet(toLocal) \cup {Freeing(d)}
    <3>1. {[op |-> "free", of |-> c] : c \in {d}} = {Freeing(d)}
      BY DEF Freeing
    <3>2. Freeing(d) \in ToLocalType
      BY DEF ToLocalType
    <3>3. toLocal' = toLocal \o SetToSeq({Freeing(d)})
      BY <2>1, <3>1
    <3> QED BY <1>t, <2>3, <3>2, <3>3, ToLocalGrows
  <2>5. StateTypeOK'
    BY <1>0, <1>t, <2>1, <2>4 DEF StateTypeOK
  <2>6. AddPending' /\ ListsHold' /\ FreedWasAdded' /\ AddsFirst'
    BY <1>0, <2>1 DEF StateCore, AddPending, ListsHold, FreedWasAdded, AddsFirst
  <2>7. FreePending'
    <3> SUFFICES ASSUME NEW c \in Tracked, Freeing(c) \in ToSet(toLocal')
                 PROVE  connOf[c] # 0 /\ c \in ToSet(tracked[connOf[c]]) /\ c \notin services'
      BY <1>0, <2>1 DEF FreePending
    <3>1. c = d \/ Freeing(c) \in ToSet(toLocal)
      BY <2>4, CallbacksDiffer
    <3> QED BY <1>0, <2>2, <3>1 DEF StateCore, FreePending
  <2>8. TellPending'
    <3>1. \A c : Telling(c) \in ToSet(toLocal') <=> Telling(c) \in ToSet(toLocal)
      BY <2>4, CallbacksDiffer
    <3> QED BY <2>1, <3>1 DEF StateCore, TellPending
  <2>9. Registered'
    BY <1>0, <1>3, <2>1 DEF StateCore, Registered
  <2>10. OneThread'
    BY <1>0, <1>3 DEF OneThread
  <2>11. ToldSoFar'
    BY <1>0, <2>1 DEF ToldSoFar
  <2> QED BY <1>1, <2>5, <2>6, <2>7, <2>8, <2>9, <2>10, <2>11 DEF StateCore
<1> QED BY <1>2, <1>3, <1>t

(* The struct of a service is freed on the local thread: its struct Conn is there. *)
LEMMA ReleaseDataCallbackKeeps ==
  ASSUME ToldSoFar, StateCore, ReleaseDataCallback
  PROVE  StateCore' /\ ToldSoFar' /\ harm' = harm
<1> DEFINE d == Head(toLocal).of
<1>t. /\ proxied \in BOOLEAN /\ current \in 0..MaxConns
      /\ conns \in [Structs -> {"new", "live", "freed"}]
      /\ connOf \in [Tracked -> 0..MaxConns]
      /\ tracked \in [Structs -> Seq(Tracked)]
      /\ services \subseteq Tracked /\ freed \subseteq Tracked
      /\ toConn \in Seq(ToConnType) /\ toLocal \in Seq(ToLocalType)
      /\ Once(toConn) /\ Once(toLocal)
  BY CoreFacts
<1>0. /\ toLocal # <<>> /\ Head(toLocal).op = "free"
      /\ freed' = freed \cup {d}
      /\ tracked' = [f \in DOMAIN tracked |-> Without(tracked[f], {d})]
      /\ toLocal' = Append(Tail(toLocal), [op |-> "told", of |-> d])
      /\ UNCHANGED <<proxied, current, conns, connOf, services, told, toConn, connRefs>>
  BY DEF ReleaseDataCallback
<1>1. d \in Tracked /\ Head(toLocal) = Freeing(d)
  BY <1>0, HeadOfToLocal DEF StateCore
<1>a. [op |-> "told", of |-> d] = Telling(d)
  BY DEF Telling
<1> HIDE DEF d
<1>2. /\ Head(toLocal) \in ToLocalType /\ Tail(toLocal) \in Seq(ToLocalType)
      /\ Head(toLocal) \in ToSet(toLocal) /\ Head(toLocal) = toLocal[1]
      /\ ToSet(Tail(toLocal)) \subseteq ToSet(toLocal)
      /\ ToSet(toLocal) \subseteq ToSet(Tail(toLocal)) \cup {Head(toLocal)}
      /\ Once(toLocal) => Once(Tail(toLocal)) /\ Head(toLocal) \notin ToSet(Tail(toLocal))
  BY <1>0, <1>t, TailFacts
<1>3. connOf[d] # 0 /\ d \in ToSet(tracked[connOf[d]]) /\ d \notin services
  BY <1>1, <1>2 DEF StateCore, FreePending
<1>4. d \notin freed /\ told[d] = 0
  <2>1. connOf[d] \in Structs
    BY <1>1, <1>3, <1>t DEF Structs
  <2>2. d \notin freed
    BY <1>3, <2>1 DEF StateCore, ListsHold
  <2> QED BY <1>1, <2>2 DEF ToldSoFar
<1>5. Telling(d) \notin ToSet(toLocal)
  BY <1>1, <1>4 DEF StateCore, TellPending
<1>6. /\ toLocal' \in Seq(ToLocalType) /\ Once(toLocal')
      /\ ToSet(toLocal') = (ToSet(toLocal) \ {Freeing(d)}) \cup {Telling(d)}
  <2> DEFINE rest == Tail(toLocal)
  <2>1. Telling(d) \in ToLocalType
    BY <1>1 DEF ToLocalType
  <2>2. rest \in Seq(ToLocalType) /\ Once(rest) /\ Telling(d) \notin ToSet(rest)
        /\ ToSet(rest) = ToSet(toLocal) \ {Freeing(d)}
    BY <1>1, <1>2, <1>5, <1>t
  <2>3. toLocal' = Append(rest, Telling(d))
    BY <1>0, <1>a
  <2> HIDE DEF rest
  <2>4. /\ Append(rest, Telling(d)) \in Seq(ToLocalType)
        /\ ToSet(Append(rest, Telling(d))) = ToSet(rest) \cup {Telling(d)}
        /\ Once(rest) /\ Telling(d) \notin ToSet(rest) => Once(Append(rest, Telling(d)))
    BY <2>1, <2>2, AppendFacts
  <2> QED BY <2>2, <2>3, <2>4
<1>7. /\ tracked' \in [Structs -> Seq(Tracked)]
      /\ \A f \in Structs : ToSet(tracked'[f]) = ToSet(tracked[f]) \ {d}
                           /\ (Once(tracked[f]) => Once(tracked'[f]))
  BY <1>0, <1>t, ListsWithout
<1>8. proxied
  BY <1>0 DEF StateCore, OneThread
<1>9. StateTypeOK'
  BY <1>0, <1>1, <1>6, <1>7, <1>t DEF StateTypeOK
<1>10. AddPending'
  <2> SUFFICES ASSUME NEW c \in Tracked, Adding(c) \in ToSet(toConn)
               PROVE  /\ connOf[c] # 0 /\ conns[connOf[c]] = "live" /\ c \notin freed'
                      /\ \A f \in Structs : c \notin ToSet(tracked'[f])
    BY <1>0 DEF AddPending
  <2>1. /\ connOf[c] # 0 /\ conns[connOf[c]] = "live" /\ c \notin freed
        /\ \A f \in Structs : c \notin ToSet(tracked[f])
    BY DEF StateCore, AddPending
  <2>2. c # d
    BY <1>1, <1>3, <1>t, <2>1 DEF Structs
  <2> QED BY <1>0, <1>7, <2>1, <2>2
<1>11. ListsHold'
  <2> SUFFICES ASSUME NEW f \in Structs
               PROVE  /\ Once(tracked'[f])
                      /\ \A c \in ToSet(tracked'[f]) :
                           connOf[c] = f /\ c \notin freed' /\ conns[f] = "live"
    BY <1>0 DEF ListsHold
  <2>1. /\ Once(tracked[f])
        /\ \A c \in ToSet(tracked[f]) : connOf[c] = f /\ c \notin freed /\ conns[f] = "live"
    BY DEF StateCore, ListsHold
  <2> QED BY <1>0, <1>7, <2>1
<1>12. FreePending'
  <2> SUFFICES ASSUME NEW c \in Tracked, Freeing(c) \in ToSet(toLocal')
               PROVE  connOf[c] # 0 /\ c \in ToSet(tracked'[connOf[c]]) /\ c \notin services
    BY <1>0 DEF FreePending
  <2>1. c # d /\ Freeing(c) \in ToSet(toLocal)
    BY <1>6, CallbacksDiffer
  <2>2. connOf[c] # 0 /\ c \in ToSet(tracked[connOf[c]]) /\ c \notin services
    BY <2>1 DEF StateCore, FreePending
  <2>3. connOf[c] \in Structs
    BY <1>t, <2>2 DEF Structs
  <2> QED BY <1>7, <2>1, <2>2, <2>3
<1>13. TellPending'
  <2> SUFFICES ASSUME NEW c \in Tracked, Telling(c) \in ToSet(toLocal')
               PROVE  c \in freed' /\ told[c] = 0
    BY <1>0 DEF TellPending
  <2>1. c = d \/ Telling(c) \in ToSet(toLocal)
    BY <1>6, CallbacksDiffer
  <2> QED BY <1>0, <1>4, <2>1 DEF StateCore, TellPending
<1>14. FreedWasAdded'
  BY <1>0, <1>3 DEF StateCore, FreedWasAdded
<1>15. Registered'
  <2> SUFFICES ASSUME NEW c \in services
               PROVE  connOf[c] # 0 /\ c \in ToSet(tracked'[connOf[c]])
    BY <1>0, <1>8 DEF Registered
  <2>1. connOf[c] # 0 /\ c \in ToSet(tracked[connOf[c]]) /\ c \in Tracked /\ c # d
    BY <1>3, <1>t DEF StateCore, Registered
  <2>2. connOf[c] \in Structs
    BY <1>t, <2>1 DEF Structs
  <2> QED BY <1>7, <2>1, <2>2
<1>16. OneThread' /\ StructsLive' /\ AddsFirst' /\ UsedInOrder'
  BY <1>0, <1>8 DEF StateCore, OneThread, StructsLive, AddsFirst, UsedInOrder
<1>17. ToldSoFar'
  BY <1>0 DEF ToldSoFar
<1>18. harm' = harm
  <2>1. connOf[d] \in Structs
    BY <1>1, <1>3, <1>t DEF Structs
  <2>2. conns[connOf[d]] = "live"
    BY <1>3, <2>1 DEF StateCore, ListsHold
  <2> QED BY <2>2 DEF ReleaseDataCallback, d
<1> QED BY <1>9, <1>10, <1>11, <1>12, <1>13, <1>14, <1>15, <1>16, <1>17, <1>18 DEF StateCore

(* The owner of a service is told. *)
LEMMA UserReleaseKeeps ==
  ASSUME ToldSoFar, StateCore, UserRelease
  PROVE  StateCore' /\ ToldSoFar'
<1> DEFINE d == Head(toLocal).of
<1>t. /\ proxied \in BOOLEAN /\ current \in 0..MaxConns
      /\ conns \in [Structs -> {"new", "live", "freed"}]
      /\ connOf \in [Tracked -> 0..MaxConns]
      /\ tracked \in [Structs -> Seq(Tracked)]
      /\ services \subseteq Tracked /\ freed \subseteq Tracked
      /\ toConn \in Seq(ToConnType) /\ toLocal \in Seq(ToLocalType)
      /\ Once(toConn) /\ Once(toLocal)
  BY CoreFacts
<1>0. /\ toLocal # <<>> /\ Head(toLocal).op = "told"
      /\ told' = [told EXCEPT ![d] = @ + 1]
      /\ toLocal' = Tail(toLocal)
      /\ UNCHANGED <<proxied, current, conns, connOf, tracked, services, freed, toConn,
                     connRefs, harm>>
  BY DEF UserRelease
<1>1. d \in Tracked /\ Head(toLocal) = Telling(d)
  BY <1>0, HeadOfToLocal DEF StateCore
<1> HIDE DEF d
<1>2. /\ Head(toLocal) \in ToLocalType /\ Tail(toLocal) \in Seq(ToLocalType)
      /\ Head(toLocal) \in ToSet(toLocal) /\ Head(toLocal) = toLocal[1]
      /\ ToSet(Tail(toLocal)) \subseteq ToSet(toLocal)
      /\ ToSet(toLocal) \subseteq ToSet(Tail(toLocal)) \cup {Head(toLocal)}
      /\ Once(toLocal) => Once(Tail(toLocal)) /\ Head(toLocal) \notin ToSet(Tail(toLocal))
  BY <1>0, <1>t, TailFacts
<1>3. /\ toLocal' \in Seq(ToLocalType) /\ Once(toLocal')
      /\ ToSet(toLocal') = ToSet(toLocal) \ {Telling(d)}
  BY <1>0, <1>1, <1>2, <1>t
<1>4. d \in freed /\ told[d] = 0 /\ Telling(d) \in ToSet(toLocal)
  BY <1>1, <1>2 DEF StateCore, TellPending
<1>5. d \notin services
  <2>1. ASSUME d \in services PROVE FALSE
    <3>1. connOf[d] # 0 /\ d \in ToSet(tracked[connOf[d]])
      BY <2>1 DEF StateCore, Registered
    <3>2. connOf[d] \in Structs
      BY <1>1, <1>t, <3>1 DEF Structs
    <3> QED BY <1>4, <3>1, <3>2 DEF StateCore, ListsHold
  <2> QED BY <2>1
<1>6. proxied
  BY <1>0 DEF StateCore, OneThread
<1>7. ToldSoFar'
  BY <1>0, <1>1, <1>4, <1>5 DEF ToldSoFar
<1>8. StateTypeOK'
  BY <1>0, <1>3, <1>t DEF StateTypeOK
<1>9. FreePending'
  <2>1. \A c : Freeing(c) \in ToSet(toLocal') <=> Freeing(c) \in ToSet(toLocal)
    BY <1>3, CallbacksDiffer
  <2> QED BY <1>0, <2>1 DEF StateCore, FreePending
<1>10. TellPending'
  <2> SUFFICES ASSUME NEW c \in Tracked, Telling(c) \in ToSet(toLocal')
               PROVE  c \in freed /\ told'[c] = 0
    BY <1>0 DEF TellPending
  <2>1. c # d /\ Telling(c) \in ToSet(toLocal)
    BY <1>3, CallbacksDiffer
  <2>2. c \in freed /\ told[c] = 0
    BY <2>1 DEF StateCore, TellPending
  <2> QED BY <1>0, <2>1, <2>2 DEF ToldSoFar
<1>11. AddPending' /\ ListsHold' /\ FreedWasAdded' /\ Registered'
  BY <1>0 DEF StateCore, AddPending, ListsHold, FreedWasAdded, Registered
<1>12. OneThread' /\ StructsLive' /\ AddsFirst' /\ UsedInOrder'
  BY <1>0, <1>6 DEF StateCore, OneThread, StructsLive, AddsFirst, UsedInOrder
<1> QED BY <1>7, <1>8, <1>9, <1>10, <1>11, <1>12 DEF StateCore
(* ResetConn frees a struct Conn. *)
LEMMA StructFreed ==
  ASSUME MaxConns \in Nat, StateCore, NEW e \in Structs, conns[e] = "live",
         conns' = [conns EXCEPT ![e] = "freed"], connRefs' = connRefs - 1
  PROVE  /\ conns' \in [Structs -> {"new", "live", "freed"}]
         /\ conns'[e] = "freed" /\ \A f \in Structs : f # e => conns'[f] = conns[f]
         /\ connRefs' = Cardinality(LiveStructs(conns'))
         /\ UsedInOrder'
<1>1. conns \in [Structs -> {"new", "live", "freed"}]
  BY CoreFacts
<1>2. /\ conns' \in [Structs -> {"new", "live", "freed"}]
      /\ conns'[e] = "freed" /\ \A f \in Structs : f # e => conns'[f] = conns[f]
  BY <1>1
<1>3. connRefs' = Cardinality(LiveStructs(conns'))
  <2>1. LiveStructs(conns') = LiveStructs(conns) \ {e} /\ e \in LiveStructs(conns)
    BY <1>2 DEF LiveStructs
  <2>2. IsFiniteSet(LiveStructs(conns))
    BY LiveFinite
  <2>3. Cardinality(LiveStructs(conns) \ {e}) = Cardinality(LiveStructs(conns)) - 1
    BY <2>1, <2>2, FS_RemoveElement
  <2> QED BY <2>1, <2>3 DEF StateCore, StructsLive
<1>4. UsedInOrder'
  <2>1. PICK last \in 0..MaxConns : \A f \in Structs : conns[f] = "new" <=> f > last
    BY DEF StateCore, UsedInOrder
  <2>2. \A f \in Structs : conns'[f] = "new" <=> f > last
    BY <1>2, <2>1
  <2> QED BY <2>2 DEF UsedInOrder
<1> QED BY <1>2, <1>3, <1>4

(* A reset on the connection's own thread. *)
LEMMA ResetHere ==
  ASSUME MaxConns \in Nat, ToldSoFar, StateCore, ~proxied, current # 0, current' = 0,
         ResetConn(current), UNCHANGED <<proxied, connOf, toConn>>
  PROVE  StateCore' /\ ToldSoFar' /\ harm' = harm
<1>t. /\ proxied \in BOOLEAN /\ current \in 0..MaxConns
      /\ conns \in [Structs -> {"new", "live", "freed"}]
      /\ connOf \in [Tracked -> 0..MaxConns]
      /\ tracked \in [Structs -> Seq(Tracked)]
      /\ services \subseteq Tracked /\ freed \subseteq Tracked
      /\ toConn \in Seq(ToConnType) /\ toLocal \in Seq(ToLocalType)
      /\ Once(toConn) /\ Once(toLocal)
  BY CoreFacts
<1> DEFINE ds == ToSet(tracked[current])
<1>0. /\ services' = services \ ds /\ ReleaseData(ds)
      /\ conns' = [conns EXCEPT ![current] = "freed"] /\ connRefs' = connRefs - 1
  BY DEF ResetConn
<1>1. current \in Structs /\ conns[current] = "live"
  BY <1>t DEF Structs, StateCore, StructsLive
<1>2. FreeData(ds)
  BY <1>0 DEF ReleaseData, conn_getproxy
<1>3. ds \subseteq services
  BY <1>1 DEF StateCore, Registered
<1>4. /\ conns' \in [Structs -> {"new", "live", "freed"}]
      /\ conns'[current] = "freed" /\ \A f \in Structs : f # current => conns'[f] = conns[f]
      /\ connRefs' = Cardinality(LiveStructs(conns'))
      /\ UsedInOrder'
  BY <1>0, <1>1, StructFreed
<1>5. \A f \in Structs : ToSet(tracked[f]) \subseteq ds \/ conns'[f] = conns[f]
  BY <1>4
<1>6. StructsLive'
  <2>1. toConn = <<>> /\ toLocal = <<>>
    BY DEF StateCore, OneThread
  <2>2. \A x : x \notin ToSet(toConn)
    BY <2>1, NothingOnTheWay
  <2>3. \A f \in Structs : conns[f] = "live" => f = current
    BY <2>2 DEF StateCore, StructsLive
  <2>4. \A f \in Structs : conns'[f] # "live"
    BY <1>4, <2>3
  <2> QED BY <1>4, <2>2, <2>4 DEF StructsLive
<1>7. current' \in 0..MaxConns
  OBVIOUS
<1>8. harm' = harm
  <2>1. tracked' = [f \in DOMAIN tracked |-> Without(tracked[f], ds)]
    BY <1>2 DEF FreeData
  <2>2. tracked' \in [Structs -> Seq(Tracked)] /\ ToSet(tracked'[current]) = {}
    <3>1. /\ tracked' \in [Structs -> Seq(Tracked)]
          /\ \A f \in Structs : ToSet(tracked'[f]) = ToSet(tracked[f]) \ ds
      <4> HIDE DEF ds
      <4> QED BY <1>t, <2>1, ListsWithout
    <3> QED BY <1>1, <3>1
  <2>3. tracked'[current] = <<>>
    BY <1>1, <2>2, EmptyList
  <2> QED BY <1>3, <2>3 DEF ResetConn
<1> HIDE DEF ds
<1> QED BY <1>0, <1>2, <1>3, <1>4, <1>5, <1>6, <1>7, <1>8, FreedHere

(* A reset that is sent to the connection's thread. *)
LEMMA ResetIsSent ==
  ASSUME MaxConns \in Nat, ToldSoFar, StateCore, proxied, current # 0, current' = 0,
         toConn' = Append(toConn, Resetting(current)),
         UNCHANGED <<proxied, connOf, conns, tracked, services, freed, told, toLocal, connRefs, harm>>
  PROVE  StateCore' /\ ToldSoFar'
<1>t. /\ proxied \in BOOLEAN /\ current \in 0..MaxConns
      /\ conns \in [Structs -> {"new", "live", "freed"}]
      /\ connOf \in [Tracked -> 0..MaxConns]
      /\ tracked \in [Structs -> Seq(Tracked)]
      /\ services \subseteq Tracked /\ freed \subseteq Tracked
      /\ toConn \in Seq(ToConnType) /\ toLocal \in Seq(ToLocalType)
      /\ Once(toConn) /\ Once(toLocal)
  BY CoreFacts
<1>1. current \in Structs /\ conns[current] = "live"
  BY <1>t DEF Structs, StateCore, StructsLive
<1>2. Resetting(current) \notin ToSet(toConn)
  BY <1>1 DEF StateCore, StructsLive
<1>3. /\ toConn' \in Seq(ToConnType) /\ ToSet(toConn') = ToSet(toConn) \cup {Resetting(current)}
      /\ Once(toConn')
  <2>1. Resetting(current) \in ToConnType
    BY <1>1 DEF ToConnType
  <2>2. /\ Append(toConn, Resetting(current)) \in Seq(ToConnType)
        /\ ToSet(Append(toConn, Resetting(current))) = ToSet(toConn) \cup {Resetting(current)}
        /\ Once(toConn) /\ Resetting(current) \notin ToSet(toConn)
             => Once(Append(toConn, Resetting(current)))
    BY <1>t, <2>1, AppendFacts
  <2> QED BY <1>2, <1>t, <2>2
<1>4. StateTypeOK'
  BY <1>3, <1>t DEF StateTypeOK
<1>5. AddPending'
  <2>1. \A c : Adding(c) \in ToSet(toConn') <=> Adding(c) \in ToSet(toConn)
    BY <1>3, CallbacksDiffer
  <2> QED BY <2>1 DEF StateCore, AddPending
<1>6. ListsHold' /\ FreePending' /\ TellPending' /\ FreedWasAdded' /\ Registered' /\ ToldSoFar'
  BY DEF StateCore, ListsHold, FreePending, TellPending, FreedWasAdded, Registered, ToldSoFar
<1>7. OneThread' /\ UsedInOrder'
  BY DEF StateCore, OneThread, UsedInOrder
<1>8. StructsLive'
  <2>1. StructsLive
    BY DEF StateCore
  <2>2. \A f \in Structs : Resetting(f) \in ToSet(toConn') <=>
                           Resetting(f) \in ToSet(toConn) \/ f = current
    BY <1>3, CallbacksDiffer
  <2>3. \A f \in Structs : f # 0
    BY DEF Structs
  <2> QED BY <1>1, <2>1, <2>2, <2>3 DEF StructsLive
<1>9. AddsFirst'
  <2>1. /\ DOMAIN toConn = 1..Len(toConn) /\ Len(toConn) \in Nat
        /\ DOMAIN toConn' = 1..(Len(toConn) + 1) /\ toConn'[Len(toConn) + 1] = Resetting(current)
        /\ \A i \in 1..Len(toConn) : toConn'[i] = toConn[i]
    BY <1>t
  <2> SUFFICES ASSUME NEW i \in DOMAIN toConn', NEW c \in Tracked, toConn'[i] = Adding(c)
               PROVE  \E j \in DOMAIN toConn' : j > i /\ toConn'[j] = Resetting(connOf[c])
    BY DEF AddsFirst
  <2>2. i \in DOMAIN toConn /\ toConn[i] = Adding(c)
    BY <2>1, CallbacksDiffer
  <2>3. \/ connOf[c] = current
        \/ \E j \in DOMAIN toConn : j > i /\ toConn[j] = Resetting(connOf[c])
    BY <2>2 DEF StateCore, AddsFirst
  <2>4. CASE connOf[c] = current
    BY <2>1, <2>2, <2>4
  <2>5. CASE \E j \in DOMAIN toConn : j > i /\ toConn[j] = Resetting(connOf[c])
    BY <2>1, <2>5
  <2> QED BY <2>3, <2>4, <2>5
<1> QED BY <1>3, <1>4, <1>5, <1>6, <1>7, <1>8, <1>9 DEF StateCore

(* A reset on the connection's thread: when its struct lists nothing more it is freed;
   otherwise an assertion fails. *)
LEMMA ProxiedResetKeeps ==
  ASSUME MaxConns \in Nat, ToldSoFar, StateCore, ProxiedReset
  PROVE  ToldSoFar' /\ (harm' = harm => StateCore')
<1>t. /\ proxied \in BOOLEAN /\ current \in 0..MaxConns
      /\ conns \in [Structs -> {"new", "live", "freed"}]
      /\ connOf \in [Tracked -> 0..MaxConns]
      /\ tracked \in [Structs -> Seq(Tracked)]
      /\ services \subseteq Tracked /\ freed \subseteq Tracked
      /\ toConn \in Seq(ToConnType) /\ toLocal \in Seq(ToLocalType)
      /\ Once(toConn) /\ Once(toLocal)
  BY CoreFacts
<1> DEFINE e == Head(toConn).of
           ds == ToSet(tracked[e])
<1>0. /\ toConn # <<>> /\ Head(toConn).op = "reset"
      /\ services' = services \ ds /\ ReleaseData(ds)
      /\ harm' = IF ~(ds \subseteq services) THEN "gone"
                 ELSE IF tracked'[e] # <<>> THEN "assert" ELSE harm
      /\ conns' = [conns EXCEPT ![e] = "freed"] /\ connRefs' = connRefs - 1
      /\ toConn' = Tail(toConn)
      /\ UNCHANGED <<proxied, current, connOf>>
      /\ harm = "none"
  BY DEF ProxiedReset, ResetConn, Unharmed
<1>1. e \in Structs /\ Head(toConn) = Resetting(e)
  BY <1>0, HeadOfToConn DEF StateCore
<1>2. Resetting(e) \in ToSet(toConn) /\ Resetting(e) = toConn[1]
  BY <1>0, <1>1, <1>t, TailFacts
<1>3. proxied
  BY <1>0 DEF StateCore, OneThread
<1>4. /\ toLocal' = toLocal \o SetToSeq({[op |-> "free", of |-> c] : c \in ds})
      /\ UNCHANGED <<freed, tracked, told>>
  BY <1>0, <1>3 DEF ReleaseData, conn_getproxy
<1>5. ToldSoFar'
  BY <1>0, <1>4 DEF ToldSoFar
<1>6. SUFFICES ASSUME harm' = harm PROVE StateCore'
  BY <1>5
<1>7. tracked[e] = <<>>
  BY <1>0, <1>4, <1>6
<1>8. ds = {}
  BY <1>7 DEF ToSet
<1> HIDE DEF e, ds
<1>9. toLocal' = toLocal /\ services' = services
  <2>1. {[op |-> "free", of |-> c] : c \in ds} = {}
    BY <1>8
  <2>2. toLocal' = toLocal \o <<>>
    BY <1>4, <2>1, SmallSetToSeq
  <2> QED BY <1>0, <1>8, <1>t, <2>2
<1>10. conns[e] = "live" /\ e # current
  BY <1>1, <1>2 DEF StateCore, StructsLive
<1>11. /\ conns' \in [Structs -> {"new", "live", "freed"}]
       /\ conns'[e] = "freed" /\ \A f \in Structs : f # e => conns'[f] = conns[f]
       /\ connRefs' = Cardinality(LiveStructs(conns'))
       /\ UsedInOrder'
  BY <1>0, <1>1, <1>10, StructFreed
<1>12. /\ toConn' \in Seq(ToConnType) /\ Once(toConn')
       /\ ToSet(toConn') = ToSet(toConn) \ {Resetting(e)}
       /\ AddsFirst'
  BY <1>0, <1>1, ToConnMoves
<1>13. StateTypeOK'
  BY <1>0, <1>4, <1>9, <1>11, <1>12, <1>t DEF StateTypeOK
<1>14. AddPending'
  <2> SUFFICES ASSUME NEW c \in Tracked, Adding(c) \in ToSet(toConn')
               PROVE  /\ connOf[c] # 0 /\ conns'[connOf[c]] = "live" /\ c \notin freed
                      /\ \A f \in Structs : c \notin ToSet(tracked[f])
    BY <1>0, <1>4 DEF AddPending
  <2>1. Adding(c) \in ToSet(toConn)
    BY <1>12
  <2>2. /\ connOf[c] # 0 /\ conns[connOf[c]] = "live" /\ c \notin freed
        /\ \A f \in Structs : c \notin ToSet(tracked[f])
    BY <2>1 DEF StateCore, AddPending
  <2>3. connOf[c] # e
    <3>1. PICK i \in DOMAIN toConn' : toConn'[i] = Adding(c)
      BY DEF ToSet
    <3>2. \/ connOf'[c] = current'
          \/ \E j \in DOMAIN toConn' : j > i /\ toConn'[j] = Resetting(connOf'[c])
      BY <1>12, <3>1 DEF AddsFirst
    <3>3. ASSUME NEW j \in DOMAIN toConn', toConn'[j] = Resetting(connOf[c])
          PROVE  connOf[c] # e
      <4>1. Resetting(connOf[c]) \in ToSet(toConn')
        BY <3>3 DEF ToSet
      <4> QED BY <1>12, <4>1
    <3> QED BY <1>0, <1>10, <3>2, <3>3
  <2>4. connOf[c] \in Structs
    BY <1>t, <2>2 DEF Structs
  <2> QED BY <1>11, <2>2, <2>3, <2>4
<1>15. ListsHold'
  <2> SUFFICES ASSUME NEW f \in Structs
               PROVE  /\ Once(tracked[f])
                      /\ \A c \in ToSet(tracked[f]) :
                           connOf[c] = f /\ c \notin freed /\ conns'[f] = "live"
    BY <1>0, <1>4 DEF ListsHold
  <2>1. /\ Once(tracked[f])
        /\ \A c \in ToSet(tracked[f]) : connOf[c] = f /\ c \notin freed /\ conns[f] = "live"
    BY DEF StateCore, ListsHold
  <2>2. CASE f = e
    BY <1>8, <2>1, <2>2 DEF ds
  <2>3. CASE f # e
    BY <1>11, <2>1, <2>3
  <2> QED BY <2>2, <2>3
<1>16. FreePending' /\ TellPending' /\ FreedWasAdded' /\ Registered'
  BY <1>0, <1>4, <1>9 DEF StateCore, FreePending, TellPending, FreedWasAdded, Registered
<1>17. OneThread'
  BY <1>0, <1>3 DEF OneThread
<1>18. StructsLive'
  <2>1. StructsLive
    BY DEF StateCore
  <2>2. \A f \in Structs : Resetting(f) \in ToSet(toConn') <=>
                           Resetting(f) \in ToSet(toConn) /\ f # e
    BY <1>12, CallbacksDiffer
  <2>3. current' # 0 => conns'[current'] = "live"
    BY <1>0, <1>10, <1>11, <1>t, <2>1 DEF StructsLive, Structs
  <2>4. \A f \in Structs : Resetting(f) \in ToSet(toConn') => conns'[f] = "live" /\ f # current'
    BY <1>0, <1>11, <2>1, <2>2 DEF StructsLive
  <2>5. \A f \in Structs : conns'[f] = "live" => f = current' \/ Resetting(f) \in ToSet(toConn')
    BY <1>0, <1>11, <2>1, <2>2 DEF StructsLive
  <2> QED BY <1>11, <2>3, <2>4, <2>5 DEF StructsLive
<1> QED BY <1>11, <1>12, <1>13, <1>14, <1>15, <1>16, <1>17, <1>18 DEF StateCore

-----------------------------------------------------------------------------
(* The theorem *)

LEMMA StateInvInit ==
  ASSUME MaxConns \in Nat, Threaded \subseteq BOOLEAN, StateInit
  PROVE  StateInv
<1>0. /\ proxied \in BOOLEAN /\ current = 0
      /\ conns = [e \in Structs |-> "new"] /\ connOf = [d \in Tracked |-> 0]
      /\ tracked = [e \in Structs |-> <<>>] /\ services = {} /\ freed = {}
      /\ told = [d \in Tracked |-> 0] /\ toConn = <<>> /\ toLocal = <<>> /\ connRefs = 0
  BY DEF StateInit, Structs
<1>1. ToldSoFar
  BY <1>0 DEF ToldSoFar
<1>2. /\ toConn \in Seq(ToConnType) /\ toLocal \in Seq(ToLocalType)
      /\ Once(toConn) /\ Once(toLocal) /\ \A x : x \notin ToSet(toConn)
      /\ AddPending /\ FreePending /\ TellPending /\ AddsFirst /\ OneThread
  BY <1>0, NothingOnTheWay
<1>3. StateTypeOK
  <2>1. tracked \in [Structs -> Seq(Tracked)]
    BY <1>0
  <2> QED BY <1>0, <1>2, <2>1 DEF StateTypeOK
<1>4. \A e \in Structs : ToSet(tracked[e]) = {} /\ Once(tracked[e])
  BY <1>0 DEF ToSet, Once
<1>5. ListsHold /\ FreedWasAdded /\ Registered
  BY <1>0, <1>4 DEF ListsHold, FreedWasAdded, Registered
<1>6. StructsLive
  <2>1. LiveStructs(conns) = {}
    BY <1>0 DEF LiveStructs
  <2> QED BY <1>0, <1>2, <2>1, FS_EmptySet DEF StructsLive
<1>7. UsedInOrder
  BY <1>0, SMTT(20) DEF UsedInOrder, Structs
<1>8. Accounted /\ ToldHere /\ HarmAcrossThreads /\ Unharmed
  BY <1>0 DEF StateInit, Accounted, ToldHere, HarmAcrossThreads, Unharmed
<1> QED BY <1>1, <1>2, <1>3, <1>5, <1>6, <1>7, <1>8 DEF StateInv, StateCore

LEMMA StateAddKeeps ==
  ASSUME MaxConns \in Nat, ToldSoFar, StateCore, NEW d \in Tracked, NEW accepted \in BOOLEAN,
         NEW unset \in BOOLEAN, StateAdd(d, accepted, unset), harm' = "none"
  PROVE  StateCore' /\ ToldSoFar'
<1>1. connOf[d] = 0 /\ LookupConnection(d) /\ UNCHANGED proxied
  BY DEF StateAdd
<1>2. CASE proxied
  <2>1. toConn' = Append(toConn, Adding(d)) /\ UNCHANGED <<services, tracked, freed, told, toLocal>>
    <3>1. ~unset
      BY <1>2 DEF StateAdd, conn_shouldproxy, DupString, Unharmed
    <3> QED BY <1>2, <3>1 DEF StateAdd, conn_shouldproxy, conn_proxy, Adding
  <2>2. ToldSoFar'
    BY <2>1 DEF ToldSoFar
  <2> QED BY <1>1, <1>2, <2>1, <2>2, AddIsSent
<1>3. CASE ~proxied
  <2>1. UNCHANGED toConn /\ \E ok \in BOOLEAN : DoAdd(d, connOf'[d], ok)
    BY <1>3, Zenon
       DEF StateAdd, conn_shouldproxy, DoKind, StateDoBind, DoAddMatch, DoAddReply
  <2> QED BY <1>1, <1>3, <2>1, AddHere
<1> QED BY <1>2, <1>3

LEMMA StateResetKeeps ==
  ASSUME MaxConns \in Nat, ToldSoFar, StateCore, StateReset
  PROVE  StateCore' /\ ToldSoFar' /\ harm' = harm
<1>1. current # 0 /\ current' = 0 /\ UNCHANGED <<proxied, connOf>>
  BY DEF StateReset
<1>2. CASE proxied
  <2>1. /\ toConn' = Append(toConn, Resetting(current))
        /\ UNCHANGED <<conns, tracked, services, freed, told, toLocal, connRefs, harm>>
    BY <1>2 DEF StateReset, conn_shouldproxy, conn_proxy, Resetting
  <2> QED BY <1>1, <1>2, <2>1, ResetIsSent
<1>3. CASE ~proxied
  <2>1. ResetConn(current) /\ UNCHANGED toConn
    BY <1>3 DEF StateReset, conn_shouldproxy
  <2> QED BY <1>1, <1>3, <2>1, ResetHere
<1> QED BY <1>2, <1>3

-----------------------------------------------------------------------------
(* No service is lost, and what a stopped program leaves *)

(* A service that is added is on its way, listed or, if it is refused, freed. *)
LEMMA StateAddAccounts ==
  ASSUME MaxConns \in Nat, ToldSoFar, StateCore, Accounted, ToldHere, NEW d \in Tracked,
         NEW accepted \in BOOLEAN, NEW unset \in BOOLEAN, StateAdd(d, accepted, unset),
         harm' = "none"
  PROVE  Accounted' /\ ToldHere'
<1>t. /\ conns \in [Structs -> {"new", "live", "freed"}]
      /\ connOf \in [Tracked -> 0..MaxConns] /\ tracked \in [Structs -> Seq(Tracked)]
      /\ services \subseteq Tracked /\ freed \subseteq Tracked /\ toConn \in Seq(ToConnType)
  BY CoreFacts
<1>0. connOf[d] = 0 /\ LookupConnection(d) /\ UNCHANGED proxied
  BY DEF StateAdd
<1>1. PICK e \in Structs : connOf' = [connOf EXCEPT ![d] = e]
  BY <1>0, LookupEffect
<1>2. connOf'[d] = e /\ \A c \in Tracked : c # d => connOf'[c] = connOf[c]
  BY <1>1, <1>t
<1>3. CASE proxied
  <2>1. toConn' = Append(toConn, Adding(d)) /\ UNCHANGED <<tracked, freed>>
    <3>1. ~unset
      BY <1>3 DEF StateAdd, conn_shouldproxy, DupString, Unharmed
    <3> QED BY <1>3, <3>1 DEF StateAdd, conn_shouldproxy, conn_proxy, Adding
  <2>2. ToSet(toConn') = ToSet(toConn) \cup {Adding(d)}
    <3>1. Adding(d) \in ToConnType
      BY DEF ToConnType
    <3> QED BY <1>t, <2>1, <3>1, AppendFacts
  <2>3. Accounted'
    BY <1>2, <2>1, <2>2 DEF Accounted
  <2> QED BY <1>0, <1>3, <2>3 DEF ToldHere
<1>4. CASE ~proxied
  <2>1. UNCHANGED toConn /\ \E ok \in BOOLEAN : DoAdd(d, e, ok)
    <3>1. UNCHANGED toConn /\ \E ok \in BOOLEAN : DoAdd(d, connOf'[d], ok)
      BY <1>4, Zenon
         DEF StateAdd, conn_shouldproxy, DoKind, StateDoBind, DoAddMatch, DoAddReply
    <3> QED BY <1>2, <3>1
  <2>2. CASE DoAdd(d, e, TRUE)
    <3>1. tracked' = [tracked EXCEPT ![e] = <<d>> \o @] /\ UNCHANGED <<freed, told>>
      BY <2>2 DEF DoAdd
    <3>2. /\ ToSet(tracked'[e]) = ToSet(tracked[e]) \cup {d}
          /\ \A f \in Structs : f # e => tracked'[f] = tracked[f]
      BY <1>t, <3>1, ConsFacts
    <3>3. \A c \in Tracked : connOf[c] # 0 => connOf[c] \in Structs
      BY <1>t DEF Structs
    <3>4. Accounted'
      BY <1>2, <2>1, <3>1, <3>2, <3>3 DEF Accounted
    <3> QED BY <1>0, <3>1, <3>4 DEF ToldHere
  <2>3. CASE DoAdd(d, e, FALSE)
    <3>1. /\ freed' = freed \cup {d}
          /\ tracked' = [f \in DOMAIN tracked |-> Without(tracked[f], {d})]
          /\ told' = [c \in Tracked |-> IF c \in {d} THEN told[c] + 1 ELSE told[c]]
      BY <1>4, <2>3 DEF DoAdd, FreeData, conn_getproxy
    <3>2. \A f \in Structs : ToSet(tracked'[f]) = ToSet(tracked[f]) \ {d}
      BY <1>t, <3>1, ListsWithout
    <3>3. \A c \in Tracked : connOf[c] # 0 => connOf[c] \in Structs
      BY <1>t DEF Structs
    <3>4. Accounted'
      BY <1>2, <2>1, <3>1, <3>2, <3>3 DEF Accounted
    <3>5. told[d] = 0
      BY <1>0, NotYetAdded
    <3>6. ToldHere'
      BY <1>0, <1>t, <3>1, <3>5 DEF ToldHere
    <3> QED BY <3>4, <3>6
  <2> QED BY <2>1, <2>2, <2>3
<1> QED BY <1>3, <1>4

(* What arrives at the connection's thread is listed or, if it is refused, freed. *)
LEMMA ProxyAddAccounts ==
  ASSUME StateCore, Accounted, NEW kind, NEW accepted \in BOOLEAN, ProxyAdd(kind, accepted)
  PROVE  Accounted' /\ ToldHere'
<1> DEFINE d == Head(toConn).of
           e == connOf[d]
<1>t. /\ connOf \in [Tracked -> 0..MaxConns] /\ tracked \in [Structs -> Seq(Tracked)]
      /\ freed \subseteq Tracked /\ toConn \in Seq(ToConnType)
  BY CoreFacts
<1>0. /\ toConn # <<>> /\ Head(toConn).op = "add" /\ toConn' = Tail(toConn)
      /\ UNCHANGED <<proxied, current, connOf>>
      /\ \E ok \in BOOLEAN : DoAdd(d, e, ok)
  BY Zenon DEF ProxyAdd, DoKind, StateDoBind, DoAddMatch, DoAddReply
<1>1. d \in Tracked /\ Head(toConn) = Adding(d)
  BY <1>0, HeadOfToConn DEF StateCore
<1>2. ToSet(toConn') = ToSet(toConn) \ {Adding(d)} /\ Adding(d) \in ToSet(toConn)
  BY <1>0, <1>1, <1>t, ToConnMoves, TailFacts
<1> HIDE DEF d
<1>3. e \in Structs /\ connOf[d] = e
  <2>1. connOf[d] # 0
    BY <1>1, <1>2 DEF StateCore, AddPending
  <2> QED BY <1>1, <1>t, <2>1 DEF Structs
<1> HIDE DEF e
<1>4. proxied
  BY <1>0 DEF StateCore, OneThread
<1>5. \A c \in Tracked : connOf[c] # 0 => connOf[c] \in Structs
  BY <1>t DEF Structs
<1>6. CASE DoAdd(d, e, TRUE)
  <2>1. tracked' = [tracked EXCEPT ![e] = <<d>> \o @] /\ UNCHANGED freed
    BY <1>6 DEF DoAdd
  <2>2. /\ ToSet(tracked'[e]) = ToSet(tracked[e]) \cup {d}
        /\ \A f \in Structs : f # e => tracked'[f] = tracked[f]
    BY <1>1, <1>3, <1>t, <2>1, ConsFacts
  <2>3. \A c \in Tracked : c # d => (Adding(c) \in ToSet(toConn) <=> Adding(c) \in ToSet(toConn'))
    BY <1>2, CallbacksDiffer
  <2>4. Accounted'
    BY <1>0, <1>3, <1>5, <2>1, <2>2, <2>3 DEF Accounted
  <2> QED BY <1>0, <1>4, <2>4 DEF ToldHere
<1>7. CASE DoAdd(d, e, FALSE)
  <2>1. /\ freed' = freed \cup {d}
        /\ tracked' = [f \in DOMAIN tracked |-> Without(tracked[f], {d})]
    BY <1>7 DEF DoAdd, FreeData
  <2>2. \A f \in Structs : ToSet(tracked'[f]) = ToSet(tracked[f]) \ {d}
    BY <1>t, <2>1, ListsWithout
  <2>3. \A c \in Tracked : c # d => (Adding(c) \in ToSet(toConn) <=> Adding(c) \in ToSet(toConn'))
    BY <1>2, CallbacksDiffer
  <2>4. Accounted'
    BY <1>0, <1>5, <2>1, <2>2, <2>3 DEF Accounted
  <2> QED BY <1>0, <1>4, <2>4 DEF ToldHere
<1> QED BY <1>0, <1>6, <1>7

(* What the connection lets go of stays listed or is freed. *)
LEMMA ReleaseAccounts ==
  ASSUME ToldSoFar, StateCore, Accounted, ToldHere, NEW ds, ReleaseData(ds),
         ~proxied => ds \subseteq services, UNCHANGED <<proxied, connOf>>,
         \A d \in Tracked : Adding(d) \in ToSet(toConn) => Adding(d) \in ToSet(toConn')
  PROVE  Accounted' /\ ToldHere'
<1>t. /\ connOf \in [Tracked -> 0..MaxConns] /\ tracked \in [Structs -> Seq(Tracked)]
      /\ services \subseteq Tracked /\ freed \subseteq Tracked
  BY CoreFacts
<1>1. \A c \in Tracked : connOf[c] # 0 => connOf[c] \in Structs
  BY <1>t DEF Structs
<1>2. CASE proxied
  <2>1. UNCHANGED <<freed, tracked, told>>
    BY <1>2 DEF ReleaseData, conn_getproxy
  <2> QED BY <1>2, <2>1 DEF Accounted, ToldHere
<1>3. CASE ~proxied
  <2>1. /\ freed' = freed \cup ds
        /\ tracked' = [f \in DOMAIN tracked |-> Without(tracked[f], ds)]
        /\ told' = [c \in Tracked |-> IF c \in ds THEN told[c] + 1 ELSE told[c]]
    BY <1>3 DEF ReleaseData, FreeData, conn_getproxy
  <2>2. \A f \in Structs : ToSet(tracked'[f]) = ToSet(tracked[f]) \ ds
    BY <1>t, <2>1, ListsWithout
  <2>3. Accounted'
    BY <1>1, <2>1, <2>2 DEF Accounted
  <2>4. \A c \in ds : c \in Tracked /\ told[c] = 0
    BY <1>3, <1>t DEF ToldSoFar
  <2>5. ToldHere'
    BY <1>t, <2>1, <2>4 DEF ToldHere, ToldSoFar
  <2> QED BY <2>3, <2>5
<1> QED BY <1>2, <1>3

(* Every step that does not stop the program accounts for every service. *)
LEMMA StepsAccount ==
  ASSUME MaxConns \in Nat, ToldSoFar, StateCore, Accounted, ToldHere, StateNext, harm' = "none"
  PROVE  Accounted' /\ ToldHere'
<1>t. /\ connOf \in [Tracked -> 0..MaxConns] /\ tracked \in [Structs -> Seq(Tracked)]
      /\ services \subseteq Tracked /\ freed \subseteq Tracked
      /\ toConn \in Seq(ToConnType) /\ toLocal \in Seq(ToLocalType)
  BY CoreFacts
<1>1. ASSUME NEW d \in Tracked, NEW accepted \in BOOLEAN, NEW unset \in BOOLEAN,
             StateAdd(d, accepted, unset)
      PROVE  Accounted' /\ ToldHere'
  BY <1>1, StateAddAccounts
<1>2. ASSUME NEW kind, NEW accepted \in BOOLEAN, ProxyAdd(kind, accepted)
      PROVE  Accounted' /\ ToldHere'
  BY <1>2, ProxyAddAccounts
<1>3. ASSUME NEW d \in Tracked, ServiceGone(d)
      PROVE  Accounted' /\ ToldHere'
  <2>1. d \in services /\ ReleaseData({d}) /\ UNCHANGED <<proxied, connOf, toConn>>
    BY <1>3 DEF ServiceGone
  <2> QED BY <2>1, ReleaseAccounts
<1>4. CASE ReleaseDataCallback
  <2> DEFINE d == Head(toLocal).of
  <2>1. /\ freed' = freed \cup {d} /\ toLocal # <<>>
        /\ tracked' = [f \in DOMAIN tracked |-> Without(tracked[f], {d})]
        /\ UNCHANGED <<proxied, connOf, toConn>>
    BY <1>4 DEF ReleaseDataCallback
  <2> HIDE DEF d
  <2>2. \A f \in Structs : ToSet(tracked'[f]) = ToSet(tracked[f]) \ {d}
    BY <1>t, <2>1, ListsWithout
  <2>3. \A c \in Tracked : connOf[c] # 0 => connOf[c] \in Structs
    BY <1>t DEF Structs
  <2>4. Accounted'
    BY <2>1, <2>2, <2>3 DEF Accounted
  <2>5. proxied
    BY <2>1 DEF StateCore, OneThread
  <2> QED BY <2>1, <2>4, <2>5 DEF ToldHere
<1>5. CASE UserRelease
  <2>1. UNCHANGED <<proxied, connOf, tracked, freed, toConn>> /\ toLocal # <<>>
    BY <1>5 DEF UserRelease
  <2>2. proxied
    BY <2>1 DEF StateCore, OneThread
  <2> QED BY <2>1, <2>2 DEF Accounted, ToldHere
<1>6. CASE StateReset
  <2>1. CASE proxied
    <3>1. /\ toConn' = Append(toConn, Resetting(current))
          /\ UNCHANGED <<proxied, connOf, tracked, freed>>
      BY <1>6, <2>1 DEF StateReset, conn_shouldproxy, conn_proxy, Resetting
    <3>2. ToSet(toConn) \subseteq ToSet(toConn')
      <4>1. current \in Structs
        BY <1>6, CoreFacts DEF StateReset, Structs
      <4>2. Resetting(current) \in ToConnType
        BY <4>1 DEF ToConnType
      <4> QED BY <1>t, <3>1, <4>2, AppendFacts
    <3> QED BY <2>1, <3>1, <3>2 DEF Accounted, ToldHere
  <2>2. CASE ~proxied
    <3>1. ResetConn(current) /\ UNCHANGED <<proxied, connOf, toConn>> /\ current # 0
      BY <1>6, <2>2 DEF StateReset, conn_shouldproxy
    <3>2. ReleaseData(ToSet(tracked[current]))
      BY <3>1 DEF ResetConn
    <3>3. current \in Structs
      BY <3>1, CoreFacts DEF Structs
    <3>4. ToSet(tracked[current]) \subseteq services
      BY <2>2, <3>3 DEF StateCore, Registered
    <3> QED BY <3>1, <3>2, <3>4, ReleaseAccounts
  <2> QED BY <2>1, <2>2
<1>7. CASE ProxiedReset
  <2> DEFINE e == Head(toConn).of
  <2>1. /\ ReleaseData(ToSet(tracked[e])) /\ UNCHANGED <<proxied, current, connOf>>
        /\ toConn # <<>> /\ Head(toConn).op = "reset" /\ toConn' = Tail(toConn)
    BY <1>7 DEF ProxiedReset, ResetConn
  <2>2. ToSet(toConn') = ToSet(toConn) \ {Head(toConn)} /\ Head(toConn) = Resetting(e)
    BY <2>1, ToConnMoves, HeadOfToConn DEF StateCore
  <2>3. proxied
    BY <2>1 DEF StateCore, OneThread
  <2> HIDE DEF e
  <2>4. \A c \in Tracked : Adding(c) \in ToSet(toConn) => Adding(c) \in ToSet(toConn')
    BY <2>2, CallbacksDiffer
  <2> QED BY <2>1, <2>3, <2>4, ReleaseAccounts
<1>8. ASSUME NEW d \in Tracked, NEW accepted \in BOOLEAN,
             adbus_state_bind(d, accepted) \/ adbus_state_addreply(d, accepted)
      PROVE  Accounted' /\ ToldHere'
  BY <1>1, <1>8 DEF adbus_state_bind, adbus_state_addreply
<1>9. ASSUME NEW d \in Tracked, NEW unset \in BOOLEAN, adbus_state_addmatch(d, unset)
      PROVE  Accounted' /\ ToldHere'
  BY <1>1, <1>9 DEF adbus_state_addmatch
<1>10. ASSUME NEW accepted \in BOOLEAN, ProxyBind(accepted) \/ ProxyReply(accepted)
       PROVE  Accounted' /\ ToldHere'
  BY <1>2, <1>10 DEF ProxyBind, ProxyReply
<1>11. CASE ProxyAddMatch
  BY <1>2, <1>11 DEF ProxyAddMatch
<1> QED BY <1>3, <1>4, <1>5, <1>6, <1>7, <1>8, <1>9, <1>10, <1>11 DEF StateNext, StateStep

(* What the invariant says of the resets while the program runs. *)
LEMMA ResetsSoFar ==
  ASSUME HarmAcrossThreads, Unharmed, StateCore, Accounted, ToldHere
  PROVE  ResetOutcome
<1>t. /\ conns \in [Structs -> {"new", "live", "freed"}]
      /\ connOf \in [Tracked -> 0..MaxConns] /\ tracked \in [Structs -> Seq(Tracked)]
  BY CoreFacts
<1>1. ASSUME NEW d \in Tracked, connOf[d] # 0, conns[connOf[d]] = "freed"
      PROVE  d \notin services /\ d \in freed /\ (~proxied => told[d] = 1)
  <2>1. connOf[d] \in Structs
    BY <1>1, <1>t DEF Structs
  <2>2. d \notin ToSet(tracked[connOf[d]])
    BY <1>1, <2>1 DEF StateCore, ListsHold
  <2>3. Adding(d) \notin ToSet(toConn)
    BY <1>1 DEF StateCore, AddPending
  <2>4. d \notin services
    BY <2>2 DEF StateCore, Registered
  <2>5. d \in freed
    BY <1>1, <2>2, <2>3 DEF Accounted
  <2> QED BY <2>4, <2>5 DEF ToldHere
<1>2. ASSUME NEW e \in Structs, conns[e] = "freed" PROVE tracked[e] = <<>>
  <2>1. ToSet(tracked[e]) = {}
    BY <1>2 DEF StateCore, ListsHold
  <2> QED BY <1>t, <2>1, EmptyList
<1>3. harm \notin {"assert", "gone"} /\ DOMAIN conns = Structs
  BY <1>t DEF Unharmed
<1> QED BY <1>1, <1>2, <1>3 DEF ResetOutcome

(* A string that is not there is copied: the resets so far are what they were. *)
LEMMA UnsetStops ==
  ASSUME MaxConns \in Nat, ToldSoFar, HarmAcrossThreads, StateCore, Accounted, ToldHere,
         NEW d \in Tracked, NEW accepted \in BOOLEAN, NEW unset \in BOOLEAN,
         StateAdd(d, accepted, unset), harm' # "none"
  PROVE  StateInv'
<1>t. /\ conns \in [Structs -> {"new", "live", "freed"}]
      /\ connOf \in [Tracked -> 0..MaxConns]
  BY CoreFacts
<1>0. Unharmed /\ harm = "none" /\ connOf[d] = 0 /\ LookupConnection(d) /\ UNCHANGED proxied
  BY DEF StateAdd, Unharmed
<1>1. PICK e \in Structs : /\ connOf' = [connOf EXCEPT ![d] = e]
                           /\ conns' = [conns EXCEPT ![e] = "live"] /\ conns[e] # "freed"
  BY <1>0, LookupEffect
<1>2. proxied /\ harm' = "null"
  BY <1>0 DEF StateAdd, conn_shouldproxy, DupString
<1>3. UNCHANGED <<services, tracked, freed, told>>
  BY <1>2 DEF StateAdd, conn_shouldproxy
<1>4. /\ \A c \in Tracked : connOf'[c] # 0 /\ conns'[connOf'[c]] = "freed"
                           => connOf[c] # 0 /\ conns[connOf[c]] = "freed"
      /\ DOMAIN conns' = DOMAIN conns
      /\ \A f \in DOMAIN conns : conns'[f] = "freed" => conns[f] = "freed"
  <2>1. \A f \in Structs : conns'[f] = "freed" => conns[f] = "freed"
    BY <1>1, <1>t
  <2>2. DOMAIN conns' = Structs /\ DOMAIN conns = Structs
    BY <1>1, <1>t
  <2>3. connOf'[d] = e /\ conns'[e] = "live" /\ \A c \in Tracked : c # d => connOf'[c] = connOf[c]
    BY <1>1, <1>t
  <2>4. \A c \in Tracked : connOf[c] # 0 => connOf[c] \in Structs
    BY <1>t DEF Structs
  <2> QED BY <2>1, <2>2, <2>3, <2>4
<1>5. ResetOutcome
  BY <1>0, ResetsSoFar
<1>6. ResetOutcome'
  BY <1>0, <1>2, <1>3, <1>4, <1>5 DEF ResetOutcome, Unharmed
<1>7. ToldSoFar' /\ HarmAcrossThreads'
  BY <1>0, <1>2, <1>3 DEF ToldSoFar, HarmAcrossThreads
<1> QED BY <1>2, <1>6, <1>7 DEF StateInv, Unharmed

(* A reset on the connection's thread that finds a service stops the program. *)
LEMMA ResetStops ==
  ASSUME MaxConns \in Nat, ToldSoFar, HarmAcrossThreads, StateCore, Accounted, ToldHere,
         ProxiedReset, harm' # "none"
  PROVE  StateInv'
<1>t. /\ conns \in [Structs -> {"new", "live", "freed"}]
      /\ connOf \in [Tracked -> 0..MaxConns] /\ tracked \in [Structs -> Seq(Tracked)]
      /\ services \subseteq Tracked
  BY CoreFacts
<1> DEFINE e == Head(toConn).of
           ds == ToSet(tracked[e])
<1>0. /\ toConn # <<>> /\ Head(toConn).op = "reset"
      /\ services' = services \ ds /\ ReleaseData(ds)
      /\ harm' = IF ~(ds \subseteq services) THEN "gone"
                 ELSE IF tracked'[e] # <<>> THEN "assert" ELSE harm
      /\ conns' = [conns EXCEPT ![e] = "freed"]
      /\ UNCHANGED <<proxied, connOf>> /\ harm = "none"
  BY DEF ProxiedReset, ResetConn, Unharmed
<1>1. e \in Structs
  BY <1>0, HeadOfToConn DEF StateCore
<1>2. proxied
  BY <1>0 DEF StateCore, OneThread
<1>3. UNCHANGED <<freed, tracked, told>>
  BY <1>0, <1>2 DEF ReleaseData, conn_getproxy
<1>4. harm' \in {"assert", "gone"} /\ tracked[e] # <<>>
  <2>1. tracked[e] = <<>> => ds = {}
    BY DEF ToSet
  <2> QED BY <1>0, <1>3, <2>1
<1>5. ResetOutcome
  BY <1>0, ResetsSoFar DEF Unharmed
<1>6. \A d \in Tracked : connOf[d] = e => d \notin services'
  <2>1. \A d \in services : connOf[d] # 0 /\ d \in ToSet(tracked[connOf[d]])
    BY DEF StateCore, Registered
  <2> QED BY <1>0, <2>1
<1> HIDE DEF e, ds
<1>7. DOMAIN conns' = DOMAIN conns /\ e \in DOMAIN conns /\ conns'[e] = "freed"
      /\ \A f \in Structs : f # e => conns'[f] = conns[f]
  BY <1>0, <1>1, <1>t
<1>8. ASSUME NEW d \in Tracked, connOf[d] # 0, conns'[connOf[d]] = "freed"
      PROVE  d \notin services'
  <2>1. connOf[d] \in Structs
    BY <1>8, <1>t DEF Structs
  <2>2. CASE connOf[d] = e
    BY <1>6, <2>2
  <2>3. CASE connOf[d] # e
    BY <1>0, <1>5, <1>7, <1>8, <2>1, <2>3 DEF ResetOutcome
  <2> QED BY <2>2, <2>3
<1>9. ResetOutcome'
  BY <1>0, <1>2, <1>3, <1>4, <1>7, <1>8 DEF ResetOutcome, Unharmed
<1>10. ToldSoFar' /\ HarmAcrossThreads'
  BY <1>0, <1>2, <1>3, <1>4 DEF ToldSoFar, HarmAcrossThreads
<1> QED BY <1>4, <1>9, <1>10 DEF StateInv, Unharmed

(* Every step keeps the invariant. *)
LEMMA StateInvNext ==
  ASSUME MaxConns \in Nat, StateInv, [StateNext]_stateVars
  PROVE  StateInv'
<1>1. CASE UNCHANGED stateVars
  BY <1>1 DEF StateInv, Unharmed, Accounted, ToldHere, HarmAcrossThreads, ResetOutcome,
              StateCore, StateTypeOK, AddPending, ListsHold, FreePending,
              TellPending, FreedWasAdded, Registered, OneThread, StructsLive, AddsFirst,
              UsedInOrder, ToldSoFar, stateVars
<1>2. CASE StateNext
  <2>0. SUFFICES ASSUME ToldSoFar, HarmAcrossThreads, Unharmed, StateCore, Accounted, ToldHere
                 PROVE  StateInv'
    <3>1. Unharmed
      BY <1>2 DEF StateNext, StateStep, ProxyBind, ProxyReply, ProxyAddMatch, ProxyAdd,
                  ReleaseDataCallback, UserRelease, ProxiedReset, adbus_state_bind,
                  adbus_state_addreply, adbus_state_addmatch, StateAdd, ServiceGone, StateReset
    <3> QED BY <3>1 DEF StateInv
  <2>n. ASSUME StateCore', ToldSoFar', harm' = harm PROVE StateInv'
    <3>1. harm' = "none"
      BY <2>0, <2>n DEF Unharmed
    <3>2. Accounted' /\ ToldHere'
      BY <1>2, <2>0, <3>1, StepsAccount
    <3> QED BY <2>0, <2>n, <3>1, <3>2 DEF StateInv, Unharmed, HarmAcrossThreads
  <2>1. ASSUME NEW kind, NEW accepted \in BOOLEAN, ProxyAdd(kind, accepted)
        PROVE  StateInv'
    BY <2>0, <2>1, <2>n, ProxyAddKeeps DEF ProxyAdd
  <2>2. ASSUME NEW d \in Tracked, NEW accepted \in BOOLEAN, NEW unset \in BOOLEAN,
               StateAdd(d, accepted, unset)
        PROVE  StateInv'
    <3>1. CASE harm' = "none"
      <4>1. StateCore' /\ ToldSoFar'
        BY <2>0, <2>2, <3>1, StateAddKeeps
      <4> QED BY <2>0, <2>n, <3>1, <4>1 DEF Unharmed
    <3>2. CASE harm' # "none"
      BY <2>0, <2>2, <3>2, UnsetStops
    <3> QED BY <3>1, <3>2
  <2>3. ASSUME NEW accepted \in BOOLEAN, ProxyBind(accepted) \/ ProxyReply(accepted)
        PROVE  StateInv'
    BY <2>1, <2>3 DEF ProxyBind, ProxyReply
  <2>4. CASE ProxyAddMatch
    BY <2>1, <2>4 DEF ProxyAddMatch
  <2>5. CASE ReleaseDataCallback
    BY <2>0, <2>5, <2>n, ReleaseDataCallbackKeeps
  <2>6. CASE UserRelease
    BY <2>0, <2>6, <2>n, UserReleaseKeeps DEF UserRelease
  <2>7. CASE ProxiedReset
    <3>1. CASE harm' = "none"
      BY <2>0, <2>7, <2>n, <3>1, ProxiedResetKeeps DEF Unharmed
    <3>2. CASE harm' # "none"
      BY <2>0, <2>7, <3>2, ResetStops
    <3> QED BY <3>1, <3>2
  <2>8. ASSUME NEW d \in Tracked, NEW accepted \in BOOLEAN,
               adbus_state_bind(d, accepted) \/ adbus_state_addreply(d, accepted)
        PROVE  StateInv'
    BY <2>2, <2>8 DEF adbus_state_bind, adbus_state_addreply
  <2>9. ASSUME NEW d \in Tracked, NEW unset \in BOOLEAN, adbus_state_addmatch(d, unset)
        PROVE  StateInv'
    BY <2>2, <2>9 DEF adbus_state_addmatch
  <2>10. ASSUME NEW d \in Tracked, ServiceGone(d)
         PROVE  StateInv'
    BY <2>0, <2>10, <2>n, ServiceGoneKeeps DEF ServiceGone
  <2>11. CASE StateReset
    BY <2>0, <2>11, <2>n, StateResetKeeps
  <2> QED BY <1>2, <2>3, <2>4, <2>5, <2>6, <2>7, <2>8, <2>9, <2>10, <2>11 DEF StateNext, StateStep
<1> QED BY <1>1, <1>2

(* The invariant is what StateSound asks for. *)
LEMMA StateInvSound ==
  ASSUME MaxConns \in Nat, StateInv
  PROVE  StateSound
<1>1. TracksServices
  <2> SUFFICES ASSUME Unharmed PROVE TracksServices!2
    BY DEF TracksServices
  <2>0. StateCore
    BY DEF StateInv
  <2>1. DOMAIN tracked = Structs /\ services \subseteq Tracked /\ connOf \in [Tracked -> 0..MaxConns]
    BY <2>0, CoreFacts
  <2>2. \A e \in Structs :
          /\ \A i, j \in DOMAIN tracked[e] : tracked[e][i] = tracked[e][j] => i = j
          /\ \A d \in ToSet(tracked[e]) : connOf[d] = e /\ d \notin freed /\ conns[e] = "live"
    BY <2>0 DEF StateCore, ListsHold, Once
  <2>3. services \subseteq UNION {ToSet(tracked[e]) : e \in Structs}
    <3> SUFFICES ASSUME NEW d \in services
                 PROVE  \E e \in Structs : d \in ToSet(tracked[e])
      OBVIOUS
    <3>1. connOf[d] # 0 /\ d \in ToSet(tracked[connOf[d]])
      BY <2>0 DEF StateCore, Registered
    <3>2. connOf[d] \in Structs
      BY <2>1, <3>1 DEF Structs
    <3> QED BY <3>1, <3>2
  <2>4. ~proxied => UNION {ToSet(tracked[e]) : e \in Structs} \subseteq services
    <3>1. ~proxied => \A e \in Structs : ToSet(tracked[e]) \subseteq services
      BY <2>0 DEF StateCore, Registered
    <3> QED BY <3>1
  <2> QED BY <2>1, <2>2, <2>3, <2>4
<1>2. ToldOnce
  BY DEF StateInv, ToldSoFar, ToldOnce
<1>3. ResetClears
  <2> SUFFICES ASSUME Unharmed, current = 0, toConn = <<>>
               PROVE  services = {} /\ connRefs = 0
    BY DEF ResetClears
  <2>0. StateCore
    BY DEF StateInv
  <2>1. \A x : x \notin ToSet(toConn)
    BY DEF ToSet
  <2>2. \A e \in Structs : conns[e] # "live"
    BY <2>0, <2>1 DEF StateCore, StructsLive, Structs
  <2>3. services = {}
    <3> SUFFICES ASSUME NEW d \in services PROVE FALSE
      OBVIOUS
    <3>1. connOf[d] # 0 /\ d \in ToSet(tracked[connOf[d]]) /\ d \in Tracked
      BY <2>0, CoreFacts DEF StateCore, Registered
    <3>2. connOf[d] \in Structs
      BY <2>0, <3>1, CoreFacts DEF Structs
    <3> QED BY <2>0, <2>2, <3>1, <3>2 DEF StateCore, ListsHold
  <2>4. LiveStructs(conns) = {}
    BY <2>2 DEF LiveStructs
  <2> QED BY <2>0, <2>3, <2>4, FS_EmptySet DEF StateCore, StructsLive
<1>4. HarmAcrossThreads /\ ResetOutcome
  BY ResetsSoFar DEF StateInv
<1> QED BY <1>1, <1>2, <1>3, <1>4 DEF StateSound

(* adbus_State (state.c): for any number of services and resets, on one thread or two,
   until the program is stopped, what a state lists is registered under a struct Conn that
   exists, the release callback of each service is called at most once and only after the
   connection has let go of it, and a state that has been reset has left no service and
   no reference with the connection.  On one thread nothing stops the program and every
   service of a reset has been freed and its owner told; on two a reset succeeds just
   when every service of it had been freed before, and fails otherwise. *)
THEOREM StateIsSound == StateSpec => []StateSound
<1>1. MaxConns \in Nat /\ Threaded \subseteq BOOLEAN
  BY StateAssumption
<1>2. StateInit => StateInv
  BY <1>1, StateInvInit
<1>3. StateInv /\ [StateNext]_stateVars => StateInv'
  BY <1>1, StateInvNext
<1>4. StateInv => StateSound
  BY <1>1, StateInvSound
<1> QED BY <1>2, <1>3, <1>4, PTL DEF StateSpec
=============================================================================
