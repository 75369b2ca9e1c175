------------------------- MODULE BusDispatchProofs -------------------------
(***************************************************************************)
(* Proofs about module BusDispatch: who gets a message of the bus or of a  *)
(* client, how often, and what the remotes know about the owners of names. *)
(***************************************************************************)
EXTENDS BusDispatch, ListFacts

(***************************************************************************)
(* The tables of the server in every state between two messages.  A remote *)
(* has names or rules only after its hello, and its hello gives it its     *)
(* unique name: this is what makes everyone that gets a message introduced.*)
(***************************************************************************)
Shape(b) ==
  b \in [remotes : Seq(Remotes),
         services : [Remotes -> Seq(Names \cup Remotes)],
         matches : [Remotes -> Seq(Rules)],
         broken : SUBSET Fragile]

Tables(b) ==
  /\ Shape(b)
  /\ Once(b.remotes)
  /\ Bus \in ToSet(b.remotes)
  /\ HaveHello(b, Bus)
  /\ \A r \in Remotes :
       /\ ToSet(b.services[r]) \subseteq Names \cup {r}
       /\ Once(b.services[r])
       /\ b.services[r] # <<>> => HaveHello(b, r) /\ r \in ToSet(b.remotes)
       /\ b.matches[r] # <<>> => HaveHello(b, r)
       /\ Len(b.matches[r]) <= MaxRules
  /\ \A q, r \in Remotes :
       q # r => ToSet(b.services[q]) \cap ToSet(b.services[r]) = {}

-----------------------------------------------------------------------------
(* Owners *)

(* The owner of a name is the one remote that lists it. *)
LEMMA OwnerFacts ==
  ASSUME NEW b, Tables(b), NEW n
  PROVE  /\ Owner(b, n) \in Remotes \cup {None}
         /\ \A r \in Remotes : Owner(b, n) = r <=> n \in ToSet(b.services[r])
<1>1. None \notin Remotes
  BY NamesAssumption
<1>2. \A q, r \in Remotes : n \in ToSet(b.services[q]) /\ n \in ToSet(b.services[r]) => q = r
  BY DEF Tables
<1>3. CASE \E r \in Remotes : n \in ToSet(b.services[r])
  <2>1. Owner(b, n) \in Remotes /\ n \in ToSet(b.services[Owner(b, n)])
    BY <1>3 DEF Owner
  <2> QED BY <2>1, <1>2
<1>4. CASE ~\E r \in Remotes : n \in ToSet(b.services[r])
  BY <1>1, <1>4 DEF Owner
<1> QED BY <1>3, <1>4

(* Whoever owns a name has said hello. *)
LEMMA OwnersAreIntroduced ==
  ASSUME NEW b, Tables(b), NEW r \in Remotes, NEW n, n \in ToSet(b.services[r])
  PROVE  HaveHello(b, r) /\ r \in ToSet(b.remotes)
<1>1. b.services[r] \in Seq(Names \cup Remotes)
  BY DEF Tables, Shape
<1>2. b.services[r] # <<>>
  BY <1>1, EmptyList
<1> QED BY <1>2 DEF Tables

-----------------------------------------------------------------------------
(* Dispatch of one message *)

(* The first part of a list: its elements, each once if the list has each once. *)
LEMMA FirstPart ==
  ASSUME NEW S, NEW s \in Seq(S), NEW k \in 0..Len(s)
  PROVE  /\ SubSeq(s, 1, k) \in Seq(S)
         /\ ToSet(SubSeq(s, 1, k)) \subseteq ToSet(s)
         /\ Once(s) => Once(SubSeq(s, 1, k))
         /\ k = Len(s) => ToSet(SubSeq(s, 1, k)) = ToSet(s)
<1> DEFINE t == SubSeq(s, 1, k)
<1>1. /\ t \in Seq(S) /\ Len(t) = k /\ DOMAIN t = 1..k
      /\ DOMAIN s = 1..Len(s) /\ Len(s) \in Nat
      /\ \A i \in 1..k : t[i] = s[i]
  OBVIOUS
<1> HIDE DEF t
<1>2. ToSet(t) \subseteq ToSet(s)
  BY <1>1 DEF ToSet
<1>3. Once(s) => Once(t)
  BY <1>1 DEF Once
<1>4. k = Len(s) => ToSet(t) = ToSet(s)
  BY <1>1 DEF ToSet
<1> QED BY <1>1, <1>2, <1>3, <1>4 DEF t

(* A remote without rules matches nothing. *)
LEMMA MatchNeedsRules ==
  ASSUME NEW b, Tables(b), NEW r \in Remotes, NEW m, RemoteDispatchMatch(b, r, m) # "none"
  PROVE  HaveHello(b, r) /\ r \in ToSet(b.remotes)
<1>1. b.matches[r] # <<>>
  BY DEF RemoteDispatchMatch
<1>2. HaveHello(b, r)
  BY <1>1 DEF Tables
<1> QED BY <1>2, OwnersAreIntroduced DEF HaveHello

(* A rule that matches all that a message has is a hit of its remote. *)
LEMMA MatchFinds ==
  ASSUME NEW b, Tables(b), NEW r \in Remotes, NEW m, NEW rule \in ToSet(b.matches[r]),
         TypeMatches(rule, m), FieldsMatch(rule, m, HeaderFields \cup ArgFields)
  PROVE  RemoteDispatchMatch(b, r, m) # "none"
<1>1. PICK i \in DOMAIN b.matches[r] : b.matches[r][i] = rule
  BY DEF ToSet
<1>2. FieldsMatch(rule, m, HeaderFields) /\ FieldsMatch(rule, m, ArgFields)
  BY DEF FieldsMatch
<1> QED BY <1>1, <1>2 DEF RemoteDispatchMatch

(* The destination, if there is one, has said hello. *)
LEMMA TargetFacts ==
  ASSUME NEW b, Tables(b), NEW m, Target(b, m) # None
  PROVE  /\ Target(b, m) \in Remotes
         /\ HaveHello(b, Target(b, m))
         /\ Target(b, m) \in ToSet(b.remotes)
<1>1. Bus \in Remotes /\ HaveHello(b, Bus) /\ Bus \in ToSet(b.remotes)
  BY BusAssumption DEF Tables
<1>2. CASE "destination" \in DOMAIN m.fields
  <2> DEFINE q == Owner(b, m.fields["destination"])
  <2>1. Target(b, m) = q
    BY <1>2 DEF Target
  <2>2. q \in Remotes /\ m.fields["destination"] \in ToSet(b.services[q])
    BY <2>1, OwnerFacts
  <2> QED BY <2>1, <2>2, OwnersAreIntroduced
<1>3. CASE "destination" \notin DOMAIN m.fields
  BY <1>1, <1>3 DEF Target
<1> QED BY <1>2, <1>3

(***************************************************************************)
(* adbusI_serv_dispatch reaches introduced remotes only, each once.  When  *)
(* it does not fail it reaches the destination and everyone with a rule    *)
(* for the message, and it does not fail when no send does and the message *)
(* is well formed.                                                         *)
(***************************************************************************)
LEMMA DispatchFacts ==
  ASSUME NEW b, Tables(b), NEW m
  PROVE  LET d == serv_dispatch(b, m)
         IN  /\ d.to \in Seq(Remotes)
             /\ Once(d.to)
             /\ \A q \in ToSet(d.to) : q \in Remotes /\ HaveHello(b, q)
             /\ d.ok \in BOOLEAN
             /\ d.ok => \A q \in ToSet(b.remotes) :
                          q = Target(b, m) \/ RemoteDispatchMatch(b, q, m) # "none"
                            => q \in ToSet(d.to)
             /\ b.broken = {} /\ m.bad = FALSE => d.ok
<1> DEFINE direct == Target(b, m)
           deaf == {r \in Remotes : r = direct \/ RemoteDispatchMatch(b, r, m) = "none"}
           Fails(r) == \/ r \in b.broken
                       \/ r # direct /\ RemoteDispatchMatch(b, r, m) = "malformed"
           front == Without(b.remotes, deaf)
           back == IF direct = None THEN <<>> ELSE <<direct>>
           tried == front \o back
           failed == {i \in DOMAIN tried : Fails(tried[i])}
           k == IF failed = {} THEN Len(tried) ELSE Min(failed) - 1
           d == serv_dispatch(b, m)
<1>1. d.to = SubSeq(tried, 1, k) /\ d.ok = (failed = {})
  BY DEF serv_dispatch
<1>2. b.remotes \in Seq(Remotes) /\ Once(b.remotes)
  BY DEF Tables, Shape
<1>3. /\ front \in Seq(Remotes) /\ Once(front)
      /\ ToSet(front) = ToSet(b.remotes) \ deaf
  <2> HIDE DEF deaf
  <2> QED BY <1>2, WithoutFacts
<1>4. direct # None => direct \in Remotes /\ HaveHello(b, direct)
  BY TargetFacts
<1>5. /\ back \in Seq(Remotes) /\ Once(back)
      /\ ToSet(back) = IF direct = None THEN {} ELSE {direct}
  BY <1>4 DEF Once, ToSet
<1>6. ToSet(front) \cap ToSet(back) = {}
  BY <1>3, <1>4, <1>5
<1>7. /\ tried \in Seq(Remotes) /\ Once(tried)
      /\ ToSet(tried) = ToSet(front) \cup ToSet(back)
  <2> HIDE DEF front, back
  <2> QED BY <1>3, <1>5, <1>6, JoinFacts
<1>8. k \in 0..Len(tried) /\ (failed = {} => k = Len(tried))
  <2> HIDE DEF tried
  <2>1. Len(tried) \in Nat /\ DOMAIN tried = 1..Len(tried)
    BY <1>7
  <2>2. failed \in SUBSET (1..Len(tried)) /\ failed \in SUBSET Nat
    BY <2>1
  <2>3. failed # {} => Min(failed) \in failed
    <3> HIDE DEF failed
    <3> QED BY <2>2, LeastNumber DEF Min
  <2> QED BY <2>1, <2>2, <2>3
<1>9. /\ d.to \in Seq(Remotes) /\ Once(d.to)
      /\ ToSet(d.to) \subseteq ToSet(tried)
      /\ failed = {} => ToSet(d.to) = ToSet(tried)
  <2> HIDE DEF tried, failed, k, d
  <2> QED BY <1>1, <1>7, <1>8, FirstPart
<1>10. \A q \in ToSet(tried) : q \in Remotes /\ HaveHello(b, q)
  <2> SUFFICES ASSUME NEW q \in ToSet(tried) PROVE q \in Remotes /\ HaveHello(b, q)
    OBVIOUS
  <2>1. CASE q \in ToSet(front)
    <3>1. q \in Remotes
      BY <1>3, <2>1 DEF ToSet
    <3> QED BY <3>1, <1>3, <2>1, MatchNeedsRules
  <2>2. CASE q \in ToSet(back)
    BY <2>2, <1>4, <1>5
  <2> QED BY <2>1, <2>2, <1>7
<1>11. \A q \in ToSet(b.remotes) :
         q = direct \/ RemoteDispatchMatch(b, q, m) # "none" => q \in ToSet(tried)
  <2> SUFFICES ASSUME NEW q \in ToSet(b.remotes),
                      q = direct \/ RemoteDispatchMatch(b, q, m) # "none"
               PROVE  q \in ToSet(tried)
    OBVIOUS
  <2>1. q \in Remotes
    BY <1>2 DEF ToSet
  <2>2. q # None
    BY <2>1, NamesAssumption
  <2> QED BY <1>3, <1>5, <1>7, <2>1, <2>2
<1>12. b.broken = {} /\ m.bad = FALSE => failed = {}
  BY DEF RemoteDispatchMatch
<1> HIDE DEF direct, tried, failed, d
<1>13. d.ok \in BOOLEAN
  BY <1>1
<1> QED BY <1>1, <1>9, <1>10, <1>11, <1>12, <1>13 DEF direct, d

(* The remotes that a message reaches. *)
Reached(b, m) == ToSet(serv_dispatch(b, m).to)

(* Deliveries of messages of M. *)
Parcels(M) == [to : Remotes, msg : M]

(* The deliveries of one message. *)
LEMMA DeliveredFacts ==
  ASSUME NEW b, Tables(b), NEW m
  PROVE  LET d == Delivered(b, m)
         IN  /\ d \in Seq(Parcels({m}))
             /\ Once(d)
             /\ \A x \in ToSet(d) : x.msg = m /\ x.to \in Remotes /\ HaveHello(b, x.to)
             /\ \A q \in Reached(b, m) : [to |-> q, msg |-> m] \in ToSet(d)
<1> DEFINE to == serv_dispatch(b, m).to
           d == Delivered(b, m)
<1>1. /\ to \in Seq(Remotes) /\ Once(to)
      /\ \A q \in ToSet(to) : q \in Remotes /\ HaveHello(b, q)
  BY DispatchFacts
<1>2. d = [i \in DOMAIN to |-> [to |-> to[i], msg |-> m]]
  BY DEF Delivered
<1> HIDE DEF to, d
<1>3. DOMAIN to = 1..Len(to) /\ Len(to) \in Nat /\ \A i \in DOMAIN to : to[i] \in Remotes
  BY <1>1
<1>4. d \in Seq(Parcels({m}))
  BY <1>2, <1>3 DEF Parcels
<1>5. DOMAIN d = DOMAIN to /\ \A i \in DOMAIN to : d[i].to = to[i] /\ d[i].msg = m
  BY <1>2
<1>6. Once(d)
  BY <1>1, <1>5 DEF Once
<1>7. \A x \in ToSet(d) : x.msg = m /\ x.to \in Remotes /\ HaveHello(b, x.to)
  BY <1>1, <1>5 DEF ToSet
<1>8. \A q \in ToSet(to) : [to |-> q, msg |-> m] \in ToSet(d)
  BY <1>2 DEF ToSet
<1> QED BY <1>4, <1>6, <1>7, <1>8 DEF d, to, Reached

-----------------------------------------------------------------------------
(* Messages of the bus *)

(* A message as the bus makes it, before FixHeaders. *)
Plain(m) ==
  /\ m = Message(m.type, [f \in DOMAIN m.fields |-> m.fields[f]], m.body)
  /\ "sender" \notin DOMAIN m.fields

(* The delivery x is one of the messages msgs of the bus. *)
Carries(x, msgs) == \E m \in ToSet(msgs) : x.msg = FixHeaders(Bus, m)

(* FixHeaders sets the sender and nothing else. *)
LEMMA HeaderFacts ==
  ASSUME NEW r, NEW m, DOMAIN m = {"type", "fields", "bad", "body"}
  PROVE  LET x == FixHeaders(r, m)
         IN  /\ x.type = m.type /\ x.bad = m.bad /\ x.body = m.body
             /\ DOMAIN x.fields = DOMAIN m.fields \cup {"sender"}
             /\ x.fields["sender"] = r
             /\ \A f \in DOMAIN m.fields : f # "sender" => x.fields[f] = m.fields[f]
BY DEF FixHeaders

(* Messages of the bus that differ leave the bus different. *)
LEMMA HeadersKeepApart ==
  ASSUME NEW x, NEW y, Plain(x), Plain(y), FixHeaders(Bus, x) = FixHeaders(Bus, y)
  PROVE  x = y
<1>1. /\ DOMAIN x = {"type", "fields", "bad", "body"}
      /\ DOMAIN y = {"type", "fields", "bad", "body"}
  BY DEF Plain, Message
<1>2. x.type = y.type /\ x.body = y.body
  BY <1>1, HeaderFacts
<1>3. DOMAIN x.fields \cup {"sender"} = DOMAIN y.fields \cup {"sender"}
  BY <1>1, HeaderFacts
<1>4. DOMAIN x.fields = DOMAIN y.fields
  BY <1>3 DEF Plain
<1>5. \A f \in DOMAIN x.fields : x.fields[f] = y.fields[f]
  BY <1>1, <1>4, HeaderFacts DEF Plain
<1>6. [f \in DOMAIN x.fields |-> x.fields[f]] = [f \in DOMAIN y.fields |-> y.fields[f]]
  BY <1>4, <1>5
<1> QED BY <1>2, <1>6 DEF Plain

(* What Emit delivers: messages of the bus, to introduced remotes, nothing twice; and
   all of it while no send fails. *)
LEMMA EmitFacts ==
  ASSUME NEW b, Tables(b), NEW M, NEW msgs \in Seq(M), \A m \in M : Plain(m), Once(msgs)
  PROVE  LET e == Emit(b, msgs)
         IN  /\ e \in Seq(Parcels({FixHeaders(Bus, m) : m \in M}))
             /\ Once(e)
             /\ \A x \in ToSet(e) :
                  /\ x.to \in Remotes /\ HaveHello(b, x.to)
                  /\ Carries(x, msgs)
             /\ b.broken = {} =>
                  \A m \in ToSet(msgs), q \in ToSet(b.remotes) :
                    RemoteDispatchMatch(b, q, FixHeaders(Bus, m)) # "none" =>
                      [to |-> q, msg |-> FixHeaders(Bus, m)] \in ToSet(e)
<1> DEFINE Fixed == {FixHeaders(Bus, m) : m \in M}
           S == Parcels(Fixed)
           ss == [i \in DOMAIN msgs |-> Delivered(b, FixHeaders(Bus, msgs[i]))]
           e == Emit(b, msgs)
           n == Len(msgs)
<1>1. n \in Nat /\ DOMAIN msgs = 1..n /\ \A i \in 1..n : msgs[i] \in M
  OBVIOUS
<1>2. e = FlattenSeq(ss)
  BY DEF Emit
<1>3. \A i \in 1..n : LET m == FixHeaders(Bus, msgs[i])
                      IN  /\ ss[i] \in Seq(Parcels({m}))
                          /\ Once(ss[i])
                          /\ \A x \in ToSet(ss[i]) : x.msg = m /\ x.to \in Remotes /\ HaveHello(b, x.to)
                          /\ \A q \in Reached(b, m) : [to |-> q, msg |-> m] \in ToSet(ss[i])
  <2> TAKE i \in 1..n
  <2>1. ss[i] = Delivered(b, FixHeaders(Bus, msgs[i]))
    BY <1>1
  <2> DEFINE m == FixHeaders(Bus, msgs[i])
  <2>2. /\ ss[i] \in Seq(Parcels({m}))
        /\ Once(ss[i])
        /\ \A x \in ToSet(ss[i]) : x.msg = m /\ x.to \in Remotes /\ HaveHello(b, x.to)
        /\ \A q \in Reached(b, m) : [to |-> q, msg |-> m] \in ToSet(ss[i])
    <3> HIDE DEF ss, m
    <3>1. ss[i] = Delivered(b, m)
      BY <2>1 DEF m
    <3>2. /\ Delivered(b, m) \in Seq(Parcels({m}))
          /\ Once(Delivered(b, m))
      BY DeliveredFacts
    <3>3. \A x \in ToSet(Delivered(b, m)) : x.msg = m /\ x.to \in Remotes /\ HaveHello(b, x.to)
      BY DeliveredFacts
    <3>4. \A q \in Reached(b, m) : [to |-> q, msg |-> m] \in ToSet(Delivered(b, m))
      BY DeliveredFacts
    <3> QED BY <3>1, <3>2, <3>3, <3>4
  <2> QED BY <2>2
<1>4. DOMAIN ss = 1..n
  BY <1>1
<1>5. \A i \in 1..n : ss[i] \in Seq(S)
  <2> TAKE i \in 1..n
  <2> DEFINE m == FixHeaders(Bus, msgs[i])
             T == Parcels({m})
  <2>1. ss[i] \in Seq(T)
    BY <1>3
  <2>2. m \in Fixed
    BY <1>1
  <2>3. T \subseteq S
    <3> HIDE DEF m, Fixed
    <3> QED BY <2>2 DEF Parcels
  <2> HIDE DEF T, S, ss
  <2> QED BY <2>1, <2>3
<1> HIDE DEF ss
<1>6. ss \in Seq(Seq(S)) /\ Len(ss) = n
  <2> DEFINE T == Seq(S)
  <2>1. \A i \in 1..n : ss[i] \in T
    BY <1>5
  <2>2. ss = [i \in DOMAIN msgs |-> ss[i]]
    BY <1>1 DEF ss
  <2> HIDE DEF T
  <2>3. ss \in Seq(T) /\ Len(ss) = n
    BY <1>1, <2>1, <2>2
  <2> QED BY <2>3 DEF T
<1> HIDE DEF S
<1>7. \A i, j \in 1..n : i # j => ToSet(ss[i]) \cap ToSet(ss[j]) = {}
  <2> SUFFICES ASSUME NEW i \in 1..n, NEW j \in 1..n, i # j,
                      NEW x \in ToSet(ss[i]), x \in ToSet(ss[j])
               PROVE  FALSE
    OBVIOUS
  <2>1. x.msg = FixHeaders(Bus, msgs[i]) /\ x.msg = FixHeaders(Bus, msgs[j])
    BY <1>3
  <2> QED BY <2>1, <1>1, HeadersKeepApart DEF Once
<1>8. /\ e \in Seq(S)
      /\ \A x : x \in ToSet(e) <=> \E i \in 1..n : x \in ToSet(ss[i])
      /\ Once(e)
  <2> HIDE DEF e
  <2> QED BY <1>2, <1>3, <1>6, <1>7, FlattenFacts
<1>9. ASSUME NEW x \in ToSet(e)
      PROVE  /\ x.to \in Remotes /\ HaveHello(b, x.to)
             /\ Carries(x, msgs)
  <2>1. PICK i \in 1..n : x \in ToSet(ss[i])
    BY <1>8
  <2>2. msgs[i] \in ToSet(msgs)
    BY <1>1 DEF ToSet
  <2> QED BY <1>3, <2>1, <2>2 DEF Carries
<1>10. ASSUME b.broken = {}, NEW m \in ToSet(msgs), NEW q \in ToSet(b.remotes),
              RemoteDispatchMatch(b, q, FixHeaders(Bus, m)) # "none"
       PROVE  [to |-> q, msg |-> FixHeaders(Bus, m)] \in ToSet(e)
  <2>1. PICK i \in 1..n : msgs[i] = m
    BY <1>1 DEF ToSet
  <2>2. Plain(m)
    BY <1>1, <2>1
  <2>3. FixHeaders(Bus, m).bad = FALSE
    <3>1. DOMAIN m = {"type", "fields", "bad", "body"} /\ m.bad = FALSE
      BY <2>2 DEF Plain, Message
    <3> QED BY <3>1, HeaderFacts
  <2>4. q \in Reached(b, FixHeaders(Bus, m))
    BY <1>10, <2>3, DispatchFacts DEF Reached
  <2>5. [to |-> q, msg |-> FixHeaders(Bus, m)] \in ToSet(ss[i])
    BY <1>3, <2>1, <2>4
  <2> QED BY <1>8, <2>5
<1> HIDE DEF e
<1> QED BY <1>8, <1>9, <1>10 DEF S, Fixed, e

(* The signals about name n, and the answer to a call. *)
Changed(n, new) == Message("signal", [member |-> "NameOwnerChanged", arg0 |-> n], {Told(n, new)})
Lost(n, old) == Message("signal", [member |-> "NameLost", arg0 |-> n, destination |-> old], {})
Acquired(n, new) == Message("signal", [member |-> "NameAcquired", arg0 |-> n, destination |-> new], {})
Answer(type, r, body) == Message(type, [destination |-> r], body)
Notices(n, old, new) == {Changed(n, new), Lost(n, old), Acquired(n, new)}

(* The signals are about name n, in arg0, and say nothing but its new owner. *)
LEMMA SignalFacts ==
  ASSUME NEW n, NEW old, NEW new
  PROVE  \A m \in Notices(n, old, new) :
           /\ Plain(m)
           /\ "member" \in DOMAIN m.fields
           /\ "arg0" \in DOMAIN m.fields
           /\ m.fields["arg0"] = n
           /\ m.body \subseteq {Told(n, new)}
<1>1. /\ Plain(Changed(n, new)) /\ Changed(n, new).body = {Told(n, new)}
      /\ LET f == Changed(n, new).fields
         IN  "member" \in DOMAIN f /\ "arg0" \in DOMAIN f /\ f["arg0"] = n
  BY DEF Changed, Plain, Message
<1>2. /\ Plain(Lost(n, old)) /\ Lost(n, old).body = {}
      /\ LET f == Lost(n, old).fields
         IN  "member" \in DOMAIN f /\ "arg0" \in DOMAIN f /\ f["arg0"] = n
  BY DEF Lost, Plain, Message
<1>3. /\ Plain(Acquired(n, new)) /\ Acquired(n, new).body = {}
      /\ LET f == Acquired(n, new).fields
         IN  "member" \in DOMAIN f /\ "arg0" \in DOMAIN f /\ f["arg0"] = n
  BY DEF Acquired, Plain, Message
<1> QED BY <1>1, <1>2, <1>3 DEF Notices

(* The signals of one change of owner: NameOwnerChanged and the others, nothing twice. *)
LEMMA OwnerChangedFacts ==
  ASSUME NEW n, NEW old, NEW new
  PROVE  LET c == ownerchanged(n, old, new)
         IN  /\ c \in Seq(Notices(n, old, new))
             /\ Changed(n, new) \in ToSet(c)
             /\ Once(c)
<1> DEFINE S == Notices(n, old, new)
           a == <<Changed(n, new)>>
           b == IF old = None THEN <<>> ELSE <<Lost(n, old)>>
           c == IF new = None THEN <<>> ELSE <<Acquired(n, new)>>
<1>1. ownerchanged(n, old, new) = a \o b \o c
  BY DEF ownerchanged, Changed, Lost, Acquired
<1>2. /\ Changed(n, new) # Lost(n, old) /\ Changed(n, new) # Acquired(n, new)
      /\ Lost(n, old) # Acquired(n, new)
  <2>1. /\ Changed(n, new).fields["member"] = "NameOwnerChanged"
        /\ Lost(n, old).fields["member"] = "NameLost"
        /\ Acquired(n, new).fields["member"] = "NameAcquired"
    BY DEF Changed, Lost, Acquired, Message
  <2> QED BY <2>1
<1>3. a \in Seq(S) /\ b \in Seq(S) /\ c \in Seq(S)
  <2>1. Changed(n, new) \in S /\ Lost(n, old) \in S /\ Acquired(n, new) \in S
    BY DEF Notices
  <2> HIDE DEF S
  <2> QED BY <2>1
<1>4. /\ ToSet(a) = {Changed(n, new)} /\ ToSet(b) \subseteq {Lost(n, old)}
      /\ ToSet(c) \subseteq {Acquired(n, new)}
      /\ Once(a) /\ Once(b) /\ Once(c)
  BY DEF ToSet, Once
<1> HIDE DEF a, b, c, S
<1>5. /\ a \o b \in Seq(S) /\ ToSet(a \o b) = ToSet(a) \cup ToSet(b)
      /\ Once(a \o b)
  BY <1>2, <1>3, <1>4, JoinFacts
<1> DEFINE ab == a \o b
<1>6. ab \in Seq(S) /\ Once(ab) /\ ToSet(ab) \cap ToSet(c) = {}
  BY <1>2, <1>4, <1>5
<1> HIDE DEF ab
<1>7. /\ ab \o c \in Seq(S) /\ ToSet(ab \o c) = ToSet(ab) \cup ToSet(c)
      /\ Once(ab \o c)
  BY <1>3, <1>4, <1>6, JoinFacts
<1> QED BY <1>1, <1>4, <1>5, <1>7 DEF S, ab

(* The answer to a call, if it is wanted. *)
LEMMA ReplyFacts ==
  ASSUME NEW type, NEW r, NEW body, NEW wanted
  PROVE  /\ Reply(type, r, body, wanted) \in Seq({Answer(type, r, body)})
         /\ ToSet(Reply(type, r, body, wanted)) \subseteq {Answer(type, r, body)}
         /\ Once(Reply(type, r, body, wanted))
         /\ Plain(Answer(type, r, body))
         /\ "member" \notin DOMAIN Answer(type, r, body).fields
         /\ Answer(type, r, body).body = body
<1>1. /\ Plain(Answer(type, r, body)) /\ Answer(type, r, body).body = body
      /\ "member" \notin DOMAIN Answer(type, r, body).fields
  BY DEF Answer, Plain, Message
<1>2. Reply(type, r, body, wanted) = IF wanted THEN <<Answer(type, r, body)>> ELSE <<>>
  BY DEF Reply, Answer
<1>3. CASE wanted
  BY <1>1, <1>2, <1>3 DEF ToSet, Once
<1>4. CASE ~wanted
  BY <1>1, <1>2, <1>4 DEF ToSet, Once
<1> QED BY <1>3, <1>4

-----------------------------------------------------------------------------
(* What the remotes learn *)

(* The messages say of every well known name who owns it. *)
Truthful(b, msgs) ==
  \A m \in ToSet(msgs) : \A told \in m.body :
    told.name \in Names => told.owner = Owner(b, told.name)

(* A delivery that tells r the owner of n. *)
Tells(x, r, n) ==
  /\ x.to = r
  /\ x.msg.fields["sender"] = Bus
  /\ \E told \in x.msg.body : told.name = n

(* The change of the owner of n from b to b2 is announced. *)
Announced(b, b2, msgs) ==
  \A n \in Names : Owner(b2, n) # Owner(b, n) => \E new : Changed(n, new) \in ToSet(msgs)

(* Rules look at the type and the fields of a message only, so whoever listens to the
   owner of a name has a rule for every NameOwnerChanged of that name. *)
LEMMA ListeningHears ==
  ASSUME NEW b, NEW r \in Remotes, NEW n, NEW new, Listening(b, r, n)
  PROVE  RemoteDispatchMatch(b, r, FixHeaders(Bus, Changed(n, new))) # "none"
<1> DEFINE x == FixHeaders(Bus, ownerchanged(n, None, None)[1])
           y == FixHeaders(Bus, Changed(n, new))
<1>1. ownerchanged(n, None, None)[1] = Changed(n, None)
  <2>1. ownerchanged(n, None, None) = <<Changed(n, None)>> \o <<>> \o <<>>
    BY DEF ownerchanged, Changed
  <2> QED BY <2>1
<1>2. x.type = y.type /\ x.fields = y.fields /\ x.bad = y.bad
  BY <1>1 DEF FixHeaders, Changed, Message
<1> HIDE DEF x, y
<1>3. RemoteDispatchMatch(b, r, x) = RemoteDispatchMatch(b, r, y)
  BY <1>2 DEF RemoteDispatchMatch, TypeMatches, FieldsMatch
<1> QED BY <1>3 DEF Listening, x, y

(* An announcement reaches everyone who listens, while no send fails. *)
LEMMA AnnouncementIsHeard ==
  ASSUME NEW b, Tables(b), b.broken = {}, NEW M, NEW msgs \in Seq(M), \A m \in M : Plain(m), Once(msgs),
         NEW r \in Remotes, NEW n, Listening(b, r, n), NEW new, Changed(n, new) \in ToSet(msgs)
  PROVE  \E x \in ToSet(Emit(b, msgs)) : Tells(x, r, n)
<1> DEFINE m == FixHeaders(Bus, Changed(n, new))
           x == [to |-> r, msg |-> m]
<1>1. RemoteDispatchMatch(b, r, m) # "none"
  BY ListeningHears
<1>2. r \in ToSet(b.remotes)
  BY <1>1, MatchNeedsRules
<1>3. x \in ToSet(Emit(b, msgs))
  BY <1>1, <1>2, EmitFacts
<1>4. DOMAIN Changed(n, new) = {"type", "fields", "bad", "body"} /\ Told(n, new) \in Changed(n, new).body
  BY DEF Changed, Message
<1>5. m.fields["sender"] = Bus /\ Told(n, new) \in m.body /\ Told(n, new).name = n
  BY <1>4, HeaderFacts DEF Told
<1>6. Tells(x, r, n)
  <2> HIDE DEF m
  <2> QED BY <1>5 DEF Tells
<1> QED BY <1>3, <1>6

(* The types of the history. *)
Viewed == view \in [Remotes -> [Names -> Remotes \cup {None, Unknown}]]

(* A remote that is told the truth about every name, and of every change of owner,
   stays right about the names it listens to. *)
LEMMA ObserveStep ==
  ASSUME Viewed, Tables(bus'), Observe,
         NEW M, out' \in Seq(Parcels(M)),
         NEW msgs, Truthful(bus', msgs), \A m \in ToSet(msgs) : Plain(m),
         \A x \in ToSet(out') :
           x.msg.fields["sender"] = Bus => Carries(x, msgs)
  PROVE  /\ Viewed'
         /\ /\ ViewCurrent
            /\ \A r \in Remotes, n \in Names :
                 Listening(bus', r, n) /\ Owner(bus', n) # Owner(bus, n) =>
                   \E x \in ToSet(out') : Tells(x, r, n)
            => ViewCurrent'
<1> DEFINE News(r, n) == {i \in DOMAIN out' : Tells(out'[i], r, n)}
           Latest(r, n) == (CHOOSE told \in out'[Max(News(r, n))].msg.body : told.name = n).owner
           Value(r, n) == IF ~Listening(bus', r, n) THEN Unknown
                          ELSE IF News(r, n) = {} THEN view[r][n]
                          ELSE Latest(r, n)
<1>1. view' = [r \in Remotes |-> [n \in Names |-> Value(r, n)]]
  <2>1. view' = [r \in Remotes |-> [n \in Names |->
                   IF ~Listening(bus', r, n) THEN Unknown
                   ELSE IF News(r, n) = {} THEN view[r][n]
                   ELSE Latest(r, n)]]
    BY DEF Observe, Tells
  <2> QED BY <2>1
<1>2. ASSUME NEW r \in Remotes, NEW n \in Names, News(r, n) # {}
      PROVE  Latest(r, n) = Owner(bus', n)
  <2>1. DOMAIN out' = 1..Len(out') /\ Len(out') \in Nat
    <3> DEFINE P == Parcels(M)
    <3>1. out' \in Seq(P)
      OBVIOUS
    <3> HIDE DEF P
    <3> QED BY <3>1
  <2>2. Max(News(r, n)) \in News(r, n)
    <3>1. News(r, n) \in SUBSET (1..Len(out')) /\ News(r, n) \in SUBSET Nat
      BY <2>1
    <3> HIDE DEF News
    <3>2. PICK k \in News(r, n) : \A j \in News(r, n) : j <= k
      BY <1>2, <2>1, <3>1, GreatestNumber
    <3>3. \A j \in News(r, n) : k >= j
      BY <3>1, <3>2
    <3> QED BY <3>3 DEF Max
  <2> DEFINE x == out'[Max(News(r, n))]
  <2>3. Tells(x, r, n) /\ x \in ToSet(out')
    BY <2>2 DEF ToSet
  <2>4. PICK m \in ToSet(msgs) : x.msg = FixHeaders(Bus, m)
    BY <2>3 DEF Tells, Carries
  <2>5. x.msg.body = m.body
    <3>1. DOMAIN m = {"type", "fields", "bad", "body"}
      BY DEF Plain, Message
    <3> QED BY <2>4, <3>1, HeaderFacts
  <2> DEFINE told == CHOOSE told \in x.msg.body : told.name = n
  <2>6. told \in x.msg.body /\ told.name = n
    BY <2>3 DEF Tells
  <2> QED BY <2>5, <2>6 DEF Truthful
<1> HIDE DEF News, Latest
<1>3. \A n \in Names : Owner(bus', n) \in Remotes \cup {None}
  BY OwnerFacts
<1>4. Viewed'
  <2>1. \A r \in Remotes, n \in Names : Value(r, n) \in Remotes \cup {None, Unknown}
    <3> TAKE r \in Remotes, n \in Names
    <3>1. view[r][n] \in Remotes \cup {None, Unknown}
      BY DEF Viewed
    <3>2. News(r, n) # {} => Latest(r, n) \in Remotes \cup {None}
      BY <1>2, <1>3
    <3> QED BY <3>1, <3>2
  <2> HIDE DEF Value
  <2> QED BY <1>1, <2>1 DEF Viewed
<1>5. ASSUME ViewCurrent,
             \A r \in Remotes, n \in Names :
               Listening(bus', r, n) /\ Owner(bus', n) # Owner(bus, n) =>
                 \E x \in ToSet(out') : Tells(x, r, n)
      PROVE  ViewCurrent'
  <2> SUFFICES ASSUME NEW r \in Remotes, NEW n \in Names, view'[r][n] # Unknown
               PROVE  view'[r][n] = Owner(bus', n)
    BY DEF ViewCurrent
  <2>0. view'[r][n] = Value(r, n)
    <3> HIDE DEF Value
    <3> QED BY <1>1
  <2>1. CASE News(r, n) # {}
    <3>1. Latest(r, n) = Owner(bus', n)
      BY <1>2, <2>1
    <3> QED BY <2>0, <2>1, <3>1
  <2>2. CASE News(r, n) = {}
    <3>1. Listening(bus', r, n) /\ view'[r][n] = view[r][n]
      BY <2>0, <2>2
    <3>2. ~\E x \in ToSet(out') : Tells(x, r, n)
      BY <2>2 DEF News, ToSet
    <3>3. view[r][n] = Owner(bus, n)
      BY <1>5, <3>1 DEF ViewCurrent
    <3> QED BY <1>5, <3>1, <3>2, <3>3
  <2> QED BY <2>1, <2>2
<1> QED BY <1>4, <1>5

-----------------------------------------------------------------------------
(* One message taken from a remote *)

(* The inductive invariant: the tables, the remotes that wait for their end, and the
   types of the history. *)
Base == Tables(bus) /\ kicked \subseteq ToSet(bus.remotes) /\ Viewed

(* What a step from a state of Base to the next one keeps. *)
Kept == /\ Base'
        /\ Introduced'
        /\ AtMostOnce'
        /\ Fragile = {} /\ ViewCurrent => ViewCurrent'

(* Nothing twice in a list of deliveries. *)
LEMMA OnceIsAtMostOnce ==
  ASSUME NEW M, out' \in Seq(Parcels(M)), Once(out')
  PROVE  AtMostOnce'
<1>1. \A i \in DOMAIN out' : out'[i] \in Parcels(M)
  <2> DEFINE P == Parcels(M)
  <2>1. out' \in Seq(P)
    OBVIOUS
  <2> HIDE DEF P
  <2>2. \A i \in DOMAIN out' : out'[i] \in P
    BY <2>1
  <2> QED BY <2>2 DEF P
<1>2. \A x, y \in Parcels(M) : x.to = y.to /\ x.msg = y.msg => x = y
  BY DEF Parcels
<1> QED BY <1>1, <1>2 DEF AtMostOnce, Once

(* The message of r and, if it arrives, what the bus sends because of it. *)
LEMMA HandleStep ==
  ASSUME Base, NEW r \in Remotes, Listed(r),
         NEW call, DOMAIN call = {"type", "fields", "bad", "body"},
         HaveHello(bus, r) \/ call = BusCall("Hello"),
         NEW b2, Tables(b2), ToSet(bus.remotes) \subseteq ToSet(b2.remotes),
         \A q \in Remotes : HaveHello(bus, q) => HaveHello(b2, q),
         NEW M, NEW msgs \in Seq(M), \A m \in M : Plain(m), Once(msgs),
         Truthful(b2, msgs), Announced(bus, b2, msgs),
         Handle(r, call, b2, msgs)
  PROVE  Kept /\ ToSet(Delivered(bus, FixHeaders(r, call))) \subseteq ToSet(out')
<1> DEFINE m == FixHeaders(r, call)
           ok == serv_dispatch(bus, m).ok
           D == Delivered(bus, m)
           E == Emit(b2, msgs)
           Fixed == {FixHeaders(Bus, x) : x \in M}
           P == Parcels({m} \cup Fixed)
<1>0. /\ bus' = IF ok THEN b2 ELSE bus
      /\ out' = D \o (IF ok THEN E ELSE <<>>)
      /\ kicked' = IF ok THEN kicked ELSE kicked \cup {r}
      /\ Observe
  BY DEF Handle
<1>1. r # Bus /\ r \in ToSet(bus.remotes) /\ m.fields["sender"] = r
  BY HeaderFacts DEF Listed
<1>2. Bus \in Remotes /\ HaveHello(bus, Bus) /\ HaveHello(b2, Bus)
  BY BusAssumption DEF Base, Tables
<1>3. /\ D \in Seq(P) /\ Once(D)
      /\ \A x \in ToSet(D) : x.msg = m /\ x.to \in Remotes /\ HaveHello(bus, x.to)
  <2>1. /\ D \in Seq(Parcels({m})) /\ Once(D)
        /\ \A x \in ToSet(D) : x.msg = m /\ x.to \in Remotes /\ HaveHello(bus, x.to)
    <3> HIDE DEF m
    <3> QED BY DeliveredFacts DEF Base
  <2>2. Parcels({m}) \subseteq P
    <3> HIDE DEF m, Fixed
    <3> QED BY DEF Parcels
  <2> DEFINE P1 == Parcels({m})
  <2> HIDE DEF D, P
  <2>3. D \in Seq(P1) /\ P1 \subseteq P
    BY <2>1, <2>2
  <2> HIDE DEF P1
  <2>4. D \in Seq(P)
    BY <2>3
  <2> QED BY <2>1, <2>4
<1>4. /\ E \in Seq(P) /\ Once(E)
      /\ \A x \in ToSet(E) :
           /\ x.to \in Remotes /\ HaveHello(b2, x.to)
           /\ Carries(x, msgs)
           /\ x.msg.fields["sender"] = Bus
  <2>1. /\ E \in Seq(Parcels(Fixed)) /\ Once(E)
        /\ \A x \in ToSet(E) :
             /\ x.to \in Remotes /\ HaveHello(b2, x.to)
             /\ Carries(x, msgs)
    <3>1. E \in Seq(Parcels(Fixed)) /\ Once(E)
      BY EmitFacts
    <3>2. \A x \in ToSet(E) : x.to \in Remotes /\ HaveHello(b2, x.to)
      BY EmitFacts
    <3>3. \A x \in ToSet(E) : Carries(x, msgs)
      BY EmitFacts
    <3> QED BY <3>1, <3>2, <3>3
  <2>2. \A y \in ToSet(msgs) : FixHeaders(Bus, y).fields["sender"] = Bus
    <3> TAKE y \in ToSet(msgs)
    <3>1. y \in M
      BY DEF ToSet
    <3>2. DOMAIN y = {"type", "fields", "bad", "body"}
      BY <3>1 DEF Plain, Message
    <3> QED BY <3>2, HeaderFacts
  <2>3. Parcels(Fixed) \subseteq P
    <3> HIDE DEF m, Fixed
    <3> QED BY DEF Parcels
  <2> DEFINE P2 == Parcels(Fixed)
  <2> HIDE DEF E, P
  <2>4. E \in Seq(P2) /\ P2 \subseteq P
    BY <2>1, <2>3
  <2> HIDE DEF P2
  <2>5. E \in Seq(P)
    BY <2>4
  <2> QED BY <2>1, <2>2, <2>5 DEF Carries
<1> HIDE DEF m, D, E, P
<1>5. \A y \in ToSet(msgs) : Plain(y)
  BY DEF ToSet
<1>6. ~HaveHello(bus, r) => m = FixHeaders(r, BusCall("Hello"))
  BY DEF m
<1>7. CASE ok
  <2>1. bus' = b2 /\ out' = D \o E /\ kicked' = kicked
    BY <1>0, <1>7
  <2>2. ToSet(D) \cap ToSet(E) = {}
    BY <1>1, <1>3, <1>4
  <2>3. out' \in Seq(P) /\ ToSet(out') = ToSet(D) \cup ToSet(E) /\ Once(out')
    BY <1>3, <1>4, <2>1, <2>2, JoinFacts
  <2>4. Introduced'
    <3> SUFFICES ASSUME NEW i \in DOMAIN out'
                 PROVE  LET x == out'[i]
                            sender == x.msg.fields["sender"]
                        IN  /\ HaveHello(b2, x.to)
                            /\ HaveHello(b2, sender) \/ x.msg = FixHeaders(sender, BusCall("Hello"))
      BY <2>1 DEF Introduced
    <3> DEFINE x == out'[i]
    <3>1. x \in ToSet(out')
      BY DEF ToSet
    <3> HIDE DEF x
    <3>2. CASE x \in ToSet(D)
      BY <3>2, <1>1, <1>3, <1>6 DEF x
    <3>3. CASE x \in ToSet(E)
      BY <3>3, <1>2, <1>4 DEF x
    <3> QED BY <2>3, <3>1, <3>2, <3>3
  <2>5. AtMostOnce'
    BY <2>3, OnceIsAtMostOnce DEF P
  <2>6. \A x \in ToSet(out') :
          x.msg.fields["sender"] = Bus => Carries(x, msgs)
    BY <1>1, <1>3, <1>4, <2>3
  <2>7. /\ Viewed'
        /\ /\ ViewCurrent
           /\ \A q \in Remotes, n \in Names :
                Listening(bus', q, n) /\ Owner(bus', n) # Owner(bus, n) =>
                  \E x \in ToSet(out') : Tells(x, q, n)
           => ViewCurrent'
    <3>1. Viewed /\ Tables(bus') /\ Truthful(bus', msgs) /\ out' \in Seq(Parcels({m} \cup Fixed))
      BY <2>1, <2>3 DEF Base, P
    <3> HIDE DEF Fixed
    <3> QED BY <1>0, <1>5, <2>6, <3>1, ObserveStep
  <2>8. ASSUME Fragile = {}, NEW q \in Remotes, NEW n \in Names,
               Listening(bus', q, n), Owner(bus', n) # Owner(bus, n)
        PROVE  \E x \in ToSet(out') : Tells(x, q, n)
    <3>1. PICK new : Changed(n, new) \in ToSet(msgs)
      BY <2>1, <2>8 DEF Announced
    <3>2. b2.broken = {}
      BY <2>8 DEF Tables, Shape
    <3>3. PICK x \in ToSet(Emit(b2, msgs)) : Tells(x, q, n)
      BY <2>1, <2>8, <3>1, <3>2, AnnouncementIsHeard
    <3> QED BY <2>3, <3>3 DEF E
  <2>9. Base'
    BY <2>1, <2>7 DEF Base
  <2> QED BY <2>3, <2>4, <2>5, <2>7, <2>8, <2>9 DEF Kept, D, m
<1>8. CASE ~ok
  <2>1. bus' = bus /\ out' = D /\ kicked' = kicked \cup {r}
    BY <1>0, <1>3, <1>8
  <2>2. Introduced'
    <3> SUFFICES ASSUME NEW i \in DOMAIN out'
                 PROVE  LET x == out'[i]
                            sender == x.msg.fields["sender"]
                        IN  /\ HaveHello(bus, x.to)
                            /\ HaveHello(bus, sender) \/ x.msg = FixHeaders(sender, BusCall("Hello"))
      BY <2>1 DEF Introduced
    <3> DEFINE x == out'[i]
    <3>1. x \in ToSet(D)
      BY <2>1 DEF ToSet
    <3> HIDE DEF x
    <3> QED BY <3>1, <1>1, <1>3, <1>6 DEF x
  <2>3. AtMostOnce'
    BY <1>3, <2>1, OnceIsAtMostOnce DEF P
  <2>4. \A x \in ToSet(out') : x.msg.fields["sender"] # Bus
    BY <1>1, <1>3, <2>1
  <2>5. Viewed' /\ (ViewCurrent => ViewCurrent')
    <3> DEFINE none == <<>>
    <3>1. ToSet(none) = {}
      BY DEF ToSet
    <3> HIDE DEF none, Fixed
    <3>2. Truthful(bus', none) /\ \A y \in ToSet(none) : Plain(y)
      BY <3>1 DEF Truthful
    <3>3. Viewed /\ Tables(bus') /\ out' \in Seq(Parcels({m} \cup Fixed))
      BY <1>3, <2>1 DEF Base, P
    <3>4. \A x \in ToSet(out') :
            x.msg.fields["sender"] = Bus => Carries(x, none)
      BY <2>4
    <3>5. /\ Viewed'
          /\ /\ ViewCurrent
             /\ \A q \in Remotes, n \in Names :
                  Listening(bus', q, n) /\ Owner(bus', n) # Owner(bus, n) =>
                    \E x \in ToSet(out') : Tells(x, q, n)
             => ViewCurrent'
      BY <1>0, <3>2, <3>3, <3>4, ObserveStep
    <3>6. \A n \in Names : Owner(bus', n) = Owner(bus, n)
      BY <2>1
    <3> QED BY <3>5, <3>6
  <2>6. Base'
    BY <1>1, <2>1, <2>5 DEF Base
  <2> QED BY <2>1, <2>2, <2>3, <2>5, <2>6 DEF Kept, D, m
<1> QED BY <1>7, <1>8

-----------------------------------------------------------------------------
(* The changes of the tables *)

(* New names for a remote. *)
Renamed(b, r, s) == [b EXCEPT !.services[r] = s]

(* New names for a remote that is listed. *)
LEMMA ServicesStep ==
  ASSUME NEW b, Tables(b), NEW r \in Remotes, r \in ToSet(b.remotes),
         NEW s \in Seq(Names \cup Remotes), ToSet(s) \subseteq Names \cup {r}, Once(s), r \in ToSet(s),
         \A q \in Remotes \ {r} : ToSet(s) \cap ToSet(b.services[q]) = {}
  PROVE  LET b2 == Renamed(b, r, s)
         IN  /\ Tables(b2)
             /\ b2.remotes = b.remotes
             /\ b2.services[r] = s
             /\ \A q \in Remotes \ {r} : b2.services[q] = b.services[q]
             /\ \A q \in Remotes : HaveHello(b, q) => HaveHello(b2, q)
<1> DEFINE b2 == Renamed(b, r, s)
<1>1. Shape(b2)
  <2>1. Shape(b)
    BY DEF Tables
  <2> DEFINE N == Names \cup Remotes
  <2> HIDE DEF N
  <2> QED BY <2>1 DEF Shape, N, Renamed
<1>2. b2.remotes = b.remotes /\ b2.matches = b.matches /\ b2.broken = b.broken
  BY DEF Tables, Shape, Renamed
<1>3. b2.services[r] = s /\ \A q \in Remotes \ {r} : b2.services[q] = b.services[q]
  BY DEF Tables, Shape, Renamed
<1> HIDE DEF b2
<1>4. \A q \in Remotes : HaveHello(b, q) => HaveHello(b2, q)
  BY <1>3 DEF HaveHello
<1>5. HaveHello(b2, r)
  BY <1>3 DEF HaveHello
<1>6. /\ Once(b2.remotes) /\ Bus \in ToSet(b2.remotes) /\ HaveHello(b2, Bus)
  BY <1>2, <1>4, BusAssumption DEF Tables
<1>7. \A q \in Remotes :
        /\ ToSet(b2.services[q]) \subseteq Names \cup {q}
        /\ Once(b2.services[q])
        /\ b2.services[q] # <<>> => HaveHello(b2, q) /\ q \in ToSet(b2.remotes)
        /\ b2.matches[q] # <<>> => HaveHello(b2, q)
        /\ Len(b2.matches[q]) <= MaxRules
  <2> TAKE q \in Remotes
  <2>1. CASE q = r
    BY <1>2, <1>3, <1>5, <2>1 DEF Tables
  <2>2. CASE q # r
    BY <1>2, <1>3, <1>4, <2>2 DEF Tables
  <2> QED BY <2>1, <2>2
<1>8. \A p, q \in Remotes :
        p # q => ToSet(b2.services[p]) \cap ToSet(b2.services[q]) = {}
  <2> TAKE p, q \in Remotes
  <2>1. CASE p # r /\ q # r
    BY <1>3, <2>1 DEF Tables
  <2>2. CASE p = r \/ q = r
    BY <1>3, <2>2
  <2> QED BY <2>1, <2>2
<1>9. Tables(b2)
  BY <1>1, <1>6, <1>7, <1>8 DEF Tables
<1> QED BY <1>2, <1>3, <1>4, <1>9 DEF b2

(* New rules for a remote that has said hello: the names stay. *)
LEMMA MatchesStep ==
  ASSUME NEW b, Tables(b), NEW r \in Remotes, HaveHello(b, r),
         NEW s \in Seq(Rules), Len(s) <= MaxRules
  PROVE  LET b2 == [b EXCEPT !.matches[r] = s]
         IN  /\ Tables(b2)
             /\ b2.remotes = b.remotes
             /\ b2.services = b.services
<1> DEFINE b2 == [b EXCEPT !.matches[r] = s]
<1>1. Shape(b2)
  BY DEF Tables, Shape
<1>2. b2.remotes = b.remotes /\ b2.services = b.services /\ b2.broken = b.broken
  BY DEF Tables, Shape
<1>3. b2.matches[r] = s /\ \A q \in Remotes \ {r} : b2.matches[q] = b.matches[q]
  BY DEF Tables, Shape
<1> HIDE DEF b2
<1>4. \A q \in Remotes : HaveHello(b2, q) <=> HaveHello(b, q)
  BY <1>2 DEF HaveHello
<1>5. \A q \in Remotes :
        /\ b2.matches[q] # <<>> => HaveHello(b2, q)
        /\ Len(b2.matches[q]) <= MaxRules
  <2> TAKE q \in Remotes
  <2>1. CASE q = r
    BY <1>3, <1>4, <2>1
  <2>2. CASE q # r
    BY <1>3, <1>4, <2>2 DEF Tables
  <2> QED BY <2>1, <2>2
<1>6. Tables(b2)
  BY <1>1, <1>2, <1>4, <1>5, BusAssumption DEF Tables
<1> QED BY <1>2, <1>6 DEF b2

(* A remote that comes: it has neither names nor rules. *)
LEMMA ConnectTables ==
  ASSUME NEW b, Tables(b), NEW r \in Remotes, r \notin ToSet(b.remotes)
  PROVE  LET b2 == [b EXCEPT !.remotes = <<r>> \o @]
         IN  /\ Tables(b2)
             /\ ToSet(b2.remotes) = ToSet(b.remotes) \cup {r}
             /\ b2.services = b.services
<1> DEFINE s == <<r>> \o b.remotes
           b2 == [b EXCEPT !.remotes = <<r>> \o @]
<1>1. b.remotes \in Seq(Remotes) /\ Once(b.remotes)
  BY DEF Tables, Shape
<1>2. s \in Seq(Remotes) /\ ToSet(s) = ToSet(b.remotes) \cup {r} /\ Once(s)
  BY <1>1, ConsFacts
<1>3. b2 = [b EXCEPT !.remotes = s]
  OBVIOUS
<1> HIDE DEF s
<1>4. Shape(b2)
  BY <1>2, <1>3 DEF Tables, Shape
<1>5. b2.remotes = s /\ b2.services = b.services /\ b2.matches = b.matches /\ b2.broken = b.broken
  BY <1>3 DEF Tables, Shape
<1> HIDE DEF b2
<1>6. \A q \in Remotes : HaveHello(b2, q) <=> HaveHello(b, q)
  BY <1>5 DEF HaveHello
<1>7. Tables(b2)
  BY <1>2, <1>4, <1>5, <1>6, BusAssumption DEF Tables
<1> QED BY <1>2, <1>5, <1>7 DEF b2

(* A remote that goes: its names and its rules go with it. *)
LEMMA DisconnectTables ==
  ASSUME NEW b, Tables(b), NEW r \in Remotes \ {Bus}
  PROVE  LET b2 == [b EXCEPT !.remotes = RemoveFirst(@, r),
                             !.matches[r] = <<>>,
                             !.services[r] = <<>>,
                             !.broken = @ \ {r}]
         IN  /\ Tables(b2)
             /\ ToSet(b2.remotes) = ToSet(b.remotes) \ {r}
             /\ \A n : Owner(b2, n) = IF Owner(b, n) = r THEN None ELSE Owner(b, n)
<1> DEFINE s == RemoveFirst(b.remotes, r)
           b2 == [b EXCEPT !.remotes = RemoveFirst(@, r),
                           !.matches[r] = <<>>,
                           !.services[r] = <<>>,
                           !.broken = @ \ {r}]
<1>1. b.remotes \in Seq(Remotes) /\ Once(b.remotes) /\ Shape(b)
  BY DEF Tables, Shape
<1>2. s \in Seq(Remotes) /\ ToSet(s) = ToSet(b.remotes) \ {r} /\ Once(s)
  <2>1. /\ s \in Seq(Remotes)
        /\ ToSet(s) \subseteq ToSet(b.remotes) /\ ToSet(b.remotes) \subseteq ToSet(s) \cup {r}
        /\ Once(s) /\ r \notin ToSet(s)
    BY <1>1, RemoveFirstFacts
  <2> QED BY <2>1
<1>3. b2 = [b EXCEPT !.remotes = s, !.matches[r] = <<>>, !.services[r] = <<>>, !.broken = @ \ {r}]
  OBVIOUS
<1> HIDE DEF s
<1>4. Shape(b2)
  <2>1. /\ b.services \in [Remotes -> Seq(Names \cup Remotes)] /\ b.matches \in [Remotes -> Seq(Rules)]
        /\ b.broken \in SUBSET Fragile
        /\ b = [remotes |-> b.remotes, services |-> b.services, matches |-> b.matches, broken |-> b.broken]
    BY <1>1 DEF Shape
  <2>2. [b.services EXCEPT ![r] = <<>>] \in [Remotes -> Seq(Names \cup Remotes)]
    <3> DEFINE T == Seq(Names \cup Remotes)
    <3>1. <<>> \in T /\ b.services \in [Remotes -> T]
      BY <2>1
    <3> HIDE DEF T
    <3>2. [b.services EXCEPT ![r] = <<>>] \in [Remotes -> T]
      BY <3>1
    <3> QED BY <3>2 DEF T
  <2>3. [b.matches EXCEPT ![r] = <<>>] \in [Remotes -> Seq(Rules)]
    BY <2>1
  <2>4. b2 = [remotes |-> s, services |-> [b.services EXCEPT ![r] = <<>>],
              matches |-> [b.matches EXCEPT ![r] = <<>>], broken |-> b.broken \ {r}]
    <3> HIDE DEF b2
    <3> QED BY <1>3, <2>1
  <2> QED BY <1>2, <2>1, <2>2, <2>3, <2>4 DEF Shape
<1>5. /\ b2.remotes = s
      /\ b2.services[r] = <<>> /\ \A q \in Remotes \ {r} : b2.services[q] = b.services[q]
      /\ b2.matches[r] = <<>> /\ \A q \in Remotes \ {r} : b2.matches[q] = b.matches[q]
  BY <1>1, <1>3 DEF Shape
<1> HIDE DEF b2
<1>6. ToSet(b2.services[r]) = {} /\ Once(b2.services[r]) /\ Len(b2.matches[r]) = 0
  BY <1>5 DEF ToSet, Once
<1>7. \A q \in Remotes \ {r} : HaveHello(b2, q) <=> HaveHello(b, q)
  BY <1>5 DEF HaveHello
<1>8. Once(b2.remotes) /\ Bus \in ToSet(b2.remotes) /\ HaveHello(b2, Bus)
  BY <1>2, <1>5, <1>7, BusAssumption DEF Tables
<1>9. \A q \in Remotes :
        /\ ToSet(b2.services[q]) \subseteq Names \cup {q}
        /\ Once(b2.services[q])
        /\ b2.services[q] # <<>> => HaveHello(b2, q) /\ q \in ToSet(b2.remotes)
        /\ b2.matches[q] # <<>> => HaveHello(b2, q)
        /\ Len(b2.matches[q]) <= MaxRules
  <2> TAKE q \in Remotes
  <2>1. CASE q = r
    BY <1>5, <1>6, <2>1, RuleBoundAssumption
  <2>2. CASE q # r
    BY <1>2, <1>5, <1>7, <2>2 DEF Tables
  <2> QED BY <2>1, <2>2
<1>10. \A p, q \in Remotes :
         p # q => ToSet(b2.services[p]) \cap ToSet(b2.services[q]) = {}
  <2> TAKE p, q \in Remotes
  <2>1. CASE p # r /\ q # r
    BY <1>5, <2>1 DEF Tables
  <2>2. CASE p = r \/ q = r
    BY <1>6, <2>2
  <2> QED BY <2>1, <2>2
<1>11. Tables(b2)
  BY <1>4, <1>8, <1>9, <1>10 DEF Tables
<1>12. \A n : Owner(b2, n) = IF Owner(b, n) = r THEN None ELSE Owner(b, n)
  <2> TAKE n
  <2>1. /\ Owner(b2, n) \in Remotes \cup {None}
        /\ \A q \in Remotes : Owner(b2, n) = q <=> n \in ToSet(b2.services[q])
    BY <1>11, OwnerFacts
  <2>2. /\ Owner(b, n) \in Remotes \cup {None}
        /\ \A q \in Remotes : Owner(b, n) = q <=> n \in ToSet(b.services[q])
    BY OwnerFacts
  <2> QED BY <1>5, <1>6, <2>1, <2>2
<1> QED BY <1>2, <1>5, <1>11, <1>12 DEF b2

-----------------------------------------------------------------------------
(* The actions *)

(* What a body says of well known names is true of the tables b. *)
TellsTruth(b, body) ==
  \A told \in body : told.name \in Names => told.owner = Owner(b, told.name)

(* The calls of bus methods are messages. *)
LEMMA CallFacts ==
  ASSUME NEW member
  PROVE  LET call == BusCall(member)
         IN  /\ DOMAIN call = {"type", "fields", "bad", "body"}
             /\ call.type = "method"
             /\ DOMAIN call.fields = {"member", "destination"}
             /\ call.fields["member"] = member /\ call.fields["destination"] = Bus
BY DEF BusCall, Message

(* The signals of a change of owner and the answer to the call that made it. *)
LEMMA NoticesAndReply ==
  ASSUME NEW b, NEW n, NEW old, NEW new, n \in Names => new = Owner(b, n),
         NEW type, NEW r, NEW wanted
  PROVE  LET msgs == ownerchanged(n, old, new) \o Reply(type, r, {}, wanted)
             M == Notices(n, old, new) \cup {Answer(type, r, {})}
         IN  /\ msgs \in Seq(M)
             /\ \A m \in M : Plain(m)
             /\ Once(msgs)
             /\ Truthful(b, msgs)
             /\ Changed(n, new) \in ToSet(msgs)
<1> DEFINE c == ownerchanged(n, old, new)
           d == Reply(type, r, {}, wanted)
           a == Answer(type, r, {})
           N == Notices(n, old, new)
           M == N \cup {a}
<1>1. c \in Seq(N) /\ Once(c) /\ Changed(n, new) \in ToSet(c)
  BY OwnerChangedFacts
<1>2. d \in Seq({a}) /\ Once(d) /\ ToSet(d) \subseteq {a} /\ Plain(a)
      /\ "member" \notin DOMAIN a.fields /\ a.body = {}
  BY ReplyFacts
<1>3. \A m \in N : Plain(m) /\ "member" \in DOMAIN m.fields /\ m.body \subseteq {Told(n, new)}
  BY SignalFacts
<1> HIDE DEF c, d, a, N
<1>4. ToSet(c) \subseteq N
  BY <1>1 DEF ToSet
<1>5. c \in Seq(M) /\ d \in Seq(M)
  BY <1>1, <1>2
<1>6. ToSet(c) \cap ToSet(d) = {}
  BY <1>2, <1>3, <1>4
<1> HIDE DEF M
<1>7. c \o d \in Seq(M) /\ ToSet(c \o d) = ToSet(c) \cup ToSet(d) /\ Once(c \o d)
  BY <1>1, <1>2, <1>5, <1>6, JoinFacts
<1>8. \A m \in M : Plain(m)
  BY <1>2, <1>3 DEF M
<1>9. Truthful(b, c \o d)
  <2> SUFFICES ASSUME NEW m \in ToSet(c \o d), NEW told \in m.body, told.name \in Names
               PROVE  told.owner = Owner(b, told.name)
    BY DEF Truthful
  <2>1. m \in ToSet(c)
    BY <1>2, <1>7
  <2>2. told = Told(n, new)
    BY <1>3, <1>4, <2>1
  <2> QED BY <2>2 DEF Told
<1> QED BY <1>1, <1>7, <1>8, <1>9 DEF c, d, a, N, M

(* A call that leaves the names alone, and whose answer tells the truth. *)
LEMMA ReplyStep ==
  ASSUME Base, NEW r \in Remotes, Ready(r),
         NEW call, DOMAIN call = {"type", "fields", "bad", "body"},
         NEW b2, Tables(b2), b2.remotes = bus.remotes, b2.services = bus.services,
         NEW type, NEW body, TellsTruth(bus, body), NEW wanted,
         Handle(r, call, b2, Reply(type, r, body, wanted))
  PROVE  Kept /\ ToSet(Delivered(bus, FixHeaders(r, call))) \subseteq ToSet(out')
<1> DEFINE a == Answer(type, r, body)
           d == Reply(type, r, body, wanted)
<1>1. d \in Seq({a}) /\ Once(d) /\ ToSet(d) \subseteq {a} /\ Plain(a) /\ a.body = body
  <2>1. d \in Seq({a}) /\ Once(d)
    BY ReplyFacts
  <2>2. ToSet(d) \subseteq {a}
    BY ReplyFacts
  <2>3. Plain(a)
    BY ReplyFacts
  <2>4. a.body = body
    BY DEF Answer, Message
  <2> QED BY <2>1, <2>2, <2>3, <2>4
<1>2. \A n : Owner(b2, n) = Owner(bus, n)
  BY DEF Owner
<1>3. \A q \in Remotes : HaveHello(bus, q) => HaveHello(b2, q)
  BY DEF HaveHello
<1>4. Listed(r) /\ HaveHello(bus, r)
  BY DEF Ready
<1> HIDE DEF a, d
<1>5. Truthful(b2, d) /\ Announced(bus, b2, d)
  BY <1>1, <1>2 DEF Truthful, Announced, TellsTruth
<1>6. Handle(r, call, b2, d) /\ ToSet(bus.remotes) \subseteq ToSet(b2.remotes)
  BY DEF d
<1> DEFINE M == {a}
<1>7. d \in Seq(M) /\ \A m \in M : Plain(m)
  BY <1>1
<1> HIDE DEF M
<1> QED BY <1>1, <1>3, <1>4, <1>5, <1>6, <1>7, HandleStep

(* Other names for r, announced and answered. *)
LEMMA NameStep ==
  ASSUME Base, NEW r \in Remotes, Listed(r), NEW member, HaveHello(bus, r) \/ member = "Hello",
         NEW s \in Seq(Names \cup Remotes), ToSet(s) \subseteq Names \cup {r}, Once(s), r \in ToSet(s),
         \A q \in Remotes \ {r} : ToSet(s) \cap ToSet(bus.services[q]) = {},
         NEW n, NEW old, NEW new, n \in Names => new = IF n \in ToSet(s) THEN r ELSE None,
         n \in Names => Owner(bus, n) \in {r, None},
         \A k \in Names \ {n} : k \in ToSet(s) <=> k \in ToSet(bus.services[r]),
         NEW type, NEW wanted,
         Handle(r, BusCall(member), [bus EXCEPT !.services[r] = s],
                ownerchanged(n, old, new) \o Reply(type, r, {}, wanted))
  PROVE  Kept
<1> DEFINE b2 == Renamed(bus, r, s)
           msgs == ownerchanged(n, old, new) \o Reply(type, r, {}, wanted)
           M == Notices(n, old, new) \cup {Answer(type, r, {})}
           call == BusCall(member)
<1>1. r \in ToSet(bus.remotes) /\ Tables(bus)
  BY DEF Listed, Base
<1>2. /\ Tables(b2) /\ b2.remotes = bus.remotes /\ b2.services[r] = s
      /\ \A q \in Remotes \ {r} : b2.services[q] = bus.services[q]
      /\ \A q \in Remotes : HaveHello(bus, q) => HaveHello(b2, q)
  BY <1>1, ServicesStep
<1>3. Handle(r, call, b2, msgs)
  BY DEF Renamed
<1>4. DOMAIN call = {"type", "fields", "bad", "body"} /\ (HaveHello(bus, r) \/ call = BusCall("Hello"))
  BY CallFacts
<1> HIDE DEF b2, call
<1>5. \A k : /\ Owner(b2, k) \in Remotes \cup {None}
             /\ \A q \in Remotes : Owner(b2, k) = q <=> k \in ToSet(b2.services[q])
  BY <1>2, OwnerFacts
<1>6. \A k : /\ Owner(bus, k) \in Remotes \cup {None}
             /\ \A q \in Remotes : Owner(bus, k) = q <=> k \in ToSet(bus.services[q])
  BY <1>1, OwnerFacts
<1>7. None \notin Remotes
  BY NamesAssumption
<1>8. n \in Names => new = Owner(b2, n)
  <2> SUFFICES ASSUME n \in Names PROVE new = Owner(b2, n)
    OBVIOUS
  <2>1. CASE n \in ToSet(s)
    BY <1>2, <1>5, <2>1
  <2>2. CASE n \notin ToSet(s)
    <3>1. \A q \in Remotes : Owner(b2, n) # q
      BY <1>2, <1>5, <1>6, <1>7, <2>2
    <3> QED BY <1>5, <2>2, <3>1
  <2> QED BY <2>1, <2>2
<1>9. \A k \in Names \ {n} : Owner(b2, k) = Owner(bus, k)
  <2> TAKE k \in Names \ {n}
  <2>1. \A q \in Remotes : k \in ToSet(b2.services[q]) <=> k \in ToSet(bus.services[q])
    BY <1>2
  <2> QED BY <1>5, <1>6, <2>1
<1>10. /\ msgs \in Seq(M) /\ (\A m \in M : Plain(m)) /\ Once(msgs)
       /\ Truthful(b2, msgs) /\ Changed(n, new) \in ToSet(msgs)
  BY <1>8, NoticesAndReply
<1> HIDE DEF msgs, M
<1>11. Announced(bus, b2, msgs)
  BY <1>9, <1>10 DEF Announced
<1>12. ToSet(bus.remotes) \subseteq ToSet(b2.remotes)
  BY <1>2
<1> QED BY <1>2, <1>3, <1>4, <1>10, <1>11, <1>12, HandleStep

(* A step in which nothing is delivered and no owner changes. *)
LEMMA SilentStep ==
  ASSUME Base, Tables(bus'), out' = <<>>, view' = view,
         kicked' \subseteq ToSet(bus'.remotes), bus'.services = bus.services
  PROVE  Kept
<1>1. Introduced' /\ AtMostOnce'
  BY DEF Introduced, AtMostOnce
<1>2. Viewed'
  BY DEF Viewed, Base
<1>3. \A n : Owner(bus', n) = Owner(bus, n)
  BY DEF Owner
<1>4. ViewCurrent => ViewCurrent'
  BY <1>3 DEF ViewCurrent
<1> QED BY <1>1, <1>2, <1>4 DEF Kept, Base

(* A new remote: it has neither names nor rules, and nobody is told. *)
LEMMA ConnectStep ==
  ASSUME Base, NEW r \in Remotes, Connect(r)
  PROVE  Kept
<1> DEFINE b2 == [bus EXCEPT !.remotes = <<r>> \o @]
<1>1. Tables(bus) /\ r \notin ToSet(bus.remotes) /\ kicked \subseteq ToSet(bus.remotes)
  BY DEF Base, Connect
<1>2. Tables(b2) /\ ToSet(b2.remotes) = ToSet(bus.remotes) \cup {r} /\ b2.services = bus.services
  BY <1>1, ConnectTables
<1>3. bus' = b2 /\ out' = <<>> /\ view' = view /\ kicked' = kicked
  BY DEF Connect
<1> HIDE DEF b2
<1> QED BY <1>1, <1>2, <1>3, SilentStep

(* The gate before the hello: the remote will be dropped. *)
LEMMA RejectStep ==
  ASSUME Base, NEW r \in Remotes, Reject(r)
  PROVE  Kept
<1>1. bus' = bus /\ out' = <<>> /\ view' = view /\ kicked' = kicked \cup {r}
  BY DEF Reject
<1>2. r \in ToSet(bus.remotes)
  BY DEF Reject, Listed
<1> QED BY <1>1, <1>2, SilentStep DEF Base

(* A send callback starts to fail. *)
LEMMA BreakStep ==
  ASSUME Base, NEW r \in Remotes, Break(r)
  PROVE  Kept
<1>1. /\ bus' = [bus EXCEPT !.broken = @ \cup {r}] /\ out' = <<>> /\ view' = view /\ kicked' = kicked
      /\ r \in Fragile
  BY DEF Break
<1>2. Shape(bus) /\ Tables(bus) /\ kicked \subseteq ToSet(bus.remotes)
  BY DEF Base, Tables
<1>3. Shape(bus')
  BY <1>1, <1>2 DEF Shape
<1>4. bus'.remotes = bus.remotes /\ bus'.services = bus.services /\ bus'.matches = bus.matches
  BY <1>1, <1>2 DEF Shape
<1>5. \A q \in Remotes : HaveHello(bus', q) <=> HaveHello(bus, q)
  BY <1>4 DEF HaveHello
<1>6. Tables(bus')
  BY <1>2, <1>3, <1>4, <1>5, BusAssumption DEF Tables
<1> QED BY <1>1, <1>2, <1>4, <1>6, SilentStep

(* The hello gives a remote its unique name, which nobody else can have. *)
LEMMA HelloStep ==
  ASSUME Base, NEW r \in Remotes, NEW wanted, Hello(r, wanted)
  PROVE  Kept
<1> DEFINE s == <<r>>
<1>1. Listed(r) /\ ~HaveHello(bus, r) /\ Tables(bus)
  BY DEF Hello, Base
<1>2. s \in Seq(Names \cup Remotes) /\ ToSet(s) = {r} /\ Once(s)
  BY DEF ToSet, Once
<1>3. \A q \in Remotes : r \in ToSet(bus.services[q]) => q = r
  BY NamesAssumption, <1>1 DEF Tables
<1>4. bus.services[r] = <<>>
  BY <1>1 DEF Tables
<1>5. \A k : k \notin ToSet(bus.services[r])
  BY <1>4 DEF ToSet
<1>6. r \notin Names
  BY NamesAssumption
<1>7. Handle(r, BusCall("Hello"), [bus EXCEPT !.services[r] = s],
             ownerchanged(r, None, r) \o Reply("return", r, {}, wanted))
  BY DEF Hello
<1> HIDE DEF s
<1>8. \A k \in Names \ {r} : k \in ToSet(s) <=> k \in ToSet(bus.services[r])
  BY <1>2, <1>5
<1>9. \A q \in Remotes \ {r} : ToSet(s) \cap ToSet(bus.services[q]) = {}
  BY <1>2, <1>3
<1> QED BY <1>1, <1>2, <1>6, <1>7, <1>8, <1>9, NameStep

(* A second hello changes nothing. *)
LEMMA HelloAgainStep ==
  ASSUME Base, NEW r \in Remotes, NEW wanted, HelloAgain(r, wanted)
  PROVE  Kept
<1>1. Ready(r) /\ Handle(r, BusCall("Hello"), bus, Reply("error", r, {}, wanted)) /\ Tables(bus)
  BY DEF HelloAgain, Base
<1>2. DOMAIN BusCall("Hello") = {"type", "fields", "bad", "body"}
  BY CallFacts
<1>3. TellsTruth(bus, {})
  BY DEF TellsTruth
<1> QED BY <1>1, <1>2, <1>3, ReplyStep

(* A name that is free is given and announced; one that is not stays where it is. *)
LEMMA RequestNameStep ==
  ASSUME Base, NEW r \in Remotes, NEW n \in Names, NEW wanted, RequestName(r, n, wanted)
  PROVE  Kept
<1> DEFINE free == Owner(bus, n) = None
           call == BusCall("RequestName")
           d == Reply("return", r, {}, wanted)
           s == Append(bus.services[r], n)
<1>1. /\ Ready(r) /\ Tables(bus) /\ Listed(r) /\ HaveHello(bus, r)
      /\ Handle(r, call, IF free THEN [bus EXCEPT !.services[r] = Append(@, n)] ELSE bus,
                (IF free THEN ownerchanged(n, None, r) ELSE <<>>) \o d)
  BY DEF RequestName, Base, Ready
<1>2. DOMAIN call = {"type", "fields", "bad", "body"}
  BY CallFacts
<1>3. CASE free
  <2>1. [bus EXCEPT !.services[r] = Append(@, n)] = [bus EXCEPT !.services[r] = s]
    OBVIOUS
  <2>2. Handle(r, call, [bus EXCEPT !.services[r] = s], ownerchanged(n, None, r) \o d)
    <3> HIDE DEF free, call, d, s
    <3> QED BY <1>1, <1>3, <2>1
  <2>3. /\ bus.services[r] \in Seq(Names \cup Remotes) /\ Once(bus.services[r])
        /\ ToSet(bus.services[r]) \subseteq Names \cup {r}
    BY <1>1 DEF Tables, Shape
  <2>4. \A q \in Remotes : n \notin ToSet(bus.services[q])
    BY <1>1, <1>3, NamesAssumption, OwnerFacts
  <2>5. s \in Seq(Names \cup Remotes) /\ ToSet(s) = ToSet(bus.services[r]) \cup {n} /\ Once(s)
    <3> DEFINE N == Names \cup Remotes
    <3>1. bus.services[r] \in Seq(N) /\ n \in N
      BY <2>3
    <3> HIDE DEF N
    <3>2. s \in Seq(N) /\ ToSet(s) = ToSet(bus.services[r]) \cup {n} /\ Once(s)
      BY <2>3, <2>4, <3>1, AppendFacts
    <3> QED BY <3>2 DEF N
  <2> HIDE DEF s
  <2>6. ToSet(s) \subseteq Names \cup {r} /\ r \in ToSet(s)
    BY <1>1, <2>3, <2>5 DEF HaveHello
  <2>7. \A q \in Remotes \ {r} : ToSet(s) \cap ToSet(bus.services[q]) = {}
    <3> TAKE q \in Remotes \ {r}
    <3>1. ToSet(bus.services[r]) \cap ToSet(bus.services[q]) = {}
      BY <1>1 DEF Tables
    <3> QED BY <2>4, <2>5, <3>1
  <2>8. \A k \in Names \ {n} : k \in ToSet(s) <=> k \in ToSet(bus.services[r])
    BY <2>5
  <2>9. n \in ToSet(s)
    BY <2>5
  <2> QED BY <1>1, <1>3, <2>2, <2>5, <2>6, <2>7, <2>8, <2>9, NameStep
<1>4. CASE ~free
  <2>1. <<>> \o d = d
    <3>1. d \in Seq({Answer("return", r, {})})
      BY ReplyFacts
    <3> QED BY <3>1
  <2>2. Handle(r, call, bus, d)
    <3> HIDE DEF free, call, d
    <3> QED BY <1>1, <1>4, <2>1
  <2>3. TellsTruth(bus, {})
    BY DEF TellsTruth
  <2> QED BY <1>1, <1>2, <2>2, <2>3, ReplyStep
<1> QED BY <1>3, <1>4

(* A name that is given back is announced as free; the unique name stays. *)
LEMMA ReleaseNameStep ==
  ASSUME Base, NEW r \in Remotes, NEW n \in Names, NEW wanted, ReleaseName(r, n, wanted)
  PROVE  Kept
<1> DEFINE own == Owner(bus, n) = r
           call == BusCall("ReleaseName")
           d == Reply("return", r, {}, wanted)
           s == RemoveFirst(bus.services[r], n)
<1>1. /\ Ready(r) /\ Tables(bus) /\ Listed(r) /\ HaveHello(bus, r)
      /\ Handle(r, call, IF own THEN [bus EXCEPT !.services[r] = RemoveFirst(@, n)] ELSE bus,
                (IF own THEN ownerchanged(n, r, None) ELSE <<>>) \o d)
  BY DEF ReleaseName, Base, Ready
<1>2. DOMAIN call = {"type", "fields", "bad", "body"}
  BY CallFacts
<1>3. CASE own
  <2>1. [bus EXCEPT !.services[r] = RemoveFirst(@, n)] = [bus EXCEPT !.services[r] = s]
    OBVIOUS
  <2>2. Handle(r, call, [bus EXCEPT !.services[r] = s], ownerchanged(n, r, None) \o d)
    <3> HIDE DEF own, call, d, s
    <3> QED BY <1>1, <1>3, <2>1
  <2>3. /\ bus.services[r] \in Seq(Names \cup Remotes) /\ Once(bus.services[r])
        /\ ToSet(bus.services[r]) \subseteq Names \cup {r}
    BY <1>1 DEF Tables, Shape
  <2>4. /\ s \in Seq(Names \cup Remotes) /\ Once(s) /\ n \notin ToSet(s)
        /\ ToSet(s) \subseteq ToSet(bus.services[r]) /\ ToSet(bus.services[r]) \subseteq ToSet(s) \cup {n}
    <3> DEFINE N == Names \cup Remotes
    <3>1. bus.services[r] \in Seq(N)
      BY <2>3
    <3> HIDE DEF N
    <3>2. /\ s \in Seq(N) /\ Once(s) /\ n \notin ToSet(s)
          /\ ToSet(s) \subseteq ToSet(bus.services[r]) /\ ToSet(bus.services[r]) \subseteq ToSet(s) \cup {n}
      BY <2>3, <3>1, RemoveFirstFacts
    <3> QED BY <3>2 DEF N
  <2> HIDE DEF s
  <2>5. ToSet(s) \subseteq Names \cup {r}
    BY <2>3, <2>4
  <2>6. r \in ToSet(s)
    BY <1>1, <2>4, NamesAssumption DEF HaveHello
  <2>7. \A q \in Remotes \ {r} : ToSet(s) \cap ToSet(bus.services[q]) = {}
    BY <1>1, <2>4 DEF Tables
  <2>8. \A k \in Names \ {n} : k \in ToSet(s) <=> k \in ToSet(bus.services[r])
    BY <2>4
  <2> QED BY <1>1, <1>3, <2>2, <2>4, <2>5, <2>6, <2>7, <2>8, NameStep
<1>4. CASE ~own
  <2>1. <<>> \o d = d
    <3>1. d \in Seq({Answer("return", r, {})})
      BY ReplyFacts
    <3> QED BY <3>1
  <2>2. Handle(r, call, bus, d)
    <3> HIDE DEF own, call, d
    <3> QED BY <1>1, <1>4, <2>1
  <2>3. TellsTruth(bus, {})
    BY DEF TellsTruth
  <2> QED BY <1>1, <1>2, <2>2, <2>3, ReplyStep
<1> QED BY <1>3, <1>4

(* The answer names the owner at that moment. *)
LEMMA GetNameOwnerStep ==
  ASSUME Base, NEW r \in Remotes, NEW n \in Names, NEW wanted, GetNameOwner(r, n, wanted)
  PROVE  Kept
<1> DEFINE type == IF Owner(bus, n) = None THEN "error" ELSE "return"
           body == {Told(n, Owner(bus, n))}
           call == BusCall("GetNameOwner")
<1>1. Ready(r) /\ Tables(bus) /\ Handle(r, call, bus, Reply(type, r, body, wanted))
  BY DEF GetNameOwner, Base
<1>2. DOMAIN call = {"type", "fields", "bad", "body"}
  BY CallFacts
<1>3. TellsTruth(bus, body)
  BY DEF TellsTruth, Told
<1> HIDE DEF type, body, call
<1> QED BY <1>1, <1>2, <1>3, ReplyStep

(* The answer says only whether there is an owner. *)
LEMMA NameHasOwnerStep ==
  ASSUME Base, NEW r \in Remotes, NEW n \in Names, NEW wanted, NameHasOwner(r, n, wanted)
  PROVE  Kept
<1> DEFINE body == IF Owner(bus, n) = None THEN {Told(n, None)} ELSE {}
           call == BusCall("NameHasOwner")
<1>1. Ready(r) /\ Tables(bus) /\ Handle(r, call, bus, Reply("return", r, body, wanted))
  BY DEF NameHasOwner, Base
<1>2. DOMAIN call = {"type", "fields", "bad", "body"}
  BY CallFacts
<1>3. TellsTruth(bus, body)
  BY DEF TellsTruth, Told
<1> HIDE DEF body, call
<1> QED BY <1>1, <1>2, <1>3, ReplyStep

(* The answer lists the names with an owner: the others have none. *)
LEMMA ListNamesStep ==
  ASSUME Base, NEW r \in Remotes, NEW wanted, ListNames(r, wanted)
  PROVE  Kept
<1> DEFINE body == {Told(n, None) : n \in {n \in Names : Owner(bus, n) = None}}
           call == BusCall("ListNames")
<1>1. Ready(r) /\ Tables(bus) /\ Handle(r, call, bus, Reply("return", r, body, wanted))
  BY DEF ListNames, Base
<1>2. DOMAIN call = {"type", "fields", "bad", "body"}
  BY CallFacts
<1>3. TellsTruth(bus, body)
  BY DEF TellsTruth, Told
<1> HIDE DEF body, call
<1> QED BY <1>1, <1>2, <1>3, ReplyStep

(* One more rule, within the bound. *)
LEMMA AddMatchStep ==
  ASSUME Base, NEW r \in Remotes, NEW rule \in Rules, NEW wanted, AddMatch(r, rule, wanted)
  PROVE  Kept
<1> DEFINE s == <<rule>> \o bus.matches[r]
           b2 == [bus EXCEPT !.matches[r] = s]
           call == BusCall("AddMatch")
<1>1. Ready(r) /\ Tables(bus) /\ Handle(r, call, b2, Reply("return", r, {}, wanted))
      /\ HaveHello(bus, r) /\ Len(bus.matches[r]) < MaxRules
  BY DEF AddMatch, Base, Ready
<1>2. DOMAIN call = {"type", "fields", "bad", "body"}
  BY CallFacts
<1>3. bus.matches[r] \in Seq(Rules)
  BY <1>1 DEF Tables, Shape
<1>4. s \in Seq(Rules) /\ Len(s) <= MaxRules
  BY <1>1, <1>3, RuleBoundAssumption
<1> HIDE DEF s, call
<1>5. Tables(b2) /\ b2.remotes = bus.remotes /\ b2.services = bus.services
  BY <1>1, <1>4, MatchesStep
<1>6. TellsTruth(bus, {})
  BY DEF TellsTruth
<1> HIDE DEF b2
<1> QED BY <1>1, <1>2, <1>5, <1>6, ReplyStep

(* One rule less, or an error. *)
LEMMA RemoveMatchStep ==
  ASSUME Base, NEW r \in Remotes, NEW rule \in Rules, NEW wanted, RemoveMatch(r, rule, wanted)
  PROVE  Kept
<1> DEFINE s == RemoveFirst(bus.matches[r], rule)
           b2 == [bus EXCEPT !.matches[r] = s]
           call == BusCall("RemoveMatch")
           type == IF rule \in ToSet(bus.matches[r]) THEN "return" ELSE "error"
<1>1. Ready(r) /\ Tables(bus) /\ Handle(r, call, b2, Reply(type, r, {}, wanted)) /\ HaveHello(bus, r)
  BY DEF RemoveMatch, Base, Ready
<1>2. DOMAIN call = {"type", "fields", "bad", "body"}
  BY CallFacts
<1>3. bus.matches[r] \in Seq(Rules) /\ Len(bus.matches[r]) <= MaxRules
  BY <1>1 DEF Tables, Shape
<1>4. s \in Seq(Rules) /\ Len(s) <= MaxRules
  <2>1. s \in Seq(Rules) /\ Len(s) <= Len(bus.matches[r])
    BY <1>3, RemoveFirstFacts
  <2>2. Len(s) \in Nat /\ Len(bus.matches[r]) \in Nat
    BY <1>3, <2>1
  <2> HIDE DEF s
  <2> QED BY <1>3, <2>1, <2>2, RuleBoundAssumption
<1> HIDE DEF s, call, type
<1>5. Tables(b2) /\ b2.remotes = bus.remotes /\ b2.services = bus.services
  BY <1>1, <1>4, MatchesStep
<1>6. TellsTruth(bus, {})
  BY DEF TellsTruth
<1> HIDE DEF b2
<1> QED BY <1>1, <1>2, <1>5, <1>6, ReplyStep

(* A message that is none of the calls above: the tables stay. *)
LEMMA SendStep ==
  ASSUME Base, NEW r \in Remotes, NEW m \in PeerMsgs, NEW wanted, Send(r, m, wanted)
  PROVE  Kept /\ ToSet(Delivered(bus, FixHeaders(r, m))) \subseteq ToSet(out')
<1> DEFINE answered == m.type = "method" /\ Target(bus, m) = Bus
           w == IF answered THEN wanted ELSE FALSE
<1>1. /\ Ready(r) /\ Tables(bus)
      /\ Handle(r, m, bus, IF answered THEN Reply("error", r, {}, wanted) ELSE <<>>)
  BY DEF Send, Base
<1>2. (IF answered THEN Reply("error", r, {}, wanted) ELSE <<>>) = Reply("error", r, {}, w)
  BY DEF Reply
<1>3. Handle(r, m, bus, Reply("error", r, {}, w))
  <2> HIDE DEF answered, w
  <2> QED BY <1>1, <1>2
<1>4. DOMAIN m = {"type", "fields", "bad", "body"}
  BY PeerAssumption
<1>5. TellsTruth(bus, {})
  BY DEF TellsTruth
<1> HIDE DEF answered, w
<1> QED BY <1>1, <1>3, <1>4, <1>5, ReplyStep

(* The signals when remote r, which owns the names own, goes. *)
Losses(own, r) == FlattenSeq([i \in DOMAIN own |-> ownerchanged(own[i], r, None)])
LossNotices(S, r) == UNION {Notices(n, r, None) : n \in S}

(* They tell of the loss of each of its names, once. *)
LEMMA LossFacts ==
  ASSUME NEW b, NEW r, NEW S, NEW own \in Seq(S), Once(own),
         \A n \in ToSet(own) : Owner(b, n) = None
  PROVE  LET msgs == Losses(own, r)
             M == LossNotices(S, r)
         IN  /\ msgs \in Seq(M)
             /\ \A m \in M : Plain(m)
             /\ Once(msgs)
             /\ Truthful(b, msgs)
             /\ \A n \in ToSet(own) : Changed(n, None) \in ToSet(msgs)
<1> DEFINE ss == [i \in DOMAIN own |-> ownerchanged(own[i], r, None)]
           msgs == Losses(own, r)
           M == LossNotices(S, r)
           k == Len(own)
<1>1. k \in Nat /\ DOMAIN own = 1..k /\ \A i \in 1..k : own[i] \in S
  OBVIOUS
<1>2. \A i \in 1..k : /\ ss[i] \in Seq(Notices(own[i], r, None))
                      /\ Changed(own[i], None) \in ToSet(ss[i])
                      /\ Once(ss[i])
  BY <1>1, OwnerChangedFacts
<1>3. \A i \in 1..k : ToSet(ss[i]) \subseteq Notices(own[i], r, None)
  <2> TAKE i \in 1..k
  <2> DEFINE t == ss[i]
  <2>1. t \in Seq(Notices(own[i], r, None))
    BY <1>2
  <2> HIDE DEF t
  <2>2. ToSet(t) \subseteq Notices(own[i], r, None)
    BY <2>1 DEF ToSet
  <2> QED BY <2>2 DEF t
<1>4. \A i \in 1..k : ss[i] \in Seq(M)
  <2> TAKE i \in 1..k
  <2> DEFINE t == ss[i]
             N == Notices(own[i], r, None)
  <2>1. t \in Seq(N)
    BY <1>2
  <2>2. N \subseteq M
    BY <1>1 DEF LossNotices
  <2> HIDE DEF t, N, M
  <2>3. t \in Seq(M)
    BY <2>1, <2>2
  <2> QED BY <2>3 DEF t
<1>5. \A m \in M : Plain(m)
  BY SignalFacts DEF LossNotices
<1> HIDE DEF M
<1>6. ss \in Seq(Seq(M)) /\ Len(ss) = k
  <2> DEFINE T == Seq(M)
  <2>1. \A i \in 1..k : ss[i] \in T
    BY <1>4
  <2>2. ss = [i \in DOMAIN own |-> ss[i]]
    OBVIOUS
  <2> HIDE DEF T, ss
  <2>3. ss \in Seq(T) /\ Len(ss) = k
    BY <1>1, <2>1, <2>2
  <2> QED BY <2>3 DEF T
<1>0. msgs = FlattenSeq(ss)
  BY DEF Losses
<1> HIDE DEF ss
<1>7. \A i, j \in 1..k : i # j => ToSet(ss[i]) \cap ToSet(ss[j]) = {}
  <2> SUFFICES ASSUME NEW i \in 1..k, NEW j \in 1..k, i # j,
                      NEW m \in ToSet(ss[i]), m \in ToSet(ss[j])
               PROVE  FALSE
    OBVIOUS
  <2>1. m \in Notices(own[i], r, None) /\ m \in Notices(own[j], r, None)
    BY <1>3
  <2>2. m.fields["arg0"] = own[i] /\ m.fields["arg0"] = own[j]
    BY <2>1, SignalFacts
  <2> QED BY <1>1, <2>2 DEF Once
<1>8. /\ msgs \in Seq(M) /\ Once(msgs)
      /\ \A m : m \in ToSet(msgs) <=> \E i \in 1..k : m \in ToSet(ss[i])
  <2> HIDE DEF msgs
  <2> QED BY <1>0, <1>2, <1>6, <1>7, FlattenFacts
<1> HIDE DEF msgs
<1>9. Truthful(b, msgs)
  <2> SUFFICES ASSUME NEW m \in ToSet(msgs), NEW told \in m.body
               PROVE  told.owner = Owner(b, told.name)
    BY DEF Truthful
  <2>1. PICK i \in 1..k : m \in ToSet(ss[i])
    BY <1>8
  <2>2. told = Told(own[i], None)
    BY <1>3, <2>1, SignalFacts
  <2>3. own[i] \in ToSet(own)
    BY <1>1 DEF ToSet
  <2> QED BY <2>2, <2>3 DEF Told
<1>10. \A n \in ToSet(own) : Changed(n, None) \in ToSet(msgs)
  <2> TAKE n \in ToSet(own)
  <2>1. PICK i \in 1..k : own[i] = n
    BY <1>1 DEF ToSet
  <2> QED BY <1>2, <1>8, <2>1
<1> QED BY <1>5, <1>8, <1>9, <1>10 DEF msgs, M

(* A remote goes: the loss of each of its names is announced to those who stay. *)
LEMMA DisconnectStep ==
  ASSUME Base, NEW r \in Remotes, Disconnect(r)
  PROVE  Kept
<1> DEFINE b2 == [bus EXCEPT !.remotes = RemoveFirst(@, r),
                             !.matches[r] = <<>>,
                             !.services[r] = <<>>,
                             !.broken = @ \ {r}]
           own == bus.services[r]
           S == Names \cup Remotes
           msgs == Losses(own, r)
           M == LossNotices(S, r)
           E == Emit(b2, msgs)
           Fixed == {FixHeaders(Bus, x) : x \in M}
<1>1. r \in Remotes \ {Bus} /\ Tables(bus) /\ Viewed
  BY DEF Disconnect, Base
<1>2. bus' = b2 /\ out' = E /\ kicked' = kicked \ {r} /\ Observe
  BY DEF Disconnect, Losses
<1>3. /\ Tables(b2) /\ ToSet(b2.remotes) = ToSet(bus.remotes) \ {r}
      /\ \A n : Owner(b2, n) = IF Owner(bus, n) = r THEN None ELSE Owner(bus, n)
  BY <1>1, DisconnectTables
<1>4. own \in Seq(S) /\ Once(own)
  BY <1>1 DEF Tables, Shape
<1>5. \A n : n \in ToSet(own) <=> Owner(bus, n) = r
  BY <1>1, OwnerFacts
<1> HIDE DEF b2, own, S
<1>6. /\ msgs \in Seq(M) /\ (\A m \in M : Plain(m)) /\ Once(msgs) /\ Truthful(b2, msgs)
      /\ \A n \in ToSet(own) : Changed(n, None) \in ToSet(msgs)
  BY <1>3, <1>4, <1>5, LossFacts
<1> HIDE DEF msgs, M
<1>7. /\ E \in Seq(Parcels(Fixed)) /\ Once(E)
      /\ \A x \in ToSet(E) :
           /\ x.to \in Remotes /\ HaveHello(b2, x.to)
           /\ Carries(x, msgs)
  <2>1. E \in Seq(Parcels(Fixed)) /\ Once(E)
    BY <1>3, <1>6, EmitFacts
  <2>2. \A x \in ToSet(E) : x.to \in Remotes /\ HaveHello(b2, x.to)
    BY <1>3, <1>6, EmitFacts
  <2>3. \A x \in ToSet(E) : Carries(x, msgs)
    BY <1>3, <1>6, EmitFacts
  <2> QED BY <2>1, <2>2, <2>3
<1>8. \A y \in ToSet(msgs) : Plain(y) /\ FixHeaders(Bus, y).fields["sender"] = Bus
  <2> TAKE y \in ToSet(msgs)
  <2>1. Plain(y)
    BY <1>6 DEF ToSet
  <2>2. DOMAIN y = {"type", "fields", "bad", "body"}
    BY <2>1 DEF Plain, Message
  <2> QED BY <2>1, <2>2, HeaderFacts
<1> HIDE DEF E, Fixed
<1>9. Introduced'
  <2> SUFFICES ASSUME NEW i \in DOMAIN out'
               PROVE  LET x == out'[i]
                          sender == x.msg.fields["sender"]
                      IN  HaveHello(b2, x.to) /\ HaveHello(b2, sender)
    BY <1>2 DEF Introduced
  <2> DEFINE x == out'[i]
  <2>1. x \in ToSet(E)
    BY <1>2 DEF ToSet
  <2>2. HaveHello(b2, Bus)
    BY <1>3 DEF Tables
  <2> HIDE DEF x
  <2> QED BY <1>7, <1>8, <2>1, <2>2 DEF x, Carries
<1>10. AtMostOnce'
  BY <1>2, <1>7, OnceIsAtMostOnce
<1>11. /\ Viewed'
       /\ /\ ViewCurrent
          /\ \A q \in Remotes, n \in Names :
               Listening(bus', q, n) /\ Owner(bus', n) # Owner(bus, n) =>
                 \E x \in ToSet(out') : Tells(x, q, n)
          => ViewCurrent'
  <2>1. \A x \in ToSet(out') :
          x.msg.fields["sender"] = Bus => Carries(x, msgs)
    BY <1>2, <1>7
  <2>2. Tables(bus') /\ Truthful(bus', msgs) /\ out' \in Seq(Parcels(Fixed))
    BY <1>2, <1>3, <1>6, <1>7
  <2> QED BY <1>1, <1>2, <1>8, <2>1, <2>2, ObserveStep
<1>12. ASSUME Fragile = {}, NEW q \in Remotes, NEW n \in Names,
              Listening(bus', q, n), Owner(bus', n) # Owner(bus, n)
       PROVE  \E x \in ToSet(out') : Tells(x, q, n)
  <2>1. Changed(n, None) \in ToSet(msgs)
    BY <1>2, <1>3, <1>5, <1>6, <1>12
  <2>2. b2.broken = {}
    BY <1>3, <1>12 DEF Tables, Shape
  <2>3. PICK x \in ToSet(Emit(b2, msgs)) : Tells(x, q, n)
    BY <1>2, <1>3, <1>6, <1>12, <2>1, <2>2, AnnouncementIsHeard
  <2> QED BY <1>2, <2>3 DEF E
<1>13. Base'
  BY <1>2, <1>3, <1>11 DEF Base
<1> QED BY <1>9, <1>10, <1>11, <1>12, <1>13 DEF Kept

-----------------------------------------------------------------------------
(* The theorems *)

(* The initial state: the bus alone, with its unique name. *)
LEMMA InitBase ==
  Init => Base /\ Introduced /\ AtMostOnce /\ ViewCurrent /\ NoSilentLoss
<1> SUFFICES ASSUME Init PROVE Base /\ Introduced /\ AtMostOnce /\ ViewCurrent /\ NoSilentLoss
  OBVIOUS
<1>1. Bus \in Remotes /\ MaxRules \in Nat
  BY BusAssumption, RuleBoundAssumption
<1> DEFINE one == <<Bus>>
           none == <<>>
<1>2. /\ one \in Seq(Remotes) /\ one \in Seq(Names \cup Remotes) /\ ToSet(one) = {Bus} /\ Once(one)
      /\ none \in Seq(Names \cup Remotes) /\ none \in Seq(Rules) /\ ToSet(none) = {} /\ Once(none)
      /\ Len(none) = 0 /\ one # none
  BY <1>1 DEF ToSet, Once
<1>3. /\ bus = [remotes |-> one, services |-> [r \in Remotes |-> IF r = Bus THEN one ELSE none],
                matches |-> [r \in Remotes |-> none], broken |-> {}]
  BY DEF Init
<1> HIDE DEF one, none
<1>4. Shape(bus)
  <2> DEFINE T == Seq(Names \cup Remotes)
  <2>1. one \in T /\ none \in T
    BY <1>2
  <2> HIDE DEF T
  <2>2. [r \in Remotes |-> IF r = Bus THEN one ELSE none] \in [Remotes -> T]
    BY <2>1
  <2>3. [r \in Remotes |-> none] \in [Remotes -> Seq(Rules)]
    BY <1>2
  <2> QED BY <1>2, <1>3, <2>2, <2>3 DEF Shape, T
<1>5. /\ bus.remotes = one /\ bus.services[Bus] = one
      /\ \A r \in Remotes : bus.matches[r] = none /\ (r # Bus => bus.services[r] = none)
  BY <1>1, <1>3
<1>6. HaveHello(bus, Bus)
  BY <1>2, <1>5 DEF HaveHello
<1>7. \A r \in Remotes :
        /\ ToSet(bus.services[r]) \subseteq Names \cup {r}
        /\ Once(bus.services[r])
        /\ bus.services[r] # <<>> => HaveHello(bus, r) /\ r \in ToSet(bus.remotes)
        /\ bus.matches[r] # <<>> => HaveHello(bus, r)
        /\ Len(bus.matches[r]) <= MaxRules
  <2> TAKE r \in Remotes
  <2>1. CASE r = Bus
    BY <1>1, <1>2, <1>5, <1>6, <2>1
  <2>2. CASE r # Bus
    BY <1>1, <1>2, <1>5, <2>2 DEF none
  <2> QED BY <2>1, <2>2
<1>8. \A q, r \in Remotes :
        q # r => ToSet(bus.services[q]) \cap ToSet(bus.services[r]) = {}
  BY <1>2, <1>5
<1>9. Tables(bus)
  BY <1>2, <1>4, <1>5, <1>6, <1>7, <1>8 DEF Tables
<1>10. Viewed /\ ViewCurrent
  BY DEF Init, Viewed, ViewCurrent
<1>11. out = <<>> /\ sent = None /\ kicked = {}
  BY DEF Init
<1>12. Introduced /\ AtMostOnce /\ NoSilentLoss
  BY <1>11 DEF Introduced, AtMostOnce, NoSilentLoss, PeerSent
<1> QED BY <1>9, <1>10, <1>11, <1>12 DEF Base

(* Every action keeps the invariant. *)
LEMMA NextKeeps ==
  ASSUME Base, Next
  PROVE  Kept
<1>1. PICK r \in Remotes, wanted \in ReplyFlags :
        \/ Connect(r)
        \/ Reject(r)
        \/ \E m \in PeerMsgs : Send(r, m, wanted)
        \/ Hello(r, wanted)
        \/ HelloAgain(r, wanted)
        \/ \E n \in Names :
             \/ RequestName(r, n, wanted)
             \/ ReleaseName(r, n, wanted)
             \/ GetNameOwner(r, n, wanted) \/ NameHasOwner(r, n, wanted)
        \/ ListNames(r, wanted)
        \/ \E rule \in Rules : AddMatch(r, rule, wanted) \/ RemoveMatch(r, rule, wanted)
        \/ Disconnect(r)
        \/ Break(r)
  BY DEF Next
<1>2. CASE Connect(r) \/ Reject(r) \/ Disconnect(r) \/ Break(r)
  BY <1>2, ConnectStep, RejectStep, DisconnectStep, BreakStep
<1>3. CASE \E m \in PeerMsgs : Send(r, m, wanted)
  BY <1>3, SendStep
<1>4. CASE Hello(r, wanted) \/ HelloAgain(r, wanted) \/ ListNames(r, wanted)
  BY <1>4, HelloStep, HelloAgainStep, ListNamesStep
<1>5. CASE \E n \in Names : \/ RequestName(r, n, wanted)
                            \/ ReleaseName(r, n, wanted)
                            \/ GetNameOwner(r, n, wanted) \/ NameHasOwner(r, n, wanted)
  BY <1>5, RequestNameStep, ReleaseNameStep, GetNameOwnerStep, NameHasOwnerStep
<1>6. CASE \E rule \in Rules : AddMatch(r, rule, wanted) \/ RemoveMatch(r, rule, wanted)
  BY <1>6, AddMatchStep, RemoveMatchStep
<1> QED BY <1>1, <1>2, <1>3, <1>4, <1>5, <1>6

(* A step that changes nothing. *)
LEMMA StutterKeeps ==
  ASSUME Base, Introduced, AtMostOnce, UNCHANGED vars
  PROVE  Kept
<1>1. bus' = bus /\ kicked' = kicked /\ out' = out /\ view' = view
  BY DEF vars
<1>2. Base'
  BY <1>1 DEF Base, Viewed
<1>3. Introduced' /\ AtMostOnce'
  BY <1>1 DEF Introduced, AtMostOnce
<1>4. ViewCurrent => ViewCurrent'
  BY <1>1 DEF ViewCurrent
<1> QED BY <1>2, <1>3, <1>4 DEF Kept

(* The invariant has the types and the bounds of TypeOK. *)
LEMMA BaseTypes == Base => TypeOK
<1> SUFFICES ASSUME Base PROVE TypeOK
  OBVIOUS
<1>1. Tables(bus) /\ Shape(bus)
  BY DEF Base, Tables
<1>2. ToSet(bus.remotes) \subseteq Remotes
  BY <1>1 DEF Shape, ToSet
<1>3. \A r \in Remotes : ToSet(bus.matches[r]) \subseteq Rules
  <2> TAKE r \in Remotes
  <2>1. bus.matches[r] \in Seq(Rules)
    BY <1>1 DEF Shape
  <2> QED BY <2>1 DEF ToSet
<1>4. bus.broken \subseteq Fragile
  BY <1>1 DEF Shape
<1> QED BY <1>1, <1>2, <1>3, <1>4 DEF TypeOK, Tables, Base, Viewed

(***************************************************************************)
(* The tables of the server keep their types and every name has one owner  *)
(* at most; a message goes only to remotes that have said hello and comes  *)
(* only from such remotes, the hello itself excepted; and nobody gets a    *)
(* message twice, whatever rules match (adbusI_serv_dispatch, DispatchMsg, *)
(* the methods of server-bus.c, adbus_remote_disconnect).  For all sets of *)
(* remotes, names, rules and messages, and with any sends failing.         *)
(***************************************************************************)
THEOREM TrafficIsSound == Spec => []TrafficSound
<1> DEFINE Inv == Base /\ Introduced /\ AtMostOnce
<1>1. Init => Inv
  BY InitBase
<1>2. Inv /\ [Next]_vars => Inv'
  BY NextKeeps, StutterKeeps DEF Kept
<1>3. Inv => TrafficSound
  BY BaseTypes DEF TrafficSound
<1> QED BY <1>1, <1>2, <1>3, PTL DEF Spec

(***************************************************************************)
(* As long as no send callback fails (failures of the bus's own signals    *)
(* are not looked at), a remote that follows a name and has been told its  *)
(* owner once is never wrong about it afterwards.                          *)
(***************************************************************************)
THEOREM FollowersStayCurrent ==
  ASSUME Fragile = {}
  PROVE  Spec => []ViewCurrent
<1> DEFINE Inv == Base /\ Introduced /\ AtMostOnce /\ ViewCurrent
<1>1. Init => Inv
  BY InitBase
<1>2. Inv /\ [Next]_vars => Inv'
  BY NextKeeps, StutterKeeps DEF Kept
<1> QED BY <1>1, <1>2, PTL DEF Spec

-----------------------------------------------------------------------------
(* No silent loss *)

(* A call of a bus method is none of the clients' other messages, with whatever sender
   they wrote into it. *)
LEMMA CallsAreNotPeerMessages ==
  ASSUME NEW r, NEW member \in BusMethods, NEW m \in PeerMsgs
  PROVE  FixHeaders(r, BusCall(member)) # FixHeaders(r, m)
<1> DEFINE call == BusCall(member)
           x == FixHeaders(r, call)
           y == FixHeaders(r, m)
<1>1. SUFFICES ASSUME x = y PROVE FALSE
  OBVIOUS
<1>2. /\ DOMAIN call = {"type", "fields", "bad", "body"}
      /\ call.type = "method"
      /\ DOMAIN call.fields = {"member", "destination"}
      /\ call.fields["member"] = member /\ call.fields["destination"] = Bus
  BY CallFacts
<1>3. DOMAIN m = {"type", "fields", "bad", "body"}
  BY PeerAssumption
<1> HIDE DEF call, x, y
<1>4. /\ x.type = "method" /\ x.fields["member"] = member /\ x.fields["destination"] = Bus
      /\ DOMAIN x.fields = {"member", "destination", "sender"}
  BY <1>2, HeaderFacts DEF x
<1>5. /\ y.type = m.type /\ DOMAIN y.fields = DOMAIN m.fields \cup {"sender"}
      /\ \A f \in DOMAIN m.fields : f # "sender" => y.fields[f] = m.fields[f]
  BY <1>3, HeaderFacts DEF y
<1>6. /\ m.type = "method" /\ "member" \in DOMAIN m.fields /\ m.fields["member"] = member
      /\ "destination" \in DOMAIN m.fields /\ m.fields["destination"] = Bus
  BY <1>1, <1>4, <1>5
<1> QED BY <1>6, PeerAssumption

(* Bus methods do not make PeerSent true. *)
LEMMA CallIsNotPeerSent ==
  ASSUME NEW r, NEW member \in BusMethods, NEW b2, NEW msgs, Handle(r, BusCall(member), b2, msgs)
  PROVE  NoSilentLoss'
<1>1. sent' = [from |-> r, msg |-> FixHeaders(r, BusCall(member))]
  BY DEF Handle
<1>2. ~PeerSent'
  BY <1>1, CallsAreNotPeerMessages DEF PeerSent
<1> QED BY <1>2 DEF NoSilentLoss

(* The message of a client reaches all it is due to, unless dispatch fails. *)
LEMMA SendLosesNothing ==
  ASSUME Base, NEW r \in Remotes, NEW call \in PeerMsgs, NEW wanted, Send(r, call, wanted)
  PROVE  NoSilentLoss'
<1> DEFINE m == FixHeaders(r, call)
           ok == serv_dispatch(bus, m).ok
           D == Delivered(bus, m)
<1>1. /\ bus' = bus
      /\ kicked' = IF ok THEN kicked ELSE kicked \cup {r}
      /\ sent' = [from |-> r, msg |-> m]
  BY DEF Send, Handle
<1>2. sent'.from = r /\ sent'.msg = m
  BY <1>1
<1>3. ToSet(D) \subseteq ToSet(out')
  BY SendStep
<1>4. CASE ~ok
  BY <1>1, <1>2, <1>4 DEF NoSilentLoss
<1>5. CASE ok
  <2>1. ASSUME NEW q \in Due(bus, m)
        PROVE  \E i \in DOMAIN out' : out'[i].to = q /\ out'[i].msg = m
    <3>1. q \in ToSet(bus.remotes) /\ Tables(bus)
      BY DEF Due, Base
    <3>2. q \in Remotes
      BY <3>1 DEF Tables, Shape, ToSet
    <3>3. q = Target(bus, m) \/ RemoteDispatchMatch(bus, q, m) # "none"
      BY <3>1, <3>2, MatchFinds DEF Due
    <3>4. q \in Reached(bus, m)
      BY <1>5, <3>1, <3>3, DispatchFacts DEF Reached
    <3>5. [to |-> q, msg |-> m] \in ToSet(D)
      BY <3>1, <3>4, DeliveredFacts
    <3> HIDE DEF m, D
    <3>6. PICK i \in DOMAIN out' : out'[i] = [to |-> q, msg |-> m]
      BY <1>3, <3>5 DEF ToSet
    <3> QED BY <3>6
  <2>2. Due(bus, m)' = Due(bus, m)
    BY <1>1 DEF Due, Target, Owner
  <2> QED BY <1>2, <2>1, <2>2 DEF NoSilentLoss, Got
<1> QED BY <1>4, <1>5

(***************************************************************************)
(* Whatever a client sends reaches everyone it is addressed to and everyone*)
(* with a rule for it, or dispatch fails and the client is dropped: no     *)
(* message is lost silently, whichever sends fail (adbusI_serv_dispatch).  *)
(***************************************************************************)
THEOREM NothingIsLostSilently == Spec => []NoSilentLoss
<1> DEFINE Inv == Base /\ Introduced /\ AtMostOnce /\ NoSilentLoss
<1>1. Init => Inv
  BY InitBase
<1>2. ASSUME Inv, [Next]_vars PROVE Inv'
  <2>1. Base' /\ Introduced' /\ AtMostOnce'
    BY <1>2, NextKeeps, StutterKeeps DEF Kept
  <2>2. NoSilentLoss'
    <3>1. CASE UNCHANGED vars
      <4>1. bus' = bus /\ sent' = sent /\ kicked' = kicked /\ out' = out
        BY <3>1 DEF vars
      <4>2. NoSilentLoss
        BY <1>2
      <4> QED BY <4>1, <4>2 DEF NoSilentLoss, PeerSent, Got
    <3>2. CASE Next
      <4>1. PICK r \in Remotes, wanted \in ReplyFlags :
              \/ Connect(r) \/ Reject(r) \/ Disconnect(r) \/ Break(r)
              \/ \E m \in PeerMsgs : Send(r, m, wanted)
              \/ Hello(r, wanted) \/ HelloAgain(r, wanted) \/ ListNames(r, wanted)
              \/ \E n \in Names :
                   \/ RequestName(r, n, wanted)
                   \/ ReleaseName(r, n, wanted)
                   \/ GetNameOwner(r, n, wanted) \/ NameHasOwner(r, n, wanted)
              \/ \E rule \in Rules : AddMatch(r, rule, wanted) \/ RemoveMatch(r, rule, wanted)
        BY <3>2 DEF Next
      <4>2. CASE Connect(r) \/ Reject(r) \/ Disconnect(r) \/ Break(r)
        <5>1. sent' = None
          BY <4>2 DEF Connect, Reject, Disconnect, Break
        <5> QED BY <5>1 DEF NoSilentLoss, PeerSent
      <4>3. CASE \E m \in PeerMsgs : Send(r, m, wanted)
        BY <1>2, <4>3, SendLosesNothing
      <4>4. CASE Hello(r, wanted) \/ HelloAgain(r, wanted) \/ ListNames(r, wanted)
        <5>1. \E member \in BusMethods : \E b2, msgs : Handle(r, BusCall(member), b2, msgs)
          BY <4>4 DEF Hello, HelloAgain, ListNames, BusMethods
        <5> QED BY <5>1, CallIsNotPeerSent
      <4>5. CASE \E n \in Names : \/ RequestName(r, n, wanted)
                                  \/ ReleaseName(r, n, wanted)
                                  \/ GetNameOwner(r, n, wanted) \/ NameHasOwner(r, n, wanted)
        <5>1. \E member \in BusMethods : \E b2, msgs : Handle(r, BusCall(member), b2, msgs)
          BY <4>5 DEF RequestName, ReleaseName, GetNameOwner, NameHasOwner, BusMethods
        <5> QED BY <5>1, CallIsNotPeerSent
      <4>6. CASE \E rule \in Rules : AddMatch(r, rule, wanted) \/ RemoveMatch(r, rule, wanted)
        <5>1. \E member \in BusMethods : \E b2, msgs : Handle(r, BusCall(member), b2, msgs)
          BY <4>6 DEF AddMatch, RemoveMatch, BusMethods
        <5> QED BY <5>1, CallIsNotPeerSent
      <4> QED BY <4>1, <4>2, <4>3, <4>4, <4>5, <4>6
    <3> QED BY <1>2, <3>1, <3>2
  <2> QED BY <1>2, <2>1, <2>2
<1>3. Inv /\ [Next]_vars => Inv'
  BY <1>2
<1> QED BY <1>1, <1>3, PTL DEF Spec
=============================================================================
