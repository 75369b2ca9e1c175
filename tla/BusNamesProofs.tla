--------------------------- MODULE BusNamesProofs ---------------------------
EXTENDS BusNames, TLAPS, SequenceTheorems

(* A sequence without repetitions. *)
NoDup(s) == \A i, j \in DOMAIN s : s[i] = s[j] => i = j

(* RemoveFirst on a sequence without repetitions takes out exactly one
   position. *)
LEMMA RemoveFirstAt ==
  ASSUME NEW S, NEW s \in Seq(S), NoDup(s), NEW k \in 1..Len(s)
  PROVE  RemoveFirst(s, s[k]) = RemoveAt(s, k)
<1>1. {i \in 1..Len(s) : s[i] = s[k]} = {k}
  BY DEF NoDup
<1>2. Min({k}) = k
  BY DEF Min
<1>3. SelectInSeq(s, LAMBDA v : v = s[k]) = k
  BY <1>1, <1>2 DEF SelectInSeq
<1>4. QED
  BY <1>3 DEF RemoveFirst

(* Removing one position of a sequence without duplicates drops exactly the
   element there, and no duplicate appears (dv_remove). *)
LEMMA RemoveAtProperties ==
  ASSUME NEW S, NEW s \in Seq(S), NEW k \in 1..Len(s)
  PROVE  /\ RemoveAt(s, k) \in Seq(S)
         /\ Len(RemoveAt(s, k)) = Len(s) - 1
         /\ \A i \in 1..(Len(s) - 1) :
              RemoveAt(s, k)[i] = IF i < k THEN s[i] ELSE s[i + 1]
<1> DEFINE a == SubSeq(s, 1, k - 1)
           b == SubSeq(s, k + 1, Len(s))
<1>1. /\ a \in Seq(S)
      /\ Len(a) = k - 1
      /\ \A i \in 1..(k - 1) : a[i] = s[i]
  BY SubSeqProperties
<1>2. /\ b \in Seq(S)
      /\ Len(b) = Len(s) - k
      /\ \A i \in 1..(Len(s) - k) : b[i] = s[i + k]
  BY SubSeqProperties
<1> HIDE DEF a, b
<1>3. /\ a \o b \in Seq(S)
      /\ Len(a \o b) = Len(s) - 1
      /\ \A i \in 1..(Len(s) - 1) :
           (a \o b)[i] = IF i <= k - 1 THEN a[i] ELSE b[i - (k - 1)]
  BY <1>1, <1>2, ConcatProperties
<1>4. \A i \in 1..(Len(s) - 1) : (a \o b)[i] = IF i < k THEN s[i] ELSE s[i + 1]
  BY <1>1, <1>2, <1>3
<1>5. QED
  BY <1>3, <1>4 DEF RemoveAt, a, b

(* RemoveFirst, the loop of removeServiceFromRemote: the element is gone, the
   others stay, and no duplicate appears. *)
LEMMA RemoveFirstProperties ==
  ASSUME NEW S, NEW s \in Seq(S), NoDup(s), NEW e
  PROVE  /\ RemoveFirst(s, e) \in Seq(S)
         /\ NoDup(RemoveFirst(s, e))
         /\ \A i \in DOMAIN RemoveFirst(s, e) :
              RemoveFirst(s, e)[i] # e /\ \E j \in DOMAIN s : RemoveFirst(s, e)[i] = s[j]
         /\ \A j \in DOMAIN s :
              s[j] # e => \E i \in DOMAIN RemoveFirst(s, e) : RemoveFirst(s, e)[i] = s[j]
<1>1. CASE \A i \in 1..Len(s) : s[i] # e
  <2>1. RemoveFirst(s, e) = s
    BY <1>1 DEF RemoveFirst
  <2>2. QED
    BY <1>1, <2>1
<1>2. CASE \E i \in 1..Len(s) : s[i] = e
  <2>1. PICK k \in 1..Len(s) : s[k] = e
    BY <1>2
  <2> DEFINE t == RemoveAt(s, k)
  <2>2. RemoveFirst(s, e) = t
    BY <2>1, RemoveFirstAt
  <2>3. /\ t \in Seq(S)
        /\ Len(t) = Len(s) - 1
        /\ \A i \in 1..(Len(s) - 1) : t[i] = IF i < k THEN s[i] ELSE s[i + 1]
    BY RemoveAtProperties
  <2> HIDE DEF t
  <2>4. DOMAIN t = 1..(Len(s) - 1) /\ DOMAIN s = 1..Len(s) /\ Len(s) \in Nat
    BY <2>3
  <2>5. NoDup(t)
    <3> SUFFICES ASSUME NEW i \in DOMAIN t, NEW j \in DOMAIN t, t[i] = t[j]
                 PROVE  i = j
      BY DEF NoDup
    <3> DEFINE At(x) == IF x < k THEN x ELSE x + 1
    <3>1. At(i) \in DOMAIN s /\ At(j) \in DOMAIN s
      BY <2>4
    <3>2. t[i] = s[At(i)] /\ t[j] = s[At(j)]
      BY <2>3, <2>4
    <3>3. At(i) = At(j)
      <4> HIDE DEF At
      <4> QED
        BY <3>1, <3>2 DEF NoDup
    <3>4. QED
      BY <3>3, <2>4
  <2>6. \A i \in DOMAIN t : t[i] # e /\ \E j \in DOMAIN s : t[i] = s[j]
    <3> SUFFICES ASSUME NEW i \in DOMAIN t
                 PROVE  t[i] # e /\ \E j \in DOMAIN s : t[i] = s[j]
      OBVIOUS
    <3>1. CASE i < k
      BY <3>1, <2>1, <2>3, <2>4 DEF NoDup
    <3>2. CASE ~(i < k)
      <4>1. t[i] = s[i + 1] /\ i + 1 \in DOMAIN s /\ i + 1 # k
        BY <3>2, <2>3, <2>4
      <4>2. QED
        BY <4>1, <2>1, <2>4 DEF NoDup
    <3>3. QED
      BY <3>1, <3>2
  <2>7. \A j \in DOMAIN s : s[j] # e => \E i \in DOMAIN t : t[i] = s[j]
    <3> SUFFICES ASSUME NEW j \in DOMAIN s, s[j] # e
                 PROVE  \E i \in DOMAIN t : t[i] = s[j]
      OBVIOUS
    <3>1. CASE j < k
      <4>1. j \in DOMAIN t /\ t[j] = s[j]
        BY <3>1, <2>3, <2>4
      <4>2. QED
        BY <4>1
    <3>2. CASE j > k
      <4>1. j - 1 \in DOMAIN t /\ t[j - 1] = s[j]
        BY <3>2, <2>3, <2>4
      <4>2. QED
        BY <4>1
    <3>3. QED
      BY <3>1, <3>2, <2>1, <2>4
  <2>8. QED
    BY <2>2, <2>3, <2>5, <2>6, <2>7
<1>3. QED
  BY <1>1, <1>2

-----------------------------------------------------------------------------
(***************************************************************************)
(* The inductive invariant, for the registry alone.                        *)
(***************************************************************************)
HashOK(g) == \A n \in Services : n \in g.hash <=> g.queue[n] # <<>>

LinksOK(g) ==
  \A r \in Remotes :
    /\ NoDup(g.services[r])
    /\ \A i \in DOMAIN g.services[r] : r \in Queued(g, g.services[r][i])

SeenOK(g) ==
  \A n \in Services : g.seen[n] = IF n \in g.hash THEN Head1(g, n) ELSE None

RegOK(g) == g \in Registry /\ HashOK(g) /\ LinksOK(g) /\ SeenOK(g)

(* g and h differ at most in what they record about signals. *)
SameBut(g, h) ==
  /\ h.hash = g.hash
  /\ h.queue = g.queue
  /\ h.services = g.services
  /\ h.haveHello = g.haveHello

(***************************************************************************)
(* A registry stays one when fields are replaced by values of their type.  *)
(***************************************************************************)
(* Updates of one or two fields of the registry keep its type: hash. *)
LEMMA SetHash ==
  ASSUME NEW g \in Registry, NEW x \in SUBSET Services
  PROVE  [g EXCEPT !.hash = x] \in Registry
BY DEF Registry

(* The same for one queue. *)
LEMMA SetQueue ==
  ASSUME NEW g \in Registry, NEW x \in [Services -> Seq(ServiceOwner)]
  PROVE  [g EXCEPT !.queue = x] \in Registry
BY DEF Registry

(* The same for one list of services. *)
LEMMA SetServices ==
  ASSUME NEW g \in Registry, NEW x \in [Remotes -> Seq(Services)]
  PROVE  [g EXCEPT !.services = x] \in Registry
BY DEF Registry

(* The same for haveHello. *)
LEMMA SetHello ==
  ASSUME NEW g \in Registry, NEW x \in [Remotes -> BOOLEAN]
  PROVE  [g EXCEPT !.haveHello = x] \in Registry
BY DEF Registry

(* The same for what the listeners of NameOwnerChanged believe. *)
LEMMA SetSeen ==
  ASSUME NEW g \in Registry, NEW x \in [Services -> Remotes \cup {None}]
  PROVE  [g EXCEPT !.seen = x] \in Registry
BY DEF Registry

(* The same for what one remote believes to hold. *)
LEMMA SetHeld ==
  ASSUME NEW g \in Registry, NEW x \in [Remotes -> SUBSET Services]
  PROVE  [g EXCEPT !.held = x] \in Registry
BY DEF Registry

(* The same for a list of services and a queue. *)
LEMMA SetServicesQueue ==
  ASSUME NEW g \in Registry, NEW x \in [Remotes -> Seq(Services)],
         NEW y \in [Services -> Seq(ServiceOwner)]
  PROVE  [g EXCEPT !.services = x, !.queue = y] \in Registry
BY DEF Registry

(* The same for the fields that the free of a remote resets. *)
LEMMA SetHelloHeld ==
  ASSUME NEW g \in Registry, NEW x \in [Remotes -> BOOLEAN],
         NEW y \in [Remotes -> SUBSET Services]
  PROVE  [g EXCEPT !.haveHello = x, !.held = y] \in Registry
BY DEF Registry

(* The same for the hash and all queues, as adbus_serv_free leaves them. *)
LEMMA SetHashQueue ==
  ASSUME NEW g \in Registry, NEW x \in SUBSET Services,
         NEW y \in [Services -> Seq(ServiceOwner)]
  PROVE  [g EXCEPT !.hash = x, !.queue = y] \in Registry
BY DEF Registry

(* The head of a queue that is not empty is a remote (adbusI_serv_remote). *)
LEMMA HeadIsRemote ==
  ASSUME NEW g \in Registry, NEW n \in Services, g.queue[n] # <<>>
  PROVE  Head1(g, n) \in Remotes
<1>1. g.queue[n] \in Seq(ServiceOwner)
  BY DEF Registry
<1>2. g.queue[n][1] \in ServiceOwner
  BY <1>1
<1>3. QED
  BY <1>2 DEF Head1, ServiceOwner

(* NameLost only touches the record of what its receiver holds. *)
LEMMA LostFields ==
  ASSUME NEW g \in Registry, NEW o \in Remotes \cup {None}, NEW n \in Services
  PROVE  /\ Lost(g, o, n) \in Registry
         /\ SameBut(g, Lost(g, o, n))
         /\ Lost(g, o, n).seen = g.seen
<1>1. CASE o = None \/ Direct(g, o) = None
  BY <1>1 DEF Lost, SameBut
<1>2. CASE ~(o = None \/ Direct(g, o) = None)
  <2>1. Direct(g, o) \in Remotes
    BY <1>2, HeadIsRemote DEF Direct, Services
  <2>2. Lost(g, o, n) = [g EXCEPT !.held[Direct(g, o)] = @ \ {n}]
    BY <1>2 DEF Lost
  <2>3. g.held \in [Remotes -> SUBSET Services]
    BY DEF Registry
  <2>4. [g.held EXCEPT ![Direct(g, o)] = @ \ {n}] \in [Remotes -> SUBSET Services]
    BY <2>1, <2>3
  <2>5. Lost(g, o, n) \in Registry
    BY <2>2, <2>4, SetHeld
  <2>6. SameBut(g, Lost(g, o, n)) /\ Lost(g, o, n).seen = g.seen
    BY <2>2, Zenon DEF SameBut, Registry
  <2>7. QED
    BY <2>5, <2>6
<1>3. QED
  BY <1>1, <1>2

(* NameAcquired only touches the record of what its receiver holds. *)
LEMMA AcquiredFields ==
  ASSUME NEW g \in Registry, NEW o \in Remotes \cup {None}, NEW n \in Services
  PROVE  /\ Acquired(g, o, n) \in Registry
         /\ SameBut(g, Acquired(g, o, n))
         /\ Acquired(g, o, n).seen = g.seen
<1>1. CASE o = None \/ Direct(g, o) = None
  BY <1>1 DEF Acquired, SameBut
<1>2. CASE ~(o = None \/ Direct(g, o) = None)
  <2>1. Direct(g, o) \in Remotes
    BY <1>2, HeadIsRemote DEF Direct, Services
  <2>2. Acquired(g, o, n) = [g EXCEPT !.held[Direct(g, o)] = @ \cup {n}]
    BY <1>2 DEF Acquired
  <2>3. g.held \in [Remotes -> SUBSET Services]
    BY DEF Registry
  <2>4. [g.held EXCEPT ![Direct(g, o)] = @ \cup {n}] \in [Remotes -> SUBSET Services]
    BY <2>1, <2>3
  <2>5. Acquired(g, o, n) \in Registry
    BY <2>2, <2>4, SetHeld
  <2>6. SameBut(g, Acquired(g, o, n)) /\ Acquired(g, o, n).seen = g.seen
    BY <2>2, Zenon DEF SameBut, Registry
  <2>7. QED
    BY <2>5, <2>6
<1>3. QED
  BY <1>1, <1>2

(* ownerchanged touches the record of the signals and nothing else. *)
LEMMA OwnerChangedFields ==
  ASSUME NEW g \in Registry, NEW n \in Services,
         NEW old \in Remotes \cup {None}, NEW new \in Remotes \cup {None}
  PROVE  /\ ownerchanged(g, n, old, new) \in Registry
         /\ SameBut(g, ownerchanged(g, n, old, new))
         /\ ownerchanged(g, n, old, new).seen = [g.seen EXCEPT ![n] = new]
<1> DEFINE g1 == [g EXCEPT !.seen[n] = new]
           oldowner == IF old # None /\ g.haveHello[old] THEN old ELSE None
           g2 == Lost(g1, oldowner, n)
<1>1. g1 \in Registry /\ SameBut(g, g1) /\ g1.seen = [g.seen EXCEPT ![n] = new]
  <2>1. g.seen \in [Services -> Remotes \cup {None}]
    BY DEF Registry
  <2>2. [g.seen EXCEPT ![n] = new] \in [Services -> Remotes \cup {None}]
    BY <2>1
  <2>3. g1 \in Registry
    BY <2>2, SetSeen
  <2>4. SameBut(g, g1) /\ g1.seen = [g.seen EXCEPT ![n] = new]
    BY Zenon DEF SameBut, Registry
  <2>5. QED
    BY <2>3, <2>4
<1>2. oldowner \in Remotes \cup {None}
  OBVIOUS
<1> HIDE DEF g1, oldowner
<1>3. g2 \in Registry /\ SameBut(g1, g2) /\ g2.seen = g1.seen
  BY <1>1, <1>2, LostFields
<1> HIDE DEF g2
<1>4. /\ Acquired(g2, new, n) \in Registry
      /\ SameBut(g2, Acquired(g2, new, n))
      /\ Acquired(g2, new, n).seen = g2.seen
  BY <1>3, AcquiredFields
<1>5. ownerchanged(g, n, old, new) = Acquired(g2, new, n)
  BY DEF ownerchanged, g1, g2, oldowner
<1>6. QED
  BY <1>1, <1>3, <1>4, <1>5 DEF SameBut

-----------------------------------------------------------------------------
(* r does not list n. *)
Unlisted(g, r, n) == \A i \in DOMAIN g.services[r] : g.services[r][i] # n

(* Nobody but r starts to list a service. *)
OthersShrink(g, h, r) ==
  \A x \in Remotes \ {r} : g.services[x] = <<>> => h.services[x] = <<>>

(* removeServiceFromRemote keeps the registry sound, and the service leaves the
   list. *)
LEMMA RemoveServiceOK ==
  ASSUME NEW g, RegOK(g), NEW r \in Remotes, NEW n \in Services
  PROVE  LET h == removeServiceFromRemote(g, r, n)
         IN  /\ RegOK(h)
             /\ h.hash = g.hash /\ h.queue = g.queue
             /\ Unlisted(h, r, n)
             /\ \A x \in Remotes : g.services[x] = <<>> => h.services[x] = <<>>
             /\ \A x \in Remotes \ {r} : h.services[x] = g.services[x]
<1> DEFINE h == removeServiceFromRemote(g, r, n)
           t == RemoveFirst(g.services[r], n)
<1>1. g \in Registry /\ HashOK(g) /\ LinksOK(g) /\ SeenOK(g)
  BY DEF RegOK
<1>2. g.services \in [Remotes -> Seq(Services)]
  BY <1>1 DEF Registry
<1>3. NoDup(g.services[r])
  BY <1>1 DEF LinksOK
<1>4. /\ t \in Seq(Services)
      /\ NoDup(t)
      /\ \A i \in DOMAIN t : t[i] # n /\ \E j \in DOMAIN g.services[r] : t[i] = g.services[r][j]
  BY <1>2, <1>3, RemoveFirstProperties
<1>5. g.services[r] = <<>> => t = <<>>
  BY DEF RemoveFirst
<1> HIDE DEF t
<1>6. h = [g EXCEPT !.services = [g.services EXCEPT ![r] = t]]
  BY DEF removeServiceFromRemote, t
<1>7. /\ h.hash = g.hash /\ h.queue = g.queue /\ h.seen = g.seen
      /\ h.services = [g.services EXCEPT ![r] = t]
  BY <1>1, <1>6, Zenon DEF Registry
<1>8. h \in Registry
  <2>1. [g.services EXCEPT ![r] = t] \in [Remotes -> Seq(Services)]
    BY <1>2, <1>4
  <2>2. QED
    BY <1>1, <1>6, <2>1, SetServices
<1> HIDE DEF h
<1>9. h.services[r] = t /\ \A x \in Remotes \ {r} : h.services[x] = g.services[x]
  BY <1>2, <1>7
<1>10. \A m : Queued(h, m) = Queued(g, m)
  BY <1>7 DEF Queued
<1>11. LinksOK(h)
  <2> SUFFICES ASSUME NEW x \in Remotes
               PROVE  /\ NoDup(h.services[x])
                      /\ \A i \in DOMAIN h.services[x] : x \in Queued(h, h.services[x][i])
    BY DEF LinksOK
  <2>1. CASE x = r
    BY <2>1, <1>1, <1>4, <1>9, <1>10 DEF LinksOK
  <2>2. CASE x # r
    BY <2>2, <1>1, <1>9, <1>10 DEF LinksOK
  <2>3. QED
    BY <2>1, <2>2
<1>12. HashOK(h) /\ SeenOK(h)
  BY <1>1, <1>7 DEF HashOK, SeenOK, Head1
<1>13. Unlisted(h, r, n)
  BY <1>4, <1>9 DEF Unlisted
<1>14. \A x \in Remotes : g.services[x] = <<>> => h.services[x] = <<>>
  BY <1>5, <1>9
<1>15. QED
  BY <1>7, <1>8, <1>9, <1>11, <1>12, <1>13, <1>14 DEF RegOK, h

(* The head of a queue is in the queue, and who is behind it is in its tail. *)
LEMMA QueueTail ==
  ASSUME NEW g \in Registry, NEW n \in Services, g.queue[n] # <<>>
  PROVE  /\ Head1(g, n) \in Queued(g, n)
         /\ Tail(g.queue[n]) \in Seq(ServiceOwner)
         /\ \A x \in Queued(g, n) :
              x # Head1(g, n) =>
                \E i \in DOMAIN Tail(g.queue[n]) : Tail(g.queue[n])[i].remote = x
<1> DEFINE q == g.queue[n]
<1>1. q \in Seq(ServiceOwner) /\ q # <<>>
  BY DEF Registry
<1> HIDE DEF q
<1>2. /\ Tail(q) \in Seq(ServiceOwner)
      /\ Len(Tail(q)) = Len(q) - 1
      /\ \A i \in 1..(Len(q) - 1) : Tail(q)[i] = q[i + 1]
  BY <1>1
<1>3. DOMAIN q = 1..Len(q) /\ DOMAIN Tail(q) = 1..(Len(q) - 1) /\ Len(q) \in Nat \ {0}
  BY <1>1, <1>2
<1>4. ASSUME NEW i \in DOMAIN q, q[i].remote # q[1].remote
      PROVE  \E j \in DOMAIN Tail(q) : Tail(q)[j].remote = q[i].remote
  <2>1. i # 1
    BY <1>4
  <2>2. i - 1 \in DOMAIN Tail(q) /\ Tail(q)[i - 1] = q[i]
    BY <2>1, <1>2, <1>3
  <2>3. QED
    BY <2>2
<1>5. 1 \in DOMAIN q
  BY <1>3
<1>6. QED
  BY <1>2, <1>4, <1>5 DEF Queued, Head1, q

(* The remotes of a sequence of queue entries. *)
Members(q) == {q[i].remote : i \in DOMAIN q}

(***************************************************************************)
(* Every branch of releasename and requestname settles one service n: it   *)
(* gives n a new queue q, and the hash, the signals and the lists of the   *)
(* remotes have to follow.                                                 *)
(***************************************************************************)
Settled(g, h, n, q) ==
  /\ h.queue = [g.queue EXCEPT ![n] = q]
  /\ h.hash = IF q = <<>> THEN g.hash \ {n} ELSE g.hash \cup {n}
  /\ h.seen[n] = IF q = <<>> THEN None ELSE q[1].remote
  /\ \A m \in Services \ {n} : h.seen[m] = g.seen[m]
  /\ \A x \in Remotes :
       /\ NoDup(h.services[x])
       /\ \A i \in DOMAIN h.services[x] :
            IF h.services[x][i] = n THEN x \in Members(q)
            ELSE \E j \in DOMAIN g.services[x] : g.services[x][j] = h.services[x][i]

(* A registry that differs from a sound one only in the record of signals and in
   one service is sound when that service is. *)
LEMMA Settle ==
  ASSUME NEW g, RegOK(g), NEW h \in Registry, NEW n \in Services,
         NEW q \in Seq(ServiceOwner), Settled(g, h, n, q)
  PROVE  RegOK(h)
<1> USE DEF Settled
<1>1. g \in Registry /\ HashOK(g) /\ LinksOK(g) /\ SeenOK(g)
  BY DEF RegOK
<1>2. /\ g.queue \in [Services -> Seq(ServiceOwner)]
      /\ h.services \in [Remotes -> Seq(Services)]
  BY <1>1 DEF Registry
<1>3. h.queue[n] = q /\ \A m \in Services \ {n} : h.queue[m] = g.queue[m]
  BY <1>2
<1>4. Queued(h, n) = Members(q)
  BY <1>3 DEF Queued, Members
<1>5. \A m \in Services \ {n} : Queued(h, m) = Queued(g, m)
  BY <1>3 DEF Queued
<1>6. HashOK(h)
  BY <1>1, <1>3 DEF HashOK
<1>7. SeenOK(h)
  BY <1>1, <1>3 DEF SeenOK, Head1
<1>8. LinksOK(h)
  <2> SUFFICES ASSUME NEW x \in Remotes, NEW i \in DOMAIN h.services[x]
               PROVE  x \in Queued(h, h.services[x][i])
    BY DEF LinksOK
  <2> DEFINE m == h.services[x][i]
  <2>1. m \in Services
    BY <1>2
  <2>2. CASE m = n
    BY <2>2, <1>4
  <2>3. CASE m # n
    BY <2>1, <2>3, <1>1, <1>5 DEF LinksOK
  <2>4. QED
    BY <2>2, <2>3
<1>9. QED
  BY <1>6, <1>7, <1>8 DEF RegOK

(* The owner branch of releasename keeps the registry sound, provided that the
   service has left the list of its owner. *)
LEMMA ReleaseOwnedOK ==
  ASSUME NEW g, RegOK(g), NEW r \in Remotes, NEW n \in g.hash,
         Head1(g, n) = r, Unlisted(g, r, n)
  PROVE  /\ RegOK(releaseOwned(g, r, n))
         /\ releaseOwned(g, r, n).services = g.services
<1> DEFINE q == Tail(g.queue[n])
           g1 == [g EXCEPT !.queue = [g.queue EXCEPT ![n] = q]]
           h == releaseOwned(g, r, n)
<1>1. g \in Registry /\ HashOK(g) /\ LinksOK(g) /\ SeenOK(g)
  BY DEF RegOK
<1>2. n \in Services /\ g.hash \in SUBSET Services
  BY <1>1 DEF Registry
<1>3. g.queue[n] # <<>>
  BY <1>1, <1>2 DEF HashOK
<1>4. /\ q \in Seq(ServiceOwner)
      /\ \A x \in Queued(g, n) : x # r => x \in Members(q)
  BY <1>1, <1>2, <1>3, QueueTail DEF Members
<1>5. /\ g.queue \in [Services -> Seq(ServiceOwner)]
      /\ g.seen \in [Services -> Remotes \cup {None}]
      /\ g.services \in [Remotes -> Seq(Services)]
  BY <1>1 DEF Registry
<1> HIDE DEF q
<1>6. [g.queue EXCEPT ![n] = q] \in [Services -> Seq(ServiceOwner)]
  BY <1>4, <1>5
<1>7. g1 \in Registry
  BY <1>1, <1>6, SetQueue
<1>8. /\ g1.hash = g.hash /\ g1.services = g.services /\ g1.seen = g.seen
      /\ g1.queue = [g.queue EXCEPT ![n] = q]
  BY <1>1, Zenon DEF Registry
<1>9. h = IF g1.queue[n] = <<>>
          THEN [ownerchanged(g1, n, r, None) EXCEPT !.hash = @ \ {n}]
          ELSE ownerchanged(g1, n, r, Head1(g1, n))
  BY DEF releaseOwned, q
<1> HIDE DEF g1, h
<1>10. g1.queue[n] = q
  BY <1>2, <1>5, <1>8
<1>11. /\ h \in Registry
       /\ h.queue = g1.queue
       /\ h.services = g.services
       /\ h.hash = IF q = <<>> THEN g.hash \ {n} ELSE g.hash \cup {n}
       /\ h.seen = [g.seen EXCEPT ![n] = IF q = <<>> THEN None ELSE q[1].remote]
  <2>1. CASE q = <<>>
    <3> DEFINE o == ownerchanged(g1, n, r, None)
    <3>1. /\ o \in Registry
          /\ SameBut(g1, o)
          /\ o.seen = [g1.seen EXCEPT ![n] = None]
      BY <1>2, <1>7, OwnerChangedFields
    <3> HIDE DEF o
    <3>2. h = [o EXCEPT !.hash = o.hash \ {n}]
      BY <2>1, <1>9, <1>10 DEF o
    <3>3. o.hash \ {n} \in SUBSET Services
      BY <3>1, <1>2, <1>8 DEF SameBut
    <3>4. h \in Registry
      BY <3>1, <3>2, <3>3, SetHash
    <3>5. h.queue = o.queue /\ h.services = o.services /\ h.seen = o.seen /\ h.hash = o.hash \ {n}
      BY <3>1, <3>2, Zenon DEF Registry
    <3>6. QED
      BY <2>1, <3>1, <3>4, <3>5, <1>8 DEF SameBut
  <2>2. CASE q # <<>>
    <3>1. Head1(g1, n) \in Remotes
      BY <2>2, <1>2, <1>7, <1>10, HeadIsRemote
    <3>2. Head1(g1, n) = q[1].remote
      BY <1>10 DEF Head1
    <3>3. h = ownerchanged(g1, n, r, Head1(g1, n))
      BY <2>2, <1>9, <1>10
    <3>4. /\ h \in Registry
          /\ SameBut(g1, h)
          /\ h.seen = [g1.seen EXCEPT ![n] = Head1(g1, n)]
      BY <3>1, <3>3, <1>2, <1>7, OwnerChangedFields
    <3>5. QED
      BY <2>2, <3>2, <3>4, <1>8 DEF SameBut
  <2>3. QED
    BY <2>1, <2>2
<1>12. \A x \in Remotes :
         /\ NoDup(h.services[x])
         /\ \A i \in DOMAIN h.services[x] :
              IF h.services[x][i] = n THEN x \in Members(q)
              ELSE \E j \in DOMAIN g.services[x] : g.services[x][j] = h.services[x][i]
  <2> SUFFICES ASSUME NEW x \in Remotes, NEW i \in DOMAIN g.services[x],
                      g.services[x][i] = n
               PROVE  x \in Members(q)
    BY <1>1, <1>11 DEF LinksOK
  <2>1. x \in Queued(g, n)
    BY <1>1 DEF LinksOK
  <2>2. x # r
    BY DEF Unlisted
  <2>3. QED
    BY <2>1, <2>2, <1>4
<1>13. /\ h.seen[n] = IF q = <<>> THEN None ELSE q[1].remote
       /\ \A m \in Services \ {n} : h.seen[m] = g.seen[m]
  BY <1>2, <1>5, <1>11
<1>14. Settled(g, h, n, q)
  BY <1>8, <1>11, <1>12, <1>13 DEF Settled
<1>15. RegOK(h)
  BY <1>2, <1>4, <1>11, <1>14, Settle
<1>16. QED
  BY <1>11, <1>15 DEF h

(* releasename keeps the registry sound, whoever calls it for whatever
   service, and r does not list the service afterwards. *)
LEMMA ReleaseNameOK ==
  ASSUME NEW g, RegOK(g), NEW r \in Remotes, NEW n \in Services
  PROVE  LET h == releasename(g, r, n)
         IN  /\ RegOK(h)
             /\ \A x \in Remotes : g.services[x] = <<>> => h.services[x] = <<>>
             /\ n \in g.hash => Unlisted(h, r, n)
             /\ n \in g.hash /\ Head1(g, n) # r => h.hash = g.hash /\ h.queue = g.queue
<1> DEFINE g1 == removeServiceFromRemote(g, r, n)
<1>1. CASE n \notin g.hash
  BY <1>1 DEF releasename
<1>2. CASE n \in g.hash
  <2>1. /\ RegOK(g1)
        /\ g1.hash = g.hash /\ g1.queue = g.queue
        /\ Unlisted(g1, r, n)
        /\ \A x \in Remotes : g.services[x] = <<>> => g1.services[x] = <<>>
    BY RemoveServiceOK
  <2>2. releasename(g, r, n) = IF Head1(g1, n) = r THEN releaseOwned(g1, r, n) ELSE g1
    BY <1>2 DEF releasename
  <2> HIDE DEF g1
  <2>3. Head1(g1, n) = Head1(g, n)
    BY <2>1 DEF Head1
  <2>4. CASE Head1(g1, n) = r
    <3>1. /\ RegOK(releaseOwned(g1, r, n))
          /\ releaseOwned(g1, r, n).services = g1.services
      BY <1>2, <2>1, <2>4, ReleaseOwnedOK
    <3>2. QED
      BY <2>1, <2>2, <2>3, <2>4, <3>1 DEF Unlisted
  <2>5. CASE Head1(g1, n) # r
    BY <2>1, <2>2, <2>3, <2>5
  <2>6. QED
    BY <2>4, <2>5
<1>3. QED
  BY <1>1, <1>2

-----------------------------------------------------------------------------
(* Appending an element that is not there adds it, without a duplicate. *)
LEMMA AppendNoDup ==
  ASSUME NEW S, NEW s \in Seq(S), NEW e \in S, NoDup(s),
         \A i \in DOMAIN s : s[i] # e
  PROVE  /\ Append(s, e) \in Seq(S)
         /\ NoDup(Append(s, e))
         /\ \A i \in DOMAIN Append(s, e) :
              Append(s, e)[i] # e => \E j \in DOMAIN s : s[j] = Append(s, e)[i]
<1> DEFINE t == Append(s, e)
<1>1. /\ t \in Seq(S)
      /\ Len(t) = Len(s) + 1
      /\ \A i \in 1..Len(s) : t[i] = s[i]
      /\ t[Len(s) + 1] = e
  BY AppendProperties
<1>2. DOMAIN s = 1..Len(s) /\ DOMAIN t = 1..(Len(s) + 1) /\ Len(s) \in Nat
  BY <1>1
<1> HIDE DEF t
<1>3. NoDup(t)
  BY <1>1, <1>2 DEF NoDup
<1>4. \A i \in DOMAIN t : t[i] # e => \E j \in DOMAIN s : s[j] = t[i]
  BY <1>1, <1>2
<1>5. QED
  BY <1>1, <1>3, <1>4 DEF t

(* What requestname writes in a queue is a ServiceOwner. *)
LEMMA EntryType ==
  ASSUME NEW r \in Remotes, NEW flags
  PROVE  Entry(r, flags) \in ServiceOwner /\ Entry(r, flags).remote = r
<1>1. ("ALLOW_REPLACEMENT" \in flags) \in BOOLEAN
  OBVIOUS
<1>2. QED
  BY <1>1 DEF Entry, ServiceOwner

(* What a request may do to the registry. *)
Requested(g, h, r) == RegOK(h) /\ OthersShrink(g, h, r)

(* requestname on a service without an owner keeps the registry sound. *)
LEMMA RequestFreeOK ==
  ASSUME NEW g, RegOK(g), NEW r \in Remotes, NEW n \in Services, NEW flags,
         g.queue[n] = <<>>
  PROVE  LET g1 == [g EXCEPT !.hash = @ \cup {n}]
         IN  Requested(g, requestFree(g1, r, n, flags), r)
<1> DEFINE e == Entry(r, flags)
           g1 == [g EXCEPT !.hash = g.hash \cup {n}]
           list == Append(g.services[r], n)
           g2 == [g1 EXCEPT !.services = [g1.services EXCEPT ![r] = Append(g1.services[r], n)],
                            !.queue = [g1.queue EXCEPT ![n] = <<e>>]]
           h == ownerchanged(g2, n, None, r)
<1>1. g \in Registry /\ HashOK(g) /\ LinksOK(g) /\ SeenOK(g)
  BY DEF RegOK
<1>2. /\ g.queue \in [Services -> Seq(ServiceOwner)]
      /\ g.services \in [Remotes -> Seq(Services)]
      /\ g.seen \in [Services -> Remotes \cup {None}]
      /\ g.hash \in SUBSET Services
  BY <1>1 DEF Registry
<1>3. e \in ServiceOwner /\ e.remote = r
  BY EntryType
<1>4. \A x \in Remotes : Unlisted(g, x, n)
  <2>1. Queued(g, n) = {}
    BY DEF Queued
  <2>2. QED
    BY <2>1, <1>1 DEF LinksOK, Unlisted
<1>5. /\ list \in Seq(Services)
      /\ NoDup(list)
      /\ \A i \in DOMAIN list :
           list[i] # n => \E j \in DOMAIN g.services[r] : g.services[r][j] = list[i]
  <2>1. NoDup(g.services[r]) /\ g.services[r] \in Seq(Services)
    BY <1>1, <1>2 DEF LinksOK
  <2>2. \A i \in DOMAIN g.services[r] : g.services[r][i] # n
    BY <1>4 DEF Unlisted
  <2>3. QED
    BY <2>1, <2>2, AppendNoDup
<1>6. requestFree(g1, r, n, flags) = h
  BY DEF requestFree
<1>7. g1 \in Registry
  <2>1. g.hash \cup {n} \in SUBSET Services
    BY <1>2
  <2>2. QED
    BY <1>1, <2>1, SetHash
<1>8. /\ g1.hash = g.hash \cup {n} /\ g1.queue = g.queue
      /\ g1.services = g.services /\ g1.seen = g.seen
  BY <1>1, Zenon DEF Registry
<1> HIDE DEF g1, e, list
<1>9. g2 = [g1 EXCEPT !.services = [g.services EXCEPT ![r] = list],
                      !.queue = [g.queue EXCEPT ![n] = <<e>>]]
  BY <1>8 DEF list
<1> HIDE DEF g2
<1>10. g2 \in Registry
  <2>1. [g.services EXCEPT ![r] = list] \in [Remotes -> Seq(Services)]
    BY <1>2, <1>5
  <2>2. <<e>> \in Seq(ServiceOwner)
    BY <1>3
  <2>3. [g.queue EXCEPT ![n] = <<e>>] \in [Services -> Seq(ServiceOwner)]
    BY <1>2, <2>2
  <2>4. QED
    BY <1>7, <1>9, <2>1, <2>3, SetServicesQueue
<1>11. /\ g2.hash = g1.hash /\ g2.seen = g1.seen
       /\ g2.services = [g.services EXCEPT ![r] = list]
       /\ g2.queue = [g.queue EXCEPT ![n] = <<e>>]
  BY <1>7, <1>9, Zenon DEF Registry
<1>12. h \in Registry /\ SameBut(g2, h) /\ h.seen = [g2.seen EXCEPT ![n] = r]
  <2>1. None \in Remotes \cup {None} /\ r \in Remotes \cup {None}
    OBVIOUS
  <2>2. h = ownerchanged(g2, n, None, r)
    OBVIOUS
  <2> HIDE DEF h
  <2>3. QED
    BY <1>10, <2>1, <2>2, OwnerChangedFields
<1> HIDE DEF h
<1>13. /\ h.hash = g.hash \cup {n}
       /\ h.queue = [g.queue EXCEPT ![n] = <<e>>]
       /\ h.services = [g.services EXCEPT ![r] = list]
       /\ h.seen = [g.seen EXCEPT ![n] = r]
  BY <1>8, <1>11, <1>12 DEF SameBut
<1>14. h.services[r] = list /\ \A x \in Remotes \ {r} : h.services[x] = g.services[x]
  BY <1>2, <1>13
<1>15. Settled(g, h, n, <<e>>)
  <2>1. <<e>> # <<>> /\ <<e>>[1].remote = r /\ r \in Members(<<e>>)
    BY <1>3 DEF Members
  <2>2. h.seen[n] = r /\ \A m \in Services \ {n} : h.seen[m] = g.seen[m]
    BY <1>2, <1>13
  <2>3. ASSUME NEW x \in Remotes
        PROVE  /\ NoDup(h.services[x])
               /\ \A i \in DOMAIN h.services[x] :
                    IF h.services[x][i] = n THEN x \in Members(<<e>>)
                    ELSE \E j \in DOMAIN g.services[x] : g.services[x][j] = h.services[x][i]
    <3>1. CASE x = r
      BY <3>1, <2>1, <1>5, <1>14
    <3>2. CASE x # r
      BY <3>2, <1>1, <1>4, <1>14 DEF LinksOK, Unlisted
    <3>3. QED
      BY <3>1, <3>2
  <2>4. QED
    BY <2>1, <2>2, <2>3, <1>13 DEF Settled
<1>16. RegOK(h)
  <2>1. <<e>> \in Seq(ServiceOwner)
    BY <1>3
  <2>2. QED
    BY <2>1, <1>12, <1>15, Settle
<1>17. QED
  BY <1>6, <1>14, <1>16 DEF Requested, OthersShrink, g1

(* The branches below find the service in the hash, with an owner. *)
LEMMA RequestOwnedOK ==
  ASSUME NEW g, RegOK(g), NEW r \in Remotes, NEW n \in g.hash, NEW flags,
         Head1(g, n) = r
  PROVE  Requested(g, requestOwned(g, r, n, flags), r)
<1> DEFINE e == Entry(r, flags)
           q == [g.queue[n] EXCEPT ![1] = e]
           h == requestOwned(g, r, n, flags)
<1>1. g \in Registry /\ HashOK(g) /\ LinksOK(g) /\ SeenOK(g)
  BY DEF RegOK
<1>2. /\ g.queue \in [Services -> Seq(ServiceOwner)]
      /\ g.services \in [Remotes -> Seq(Services)]
      /\ n \in Services /\ g.hash \in SUBSET Services
  BY <1>1 DEF Registry
<1>3. e \in ServiceOwner /\ e.remote = r
  BY EntryType
<1>4. g.queue[n] \in Seq(ServiceOwner) /\ g.queue[n] # <<>>
  BY <1>1, <1>2 DEF HashOK
<1> HIDE DEF e
<1>5. /\ q \in Seq(ServiceOwner) /\ q # <<>> /\ q[1] = e
      /\ DOMAIN q = DOMAIN g.queue[n]
      /\ \A i \in DOMAIN q : i # 1 => q[i] = g.queue[n][i]
  BY <1>3, <1>4
<1>6. Queued(g, n) \subseteq Members(q)
  BY <1>3, <1>5 DEF Queued, Members, Head1
<1>7. h = [g EXCEPT !.queue = [g.queue EXCEPT ![n] = q]]
  BY DEF requestOwned, e
<1> HIDE DEF q, h
<1>8. h \in Registry
  <2>1. [g.queue EXCEPT ![n] = q] \in [Services -> Seq(ServiceOwner)]
    BY <1>2, <1>5
  <2>2. QED
    BY <1>1, <1>7, <2>1, SetQueue
<1>9. /\ h.hash = g.hash /\ h.services = g.services /\ h.seen = g.seen
      /\ h.queue = [g.queue EXCEPT ![n] = q]
  BY <1>1, <1>7, Zenon DEF Registry
<1>10. Settled(g, h, n, q)
  <2>1. h.hash = IF q = <<>> THEN g.hash \ {n} ELSE g.hash \cup {n}
    BY <1>5, <1>9
  <2>2. h.seen[n] = IF q = <<>> THEN None ELSE q[1].remote
    BY <1>1, <1>2, <1>3, <1>5, <1>9 DEF SeenOK
  <2>3. ASSUME NEW x \in Remotes
        PROVE  /\ NoDup(h.services[x])
               /\ \A i \in DOMAIN h.services[x] :
                    IF h.services[x][i] = n THEN x \in Members(q)
                    ELSE \E j \in DOMAIN g.services[x] : g.services[x][j] = h.services[x][i]
    BY <1>1, <1>6, <1>9 DEF LinksOK
  <2>4. QED
    BY <2>1, <2>2, <2>3, <1>9 DEF Settled
<1>11. RegOK(h)
  BY <1>2, <1>5, <1>8, <1>10, Settle
<1>12. QED
  BY <1>9, <1>11 DEF Requested, OthersShrink, h

(* The replacement of the owner keeps the registry sound. *)
LEMMA RequestReplaceOK ==
  ASSUME NEW g, RegOK(g), NEW r \in Remotes, NEW n \in g.hash, NEW flags,
         Head1(g, n) # r
  PROVE  Requested(g, requestReplace(g, r, n, flags), r)
<1> DEFINE e == Entry(r, flags)
           g1 == releasename(g, r, n)
           old == Head1(g1, n)
           g2 == removeServiceFromRemote(g1, old, n)
           q == [g2.queue[n] EXCEPT ![1] = e]
           g3 == [g2 EXCEPT !.queue = [g2.queue EXCEPT ![n] = q]]
           h == ownerchanged(g3, n, old, r)
<1>1. g \in Registry /\ HashOK(g) /\ n \in Services
  BY DEF RegOK, Registry
<1>2. /\ RegOK(g1)
      /\ Unlisted(g1, r, n)
      /\ g1.hash = g.hash /\ g1.queue = g.queue
      /\ \A x \in Remotes : g.services[x] = <<>> => g1.services[x] = <<>>
  BY <1>1, ReleaseNameOK
<1>3. requestReplace(g, r, n, flags) = h
  BY DEF requestReplace
<1> HIDE DEF g1
<1>4. g1 \in Registry /\ g1.queue[n] # <<>>
  BY <1>1, <1>2 DEF RegOK, HashOK
<1>5. old \in Remotes /\ old = Head1(g, n)
  BY <1>1, <1>2, <1>4, HeadIsRemote DEF Head1
<1> HIDE DEF old
<1>6. /\ RegOK(g2)
      /\ g2.hash = g1.hash /\ g2.queue = g1.queue
      /\ Unlisted(g2, old, n)
      /\ \A x \in Remotes : g1.services[x] = <<>> => g2.services[x] = <<>>
      /\ \A x \in Remotes \ {old} : g2.services[x] = g1.services[x]
  BY <1>1, <1>2, <1>5, RemoveServiceOK
<1>7. Unlisted(g2, r, n)
  BY <1>2, <1>5, <1>6 DEF Unlisted
<1> HIDE DEF g2
<1>8. g2 \in Registry /\ LinksOK(g2) /\ SeenOK(g2)
  BY <1>6 DEF RegOK
<1>9. /\ g2.queue \in [Services -> Seq(ServiceOwner)]
      /\ g2.services \in [Remotes -> Seq(Services)]
      /\ g2.seen \in [Services -> Remotes \cup {None}]
  BY <1>8 DEF Registry
<1>10. e \in ServiceOwner /\ e.remote = r
  BY EntryType
<1> HIDE DEF e
<1>11. g2.queue[n] \in Seq(ServiceOwner) /\ g2.queue[n] # <<>>
  BY <1>1, <1>4, <1>6, <1>9
<1>12. /\ q \in Seq(ServiceOwner) /\ q # <<>> /\ q[1] = e
       /\ DOMAIN q = DOMAIN g2.queue[n]
       /\ \A i \in DOMAIN q : i # 1 => q[i] = g2.queue[n][i]
  BY <1>10, <1>11
<1> HIDE DEF q
<1>13. \A x \in Queued(g2, n) : x # old => x \in Members(q)
  <2>1. g2.queue[n][1].remote = old
    BY <1>2, <1>5, <1>6 DEF Head1
  <2>2. QED
    BY <2>1, <1>12 DEF Queued, Members
<1>14. g3 \in Registry
  <2>1. [g2.queue EXCEPT ![n] = q] \in [Services -> Seq(ServiceOwner)]
    BY <1>9, <1>12
  <2>2. QED
    BY <1>8, <2>1, SetQueue
<1>15. /\ g3.hash = g2.hash /\ g3.services = g2.services /\ g3.seen = g2.seen
       /\ g3.queue = [g2.queue EXCEPT ![n] = q]
  BY <1>8, Zenon DEF Registry
<1> HIDE DEF g3
<1>16. h \in Registry /\ SameBut(g3, h) /\ h.seen = [g3.seen EXCEPT ![n] = r]
  <2>1. old \in Remotes \cup {None} /\ r \in Remotes \cup {None}
    BY <1>5
  <2>2. h = ownerchanged(g3, n, old, r)
    OBVIOUS
  <2> HIDE DEF h
  <2>3. QED
    BY <1>1, <1>14, <2>1, <2>2, OwnerChangedFields
<1> HIDE DEF h
<1>17. /\ h.hash = g2.hash /\ h.services = g2.services
       /\ h.queue = [g2.queue EXCEPT ![n] = q]
       /\ h.seen = [g2.seen EXCEPT ![n] = r]
  BY <1>15, <1>16 DEF SameBut
<1>18. Settled(g2, h, n, q)
  <2>1. h.hash = IF q = <<>> THEN g2.hash \ {n} ELSE g2.hash \cup {n}
    BY <1>2, <1>6, <1>12, <1>17
  <2>2. /\ h.seen[n] = IF q = <<>> THEN None ELSE q[1].remote
        /\ \A m \in Services \ {n} : h.seen[m] = g2.seen[m]
    BY <1>1, <1>9, <1>10, <1>12, <1>17
  <2>3. ASSUME NEW x \in Remotes
        PROVE  /\ NoDup(h.services[x])
               /\ \A i \in DOMAIN h.services[x] :
                    IF h.services[x][i] = n THEN x \in Members(q)
                    ELSE \E j \in DOMAIN g2.services[x] : g2.services[x][j] = h.services[x][i]
    <3>1. CASE x = old
      BY <3>1, <1>6, <1>8, <1>17 DEF LinksOK, Unlisted
    <3>2. CASE x # old
      BY <3>2, <1>8, <1>13, <1>17 DEF LinksOK
    <3>3. QED
      BY <3>1, <3>2
  <2>4. QED
    BY <2>1, <2>2, <2>3, <1>17 DEF Settled
<1>19. RegOK(h)
  BY <1>1, <1>6, <1>12, <1>16, <1>18, Settle
<1>20. QED
  BY <1>2, <1>3, <1>6, <1>17, <1>19 DEF Requested, OthersShrink

(* Waiting in the queue keeps the registry sound. *)
LEMMA RequestQueueOK ==
  ASSUME NEW g, RegOK(g), NEW r \in Remotes, NEW n \in g.hash, NEW flags,
         Head1(g, n) # r
  PROVE  Requested(g, requestQueue(g, r, n, flags), r)
<1> DEFINE e == Entry(r, flags)
           p == g.queue[n]
           h == requestQueue(g, r, n, flags)
           update == [i \in DOMAIN p |->
                        IF p[i].remote = r /\ \A j \in 1..(i - 1) : p[j].remote # r
                        THEN e ELSE p[i]]
<1>1. g \in Registry /\ HashOK(g) /\ LinksOK(g) /\ SeenOK(g)
  BY DEF RegOK
<1>2. /\ g.queue \in [Services -> Seq(ServiceOwner)]
      /\ g.services \in [Remotes -> Seq(Services)]
      /\ n \in Services /\ g.hash \in SUBSET Services
  BY <1>1 DEF Registry
<1>3. e \in ServiceOwner /\ e.remote = r
  BY EntryType
<1>4. p \in Seq(ServiceOwner) /\ p # <<>> /\ 1 \in DOMAIN p /\ p[1].remote # r
  BY <1>1, <1>2 DEF HashOK, Head1
<1>5. g.seen[n] = p[1].remote
  BY <1>1, <1>2 DEF SeenOK, Head1
<1>6. CASE r \in Queued(g, n)
  <2>1. h = [g EXCEPT !.queue = [g.queue EXCEPT ![n] = update]]
    BY <1>6 DEF requestQueue
  <2> HIDE DEF e, p, h
  <2>2. DOMAIN p = 1..Len(p) /\ Len(p) \in Nat
    BY <1>4
  <2>3. /\ DOMAIN update = DOMAIN p
        /\ \A i \in DOMAIN p :
             update[i] \in ServiceOwner /\ update[i].remote = p[i].remote
    BY <1>3, <1>4
  <2>4. update \in Seq(ServiceOwner) /\ update # <<>>
    <3>1. update \in [1..Len(p) -> ServiceOwner]
      BY <2>2, <2>3
    <3>2. update \in Seq(ServiceOwner)
      BY <3>1, <2>2
    <3> HIDE DEF update
    <3>3. QED
      BY <3>2, <2>3, <1>4
  <2> HIDE DEF update
  <2>5. Queued(g, n) \subseteq Members(update)
    BY <2>3 DEF Queued, Members, p
  <2>6. h \in Registry
    <3>1. [g.queue EXCEPT ![n] = update] \in [Services -> Seq(ServiceOwner)]
      BY <1>2, <2>4
    <3>2. QED
      BY <1>1, <2>1, <3>1, SetQueue
  <2>7. /\ h.hash = g.hash /\ h.services = g.services /\ h.seen = g.seen
        /\ h.queue = [g.queue EXCEPT ![n] = update]
    BY <1>1, <2>1, Zenon DEF Registry
  <2>8. Settled(g, h, n, update)
    <3>1. h.hash = IF update = <<>> THEN g.hash \ {n} ELSE g.hash \cup {n}
      BY <2>4, <2>7
    <3>2. h.seen[n] = IF update = <<>> THEN None ELSE update[1].remote
      BY <1>4, <1>5, <2>3, <2>4, <2>7
    <3>3. ASSUME NEW x \in Remotes
          PROVE  /\ NoDup(h.services[x])
                 /\ \A i \in DOMAIN h.services[x] :
                      IF h.services[x][i] = n THEN x \in Members(update)
                      ELSE \E j \in DOMAIN g.services[x] : g.services[x][j] = h.services[x][i]
      BY <1>1, <2>5, <2>7 DEF LinksOK
    <3>4. QED
      BY <3>1, <3>2, <3>3, <2>7 DEF Settled
  <2>9. RegOK(h)
    BY <1>2, <2>4, <2>6, <2>8, Settle
  <2>10. QED
    BY <2>7, <2>9 DEF Requested, OthersShrink, h
<1>7. CASE r \notin Queued(g, n)
  <2> DEFINE list == Append(g.services[r], n)
             q == Append(p, e)
  <2>1. h = [g EXCEPT !.services = [g.services EXCEPT ![r] = list],
                      !.queue = [g.queue EXCEPT ![n] = q]]
    <3>1. h = [g EXCEPT !.services[r] = Append(@, n), !.queue[n] = Append(@, e)]
      BY <1>7 DEF requestQueue
    <3>2. [g EXCEPT !.services = [g.services EXCEPT ![r] = list]].queue = g.queue
      BY <1>1, Zenon DEF Registry
    <3>3. QED
      BY <3>1, <3>2
  <2>2. Unlisted(g, r, n)
    BY <1>1, <1>7 DEF LinksOK, Unlisted
  <2>3. /\ list \in Seq(Services)
        /\ NoDup(list)
        /\ \A i \in DOMAIN list :
             list[i] # n => \E j \in DOMAIN g.services[r] : g.services[r][j] = list[i]
    <3>1. NoDup(g.services[r]) /\ g.services[r] \in Seq(Services)
      BY <1>1, <1>2 DEF LinksOK
    <3>2. \A i \in DOMAIN g.services[r] : g.services[r][i] # n
      BY <2>2 DEF Unlisted
    <3>3. QED
      BY <3>1, <3>2, <1>2, AppendNoDup
  <2> HIDE DEF e, p, h, list
  <2>4. /\ q \in Seq(ServiceOwner) /\ q # <<>> /\ q[1] = p[1]
        /\ \A i \in DOMAIN p : i \in DOMAIN q /\ q[i] = p[i]
        /\ Len(p) + 1 \in DOMAIN q /\ q[Len(p) + 1] = e
    BY <1>3, <1>4
  <2> HIDE DEF q
  <2>5. Queued(g, n) \subseteq Members(q) /\ r \in Members(q)
    BY <1>3, <2>4 DEF Queued, Members, p
  <2>6. h \in Registry
    <3>1. [g.queue EXCEPT ![n] = q] \in [Services -> Seq(ServiceOwner)]
      BY <1>2, <2>4
    <3>2. [g.services EXCEPT ![r] = list] \in [Remotes -> Seq(Services)]
      BY <1>2, <2>3
    <3>3. QED
      BY <1>1, <2>1, <3>1, <3>2, SetServicesQueue
  <2>7. /\ h.hash = g.hash /\ h.seen = g.seen
        /\ h.services = [g.services EXCEPT ![r] = list]
        /\ h.queue = [g.queue EXCEPT ![n] = q]
    BY <1>1, <2>1, Zenon DEF Registry
  <2>8. h.services[r] = list /\ \A x \in Remotes \ {r} : h.services[x] = g.services[x]
    BY <1>2, <2>7
  <2>9. Settled(g, h, n, q)
    <3>1. h.hash = IF q = <<>> THEN g.hash \ {n} ELSE g.hash \cup {n}
      BY <2>4, <2>7
    <3>2. h.seen[n] = IF q = <<>> THEN None ELSE q[1].remote
      BY <1>5, <2>4, <2>7
    <3>3. ASSUME NEW x \in Remotes
          PROVE  /\ NoDup(h.services[x])
                 /\ \A i \in DOMAIN h.services[x] :
                      IF h.services[x][i] = n THEN x \in Members(q)
                      ELSE \E j \in DOMAIN g.services[x] : g.services[x][j] = h.services[x][i]
      <4>1. CASE x = r
        BY <4>1, <2>3, <2>5, <2>8
      <4>2. CASE x # r
        BY <4>2, <1>1, <2>5, <2>8 DEF LinksOK
      <4>3. QED
        BY <4>1, <4>2
    <3>4. QED
      BY <3>1, <3>2, <3>3, <2>7 DEF Settled
  <2>10. RegOK(h)
    BY <1>2, <2>4, <2>6, <2>9, Settle
  <2>11. QED
    BY <2>8, <2>10 DEF Requested, OthersShrink, h
<1>8. QED
  BY <1>6, <1>7

(* requestname keeps the registry sound, whatever the flags. *)
LEMMA RequestNameOK ==
  ASSUME NEW g, RegOK(g), NEW r \in Remotes, NEW n \in Services, NEW flags
  PROVE  Requested(g, requestname(g, r, n, flags), r)
<1> DEFINE g1 == [g EXCEPT !.hash = g.hash \cup {n}]
<1>1. g \in Registry /\ HashOK(g)
  BY DEF RegOK
<1>2. g1.queue = g.queue
  BY <1>1, Zenon DEF Registry
<1>3. CASE g.queue[n] = <<>>
  <2>1. requestname(g, r, n, flags) = requestFree(g1, r, n, flags)
    BY <1>2, <1>3 DEF requestname
  <2>2. QED
    BY <1>3, <2>1, RequestFreeOK
<1>4. CASE g.queue[n] # <<>>
  <2>1. n \in g.hash
    BY <1>1, <1>4 DEF HashOK
  <2>2. g.hash \cup {n} = g.hash
    BY <2>1
  <2>3. g1 = g
    BY <1>1, <2>2, Zenon DEF Registry
  <2>4. requestname(g, r, n, flags) =
          IF Head1(g, n) = r THEN requestOwned(g, r, n, flags)
          ELSE IF MayReplace(g, n, flags) THEN requestReplace(g, r, n, flags)
          ELSE IF "DO_NOT_QUEUE" \notin flags THEN requestQueue(g, r, n, flags)
          ELSE requestRefuse(g, r, n)
    <3> HIDE DEF g1
    <3>1. requestname(g, r, n, flags) =
            IF g1.queue[n] = <<>> THEN requestFree(g1, r, n, flags)
            ELSE IF Head1(g1, n) = r THEN requestOwned(g1, r, n, flags)
            ELSE IF MayReplace(g1, n, flags) THEN requestReplace(g1, r, n, flags)
            ELSE IF "DO_NOT_QUEUE" \notin flags THEN requestQueue(g1, r, n, flags)
            ELSE requestRefuse(g1, r, n)
      BY Zenon DEF requestname, g1
    <3>2. QED
      BY <1>4, <2>3, <3>1
  <2> HIDE DEF g1
  <2>5. Requested(g, requestRefuse(g, r, n), r)
    BY ReleaseNameOK DEF requestRefuse, Requested, OthersShrink
  <2>6. CASE Head1(g, n) = r
    BY <2>1, <2>4, <2>6, RequestOwnedOK
  <2>7. CASE Head1(g, n) # r
    <3>1. Requested(g, requestReplace(g, r, n, flags), r)
      BY <2>1, <2>7, RequestReplaceOK
    <3>2. Requested(g, requestQueue(g, r, n, flags), r)
      BY <2>1, <2>7, RequestQueueOK
    <3>3. QED
      BY <2>4, <2>5, <2>7, <3>1, <3>2
  <2>8. QED
    BY <2>6, <2>7
<1>5. QED
  BY <1>3, <1>4

-----------------------------------------------------------------------------
(***************************************************************************)
(* The inductive invariant of the whole server.  The part about remotes    *)
(* that are not allocated is needed for the last step of adbus_serv_free,  *)
(* which empties the hash.                                                 *)
(***************************************************************************)
ServerOK ==
  /\ remotes \in Seq(Remotes)
  /\ NoDup(remotes)
  /\ closing \in Remotes \cup {None}
  /\ phase \in {"running", "stopping", "stopped"}
  /\ phase = "stopped" => remotes = <<>> /\ closing = None

FreedListsNothing == \A r \in Remotes \ Live : reg.services[r] = <<>>

IInv ==
  /\ ServerOK
  /\ FreedListsNothing
  /\ reg \in Registry
  /\ HashOK(reg)
  /\ LinksOK(reg)
  /\ phase # "stopped" => SeenOK(reg)

(* adbus_serv_new establishes the inductive invariant. *)
LEMMA InitIInv == Init => IInv
<1> SUFFICES ASSUME Init
             PROVE  IInv
  OBVIOUS
<1> DEFINE empty == [hash |-> {},
                     queue |-> [n \in Services |-> <<>>],
                     services |-> [r \in Remotes |-> <<>>],
                     haveHello |-> [r \in Remotes |-> r = Bus],
                     seen |-> [n \in Services |-> None],
                     held |-> [r \in Remotes |-> {}]]
<1>1. reg = requestname(empty, Bus, Bus, {}) /\ remotes = <<Bus>> /\ closing = None /\ phase = "running"
  BY DEF Init
<1>2. Bus \in Remotes /\ Bus \in Services /\ None \notin Remotes
  BY BusAssumption, NamesAssumption DEF Services
<1>3. RegOK(empty)
  <2>1. [r \in Remotes |-> r = Bus] \in [Remotes -> BOOLEAN]
    OBVIOUS
  <2>2. empty \in Registry
    BY <2>1 DEF Registry
  <2>3. HashOK(empty) /\ SeenOK(empty)
    BY DEF HashOK, SeenOK
  <2>4. LinksOK(empty)
    BY DEF LinksOK, NoDup
  <2>5. QED
    BY <2>2, <2>3, <2>4 DEF RegOK
<1>4. \A r \in Remotes : empty.services[r] = <<>>
  OBVIOUS
<1> HIDE DEF empty
<1>5. Requested(empty, reg, Bus)
  BY <1>1, <1>2, <1>3, RequestNameOK
<1>6. ServerOK
  BY <1>1, <1>2 DEF ServerOK, NoDup
<1>7. Live = {Bus}
  BY <1>1 DEF Live, ToSet
<1>8. FreedListsNothing
  BY <1>4, <1>5, <1>7 DEF FreedListsNothing, Requested, OthersShrink
<1>9. QED
  BY <1>5, <1>6, <1>8 DEF IInv, Requested, RegOK

(* A step of the registry alone, taken by a connected or closing remote. *)
LEMMA RegistryStep ==
  ASSUME IInv, phase # "stopped", NEW r \in Remotes, r \in Live,
         RegOK(reg'), OthersShrink(reg, reg', r),
         UNCHANGED <<remotes, closing, phase>>
  PROVE  IInv'
<1>1. ServerOK' /\ Live' = Live
  BY DEF IInv, ServerOK, Live
<1>2. FreedListsNothing'
  BY <1>1 DEF IInv, FreedListsNothing, OthersShrink
<1>3. QED
  BY <1>1, <1>2 DEF IInv, RegOK

(* The start of adbus_remote_disconnect keeps the inductive invariant. *)
LEMMA ClosingStep ==
  ASSUME IInv, phase # "stopped", closing = None,
         NEW r \in Remotes, StartClosing(r)
  PROVE  IInv'
<1>1. /\ remotes \in Seq(Remotes) /\ NoDup(remotes)
      /\ phase \in {"running", "stopping", "stopped"}
  BY DEF IInv, ServerOK
<1>2. /\ remotes' = RemoveFirst(remotes, r)
      /\ closing' = r /\ UNCHANGED <<reg, phase>>
  BY DEF StartClosing
<1>3. /\ remotes' \in Seq(Remotes) /\ NoDup(remotes')
      /\ \A j \in DOMAIN remotes :
           remotes[j] # r => \E i \in DOMAIN remotes' : remotes'[i] = remotes[j]
  BY <1>1, <1>2, RemoveFirstProperties
<1>4. ServerOK'
  BY <1>1, <1>2, <1>3 DEF ServerOK
<1>5. Live \subseteq Live'
  <2>1. r \in Live'
    BY <1>2, NamesAssumption DEF Live
  <2>2. \A x \in ToSet(remotes) : x \in Live'
    BY <2>1, <1>3 DEF Live, ToSet
  <2>3. QED
    BY <2>2 DEF Live
<1>6. FreedListsNothing'
  BY <1>2, <1>5 DEF IInv, FreedListsNothing
<1>7. QED
  BY <1>2, <1>4, <1>6 DEF IInv

(* Every step of the server keeps the inductive invariant. *)
LEMMA NextIInv == IInv /\ [Next]_vars => IInv'
<1> SUFFICES ASSUME IInv, [Next]_vars
             PROVE  IInv'
  OBVIOUS
<1>1. /\ remotes \in Seq(Remotes) /\ NoDup(remotes)
      /\ closing \in Remotes \cup {None}
      /\ reg \in Registry
      /\ ToSet(remotes) \subseteq Remotes /\ ToSet(remotes) \subseteq Live
  <2>1. remotes \in Seq(Remotes)
    BY DEF IInv, ServerOK
  <2>2. ToSet(remotes) \subseteq Remotes
    BY <2>1 DEF ToSet
  <2>3. QED
    BY <2>1, <2>2 DEF IInv, ServerOK, Live
<1>2. phase # "stopped" => RegOK(reg)
  BY DEF IInv, RegOK
<1>3. closing # None => phase # "stopped" /\ closing \in Live /\ closing \in Remotes
  BY <1>1 DEF IInv, ServerOK, Live
<1>4. ASSUME NEW r \in Remotes, Connect(r)
      PROVE  IInv'
  <2>1. /\ r \notin Live /\ closing = None /\ phase = "running"
        /\ remotes' = <<r>> \o remotes /\ UNCHANGED <<reg, closing, phase>>
    BY <1>4 DEF Connect, Idle
  <2>2. /\ remotes' \in Seq(Remotes)
        /\ Len(remotes') = Len(remotes) + 1
        /\ remotes'[1] = r
        /\ \A i \in 1..Len(remotes) : remotes'[i + 1] = remotes[i]
    <3>1. <<r>> \in Seq(Remotes) /\ Len(<<r>>) = 1
      OBVIOUS
    <3>2. QED
      BY <1>1, <2>1, <3>1, ConcatProperties
  <2>3. /\ DOMAIN remotes = 1..Len(remotes) /\ Len(remotes) \in Nat
        /\ DOMAIN remotes' = 1..(Len(remotes) + 1)
    BY <1>1, <2>2
  <2>4. \A i \in DOMAIN remotes : remotes[i] # r
    BY <1>1, <2>1 DEF ToSet
  <2>5. NoDup(remotes')
    <3> SUFFICES ASSUME NEW i \in DOMAIN remotes', NEW j \in DOMAIN remotes',
                        remotes'[i] = remotes'[j]
                 PROVE  i = j
      BY DEF NoDup
    <3>1. \A k \in DOMAIN remotes' :
            k # 1 => k - 1 \in DOMAIN remotes /\ remotes'[k] = remotes[k - 1]
      <4> SUFFICES ASSUME NEW k \in DOMAIN remotes', k # 1
                   PROVE  k - 1 \in DOMAIN remotes /\ remotes'[k] = remotes[k - 1]
        OBVIOUS
      <4>1. k - 1 \in 1..Len(remotes) /\ (k - 1) + 1 = k
        BY <2>3
      <4>2. QED
        BY <4>1, <2>2, <2>3
    <3>2. CASE i = 1 \/ j = 1
      BY <3>1, <3>2, <2>2, <2>4
    <3>3. CASE i # 1 /\ j # 1
      <4>1. i - 1 = j - 1
        BY <3>1, <3>3, <1>1 DEF NoDup
      <4>2. QED
        BY <4>1, <2>3
    <3>4. QED
      BY <3>2, <3>3
  <2>6. ServerOK'
    BY <2>1, <2>2, <2>5 DEF IInv, ServerOK
  <2>7. Live \subseteq Live'
    <3>1. \A i \in DOMAIN remotes : i + 1 \in DOMAIN remotes' /\ remotes'[i + 1] = remotes[i]
      BY <2>2, <2>3
    <3>2. ToSet(remotes) \subseteq ToSet(remotes')
      BY <3>1 DEF ToSet
    <3>3. QED
      BY <2>1, <3>2 DEF Live
  <2>8. QED
    BY <2>1, <2>6, <2>7 DEF IInv, FreedListsNothing
<1>5. ASSUME NEW r \in Remotes, Hello(r)
      PROVE  IInv'
  <2> DEFINE g == [reg EXCEPT !.haveHello = [reg.haveHello EXCEPT ![r] = TRUE]]
  <2>1. /\ phase # "stopped" /\ r \in Live
        /\ reg' = requestname(g, r, r, {}) /\ UNCHANGED <<remotes, closing, phase>>
    BY <1>1, <1>5 DEF Hello, Idle
  <2>2. g \in Registry
    <3>1. [reg.haveHello EXCEPT ![r] = TRUE] \in [Remotes -> BOOLEAN]
      BY <1>1 DEF Registry
    <3>2. QED
      BY <1>1, <3>1, SetHello
  <2>3. /\ g.hash = reg.hash /\ g.queue = reg.queue
        /\ g.services = reg.services /\ g.seen = reg.seen
    BY <1>1, Zenon DEF Registry
  <2> HIDE DEF g
  <2>4. RegOK(g)
    BY <1>2, <2>1, <2>2, <2>3 DEF RegOK, HashOK, LinksOK, SeenOK, Queued, Head1
  <2>5. Requested(g, reg', r)
    BY <2>1, <2>4, RequestNameOK DEF Services
  <2>6. OthersShrink(reg, reg', r) /\ RegOK(reg')
    BY <2>3, <2>5 DEF Requested, OthersShrink
  <2>7. QED
    BY <2>1, <2>6, RegistryStep
<1>6. ASSUME NEW r \in Remotes, NEW n \in Services, NEW flags, RequestName(r, n, flags)
      PROVE  IInv'
  <2>1. /\ phase # "stopped" /\ r \in Live
        /\ reg' = requestname(reg, r, n, flags) /\ UNCHANGED <<remotes, closing, phase>>
    BY <1>1, <1>6 DEF RequestName, MayCall, Idle
  <2>2. RegOK(reg') /\ OthersShrink(reg, reg', r)
    BY <1>2, <2>1, RequestNameOK DEF Requested
  <2>3. QED
    BY <2>1, <2>2, RegistryStep
<1>7. ASSUME NEW r \in Remotes, NEW n \in Services, ReleaseName(r, n)
      PROVE  IInv'
  <2>1. /\ phase # "stopped" /\ r \in Live
        /\ reg' = releasename(reg, r, n) /\ UNCHANGED <<remotes, closing, phase>>
    BY <1>1, <1>7 DEF ReleaseName, MayCall, Idle
  <2>2. RegOK(reg') /\ OthersShrink(reg, reg', r)
    BY <1>2, <2>1, ReleaseNameOK DEF OthersShrink
  <2>3. QED
    BY <2>1, <2>2, RegistryStep
<1>8. ASSUME NEW r \in Remotes, Disconnect(r)
      PROVE  IInv'
  BY <1>8, ClosingStep DEF Disconnect, Idle
<1>9. CASE DisconnectRelease
  <2> DEFINE n == reg.services[closing][1]
  <2>1. /\ closing # None /\ reg.services[closing] # <<>>
        /\ reg' = releasename(reg, closing, n) /\ UNCHANGED <<remotes, closing, phase>>
    BY <1>9 DEF DisconnectRelease
  <2>2. reg.services[closing] \in Seq(Services)
    BY <1>1, <1>3, <2>1 DEF Registry
  <2>3. n \in Services
    BY <2>1, <2>2
  <2> HIDE DEF n
  <2>4. RegOK(reg') /\ OthersShrink(reg, reg', closing)
    BY <1>2, <1>3, <2>1, <2>3, ReleaseNameOK DEF OthersShrink
  <2>5. QED
    BY <1>3, <2>1, <2>4, RegistryStep
<1>10. CASE DisconnectFree
  <2> DEFINE h == [reg EXCEPT !.haveHello = [reg.haveHello EXCEPT ![closing] = FALSE],
                              !.held = [reg.held EXCEPT ![closing] = {}]]
  <2>1. [reg EXCEPT !.haveHello = [reg.haveHello EXCEPT ![closing] = FALSE]].held = reg.held
    BY <1>1, Zenon DEF Registry
  <2>2. /\ closing # None /\ reg.services[closing] = <<>>
        /\ reg' = h
        /\ closing' = None /\ UNCHANGED <<remotes, phase>>
    BY <1>10, <2>1 DEF DisconnectFree
  <2>3. h \in Registry
    <3>1. [reg.haveHello EXCEPT ![closing] = FALSE] \in [Remotes -> BOOLEAN]
      BY <1>1 DEF Registry
    <3>2. [reg.held EXCEPT ![closing] = {}] \in [Remotes -> SUBSET Services]
      BY <1>1 DEF Registry
    <3>3. QED
      BY <1>1, <3>1, <3>2, SetHelloHeld
  <2>4. /\ h.hash = reg.hash /\ h.queue = reg.queue
        /\ h.services = reg.services /\ h.seen = reg.seen
    BY <1>1, Zenon DEF Registry
  <2> HIDE DEF h
  <2>5. HashOK(h) /\ LinksOK(h) /\ SeenOK(h)
    BY <1>2, <1>3, <2>2, <2>4 DEF RegOK, HashOK, LinksOK, SeenOK, Queued, Head1
  <2>6. ServerOK'
    BY <2>2 DEF IInv, ServerOK
  <2>7. Live \subseteq Live' \cup {closing}
    BY <2>2 DEF Live
  <2>8. FreedListsNothing'
    BY <2>2, <2>4, <2>7 DEF IInv, FreedListsNothing
  <2>9. QED
    BY <2>2, <2>3, <2>5, <2>6, <2>8 DEF IInv
<1>11. CASE ServFree
  BY <1>11, <1>2 DEF ServFree, Idle, IInv, ServerOK, FreedListsNothing, Live
<1>12. CASE ServFreeNext
  <2>1. remotes[1] \in Remotes
    BY <1>1, <1>12 DEF ServFreeNext
  <2>2. closing = None /\ phase # "stopped" /\ StartClosing(remotes[1])
    BY <1>12 DEF ServFreeNext
  <2>3. QED
    BY <2>1, <2>2, ClosingStep
<1>13. CASE ServFreeDone
  <2> DEFINE h == [reg EXCEPT !.hash = {}, !.queue = [n \in Services |-> <<>>]]
  <2>1. /\ phase' = "stopped" /\ remotes = <<>> /\ closing = None
        /\ reg' = h /\ UNCHANGED <<remotes, closing>>
    BY <1>13 DEF ServFreeDone
  <2>2. h \in Registry
    <3>1. {} \in SUBSET Services
      OBVIOUS
    <3>2. [n \in Services |-> <<>>] \in [Services -> Seq(ServiceOwner)]
      OBVIOUS
    <3>3. QED
      BY <1>1, <3>1, <3>2, SetHashQueue
  <2>3. h.hash = {} /\ h.queue = [n \in Services |-> <<>>] /\ h.services = reg.services
    BY <1>1, Zenon DEF Registry
  <2> HIDE DEF h
  <2>4. Live = {} /\ Live' = {}
    BY <2>1 DEF Live, ToSet
  <2>5. \A r \in Remotes : h.services[r] = <<>>
    BY <2>3, <2>4 DEF IInv, FreedListsNothing
  <2>6. HashOK(h) /\ LinksOK(h)
    BY <2>3, <2>5 DEF HashOK, LinksOK, NoDup
  <2>7. ServerOK'
    BY <2>1 DEF IInv, ServerOK
  <2>8. FreedListsNothing'
    BY <2>1, <2>5 DEF FreedListsNothing
  <2>9. QED
    BY <2>1, <2>2, <2>6, <2>7, <2>8 DEF IInv
<1>14. CASE UNCHANGED vars
  BY <1>14 DEF vars, IInv, ServerOK, FreedListsNothing, Live
<1>15. QED
  BY <1>4, <1>5, <1>6, <1>7, <1>8, <1>9, <1>10, <1>11, <1>12, <1>13, <1>14 DEF Next

(* The inductive invariant holds throughout. *)
LEMMA Invariance == Spec => []IInv
BY InitIInv, NextIInv, PTL DEF Spec

(* The registry and the server's fields keep their types under every
   sequence of requests, releases, disconnects and a shutdown. *)
THEOREM TypeCorrect == Spec => []TypeOK
<1>1. IInv => TypeOK
  BY DEF IInv, ServerOK, TypeOK
<1>2. QED
  BY <1>1, Invariance, PTL

(* No remote ever lists a freed service, or one twice: the loop of
   adbus_remote_disconnect is safe for every set of flags and any number of
   remotes and names. *)
THEOREM ServiceListsSafe == Spec => []NoDanglingService
<1>1. IInv => NoDanglingService
  <2> SUFFICES ASSUME IInv, NEW r \in Remotes
               PROVE  LET list == reg.services[r]
                      IN  /\ \A i, j \in DOMAIN list : list[i] = list[j] => i = j
                          /\ \A i \in DOMAIN list :
                               list[i] \in reg.hash /\ r \in Queued(reg, list[i])
    BY DEF NoDanglingService
  <2>1. NoDup(reg.services[r]) /\ reg.services[r] \in Seq(Services)
    BY DEF IInv, LinksOK, Registry
  <2>2. ASSUME NEW i \in DOMAIN reg.services[r]
        PROVE  reg.services[r][i] \in reg.hash /\ r \in Queued(reg, reg.services[r][i])
    <3>1. r \in Queued(reg, reg.services[r][i])
      BY DEF IInv, LinksOK
    <3>2. reg.services[r][i] \in Services
      BY <2>1
    <3>3. reg.queue[reg.services[r][i]] # <<>>
      BY <3>1 DEF Queued
    <3>4. QED
      BY <3>1, <3>2, <3>3 DEF IInv, HashOK
  <2>3. QED
    BY <2>1, <2>2 DEF NoDup
<1>2. QED
  BY <1>1, Invariance, PTL

(* A service in the hash always has an owner to read. *)
THEOREM OwnerAlwaysReadable == Spec => []OwnerReadable
<1>1. IInv => OwnerReadable
  BY DEF IInv, HashOK, OwnerReadable
<1>2. QED
  BY <1>1, Invariance, PTL

(* NameOwnerChanged never misleads: its history gives the current owner. *)
THEOREM SignalsTellOwner == Spec => []SeenIsOwner
<1>1. IInv => SeenIsOwner
  BY DEF IInv, SeenOK, SeenIsOwner
<1>2. QED
  BY <1>1, Invariance, PTL

-----------------------------------------------------------------------------
(***************************************************************************)
(* What the name registry promises its clients, proved for any number of   *)
(* remotes and names: what they are told is true (ClientsTold), no step    *)
(* steals a name or calls back a remote that is leaving (StepsLegal), and  *)
(* without waiting and replacing the links are sound (LinksSound) and the  *)
(* registry implements NameOwnership (ImplementsOwnership).                *)
(***************************************************************************)
(***************************************************************************)
(* What each operation does to the queues, the lists and the signals.      *)
(***************************************************************************)

(* ownerchanged tells the old owner, if it has had its hello, and the new one;
   h holds the queues that the signals are dispatched with. *)
Announced(g, h, n, old, new) ==
  \A x \in Remotes :
    h.held[x] =
      (IF old # None /\ h.haveHello[old] /\ Direct(h, old) = x
       THEN g.held[x] \ {n} ELSE g.held[x])
      \cup (IF new # None /\ Direct(h, new) = x THEN {n} ELSE {})

(* The signals of ownerchanged reach their receivers and no one else. *)
LEMMA OwnerChangedHeld ==
  ASSUME NEW g \in Registry, NEW n \in Services,
         NEW old \in Remotes \cup {None}, NEW new \in Remotes \cup {None}
  PROVE  Announced(g, ownerchanged(g, n, old, new), n, old, new)
<1> DEFINE g1 == [g EXCEPT !.seen[n] = new]
           oldowner == IF old # None /\ g.haveHello[old] THEN old ELSE None
           g2 == Lost(g1, oldowner, n)
           h == Acquired(g2, new, n)
<1>1. g1 \in Registry /\ SameBut(g, g1) /\ g1.held = g.held
  <2>1. g.seen \in [Services -> Remotes \cup {None}]
    BY DEF Registry
  <2>2. [g.seen EXCEPT ![n] = new] \in [Services -> Remotes \cup {None}]
    BY <2>1
  <2>3. g1 \in Registry
    BY <2>2, SetSeen
  <2>4. SameBut(g, g1) /\ g1.held = g.held
    BY Zenon DEF SameBut, Registry
  <2>5. QED
    BY <2>3, <2>4
<1>2. oldowner \in Remotes \cup {None}
  OBVIOUS
<1>3. ownerchanged(g, n, old, new) = h
  BY DEF ownerchanged
<1> HIDE DEF g1
<1>4. g2 \in Registry /\ SameBut(g1, g2)
  BY <1>1, <1>2, LostFields
<1>5. h \in Registry /\ SameBut(g2, h)
  BY <1>4, AcquiredFields
<1>6. /\ g1.held \in [Remotes -> SUBSET Services]
      /\ g2.held \in [Remotes -> SUBSET Services]
  BY <1>1, <1>4 DEF Registry
<1>7. \A x \in Remotes :
        g2.held[x] = IF oldowner # None /\ Direct(g1, oldowner) = x
                     THEN g1.held[x] \ {n} ELSE g1.held[x]
  <2> HIDE DEF oldowner
  <2>1. CASE oldowner = None \/ Direct(g1, oldowner) = None
    <3>1. g2 = g1
      BY <2>1 DEF Lost
    <3>2. QED
      BY <3>1, <2>1, NamesAssumption
  <2>2. CASE ~(oldowner = None \/ Direct(g1, oldowner) = None)
    <3> DEFINE d == Direct(g1, oldowner)
    <3>1. g2 = [g1 EXCEPT !.held = [g1.held EXCEPT ![d] = @ \ {n}]]
      BY <2>2 DEF Lost
    <3> HIDE DEF d
    <3>2. g2.held = [g1.held EXCEPT ![d] = @ \ {n}]
      BY <3>1, <1>1, Zenon DEF Registry
    <3>3. QED
      BY <3>2, <2>2, <1>6 DEF d
  <2>3. QED
    BY <2>1, <2>2
<1> HIDE DEF g2
<1>8. \A x \in Remotes :
        h.held[x] = IF new # None /\ Direct(g2, new) = x
                    THEN g2.held[x] \cup {n} ELSE g2.held[x]
  <2>1. CASE new = None \/ Direct(g2, new) = None
    <3>1. h = g2
      BY <2>1 DEF Acquired
    <3>2. QED
      BY <3>1, <2>1, NamesAssumption
  <2>2. CASE ~(new = None \/ Direct(g2, new) = None)
    <3> DEFINE d == Direct(g2, new)
    <3>1. h = [g2 EXCEPT !.held = [g2.held EXCEPT ![d] = @ \cup {n}]]
      BY <2>2 DEF Acquired
    <3> HIDE DEF d, h
    <3>2. h.held = [g2.held EXCEPT ![d] = @ \cup {n}]
      BY <3>1, <1>4, Zenon DEF Registry
    <3>3. QED
      BY <3>2, <2>2, <1>6 DEF d
  <2>3. QED
    BY <2>1, <2>2
<1> HIDE DEF h
<1>9. \A o : Direct(g1, o) = Direct(h, o) /\ Direct(g2, o) = Direct(h, o)
  BY <1>1, <1>4, <1>5 DEF SameBut, Direct, Head1
<1>10. h.haveHello = g.haveHello
  BY <1>1, <1>4, <1>5 DEF SameBut
<1>11. Announced(g, h, n, old, new)
  BY <1>1, <1>7, <1>8, <1>9, <1>10 DEF Announced
<1>12. QED
  BY <1>3, <1>11

(* A remote's record of what it holds does not change. *)
Untold(g, h) == h.held = g.held

(* What releasename does. *)
Released(g, h, r, n) ==
  /\ h.haveHello = g.haveHello
  /\ h.services = IF n \in g.hash
                  THEN [g.services EXCEPT ![r] = RemoveFirst(g.services[r], n)]
                  ELSE g.services
  /\ IF n \in g.hash /\ Head1(g, n) = r
     THEN LET q == Tail(g.queue[n])
          IN  /\ h.queue = [g.queue EXCEPT ![n] = q]
              /\ h.hash = IF q = <<>> THEN g.hash \ {n} ELSE g.hash
              /\ Announced(g, h, n, r, IF q = <<>> THEN None ELSE q[1].remote)
     ELSE /\ h.queue = g.queue
          /\ h.hash = g.hash
          /\ Untold(g, h)

(* releasename takes the head off the queue of a name that r owns and announces
   the next owner; otherwise only r's list may change. *)
LEMMA ReleaseEffect ==
  ASSUME NEW g, RegOK(g), NEW r \in Remotes, NEW n \in Services
  PROVE  Released(g, releasename(g, r, n), r, n)
<1>1. CASE n \notin g.hash
  BY <1>1 DEF releasename, Released, Untold
<1>2. CASE n \in g.hash
  <2> DEFINE list == RemoveFirst(g.services[r], n)
             g1 == [g EXCEPT !.services = [g.services EXCEPT ![r] = list]]
  <2>1. g \in Registry /\ HashOK(g)
    BY DEF RegOK
  <2>2. removeServiceFromRemote(g, r, n) = g1
    BY DEF removeServiceFromRemote
  <2>3. RegOK(g1)
    BY <2>2, RemoveServiceOK
  <2> HIDE DEF list
  <2>4. /\ g1.hash = g.hash /\ g1.queue = g.queue /\ g1.haveHello = g.haveHello
        /\ g1.held = g.held /\ g1.services = [g.services EXCEPT ![r] = list]
    BY <2>1, Zenon DEF Registry
  <2>5. releasename(g, r, n) = IF Head1(g1, n) = r THEN releaseOwned(g1, r, n) ELSE g1
    BY <1>2, <2>2 DEF releasename
  <2> HIDE DEF g1
  <2>6. Head1(g1, n) = Head1(g, n) /\ g1 \in Registry
    BY <2>3, <2>4 DEF Head1, RegOK
  <2>7. CASE Head1(g, n) # r
    BY <2>4, <2>5, <2>6, <2>7, <1>2 DEF Released, Untold, list
  <2>8. CASE Head1(g, n) = r
    <3> DEFINE q == Tail(g.queue[n])
               g2 == [g1 EXCEPT !.queue = [g1.queue EXCEPT ![n] = q]]
               o == ownerchanged(g2, n, r, IF q = <<>> THEN None ELSE q[1].remote)
               h == releaseOwned(g1, r, n)
    <3>1. g.queue \in [Services -> Seq(ServiceOwner)] /\ g.hash \in SUBSET Services
      BY <2>1 DEF Registry
    <3>2. q \in Seq(ServiceOwner)
      BY <1>2, <2>1, <3>1 DEF HashOK
    <3>3. (IF q = <<>> THEN None ELSE q[1].remote) \in Remotes \cup {None}
      <4> HIDE DEF q
      <4>1. q # <<>> => q[1] \in ServiceOwner
        BY <3>2
      <4>2. QED
        BY <4>1 DEF ServiceOwner
    <3>4. h = IF g2.queue[n] = <<>>
              THEN [ownerchanged(g2, n, r, None) EXCEPT !.hash = @ \ {n}]
              ELSE ownerchanged(g2, n, r, Head1(g2, n))
      BY <2>4 DEF releaseOwned
    <3> HIDE DEF q, h
    <3>5. [g1.queue EXCEPT ![n] = q] \in [Services -> Seq(ServiceOwner)]
      BY <2>4, <3>1, <3>2
    <3>6. g2 \in Registry
      BY <2>6, <3>5, SetQueue
    <3>7. /\ g2.hash = g1.hash /\ g2.services = g1.services /\ g2.held = g1.held
          /\ g2.haveHello = g1.haveHello /\ g2.queue = [g1.queue EXCEPT ![n] = q]
      BY <2>6, Zenon DEF Registry
    <3> HIDE DEF g2
    <3>8. g2.queue[n] = q
      BY <2>4, <3>1, <3>7
    <3>9. /\ o \in Registry
          /\ SameBut(g2, o)
          /\ Announced(g2, o, n, r, IF q = <<>> THEN None ELSE q[1].remote)
      BY <3>3, <3>6, OwnerChangedFields, OwnerChangedHeld
    <3>10. h = IF q = <<>> THEN [o EXCEPT !.hash = o.hash \ {n}] ELSE o
      BY <3>4, <3>8 DEF Head1
    <3> HIDE DEF o
    <3>11. /\ h.queue = o.queue /\ h.services = o.services
           /\ h.haveHello = o.haveHello /\ h.held = o.held
           /\ h.hash = IF q = <<>> THEN o.hash \ {n} ELSE o.hash
      <4>1. CASE q = <<>>
        <5>1. h = [o EXCEPT !.hash = o.hash \ {n}]
          BY <4>1, <3>10
        <5>2. /\ h.queue = o.queue /\ h.services = o.services
              /\ h.haveHello = o.haveHello /\ h.held = o.held
              /\ h.hash = o.hash \ {n}
          BY <5>1, <3>9, Zenon DEF Registry
        <5>3. QED
          BY <4>1, <5>2
      <4>2. CASE q # <<>>
        BY <4>2, <3>10
      <4>3. QED
        BY <4>1, <4>2
    <3>12. \A x : Direct(h, x) = Direct(o, x)
      BY <3>11 DEF Direct, Head1
    <3>13. Announced(g, h, n, r, IF q = <<>> THEN None ELSE q[1].remote)
      BY <3>7, <3>9, <3>11, <3>12, <2>4 DEF Announced, SameBut
    <3>14. /\ h.haveHello = g.haveHello
           /\ h.services = [g.services EXCEPT ![r] = list]
           /\ h.queue = [g.queue EXCEPT ![n] = q]
           /\ h.hash = IF q = <<>> THEN g.hash \ {n} ELSE g.hash
      BY <3>7, <3>9, <3>11, <2>4 DEF SameBut
    <3>15. releasename(g, r, n) = h
      BY <2>5, <2>6, <2>8 DEF h
    <3>16. QED
      BY <3>13, <3>14, <3>15, <1>2, <2>8 DEF Released, q, list
  <2>9. QED
    BY <2>7, <2>8
<1>3. QED
  BY <1>1, <1>2

-----------------------------------------------------------------------------
(***************************************************************************)
(* The five branches of requestname.                                       *)
(***************************************************************************)
Freely(g, h, r, n, flags) ==
  /\ g.queue[n] = <<>>
  /\ h.queue = [g.queue EXCEPT ![n] = <<Entry(r, flags)>>]
  /\ h.services = [g.services EXCEPT ![r] = Append(g.services[r], n)]
  /\ Announced(g, h, n, None, r)

Again(g, h, r, n, flags) ==
  /\ g.queue[n] # <<>> /\ Head1(g, n) = r
  /\ h.queue = [g.queue EXCEPT ![n] = [g.queue[n] EXCEPT ![1] = Entry(r, flags)]]
  /\ h.services = g.services
  /\ Untold(g, h)

Replaced(g, h, r, n, flags) ==
  LET old == Head1(g, n)
  IN  /\ g.queue[n] # <<>> /\ old # r
      /\ MayReplace(g, n, flags)
      /\ h.queue = [g.queue EXCEPT ![n] = [g.queue[n] EXCEPT ![1] = Entry(r, flags)]]
      /\ h.services = [g.services EXCEPT ![r] = RemoveFirst(g.services[r], n),
                                         ![old] = RemoveFirst(g.services[old], n)]
      /\ Announced(g, h, n, old, r)

(* The entry of a waiting remote is updated where it stands. *)
SamePlaces(p, q) ==
  /\ q \in Seq(ServiceOwner)
  /\ DOMAIN q = DOMAIN p
  /\ q[1] = p[1]
  /\ \A i \in DOMAIN p : q[i].remote = p[i].remote

Waits(g, h, r, n, flags) ==
  /\ g.queue[n] # <<>> /\ Head1(g, n) # r
  /\ ~MayReplace(g, n, flags) /\ "DO_NOT_QUEUE" \notin flags
  /\ Untold(g, h)
  /\ \/ /\ r \in Queued(g, n)
        /\ \E q : SamePlaces(g.queue[n], q) /\ h.queue = [g.queue EXCEPT ![n] = q]
        /\ h.services = g.services
     \/ /\ h.queue = [g.queue EXCEPT ![n] = Append(g.queue[n], Entry(r, flags))]
        /\ h.services = [g.services EXCEPT ![r] = Append(g.services[r], n)]

Refused(g, h, r, n, flags) ==
  /\ g.queue[n] # <<>> /\ Head1(g, n) # r
  /\ ~MayReplace(g, n, flags) /\ "DO_NOT_QUEUE" \in flags
  /\ h.queue = g.queue
  /\ h.services = [g.services EXCEPT ![r] = RemoveFirst(g.services[r], n)]
  /\ Untold(g, h)

RequestDone(g, h, r, n, flags) ==
  /\ h.haveHello = g.haveHello
  /\ h.hash = g.hash \cup {n}
  /\ \/ Freely(g, h, r, n, flags)
     \/ Again(g, h, r, n, flags)
     \/ Replaced(g, h, r, n, flags)
     \/ Waits(g, h, r, n, flags)
     \/ Refused(g, h, r, n, flags)

(* A name without an owner: the effect of requestFree. *)
LEMMA FreeEffect ==
  ASSUME NEW g, RegOK(g), NEW r \in Remotes, NEW n \in Services, NEW flags,
         g.queue[n] = <<>>
  PROVE  LET g1 == [g EXCEPT !.hash = @ \cup {n}]
         IN  RequestDone(g, requestFree(g1, r, n, flags), r, n, flags)
<1> DEFINE e == Entry(r, flags)
           g1 == [g EXCEPT !.hash = g.hash \cup {n}]
           g2 == [g1 EXCEPT !.services = [g1.services EXCEPT ![r] = Append(g1.services[r], n)],
                            !.queue = [g1.queue EXCEPT ![n] = <<e>>]]
           h == ownerchanged(g2, n, None, r)
<1>1. g \in Registry
  BY DEF RegOK
<1>2. /\ g.queue \in [Services -> Seq(ServiceOwner)]
      /\ g.services \in [Remotes -> Seq(Services)]
      /\ g.hash \in SUBSET Services
  BY <1>1 DEF Registry
<1>3. requestFree(g1, r, n, flags) = h
  BY DEF requestFree
<1>4. g1 \in Registry
  <2>1. g.hash \cup {n} \in SUBSET Services
    BY <1>2
  <2>2. QED
    BY <1>1, <2>1, SetHash
<1>5. /\ g1.hash = g.hash \cup {n} /\ g1.queue = g.queue /\ g1.held = g.held
      /\ g1.services = g.services /\ g1.haveHello = g.haveHello
  BY <1>1, Zenon DEF Registry
<1>6. e \in ServiceOwner
  BY EntryType
<1> HIDE DEF g1, e
<1>7. g2 = [g1 EXCEPT !.services = [g.services EXCEPT ![r] = Append(g.services[r], n)],
                      !.queue = [g.queue EXCEPT ![n] = <<e>>]]
  BY <1>5
<1> HIDE DEF g2
<1>8. g2 \in Registry
  <2>1. [g.services EXCEPT ![r] = Append(g.services[r], n)] \in [Remotes -> Seq(Services)]
    BY <1>2
  <2>2. [g.queue EXCEPT ![n] = <<e>>] \in [Services -> Seq(ServiceOwner)]
    BY <1>2, <1>6
  <2>3. QED
    BY <1>4, <1>7, <2>1, <2>2, SetServicesQueue
<1>9. /\ g2.hash = g1.hash /\ g2.held = g1.held /\ g2.haveHello = g1.haveHello
      /\ g2.services = [g.services EXCEPT ![r] = Append(g.services[r], n)]
      /\ g2.queue = [g.queue EXCEPT ![n] = <<e>>]
  BY <1>4, <1>7, Zenon DEF Registry
<1>10. SameBut(g2, h) /\ Announced(g2, h, n, None, r)
  <2>1. None \in Remotes \cup {None} /\ r \in Remotes \cup {None}
    OBVIOUS
  <2>2. h = ownerchanged(g2, n, None, r)
    OBVIOUS
  <2> HIDE DEF h
  <2>3. QED
    BY <1>8, <2>1, <2>2, OwnerChangedFields, OwnerChangedHeld
<1> HIDE DEF h
<1>11. Announced(g, h, n, None, r)
  BY <1>5, <1>9, <1>10 DEF Announced
<1>12. QED
  BY <1>3, <1>5, <1>9, <1>10, <1>11 DEF SameBut, RequestDone, Freely, g1, e

(* The owner asks again: the effect of requestOwned. *)
LEMMA OwnedEffect ==
  ASSUME NEW g, RegOK(g), NEW r \in Remotes, NEW n \in g.hash, NEW flags,
         Head1(g, n) = r
  PROVE  RequestDone(g, requestOwned(g, r, n, flags), r, n, flags)
<1> DEFINE q == [g.queue[n] EXCEPT ![1] = Entry(r, flags)]
           h == requestOwned(g, r, n, flags)
<1>1. g \in Registry /\ HashOK(g) /\ n \in Services
  BY DEF RegOK, Registry
<1>2. h = [g EXCEPT !.queue = [g.queue EXCEPT ![n] = q]]
  BY DEF requestOwned
<1> HIDE DEF q, h
<1>3. /\ h.hash = g.hash /\ h.services = g.services /\ h.held = g.held
      /\ h.haveHello = g.haveHello /\ h.queue = [g.queue EXCEPT ![n] = q]
  BY <1>1, <1>2, Zenon DEF Registry
<1>4. g.queue[n] # <<>> /\ g.hash \cup {n} = g.hash
  BY <1>1 DEF HashOK
<1>5. QED
  BY <1>3, <1>4 DEF RequestDone, Again, Untold, q, h

(* The owner allows it: the effect of requestReplace. *)
LEMMA ReplaceEffect ==
  ASSUME NEW g, RegOK(g), NEW r \in Remotes, NEW n \in g.hash, NEW flags,
         Head1(g, n) # r, MayReplace(g, n, flags)
  PROVE  RequestDone(g, requestReplace(g, r, n, flags), r, n, flags)
<1> DEFINE e == Entry(r, flags)
           g1 == releasename(g, r, n)
           old == Head1(g1, n)
           g2 == removeServiceFromRemote(g1, old, n)
           q == [g2.queue[n] EXCEPT ![1] = e]
           g3 == [g2 EXCEPT !.queue = [g2.queue EXCEPT ![n] = q]]
           h == ownerchanged(g3, n, old, r)
<1>1. g \in Registry /\ HashOK(g) /\ n \in Services
  BY DEF RegOK, Registry
<1>2. RegOK(g1) /\ Released(g, g1, r, n)
  BY <1>1, ReleaseNameOK, ReleaseEffect
<1>3. requestReplace(g, r, n, flags) = h
  BY DEF requestReplace
<1> HIDE DEF g1
<1>4. /\ g1 \in Registry
      /\ g1.queue = g.queue /\ g1.hash = g.hash /\ g1.held = g.held
      /\ g1.haveHello = g.haveHello
      /\ g1.services = [g.services EXCEPT ![r] = RemoveFirst(g.services[r], n)]
  BY <1>2 DEF RegOK, Released, Untold
<1>5. g.queue[n] # <<>> /\ g.hash \cup {n} = g.hash
  BY <1>1 DEF HashOK
<1>6. old \in Remotes /\ old = Head1(g, n)
  BY <1>1, <1>4, <1>5, HeadIsRemote DEF Head1
<1> HIDE DEF old
<1>7. g.services \in [Remotes -> Seq(Services)] /\ g.queue \in [Services -> Seq(ServiceOwner)]
  BY <1>1 DEF Registry
<1>8. g1.services[old] = g.services[old]
  BY <1>4, <1>6, <1>7
<1>9. g2 = [g1 EXCEPT !.services = [g1.services EXCEPT ![old] = RemoveFirst(g.services[old], n)]]
  BY <1>8 DEF removeServiceFromRemote
<1>10. RegOK(g2)
  BY <1>1, <1>2, <1>6, RemoveServiceOK
<1> HIDE DEF g2
<1>11. /\ g2 \in Registry
       /\ g2.queue = g.queue /\ g2.hash = g.hash /\ g2.held = g.held
       /\ g2.haveHello = g.haveHello
       /\ g2.services = [g.services EXCEPT ![r] = RemoveFirst(g.services[r], n),
                                           ![old] = RemoveFirst(g.services[old], n)]
  <2>1. /\ g2.queue = g1.queue /\ g2.hash = g1.hash /\ g2.held = g1.held
        /\ g2.haveHello = g1.haveHello
        /\ g2.services = [g1.services EXCEPT ![old] = RemoveFirst(g.services[old], n)]
    BY <1>4, <1>9, Zenon DEF Registry
  <2>2. QED
    BY <2>1, <1>4, <1>10 DEF RegOK
<1>12. q \in Seq(ServiceOwner)
  <2>1. g2.queue[n] \in Seq(ServiceOwner) /\ g2.queue[n] # <<>>
    BY <1>1, <1>5, <1>7, <1>11
  <2>2. QED
    BY <2>1, EntryType
<1>13. q = [g.queue[n] EXCEPT ![1] = e]
  BY <1>11
<1> HIDE DEF q, e
<1>14. g3 \in Registry
  <2>1. [g2.queue EXCEPT ![n] = q] \in [Services -> Seq(ServiceOwner)]
    BY <1>7, <1>11, <1>12
  <2>2. QED
    BY <1>11, <2>1, SetQueue
<1>15. /\ g3.hash = g2.hash /\ g3.services = g2.services /\ g3.held = g2.held
       /\ g3.haveHello = g2.haveHello /\ g3.queue = [g2.queue EXCEPT ![n] = q]
  BY <1>11, Zenon DEF Registry
<1> HIDE DEF g3
<1>16. SameBut(g3, h) /\ Announced(g3, h, n, old, r)
  <2>1. old \in Remotes \cup {None} /\ r \in Remotes \cup {None}
    BY <1>6
  <2>2. h = ownerchanged(g3, n, old, r)
    OBVIOUS
  <2> HIDE DEF h
  <2>3. QED
    BY <1>1, <1>14, <2>1, <2>2, OwnerChangedFields, OwnerChangedHeld
<1> HIDE DEF h
<1>17. Announced(g, h, n, old, r)
  BY <1>11, <1>15, <1>16 DEF Announced
<1>18. /\ h.haveHello = g.haveHello /\ h.hash = g.hash
       /\ h.queue = [g.queue EXCEPT ![n] = [g.queue[n] EXCEPT ![1] = e]]
       /\ h.services = [g.services EXCEPT ![r] = RemoveFirst(g.services[r], n),
                                          ![old] = RemoveFirst(g.services[old], n)]
  BY <1>11, <1>13, <1>15, <1>16 DEF SameBut
<1>19. Replaced(g, h, r, n, flags)
  BY <1>5, <1>6, <1>17, <1>18 DEF Replaced, e
<1>20. QED
  BY <1>3, <1>5, <1>18, <1>19 DEF RequestDone

(* Somebody else owns the name: the effect of requestQueue. *)
LEMMA QueueEffect ==
  ASSUME NEW g, RegOK(g), NEW r \in Remotes, NEW n \in g.hash, NEW flags,
         Head1(g, n) # r, ~MayReplace(g, n, flags), "DO_NOT_QUEUE" \notin flags
  PROVE  RequestDone(g, requestQueue(g, r, n, flags), r, n, flags)
<1> DEFINE e == Entry(r, flags)
           p == g.queue[n]
           h == requestQueue(g, r, n, flags)
           update == [i \in DOMAIN p |->
                        IF p[i].remote = r /\ \A j \in 1..(i - 1) : p[j].remote # r
                        THEN e ELSE p[i]]
<1>1. g \in Registry /\ HashOK(g) /\ n \in Services
  BY DEF RegOK, Registry
<1>2. g.queue \in [Services -> Seq(ServiceOwner)]
  BY <1>1 DEF Registry
<1>3. p \in Seq(ServiceOwner) /\ p # <<>> /\ p[1].remote # r /\ g.hash \cup {n} = g.hash
  BY <1>1, <1>2 DEF HashOK, Head1
<1>4. e \in ServiceOwner /\ e.remote = r
  BY EntryType
<1>5. CASE r \in Queued(g, n)
  <2>1. h = [g EXCEPT !.queue = [g.queue EXCEPT ![n] = update]]
    BY <1>5 DEF requestQueue
  <2> HIDE DEF e, p, h
  <2>2. DOMAIN p = 1..Len(p) /\ Len(p) \in Nat /\ 1 \in DOMAIN p
    BY <1>3
  <2>3. /\ DOMAIN update = DOMAIN p
        /\ \A i \in DOMAIN p :
             update[i] \in ServiceOwner /\ update[i].remote = p[i].remote
    BY <1>3, <1>4
  <2>4. update[1] = p[1]
    BY <1>3, <2>2
  <2>5. update \in Seq(ServiceOwner)
    <3>1. update \in [1..Len(p) -> ServiceOwner]
      BY <2>2, <2>3
    <3>2. QED
      BY <3>1, <2>2
  <2> HIDE DEF update
  <2>6. SamePlaces(p, update)
    BY <2>3, <2>4, <2>5 DEF SamePlaces
  <2>7. /\ h.hash = g.hash /\ h.services = g.services /\ h.held = g.held
        /\ h.haveHello = g.haveHello /\ h.queue = [g.queue EXCEPT ![n] = update]
    BY <1>1, <2>1, Zenon DEF Registry
  <2>8. Waits(g, h, r, n, flags)
    BY <1>3, <1>5, <2>6, <2>7 DEF Waits, Untold, p
  <2>9. QED
    BY <1>3, <2>7, <2>8 DEF RequestDone, h
<1>6. CASE r \notin Queued(g, n)
  <2> DEFINE list == Append(g.services[r], n)
             q == Append(p, e)
  <2>1. h = [g EXCEPT !.services = [g.services EXCEPT ![r] = list],
                      !.queue = [g.queue EXCEPT ![n] = q]]
    <3>1. h = [g EXCEPT !.services[r] = Append(@, n), !.queue[n] = Append(@, e)]
      BY <1>6 DEF requestQueue
    <3>2. [g EXCEPT !.services = [g.services EXCEPT ![r] = list]].queue = g.queue
      BY <1>1, Zenon DEF Registry
    <3>3. QED
      BY <3>1, <3>2
  <2> HIDE DEF h, list, q
  <2>2. /\ h.hash = g.hash /\ h.held = g.held /\ h.haveHello = g.haveHello
        /\ h.services = [g.services EXCEPT ![r] = list]
        /\ h.queue = [g.queue EXCEPT ![n] = q]
    BY <1>1, <2>1, Zenon DEF Registry
  <2>3. Waits(g, h, r, n, flags)
    BY <1>3, <2>2 DEF Waits, Untold, list, q
  <2>4. QED
    BY <1>3, <2>2, <2>3 DEF RequestDone, h
<1>7. QED
  BY <1>5, <1>6

(* requestname takes one of its five branches. *)
LEMMA RequestEffect ==
  ASSUME NEW g, RegOK(g), NEW r \in Remotes, NEW n \in Services, NEW flags
  PROVE  RequestDone(g, requestname(g, r, n, flags), r, n, flags)
<1> DEFINE g1 == [g EXCEPT !.hash = g.hash \cup {n}]
<1>1. g \in Registry /\ HashOK(g)
  BY DEF RegOK
<1>2. g1.queue = g.queue
  BY <1>1, Zenon DEF Registry
<1>3. requestname(g, r, n, flags) =
        IF g1.queue[n] = <<>> THEN requestFree(g1, r, n, flags)
        ELSE IF Head1(g1, n) = r THEN requestOwned(g1, r, n, flags)
        ELSE IF MayReplace(g1, n, flags) THEN requestReplace(g1, r, n, flags)
        ELSE IF "DO_NOT_QUEUE" \notin flags THEN requestQueue(g1, r, n, flags)
        ELSE requestRefuse(g1, r, n)
  BY DEF requestname
<1>4. CASE g.queue[n] = <<>>
  <2>1. requestname(g, r, n, flags) = requestFree(g1, r, n, flags)
    BY <1>2, <1>3, <1>4
  <2>2. QED
    BY <1>4, <2>1, FreeEffect
<1>5. CASE g.queue[n] # <<>>
  <2>1. n \in g.hash
    BY <1>1, <1>5 DEF HashOK
  <2>2. g1 = g
    <3>1. g.hash \cup {n} = g.hash
      BY <2>1
    <3>2. [g EXCEPT !.hash = g.hash] = g
      BY <1>1 DEF Registry
    <3>3. QED
      BY <3>1, <3>2
  <2> HIDE DEF g1
  <2>3. CASE Head1(g, n) = r
    BY <2>1, <2>2, <2>3, <1>3, <1>5, OwnedEffect
  <2>4. CASE Head1(g, n) # r /\ MayReplace(g, n, flags)
    BY <2>1, <2>2, <2>4, <1>3, <1>5, ReplaceEffect
  <2>5. CASE Head1(g, n) # r /\ ~MayReplace(g, n, flags) /\ "DO_NOT_QUEUE" \notin flags
    BY <2>1, <2>2, <2>5, <1>3, <1>5, QueueEffect
  <2>6. CASE Head1(g, n) # r /\ ~MayReplace(g, n, flags) /\ "DO_NOT_QUEUE" \in flags
    <3> DEFINE h == releasename(g, r, n)
    <3>1. requestname(g, r, n, flags) = h
      BY <2>2, <2>6, <1>3, <1>5 DEF requestRefuse
    <3>2. Released(g, h, r, n)
      BY ReleaseEffect
    <3> HIDE DEF h
    <3>3. Refused(g, h, r, n, flags) /\ h.haveHello = g.haveHello /\ h.hash = g.hash \cup {n}
      BY <3>2, <2>1, <2>6, <1>5 DEF Released, Refused
    <3>4. QED
      BY <3>1, <3>3 DEF RequestDone
  <2>7. QED
    BY <2>3, <2>4, <2>5, <2>6
<1>6. QED
  BY <1>4, <1>5

-----------------------------------------------------------------------------
(***************************************************************************)
(* The answers of RequestName and ReleaseName.                             *)
(***************************************************************************)

(* What requestname returns agrees with what it does to the queue, whatever
   the flags. *)
LEMMA RequestAnswer ==
  ASSUME NEW g, RegOK(g), NEW r \in Remotes, NEW n \in Services, NEW flags
  PROVE  LET res == requestResult(g, r, n, flags)
             h == requestname(g, r, n, flags)
         IN  /\ res \in {"success", "already_owner"} <=> Head1(h, n) = r
             /\ res = "in_queue" => r \in Queued(h, n)
<1> DEFINE h == requestname(g, r, n, flags)
           res == requestResult(g, r, n, flags)
           p == g.queue[n]
<1>1. RequestDone(g, h, r, n, flags)
  BY RequestEffect
<1>2. g.queue \in [Services -> Seq(ServiceOwner)]
  BY DEF RegOK, Registry
<1>3. Entry(r, flags).remote = r
  BY EntryType
<1> HIDE DEF h
<1>4. CASE Freely(g, h, r, n, flags)
  <2>1. h.queue[n] = <<Entry(r, flags)>> /\ res = "success"
    BY <1>2, <1>4 DEF Freely, requestResult
  <2>2. QED
    BY <2>1, <1>3 DEF Head1, h
<1>5. CASE Again(g, h, r, n, flags)
  <2>1. h.queue[n] = [p EXCEPT ![1] = Entry(r, flags)] /\ res = "already_owner"
    BY <1>2, <1>5 DEF Again, requestResult
  <2>2. 1 \in DOMAIN p
    BY <1>2, <1>5 DEF Again
  <2>3. QED
    BY <2>1, <2>2, <1>3 DEF Head1, h
<1>6. CASE Replaced(g, h, r, n, flags)
  <2>1. h.queue[n] = [p EXCEPT ![1] = Entry(r, flags)] /\ res = "success"
    BY <1>2, <1>6 DEF Replaced, requestResult
  <2>2. 1 \in DOMAIN p
    BY <1>2, <1>6 DEF Replaced
  <2>3. QED
    BY <2>1, <2>2, <1>3 DEF Head1, h
<1>7. CASE Waits(g, h, r, n, flags)
  <2>1. res = "in_queue" /\ p \in Seq(ServiceOwner) /\ p # <<>> /\ p[1].remote # r
    BY <1>2, <1>7 DEF Waits, requestResult, Head1
  <2>2. h.queue[n][1].remote # r /\ r \in Queued(h, n)
    <3>1. CASE r \in Queued(g, n) /\ \E q : SamePlaces(p, q) /\ h.queue = [g.queue EXCEPT ![n] = q]
      <4>1. PICK q : SamePlaces(p, q) /\ h.queue[n] = q
        BY <1>2, <3>1
      <4>2. QED
        BY <4>1, <3>1, <2>1 DEF SamePlaces, Queued
    <3>2. CASE h.queue = [g.queue EXCEPT ![n] = Append(p, Entry(r, flags))]
      <4>1. h.queue[n] = Append(p, Entry(r, flags)) /\ Entry(r, flags) \in ServiceOwner
        BY <1>2, <3>2, EntryType
      <4>2. /\ h.queue[n][1] = p[1] /\ h.queue[n][Len(p) + 1] = Entry(r, flags)
            /\ Len(p) + 1 \in DOMAIN h.queue[n]
        BY <4>1, <2>1
      <4>3. QED
        BY <4>2, <2>1, <1>3 DEF Queued
    <3>3. QED
      BY <1>7, <3>1, <3>2 DEF Waits
  <2>3. QED
    BY <2>1, <2>2 DEF Head1, h
<1>8. CASE Refused(g, h, r, n, flags)
  <2>1. res = "failed" /\ h.queue[n] = p /\ Head1(g, n) # r
    BY <1>8 DEF Refused, requestResult
  <2>2. QED
    BY <2>1 DEF Head1, h
<1>9. QED
  BY <1>1, <1>4, <1>5, <1>6, <1>7, <1>8 DEF RequestDone, h

(* The answers are truthful in every state of the registry. *)
LEMMA AnswersTrue == IInv => ReplyTruthful
<1> SUFFICES ASSUME IInv, NEW r \in Remotes, NEW n \in Asked, MayCall(r, n)
             PROVE  /\ \A flags \in RequestFlags :
                         LET res == requestResult(reg, r, n, flags)
                             g == requestname(reg, r, n, flags)
                         IN  /\ res \in {"success", "already_owner"} <=> Head1(g, n) = r
                             /\ res = "in_queue" => r \in Queued(g, n)
                    /\ releaseResult(reg, r, n) = "not_owner" =>
                         n \in reg.hash /\ Head1(releasename(reg, r, n), n) # r
  BY DEF ReplyTruthful
<1>1. n \in Services
  BY AskedAssumption, BusAssumption DEF Services
<1>2. RegOK(reg)
  BY DEF IInv, RegOK, MayCall, Idle
<1>3. Released(reg, releasename(reg, r, n), r, n)
  BY <1>1, <1>2, ReleaseEffect
<1>4. releaseResult(reg, r, n) = "not_owner" =>
        n \in reg.hash /\ Head1(releasename(reg, r, n), n) # r
  BY <1>3 DEF Released, releaseResult, Head1
<1>5. QED
  BY <1>1, <1>2, <1>4, RequestAnswer

-----------------------------------------------------------------------------
(***************************************************************************)
(* The strengthening for what clients are told.  UniqueOK and BusOnce are  *)
(* about the registry: a unique name is owned by its remote, which can be  *)
(* neither replaced nor joined (only the bus name can be waited for), and  *)
(* it is the first service the remote lists, so the first it loses.        *)
(***************************************************************************)
UniqueOK(g) ==
  \A x \in Remotes :
    g.queue[x] # <<>> =>
      /\ g.queue[x][1].remote = x
      /\ ~g.queue[x][1].allowReplacement
      /\ x # Bus => Tail(g.queue[x]) = <<>>
      /\ g.haveHello[x]
      /\ g.services[x] # <<>> /\ g.services[x][1] = x

(* The bus remote owns its own name and stands in no other queue. *)
BusOnce(g) ==
  \A n \in Services : \A i \in DOMAIN g.queue[n] :
    g.queue[n][i].remote = Bus => n = Bus /\ i = 1

Owned(g, x) == {n \in g.hash : Head1(g, n) = x}

(* A signal to the remote o reaches o or, if its unique name is gone, no one. *)
LEMMA DirectUnique ==
  ASSUME NEW g, UniqueOK(g), NEW o \in Remotes
  PROVE  Direct(g, o) = IF g.queue[o] = <<>> THEN None ELSE o
BY DEF UniqueOK, Direct, Head1

(* A list that begins with another element still does after removeServiceFromRemote. *)
LEMMA RemoveFirstKeepsFirst ==
  ASSUME NEW S, NEW s \in Seq(S), NoDup(s), s # <<>>, NEW e, s[1] # e
  PROVE  RemoveFirst(s, e) # <<>> /\ RemoveFirst(s, e)[1] = s[1]
<1>1. CASE \A i \in 1..Len(s) : s[i] # e
  <2>1. RemoveFirst(s, e) = s
    BY <1>1 DEF RemoveFirst
  <2>2. QED
    BY <2>1
<1>2. CASE \E i \in 1..Len(s) : s[i] = e
  <2>1. PICK k \in 1..Len(s) : s[k] = e
    BY <1>2
  <2> DEFINE t == RemoveAt(s, k)
  <2>2. RemoveFirst(s, e) = t
    BY <2>1, RemoveFirstAt
  <2>3. /\ t \in Seq(S)
        /\ Len(t) = Len(s) - 1
        /\ \A i \in 1..(Len(s) - 1) : t[i] = IF i < k THEN s[i] ELSE s[i + 1]
    BY RemoveAtProperties
  <2> HIDE DEF t
  <2>4. k > 1 /\ Len(s) \in Nat /\ Len(s) >= 2
    BY <2>1
  <2>5. t[1] = s[1] /\ t # <<>>
    BY <2>3, <2>4
  <2>6. QED
    BY <2>2, <2>5
<1>3. QED
  BY <1>1, <1>2

(* The queues after releasename. *)
LEMMA ReleasedQueues ==
  ASSUME NEW g, RegOK(g), NEW h, NEW r \in Remotes, NEW n \in Services, Released(g, h, r, n)
  PROVE  /\ \A m \in Services \ {n} : h.queue[m] = g.queue[m]
         /\ h.queue[n] = IF n \in g.hash /\ Head1(g, n) = r THEN Tail(g.queue[n]) ELSE g.queue[n]
         /\ \A m \in Services : Queued(h, m) \subseteq Queued(g, m)
<1>1. g.queue \in [Services -> Seq(ServiceOwner)] /\ HashOK(g)
  BY DEF RegOK, Registry
<1>2. /\ \A m \in Services \ {n} : h.queue[m] = g.queue[m]
      /\ h.queue[n] = IF n \in g.hash /\ Head1(g, n) = r THEN Tail(g.queue[n]) ELSE g.queue[n]
  BY <1>1 DEF Released
<1>3. ASSUME NEW q \in Seq(ServiceOwner), q # <<>>, NEW i \in DOMAIN Tail(q)
      PROVE  i + 1 \in DOMAIN q /\ Tail(q)[i] = q[i + 1]
  BY <1>3
<1>4. ASSUME NEW m \in Services
      PROVE  Queued(h, m) \subseteq Queued(g, m)
  <2>1. CASE h.queue[m] = g.queue[m]
    BY <2>1 DEF Queued
  <2>2. CASE m \in g.hash /\ h.queue[m] = Tail(g.queue[m])
    <3>1. g.queue[m] \in Seq(ServiceOwner) /\ g.queue[m] # <<>>
      BY <2>2, <1>1 DEF HashOK
    <3>2. \A i \in DOMAIN h.queue[m] :
            i + 1 \in DOMAIN g.queue[m] /\ h.queue[m][i] = g.queue[m][i + 1]
      BY <3>1, <2>2, <1>3
    <3>3. QED
      BY <3>2 DEF Queued
  <2>3. QED
    BY <1>2, <2>1, <2>2
<1>5. QED
  BY <1>2, <1>4

(* The same for one service. *)
LEMMA ReleasedElsewhere ==
  ASSUME NEW g, RegOK(g), NEW h, NEW r \in Remotes, NEW n \in Services,
         Released(g, h, r, n), NEW m \in Services, m # n
  PROVE  h.queue[m] = g.queue[m]
<1>1. /\ \A k \in Services \ {n} : h.queue[k] = g.queue[k]
      /\ h.queue[n] = IF n \in g.hash /\ Head1(g, n) = r THEN Tail(g.queue[n]) ELSE g.queue[n]
  BY ReleasedQueues
<1>2. QED
  BY <1>1

(* releasename keeps unique names in order, unless the bus remote releases its name
   while others wait for it. *)
LEMMA ReleaseUnique ==
  ASSUME NEW g, RegOK(g), UniqueOK(g), BusOnce(g), NEW h, NEW r \in Remotes,
         NEW n \in Services, Released(g, h, r, n),
         r = Bus /\ g.queue[Bus] # <<>> => Tail(g.queue[Bus]) = <<>>
  PROVE  UniqueOK(h) /\ BusOnce(h)
<1>1. /\ g.queue \in [Services -> Seq(ServiceOwner)] /\ HashOK(g)
      /\ g.services \in [Remotes -> Seq(Services)]
      /\ \A x \in Remotes : NoDup(g.services[x])
  BY DEF RegOK, Registry, LinksOK
<1>2. /\ \A m \in Services \ {n} : h.queue[m] = g.queue[m]
      /\ h.queue[n] = IF n \in g.hash /\ Head1(g, n) = r THEN Tail(g.queue[n]) ELSE g.queue[n]
  BY ReleasedQueues
<1>3. /\ \A x \in Remotes \ {r} : h.services[x] = g.services[x]
      /\ h.services[r] = IF n \in g.hash THEN RemoveFirst(g.services[r], n) ELSE g.services[r]
      /\ h.haveHello = g.haveHello
  BY <1>1 DEF Released
<1>4. ASSUME NEW x \in Remotes, h.queue[x] # <<>>
      PROVE  h.queue[x] = g.queue[x] /\ (x = n => x # r)
  <2>1. x \in Services
    BY DEF Services
  <2>2. CASE x # n
    BY <2>1, <2>2, <1>2
  <2>3. CASE x = n /\ ~(n \in g.hash /\ Head1(g, n) = r)
    <3>1. h.queue[x] = g.queue[x]
      BY <2>3, <1>2
    <3>2. n \in g.hash /\ Head1(g, n) = x
      BY <3>1, <2>3, <1>1, <1>4 DEF HashOK, UniqueOK, Head1
    <3>3. QED
      BY <3>1, <3>2, <2>3
  <2>4. CASE x = n /\ n \in g.hash /\ Head1(g, n) = r
    <3>1. g.queue[x] \in Seq(ServiceOwner) /\ g.queue[x] # <<>>
      BY <2>1, <2>4, <1>1 DEF HashOK
    <3>2. x = r /\ (x # Bus => Tail(g.queue[x]) = <<>>)
      BY <2>4, <3>1 DEF UniqueOK, Head1
    <3>3. Tail(g.queue[x]) = <<>>
      BY <3>1, <3>2
    <3>4. QED
      BY <3>3, <2>4, <1>2, <1>4
  <2>5. QED
    BY <2>2, <2>3, <2>4
<1>5. UniqueOK(h)
  <2> SUFFICES ASSUME NEW x \in Remotes, h.queue[x] # <<>>
               PROVE  /\ h.queue[x][1].remote = x
                      /\ ~h.queue[x][1].allowReplacement
                      /\ x # Bus => Tail(h.queue[x]) = <<>>
                      /\ h.haveHello[x]
                      /\ h.services[x] # <<>> /\ h.services[x][1] = x
    BY DEF UniqueOK
  <2>1. h.queue[x] = g.queue[x] /\ (x = n => x # r)
    BY <1>4
  <2>2. g.services[x] # <<>> /\ g.services[x][1] = x
    BY <2>1 DEF UniqueOK
  <2>3. h.services[x] # <<>> /\ h.services[x][1] = x
    <3>1. CASE x = r /\ n \in g.hash
      BY <3>1, <2>1, <2>2, <1>1, <1>3, RemoveFirstKeepsFirst
    <3>2. CASE ~(x = r /\ n \in g.hash)
      BY <3>2, <2>2, <1>3
    <3>3. QED
      BY <3>1, <3>2
  <2>4. QED
    BY <2>1, <2>3, <1>3 DEF UniqueOK
<1>6. BusOnce(h)
  <2> SUFFICES ASSUME NEW m \in Services, NEW i \in DOMAIN h.queue[m],
                      h.queue[m][i].remote = Bus
               PROVE  m = Bus /\ i = 1
    BY DEF BusOnce
  <2>1. CASE h.queue[m] = g.queue[m]
    BY <2>1 DEF BusOnce
  <2>2. CASE m = n /\ n \in g.hash /\ Head1(g, n) = r /\ h.queue[m] = Tail(g.queue[m])
    <3>1. g.queue[m] \in Seq(ServiceOwner) /\ g.queue[m] # <<>>
      BY <2>2, <1>1 DEF HashOK
    <3>2. i + 1 \in DOMAIN g.queue[m] /\ h.queue[m][i] = g.queue[m][i + 1] /\ i \in Nat \ {0}
      BY <3>1, <2>2
    <3>3. i + 1 = 1
      BY <3>2 DEF BusOnce
    <3>4. QED
      BY <3>2, <3>3
  <2>3. QED
    BY <1>2, <2>1, <2>2
<1>7. QED
  BY <1>5, <1>6

(* The queues after requestname: only that of n changes, and only r may be new. *)
LEMMA RequestedQueues ==
  ASSUME NEW g, RegOK(g), NEW h, NEW r \in Remotes, NEW n \in Services, NEW flags,
         RequestDone(g, h, r, n, flags)
  PROVE  /\ \A m \in Services \ {n} : h.queue[m] = g.queue[m]
         /\ h.queue[n] \in Seq(ServiceOwner) /\ h.queue[n] # <<>>
         /\ \A i \in DOMAIN h.queue[n] :
              \/ h.queue[n][i] = Entry(r, flags)
              \/ i \in DOMAIN g.queue[n] /\ h.queue[n][i].remote = g.queue[n][i].remote
<1>1. g.queue \in [Services -> Seq(ServiceOwner)]
  BY DEF RegOK, Registry
<1> DEFINE p == g.queue[n]
           e == Entry(r, flags)
<1>2. e \in ServiceOwner /\ e.remote = r /\ p \in Seq(ServiceOwner)
  BY <1>1, EntryType
<1>3. ASSUME NEW q \in Seq(ServiceOwner), q # <<>>, h.queue = [g.queue EXCEPT ![n] = q],
             \A i \in DOMAIN q : \/ q[i] = e
                                 \/ i \in DOMAIN p /\ q[i].remote = p[i].remote
      PROVE  /\ \A m \in Services \ {n} : h.queue[m] = g.queue[m]
             /\ h.queue[n] \in Seq(ServiceOwner) /\ h.queue[n] # <<>>
             /\ \A i \in DOMAIN h.queue[n] :
                  \/ h.queue[n][i] = e
                  \/ i \in DOMAIN p /\ h.queue[n][i].remote = p[i].remote
  BY <1>1, <1>3
<1> HIDE DEF p, e
<1>4. CASE h.queue = [g.queue EXCEPT ![n] = <<e>>]
  <2>1. <<e>> \in Seq(ServiceOwner) /\ <<e>> # <<>> /\ \A i \in DOMAIN <<e>> : <<e>>[i] = e
    BY <1>2
  <2>2. QED
    BY <1>3, <1>4, <2>1 DEF p, e
<1>5. CASE p # <<>> /\ h.queue = [g.queue EXCEPT ![n] = [p EXCEPT ![1] = e]]
  <2> DEFINE q == [p EXCEPT ![1] = e]
  <2>1. /\ q \in Seq(ServiceOwner) /\ q # <<>>
        /\ \A i \in DOMAIN q : \/ q[i] = e
                               \/ i \in DOMAIN p /\ q[i].remote = p[i].remote
    BY <1>2, <1>5
  <2> HIDE DEF q
  <2>2. h.queue = [g.queue EXCEPT ![n] = q]
    BY <1>5 DEF q
  <2>3. QED
    BY <1>3, <2>1, <2>2 DEF p, e
<1>6. CASE p # <<>> /\ \E q : SamePlaces(p, q) /\ h.queue = [g.queue EXCEPT ![n] = q]
  <2>1. PICK q : SamePlaces(p, q) /\ h.queue = [g.queue EXCEPT ![n] = q]
    BY <1>6
  <2>2. /\ q \in Seq(ServiceOwner) /\ q # <<>>
        /\ \A i \in DOMAIN q : i \in DOMAIN p /\ q[i].remote = p[i].remote
    BY <1>2, <1>6, <2>1 DEF SamePlaces
  <2>3. QED
    BY <1>3, <2>1, <2>2 DEF p, e
<1>7. CASE h.queue = [g.queue EXCEPT ![n] = Append(p, e)]
  <2> DEFINE q == Append(p, e)
  <2>1. /\ q \in Seq(ServiceOwner) /\ q # <<>>
        /\ \A i \in DOMAIN q : q[i] = e \/ (i \in DOMAIN p /\ q[i] = p[i])
    BY <1>2
  <2> HIDE DEF q
  <2>2. h.queue = [g.queue EXCEPT ![n] = q]
    BY <1>7 DEF q
  <2>3. QED
    BY <1>3, <2>1, <2>2 DEF p, e
<1>8. CASE p # <<>> /\ h.queue = g.queue
  BY <1>2, <1>8 DEF p, e
<1>9. QED
  BY <1>4, <1>5, <1>6, <1>7, <1>8
  DEF RequestDone, Freely, Again, Replaced, Waits, Refused, p, e

(* The same for one service. *)
LEMMA RequestedElsewhere ==
  ASSUME NEW g, RegOK(g), NEW h, NEW r \in Remotes, NEW n \in Services, NEW flags,
         RequestDone(g, h, r, n, flags), NEW m \in Services, m # n
  PROVE  h.queue[m] = g.queue[m]
BY RequestedQueues

(* The members of the queues after requestname. *)
LEMMA RequestedMembers ==
  ASSUME NEW g, RegOK(g), NEW h, NEW r \in Remotes, NEW n \in Services, NEW flags,
         RequestDone(g, h, r, n, flags)
  PROVE  \A m \in Services : Queued(h, m) \subseteq Queued(g, m) \cup {r}
<1>1. /\ \A m \in Services \ {n} : h.queue[m] = g.queue[m]
      /\ \A i \in DOMAIN h.queue[n] :
           \/ h.queue[n][i] = Entry(r, flags)
           \/ i \in DOMAIN g.queue[n] /\ h.queue[n][i].remote = g.queue[n][i].remote
  BY RequestedQueues
<1>2. Entry(r, flags).remote = r
  BY EntryType
<1>3. QED
  BY <1>1, <1>2 DEF Queued

(* A call that the server lets through: RequestName on a well known name or the bus
   name, or the request of Hello. *)
Allowed(g, r, n, flags) ==
  \/ /\ r # Bus
     /\ n \in Names \/ (n = Bus /\ g.queue[Bus] # <<>>)
  \/ /\ n = r
     /\ g.queue[r] = <<>>
     /\ g.services[r] = <<>>
     /\ flags = {}

(* requestname keeps unique names in order. *)
LEMMA RequestUnique ==
  ASSUME NEW g, RegOK(g), UniqueOK(g), BusOnce(g), NEW h, NEW r \in Remotes,
         NEW n \in Services, NEW flags, RequestDone(g, h, r, n, flags),
         g.haveHello[r], Allowed(g, r, n, flags)
  PROVE  UniqueOK(h) /\ BusOnce(h)
<1>1. /\ g.queue \in [Services -> Seq(ServiceOwner)]
      /\ g.services \in [Remotes -> Seq(Services)]
      /\ \A x \in Remotes : NoDup(g.services[x])
  BY DEF RegOK, Registry, LinksOK
<1>2. /\ \A m \in Services \ {n} : h.queue[m] = g.queue[m]
      /\ \A i \in DOMAIN h.queue[n] :
           \/ h.queue[n][i] = Entry(r, flags)
           \/ i \in DOMAIN g.queue[n] /\ h.queue[n][i].remote = g.queue[n][i].remote
  BY RequestedQueues
<1>3. Entry(r, flags).remote = r
  BY EntryType
<1>4. BusOnce(h)
  <2> SUFFICES ASSUME NEW m \in Services, NEW i \in DOMAIN h.queue[m],
                      h.queue[m][i].remote = Bus
               PROVE  m = Bus /\ i = 1
    BY DEF BusOnce
  <2>1. CASE m # n
    BY <2>1, <1>2 DEF BusOnce
  <2>2. CASE m = n /\ r # Bus
    BY <2>2, <1>2, <1>3 DEF BusOnce
  <2>3. CASE m = n /\ r = Bus
    <3>1. n = Bus /\ g.queue[n] = <<>>
      BY <2>3 DEF Allowed
    <3>2. h.queue[n] = <<Entry(r, flags)>>
      BY <3>1, <1>1 DEF RequestDone, Freely, Again, Replaced, Waits, Refused
    <3>3. QED
      BY <3>1, <3>2, <2>3
  <2>4. QED
    BY <2>1, <2>2, <2>3
<1>5. ASSUME NEW x \in Remotes, g.queue[x] # <<>>
      PROVE  /\ h.queue[x][1] = g.queue[x][1]
             /\ x # Bus => h.queue[x] = g.queue[x]
             /\ h.services[x] # <<>> /\ h.services[x][1] = x
  <2>1. x \in Services /\ x \notin Names
    BY NamesAssumption DEF Services
  <2>2. g.services[x] # <<>> /\ g.services[x][1] = x /\ Head1(g, x) = x
    BY <1>5 DEF UniqueOK, Head1
  <2>3. x = n => n = Bus /\ r # Bus
    BY <2>1, <1>5 DEF Allowed
  <2>4. x # Bus => h.queue[x] = g.queue[x]
    BY <2>1, <2>3, <1>2
  <2>5. x = n => Waits(g, h, r, n, flags) \/ Refused(g, h, r, n, flags)
    <3>1. x = n => ~MayReplace(g, n, flags) /\ Head1(g, n) # r /\ g.queue[n] # <<>>
      BY <2>2, <2>3, <1>5 DEF UniqueOK, MayReplace
    <3>2. QED
      BY <3>1 DEF RequestDone, Freely, Again, Replaced
  <2>6. h.queue[x][1] = g.queue[x][1]
    <3>1. CASE x # n
      BY <3>1, <2>1, <1>2
    <3>2. CASE x = n /\ Refused(g, h, r, n, flags)
      BY <3>2 DEF Refused
    <3>3. CASE x = n /\ \E q : SamePlaces(g.queue[n], q) /\ h.queue = [g.queue EXCEPT ![n] = q]
      BY <3>3, <1>1 DEF SamePlaces
    <3>4. CASE x = n /\ h.queue = [g.queue EXCEPT ![n] = Append(g.queue[n], Entry(r, flags))]
      <4>1. h.queue[n] = Append(g.queue[n], Entry(r, flags))
        BY <3>4, <1>1
      <4>2. Entry(r, flags) \in ServiceOwner /\ g.queue[n] \in Seq(ServiceOwner)
        BY <1>1, EntryType
      <4>3. Append(g.queue[n], Entry(r, flags))[1] = g.queue[n][1]
        BY <4>2, <3>4, <1>5
      <4>4. QED
        BY <4>1, <4>3, <3>4
    <3>5. QED
      BY <2>5, <3>1, <3>2, <3>3, <3>4 DEF Waits
  <2>7. h.services[x] # <<>> /\ h.services[x][1] = x
    <3> DEFINE s == g.services[x]
    <3>1. /\ Append(s, n) # <<>> /\ Append(s, n)[1] = x
      <4>1. s \in Seq(Services) /\ s # <<>> /\ s[1] = x
        BY <1>1, <2>2
      <4> HIDE DEF s
      <4>2. QED
        BY <4>1
    <3>2. x # n => RemoveFirst(s, n) # <<>> /\ RemoveFirst(s, n)[1] = x
      BY <1>1, <2>2, RemoveFirstKeepsFirst
    <3> HIDE DEF s
    <3>3. x = n => h.services[x] = s
      <4>1. CASE x = n
        <5>1. x # r
          BY <4>1, <2>3
        <5>2. QED
          BY <4>1, <5>1, <2>5, <1>1 DEF Waits, Refused, s
      <4>2. QED
        BY <4>1
    <3>4. x # n => h.services[x] \in {s, Append(s, n), RemoveFirst(s, n)}
      <4>1. CASE Replaced(g, h, r, n, flags)
        <5>1. Head1(g, n) # r
          BY <4>1 DEF Replaced
        <5>2. QED
          BY <4>1, <5>1, <1>1 DEF Replaced, s
      <4>2. CASE ~Replaced(g, h, r, n, flags)
        BY <4>2, <1>1, ZenonT(30) DEF RequestDone, Freely, Again, Waits, Refused, s
      <4>3. QED
        BY <4>1, <4>2
    <3>5. s # <<>> /\ s[1] = x
      BY <2>2 DEF s
    <3>6. QED
      BY <3>1, <3>2, <3>3, <3>4, <3>5
  <2>8. QED
    BY <2>4, <2>6, <2>7
<1>6. ASSUME NEW x \in Remotes, g.queue[x] = <<>>, h.queue[x] # <<>>
      PROVE  /\ h.queue[x] = <<Entry(x, {})>>
             /\ h.services[x] = <<x>>
             /\ x = r
  <2>1. x \in Services /\ x \notin Names
    BY NamesAssumption DEF Services
  <2>2. x = n
    BY <2>1, <1>2, <1>6
  <2>3. n = r /\ flags = {} /\ g.services[r] = <<>>
    BY <2>1, <2>2, <1>6 DEF Allowed
  <2>4. Freely(g, h, r, n, flags)
    BY <2>2, <1>6 DEF RequestDone, Again, Replaced, Waits, Refused
  <2>5. h.queue[n] = <<Entry(r, flags)>> /\ h.services[r] = Append(<<>>, n)
    BY <2>3, <2>4, <1>1 DEF Freely
  <2>6. QED
    BY <2>2, <2>3, <2>5
<1>7. UniqueOK(h)
  <2> SUFFICES ASSUME NEW x \in Remotes, h.queue[x] # <<>>
               PROVE  /\ h.queue[x][1].remote = x
                      /\ ~h.queue[x][1].allowReplacement
                      /\ x # Bus => Tail(h.queue[x]) = <<>>
                      /\ h.haveHello[x]
                      /\ h.services[x] # <<>> /\ h.services[x][1] = x
    BY DEF UniqueOK
  <2>1. h.haveHello = g.haveHello
    BY DEF RequestDone
  <2>2. CASE g.queue[x] # <<>>
    BY <2>1, <2>2, <1>5 DEF UniqueOK
  <2>3. CASE g.queue[x] = <<>>
    <3>1. h.queue[x] = <<Entry(x, {})>> /\ h.services[x] = <<x>> /\ x = r
      BY <2>3, <1>6
    <3>2. Entry(x, {}).remote = x /\ ~Entry(x, {}).allowReplacement
      BY DEF Entry
    <3>3. QED
      BY <2>1, <3>1, <3>2
  <2>4. QED
    BY <2>2, <2>3
<1>8. QED
  BY <1>4, <1>7

-----------------------------------------------------------------------------
(***************************************************************************)
(* What a remote believes to hold follows what it owns.                    *)
(***************************************************************************)
Follows(g, h, n) ==
  /\ \A m \in Services \ {n} : Direct(h, m) = Direct(g, m)
  /\ \/ Untold(g, h) /\ Direct(h, n) = Direct(g, n)
     \/ Announced(g, h, n, Direct(g, n), Direct(h, n))

(* Owning is being the receiver of what is sent to the name. *)
LEMMA OwnedDirect ==
  ASSUME NEW g, RegOK(g), NEW x \in Remotes
  PROVE  Owned(g, x) = {n \in Services : Direct(g, n) = x}
<1>1. g.hash \in SUBSET Services /\ HashOK(g) /\ x # None
  BY NamesAssumption DEF RegOK, Registry
<1>2. QED
  BY <1>1 DEF Owned, Direct, HashOK

(* releasename announces every change of owner. *)
LEMMA ReleaseFollows ==
  ASSUME NEW g, RegOK(g), NEW h, NEW r \in Remotes, NEW n \in Services, Released(g, h, r, n)
  PROVE  Follows(g, h, n)
<1>1. /\ \A m \in Services \ {n} : h.queue[m] = g.queue[m]
      /\ h.queue[n] = IF n \in g.hash /\ Head1(g, n) = r THEN Tail(g.queue[n]) ELSE g.queue[n]
  BY ReleasedQueues
<1>2. \A m \in Services \ {n} : Direct(h, m) = Direct(g, m)
  BY <1>1 DEF Direct, Head1
<1>3. CASE n \in g.hash /\ Head1(g, n) = r
  <2>1. Direct(g, n) = r
    BY <1>3 DEF RegOK, HashOK, Direct
  <2>2. Announced(g, h, n, r, Direct(h, n))
    BY <1>1, <1>3 DEF Released, Direct, Head1
  <2>3. QED
    BY <1>2, <2>1, <2>2 DEF Follows
<1>4. CASE ~(n \in g.hash /\ Head1(g, n) = r)
  BY <1>1, <1>2, <1>4 DEF Released, Follows, Direct, Head1
<1>5. QED
  BY <1>3, <1>4

(* requestname announces every change of owner. *)
LEMMA RequestFollows ==
  ASSUME NEW g, RegOK(g), NEW h, NEW r \in Remotes, NEW n \in Services, NEW flags,
         RequestDone(g, h, r, n, flags)
  PROVE  Follows(g, h, n)
<1>1. g.queue \in [Services -> Seq(ServiceOwner)]
  BY DEF RegOK, Registry
<1>2. \A m \in Services \ {n} : h.queue[m] = g.queue[m]
  BY RequestedQueues
<1>3. \A m \in Services \ {n} : Direct(h, m) = Direct(g, m)
  BY <1>2 DEF Direct, Head1
<1>4. h.queue[n] # <<>> /\ Direct(h, n) = h.queue[n][1].remote
  <2>1. h.queue[n] # <<>>
    BY RequestedQueues, ZenonT(30)
  <2>2. QED
    BY <2>1 DEF Direct, Head1
<1>5. Entry(r, flags).remote = r
  BY EntryType
<1>6. CASE Freely(g, h, r, n, flags)
  <2>1. h.queue[n] = <<Entry(r, flags)>> /\ Direct(g, n) = None
    BY <1>1, <1>6 DEF Freely, Direct
  <2>2. Direct(h, n) = r
    BY <2>1, <1>4, <1>5
  <2>3. QED
    BY <2>1, <2>2, <1>3, <1>6 DEF Freely, Follows
<1>7. CASE Again(g, h, r, n, flags) \/ Replaced(g, h, r, n, flags)
  <2>1. h.queue[n] = [g.queue[n] EXCEPT ![1] = Entry(r, flags)] /\ g.queue[n] # <<>>
    BY <1>1, <1>7 DEF Again, Replaced
  <2>2. 1 \in DOMAIN g.queue[n] /\ Direct(g, n) = Head1(g, n)
    BY <1>1, <2>1 DEF Direct
  <2>3. Direct(h, n) = r
    BY <2>1, <2>2, <1>4, <1>5
  <2>4. QED
    BY <2>2, <2>3, <1>3, <1>7 DEF Again, Replaced, Follows
<1>8. CASE Waits(g, h, r, n, flags)
  <2>1. Direct(g, n) = g.queue[n][1].remote /\ g.queue[n] # <<>> /\ g.queue[n] \in Seq(ServiceOwner)
    BY <1>1, <1>8 DEF Waits, Direct, Head1
  <2>2. h.queue[n][1] = g.queue[n][1]
    <3>1. CASE \E q : SamePlaces(g.queue[n], q) /\ h.queue = [g.queue EXCEPT ![n] = q]
      BY <3>1, <1>1 DEF SamePlaces
    <3>2. CASE h.queue = [g.queue EXCEPT ![n] = Append(g.queue[n], Entry(r, flags))]
      <4>1. h.queue[n] = Append(g.queue[n], Entry(r, flags)) /\ Entry(r, flags) \in ServiceOwner
        BY <3>2, <1>1, EntryType
      <4>2. Append(g.queue[n], Entry(r, flags))[1] = g.queue[n][1]
        BY <4>1, <2>1
      <4>3. QED
        BY <4>1, <4>2
    <3>3. QED
      BY <1>8, <3>1, <3>2 DEF Waits
  <2>3. QED
    BY <2>1, <2>2, <1>3, <1>4, <1>8 DEF Waits, Follows
<1>9. CASE Refused(g, h, r, n, flags)
  BY <1>3, <1>9 DEF Refused, Follows, Direct, Head1
<1>10. QED
  BY <1>6, <1>7, <1>8, <1>9 DEF RequestDone

(* A remote that can be reached when it gains or loses a name knows what it owns. *)
LEMMA HeldStep ==
  ASSUME NEW g, RegOK(g), NEW h, RegOK(h), UniqueOK(h), NEW n \in Services,
         Follows(g, h, n), NEW x \in Remotes, g.held[x] = Owned(g, x),
         x \in {Direct(g, n), Direct(h, n)} => h.haveHello[x] /\ h.queue[x] # <<>>
  PROVE  h.held[x] = Owned(h, x)
<1> DEFINE old == Direct(g, n)
           new == Direct(h, n)
<1>1. /\ Owned(g, x) = {m \in Services : Direct(g, m) = x}
      /\ Owned(h, x) = {m \in Services : Direct(h, m) = x}
  BY OwnedDirect
<1>2. CASE Untold(g, h) /\ new = old
  <2>1. \A m \in Services : Direct(h, m) = Direct(g, m)
    BY <1>2 DEF Follows
  <2>2. Owned(h, x) = Owned(g, x)
    BY <1>1, <2>1
  <2>3. QED
    BY <1>2, <2>2 DEF Untold
<1>3. CASE Announced(g, h, n, old, new)
  <2>1. \A m \in Services \ {n} : Direct(h, m) = Direct(g, m)
    BY DEF Follows
  <2>2. x # None
    BY NamesAssumption
  <2>3. old \in Remotes \cup {None} /\ new \in Remotes \cup {None}
    BY HeadIsRemote DEF RegOK, Direct
  <2>4. \A o \in Remotes : Direct(h, o) = IF h.queue[o] = <<>> THEN None ELSE o
    BY DirectUnique
  <2>5. (old # None /\ h.haveHello[old] /\ Direct(h, old) = x) <=> old = x
    BY <2>2, <2>3, <2>4
  <2>6. (new # None /\ Direct(h, new) = x) <=> new = x
    BY <2>2, <2>3, <2>4
  <2>7. h.held[x] = (IF old = x THEN g.held[x] \ {n} ELSE g.held[x])
                    \cup (IF new = x THEN {n} ELSE {})
    BY <1>3, <2>5, <2>6 DEF Announced
  <2> HIDE DEF old, new
  <2>8. \A m \in Services :
          m \in Owned(h, x) <=> IF m = n THEN new = x ELSE m \in Owned(g, x)
    BY <1>1, <2>1 DEF new
  <2>9. n \in Owned(g, x) <=> old = x
    BY <1>1 DEF old
  <2>10. Owned(h, x) \subseteq Services /\ Owned(g, x) \subseteq Services
    BY <1>1
  <2>11. QED
    BY <2>7, <2>8, <2>9, <2>10
<1>4. QED
  BY <1>2, <1>3 DEF Follows

-----------------------------------------------------------------------------
(***************************************************************************)
(* The inductive invariant of the whole server.                            *)
(***************************************************************************)

(* A remote without hello is in no queue; one with hello is allocated, and owns its
   unique name while it is connected. *)
Introduced ==
  /\ \A x \in Live : ~reg.haveHello[x] => \A n \in Services : x \notin Queued(reg, n)
  /\ \A x \in Remotes : reg.haveHello[x] => x \in Live
  /\ \A x \in ToSet(remotes) : reg.haveHello[x] => reg.queue[x] # <<>>

HeldOK ==
  /\ \A x \in ToSet(remotes) : reg.held[x] = Owned(reg, x)
  /\ \A x \in Remotes \ Live : reg.held[x] = {}

(* The bus remote is connected first and, the list being newest first, goes last; a
   remote that is being disconnected has left the list. *)
BusLast ==
  /\ closing \notin ToSet(remotes)
  /\ remotes # <<>> => remotes[Len(remotes)] = Bus
  /\ phase = "running" => remotes # <<>>
  /\ closing \notin {None, Bus} => remotes # <<>>
  /\ closing = Bus => remotes = <<>>

BusIntroduced == Bus \in ToSet(remotes) => reg.haveHello[Bus]

TellInv ==
  /\ IInv
  /\ BusLast
  /\ phase # "stopped" =>
       UniqueOK(reg) /\ BusOnce(reg) /\ Introduced /\ HeldOK /\ BusIntroduced

(* A step of the registry alone, taken by the remote r for the service n. *)
LEMMA TellStep ==
  ASSUME TellInv, phase # "stopped", IInv', UniqueOK(reg'), BusOnce(reg'),
         NEW r \in Live, NEW n \in Services,
         UNCHANGED <<remotes, closing, phase>>,
         reg'.haveHello[r],
         \A x \in Remotes : x # r => (reg'.haveHello[x] <=> reg.haveHello[x]),
         \A m \in Services : Queued(reg', m) \subseteq Queued(reg, m) \cup {r},
         Follows(reg, reg', n),
         \A x \in ToSet(remotes) : reg'.haveHello[x] => reg'.queue[x] # <<>>
  PROVE  TellInv'
<1>1. /\ Live' = Live /\ ToSet(remotes)' = ToSet(remotes)
      /\ RegOK(reg) /\ RegOK(reg')
  BY DEF Live, ToSet, TellInv, IInv, RegOK
<1>2. ToSet(remotes) \subseteq Live /\ Live \subseteq Remotes
  BY DEF TellInv, IInv, ServerOK, Live, ToSet
<1>3. Introduced /\ HeldOK /\ BusIntroduced /\ UniqueOK(reg)
  BY DEF TellInv
<1>4. BusLast'
  BY DEF TellInv, BusLast
<1>5. BusIntroduced'
  BY <1>1, <1>3, BusAssumption DEF BusIntroduced
<1>6. Introduced'
  <2>1. \A x \in Live : ~reg'.haveHello[x] => \A m \in Services : x \notin Queued(reg', m)
    BY <1>2, <1>3 DEF Introduced
  <2>2. \A x \in Remotes : reg'.haveHello[x] => x \in Live
    BY <1>3 DEF Introduced
  <2>3. QED
    BY <1>1, <2>1, <2>2 DEF Introduced
<1>7. ASSUME NEW x \in Live, x \in ToSet(remotes)
      PROVE  reg'.held[x] = Owned(reg', x)
  <2>1. ASSUME NEW g, RegOK(g), Direct(g, n) = x
        PROVE  x \in Queued(g, n)
    <3>1. g.queue[n] # <<>> /\ Head1(g, n) = x
      BY <2>1, <1>2, NamesAssumption DEF Direct
    <3>2. QED
      BY <2>1, <3>1, QueueTail DEF RegOK
  <2>2. x = Direct(reg, n) => reg.haveHello[x]
    BY <2>1, <1>1, <1>3 DEF Introduced
  <2>3. x = Direct(reg', n) => reg'.haveHello[x]
    BY <2>1, <1>1, <1>6 DEF Introduced
  <2>4. x \in {Direct(reg, n), Direct(reg', n)} => reg'.haveHello[x] /\ reg'.queue[x] # <<>>
    BY <2>2, <2>3, <1>2, <1>7
  <2>5. reg.held[x] = Owned(reg, x)
    BY <1>3, <1>7 DEF HeldOK
  <2>6. x \in Remotes
    BY <1>2
  <2>7. QED
    BY <2>4, <2>5, <2>6, <1>1, HeldStep
<1>8. ASSUME NEW x \in Remotes \ Live
      PROVE  reg'.held[x] = {}
  <2>1. reg.held[x] = {} /\ x # None
    BY <1>3, NamesAssumption DEF HeldOK
  <2>2. ~reg'.haveHello[x]
    BY <1>3 DEF Introduced
  <2>3. \A o \in Remotes : Direct(reg', o) # x
    <3> SUFFICES ASSUME NEW o \in Remotes, Direct(reg', o) = x
                 PROVE  FALSE
      OBVIOUS
    <3>1. o = x /\ reg'.queue[x] # <<>>
      BY <2>1, DirectUnique
    <3>2. QED
      BY <2>2, <3>1 DEF UniqueOK
  <2>4. Direct(reg, n) \in Remotes \cup {None} /\ Direct(reg', n) \in Remotes \cup {None}
    BY <1>1, HeadIsRemote DEF RegOK, Direct
  <2>5. QED
    BY <2>1, <2>3, <2>4 DEF Follows, Untold, Announced
<1>9. HeldOK'
  BY <1>1, <1>2, <1>7, <1>8 DEF HeldOK
<1>10. QED
  BY <1>4, <1>5, <1>6, <1>9 DEF TellInv

(* A remote that lists a service has had its hello. *)
LEMMA ListerIntroduced ==
  ASSUME TellInv, phase # "stopped", NEW x \in Remotes, x \in Live, reg.services[x] # <<>>
  PROVE  reg.haveHello[x] /\ reg.services[x][1] \in Services
<1>1. reg.services[x] \in Seq(Services)
  BY DEF TellInv, IInv, Registry
<1>2. 1 \in DOMAIN reg.services[x] /\ reg.services[x][1] \in Services
  BY <1>1
<1>3. x \in Queued(reg, reg.services[x][1])
  BY <1>2 DEF TellInv, IInv, LinksOK
<1>4. QED
  BY <1>2, <1>3 DEF TellInv, Introduced

(* When the bus remote is disconnected, at the end of adbus_serv_free, nobody waits
   for its name any more: who did is freed, and the model has stopped. *)
LEMMA NobodyBehindBus ==
  ASSUME TellInv, phase # "stopped", Defined, closing = Bus, reg.queue[Bus] # <<>>
  PROVE  Tail(reg.queue[Bus]) = <<>>
<1> DEFINE q == reg.queue[Bus]
<1>1. Bus \in Services /\ q \in Seq(ServiceOwner) /\ q # <<>>
  BY BusAssumption DEF Services, TellInv, IInv, Registry
<1>2. Live = {Bus}
  BY NamesAssumption, BusAssumption DEF TellInv, BusLast, Live, ToSet
<1>3. \A i \in DOMAIN q : q[i].remote = Bus
  <2>1. Queued(reg, Bus) \subseteq {Bus}
    BY <1>1, <1>2 DEF Defined
  <2>2. QED
    BY <2>1 DEF Queued
<1>4. \A i \in DOMAIN q : i = 1
  BY <1>1, <1>3 DEF TellInv, BusOnce
<1> HIDE DEF q
<1>5. DOMAIN q = 1..Len(q) /\ Len(q) \in Nat
  BY <1>1
<1>6. Len(q) <= 1
  <2> SUFFICES ASSUME Len(q) >= 2
               PROVE  FALSE
    BY <1>5
  <2>1. 2 \in DOMAIN q
    BY <1>5
  <2>2. QED
    BY <2>1, <1>4
<1>7. Tail(q) = <<>>
  BY <1>1, <1>5, <1>6
<1>8. QED
  BY <1>7 DEF q

(* After the first turn of the loop of adbus_remote_disconnect the unique name of the
   remote has no owner. *)
LEMMA UniqueGoesFirst ==
  ASSUME TellInv, phase # "stopped", DisconnectRelease
  PROVE  /\ Released(reg, reg', closing, reg.services[closing][1])
         /\ UniqueOK(reg') /\ BusOnce(reg')
         /\ reg'.queue[closing] = <<>>
<1> DEFINE n == reg.services[closing][1]
<1>1. /\ closing \in Remotes /\ closing \in Live /\ closing \in Services
      /\ reg.services[closing] # <<>> /\ Defined
      /\ reg' = releasename(reg, closing, n)
  BY DEF DisconnectRelease, TellInv, IInv, ServerOK, Live, Services
<1>2. n \in Services /\ reg.haveHello[closing]
  BY <1>1, ListerIntroduced
<1>3. RegOK(reg) /\ UniqueOK(reg) /\ BusOnce(reg)
  BY DEF TellInv, IInv, RegOK
<1> HIDE DEF n
<1>4. Released(reg, reg', closing, n)
  BY <1>1, <1>2, <1>3, ReleaseEffect
<1>5. closing = Bus /\ reg.queue[Bus] # <<>> => Tail(reg.queue[Bus]) = <<>>
  BY <1>1, NobodyBehindBus
<1>6. UniqueOK(reg') /\ BusOnce(reg')
  BY <1>1, <1>2, <1>3, <1>4, <1>5, ReleaseUnique
<1>7. /\ \A m \in Services \ {n} : reg'.queue[m] = reg.queue[m]
      /\ reg'.queue[n] = IF n \in reg.hash /\ Head1(reg, n) = closing
                         THEN Tail(reg.queue[n]) ELSE reg.queue[n]
  <2>1. ASSUME NEW g, NEW h, NEW c \in Remotes, NEW m \in Services, RegOK(g), Released(g, h, c, m)
        PROVE  /\ \A k \in Services \ {m} : h.queue[k] = g.queue[k]
               /\ h.queue[m] = IF m \in g.hash /\ Head1(g, m) = c
                               THEN Tail(g.queue[m]) ELSE g.queue[m]
    BY <2>1, ReleasedQueues
  <2>2. closing \in Remotes /\ n \in Services /\ RegOK(reg) /\ Released(reg, reg', closing, n)
    BY <1>1, <1>2, <1>3, <1>4
  <2>3. \A m \in Services \ {n} : reg'.queue[m] = reg.queue[m]
    BY <2>1, <2>2
  <2>4. reg'.queue[n] = IF n \in reg.hash /\ Head1(reg, n) = closing
                         THEN Tail(reg.queue[n]) ELSE reg.queue[n]
    BY <2>1, <2>2
  <2>5. QED
    BY <2>3, <2>4
<1>8. CASE reg.queue[closing] = <<>>
  <2>1. closing \notin reg.hash
    BY <1>1, <1>3, <1>8 DEF RegOK, HashOK
  <2>2. QED
    BY <2>1, <1>1, <1>4, <1>6, <1>7, <1>8 DEF n
<1>9. CASE reg.queue[closing] # <<>>
  <2>1. /\ n = closing /\ Head1(reg, closing) = closing
        /\ closing # Bus => Tail(reg.queue[closing]) = <<>>
    BY <1>1, <1>3, <1>9 DEF UniqueOK, Head1, n
  <2>2. closing \in reg.hash
    BY <1>1, <1>3, <1>9 DEF RegOK, HashOK
  <2>3. Tail(reg.queue[closing]) = <<>>
    BY <2>1, <1>5, <1>9
  <2>4. QED
    BY <2>1, <2>2, <2>3, <1>4, <1>6, <1>7 DEF n
<1>10. QED
  BY <1>8, <1>9

(* The list of remotes after the start of adbus_remote_disconnect. *)
LEMMA LeaveList ==
  ASSUME NEW S, NEW s \in Seq(S), NoDup(s), s # <<>>, NEW e \in ToSet(s),
         NEW last, s[Len(s)] = last, e = last => s[1] = e
  PROVE  /\ ToSet(RemoveFirst(s, e)) = ToSet(s) \ {e}
         /\ e = last => RemoveFirst(s, e) = <<>>
         /\ e # last => LET t == RemoveFirst(s, e) IN t # <<>> /\ t[Len(t)] = last
<1>1. PICK k \in DOMAIN s : s[k] = e
  BY DEF ToSet
<1> DEFINE t == RemoveAt(s, k)
<1>2. DOMAIN s = 1..Len(s) /\ Len(s) \in Nat /\ Len(s) >= 1
  BY <1>1
<1>3. RemoveFirst(s, e) = t
  BY <1>1, <1>2, RemoveFirstAt
<1>4. /\ t \in Seq(S)
      /\ Len(t) = Len(s) - 1
      /\ \A i \in 1..(Len(s) - 1) : t[i] = IF i < k THEN s[i] ELSE s[i + 1]
  BY <1>2, RemoveAtProperties
<1> HIDE DEF t
<1>5. ToSet(t) = ToSet(s) \ {e}
  <2>1. /\ \A i \in DOMAIN t : t[i] # e /\ \E j \in DOMAIN s : t[i] = s[j]
        /\ \A j \in DOMAIN s : s[j] # e => \E i \in DOMAIN t : t[i] = s[j]
    <3>1. /\ \A i \in DOMAIN RemoveFirst(s, e) :
               RemoveFirst(s, e)[i] # e /\ \E j \in DOMAIN s : RemoveFirst(s, e)[i] = s[j]
          /\ \A j \in DOMAIN s :
               s[j] # e => \E i \in DOMAIN RemoveFirst(s, e) : RemoveFirst(s, e)[i] = s[j]
      BY RemoveFirstProperties
    <3>2. QED
      BY <3>1, <1>3
  <2>2. QED
    BY <2>1 DEF ToSet
<1>6. CASE e = last
  <2>1. 1 = Len(s)
    BY <1>2, <1>6 DEF NoDup
  <2>2. t = <<>>
    BY <2>1, <1>4
  <2>3. QED
    BY <2>2, <1>3, <1>5, <1>6
<1>7. CASE e # last
  <2>1. k # Len(s) /\ k < Len(s)
    BY <1>1, <1>2, <1>7
  <2>2. Len(t) \in 1..(Len(s) - 1) /\ ~(Len(t) < k)
    BY <2>1, <1>2, <1>4
  <2>3. t[Len(t)] = s[Len(s)] /\ t # <<>>
    BY <2>2, <1>2, <1>4
  <2>4. QED
    BY <2>3, <1>3, <1>5, <1>7
<1>8. QED
  BY <1>6, <1>7

(* The start of adbus_remote_disconnect keeps the invariant; the bus remote is only
   disconnected when it is first in the list, so alone. *)
LEMMA TellClosing ==
  ASSUME TellInv, phase # "stopped", closing = None, NEW r \in ToSet(remotes),
         r = Bus => remotes[1] = r, r # Bus \/ phase = "stopping", StartClosing(r)
  PROVE  TellInv'
<1>1. /\ remotes \in Seq(Remotes) /\ NoDup(remotes) /\ remotes # <<>> /\ r \in Remotes
      /\ phase \in {"running", "stopping", "stopped"}
  BY DEF TellInv, IInv, ServerOK, ToSet
<1>2. IInv'
  BY <1>1, ClosingStep DEF TellInv
<1>3. /\ closing' = r /\ UNCHANGED <<reg, phase>>
      /\ remotes' = RemoveFirst(remotes, r)
      /\ remotes[Len(remotes)] = Bus
  BY <1>1 DEF StartClosing, TellInv, BusLast
<1>4. /\ ToSet(remotes') = ToSet(remotes) \ {r}
      /\ r = Bus => remotes' = <<>>
      /\ r # Bus => remotes' # <<>> /\ remotes'[Len(remotes')] = Bus
  BY <1>1, <1>3, LeaveList
<1>5. Live' = Live /\ ToSet(remotes)' = ToSet(remotes')
  BY <1>1, <1>3, <1>4, NamesAssumption DEF Live
<1>6. BusLast'
  BY <1>1, <1>3, <1>4, NamesAssumption DEF BusLast
<1>7. Introduced' /\ HeldOK' /\ BusIntroduced' /\ UniqueOK(reg') /\ BusOnce(reg')
  BY <1>3, <1>4, <1>5 DEF TellInv, Introduced, HeldOK, BusIntroduced
<1>8. QED
  BY <1>2, <1>6, <1>7 DEF TellInv

(* adbus_serv_new establishes the invariant. *)
LEMMA InitTell == Init => TellInv
<1> SUFFICES ASSUME Init
             PROVE  TellInv
  OBVIOUS
<1> DEFINE empty == [hash |-> {},
                     queue |-> [n \in Services |-> <<>>],
                     services |-> [r \in Remotes |-> <<>>],
                     haveHello |-> [r \in Remotes |-> r = Bus],
                     seen |-> [n \in Services |-> None],
                     held |-> [r \in Remotes |-> {}]]
<1>1. reg = requestname(empty, Bus, Bus, {}) /\ remotes = <<Bus>> /\ closing = None /\ phase = "running"
  BY DEF Init
<1>2. Bus \in Remotes /\ Bus \in Services /\ None \notin Remotes /\ Remotes \subseteq Services
  BY BusAssumption, NamesAssumption DEF Services
<1>3. /\ empty.hash = {}
      /\ \A n \in Services : empty.queue[n] = <<>>
      /\ \A r \in Remotes : empty.services[r] = <<>> /\ empty.held[r] = {}
      /\ \A r \in Remotes : empty.haveHello[r] <=> r = Bus
  OBVIOUS
<1>4. RegOK(empty)
  <2>1. [r \in Remotes |-> r = Bus] \in [Remotes -> BOOLEAN]
    OBVIOUS
  <2>2. empty \in Registry
    BY <2>1 DEF Registry
  <2> HIDE DEF empty
  <2>3. HashOK(empty) /\ LinksOK(empty)
    BY <1>3 DEF HashOK, LinksOK, NoDup
  <2>4. SeenOK(empty)
    BY <1>3 DEF SeenOK, empty
  <2>5. QED
    BY <2>2, <2>3, <2>4 DEF RegOK
<1> HIDE DEF empty
<1>5. RequestDone(empty, reg, Bus, Bus, {})
  BY <1>1, <1>2, <1>4, RequestEffect
<1>6. UniqueOK(empty) /\ BusOnce(empty)
  BY <1>2, <1>3 DEF UniqueOK, BusOnce
<1>7. UniqueOK(reg) /\ BusOnce(reg)
  <2>1. Allowed(empty, Bus, Bus, {}) /\ empty.haveHello[Bus]
    BY <1>2, <1>3 DEF Allowed
  <2>2. QED
    BY <2>1, <1>2, <1>4, <1>5, <1>6, RequestUnique
<1>8. Live = {Bus} /\ ToSet(remotes) = {Bus}
  BY <1>1 DEF Live, ToSet
<1>9. \A r \in Remotes : reg.haveHello[r] <=> r = Bus
  BY <1>3, <1>5 DEF RequestDone
<1>10. reg.queue[Bus] # <<>>
  <2>1. Freely(empty, reg, Bus, Bus, {})
    BY <1>2, <1>3, <1>5 DEF RequestDone, Again, Replaced, Waits, Refused
  <2>2. empty.queue \in [Services -> Seq(ServiceOwner)]
    BY <1>4 DEF RegOK, Registry
  <2>3. reg.queue[Bus] = <<Entry(Bus, {})>>
    BY <2>1, <2>2, <1>2 DEF Freely
  <2>4. QED
    BY <2>3
<1>11. Introduced /\ BusIntroduced
  BY <1>2, <1>8, <1>9, <1>10 DEF Introduced, BusIntroduced
<1>12. IInv
  BY InitIInv
<1>13. HeldOK
  <2>1. Follows(empty, reg, Bus) /\ RegOK(reg)
    BY <1>1, <1>2, <1>4, <1>5, <1>12, RequestFollows DEF IInv, RegOK
  <2>2. empty.held[Bus] = Owned(empty, Bus)
    BY <1>2, <1>3 DEF Owned
  <2>3. reg.held[Bus] = Owned(reg, Bus)
    BY <2>1, <2>2, <1>2, <1>4, <1>7, <1>9, <1>10, HeldStep
  <2>4. ASSUME NEW x \in Remotes, x # Bus
        PROVE  reg.held[x] = {}
    <3>1. reg.queue[x] = <<>>
      BY <2>4, <1>7, <1>9 DEF UniqueOK
    <3>2. \A o \in Remotes : Direct(reg, o) # x
      BY <3>1, <1>2, <1>7, DirectUnique
    <3>3. Direct(empty, Bus) = None
      BY <1>2, <1>3 DEF Direct
    <3>4. Direct(reg, Bus) \in Remotes
      BY <1>2, <1>10, <2>1, HeadIsRemote DEF Direct, RegOK
    <3>5. QED
      BY <3>2, <3>3, <3>4, <2>1, <1>3 DEF Follows, Untold, Announced
  <2>5. QED
    BY <2>3, <2>4, <1>8 DEF HeldOK
<1>14. BusLast
  BY <1>1, <1>2, <1>8 DEF BusLast
<1>15. QED
  BY <1>7, <1>11, <1>12, <1>13, <1>14 DEF TellInv

(* Every step of the server keeps the invariant. *)
LEMMA NextTell == TellInv /\ [Next]_vars => TellInv'
<1> SUFFICES ASSUME TellInv, [Next]_vars
             PROVE  TellInv'
  OBVIOUS
<1>1. /\ remotes \in Seq(Remotes) /\ NoDup(remotes)
      /\ closing \in Remotes \cup {None}
      /\ reg \in Registry
      /\ ToSet(remotes) \subseteq Remotes /\ ToSet(remotes) \subseteq Live
      /\ Live \subseteq Remotes /\ Remotes \subseteq Services
      /\ None \notin Remotes /\ Bus \in Remotes /\ Remotes \cap Names = {}
  <2>1. remotes \in Seq(Remotes)
    BY DEF TellInv, IInv, ServerOK
  <2>2. ToSet(remotes) \subseteq Remotes
    BY <2>1 DEF ToSet
  <2>3. QED
    BY <2>1, <2>2, NamesAssumption, BusAssumption DEF TellInv, IInv, ServerOK, Live, Services
<1>2. phase # "stopped" =>
        /\ RegOK(reg) /\ UniqueOK(reg) /\ BusOnce(reg)
        /\ Introduced /\ HeldOK /\ BusIntroduced
  BY DEF TellInv, IInv, RegOK
<1>3. closing # None => phase # "stopped" /\ closing \in Live /\ closing \in Remotes
  BY <1>1 DEF TellInv, IInv, ServerOK, Live
<1>4. IInv'
  BY NextIInv DEF TellInv
<1>5. Idle => Bus \in ToSet(remotes) /\ reg.queue[Bus] # <<>> /\ remotes # <<>>
  <2> SUFFICES ASSUME Idle
               PROVE  Bus \in ToSet(remotes) /\ reg.queue[Bus] # <<>> /\ remotes # <<>>
    OBVIOUS
  <2>1. phase = "running" /\ remotes # <<>> /\ remotes[Len(remotes)] = Bus
    BY DEF Idle, TellInv, BusLast
  <2>2. Bus \in ToSet(remotes)
    <3>1. Len(remotes) \in DOMAIN remotes
      BY <1>1, <2>1
    <3>2. QED
      BY <2>1, <3>1 DEF ToSet
  <2>3. QED
    BY <2>1, <2>2, <1>2 DEF BusIntroduced, Introduced
<1>6. ASSUME NEW r \in Remotes, Connect(r)
      PROVE  TellInv'
  <2>1. /\ r \notin Live /\ closing = None /\ phase = "running" /\ Defined
        /\ remotes' = <<r>> \o remotes /\ UNCHANGED <<reg, closing, phase>>
        /\ remotes # <<>>
    BY <1>5, <1>6 DEF Connect, Idle
  <2>2. /\ Len(remotes') = Len(remotes) + 1
        /\ remotes' \in Seq(Remotes)
        /\ remotes'[1] = r
        /\ \A i \in 1..Len(remotes) : remotes'[i + 1] = remotes[i]
    <3>1. <<r>> \in Seq(Remotes) /\ Len(<<r>>) = 1
      OBVIOUS
    <3>2. QED
      BY <1>1, <2>1, <3>1, ConcatProperties
  <2>3. /\ DOMAIN remotes = 1..Len(remotes) /\ Len(remotes) \in Nat /\ Len(remotes) >= 1
        /\ DOMAIN remotes' = 1..(Len(remotes) + 1)
    BY <1>1, <2>1, <2>2
  <2>4. ToSet(remotes') = ToSet(remotes) \cup {r}
    <3>1. \A i \in DOMAIN remotes : i + 1 \in DOMAIN remotes' /\ remotes'[i + 1] = remotes[i]
      BY <2>2, <2>3
    <3>2. \A i \in DOMAIN remotes' :
            i # 1 => i - 1 \in DOMAIN remotes /\ remotes'[i] = remotes[i - 1]
      <4> SUFFICES ASSUME NEW i \in DOMAIN remotes', i # 1
                   PROVE  i - 1 \in DOMAIN remotes /\ remotes'[i] = remotes[i - 1]
        OBVIOUS
      <4>1. i - 1 \in 1..Len(remotes) /\ (i - 1) + 1 = i
        BY <2>3
      <4>2. QED
        BY <4>1, <2>2, <2>3
    <3>3. 1 \in DOMAIN remotes'
      BY <2>3
    <3>4. QED
      <4>1. ToSet(remotes) \subseteq ToSet(remotes') /\ r \in ToSet(remotes')
        BY <3>1, <3>3, <2>2 DEF ToSet
      <4>2. ASSUME NEW i \in DOMAIN remotes'
            PROVE  remotes'[i] \in ToSet(remotes) \cup {r}
        BY <3>2, <2>2 DEF ToSet
      <4>3. ToSet(remotes') \subseteq ToSet(remotes) \cup {r}
        BY <4>2 DEF ToSet
      <4>4. QED
        BY <4>1, <4>3
  <2>5. remotes'[Len(remotes')] = remotes[Len(remotes)] /\ remotes' # <<>>
    BY <2>2, <2>3
  <2>6. BusLast'
    BY <2>1, <2>4, <2>5, <1>1 DEF TellInv, BusLast
  <2>7. Live' = Live \cup {r} /\ ToSet(remotes)' = ToSet(remotes) \cup {r}
    BY <2>1, <2>4 DEF Live
  <2>8. ~reg.haveHello[r] /\ reg.held[r] = {} /\ \A n \in Services : r \notin Queued(reg, n)
    BY <2>1, <1>2 DEF Introduced, HeldOK, Defined
  <2>9. Owned(reg, r) = {}
    <3> SUFFICES ASSUME NEW n \in reg.hash, Head1(reg, n) = r
                 PROVE  FALSE
      BY DEF Owned
    <3>1. n \in Services /\ reg.queue[n] # <<>>
      BY <1>1, <1>2, <2>1 DEF RegOK, HashOK, Registry
    <3>2. r \in Queued(reg, n)
      BY <3>1, <1>1, QueueTail
    <3>3. QED
      BY <3>1, <3>2, <2>8
  <2>10. Introduced'
    BY <2>1, <2>7, <2>8, <1>2 DEF Introduced
  <2>11. HeldOK'
    BY <2>1, <2>7, <2>8, <2>9, <1>2 DEF HeldOK
  <2>12. BusIntroduced'
    BY <2>1, <1>2, <1>5, <1>6 DEF BusIntroduced, Connect
  <2>13. QED
    BY <2>1, <2>6, <2>10, <2>11, <2>12, <1>2, <1>4 DEF TellInv
<1>7. ASSUME NEW r \in Remotes, Hello(r)
      PROVE  TellInv'
  <2> DEFINE g == [reg EXCEPT !.haveHello = [reg.haveHello EXCEPT ![r] = TRUE]]
  <2>1. /\ phase # "stopped" /\ r \in Live /\ ~reg.haveHello[r] /\ r \in Services
        /\ reg' = requestname(g, r, r, {}) /\ UNCHANGED <<remotes, closing, phase>>
    BY <1>1, <1>7 DEF Hello, Idle
  <2>2. g \in Registry
    <3>1. [reg.haveHello EXCEPT ![r] = TRUE] \in [Remotes -> BOOLEAN]
      BY <1>1 DEF Registry
    <3>2. QED
      BY <1>1, <3>1, SetHello
  <2>3. /\ g.hash = reg.hash /\ g.queue = reg.queue /\ g.held = reg.held
        /\ g.services = reg.services /\ g.seen = reg.seen
        /\ g.haveHello = [reg.haveHello EXCEPT ![r] = TRUE]
    BY <1>1, Zenon DEF Registry
  <2> HIDE DEF g
  <2>4. RegOK(g)
    BY <1>2, <2>1, <2>2, <2>3 DEF RegOK, HashOK, LinksOK, SeenOK, Queued, Head1
  <2>5. g.haveHello[r] /\ \A x \in Remotes : x # r => g.haveHello[x] = reg.haveHello[x]
    BY <2>3, <1>1 DEF Registry
  <2>6. UniqueOK(g) /\ BusOnce(g)
    BY <2>1, <2>3, <2>5, <1>2 DEF UniqueOK, BusOnce
  <2>7. reg.queue[r] = <<>> /\ reg.services[r] = <<>>
    BY <2>1, <1>2, ListerIntroduced DEF UniqueOK
  <2>8. RequestDone(g, reg', r, r, {})
    BY <2>1, <2>4, RequestEffect
  <2>9. UniqueOK(reg') /\ BusOnce(reg')
    <3>1. Allowed(g, r, r, {})
      BY <2>3, <2>7 DEF Allowed
    <3>2. QED
      BY <3>1, <2>1, <2>4, <2>5, <2>6, <2>8, RequestUnique
  <2>10. /\ reg'.haveHello[r]
         /\ \A x \in Remotes : x # r => (reg'.haveHello[x] <=> reg.haveHello[x])
    BY <2>5, <2>8 DEF RequestDone
  <2>11. \A m \in Services : Queued(reg', m) \subseteq Queued(reg, m) \cup {r}
    <3>1. \A m \in Services : Queued(reg', m) \subseteq Queued(g, m) \cup {r}
      BY <2>1, <2>4, <2>8, RequestedMembers
    <3>2. QED
      BY <3>1, <2>3 DEF Queued
  <2>12. Follows(reg, reg', r)
    <3>1. Follows(g, reg', r)
      BY <2>1, <2>4, <2>8, RequestFollows
    <3>2. \A x : Direct(g, x) = Direct(reg, x)
      BY <2>3 DEF Direct, Head1
    <3>3. QED
      BY <3>1, <3>2, <2>3 DEF Follows, Untold, Announced
  <2>13. ASSUME NEW x \in ToSet(remotes), reg'.haveHello[x]
         PROVE  reg'.queue[x] # <<>>
    <3>1. CASE x = r
      <4>1. Freely(g, reg', r, r, {})
        BY <2>3, <2>7, <2>8 DEF RequestDone, Again, Replaced, Waits, Refused
      <4>2. reg'.queue[r] = <<Entry(r, {})>>
        BY <4>1, <2>1, <2>2 DEF Freely, Registry
      <4>3. QED
        BY <4>2, <3>1, SMTT(20)
    <3>2. CASE x # r
      <4>1. \A m \in Services \ {r} : reg'.queue[m] = g.queue[m]
        <5> SUFFICES ASSUME NEW m \in Services, m # r
                     PROVE  reg'.queue[m] = g.queue[m]
          OBVIOUS
        <5> QED
          BY <2>1, <2>4, <2>8, RequestedElsewhere
      <4>2. reg.haveHello[x]
        BY <2>10, <2>13, <3>2, <1>1
      <4>3. QED
        BY <4>1, <4>2, <3>2, <2>1, <2>3, <1>1, <1>2 DEF Introduced
    <3>3. QED
      BY <3>1, <3>2
  <2>14. QED
    BY <2>1, <2>9, <2>10, <2>11, <2>12, <2>13, <1>4, TellStep
<1>8. ASSUME NEW r \in Remotes, NEW n \in Services, NEW flags, RequestName(r, n, flags)
      PROVE  TellInv'
  <2>1. /\ phase # "stopped" /\ r \in Live /\ r # Bus /\ reg.haveHello[r] /\ n \in Asked
        /\ reg' = requestname(reg, r, n, flags) /\ UNCHANGED <<remotes, closing, phase>>
        /\ reg.queue[Bus] # <<>>
    BY <1>1, <1>5, <1>8 DEF RequestName, MayCall, Idle
  <2>2. RequestDone(reg, reg', r, n, flags)
    BY <1>2, <2>1, RequestEffect
  <2>3. Allowed(reg, r, n, flags)
    BY <2>1, AskedAssumption DEF Allowed
  <2>4. UniqueOK(reg') /\ BusOnce(reg')
    BY <2>1, <2>2, <2>3, <1>2, RequestUnique
  <2>5. reg'.haveHello = reg.haveHello
    BY <2>2 DEF RequestDone
  <2>6. \A m \in Services : Queued(reg', m) \subseteq Queued(reg, m) \cup {r}
    BY <2>1, <2>2, <1>2, RequestedMembers
  <2>7. Follows(reg, reg', n)
    BY <2>1, <2>2, <1>2, RequestFollows
  <2>8. ASSUME NEW x \in ToSet(remotes), reg'.haveHello[x]
        PROVE  reg'.queue[x] # <<>>
    <3>1. \A m \in Services \ {n} : reg'.queue[m] = reg.queue[m]
      <4> SUFFICES ASSUME NEW m \in Services, m # n
                   PROVE  reg'.queue[m] = reg.queue[m]
        OBVIOUS
      <4>1. RegOK(reg)
        BY <2>1, <1>2
      <4> QED
        BY <4>1, <2>2, RequestedElsewhere
    <3>2. reg'.queue[n] # <<>>
      BY <2>1, <2>2, <1>2, RequestedQueues
    <3>3. QED
      BY <3>1, <3>2, <2>1, <2>5, <2>8, <1>1, <1>2 DEF Introduced
  <2>9. QED
    BY <2>1, <2>4, <2>5, <2>6, <2>7, <2>8, <1>4, TellStep
<1>9. ASSUME NEW r \in Remotes, NEW n \in Services, ReleaseName(r, n)
      PROVE  TellInv'
  <2>1. /\ phase # "stopped" /\ r \in Live /\ r # Bus /\ reg.haveHello[r] /\ n \in Asked
        /\ reg' = releasename(reg, r, n) /\ UNCHANGED <<remotes, closing, phase>>
    BY <1>1, <1>9 DEF ReleaseName, MayCall, Idle
  <2>2. Released(reg, reg', r, n)
    BY <1>2, <2>1, ReleaseEffect
  <2>3. UniqueOK(reg') /\ BusOnce(reg')
    BY <2>1, <2>2, <1>2, ReleaseUnique
  <2>4. reg'.haveHello = reg.haveHello
    BY <2>2 DEF Released
  <2>5. \A m \in Services : Queued(reg', m) \subseteq Queued(reg, m)
    BY <2>1, <2>2, <1>2, ReleasedQueues
  <2>6. Follows(reg, reg', n)
    BY <2>1, <2>2, <1>2, ReleaseFollows
  <2>7. ASSUME NEW x \in ToSet(remotes), reg'.haveHello[x]
        PROVE  reg'.queue[x] # <<>>
    <3>1. \A m \in Services \ {n} : reg'.queue[m] = reg.queue[m]
      <4> SUFFICES ASSUME NEW m \in Services, m # n
                   PROVE  reg'.queue[m] = reg.queue[m]
        OBVIOUS
      <4>1. RegOK(reg)
        BY <2>1, <1>2
      <4> QED
        BY <4>1, <2>2, ReleasedElsewhere
    <3>2. reg.queue[x] # <<>>
      BY <2>1, <2>4, <2>7, <1>2 DEF Introduced
    <3>3. CASE x # n
      BY <3>1, <3>2, <3>3, <1>1
    <3>4. CASE x = n
      <4>1. n = Bus
        BY <3>4, <2>1, <1>1, AskedAssumption
      <4>2. Head1(reg, n) # r
        BY <4>1, <3>2, <3>4, <2>1, <1>1, <1>2 DEF UniqueOK, Head1
      <4>3. reg'.queue = reg.queue
        BY <4>2, <2>2 DEF Released
      <4>4. QED
        BY <4>3, <3>2
    <3>5. QED
      BY <3>3, <3>4
  <2>8. QED
    BY <2>1, <2>3, <2>4, <2>5, <2>6, <2>7, <1>4, TellStep
<1>10. ASSUME NEW r \in Remotes, Disconnect(r)
       PROVE  TellInv'
  BY <1>10, TellClosing DEF Disconnect, Idle
<1>11. CASE DisconnectRelease
  <2> DEFINE n == reg.services[closing][1]
  <2>1. /\ phase # "stopped" /\ closing \in Live /\ closing \in Remotes
        /\ reg.services[closing] # <<>> /\ UNCHANGED <<remotes, closing, phase>>
    BY <1>3, <1>11 DEF DisconnectRelease
  <2>2. reg.haveHello[closing] /\ n \in Services
    BY <2>1, ListerIntroduced
  <2>3. Released(reg, reg', closing, n) /\ UniqueOK(reg') /\ BusOnce(reg')
    BY <2>1, <1>11, UniqueGoesFirst
  <2> HIDE DEF n
  <2>4. reg'.haveHello = reg.haveHello
    BY <2>3 DEF Released
  <2>5. \A m \in Services : Queued(reg', m) \subseteq Queued(reg, m)
    BY <2>1, <2>2, <2>3, <1>2, ReleasedQueues
  <2>6. Follows(reg, reg', n)
    BY <2>1, <2>2, <2>3, <1>2, ReleaseFollows
  <2>7. ASSUME NEW x \in ToSet(remotes), reg'.haveHello[x]
        PROVE  reg'.queue[x] # <<>>
    <3>1. \A m \in Services \ {n} : reg'.queue[m] = reg.queue[m]
      <4> SUFFICES ASSUME NEW m \in Services, m # n
                   PROVE  reg'.queue[m] = reg.queue[m]
        OBVIOUS
      <4>1. RegOK(reg)
        BY <2>1, <1>2
      <4> QED
        BY <4>1, <2>1, <2>2, <2>3, ReleasedElsewhere
    <3>2. reg.queue[x] # <<>> /\ x # closing
      BY <2>1, <2>4, <2>7, <1>2 DEF Introduced, TellInv, BusLast
    <3>3. CASE x # n
      BY <3>1, <3>2, <3>3, <1>1
    <3>4. CASE x = n
      <4>1. Head1(reg, n) # closing
        BY <3>2, <3>4, <2>1, <1>1, <1>2 DEF UniqueOK, Head1
      <4>2. reg'.queue = reg.queue
        BY <4>1, <2>3 DEF Released
      <4>3. QED
        BY <4>2, <3>2
    <3>5. QED
      BY <3>3, <3>4
  <2>8. QED
    BY <2>1, <2>2, <2>3, <2>4, <2>5, <2>6, <2>7, <1>4, TellStep
<1>12. CASE DisconnectFree
  <2> DEFINE h == [reg EXCEPT !.haveHello = [reg.haveHello EXCEPT ![closing] = FALSE],
                              !.held = [reg.held EXCEPT ![closing] = {}]]
  <2>1. [reg EXCEPT !.haveHello = [reg.haveHello EXCEPT ![closing] = FALSE]].held = reg.held
    BY <1>1, Zenon DEF Registry
  <2>2. /\ closing # None /\ reg.services[closing] = <<>>
        /\ reg' = h
        /\ closing' = None /\ UNCHANGED <<remotes, phase>>
    BY <1>12, <2>1 DEF DisconnectFree
  <2>3. /\ h.hash = reg.hash /\ h.queue = reg.queue /\ h.services = reg.services
        /\ h.haveHello = [reg.haveHello EXCEPT ![closing] = FALSE]
        /\ h.held = [reg.held EXCEPT ![closing] = {}]
    BY <1>1, Zenon DEF Registry
  <2> HIDE DEF h
  <2>4. /\ ~h.haveHello[closing] /\ h.held[closing] = {}
        /\ \A x \in Remotes : x # closing =>
             h.haveHello[x] = reg.haveHello[x] /\ h.held[x] = reg.held[x]
    BY <2>2, <2>3, <1>1, <1>3 DEF Registry
  <2>5. phase # "stopped" /\ closing \in Remotes /\ closing \notin ToSet(remotes)
    BY <2>2, <1>3 DEF TellInv, BusLast
  <2>6. Live' = Live \ {closing} /\ ToSet(remotes)' = ToSet(remotes)
    BY <2>2, <2>5, <1>1 DEF Live
  <2>7. reg.queue[closing] = <<>>
    BY <2>2, <2>5, <1>2 DEF UniqueOK
  <2>8. UniqueOK(h) /\ BusOnce(h)
    BY <2>3, <2>4, <2>5, <2>7, <1>2 DEF UniqueOK, BusOnce
  <2>9. Introduced'
    BY <2>2, <2>3, <2>4, <2>5, <2>6, <1>1, <1>2 DEF Introduced, Queued
  <2>10. HeldOK'
    BY <2>2, <2>3, <2>4, <2>5, <2>6, <1>1, <1>2 DEF HeldOK, Owned, Head1
  <2>11. BusIntroduced'
    BY <2>2, <2>4, <2>5, <2>6, <1>1, <1>2 DEF BusIntroduced
  <2>12. BusLast'
    BY <2>2, <2>6, <1>1 DEF TellInv, BusLast
  <2>13. QED
    BY <2>2, <2>8, <2>9, <2>10, <2>11, <2>12, <1>4 DEF TellInv
<1>13. CASE ServFree
  <2>1. UNCHANGED <<reg, remotes, closing>> /\ phase = "running" /\ phase' = "stopping"
    BY <1>13 DEF ServFree, Idle
  <2>2. Live' = Live /\ ToSet(remotes)' = ToSet(remotes)
    BY <2>1 DEF Live
  <2>3. QED
    BY <2>1, <2>2, <1>2, <1>4 DEF TellInv, BusLast, Introduced, HeldOK, BusIntroduced
<1>14. CASE ServFreeNext
  <2>1. /\ closing = None /\ phase = "stopping" /\ remotes # <<>>
        /\ StartClosing(remotes[1])
    BY <1>14 DEF ServFreeNext
  <2>2. remotes[1] \in ToSet(remotes)
    <3>1. 1 \in DOMAIN remotes
      BY <2>1, <1>1
    <3>2. QED
      BY <3>1 DEF ToSet
  <2>3. QED
    BY <2>1, <2>2, TellClosing
<1>15. CASE ServFreeDone
  <2>1. phase' = "stopped" /\ remotes = <<>> /\ closing = None /\ UNCHANGED <<remotes, closing>>
    BY <1>15 DEF ServFreeDone
  <2>2. BusLast'
    BY <2>1, BusAssumption, NamesAssumption DEF BusLast, ToSet
  <2>3. QED
    BY <2>1, <2>2, <1>4 DEF TellInv
<1>16. CASE UNCHANGED vars
  <2>1. UNCHANGED <<reg, remotes, closing, phase>>
    BY <1>16 DEF vars
  <2>2. Live' = Live /\ ToSet(remotes)' = ToSet(remotes)
    BY <2>1 DEF Live
  <2>3. QED
    BY <2>1, <2>2, <1>2, <1>4 DEF TellInv, BusLast, Introduced, HeldOK, BusIntroduced
<1>17. QED
  BY <1>6, <1>7, <1>8, <1>9, <1>10, <1>11, <1>12, <1>13, <1>14, <1>15, <1>16 DEF Next

(* The invariant holds throughout. *)
LEMMA TellInvariance == Spec => []TellInv
BY InitTell, NextTell, PTL DEF Spec

(* What clients are told is true, for every set of flags and any number of remotes and
   names: NameAcquired and NameLost (adbusI_serv_ownerchanged) tell a connected remote
   exactly the names it owns, the answers of RequestName and ReleaseName agree with
   what was done, and the bus remote that sends the signals outlives all others. *)
THEOREM ClientsAreTold == Spec => []ClientsTold
<1>1. TellInv => ClientsTold
  <2> SUFFICES ASSUME TellInv
               PROVE  ClientsTold
    OBVIOUS
  <2>1. ReplyTruthful
    BY AnswersTrue DEF TellInv
  <2>2. HeldIsOwned
    <3>1. CASE phase = "stopped"
      <4>1. ToSet(remotes) = {}
        BY <3>1 DEF TellInv, IInv, ServerOK, ToSet
      <4>2. QED
        BY <4>1 DEF HeldIsOwned
    <3>2. CASE phase # "stopped"
      BY <3>2 DEF TellInv, HeldOK, HeldIsOwned, Owned
    <3>3. QED
      BY <3>1, <3>2
  <2>3. BusOutlivesRemotes
    <3>1. remotes # <<>> => Bus \in ToSet(remotes)
      <4> SUFFICES ASSUME remotes # <<>>
                   PROVE  Bus \in ToSet(remotes)
        OBVIOUS
      <4>1. remotes \in Seq(Remotes) /\ remotes[Len(remotes)] = Bus
        BY DEF TellInv, IInv, ServerOK, BusLast
      <4>2. Len(remotes) \in DOMAIN remotes
        BY <4>1
      <4>3. QED
        BY <4>1, <4>2 DEF ToSet
    <3>2. closing \notin {None, Bus} => remotes # <<>>
      BY DEF TellInv, BusLast
    <3>3. QED
      BY <3>1, <3>2 DEF BusOutlivesRemotes
  <2>4. QED
    BY <2>1, <2>2, <2>3 DEF ClientsTold
<1>2. QED
  BY <1>1, TellInvariance, PTL

-----------------------------------------------------------------------------
(***************************************************************************)
(* The action properties.                                                  *)
(***************************************************************************)

(* A step of the loop of adbus_remote_disconnect sends nothing to the remote that is
   being disconnected. *)
LEMMA Silent ==
  ASSUME TellInv, [Next]_vars, closing # None, closing' = closing
  PROVE  reg'.held[closing] = reg.held[closing]
<1>1. CASE DisconnectRelease
  <2> DEFINE n == reg.services[closing][1]
             new == Direct(reg', n)
  <2>1. phase # "stopped" /\ closing \in Remotes /\ closing \in Live
    BY DEF TellInv, IInv, ServerOK, Live
  <2>2. Released(reg, reg', closing, n) /\ UniqueOK(reg') /\ reg'.queue[closing] = <<>>
    BY <2>1, <1>1, UniqueGoesFirst
  <2>3. n \in Services /\ RegOK(reg) /\ RegOK(reg')
    <3>1. reg.services[closing] # <<>>
      BY <1>1 DEF DisconnectRelease
    <3>2. phase' # "stopped"
      BY <1>1, <2>1 DEF DisconnectRelease
    <3>3. IInv'
      BY NextIInv DEF TellInv
    <3>4. QED
      BY <2>1, <3>1, <3>2, <3>3, ListerIntroduced DEF TellInv, IInv, RegOK
  <2> HIDE DEF n
  <2>4. \A o \in Remotes : Direct(reg', o) # closing
    <3> SUFFICES ASSUME NEW o \in Remotes
                 PROVE  Direct(reg', o) # closing
      OBVIOUS
    <3>1. Direct(reg', o) = IF reg'.queue[o] = <<>> THEN None ELSE o
      BY <2>2, DirectUnique
    <3>2. QED
      BY <3>1, <2>1, <2>2, NamesAssumption
  <2>5. Follows(reg, reg', n)
    BY <2>1, <2>2, <2>3, ReleaseFollows
  <2>6. Direct(reg, n) \in Remotes \cup {None} /\ new \in Remotes \cup {None}
    BY <2>3, HeadIsRemote DEF RegOK, Direct
  <2>7. CASE Untold(reg, reg')
    BY <2>7 DEF Untold
  <2>8. CASE Announced(reg, reg', n, Direct(reg, n), new)
    BY <2>1, <2>4, <2>6, <2>8 DEF Announced
  <2>9. QED
    BY <2>5, <2>7, <2>8 DEF Follows
<1>2. CASE UNCHANGED vars
  BY <1>2 DEF vars
<1>3. CASE ServFreeDone \/ ServFreeNext \/ ServFree \/ DisconnectFree
  BY <1>3 DEF ServFreeDone, ServFreeNext, ServFree, DisconnectFree, Idle
<1>4. ASSUME NEW r \in Remotes,
             \/ Connect(r) \/ Hello(r) \/ Disconnect(r)
             \/ \E n \in Services :
                  \/ \E flags \in RequestFlags : RequestName(r, n, flags)
                  \/ ReleaseName(r, n)
      PROVE  FALSE
  BY <1>4 DEF Connect, Hello, Disconnect, RequestName, ReleaseName, MayCall, Idle
<1>5. QED
  BY <1>1, <1>2, <1>3, <1>4 DEF Next

(* The owner of n changes in a legal way from g to h. *)
NotStolen(g, h, n) ==
  /\ n \in g.hash /\ n \in h.hash
  /\ Head1(g, n) # Head1(h, n)
  => \/ g.queue[n][1].allowReplacement
     \/ h.queue[n] = Tail(g.queue[n])

(* requestname replaces only an owner that allows it. *)
LEMMA RequestNotStolen ==
  ASSUME NEW g, RegOK(g), NEW h, NEW r \in Remotes, NEW n \in Services, NEW flags,
         RequestDone(g, h, r, n, flags), NEW m \in Services
  PROVE  NotStolen(g, h, m)
<1>1. g.queue \in [Services -> Seq(ServiceOwner)] /\ HashOK(g)
  BY DEF RegOK, Registry
<1>2. CASE m # n
  <2>1. h.queue[m] = g.queue[m]
    BY <1>2, RequestedElsewhere
  <2>2. QED
    BY <2>1 DEF NotStolen, Head1
<1>3. CASE m = n /\ Replaced(g, h, r, n, flags)
  BY <1>3 DEF Replaced, MayReplace, NotStolen
<1>4. CASE m = n /\ Freely(g, h, r, n, flags)
  BY <1>1, <1>4 DEF Freely, HashOK, NotStolen
<1>5. CASE m = n /\ ~Replaced(g, h, r, n, flags) /\ ~Freely(g, h, r, n, flags)
  <2>1. Follows(g, h, n)
    BY RequestFollows
  <2>2. CASE Again(g, h, r, n, flags)
    <3>1. h.queue[n] = [g.queue[n] EXCEPT ![1] = Entry(r, flags)] /\ 1 \in DOMAIN g.queue[n]
      BY <2>2, <1>1 DEF Again
    <3>2. Head1(h, n) = r /\ Head1(g, n) = r
      BY <2>2, <3>1, EntryType DEF Again, Head1
    <3>3. QED
      BY <3>2, <1>5 DEF NotStolen
  <2>3. CASE Waits(g, h, r, n, flags)
    <3>1. g.queue[n] \in Seq(ServiceOwner) /\ g.queue[n] # <<>>
      BY <2>3, <1>1 DEF Waits
    <3>2. h.queue[n][1] = g.queue[n][1]
      <4>1. CASE \E q : SamePlaces(g.queue[n], q) /\ h.queue = [g.queue EXCEPT ![n] = q]
        BY <4>1, <1>1 DEF SamePlaces
      <4>2. CASE h.queue = [g.queue EXCEPT ![n] = Append(g.queue[n], Entry(r, flags))]
        <5>1. h.queue[n] = Append(g.queue[n], Entry(r, flags)) /\ Entry(r, flags) \in ServiceOwner
          BY <4>2, <1>1, EntryType
        <5>2. Append(g.queue[n], Entry(r, flags))[1] = g.queue[n][1]
          BY <5>1, <3>1
        <5>3. QED
          BY <5>1, <5>2
      <4>3. QED
        BY <2>3, <4>1, <4>2 DEF Waits
    <3>3. QED
      BY <3>2, <1>5 DEF NotStolen, Head1
  <2>4. CASE Refused(g, h, r, n, flags)
    BY <2>4, <1>5 DEF Refused, NotStolen, Head1
  <2>5. QED
    BY <1>5, <2>2, <2>3, <2>4 DEF RequestDone
<1>6. QED
  BY <1>2, <1>3, <1>4, <1>5

(* releasename only promotes the next in the queue. *)
LEMMA ReleaseNotStolen ==
  ASSUME NEW g, RegOK(g), NEW h, NEW r \in Remotes, NEW n \in Services,
         Released(g, h, r, n), NEW m \in Services
  PROVE  NotStolen(g, h, m)
<1>1. g.queue \in [Services -> Seq(ServiceOwner)]
  BY DEF RegOK, Registry
<1>2. CASE n \in g.hash /\ Head1(g, n) = r
  <2>1. h.queue = [g.queue EXCEPT ![n] = Tail(g.queue[n])]
    BY <1>2 DEF Released
  <2>2. h.queue[m] = IF m = n THEN Tail(g.queue[n]) ELSE g.queue[m]
    BY <2>1, <1>1
  <2>3. QED
    BY <2>2 DEF NotStolen, Head1
<1>3. CASE ~(n \in g.hash /\ Head1(g, n) = r)
  BY <1>3 DEF Released, NotStolen, Head1
<1>4. QED
  BY <1>2, <1>3

(* No step of the server takes a name from an owner that did not allow it. *)
LEMMA NothingStolen ==
  ASSUME TellInv, [Next]_vars, NEW m \in Services
  PROVE  NotStolen(reg, reg', m)
<1>1. CASE UNCHANGED reg
  BY <1>1 DEF NotStolen, Head1
<1>2. phase # "stopped" => RegOK(reg)
  BY DEF TellInv, IInv, RegOK
<1>3. ASSUME NEW r \in Remotes, Connect(r) \/ Disconnect(r)
      PROVE  UNCHANGED reg
  BY <1>3 DEF Connect, Disconnect, StartClosing
<1>4. CASE ServFree \/ ServFreeNext \/ UNCHANGED vars
  BY <1>4, <1>1 DEF ServFree, ServFreeNext, StartClosing, vars
<1>5. ASSUME NEW r \in Remotes, Hello(r)
      PROVE  NotStolen(reg, reg', m)
  <2> DEFINE g == [reg EXCEPT !.haveHello = [reg.haveHello EXCEPT ![r] = TRUE]]
  <2>1. phase # "stopped" /\ r \in Services /\ reg' = requestname(g, r, r, {})
    BY <1>5 DEF Hello, Idle, Services
  <2>2. g \in Registry
    <3>1. reg \in Registry
      BY DEF TellInv, IInv
    <3>2. [reg.haveHello EXCEPT ![r] = TRUE] \in [Remotes -> BOOLEAN]
      BY <3>1 DEF Registry
    <3>3. QED
      BY <3>1, <3>2, SetHello
  <2>3. /\ g.hash = reg.hash /\ g.queue = reg.queue
        /\ g.services = reg.services /\ g.seen = reg.seen
    <3>1. reg \in Registry
      BY DEF TellInv, IInv
    <3>2. QED
      BY <3>1, Zenon DEF Registry
  <2> HIDE DEF g
  <2>4. RegOK(g)
    BY <1>2, <2>1, <2>2, <2>3 DEF RegOK, HashOK, LinksOK, SeenOK, Queued, Head1
  <2>5. RequestDone(g, reg', r, r, {})
    BY <2>1, <2>4, RequestEffect
  <2>6. NotStolen(g, reg', m)
    BY <2>1, <2>4, <2>5, RequestNotStolen
  <2>7. QED
    BY <2>3, <2>6 DEF NotStolen, Head1
<1>6. ASSUME NEW r \in Remotes, NEW n \in Services, NEW flags, RequestName(r, n, flags)
      PROVE  NotStolen(reg, reg', m)
  <2>1. reg' = requestname(reg, r, n, flags) /\ RegOK(reg)
    BY <1>2, <1>6 DEF RequestName, MayCall, Idle
  <2>2. RequestDone(reg, reg', r, n, flags)
    BY <2>1, RequestEffect
  <2>3. QED
    BY <2>1, <2>2, RequestNotStolen
<1>7. ASSUME NEW r \in Remotes, NEW n \in Services, ReleaseName(r, n)
      PROVE  NotStolen(reg, reg', m)
  <2>1. reg' = releasename(reg, r, n) /\ RegOK(reg)
    BY <1>2, <1>7 DEF ReleaseName, MayCall, Idle
  <2>2. Released(reg, reg', r, n)
    BY <2>1, ReleaseEffect
  <2>3. QED
    BY <2>1, <2>2, ReleaseNotStolen
<1>8. CASE DisconnectRelease
  <2> DEFINE n == reg.services[closing][1]
  <2>1. /\ phase # "stopped" /\ closing \in Remotes /\ closing \in Live
        /\ reg.services[closing] # <<>>
    BY <1>8 DEF DisconnectRelease, TellInv, IInv, ServerOK, Live
  <2>2. Released(reg, reg', closing, n)
    BY <2>1, <1>8, UniqueGoesFirst
  <2>3. n \in Services /\ RegOK(reg)
    BY <2>1, <1>2, ListerIntroduced
  <2> HIDE DEF n
  <2>4. QED
    BY <2>1, <2>2, <2>3, ReleaseNotStolen
<1>9. CASE DisconnectFree
  <2>1. reg'.queue = reg.queue
    BY <1>9, Zenon DEF DisconnectFree, TellInv, IInv, Registry
  <2>2. QED
    BY <2>1 DEF NotStolen, Head1
<1>10. CASE ServFreeDone
  <2>1. reg'.hash = {}
    BY <1>10, Zenon DEF ServFreeDone, TellInv, IInv, Registry
  <2>2. QED
    BY <2>1 DEF NotStolen
<1>11. QED
  BY <1>1, <1>3, <1>4, <1>5, <1>6, <1>7, <1>8, <1>9, <1>10 DEF Next

(* No step does what it may not: while a remote is disconnected its send callback is
   not used any more (adbus_remote_disconnect releases the unique name first), and a
   request takes a name only from an owner that allows it (adbusI_serv_requestname). *)
THEOREM StepsAreLegal == Spec => StepsLegal
<1>1. TellInv /\ [Next]_vars =>
        [closing # None /\ closing' = closing =>
           reg'.held[closing] = reg.held[closing]]_vars
  BY Silent
<1>2. TellInv /\ [Next]_vars =>
        [\A n \in Services :
           /\ n \in reg.hash /\ n \in reg'.hash
           /\ Head1(reg, n) # Head1(reg', n)
           => \/ reg.queue[n][1].allowReplacement
              \/ reg'.queue[n] = Tail(reg.queue[n])]_vars
  BY NothingStolen DEF NotStolen
<1>3. Spec => SilentWhileClosing
  BY <1>1, TellInvariance, PTL DEF Spec, SilentWhileClosing
<1>4. Spec => NoTheft
  BY <1>2, TellInvariance, PTL DEF Spec, NoTheft
<1>5. QED
  BY <1>3, <1>4, PTL DEF StepsLegal

-----------------------------------------------------------------------------
(***************************************************************************)
(* Clients that always pass DO_NOT_QUEUE and never REPLACE_EXISTING.  They *)
(* keep every queue at one entry, and only then do the links between       *)
(* remotes and services hold in both directions: a remote that waits, or   *)
(* that has replaced an owner, is in a queue without listing the service.  *)
(***************************************************************************)
NoWaiting == \A f \in RequestFlags : "DO_NOT_QUEUE" \in f /\ "REPLACE_EXISTING" \notin f

Lone(g) == \A n \in Services : g.queue[n] # <<>> => Tail(g.queue[n]) = <<>>

Lists(g, x, n) == \E i \in DOMAIN g.services[x] : g.services[x][i] = n

Linked(g) == \A n \in Services : \A x \in Queued(g, n) : Lists(g, x, n)

LoneInv == TellInv /\ Lone(reg) /\ Linked(reg)

(* A sequence whose tail is empty has one element, and conversely. *)
LEMMA TailEmpty ==
  ASSUME NEW S, NEW s \in Seq(S), s # <<>>
  PROVE  Tail(s) = <<>> <=> Len(s) = 1
<1>1. Tail(s) \in Seq(S) /\ Len(Tail(s)) = Len(s) - 1 /\ Len(s) \in Nat
  BY HeadTailProperties
<1>2. Tail(s) = <<>> <=> Len(Tail(s)) = 0
  BY <1>1, EmptySeq
<1>3. QED
  BY <1>1, <1>2

(* A queue of one holds its head. *)
LEMMA LoneQueue ==
  ASSUME NEW g, g \in Registry, Lone(g), NEW n \in Services, NEW x \in Queued(g, n)
  PROVE  g.queue[n] # <<>> /\ Head1(g, n) = x /\ x \in Remotes
<1> DEFINE q == g.queue[n]
<1>1. q \in Seq(ServiceOwner) /\ (q # <<>> => Tail(q) = <<>>)
  BY DEF Registry, Lone
<1>2. PICK i \in DOMAIN q : q[i].remote = x
  BY DEF Queued
<1> HIDE DEF q
<1>3. q # <<>> /\ DOMAIN q = 1..Len(q) /\ Len(q) \in Nat
  BY <1>1, <1>2
<1>4. Len(Tail(q)) = Len(q) - 1
  BY <1>1, <1>3
<1>5. Len(q) = 1
  BY <1>1, <1>3, <1>4, SMTT(20)
<1>6. i = 1
  BY <1>3, <1>5
<1>7. q[1] \in ServiceOwner
  BY <1>1, <1>3
<1>8. QED
  BY <1>2, <1>3, <1>6, <1>7 DEF Head1, ServiceOwner, q

(* Removing n from a list leaves the others. *)
LEMMA StillLists ==
  ASSUME NEW g, RegOK(g), NEW h, NEW x \in Remotes, NEW n, NEW m,
         h.services[x] = RemoveFirst(g.services[x], n), m # n, Lists(g, x, m)
  PROVE  Lists(h, x, m)
<1>1. g.services[x] \in Seq(Services) /\ NoDup(g.services[x])
  BY DEF RegOK, Registry, LinksOK
<1>2. \A j \in DOMAIN g.services[x] :
        g.services[x][j] # n =>
          \E i \in DOMAIN RemoveFirst(g.services[x], n) :
            RemoveFirst(g.services[x], n)[i] = g.services[x][j]
  BY <1>1, RemoveFirstProperties
<1>3. QED
  BY <1>2 DEF Lists

(* releasename keeps the links. *)
LEMMA ReleaseLone ==
  ASSUME NEW g, RegOK(g), Lone(g), Linked(g), NEW h, NEW r \in Remotes, NEW n \in Services,
         Released(g, h, r, n)
  PROVE  Lone(h) /\ Linked(h)
<1>1. /\ g.services \in [Remotes -> Seq(Services)]
      /\ g.queue \in [Services -> Seq(ServiceOwner)] /\ HashOK(g) /\ g \in Registry
  BY DEF RegOK, Registry
<1>2. ASSUME NEW m \in Services
      PROVE  h.queue[m] = IF m = n /\ n \in g.hash /\ Head1(g, n) = r THEN <<>> ELSE g.queue[m]
  <2>1. CASE n \in g.hash /\ Head1(g, n) = r
    <3>1. Tail(g.queue[n]) = <<>>
      BY <2>1, <1>1 DEF Lone, HashOK
    <3>2. h.queue = [g.queue EXCEPT ![n] = <<>>]
      BY <2>1, <3>1 DEF Released
    <3>3. QED
      BY <2>1, <3>2, <1>1
  <2>2. CASE ~(n \in g.hash /\ Head1(g, n) = r)
    BY <2>2 DEF Released
  <2>3. QED
    BY <2>1, <2>2
<1>3. Lone(h)
  BY <1>2 DEF Lone
<1>4. Linked(h)
  <2> SUFFICES ASSUME NEW m \in Services, NEW x \in Queued(h, m)
               PROVE  Lists(h, x, m)
    BY DEF Linked
  <2>1. x \in Queued(g, m) /\ ~(m = n /\ n \in g.hash /\ Head1(g, n) = r)
    BY <1>2 DEF Queued
  <2>2. Head1(g, m) = x /\ x \in Remotes /\ g.queue[m] # <<>>
    BY <2>1, <1>1, LoneQueue
  <2>3. Lists(g, x, m)
    BY <2>1 DEF Linked
  <2>4. m \in g.hash
    BY <2>2, <1>1 DEF HashOK
  <2>5. CASE x = r /\ n \in g.hash
    <3>1. h.services[x] = RemoveFirst(g.services[x], n)
      BY <2>5, <1>1 DEF Released
    <3>2. m # n
      BY <2>1, <2>2, <2>4, <2>5
    <3>3. QED
      BY <3>1, <3>2, <2>2, <2>3, StillLists
  <2>6. CASE ~(x = r /\ n \in g.hash)
    <3>1. h.services[x] = g.services[x]
      BY <2>2, <2>6, <1>1 DEF Released
    <3>2. QED
      BY <3>1, <2>3 DEF Lists
  <2>7. QED
    BY <2>5, <2>6
<1>5. QED
  BY <1>3, <1>4

(* requestname without waiting and replacing keeps the links. *)
LEMMA RequestLone ==
  ASSUME NEW g, RegOK(g), Lone(g), Linked(g), NEW h, NEW r \in Remotes, NEW n \in Services,
         NEW flags, RequestDone(g, h, r, n, flags),
         \/ g.queue[n] = <<>>
         \/ "DO_NOT_QUEUE" \in flags /\ "REPLACE_EXISTING" \notin flags
  PROVE  /\ Lone(h) /\ Linked(h)
         /\ Freely(g, h, r, n, flags) \/ Again(g, h, r, n, flags) \/ Refused(g, h, r, n, flags)
<1>1. /\ g.services \in [Remotes -> Seq(Services)]
      /\ g.queue \in [Services -> Seq(ServiceOwner)] /\ HashOK(g) /\ g \in Registry
  BY DEF RegOK, Registry
<1>2. Freely(g, h, r, n, flags) \/ Again(g, h, r, n, flags) \/ Refused(g, h, r, n, flags)
  BY DEF RequestDone, Replaced, Waits, MayReplace
<1>3. Entry(r, flags) \in ServiceOwner /\ Entry(r, flags).remote = r
  BY EntryType
<1>4. CASE Freely(g, h, r, n, flags)
  <2>1. /\ h.queue[n] = <<Entry(r, flags)>>
        /\ \A m \in Services \ {n} : h.queue[m] = g.queue[m]
        /\ h.services[r] = Append(g.services[r], n)
        /\ \A x \in Remotes \ {r} : h.services[x] = g.services[x]
    BY <1>1, <1>4 DEF Freely
  <2>2. Lone(h)
    <3>1. Tail(<<Entry(r, flags)>>) = <<>>
      OBVIOUS
    <3>2. QED
      BY <2>1, <3>1 DEF Lone
  <2>3. Queued(h, n) = {r} /\ \A m \in Services \ {n} : Queued(h, m) = Queued(g, m)
    BY <2>1, <1>3 DEF Queued
  <2>4. g.services[r] \in Seq(Services)
    BY <1>1
  <2>5. Lists(h, r, n) /\ \A m : Lists(g, r, m) => Lists(h, r, m)
    <3> DEFINE s == g.services[r]
    <3>1. /\ \A i \in DOMAIN s : i \in DOMAIN Append(s, n) /\ Append(s, n)[i] = s[i]
          /\ Len(s) + 1 \in DOMAIN Append(s, n) /\ Append(s, n)[Len(s) + 1] = n
      <4> HIDE DEF s
      <4>1. s \in Seq(Services)
        BY <2>4 DEF s
      <4>2. QED
        BY <4>1
    <3>2. QED
      BY <3>1, <2>1 DEF Lists
  <2>6. Linked(h)
    <3> SUFFICES ASSUME NEW m \in Services, NEW x \in Queued(h, m)
                 PROVE  Lists(h, x, m)
      BY DEF Linked
    <3>1. CASE m = n
      BY <3>1, <2>3, <2>5
    <3>2. CASE m # n
      <4>1. x \in Queued(g, m) /\ Lists(g, x, m)
        BY <3>2, <2>3 DEF Linked
      <4>2. x \in Remotes
        BY <4>1, <1>1, LoneQueue
      <4>3. CASE x = r
        BY <4>1, <4>3, <2>5
      <4>4. CASE x # r
        BY <4>1, <4>2, <4>4, <2>1 DEF Lists
      <4>5. QED
        BY <4>3, <4>4
    <3>3. QED
      BY <3>1, <3>2
  <2>7. QED
    BY <2>2, <2>6, <1>2
<1>5. CASE Again(g, h, r, n, flags)
  <2> DEFINE p == g.queue[n]
             q == [p EXCEPT ![1] = Entry(r, flags)]
  <2>1. /\ p \in Seq(ServiceOwner) /\ p # <<>> /\ p[1].remote = r /\ Tail(p) = <<>>
        /\ h.queue[n] = q /\ h.services = g.services
        /\ \A m \in Services \ {n} : h.queue[m] = g.queue[m]
    BY <1>1, <1>5 DEF Again, Head1, Lone
  <2>2. q \in Seq(ServiceOwner) /\ Len(q) = Len(p) /\ DOMAIN q = DOMAIN p
        /\ q # <<>> /\ \A i \in DOMAIN q : q[i].remote = p[i].remote
    BY <2>1, <1>3
  <2> HIDE DEF p, q
  <2>3. Len(p) = 1
    BY <2>1, TailEmpty
  <2>4. Tail(q) = <<>>
    BY <2>2, <2>3, TailEmpty
  <2>5. Lone(h)
    BY <2>1, <2>4 DEF Lone
  <2>6. \A m \in Services : Queued(h, m) = Queued(g, m)
    BY <2>1, <2>2 DEF Queued, p
  <2>7. Linked(h)
    BY <2>1, <2>6 DEF Linked, Lists
  <2>8. QED
    BY <2>5, <2>7, <1>2
<1>6. CASE Refused(g, h, r, n, flags)
  <2>1. /\ h.queue = g.queue /\ Head1(g, n) # r
        /\ h.services[r] = RemoveFirst(g.services[r], n)
        /\ \A x \in Remotes \ {r} : h.services[x] = g.services[x]
    BY <1>1, <1>6 DEF Refused
  <2>2. Lone(h)
    BY <2>1 DEF Lone
  <2>3. Linked(h)
    <3> SUFFICES ASSUME NEW m \in Services, NEW x \in Queued(h, m)
                 PROVE  Lists(h, x, m)
      BY DEF Linked
    <3>1. x \in Queued(g, m) /\ Lists(g, x, m)
      BY <2>1 DEF Linked, Queued
    <3>2. Head1(g, m) = x /\ x \in Remotes
      BY <3>1, <1>1, LoneQueue
    <3>3. CASE x = r
      BY <3>1, <3>2, <3>3, <2>1, StillLists
    <3>4. CASE x # r
      BY <3>1, <3>2, <3>4, <2>1 DEF Lists
    <3>5. QED
      BY <3>3, <3>4
  <2>4. QED
    BY <2>2, <2>3, <1>2
<1>7. QED
  BY <1>2, <1>4, <1>5, <1>6

(* Every queued remote is allocated: it lists the service, and a freed one lists
   nothing. *)
LEMMA LinkedDefined == LoneInv => Defined
<1> SUFFICES ASSUME LoneInv, NEW n \in Services, NEW x \in Queued(reg, n)
             PROVE  x \in Live
  BY DEF Defined
<1>1. Lists(reg, x, n) /\ x \in Remotes
  BY LoneQueue DEF LoneInv, Linked, TellInv, IInv
<1>2. reg.services[x] # <<>>
  BY <1>1 DEF Lists
<1>3. QED
  BY <1>1, <1>2 DEF LoneInv, TellInv, IInv, FreedListsNothing

(* What a step does to the owners, for clients that do not wait: the request of a free
   name, the release of an owned one, and nothing else. *)
Kept(g, h) == \A m \in Services : Direct(h, m) = Direct(g, m)

Given(g, h, r, n) ==
  /\ Direct(g, n) = None /\ Direct(h, n) = r
  /\ \A m \in Services \ {n} : Direct(h, m) = Direct(g, m)

GivenBack(g, h, r, n) ==
  /\ Direct(g, n) = r /\ Direct(h, n) = None
  /\ \A m \in Services \ {n} : Direct(h, m) = Direct(g, m)

(* releasename frees the name or leaves its owner. *)
LEMMA ReleaseOwners ==
  ASSUME NEW g, RegOK(g), Lone(g), NEW h, NEW r \in Remotes, NEW n \in Services,
         Released(g, h, r, n)
  PROVE  Kept(g, h) \/ GivenBack(g, h, r, n)
<1>1. g.queue \in [Services -> Seq(ServiceOwner)] /\ HashOK(g)
  BY DEF RegOK, Registry
<1>2. CASE n \in g.hash /\ Head1(g, n) = r
  <2>1. g.queue[n] # <<>> /\ Tail(g.queue[n]) = <<>>
    BY <1>1, <1>2 DEF HashOK, Lone
  <2>2. h.queue = [g.queue EXCEPT ![n] = <<>>]
    BY <1>2, <2>1 DEF Released
  <2>3. h.queue[n] = <<>> /\ \A m \in Services \ {n} : h.queue[m] = g.queue[m]
    BY <2>2, <1>1
  <2>4. QED
    BY <2>1, <2>3, <1>2 DEF GivenBack, Direct, Head1
<1>3. CASE ~(n \in g.hash /\ Head1(g, n) = r)
  BY <1>3 DEF Released, Kept, Direct, Head1
<1>4. QED
  BY <1>2, <1>3

(* requestname gives away a free name or leaves every owner. *)
LEMMA RequestOwners ==
  ASSUME NEW g, RegOK(g), NEW h, NEW r \in Remotes, NEW n \in Services, NEW flags,
         Freely(g, h, r, n, flags) \/ Again(g, h, r, n, flags) \/ Refused(g, h, r, n, flags)
  PROVE  (Kept(g, h) /\ g.queue[n] # <<>>) \/ (Given(g, h, r, n) /\ g.queue[n] = <<>>)
<1>1. g.queue \in [Services -> Seq(ServiceOwner)]
  BY DEF RegOK, Registry
<1>2. Entry(r, flags).remote = r
  BY EntryType
<1>3. CASE Freely(g, h, r, n, flags)
  <2>1. /\ h.queue[n] = <<Entry(r, flags)>> /\ g.queue[n] = <<>>
        /\ \A m \in Services \ {n} : h.queue[m] = g.queue[m]
    BY <1>1, <1>3 DEF Freely
  <2>2. h.queue[n] # <<>> /\ h.queue[n][1].remote = r
    BY <2>1, <1>2
  <2>3. QED
    BY <2>1, <2>2 DEF Given, Direct, Head1
<1>4. CASE Again(g, h, r, n, flags)
  <2> DEFINE q == [g.queue[n] EXCEPT ![1] = Entry(r, flags)]
  <2>1. /\ h.queue[n] = q /\ g.queue[n] # <<>> /\ Head1(g, n) = r
        /\ \A m \in Services \ {n} : h.queue[m] = g.queue[m]
    BY <1>1, <1>4 DEF Again
  <2>2. 1 \in DOMAIN g.queue[n]
    BY <2>1, <1>1
  <2>3. q # <<>> /\ q[1].remote = r
    BY <2>2, <1>2
  <2> HIDE DEF q
  <2>4. QED
    BY <2>1, <2>3 DEF Kept, Direct, Head1
<1>5. CASE Refused(g, h, r, n, flags)
  BY <1>5 DEF Refused, Kept, Direct, Head1
<1>6. QED
  BY <1>3, <1>4, <1>5

(***************************************************************************)
(* One step of the server, for clients that do not wait: the links stay,   *)
(* and the owners and the remotes with hello change as NameOwnership says. *)
(***************************************************************************)
SameHello == reg'.haveHello = reg.haveHello

JoinStep(r) ==
  /\ r # Bus /\ ~reg.haveHello[r]
  /\ reg'.haveHello = [reg.haveHello EXCEPT ![r] = TRUE]
  /\ \A m \in Names : Direct(reg', m) = Direct(reg, m)

AcquireStep(r, n) == SameHello /\ r # Bus /\ reg.haveHello[r] /\ n \in Names /\ Given(reg, reg', r, n)

ReleaseStep(r, n) == SameHello /\ r # Bus /\ n \in Names /\ GivenBack(reg, reg', r, n)

LeaveStep(r) ==
  /\ reg'.haveHello = [reg.haveHello EXCEPT ![r] = FALSE]
  /\ \A m \in Services : Direct(reg', m) = Direct(reg, m) /\ Direct(reg, m) # r

QuietStep == SameHello /\ \A m \in Names : Direct(reg', m) = Direct(reg, m)

OwnerStep ==
  \/ QuietStep
  \/ \E r \in Remotes :
       \/ JoinStep(r)
       \/ LeaveStep(r)
       \/ \E n \in Names : AcquireStep(r, n) \/ ReleaseStep(r, n)

(* Each action takes such a step and keeps the links. *)
LEMMA NextLone ==
  ASSUME NoWaiting, LoneInv, [Next]_vars
  PROVE  LoneInv' /\ OwnerStep
<1>1. TellInv' /\ TellInv /\ reg \in Registry /\ Defined
  BY NextTell, LinkedDefined DEF LoneInv, TellInv, IInv
<1>2. phase # "stopped" =>
        RegOK(reg) /\ UniqueOK(reg) /\ BusOnce(reg) /\ Introduced /\ BusIntroduced
  BY <1>1 DEF TellInv, IInv, RegOK
<1>3. /\ ToSet(remotes) \subseteq Remotes /\ ToSet(remotes) \subseteq Live
      /\ Remotes \subseteq Services /\ Names \subseteq Services
      /\ None \notin Remotes /\ Bus \in Remotes /\ Remotes \cap Names = {}
      /\ closing \in Remotes \cup {None}
      /\ closing # None => phase # "stopped" /\ closing \in Live /\ closing \in Remotes
  BY <1>1, NamesAssumption, BusAssumption DEF TellInv, IInv, ServerOK, Live, Services, ToSet
<1>4. ASSUME UNCHANGED reg
      PROVE  LoneInv' /\ OwnerStep
  BY <1>1, <1>4 DEF LoneInv, Lone, Linked, Lists, Queued, OwnerStep, QuietStep, SameHello, Direct, Head1
<1>5. ASSUME NEW r \in Remotes, Connect(r) \/ Disconnect(r)
      PROVE  LoneInv' /\ OwnerStep
  BY <1>4, <1>5 DEF Connect, Disconnect, StartClosing
<1>6. CASE ServFree \/ ServFreeNext \/ UNCHANGED vars
  BY <1>4, <1>6 DEF ServFree, ServFreeNext, StartClosing, vars
<1>7. ASSUME NEW r \in Remotes, Hello(r)
      PROVE  LoneInv' /\ OwnerStep
  <2> DEFINE g == [reg EXCEPT !.haveHello = [reg.haveHello EXCEPT ![r] = TRUE]]
  <2>1. /\ phase # "stopped" /\ r \in Services /\ ~reg.haveHello[r] /\ r \in ToSet(remotes)
        /\ reg' = requestname(g, r, r, {})
    BY <1>3, <1>7 DEF Hello, Idle
  <2>2. g \in Registry
    <3>1. [reg.haveHello EXCEPT ![r] = TRUE] \in [Remotes -> BOOLEAN]
      BY <1>1 DEF Registry
    <3>2. QED
      BY <1>1, <3>1, SetHello
  <2>3. /\ g.hash = reg.hash /\ g.queue = reg.queue
        /\ g.services = reg.services /\ g.seen = reg.seen
        /\ g.haveHello = [reg.haveHello EXCEPT ![r] = TRUE]
    BY <1>1, Zenon DEF Registry
  <2> HIDE DEF g
  <2>4. RegOK(g)
    BY <1>2, <2>1, <2>2, <2>3 DEF RegOK, HashOK, LinksOK, SeenOK, Queued, Head1
  <2>5. Lone(g) /\ Linked(g)
    BY <2>3 DEF LoneInv, Lone, Linked, Lists, Queued
  <2>6. RequestDone(g, reg', r, r, {})
    BY <2>1, <2>4, RequestEffect
  <2>7. g.queue[r] = <<>>
    BY <2>1, <2>3, <1>2 DEF UniqueOK
  <2>8. /\ Lone(reg') /\ Linked(reg')
        /\ Freely(g, reg', r, r, {}) \/ Again(g, reg', r, r, {}) \/ Refused(g, reg', r, r, {})
    BY <2>1, <2>4, <2>5, <2>6, <2>7, RequestLone
  <2>9. Given(g, reg', r, r)
    BY <2>1, <2>4, <2>7, <2>8, RequestOwners
  <2>10. \A m : Direct(g, m) = Direct(reg, m)
    BY <2>3 DEF Direct, Head1
  <2>11. \A m \in Names : Direct(reg', m) = Direct(reg, m)
    BY <2>9, <2>10, <1>3 DEF Given
  <2>12. reg'.haveHello = [reg.haveHello EXCEPT ![r] = TRUE]
    BY <2>3, <2>6 DEF RequestDone
  <2>13. r # Bus
    BY <2>1, <1>2 DEF BusIntroduced
  <2>14. JoinStep(r)
    BY <2>1, <2>11, <2>12, <2>13 DEF JoinStep
  <2>15. QED
    BY <2>8, <2>14, <1>1 DEF LoneInv, OwnerStep
<1>8. ASSUME NEW r \in Remotes, NEW n \in Services, NEW flags \in RequestFlags,
             RequestName(r, n, flags)
      PROVE  LoneInv' /\ OwnerStep
  <2>1. /\ reg' = requestname(reg, r, n, flags) /\ RegOK(reg)
        /\ r # Bus /\ reg.haveHello[r] /\ n \in Asked /\ phase = "running"
    BY <1>2, <1>8 DEF RequestName, MayCall, Idle
  <2>2. RequestDone(reg, reg', r, n, flags)
    BY <2>1, RequestEffect
  <2>3. /\ Lone(reg') /\ Linked(reg')
        /\ \/ Freely(reg, reg', r, n, flags) \/ Again(reg, reg', r, n, flags)
           \/ Refused(reg, reg', r, n, flags)
    BY <2>1, <2>2, RequestLone DEF NoWaiting, LoneInv
  <2>4. SameHello
    BY <2>2 DEF RequestDone, SameHello
  <2>5. CASE Kept(reg, reg')
    BY <2>3, <2>4, <2>5, <1>1, <1>3 DEF Kept, LoneInv, OwnerStep, QuietStep
  <2>6. CASE Given(reg, reg', r, n) /\ reg.queue[n] = <<>>
    <3>1. n # Bus
      <4>1. remotes # <<>> /\ remotes[Len(remotes)] = Bus /\ remotes \in Seq(Remotes)
        BY <2>1, <1>1 DEF TellInv, BusLast, IInv, ServerOK
      <4>2. Len(remotes) \in DOMAIN remotes
        BY <4>1
      <4>3. Bus \in ToSet(remotes)
        BY <4>1, <4>2 DEF ToSet
      <4>4. reg.queue[Bus] # <<>>
        BY <4>3, <2>1, <1>2 DEF BusIntroduced, Introduced
      <4>5. QED
        BY <4>4, <2>6
    <3>2. n \in Names
      BY <3>1, <2>1, AskedAssumption
    <3>3. AcquireStep(r, n)
      BY <3>2, <2>1, <2>4, <2>6 DEF AcquireStep
    <3>4. QED
      BY <3>2, <3>3, <2>3, <1>1 DEF LoneInv, OwnerStep
  <2>7. QED
    BY <2>1, <2>3, <2>5, <2>6, RequestOwners
<1>9. ASSUME NEW r \in Remotes, NEW n \in Services, RegOK(reg), BusOnce(reg),
             Released(reg, reg', r, n)
      PROVE  LoneInv' /\ OwnerStep
  <2>1. Lone(reg') /\ Linked(reg')
    BY <1>9, ReleaseLone DEF LoneInv
  <2>2. SameHello
    BY <1>9 DEF Released, SameHello
  <2>3. CASE Kept(reg, reg')
    BY <2>1, <2>2, <2>3, <1>1, <1>3 DEF Kept, LoneInv, OwnerStep, QuietStep
  <2>4. CASE GivenBack(reg, reg', r, n)
    <3>1. CASE n \in Names
      <4>1. r # Bus
        <5>1. reg.queue[n] # <<>> /\ Head1(reg, n) = r
          BY <2>4, <1>3 DEF GivenBack, Direct
        <5>2. r \in Queued(reg, n)
          BY <5>1, <1>1, QueueTail
        <5>3. QED
          BY <5>2, <3>1, <1>3, <1>9 DEF Queued, BusOnce
      <4>2. QED
        BY <4>1, <3>1, <2>1, <2>2, <2>4, <1>1 DEF LoneInv, OwnerStep, ReleaseStep
    <3>2. CASE n \notin Names
      BY <3>2, <2>1, <2>2, <2>4, <1>1, <1>3 DEF GivenBack, LoneInv, OwnerStep, QuietStep
    <3>3. QED
      BY <3>1, <3>2
  <2>5. QED
    BY <2>3, <2>4, <1>9, ReleaseOwners DEF LoneInv
<1>10. ASSUME NEW r \in Remotes, NEW n \in Services, ReleaseName(r, n)
       PROVE  LoneInv' /\ OwnerStep
  <2>1. reg' = releasename(reg, r, n) /\ RegOK(reg) /\ BusOnce(reg)
    BY <1>2, <1>10 DEF ReleaseName, MayCall, Idle
  <2>2. Released(reg, reg', r, n)
    BY <2>1, ReleaseEffect
  <2>3. QED
    BY <2>1, <2>2, <1>9
<1>11. CASE DisconnectRelease
  <2> DEFINE n == reg.services[closing][1]
  <2>1. /\ phase # "stopped" /\ closing \in Remotes /\ closing \in Live
        /\ reg.services[closing] # <<>>
    BY <1>3, <1>11 DEF DisconnectRelease
  <2>2. Released(reg, reg', closing, n)
    BY <2>1, <1>1, <1>11, UniqueGoesFirst
  <2>3. n \in Services
    BY <2>1, <1>1, ListerIntroduced
  <2> HIDE DEF n
  <2>4. QED
    BY <2>1, <2>2, <2>3, <1>2, <1>9
<1>12. CASE DisconnectFree
  <2>1. /\ reg'.queue = reg.queue /\ reg'.services = reg.services
        /\ reg'.haveHello = [reg.haveHello EXCEPT ![closing] = FALSE]
    BY <1>1, <1>12, Zenon DEF DisconnectFree, Registry
  <2>2. closing \in Remotes /\ reg.services[closing] = <<>>
    BY <1>3, <1>12 DEF DisconnectFree
  <2>3. Lone(reg') /\ Linked(reg')
    BY <2>1 DEF LoneInv, Lone, Linked, Lists, Queued
  <2>4. ASSUME NEW m \in Services
        PROVE  Direct(reg', m) = Direct(reg, m) /\ Direct(reg, m) # closing
    <3>1. Direct(reg', m) = Direct(reg, m)
      BY <2>1 DEF Direct, Head1
    <3>2. ASSUME Direct(reg, m) = closing
          PROVE  FALSE
      <4>1. reg.queue[m] # <<>> /\ Head1(reg, m) = closing
        BY <3>2, <2>2, <1>3 DEF Direct
      <4>2. closing \in Queued(reg, m)
        BY <4>1, <1>1, QueueTail
      <4>3. Lists(reg, closing, m)
        BY <4>2 DEF LoneInv, Linked
      <4>4. QED
        BY <4>3, <2>2 DEF Lists
    <3>3. QED
      BY <3>1, <3>2
  <2>5. LeaveStep(closing)
    BY <2>1, <2>4 DEF LeaveStep
  <2>6. QED
    BY <2>2, <2>3, <2>5, <1>1 DEF LoneInv, OwnerStep
<1>13. CASE ServFreeDone
  <2>1. /\ reg'.queue = [n \in Services |-> <<>>] /\ reg'.services = reg.services
        /\ reg'.haveHello = reg.haveHello
    BY <1>1, <1>13, Zenon DEF ServFreeDone, Registry
  <2>2. Live = {}
    BY <1>13 DEF ServFreeDone, Live, ToSet
  <2>3. ASSUME NEW m \in Services
        PROVE  reg.queue[m] = <<>> /\ reg'.queue[m] = <<>>
    <3>1. Queued(reg, m) = {}
      BY <2>2, <1>1 DEF Defined
    <3>2. reg.queue[m] # <<>> => Head1(reg, m) \in Queued(reg, m)
      BY <1>1, QueueTail
    <3>3. QED
      BY <3>1, <3>2, <2>1
  <2>4. Lone(reg') /\ Linked(reg')
    BY <2>3 DEF Lone, Linked, Queued
  <2>5. QuietStep
    BY <2>1, <2>3, <1>3 DEF QuietStep, SameHello, Direct
  <2>6. QED
    BY <2>4, <2>5, <1>1 DEF LoneInv, OwnerStep
<1>14. QED
  BY <1>5, <1>6, <1>7, <1>8, <1>10, <1>11, <1>12, <1>13 DEF Next

(* At the start only the bus name has an owner. *)
LEMMA InitLone ==
  Init => /\ LoneInv
          /\ \A r \in Remotes : reg.haveHello[r] => r = Bus
          /\ \A m \in Names : Direct(reg, m) = None
<1> SUFFICES ASSUME Init
             PROVE  /\ LoneInv
                    /\ \A r \in Remotes : reg.haveHello[r] => r = Bus
                    /\ \A m \in Names : Direct(reg, m) = None
  OBVIOUS
<1> DEFINE empty == [hash |-> {},
                     queue |-> [n \in Services |-> <<>>],
                     services |-> [r \in Remotes |-> <<>>],
                     haveHello |-> [r \in Remotes |-> r = Bus],
                     seen |-> [n \in Services |-> None],
                     held |-> [r \in Remotes |-> {}]]
<1>1. reg = requestname(empty, Bus, Bus, {})
  BY DEF Init
<1>2. Bus \in Remotes /\ Bus \in Services /\ Bus \notin Names /\ Names \subseteq Services
  BY BusAssumption, NamesAssumption DEF Services
<1>3. /\ empty.hash = {}
      /\ \A n \in Services : empty.queue[n] = <<>>
      /\ \A r \in Remotes : empty.services[r] = <<>>
      /\ \A r \in Remotes : empty.haveHello[r] <=> r = Bus
  OBVIOUS
<1>4. RegOK(empty)
  <2>1. [r \in Remotes |-> r = Bus] \in [Remotes -> BOOLEAN]
    OBVIOUS
  <2>2. empty \in Registry
    BY <2>1 DEF Registry
  <2> HIDE DEF empty
  <2>3. HashOK(empty) /\ LinksOK(empty)
    BY <1>3 DEF HashOK, LinksOK, NoDup
  <2>4. SeenOK(empty)
    BY <1>3 DEF SeenOK, empty
  <2>5. QED
    BY <2>2, <2>3, <2>4 DEF RegOK
<1> HIDE DEF empty
<1>5. RequestDone(empty, reg, Bus, Bus, {})
  BY <1>1, <1>2, <1>4, RequestEffect
<1>6. Lone(empty) /\ Linked(empty)
  BY <1>3 DEF Lone, Linked, Queued
<1>7. empty.queue[Bus] = <<>>
  BY <1>2, <1>3
<1>8. /\ Lone(reg) /\ Linked(reg)
      /\ \/ Freely(empty, reg, Bus, Bus, {}) \/ Again(empty, reg, Bus, Bus, {})
         \/ Refused(empty, reg, Bus, Bus, {})
  BY <1>2, <1>4, <1>5, <1>6, <1>7, RequestLone
<1>9. Given(empty, reg, Bus, Bus)
  BY <1>2, <1>4, <1>7, <1>8, RequestOwners
<1>10. \A m \in Names : Direct(reg, m) = None
  BY <1>2, <1>3, <1>9 DEF Given, Direct
<1>11. \A r \in Remotes : reg.haveHello[r] => r = Bus
  BY <1>3, <1>5 DEF RequestDone
<1>12. QED
  BY <1>8, <1>10, <1>11, InitTell DEF LoneInv

(* Without waiting and replacing the links hold throughout. *)
LEMMA LoneInvariance ==
  ASSUME NoWaiting
  PROVE  Spec => []LoneInv
<1>1. LoneInv /\ [Next]_vars => LoneInv'
  BY NextLone
<1>2. QED
  BY <1>1, InitLone, PTL DEF Spec

(* For clients that neither wait nor replace, whoever is in the queue of a service
   lists it, and no queue holds a remote that adbus_remote_disconnect has freed. *)
THEOREM LinksAreSound ==
  ASSUME NoWaiting
  PROVE  Spec => []LinksSound
<1>1. LoneInv => LinksSound
  <2>1. LoneInv => BidirectionalLinks
    BY DEF LoneInv, Linked, Lists, BidirectionalLinks, ToSet
  <2>2. QED
    BY <2>1, LinkedDefined DEF LinksSound, NoDanglingRemote
<1>2. QED
  BY <1>1, LoneInvariance, PTL

(* For such clients the registry implements the abstract ownership of names: a name has
   one owner, which is present, a taken name becomes free before it changes hands, and
   nobody leaves while owning one. *)
THEOREM ImplementsNameOwnership ==
  ASSUME NoWaiting
  PROVE  Spec => ImplementsOwnership
<1> DEFINE present == {r \in Remotes \ {Bus} : reg.haveHello[r]}
           owner == [n \in Names |-> IF n \in reg.hash THEN Head1(reg, n) ELSE None]
<1>1. Names \subseteq Services /\ Remotes \cap Names = {} /\ Bus \in Remotes /\ None \notin Remotes
  BY NamesAssumption, BusAssumption DEF Services
<1>2. ASSUME LoneInv
      PROVE  owner = [n \in Names |-> Direct(reg, n)]
  BY <1>1, <1>2 DEF LoneInv, TellInv, IInv, HashOK, Direct
<1>3. Init => Ownership!Init
  <2> SUFFICES ASSUME Init
               PROVE  Ownership!Init
    OBVIOUS
  <2>1. owner = [n \in Names |-> None]
    BY <1>2, InitLone
  <2>2. present = {}
    BY InitLone
  <2>3. QED
    BY <2>1, <2>2 DEF Ownership!Init
<1>4. LoneInv /\ LoneInv' /\ OwnerStep => [Ownership!Next]_(Ownership!vars)
  <2> SUFFICES ASSUME LoneInv, LoneInv', OwnerStep
               PROVE  Ownership!Next \/ (present' = present /\ owner' = owner)
    BY DEF Ownership!vars
  <2>1. owner = [n \in Names |-> Direct(reg, n)]
    BY <1>2
  <2>2. owner' = [n \in Names |-> Direct(reg', n)]
    BY <1>1 DEF LoneInv, TellInv, IInv, HashOK, Direct, Head1
  <2>3. reg.haveHello \in [Remotes -> BOOLEAN] /\ reg'.haveHello \in [Remotes -> BOOLEAN]
    BY DEF LoneInv, TellInv, IInv, Registry
  <2> USE DEF Ownership!Next
  <2>4. CASE QuietStep
    <3>1. owner' = owner
      BY <2>1, <2>2, <2>4 DEF QuietStep
    <3>2. present' = present
      BY <2>4 DEF QuietStep, SameHello
    <3>3. QED
      BY <3>1, <3>2
  <2>5. ASSUME NEW r \in Remotes, JoinStep(r)
        PROVE  Ownership!Next
    <3>1. owner' = owner
      BY <2>1, <2>2, <2>5 DEF JoinStep
    <3>2. present' = present \cup {r} /\ r \notin present /\ r \in Remotes \ {Bus}
      BY <2>3, <2>5 DEF JoinStep
    <3>3. Ownership!Join(r)
      BY <3>1, <3>2 DEF Ownership!Join
    <3>4. QED
      BY <3>2, <3>3
  <2>6. ASSUME NEW r \in Remotes, NEW n \in Names, AcquireStep(r, n)
        PROVE  Ownership!Next
    <3>1. present' = present /\ r \in present /\ r \in Remotes \ {Bus}
      BY <2>6 DEF AcquireStep, SameHello
    <3>2. owner[n] = None /\ owner' = [owner EXCEPT ![n] = r]
      <4>1. \A m \in Names : m # n => Direct(reg', m) = Direct(reg, m)
        BY <2>6, <1>1 DEF AcquireStep, Given
      <4>2. Direct(reg, n) = None /\ Direct(reg', n) = r
        BY <2>6 DEF AcquireStep, Given
      <4> HIDE DEF owner
      <4>3. QED
        BY <4>1, <4>2, <2>1, <2>2
    <3>3. Ownership!Acquire(r, n)
      BY <3>1, <3>2 DEF Ownership!Acquire
    <3>4. QED
      BY <3>1, <3>3
  <2>7. ASSUME NEW r \in Remotes, NEW n \in Names, ReleaseStep(r, n)
        PROVE  Ownership!Next
    <3>1. present' = present /\ r \in Remotes \ {Bus}
      BY <2>7 DEF ReleaseStep, SameHello
    <3>2. owner[n] = r /\ owner' = [owner EXCEPT ![n] = None]
      <4>1. \A m \in Names : m # n => Direct(reg', m) = Direct(reg, m)
        BY <2>7, <1>1 DEF ReleaseStep, GivenBack
      <4>2. Direct(reg, n) = r /\ Direct(reg', n) = None
        BY <2>7 DEF ReleaseStep, GivenBack
      <4> HIDE DEF owner
      <4>3. QED
        BY <4>1, <4>2, <2>1, <2>2
    <3>3. Ownership!Release(r, n)
      BY <3>1, <3>2 DEF Ownership!Release
    <3>4. QED
      BY <3>1, <3>3
  <2>8. ASSUME NEW r \in Remotes, LeaveStep(r)
        PROVE  Ownership!Next \/ (present' = present /\ owner' = owner)
    <3>1. owner' = owner /\ \A n \in Names : owner[n] # r
      <4>1. \A m \in Names : Direct(reg', m) = Direct(reg, m) /\ Direct(reg, m) # r
        BY <2>8, <1>1 DEF LeaveStep
      <4> HIDE DEF owner
      <4>2. QED
        BY <4>1, <2>1, <2>2
    <3>2. present' = present \ {r}
      BY <2>3, <2>8 DEF LeaveStep
    <3>3. CASE r \in present
      <4>1. Ownership!Leave(r) /\ r \in Remotes \ {Bus}
        BY <3>1, <3>2, <3>3 DEF Ownership!Leave
      <4>2. QED
        BY <4>1
    <3>4. CASE r \notin present
      BY <3>1, <3>2, <3>4
    <3>5. QED
      BY <3>3, <3>4
  <2>9. QED
    BY <2>4, <2>5, <2>6, <2>7, <2>8 DEF OwnerStep
<1>5. LoneInv /\ [Next]_vars => OwnerStep /\ LoneInv'
  BY NextLone
<1>6. QED
  BY <1>3, <1>4, <1>5, LoneInvariance, PTL DEF Spec, ImplementsOwnership, Ownership!Spec
=============================================================================
