-------------------------- MODULE ClientConnProofs --------------------------
(***************************************************************************)
(* Proofs about the connection of a client (module ClientConn): whatever   *)
(* the callbacks add, remove and drop, its lists, tables and references    *)
(* agree with the services that there are.                                 *)
(*                                                                         *)
(* The calls in progress have a shape: at the ground a dispatch, the walk  *)
(* of adbus_conn_deref or neither; on it at most one callback of the       *)
(* dispatch; and above services that are being freed, with their release   *)
(* callbacks.  A service is being freed exactly when such a call is in     *)
(* progress, and what is known of the dispatch or the walk is a matter of  *)
(* its frame at the ground alone, whatever is piled up on it.              *)
(***************************************************************************)
EXTENDS ClientConn, ListFacts

(* The places of a dispatch, before and after it has come to the replies. *)
BeforeReply == {"toBind", "fromBind", "toMatch", "fromMatch", "toReply"}
AfterReply == {"send", "failed"}
DispatchPlaces == BeforeReply \cup AfterReply \cup {"fromReply"}
FreePlaces == {"free", "release"}
CallPlaces == {"method", "match", "reply"}
WaitsFor == [method |-> "fromBind", match |-> "fromMatch", reply |-> "fromReply"]

FreeFrames == [at : FreePlaces, svc : Services]
CallFrames == [at : CallPlaces, svc : Services]
DispatchFrames == [at : DispatchPlaces, msg : Incoming, ret : {"none", "return", "error"},
                   svc : ReplyIds \cup {Nobody}]
WalkFrames == [at : {"walk"}, kind : Kinds, first : BOOLEAN]
Frames == FreeFrames \cup CallFrames \cup DispatchFrames \cup WalkFrames

NoGround == [at |-> "none"]

(* The frame at the ground of the calls in progress st, if it is a dispatch or a walk. *)
Ground(st) == IF st # <<>> /\ st[Len(st)].at \notin FreePlaces THEN st[Len(st)] ELSE NoGround

(* The services that are being freed, and whether a method is running. *)
BeingFreed(st) == {s \in Services : \E i \in DOMAIN st : st[i].at = "free" /\ st[i].svc = s}
InMethod(st) == \E i \in DOMAIN st : st[i].at = "method"

(* The shape of the calls in progress. *)
Shape(st) ==
  /\ st \in Seq(Frames)
  /\ \A i \in DOMAIN st : st[i].at \in DispatchPlaces \cup {"walk"} => i = Len(st)
  /\ \A i \in DOMAIN st : st[i].at \in CallPlaces =>
       i = Len(st) - 1 /\ st[Len(st)].at = WaitsFor[st[i].at]
  /\ \A i, j \in DOMAIN st :
       st[i].at = "free" /\ st[j].at = "free" /\ st[i].svc = st[j].svc => i = j

-----------------------------------------------------------------------------
(* The invariant *)

Messages == [msg : Incoming \cup {Unset}, due : SUBSET ReplyIds, got : SUBSET Services,
             sent : {"none", "return", "error"}, result : {"none", "ok", "fail"}]

ConnTypes ==
  /\ lists \in [Kinds -> Seq(Services)]
  /\ iter \in [Kinds -> Services \cup {Nobody}]
  /\ status \in [Services -> Lives]
  /\ released \in [Services -> 0..2]
  /\ waiting \subseteq ReplyIds /\ busRules \subseteq MatchIds
  /\ ifaceRef \in Nat /\ held \in BOOLEAN /\ connRef \in 0..1
  /\ over \in {"no", "freed", "assert", "crash"}
  /\ last \in Messages

(* The services on the lists: a match leaves its list before it is freed, the others
   leave theirs after. *)
Listed(s) == status[s] = "live" \/ (status[s] = "freeing" /\ s \notin MatchIds)

ListInv ==
  /\ \A k \in Kinds : Once(lists[k])
  /\ \A k \in Kinds, s \in Services : s \in ToSet(lists[k]) <=> KindOf(s) = k /\ Listed(s)
  /\ \A k \in Kinds : iter[k] # Nobody => iter[k] \in ToSet(lists[k])

ReleaseInv ==
  \A s \in Services :
    /\ status[s] \in {"unused", "live"} => released[s] = 0
    /\ status[s] = "freed" => released[s] = Releases[s]

WaitInv ==
  /\ \A r \in waiting : status[r] = "live"
  /\ connRef = 0 => waiting = {}

StackInv ==
  /\ Shape(stack)
  /\ \A s \in Services : status[s] = "freeing" <=> s \in BeingFreed(stack)

Bound(st) == {b \in BindIds : st[b] \in {"live", "freeing"}}

RefInv ==
  /\ IsFiniteSet(Bound(status))
  /\ ifaceRef = (IF held THEN 1 ELSE 0) + Cardinality(Bound(status))
                + (IF InMethod(stack) THEN 1 ELSE 0)

(* The connection is being walked from its last adbus_conn_deref to its end. *)
OwnerInv ==
  /\ over = "no" /\ connRef = 0 => Ground(stack).at = "walk"
  /\ Ground(stack).at = "walk" => connRef = 0

(* A reply that waited for the message of a dispatch waits until its turn comes, unless
   it is removed; then it is freed when its callback returns, unless that has done so. *)
Gone(r) == status[r] \in {"freeing", "freed"}
Answers(msg, r) ==
  /\ msg.type \in {"return", "error"}
  /\ ReplyOf[r].remote = msg.sender /\ ReplyOf[r].serial = msg.serial

DueInv ==
  /\ last.result = "ok" => \A r \in last.due : status[r] = "freed"
  /\ Ground(stack).at \in DispatchPlaces => last.result = "none"
  /\ Ground(stack).at \in BeforeReply =>
       \A r \in last.due : Gone(r) \/ (r \in waiting /\ Answers(Ground(stack).msg, r))
  /\ Ground(stack).at = "fromReply" =>
       /\ \A r \in last.due : Gone(r) \/ r = Ground(stack).svc
       /\ Ground(stack).svc \in ReplyIds \ waiting
       /\ status[Ground(stack).svc] # "unused"
       /\ status[Ground(stack).svc] # "freed" => iter["reply"] = Ground(stack).svc
  /\ Ground(stack).at \in AfterReply => \A r \in last.due : Gone(r)

(* What will be sent back. *)
OneMethod == \E b \in BindIds : last.got \cap BindIds = {b}
CallInv ==
  /\ last.sent = "return" => OneMethod
  /\ Ground(stack).at \in DispatchPlaces => last.sent = "none"
  /\ Ground(stack).at = "toBind" => last.got = {} /\ Ground(stack).ret # "error"
  /\ Ground(stack).at \in DispatchPlaces \ {"toBind"} /\ Ground(stack).ret = "return" => OneMethod

ConnInv ==
  /\ ConnTypes /\ ListInv /\ ReleaseInv /\ WaitInv /\ StackInv /\ RefInv /\ RulesCurrent
  /\ OwnerInv /\ DueInv /\ CallInv

(* The walk: the lists before the one that is walked are empty, and what is in front of
   the service that comes next is being freed. *)
WalkInv ==
  Ground(stack).at = "walk" =>
    LET k == Ground(stack).kind IN
    /\ k # "bind" => lists["bind"] = <<>>
    /\ k = "match" => lists["reply"] = <<>>
    /\ ~Ground(stack).first /\ iter[k] = Nobody =>
         \A s \in ToSet(lists[k]) : status[s] # "live"
    /\ ~Ground(stack).first /\ iter[k] # Nobody =>
         /\ status[iter[k]] = "live"
         /\ \A i, j \in DOMAIN lists[k] :
              lists[k][j] = iter[k] /\ i < j => status[lists[k][i]] # "live"
-----------------------------------------------------------------------------
(* Facts about the calls in progress *)

(* A frame is known by its place. *)
LEMMA FramePlaces ==
  ASSUME NEW f \in Frames
  PROVE  /\ f.at \in FreePlaces <=> f \in FreeFrames
         /\ f.at \in CallPlaces <=> f \in CallFrames
         /\ f.at \in DispatchPlaces <=> f \in DispatchFrames
         /\ f.at = "walk" <=> f \in WalkFrames
         /\ f.at \in FreePlaces \cup CallPlaces \cup DispatchPlaces \cup {"walk"}
<1>1. \A g \in FreeFrames : g.at \in FreePlaces
  BY DEF FreeFrames
<1>2. \A g \in CallFrames : g.at \in CallPlaces
  BY DEF CallFrames
<1>3. \A g \in DispatchFrames : g.at \in DispatchPlaces
  BY DEF DispatchFrames
<1>4. \A g \in WalkFrames : g.at = "walk"
  BY DEF WalkFrames
<1>5. f \in FreeFrames \/ f \in CallFrames \/ f \in DispatchFrames \/ f \in WalkFrames
  BY DEF Frames
<1> QED
  BY <1>1, <1>2, <1>3, <1>4, <1>5
     DEF FreePlaces, CallPlaces, DispatchPlaces, BeforeReply, AfterReply

(* The fields of frames. *)
LEMMA FrameFields ==
  /\ \A f \in FreeFrames \cup CallFrames : f.svc \in Services
  /\ \A f \in DispatchFrames : /\ f.msg \in Incoming /\ f.ret \in {"none", "return", "error"}
                               /\ f.svc \in ReplyIds \cup {Nobody}
  /\ \A f \in WalkFrames : f.kind \in Kinds /\ f.first \in BOOLEAN
<1>1. \A f \in FreeFrames \cup CallFrames : f.svc \in Services
  BY DEF FreeFrames, CallFrames
<1>2. \A f \in DispatchFrames : /\ f.msg \in Incoming /\ f.ret \in {"none", "return", "error"}
                                /\ f.svc \in ReplyIds \cup {Nobody}
  BY DEF DispatchFrames
<1>3. \A f \in WalkFrames : f.kind \in Kinds /\ f.first \in BOOLEAN
  BY DEF WalkFrames
<1> QED BY <1>1, <1>2, <1>3

(* A service begins to be freed, or its release callback is called. *)
LEMMA PushShape ==
  ASSUME NEW st, Shape(st), NEW f \in FreeFrames,
         f.at = "free" => f.svc \notin BeingFreed(st)
  PROVE  LET pushed == <<f>> \o st IN
         /\ Shape(pushed)
         /\ Ground(pushed) = Ground(st)
         /\ InMethod(pushed) = InMethod(st)
         /\ BeingFreed(pushed) = BeingFreed(st) \cup (IF f.at = "free" THEN {f.svc} ELSE {})
<1> DEFINE t == <<f>> \o st
           n == Len(st)
<1>1. st \in Seq(Frames) /\ f \in Frames /\ n \in Nat /\ DOMAIN st = 1..n
  BY DEF Shape, Frames
<1>2. /\ t \in Seq(Frames) /\ Len(t) = n + 1 /\ DOMAIN t = 1..(n + 1) /\ t # <<>>
      /\ t[1] = f /\ \A i \in 1..n : t[i + 1] = st[i]
  BY <1>1
<1> HIDE DEF t
<1>3. \A i \in DOMAIN t : i = 1 \/ (i - 1 \in DOMAIN st /\ t[i] = st[i - 1])
  <2> TAKE i \in DOMAIN t
  <2>1. i = 1 \/ (i - 1 \in 1..n /\ t[(i - 1) + 1] = st[i - 1] /\ (i - 1) + 1 = i)
    BY <1>1, <1>2
  <2> QED BY <1>1, <2>1
<1>4. \A i \in DOMAIN st : i + 1 \in DOMAIN t /\ t[i + 1] = st[i]
  BY <1>1, <1>2
<1>5. f.at \in FreePlaces /\ f.svc \in Services
  BY FrameFields DEF FreeFrames
<1>6. f.at \notin DispatchPlaces \cup CallPlaces \cup {"walk"}
  BY <1>5 DEF FreePlaces, CallPlaces, DispatchPlaces, BeforeReply, AfterReply
<1>7. /\ \A i \in DOMAIN st : st[i].at \in DispatchPlaces \cup {"walk"} => i = n
      /\ \A i \in DOMAIN st : st[i].at \in CallPlaces =>
           i = n - 1 /\ st[n].at = WaitsFor[st[i].at]
      /\ \A i, j \in DOMAIN st :
           st[i].at = "free" /\ st[j].at = "free" /\ st[i].svc = st[j].svc => i = j
  BY DEF Shape
<1>8. \A i \in DOMAIN t : t[i].at \in DispatchPlaces \cup {"walk"} => i = n + 1
  BY <1>1, <1>2, <1>3, <1>6, <1>7
<1>9. \A i \in DOMAIN t : t[i].at \in CallPlaces =>
        i = (n + 1) - 1 /\ t[n + 1].at = WaitsFor[t[i].at]
  <2> SUFFICES ASSUME NEW i \in DOMAIN t, t[i].at \in CallPlaces
               PROVE  i = (n + 1) - 1 /\ t[n + 1].at = WaitsFor[t[i].at]
    OBVIOUS
  <2>1. i - 1 \in DOMAIN st /\ t[i] = st[i - 1]
    BY <1>2, <1>3, <1>6
  <2>2. i - 1 = n - 1 /\ st[n].at = WaitsFor[st[i - 1].at] /\ n \in DOMAIN st
    BY <1>1, <1>7, <2>1
  <2>3. t[n + 1] = st[n]
    BY <1>4, <2>2
  <2>4. i \in Int /\ n \in Int
    BY <1>1, <1>2
  <2> HIDE DEF n
  <2>5. i = (n + 1) - 1
    BY <2>2, <2>4
  <2>6. t[n + 1].at = WaitsFor[t[i].at]
    BY <2>1, <2>2, <2>3
  <2> QED BY <2>5, <2>6
<1>10. ASSUME NEW i \in DOMAIN t, NEW j \in DOMAIN t,
              t[i].at = "free", t[j].at = "free", t[i].svc = t[j].svc
       PROVE  i = j
  <2>0. i \in Int /\ j \in Int
    BY <1>1, <1>2
  <2>1. CASE i = 1 /\ j # 1
    <3>1. j - 1 \in DOMAIN st /\ t[j] = st[j - 1]
      BY <1>3, <2>1
    <3>2. f.svc \in BeingFreed(st)
      BY <1>2, <1>5, <1>10, <2>1, <3>1 DEF BeingFreed
    <3> QED BY <1>2, <1>10, <2>1, <3>2
  <2>2. CASE i # 1 /\ j = 1
    <3>1. i - 1 \in DOMAIN st /\ t[i] = st[i - 1]
      BY <1>3, <2>2
    <3>2. f.svc \in BeingFreed(st)
      BY <1>2, <1>5, <1>10, <2>2, <3>1 DEF BeingFreed
    <3> QED BY <1>2, <1>10, <2>2, <3>2
  <2>3. CASE i # 1 /\ j # 1
    <3>1. /\ i - 1 \in DOMAIN st /\ t[i] = st[i - 1]
          /\ j - 1 \in DOMAIN st /\ t[j] = st[j - 1]
      BY <1>3, <2>3
    <3>2. i - 1 = j - 1
      BY <1>7, <1>10, <3>1
    <3> QED BY <2>0, <3>2
  <2> QED BY <2>1, <2>2, <2>3
<1>11. Shape(t)
  BY <1>2, <1>8, <1>9, <1>10 DEF Shape
<1>12. Ground(t) = Ground(st)
  <2>1. CASE st = <<>>
    BY <1>2, <1>5, <2>1 DEF Ground
  <2>2. CASE st # <<>>
    <3>1. n \in DOMAIN st
      BY <1>1, <2>2
    <3>2. t[Len(t)] = st[Len(st)]
      BY <1>2, <1>4, <3>1
    <3> QED BY <1>2, <2>2, <3>2 DEF Ground
  <2> QED BY <2>1, <2>2
<1>13. InMethod(t) = InMethod(st)
  <2>1. InMethod(t) => InMethod(st)
    BY <1>2, <1>3, <1>6 DEF InMethod, CallPlaces
  <2>2. InMethod(st) => InMethod(t)
    BY <1>4 DEF InMethod
  <2> QED BY <2>1, <2>2 DEF InMethod
<1>14. BeingFreed(t) = BeingFreed(st) \cup (IF f.at = "free" THEN {f.svc} ELSE {})
  <2>1. ASSUME NEW s \in BeingFreed(t)
        PROVE  s \in BeingFreed(st) \cup (IF f.at = "free" THEN {f.svc} ELSE {})
    BY <1>2, <1>3 DEF BeingFreed
  <2>2. ASSUME NEW s \in BeingFreed(st) PROVE s \in BeingFreed(t)
    BY <1>4 DEF BeingFreed
  <2>3. f.at = "free" => f.svc \in BeingFreed(t)
    BY <1>2, <1>5 DEF BeingFreed
  <2> QED BY <2>1, <2>2, <2>3
<1> QED BY <1>11, <1>12, <1>13, <1>14 DEF t

(* The topmost one is done. *)
LEMMA PopShape ==
  ASSUME NEW st, Shape(st), st # <<>>, Head(st).at \in FreePlaces
  PROVE  /\ Head(st) \in FreeFrames /\ Head(st).svc \in Services
         /\ Shape(Tail(st))
         /\ Ground(Tail(st)) = Ground(st)
         /\ InMethod(Tail(st)) = InMethod(st)
         /\ Head(st).at = "free" =>
              /\ Head(st).svc \in BeingFreed(st)
              /\ BeingFreed(Tail(st)) = BeingFreed(st) \ {Head(st).svc}
         /\ Head(st).at = "release" => BeingFreed(Tail(st)) = BeingFreed(st)
<1> DEFINE t == Tail(st)
           f == Head(st)
           n == Len(st)
<1>1. st \in Seq(Frames) /\ n \in Nat \ {0} /\ DOMAIN st = 1..n /\ f = st[1] /\ f \in Frames
      /\ 1 \in DOMAIN st
  BY DEF Shape
<1>2. t \in Seq(Frames) /\ Len(t) = n - 1 /\ DOMAIN t = 1..(n - 1)
      /\ \A i \in 1..(n - 1) : t[i] = st[i + 1]
  BY <1>1
<1> HIDE DEF t, f
<1>3. \A i \in DOMAIN t : i + 1 \in DOMAIN st /\ i + 1 # 1 /\ t[i] = st[i + 1]
  BY <1>1, <1>2
<1>4. \A i \in DOMAIN st : i = 1 \/ (i - 1 \in DOMAIN t /\ t[i - 1] = st[i])
  <2> TAKE i \in DOMAIN st
  <2>1. i = 1 \/ (i - 1 \in 1..(n - 1) /\ t[i - 1] = st[(i - 1) + 1] /\ (i - 1) + 1 = i)
    BY <1>1, <1>2
  <2> QED BY <1>2, <2>1
<1>5. f.at \in FreePlaces
  BY DEF f
<1>6. f \in FreeFrames /\ f.svc \in Services
  BY <1>1, <1>5, FramePlaces, FrameFields
<1>7. f.at \notin DispatchPlaces \cup CallPlaces \cup {"walk"}
  BY <1>5 DEF FreePlaces, CallPlaces, DispatchPlaces, BeforeReply, AfterReply
<1>8. /\ \A i \in DOMAIN st : st[i].at \in DispatchPlaces \cup {"walk"} => i = n
      /\ \A i \in DOMAIN st : st[i].at \in CallPlaces =>
           i = n - 1 /\ st[n].at = WaitsFor[st[i].at]
      /\ \A i, j \in DOMAIN st :
           st[i].at = "free" /\ st[j].at = "free" /\ st[i].svc = st[j].svc => i = j
  BY DEF Shape
<1>9. \A i \in DOMAIN t : t[i].at \in DispatchPlaces \cup {"walk"} => i = n - 1
  BY <1>1, <1>2, <1>3, <1>8
<1>10. \A i \in DOMAIN t : t[i].at \in CallPlaces =>
         i = (n - 1) - 1 /\ t[n - 1].at = WaitsFor[t[i].at]
  <2> SUFFICES ASSUME NEW i \in DOMAIN t, t[i].at \in CallPlaces
               PROVE  i = (n - 1) - 1 /\ t[n - 1].at = WaitsFor[t[i].at]
    OBVIOUS
  <2>1. i + 1 = n - 1 /\ st[n].at = WaitsFor[t[i].at]
    BY <1>3, <1>8
  <2>2. n - 1 \in 1..(n - 1) /\ t[n - 1] = st[(n - 1) + 1] /\ (n - 1) + 1 = n
    BY <1>1, <1>2, <2>1
  <2> QED BY <1>1, <1>2, <2>1, <2>2
<1>11. \A i, j \in DOMAIN t :
         t[i].at = "free" /\ t[j].at = "free" /\ t[i].svc = t[j].svc => i = j
  BY <1>1, <1>2, <1>3, <1>8
<1>12. Shape(t)
  BY <1>2, <1>9, <1>10, <1>11 DEF Shape
<1>13. Ground(t) = Ground(st)
  <2>1. CASE n = 1
    <3>1. t = <<>>
      BY <1>2, <2>1
    <3> QED BY <1>1, <1>5, <2>1, <3>1 DEF Ground
  <2>2. CASE n # 1
    <3>1. n - 1 \in 1..(n - 1) /\ t[n - 1] = st[(n - 1) + 1] /\ (n - 1) + 1 = n
      BY <1>1, <1>2, <2>2
    <3>2. t # <<>> /\ st # <<>> /\ t[Len(t)] = st[Len(st)]
      BY <1>1, <1>2, <3>1
    <3> QED BY <3>2 DEF Ground
  <2> QED BY <2>1, <2>2
<1>14. InMethod(t) = InMethod(st)
  <2>1. InMethod(t) => InMethod(st)
    BY <1>3 DEF InMethod
  <2>2. InMethod(st) => InMethod(t)
    BY <1>1, <1>4, <1>7 DEF InMethod, CallPlaces
  <2> QED BY <2>1, <2>2 DEF InMethod
<1>15. BeingFreed(t) \subseteq BeingFreed(st)
  BY <1>3 DEF BeingFreed
<1>16. \A s \in BeingFreed(st) : s \in BeingFreed(t) \/ (f.at = "free" /\ s = f.svc)
  BY <1>1, <1>4 DEF BeingFreed
<1>17. ASSUME f.at = "free"
       PROVE  f.svc \in BeingFreed(st) /\ f.svc \notin BeingFreed(t)
  <2>1. f.svc \in BeingFreed(st)
    BY <1>1, <1>6, <1>17 DEF BeingFreed
  <2>2. f.svc \notin BeingFreed(t)
    <3> SUFFICES ASSUME f.svc \in BeingFreed(t) PROVE FALSE
      OBVIOUS
    <3>1. PICK i \in DOMAIN t : t[i].at = "free" /\ t[i].svc = f.svc
      BY DEF BeingFreed
    <3> QED BY <1>1, <1>3, <1>8, <1>17, <3>1
  <2> QED BY <2>1, <2>2
<1>18. f.at = "free" => BeingFreed(t) = BeingFreed(st) \ {f.svc}
  BY <1>15, <1>16, <1>17
<1>19. f.at = "release" => BeingFreed(t) = BeingFreed(st)
  BY <1>15, <1>16
<1> QED BY <1>6, <1>12, <1>13, <1>14, <1>17, <1>18, <1>19 DEF t, f

(* The calls in progress when the topmost is a dispatch or the walk: there is no other. *)
LEMMA TopIsGround ==
  ASSUME NEW st, Shape(st), st # <<>>, Head(st).at \in DispatchPlaces \cup {"walk"}
  PROVE  /\ Head(st).at \in DispatchPlaces => Head(st) \in DispatchFrames
         /\ Head(st).at = "walk" => Head(st) \in WalkFrames
         /\ Tail(st) = <<>> /\ Ground(st) = Head(st)
         /\ BeingFreed(st) = {} /\ InMethod(st) = FALSE
<1>1. /\ st \in Seq(Frames) /\ Len(st) \in Nat \ {0} /\ DOMAIN st = 1..Len(st)
      /\ 1 \in DOMAIN st /\ Head(st) = st[1] /\ Head(st) \in Frames
  BY DEF Shape
<1>2. Len(st) = 1
  BY <1>1 DEF Shape
<1>3. Tail(st) = <<>>
  <2>1. Tail(st) \in Seq(Frames) /\ Len(Tail(st)) = 0
    BY <1>1, <1>2
  <2>2. \A t \in Seq(Frames) : Len(t) = 0 => t = <<>>
    OBVIOUS
  <2> QED BY <2>1, <2>2
<1>4. \A i \in DOMAIN st : st[i] = Head(st)
  BY <1>1, <1>2
<1>5. Head(st).at \notin FreePlaces \cup CallPlaces
  BY DEF FreePlaces, CallPlaces, DispatchPlaces, BeforeReply, AfterReply
<1>6. Ground(st) = Head(st)
  BY <1>1, <1>2, <1>5 DEF Ground
<1>7. BeingFreed(st) = {} /\ InMethod(st) = FALSE
  BY <1>4, <1>5 DEF BeingFreed, InMethod, FreePlaces, CallPlaces
<1>8. /\ Head(st).at \in DispatchPlaces => Head(st) \in DispatchFrames
      /\ Head(st).at = "walk" => Head(st) \in WalkFrames
  BY <1>1, FramePlaces
<1> QED BY <1>3, <1>6, <1>7, <1>8

(* When it is a callback of a dispatch, the dispatch is right below. *)
LEMMA TopIsCallback ==
  ASSUME NEW st, Shape(st), st # <<>>, Head(st).at \in CallPlaces
  PROVE  /\ st[2] \in DispatchFrames /\ st[2].at = WaitsFor[Head(st).at]
         /\ SubSeq(st, 3, Len(st)) = <<>> /\ Ground(st) = st[2]
         /\ BeingFreed(st) = {} /\ InMethod(st) = (Head(st).at = "method")
<1>1. /\ st \in Seq(Frames) /\ Len(st) \in Nat \ {0} /\ DOMAIN st = 1..Len(st)
      /\ 1 \in DOMAIN st /\ Head(st) = st[1] /\ Head(st) \in Frames
  BY DEF Shape
<1>2. 1 = Len(st) - 1 /\ st[Len(st)].at = WaitsFor[st[1].at]
  BY <1>1 DEF Shape
<1>3. Len(st) = 2 /\ 2 \in DOMAIN st /\ st[2] \in Frames
  <2>1. Len(st) = 2
    BY <1>1, <1>2
  <2>2. 2 \in DOMAIN st
    BY <1>1, <2>1
  <2> QED BY <1>1, <2>1, <2>2
<1>4. SubSeq(st, 3, Len(st)) = <<>>
  BY <1>1, <1>3
<1>5. st[2].at \in {"fromBind", "fromMatch", "fromReply"}
  BY <1>1, <1>2, <1>3 DEF WaitsFor, CallPlaces
<1>6. st[2].at \in DispatchPlaces
  BY <1>5 DEF DispatchPlaces, BeforeReply
<1>7. st[2] \in DispatchFrames
  BY <1>3, <1>6, FramePlaces
<1>8. Ground(st) = st[2]
  BY <1>3, <1>5 DEF Ground, FreePlaces
<1>9. \A i \in DOMAIN st : i = 1 \/ i = 2
  BY <1>1, <1>3
<1>10. BeingFreed(st) = {} /\ InMethod(st) = (Head(st).at = "method")
  <2>1. BeingFreed(st) = {}
    BY <1>1, <1>5, <1>9 DEF BeingFreed, CallPlaces
  <2>2. InMethod(st) <=> Head(st).at = "method"
    BY <1>1, <1>5, <1>9 DEF InMethod
  <2> QED BY <2>1, <2>2 DEF InMethod
<1> QED BY <1>1, <1>2, <1>3, <1>4, <1>7, <1>8, <1>10

(* No call, a dispatch or the walk alone, and a dispatch with its callback. *)
LEMMA NoCalls ==
  /\ Shape(<<>>) /\ Ground(<<>>) = NoGround /\ Ground(<<>>).at = "none"
  /\ BeingFreed(<<>>) = {} /\ InMethod(<<>>) = FALSE
<1>1. <<>> \in Seq(Frames) /\ DOMAIN <<>> = {}
  OBVIOUS
<1>2. Shape(<<>>)
  BY <1>1 DEF Shape
<1>3. Ground(<<>>) = NoGround /\ NoGround.at = "none"
  BY DEF Ground, NoGround
<1>4. BeingFreed(<<>>) = {} /\ InMethod(<<>>) = FALSE
  BY <1>1 DEF BeingFreed, InMethod
<1> QED BY <1>2, <1>3, <1>4

LEMMA GroundAlone ==
  ASSUME NEW g \in DispatchFrames \cup WalkFrames
  PROVE  /\ Shape(<<g>>) /\ Ground(<<g>>) = g
         /\ BeingFreed(<<g>>) = {} /\ InMethod(<<g>>) = FALSE
<1>1. g \in Frames
  BY DEF Frames
<1>2. g.at \in DispatchPlaces \cup {"walk"}
  BY <1>1, FramePlaces
<1>3. g.at \notin FreePlaces \cup CallPlaces
  BY <1>2 DEF FreePlaces, CallPlaces, DispatchPlaces, BeforeReply, AfterReply
<1>4. /\ <<g>> \in Seq(Frames) /\ Len(<<g>>) = 1 /\ DOMAIN <<g>> = {1} /\ <<g>>[1] = g
      /\ <<g>> # <<>>
  BY <1>1
<1>5. Shape(<<g>>)
  BY <1>3, <1>4 DEF Shape
<1>6. Ground(<<g>>) = g
  BY <1>3, <1>4 DEF Ground
<1>7. BeingFreed(<<g>>) = {} /\ InMethod(<<g>>) = FALSE
  BY <1>3, <1>4 DEF BeingFreed, InMethod, FreePlaces, CallPlaces
<1> QED BY <1>5, <1>6, <1>7

LEMMA CallbackRuns ==
  ASSUME NEW c \in CallFrames, NEW g \in DispatchFrames, g.at = WaitsFor[c.at]
  PROVE  /\ Shape(<<c, g>>) /\ Ground(<<c, g>>) = g
         /\ BeingFreed(<<c, g>>) = {} /\ InMethod(<<c, g>>) = (c.at = "method")
<1>1. c \in Frames /\ g \in Frames
  BY DEF Frames
<1>2. c.at \in CallPlaces /\ g.at \in DispatchPlaces
  BY <1>1, FramePlaces
<1>3. g.at \notin FreePlaces \cup CallPlaces /\ c.at \notin FreePlaces \cup DispatchPlaces \cup {"walk"}
  BY <1>2 DEF FreePlaces, CallPlaces, DispatchPlaces, BeforeReply, AfterReply
<1> DEFINE st == <<c, g>>
<1>4. /\ st \in Seq(Frames) /\ Len(st) = 2 /\ DOMAIN st = {1, 2} /\ st[1] = c /\ st[2] = g
      /\ st # <<>>
  BY <1>1
<1> HIDE DEF st
<1>5. /\ \A i \in DOMAIN st : st[i].at \in DispatchPlaces \cup {"walk"} => i = Len(st)
      /\ \A i \in DOMAIN st : st[i].at \in CallPlaces =>
           i = Len(st) - 1 /\ st[Len(st)].at = WaitsFor[st[i].at]
      /\ \A i \in DOMAIN st : st[i].at # "free"
  BY <1>2, <1>3, <1>4 DEF FreePlaces
<1>6. Shape(st)
  BY <1>4, <1>5 DEF Shape
<1>7. Ground(st) = g
  BY <1>3, <1>4 DEF Ground
<1>8. BeingFreed(st) = {}
  BY <1>5 DEF BeingFreed
<1>9. InMethod(st) <=> c.at = "method"
  BY <1>3, <1>4 DEF InMethod, CallPlaces
<1>10. InMethod(st) = (c.at = "method")
  BY <1>9 DEF InMethod
<1> QED BY <1>6, <1>7, <1>8, <1>10 DEF st

(* How the actions write them. *)
LEMMA ShortStacks ==
  ASSUME NEW x \in Frames, NEW y \in Frames
  PROVE  /\ <<x>> \o <<>> = <<x>> /\ <<x, y>> \o <<>> = <<x, y>>
         /\ <<x>> \o <<y>> = <<x, y>>
<1>1. <<x>> \in Seq(Frames) /\ <<y>> \in Seq(Frames) /\ <<x, y>> \in Seq(Frames)
  OBVIOUS
<1>2. <<x>> \o <<>> = <<x>> /\ <<x, y>> \o <<>> = <<x, y>>
  BY <1>1, ConcatEmptySeq
<1>3. <<x>> \o <<y>> \in Seq(Frames) /\ Len(<<x>> \o <<y>>) = 2 /\ Len(<<x, y>>) = 2
  BY <1>1
<1>4. \A i \in 1..2 : (<<x>> \o <<y>>)[i] = <<x, y>>[i]
  <2>1. (<<x>> \o <<y>>)[1] = x /\ (<<x>> \o <<y>>)[2] = y
    BY <1>1
  <2>2. <<x, y>>[1] = x /\ <<x, y>>[2] = y
    OBVIOUS
  <2>3. \A i \in 1..2 : i = 1 \/ i = 2
    OBVIOUS
  <2> QED BY <2>1, <2>2, <2>3
<1>5. <<x>> \o <<y>> = <<x, y>>
  BY <1>1, <1>3, <1>4, SeqEqual
<1> QED BY <1>2, <1>5

(* The frame at the ground. *)
LEMMA GroundFrame ==
  ASSUME NEW st, Shape(st)
  PROVE  /\ Ground(st).at \in DispatchPlaces => Ground(st) \in DispatchFrames
         /\ Ground(st).at = "walk" => Ground(st) \in WalkFrames
         /\ Ground(st).at = "walk" <=> \E i \in DOMAIN st : st[i].at = "walk"
<1>0. NoGround.at = "none" /\ "none" \notin DispatchPlaces \cup {"walk"}
  BY DEF NoGround, DispatchPlaces, BeforeReply, AfterReply
<1>1. CASE Ground(st) = NoGround /\ st = <<>>
  BY <1>0, <1>1
<1>2. CASE st # <<>>
  <2>1. st \in Seq(Frames) /\ Len(st) \in DOMAIN st
    BY <1>2 DEF Shape
  <2>2. st[Len(st)] \in Frames
    BY <2>1
  <2>3. /\ Ground(st).at \in DispatchPlaces => Ground(st) \in DispatchFrames
        /\ Ground(st).at = "walk" => Ground(st) \in WalkFrames
    BY <1>0, <2>2, FramePlaces DEF Ground
  <2>4. Ground(st).at = "walk" => \E i \in DOMAIN st : st[i].at = "walk"
    BY <1>0, <2>1 DEF Ground
  <2>5. (\E i \in DOMAIN st : st[i].at = "walk") => Ground(st).at = "walk"
    <3> SUFFICES ASSUME NEW i \in DOMAIN st, st[i].at = "walk" PROVE Ground(st).at = "walk"
      OBVIOUS
    <3>1. i = Len(st)
      BY DEF Shape
    <3> QED BY <1>2, <3>1 DEF Ground, FreePlaces
  <2> QED BY <2>3, <2>4, <2>5
<1> QED BY <1>1, <1>2 DEF Ground

-----------------------------------------------------------------------------
(* Facts about the lists *)

LEMMA KindFacts ==
  /\ \A s \in Services : KindOf(s) \in Kinds
  /\ \A s \in MatchIds : s \in Services /\ KindOf(s) = "match"
  /\ \A s \in ReplyIds : s \in Services /\ KindOf(s) = "reply" /\ s \notin MatchIds
  /\ \A s \in BindIds : /\ s \in Services /\ KindOf(s) = "bind"
                        /\ s \notin MatchIds /\ s \notin ReplyIds
  /\ \A s \in Services : /\ KindOf(s) = "match" => s \in MatchIds
                         /\ KindOf(s) = "reply" => s \in ReplyIds
                         /\ KindOf(s) = "bind" => s \in BindIds
BY ClientAssumption DEF KindOf, Kinds, Services

(* A service is added. *)
LEMMA ListsWith ==
  ASSUME ConnTypes, ListInv, NEW s \in Services, status[s] = "unused",
         status' = [status EXCEPT ![s] = "live"], lists' = AtFront(s), iter' = iter
  PROVE  ListInv' /\ lists' \in [Kinds -> Seq(Services)]
<1> DEFINE k == KindOf(s)
           q == lists[k]
<1>1. k \in Kinds /\ q \in Seq(Services)
  BY KindFacts DEF ConnTypes
<1>2. s \notin ToSet(q)
  BY <1>1 DEF ListInv, Listed
<1>3. /\ <<s>> \o q \in Seq(Services)
      /\ ToSet(<<s>> \o q) = ToSet(q) \cup {s}
      /\ Once(q) /\ s \notin ToSet(q) => Once(<<s>> \o q)
  BY <1>1, ConsFacts
<1>4. Once(q)
  BY <1>1 DEF ListInv
<1>5. lists' = [lists EXCEPT ![k] = <<s>> \o q]
  BY DEF AtFront
<1>6. \A l \in Kinds : lists'[l] = IF l = k THEN <<s>> \o q ELSE lists[l]
  BY <1>5 DEF ConnTypes
<1>7. \A t \in Services : status'[t] = IF t = s THEN "live" ELSE status[t]
  BY DEF ConnTypes
<1> HIDE DEF k, q
<1>8. lists' \in [Kinds -> Seq(Services)]
  BY <1>1, <1>3, <1>5 DEF ConnTypes
<1>9. \A l \in Kinds : Once(lists'[l])
  BY <1>2, <1>3, <1>4, <1>6 DEF ListInv
<1>10. \A l \in Kinds, t \in Services :
         t \in ToSet(lists'[l]) <=> t \in ToSet(lists[l]) \/ (t = s /\ l = k)
  BY <1>3, <1>6 DEF q
<1>11. \A l \in Kinds, t \in Services :
         t \in ToSet(lists'[l]) <=> KindOf(t) = l /\ (Listed(t))'
  BY <1>7, <1>10 DEF ListInv, Listed, k
<1>12. \A l \in Kinds : iter'[l] # Nobody => iter'[l] \in ToSet(lists'[l])
  <2> SUFFICES ASSUME NEW l \in Kinds, iter[l] # Nobody
               PROVE  iter[l] \in ToSet(lists'[l])
    OBVIOUS
  <2>1. iter[l] \in ToSet(lists[l]) /\ iter[l] \in Services
    BY DEF ListInv, ConnTypes
  <2> QED BY <1>10, <2>1
<1> QED BY <1>8, <1>9, <1>11, <1>12 DEF ListInv

(* A service leaves its list: a match when it is removed, another when it is freed. *)
LEMMA ListsWithout ==
  ASSUME ConnTypes, ListInv, NEW s \in Services, NEW v \in {"freeing", "freed"},
         v = "freeing" => s \in MatchIds,
         status' = [status EXCEPT ![s] = v], ListWithout(s)
  PROVE  /\ ListInv' /\ lists' \in [Kinds -> Seq(Services)]
         /\ iter' \in [Kinds -> Services \cup {Nobody}]
<1> DEFINE k == KindOf(s)
           q == lists[k]
           w == Without(q, {s})
<1>1. k \in Kinds /\ q \in Seq(Services) /\ Once(q)
  BY KindFacts DEF ConnTypes, ListInv
<1>2. w \in Seq(Services) /\ ToSet(w) = ToSet(q) \ {s} /\ (Once(q) => Once(w))
  <2> HIDE DEF q
  <2> QED BY <1>1, WithoutFacts
<1>3. lists' = [lists EXCEPT ![k] = w] /\ iter' = [iter EXCEPT ![k] = IF @ = s THEN Nobody ELSE @]
  BY DEF ListWithout
<1> HIDE DEF w
<1>4. \A l \in Kinds : lists'[l] = IF l = k THEN w ELSE lists[l]
  BY <1>3 DEF ConnTypes
<1>5. \A t \in Services : status'[t] = IF t = s THEN v ELSE status[t]
  BY DEF ConnTypes
<1>6. \A l \in Kinds : iter'[l] = IF l = k /\ iter[l] = s THEN Nobody ELSE iter[l]
  BY <1>3 DEF ConnTypes
<1> HIDE DEF k, q
<1>7. lists' \in [Kinds -> Seq(Services)] /\ iter' \in [Kinds -> Services \cup {Nobody}]
  BY <1>1, <1>2, <1>3 DEF ConnTypes
<1>8. \A l \in Kinds : Once(lists'[l])
  BY <1>1, <1>2, <1>4 DEF ListInv
<1>9. \A l \in Kinds, t \in Services :
        t \in ToSet(lists'[l]) <=> t \in ToSet(lists[l]) /\ ~(t = s /\ l = k)
  BY <1>2, <1>4 DEF q
<1>10. \A l \in Kinds, t \in Services :
         t \in ToSet(lists'[l]) <=> KindOf(t) = l /\ (Listed(t))'
  BY <1>5, <1>9 DEF ListInv, Listed, k
<1>11. \A l \in Kinds : iter'[l] # Nobody => iter'[l] \in ToSet(lists'[l])
  <2> SUFFICES ASSUME NEW l \in Kinds, iter'[l] # Nobody
               PROVE  iter'[l] \in ToSet(lists'[l])
    OBVIOUS
  <2>1. iter'[l] = iter[l] /\ (l = k => iter[l] # s)
    BY <1>6
  <2>2. iter[l] \in ToSet(lists[l]) /\ iter[l] \in Services
    BY <2>1 DEF ListInv, ConnTypes
  <2> QED BY <1>9, <2>1, <2>2
<1> QED BY <1>7, <1>8, <1>10, <1>11 DEF ListInv

(* A reply or a bind stays on its list while it is being freed. *)
LEMMA ListsKeep ==
  ASSUME ConnTypes, ListInv, NEW s \in Services, s \notin MatchIds, status[s] = "live",
         status' = [status EXCEPT ![s] = "freeing"], UNCHANGED <<lists, iter>>
  PROVE  ListInv'
<1>1. \A t \in Services : status'[t] = IF t = s THEN "freeing" ELSE status[t]
  BY DEF ConnTypes
<1>2. \A t \in Services : (Listed(t))' <=> Listed(t)
  BY <1>1 DEF Listed
<1> QED BY <1>2 DEF ListInv

(* What is behind a service of a list. *)
LEMMA NextFacts ==
  ASSUME ConnTypes, ListInv, NEW k \in Kinds, NEW i \in DOMAIN lists[k]
  PROVE  /\ lists[k][i] \in Services /\ KindOf(lists[k][i]) = k
         /\ lists[k][i] \in ToSet(lists[k])
         /\ NextOf(lists[k][i]) = IF i = Len(lists[k]) THEN Nobody ELSE lists[k][i + 1]
         /\ NextOf(lists[k][i]) # Nobody =>
              i + 1 \in DOMAIN lists[k] /\ NextOf(lists[k][i]) = lists[k][i + 1]
         /\ NextOf(lists[k][i]) \in (ToSet(lists[k]) \ {lists[k][i]}) \cup {Nobody}
<1> DEFINE q == lists[k]
           s == q[i]
<1>1. q \in Seq(Services) /\ Once(q)
  BY DEF ConnTypes, ListInv
<1>2. /\ \A j \in DOMAIN q : q[j] = s => j = i
      /\ DOMAIN q = 1..Len(q) /\ Len(q) \in Nat /\ i \in 1..Len(q)
  BY <1>1 DEF Once
<1>3. s \in Services /\ s \in ToSet(q)
  BY <1>1 DEF ToSet
<1>4. KindOf(s) = k
  BY <1>3 DEF ListInv
<1>5. (CHOOSE j \in DOMAIN q : q[j] = s) = i
  <2> HIDE DEF q
  <2> QED BY <1>2
<1>6. NextOf(s) = IF i = Len(q) THEN Nobody ELSE q[i + 1]
  <2>1. NextOf(s) = LET j == CHOOSE j \in DOMAIN q : q[j] = s
                    IN  IF j = Len(q) THEN Nobody ELSE q[j + 1]
    BY <1>4 DEF NextOf
  <2> HIDE DEF q
  <2> QED BY <1>5, <2>1
<1> HIDE DEF q
<1>7. i # Len(q) => i + 1 \in DOMAIN q /\ q[i + 1] \in ToSet(q) /\ q[i + 1] # s
  BY <1>2 DEF ToSet
<1> HIDE DEF s
<1>8. /\ NextOf(s) # Nobody => i + 1 \in DOMAIN q /\ NextOf(s) = q[i + 1]
      /\ NextOf(s) \in (ToSet(q) \ {s}) \cup {Nobody}
  BY <1>6, <1>7
<1> QED BY <1>3, <1>4, <1>6, <1>8 DEF q, s

LEMMA FirstFitFacts ==
  ASSUME ConnTypes, NEW msg
  PROVE  FirstFit(msg) # Nobody =>
           \E i \in DOMAIN lists["match"] : FirstFit(msg) = lists["match"][i]
<1> DEFINE q == lists["match"]
           fit == {i \in DOMAIN q : Fits(q[i], msg)}
<1>1. q \in Seq(Services)
  BY DEF ConnTypes, Kinds
<1>2. FirstFit(msg) = IF fit = {} THEN Nobody ELSE q[CHOOSE i \in fit : \A j \in fit : i <= j]
  BY DEF FirstFit
<1>3. fit \in SUBSET Nat
  BY <1>1
<1> HIDE DEF fit
<1>4. fit # {} => \E i \in fit : \A j \in fit : i <= j
  BY <1>3, LeastNumber
<1>5. fit # {} => (CHOOSE i \in fit : \A j \in fit : i <= j) \in fit
  BY <1>4
<1>6. fit \subseteq DOMAIN q
  BY DEF fit
<1> QED BY <1>2, <1>5, <1>6 DEF q

(* The iterator of a list is moved. *)
LEMMA ListsIterate ==
  ASSUME ConnTypes, ListInv, NEW k \in Kinds, NEW s \in ToSet(lists[k]) \cup {Nobody},
         iter' = [iter EXCEPT ![k] = s], UNCHANGED <<lists, status>>
  PROVE  ListInv' /\ iter' \in [Kinds -> Services \cup {Nobody}]
<1>1. ToSet(lists[k]) \subseteq Services
  <2>1. lists[k] \in Seq(Services)
    BY DEF ConnTypes
  <2> QED BY <2>1 DEF ToSet
<1>2. iter' \in [Kinds -> Services \cup {Nobody}]
  BY <1>1 DEF ConnTypes
<1>3. \A l \in Kinds : iter'[l] = IF l = k THEN s ELSE iter[l]
  BY DEF ConnTypes
<1>4. \A l \in Kinds : iter'[l] # Nobody => iter'[l] \in ToSet(lists[l])
  BY <1>3 DEF ListInv
<1> QED BY <1>2, <1>4 DEF ListInv, Listed

-----------------------------------------------------------------------------
(* The first state, and the user *)

LEMMA ConnInvFirst == ClientInit => ConnInv
<1> SUFFICES ASSUME ClientInit PROVE ConnInv
  OBVIOUS
<1>1. NoMessage \in Messages /\ NoMessage.result = "none" /\ NoMessage.sent = "none"
  BY DEF NoMessage, Messages
<1>2. <<>> \in Seq(Services) /\ ToSet(<<>>) = {} /\ Once(<<>>)
  BY DEF ToSet, Once
<1>3. \A k \in Kinds : lists[k] = <<>> /\ iter[k] = Nobody
  BY DEF ClientInit
<1>4. \A s \in Services : status[s] = "unused" /\ released[s] = 0
  BY DEF ClientInit
<1>5. ConnTypes
  BY <1>1, <1>2 DEF ConnTypes, ClientInit, Lives
<1>6. ListInv
  BY <1>2, <1>3, <1>4 DEF ListInv, Listed
<1>7. ReleaseInv /\ WaitInv
  BY <1>4 DEF ReleaseInv, WaitInv, ClientInit
<1>8. StackInv
  BY <1>4, NoCalls DEF StackInv, ClientInit
<1>9. Bound(status) = {}
  BY <1>4, KindFacts DEF Bound
<1>10. RefInv
  <2>1. IsFiniteSet({}) /\ Cardinality({}) = 0
    BY FS_EmptySet
  <2>2. ~InMethod(stack) /\ held /\ ifaceRef = 1
    BY NoCalls DEF ClientInit
  <2> QED BY <1>9, <2>1, <2>2 DEF RefInv
<1>11. RulesCurrent
  BY <1>4, KindFacts DEF RulesCurrent, ClientInit
<1>12. Ground(stack).at = "none"
  BY NoCalls DEF ClientInit
<1>13. OwnerInv /\ DueInv /\ CallInv
  BY <1>1, <1>12 DEF OwnerInv, DueInv, CallInv, ClientInit, DispatchPlaces, BeforeReply, AfterReply
<1> QED BY <1>5, <1>6, <1>7, <1>8, <1>10, <1>11, <1>13 DEF ConnInv

(* What all services have in common when they are added. *)
LEMMA AddServiceKeeps ==
  ASSUME ConnInv, NEW s \in Services, AddService(s)
  PROVE  /\ ListInv' /\ ReleaseInv' /\ StackInv' /\ OwnerInv' /\ CallInv'
         /\ lists' \in [Kinds -> Seq(Services)] /\ status' \in [Services -> Lives]
         /\ \A t \in Services : status'[t] = IF t = s THEN "live" ELSE status[t]
         /\ status[s] = "unused" /\ connRef = 1
         /\ UNCHANGED <<iter, released, held, stack, connRef, over, last>>
<1>0. ConnTypes /\ ListInv /\ ReleaseInv /\ StackInv /\ OwnerInv /\ CallInv
  BY DEF ConnInv
<1>1. /\ status[s] = "unused" /\ status' = [status EXCEPT ![s] = "live"]
      /\ lists' = AtFront(s) /\ connRef > 0
      /\ UNCHANGED <<iter, released, held, stack, connRef, over, last>>
  BY DEF AddService, MayAdd
<1>2. /\ \A t \in Services : status'[t] = IF t = s THEN "live" ELSE status[t]
      /\ status' \in [Services -> Lives]
  BY <1>0, <1>1 DEF ConnTypes, Lives
<1>3. ListInv' /\ lists' \in [Kinds -> Seq(Services)]
  BY <1>0, <1>1, ListsWith
<1>4. ReleaseInv'
  BY <1>0, <1>1, <1>2 DEF ReleaseInv
<1>5. StackInv'
  BY <1>0, <1>1, <1>2 DEF StackInv
<1>6. OwnerInv'
  BY <1>0, <1>1 DEF OwnerInv
<1>7. CallInv'
  BY <1>0, <1>1 DEF CallInv, OneMethod
<1>8. connRef = 1
  BY <1>0, <1>1 DEF ConnTypes
<1> QED BY <1>1, <1>2, <1>3, <1>4, <1>5, <1>6, <1>7, <1>8

(* A dispatch goes on with the replies that it had. *)
LEMMA AddKeepsDue ==
  ASSUME ConnInv, NEW s \in Services, AddService(s), NEW new \in SUBSET {s},
         waiting' = waiting \cup new
  PROVE  DueInv' /\ WaitInv'
<1>1. /\ \A t \in Services : status'[t] = IF t = s THEN "live" ELSE status[t]
      /\ status[s] = "unused" /\ connRef = 1
      /\ UNCHANGED <<iter, released, held, stack, connRef, over, last>>
  BY AddServiceKeeps
<1>2. ConnTypes /\ DueInv /\ WaitInv
  BY DEF ConnInv
<1>3. last.due \subseteq Services /\ waiting \subseteq Services /\ ReplyIds \subseteq Services
  BY <1>2 DEF ConnTypes, Messages, Services
<1>4. \A r \in Services : (Gone(r))' <=> Gone(r)
  BY <1>1 DEF Gone
<1> DEFINE g == Ground(stack)
<1>5. g' = g
  BY <1>1
<1>6. last.result = "ok" => \A r \in last.due : status'[r] = "freed"
  BY <1>1, <1>2, <1>3 DEF DueInv
<1>7. g.at \in BeforeReply =>
        \A r \in last.due : (Gone(r))' \/ (r \in waiting' /\ Answers(g.msg, r))
  BY <1>2, <1>3, <1>4 DEF DueInv
<1>8. g.at = "fromReply" =>
        /\ \A r \in last.due : (Gone(r))' \/ r = g.svc
        /\ g.svc \in ReplyIds \ waiting'
        /\ status'[g.svc] # "unused"
        /\ status'[g.svc] # "freed" => iter["reply"] = g.svc
  BY <1>1, <1>2, <1>3, <1>4 DEF DueInv
<1>9. g.at \in AfterReply => \A r \in last.due : (Gone(r))'
  BY <1>2, <1>3, <1>4 DEF DueInv
<1>10. g.at \in DispatchPlaces => last.result = "none"
  BY <1>2 DEF DueInv
<1>11. DueInv'
  <2> HIDE DEF g
  <2>1. /\ (Ground(stack))' = g /\ last' = last /\ iter' = iter
    BY <1>1, <1>5 DEF g
  <2> QED BY <1>6, <1>7, <1>8, <1>9, <1>10, <2>1 DEF DueInv, Answers
<1>12. WaitInv'
  BY <1>1, <1>2, <1>3 DEF WaitInv
<1> QED BY <1>11, <1>12

LEMMA ConnAddMatchKeeps ==
  ASSUME ConnInv, NEW m \in MatchIds, ConnAddMatch(m)
  PROVE  ConnInv'
<1>1. m \in Services /\ m \notin BindIds
  BY KindFacts
<1>2. AddService(m) /\ busRules' = busRules \cup {m} /\ waiting' = waiting /\ ifaceRef' = ifaceRef
  BY DEF ConnAddMatch
<1>3. /\ ListInv' /\ ReleaseInv' /\ StackInv' /\ OwnerInv' /\ CallInv'
      /\ lists' \in [Kinds -> Seq(Services)] /\ status' \in [Services -> Lives]
      /\ \A t \in Services : status'[t] = IF t = m THEN "live" ELSE status[t]
      /\ status[m] = "unused" /\ connRef = 1
      /\ UNCHANGED <<iter, released, held, stack, connRef, over, last>>
  BY <1>1, <1>2, AddServiceKeeps
<1>4. DueInv' /\ WaitInv'
  <2>1. {} \in SUBSET {m} /\ waiting' = waiting \cup {}
    BY <1>2
  <2> QED BY <1>1, <1>2, <2>1, AddKeepsDue
<1>5. ConnTypes'
  BY <1>2, <1>3 DEF ConnInv, ConnTypes
<1>6. Bound(status') = Bound(status)
  BY <1>1, <1>3, KindFacts DEF Bound
<1>7. RefInv'
  BY <1>2, <1>3, <1>6 DEF ConnInv, RefInv
<1>8. RulesCurrent'
  BY <1>2, <1>3, KindFacts DEF ConnInv, RulesCurrent
<1> QED BY <1>3, <1>4, <1>5, <1>7, <1>8 DEF ConnInv

LEMMA ConnAddReplyKeeps ==
  ASSUME ConnInv, NEW r \in ReplyIds, ConnAddReply(r)
  PROVE  ConnInv'
<1>1. r \in Services /\ r \notin BindIds /\ r \notin MatchIds
  BY KindFacts
<1>2. /\ AddService(r) /\ busRules' = busRules /\ waiting' = waiting \cup {r}
      /\ ifaceRef' = ifaceRef
  BY DEF ConnAddReply
<1>3. /\ ListInv' /\ ReleaseInv' /\ StackInv' /\ OwnerInv' /\ CallInv'
      /\ lists' \in [Kinds -> Seq(Services)] /\ status' \in [Services -> Lives]
      /\ \A t \in Services : status'[t] = IF t = r THEN "live" ELSE status[t]
      /\ status[r] = "unused" /\ connRef = 1
      /\ UNCHANGED <<iter, released, held, stack, connRef, over, last>>
  BY <1>1, <1>2, AddServiceKeeps
<1>4. DueInv' /\ WaitInv'
  <2>1. {r} \in SUBSET {r}
    OBVIOUS
  <2> QED BY <1>1, <1>2, <2>1, AddKeepsDue
<1>5. ConnTypes'
  BY <1>2, <1>3 DEF ConnInv, ConnTypes
<1>6. Bound(status') = Bound(status)
  BY <1>1, <1>3, KindFacts DEF Bound
<1>7. RefInv'
  BY <1>2, <1>3, <1>6 DEF ConnInv, RefInv
<1>8. RulesCurrent'
  BY <1>1, <1>2, <1>3, KindFacts DEF ConnInv, RulesCurrent
<1> QED BY <1>3, <1>4, <1>5, <1>7, <1>8 DEF ConnInv

LEMMA ConnBindKeeps ==
  ASSUME ConnInv, NEW b \in BindIds, ConnBind(b)
  PROVE  ConnInv'
<1>1. b \in Services /\ b \notin ReplyIds /\ b \notin MatchIds
  BY KindFacts
<1>2. /\ AddService(b) /\ busRules' = busRules /\ waiting' = waiting
      /\ ifaceRef' = ifaceRef + 1
  BY DEF ConnBind
<1>3. /\ ListInv' /\ ReleaseInv' /\ StackInv' /\ OwnerInv' /\ CallInv'
      /\ lists' \in [Kinds -> Seq(Services)] /\ status' \in [Services -> Lives]
      /\ \A t \in Services : status'[t] = IF t = b THEN "live" ELSE status[t]
      /\ status[b] = "unused" /\ connRef = 1
      /\ UNCHANGED <<iter, released, held, stack, connRef, over, last>>
  BY <1>1, <1>2, AddServiceKeeps
<1>4. DueInv' /\ WaitInv'
  <2>1. {} \in SUBSET {b} /\ waiting' = waiting \cup {}
    BY <1>2
  <2> QED BY <1>1, <1>2, <2>1, AddKeepsDue
<1>5. ConnTypes'
  BY <1>2, <1>3 DEF ConnInv, ConnTypes
<1>6. Bound(status') = Bound(status) \cup {b} /\ b \notin Bound(status)
  BY <1>1, <1>3, KindFacts DEF Bound
<1>7. RefInv'
  <2>1. IsFiniteSet(Bound(status)) /\ Cardinality(Bound(status)) \in Nat
    BY FS_CardinalityType DEF ConnInv, RefInv
  <2>2. /\ IsFiniteSet(Bound(status'))
        /\ Cardinality(Bound(status')) = Cardinality(Bound(status)) + 1
    BY <1>6, <2>1, FS_AddElement
  <2> QED BY <1>2, <1>3, <2>1, <2>2 DEF ConnInv, RefInv
<1>8. RulesCurrent'
  BY <1>1, <1>2, <1>3, KindFacts DEF ConnInv, RulesCurrent
<1> QED BY <1>3, <1>4, <1>5, <1>7, <1>8 DEF ConnInv

LEMMA DropInterfaceKeeps ==
  ASSUME ConnInv, DropInterface
  PROVE  ConnInv'
<1>1. /\ held /\ held' = FALSE /\ ifaceRef' = ifaceRef - 1
      /\ UNCHANGED <<lists, iter, status, released, waiting, busRules, stack, connRef, over, last>>
  BY DEF DropInterface
<1>2. ConnTypes /\ RefInv
  BY DEF ConnInv
<1>3. Cardinality(Bound(status)) \in Nat
  BY <1>2, FS_CardinalityType DEF RefInv
<1>4. ifaceRef = 1 + Cardinality(Bound(status)) + (IF InMethod(stack) THEN 1 ELSE 0)
  BY <1>1, <1>2 DEF RefInv
<1>5. ifaceRef' = Cardinality(Bound(status)) + (IF InMethod(stack) THEN 1 ELSE 0)
      /\ ifaceRef' \in Nat
  BY <1>1, <1>3, <1>4
<1>6. RefInv'
  BY <1>1, <1>2, <1>3, <1>5 DEF RefInv
<1>7. ConnTypes'
  BY <1>1, <1>2, <1>5 DEF ConnTypes
<1>8. ListInv' /\ ReleaseInv' /\ WaitInv' /\ StackInv' /\ RulesCurrent'
  BY <1>1 DEF ConnInv, ListInv, Listed, ReleaseInv, WaitInv, StackInv, RulesCurrent
<1>9. OwnerInv' /\ DueInv' /\ CallInv'
  BY <1>1 DEF ConnInv, OwnerInv, DueInv, CallInv, OneMethod, Gone, Answers
<1> QED BY <1>6, <1>7, <1>8, <1>9 DEF ConnInv

(* What all services have in common when they are removed. *)
LEMMA RemoveServiceKeeps ==
  ASSUME ConnInv, NEW s \in Services, RemoveService(s)
  PROVE  /\ ReleaseInv' /\ StackInv' /\ OwnerInv' /\ CallInv'
         /\ Ground(stack') = Ground(stack) /\ InMethod(stack') = InMethod(stack)
         /\ status' = [status EXCEPT ![s] = "freeing"] /\ status' \in [Services -> Lives]
         /\ \A t \in Services : status'[t] = IF t = s THEN "freeing" ELSE status[t]
         /\ status[s] = "live" /\ Bound(status') = Bound(status)
         /\ UNCHANGED <<released, ifaceRef, held, connRef, over, last>>
<1>0. ConnTypes /\ ReleaseInv /\ StackInv /\ OwnerInv /\ CallInv
  BY DEF ConnInv
<1> DEFINE f == [at |-> "free", svc |-> s]
<1>1. /\ status[s] = "live" /\ status' = [status EXCEPT ![s] = "freeing"]
      /\ stack' = <<f>> \o stack
      /\ UNCHANGED <<released, ifaceRef, held, connRef, over, last>>
  BY DEF RemoveService, PushFrame
<1>2. /\ \A t \in Services : status'[t] = IF t = s THEN "freeing" ELSE status[t]
      /\ status' \in [Services -> Lives]
  BY <1>0, <1>1 DEF ConnTypes, Lives
<1>3. f \in FreeFrames /\ f.at = "free" /\ f.svc = s
  BY DEF FreeFrames, FreePlaces
<1> HIDE DEF f
<1>4. s \notin BeingFreed(stack) /\ Shape(stack)
  BY <1>0, <1>1 DEF StackInv
<1>5. /\ Shape(<<f>> \o stack)
      /\ Ground(<<f>> \o stack) = Ground(stack)
      /\ InMethod(<<f>> \o stack) = InMethod(stack)
      /\ BeingFreed(<<f>> \o stack) = BeingFreed(stack) \cup (IF f.at = "free" THEN {f.svc} ELSE {})
  BY <1>3, <1>4, PushShape
<1>6. /\ Shape(stack') /\ Ground(stack') = Ground(stack) /\ InMethod(stack') = InMethod(stack)
      /\ BeingFreed(stack') = BeingFreed(stack) \cup {s}
  BY <1>1, <1>3, <1>5
<1>7. StackInv'
  BY <1>0, <1>2, <1>6 DEF StackInv
<1>8. ReleaseInv'
  BY <1>0, <1>1, <1>2 DEF ReleaseInv
<1>9. OwnerInv' /\ CallInv'
  BY <1>0, <1>1, <1>6 DEF OwnerInv, CallInv, OneMethod
<1>10. Bound(status') = Bound(status)
  BY <1>1, <1>2, KindFacts DEF Bound
<1> QED BY <1>1, <1>2, <1>6, <1>7, <1>8, <1>9, <1>10

LEMMA RemoveKeepsDue ==
  ASSUME ConnInv, NEW s \in Services, RemoveService(s),
         waiting' = waiting \ {s}, iter'["reply"] = iter["reply"]
  PROVE  DueInv' /\ WaitInv'
<1>1. /\ \A t \in Services : status'[t] = IF t = s THEN "freeing" ELSE status[t]
      /\ status[s] = "live" /\ Ground(stack') = Ground(stack)
      /\ UNCHANGED <<connRef, last>>
  BY RemoveServiceKeeps
<1>2. ConnTypes /\ DueInv /\ WaitInv
  BY DEF ConnInv
<1>3. last.due \subseteq Services /\ waiting \subseteq Services /\ ReplyIds \subseteq Services
  BY <1>2 DEF ConnTypes, Messages, Services
<1>4. \A r \in Services : (Gone(r))' <=> Gone(r) \/ r = s
  BY <1>1 DEF Gone
<1> DEFINE g == Ground(stack)
<1>6. last.result = "ok" => \A r \in last.due : status'[r] = "freed"
  BY <1>1, <1>2, <1>3 DEF DueInv
<1>7. g.at \in BeforeReply =>
        \A r \in last.due : (Gone(r))' \/ (r \in waiting' /\ Answers(g.msg, r))
  BY <1>2, <1>3, <1>4 DEF DueInv
<1>8. g.at = "fromReply" =>
        /\ \A r \in last.due : (Gone(r))' \/ r = g.svc
        /\ g.svc \in ReplyIds \ waiting'
        /\ status'[g.svc] # "unused"
        /\ status'[g.svc] # "freed" => iter'["reply"] = g.svc
  BY <1>1, <1>2, <1>3, <1>4 DEF DueInv
<1>9. g.at \in AfterReply => \A r \in last.due : (Gone(r))'
  BY <1>2, <1>3, <1>4 DEF DueInv
<1>10. g.at \in DispatchPlaces => last.result = "none"
  BY <1>2 DEF DueInv
<1>11. DueInv'
  <2> HIDE DEF g
  <2>1. (Ground(stack))' = g /\ last' = last
    BY <1>1 DEF g
  <2> QED BY <1>6, <1>7, <1>8, <1>9, <1>10, <2>1 DEF DueInv, Answers
<1>12. WaitInv'
  BY <1>1, <1>2, <1>3 DEF WaitInv
<1> QED BY <1>11, <1>12

LEMMA ConnRemoveMatchKeeps ==
  ASSUME ConnInv, NEW m \in MatchIds, ConnRemoveMatch(m)
  PROVE  ConnInv'
<1>0. ConnTypes /\ ListInv /\ RefInv /\ RulesCurrent
  BY DEF ConnInv
<1>1. m \in Services /\ KindOf(m) = "match" /\ m \notin ReplyIds
  BY KindFacts
<1>2. RemoveService(m) /\ busRules' = busRules \ {m} /\ ListWithout(m) /\ waiting' = waiting
  BY DEF ConnRemoveMatch
<1>3. /\ ReleaseInv' /\ StackInv' /\ OwnerInv' /\ CallInv'
      /\ Ground(stack') = Ground(stack) /\ InMethod(stack') = InMethod(stack)
      /\ status' = [status EXCEPT ![m] = "freeing"] /\ status' \in [Services -> Lives]
      /\ \A t \in Services : status'[t] = IF t = m THEN "freeing" ELSE status[t]
      /\ status[m] = "live" /\ Bound(status') = Bound(status)
      /\ UNCHANGED <<released, ifaceRef, held, connRef, over, last>>
  BY <1>1, <1>2, RemoveServiceKeeps
<1>4. /\ ListInv' /\ lists' \in [Kinds -> Seq(Services)]
      /\ iter' \in [Kinds -> Services \cup {Nobody}]
  BY <1>0, <1>1, <1>2, <1>3, ListsWithout
<1>5. DueInv' /\ WaitInv'
  <2>1. waiting' = waiting \ {m}
    BY <1>0, <1>1, <1>2 DEF ConnTypes
  <2>2. iter'["reply"] = iter["reply"]
    BY <1>0, <1>1, <1>2 DEF ListWithout, ConnTypes, Kinds
  <2> QED BY <1>1, <1>2, <2>1, <2>2, RemoveKeepsDue
<1>6. ConnTypes'
  BY <1>0, <1>2, <1>3, <1>4 DEF ConnTypes
<1>7. RefInv'
  BY <1>0, <1>3 DEF RefInv
<1>8. RulesCurrent'
  BY <1>0, <1>2, <1>3, KindFacts DEF RulesCurrent
<1> QED BY <1>3, <1>4, <1>5, <1>6, <1>7, <1>8 DEF ConnInv

LEMMA ConnRemoveReplyKeeps ==
  ASSUME ConnInv, NEW r \in ReplyIds, ConnRemoveReply(r)
  PROVE  ConnInv'
<1>0. ConnTypes /\ ListInv /\ RefInv /\ RulesCurrent
  BY DEF ConnInv
<1>1. r \in Services /\ r \notin MatchIds
  BY KindFacts
<1>2. RemoveService(r) /\ waiting' = waiting \ {r} /\ UNCHANGED <<lists, iter, busRules>>
  BY DEF ConnRemoveReply
<1>3. /\ ReleaseInv' /\ StackInv' /\ OwnerInv' /\ CallInv'
      /\ Ground(stack') = Ground(stack) /\ InMethod(stack') = InMethod(stack)
      /\ status' = [status EXCEPT ![r] = "freeing"] /\ status' \in [Services -> Lives]
      /\ \A t \in Services : status'[t] = IF t = r THEN "freeing" ELSE status[t]
      /\ status[r] = "live" /\ Bound(status') = Bound(status)
      /\ UNCHANGED <<released, ifaceRef, held, connRef, over, last>>
  BY <1>1, <1>2, RemoveServiceKeeps
<1>4. ListInv'
  BY <1>0, <1>1, <1>2, <1>3, ListsKeep
<1>5. DueInv' /\ WaitInv'
  BY <1>1, <1>2, RemoveKeepsDue
<1>6. ConnTypes'
  BY <1>0, <1>2, <1>3 DEF ConnTypes
<1>7. RefInv'
  BY <1>0, <1>3 DEF RefInv
<1>8. RulesCurrent'
  BY <1>0, <1>1, <1>2, <1>3, KindFacts DEF RulesCurrent
<1> QED BY <1>3, <1>4, <1>5, <1>6, <1>7, <1>8 DEF ConnInv

LEMMA ConnUnbindKeeps ==
  ASSUME ConnInv, NEW b \in BindIds, ConnUnbind(b)
  PROVE  ConnInv'
<1>0. ConnTypes /\ ListInv /\ RefInv /\ RulesCurrent
  BY DEF ConnInv
<1>1. b \in Services /\ b \notin MatchIds /\ b \notin ReplyIds
  BY KindFacts
<1>2. RemoveService(b) /\ UNCHANGED <<lists, iter, waiting, busRules>>
  BY DEF ConnUnbind
<1>3. /\ ReleaseInv' /\ StackInv' /\ OwnerInv' /\ CallInv'
      /\ Ground(stack') = Ground(stack) /\ InMethod(stack') = InMethod(stack)
      /\ status' = [status EXCEPT ![b] = "freeing"] /\ status' \in [Services -> Lives]
      /\ \A t \in Services : status'[t] = IF t = b THEN "freeing" ELSE status[t]
      /\ status[b] = "live" /\ Bound(status') = Bound(status)
      /\ UNCHANGED <<released, ifaceRef, held, connRef, over, last>>
  BY <1>1, <1>2, RemoveServiceKeeps
<1>4. ListInv'
  BY <1>0, <1>1, <1>2, <1>3, ListsKeep
<1>5. DueInv' /\ WaitInv'
  <2>1. waiting' = waiting \ {b}
    BY <1>0, <1>1, <1>2 DEF ConnTypes
  <2>2. iter'["reply"] = iter["reply"]
    BY <1>2
  <2> QED BY <1>1, <1>2, <2>1, <2>2, RemoveKeepsDue
<1>6. ConnTypes'
  BY <1>0, <1>2, <1>3 DEF ConnTypes
<1>7. RefInv'
  BY <1>0, <1>3 DEF RefInv
<1>8. RulesCurrent'
  BY <1>0, <1>1, <1>2, <1>3, KindFacts DEF RulesCurrent
<1> QED BY <1>3, <1>4, <1>5, <1>6, <1>7, <1>8 DEF ConnInv

-----------------------------------------------------------------------------
(* Freeing a service *)

LEMMA CallReleaseKeeps ==
  ASSUME ConnInv, CallRelease
  PROVE  ConnInv'
<1>0. ConnTypes /\ ListInv /\ ReleaseInv /\ StackInv
  BY DEF ConnInv
<1> DEFINE s == Head(stack).svc
           f == [at |-> "release", svc |-> s]
<1>1. /\ stack # <<>> /\ Head(stack).at = "free" /\ released[s] < Releases[s]
      /\ released' = [released EXCEPT ![s] = @ + 1] /\ stack' = <<f>> \o stack
      /\ UNCHANGED <<lists, iter, status, waiting, busRules, ifaceRef, held, connRef, over, last>>
  BY DEF CallRelease, TopFrame, PushFrame
<1>2. Shape(stack) /\ Head(stack).at \in FreePlaces
  BY <1>0, <1>1 DEF StackInv, FreePlaces
<1>3. s \in Services /\ s \in BeingFreed(stack)
  <2>1. /\ Head(stack).svc \in Services
        /\ Head(stack).at = "free" => Head(stack).svc \in BeingFreed(stack)
    BY <1>1, <1>2, PopShape
  <2> QED BY <1>1, <2>1
<1> HIDE DEF s
<1>4. f \in FreeFrames /\ f.at = "release"
  BY <1>3 DEF FreeFrames, FreePlaces
<1> HIDE DEF f
<1>5. /\ Shape(<<f>> \o stack)
      /\ Ground(<<f>> \o stack) = Ground(stack)
      /\ InMethod(<<f>> \o stack) = InMethod(stack)
      /\ BeingFreed(<<f>> \o stack) = BeingFreed(stack) \cup (IF f.at = "free" THEN {f.svc} ELSE {})
  BY <1>2, <1>4, PushShape
<1>6. /\ Shape(stack') /\ Ground(stack') = Ground(stack) /\ InMethod(stack') = InMethod(stack)
      /\ BeingFreed(stack') = BeingFreed(stack)
  BY <1>1, <1>4, <1>5
<1>7. status[s] = "freeing"
  BY <1>0, <1>3 DEF StackInv
<1>8. Releases[s] \in 0..2 /\ released[s] \in 0..2
  BY <1>0, <1>3, ClientAssumption DEF ConnTypes
<1>9. released' \in [Services -> 0..2] /\ \A t \in Services : t # s => released'[t] = released[t]
  BY <1>0, <1>1, <1>3, <1>8 DEF ConnTypes
<1>10. ConnTypes'
  BY <1>0, <1>1, <1>9 DEF ConnTypes
<1>11. ReleaseInv'
  BY <1>0, <1>1, <1>7, <1>9 DEF ReleaseInv
<1>12. StackInv'
  BY <1>0, <1>1, <1>6 DEF StackInv
<1>13. ListInv' /\ WaitInv' /\ RulesCurrent'
  BY <1>1 DEF ConnInv, ListInv, Listed, WaitInv, RulesCurrent
<1>14. RefInv' /\ OwnerInv'
  BY <1>1, <1>6 DEF ConnInv, RefInv, OwnerInv
<1>15. DueInv'
  BY <1>1, <1>6 DEF ConnInv, DueInv, Gone, Answers
<1>16. CallInv'
  BY <1>1, <1>6 DEF ConnInv, CallInv, OneMethod
<1> QED BY <1>10, <1>11, <1>12, <1>13, <1>14, <1>15, <1>16 DEF ConnInv

LEMMA ReleaseReturnsKeeps ==
  ASSUME ConnInv, ReleaseReturns
  PROVE  ConnInv'
<1>0. StackInv
  BY DEF ConnInv
<1>1. /\ stack # <<>> /\ Head(stack).at = "release" /\ stack' = Tail(stack)
      /\ UNCHANGED <<lists, iter, status, released, waiting, busRules, ifaceRef, held,
                     connRef, over, last>>
  BY DEF ReleaseReturns, AtFrame, TopFrame, PopFrame
<1>2. Shape(stack) /\ Head(stack).at \in FreePlaces
  BY <1>0, <1>1 DEF StackInv, FreePlaces
<1>3. /\ Shape(stack') /\ Ground(stack') = Ground(stack) /\ InMethod(stack') = InMethod(stack)
      /\ BeingFreed(stack') = BeingFreed(stack)
  BY <1>1, <1>2, PopShape
<1>4. StackInv'
  BY <1>0, <1>1, <1>3 DEF StackInv
<1>5. ConnTypes' /\ ListInv' /\ ReleaseInv' /\ WaitInv' /\ RulesCurrent'
  BY <1>1 DEF ConnInv, ConnTypes, ListInv, Listed, ReleaseInv, WaitInv, RulesCurrent
<1>6. RefInv' /\ OwnerInv'
  BY <1>1, <1>3 DEF ConnInv, RefInv, OwnerInv
<1>7. DueInv'
  BY <1>1, <1>3 DEF ConnInv, DueInv, Gone, Answers
<1>8. CallInv'
  BY <1>1, <1>3 DEF ConnInv, CallInv, OneMethod
<1> QED BY <1>4, <1>5, <1>6, <1>7, <1>8 DEF ConnInv

(* What all services have in common when they are freed. *)
LEMMA ServiceFreedKeeps ==
  ASSUME ConnInv, NEW s \in Services, ServiceFreed(s)
  PROVE  /\ ReleaseInv' /\ StackInv' /\ OwnerInv' /\ CallInv' /\ RulesCurrent' /\ WaitInv'
         /\ Ground(stack') = Ground(stack) /\ InMethod(stack') = InMethod(stack)
         /\ status' = [status EXCEPT ![s] = "freed"] /\ status' \in [Services -> Lives]
         /\ \A t \in Services : status'[t] = IF t = s THEN "freed" ELSE status[t]
         /\ status[s] = "freeing"
         /\ UNCHANGED <<released, waiting, busRules, held, connRef, over, last>>
<1>0. /\ ConnTypes /\ ReleaseInv /\ StackInv /\ OwnerInv /\ CallInv /\ RulesCurrent /\ WaitInv
  BY DEF ConnInv
<1>1. /\ stack # <<>> /\ Head(stack).at = "free" /\ Head(stack).svc = s
      /\ released[s] = Releases[s]
      /\ status' = [status EXCEPT ![s] = "freed"] /\ stack' = Tail(stack)
      /\ UNCHANGED <<released, waiting, busRules, held, connRef, over, last>>
  BY DEF ServiceFreed, TopFrame, PopFrame
<1>2. Shape(stack) /\ Head(stack).at \in FreePlaces
  BY <1>0, <1>1 DEF StackInv, FreePlaces
<1>3. /\ Shape(stack') /\ Ground(stack') = Ground(stack) /\ InMethod(stack') = InMethod(stack)
      /\ s \in BeingFreed(stack) /\ BeingFreed(stack') = BeingFreed(stack) \ {s}
  BY <1>1, <1>2, PopShape
<1>4. /\ \A t \in Services : status'[t] = IF t = s THEN "freed" ELSE status[t]
      /\ status' \in [Services -> Lives]
  BY <1>0, <1>1 DEF ConnTypes, Lives
<1>5. status[s] = "freeing"
  BY <1>0, <1>3 DEF StackInv
<1>6. StackInv'
  BY <1>0, <1>3, <1>4 DEF StackInv
<1>7. ReleaseInv'
  BY <1>0, <1>1, <1>4 DEF ReleaseInv
<1>8. OwnerInv' /\ CallInv'
  BY <1>0, <1>1, <1>3 DEF OwnerInv, CallInv, OneMethod
<1>9. RulesCurrent'
  BY <1>0, <1>1, <1>4, <1>5, KindFacts DEF RulesCurrent
<1>10. WaitInv'
  <2>1. waiting \subseteq Services
    BY <1>0 DEF ConnTypes, Services
  <2> QED BY <1>0, <1>1, <1>4, <1>5, <2>1 DEF WaitInv
<1> QED BY <1>1, <1>3, <1>4, <1>5, <1>6, <1>7, <1>8, <1>9, <1>10

LEMMA FreedKeepsDue ==
  ASSUME ConnInv, NEW s \in Services, ServiceFreed(s),
         iter["reply"] # s => iter'["reply"] = iter["reply"]
  PROVE  DueInv'
<1>1. /\ \A t \in Services : status'[t] = IF t = s THEN "freed" ELSE status[t]
      /\ status[s] = "freeing" /\ Ground(stack') = Ground(stack)
      /\ UNCHANGED <<waiting, connRef, last>>
  BY ServiceFreedKeeps
<1>2. ConnTypes /\ DueInv
  BY DEF ConnInv
<1>3. last.due \subseteq Services /\ waiting \subseteq Services /\ ReplyIds \subseteq Services
  BY <1>2 DEF ConnTypes, Messages, Services
<1>4. \A r \in Services : (Gone(r))' <=> Gone(r)
  BY <1>1 DEF Gone
<1> DEFINE g == Ground(stack)
<1>6. last.result = "ok" => \A r \in last.due : status'[r] = "freed"
  BY <1>1, <1>2, <1>3 DEF DueInv
<1>7. g.at \in BeforeReply =>
        \A r \in last.due : (Gone(r))' \/ (r \in waiting' /\ Answers(g.msg, r))
  BY <1>1, <1>2, <1>3, <1>4 DEF DueInv
<1>8. g.at = "fromReply" =>
        /\ \A r \in last.due : (Gone(r))' \/ r = g.svc
        /\ g.svc \in ReplyIds \ waiting'
        /\ status'[g.svc] # "unused"
        /\ status'[g.svc] # "freed" => iter'["reply"] = g.svc
  BY <1>1, <1>2, <1>3, <1>4 DEF DueInv
<1>9. g.at \in AfterReply => \A r \in last.due : (Gone(r))'
  BY <1>2, <1>3, <1>4 DEF DueInv
<1>10. g.at \in DispatchPlaces => last.result = "none"
  BY <1>2 DEF DueInv
<1>11. DueInv'
  <2> HIDE DEF g
  <2>1. (Ground(stack))' = g /\ last' = last
    BY <1>1 DEF g
  <2> QED BY <1>6, <1>7, <1>8, <1>9, <1>10, <2>1 DEF DueInv, Answers
<1> QED BY <1>11

LEMMA FreeMatchKeeps ==
  ASSUME ConnInv, NEW m \in MatchIds, FreeMatch(m)
  PROVE  ConnInv'
<1>0. ConnTypes /\ ListInv /\ RefInv
  BY DEF ConnInv
<1>1. m \in Services /\ m \notin BindIds
  BY KindFacts
<1>2. ServiceFreed(m) /\ UNCHANGED <<lists, iter, ifaceRef>>
  BY DEF FreeMatch
<1>3. /\ ReleaseInv' /\ StackInv' /\ OwnerInv' /\ CallInv' /\ RulesCurrent' /\ WaitInv'
      /\ Ground(stack') = Ground(stack) /\ InMethod(stack') = InMethod(stack)
      /\ status' = [status EXCEPT ![m] = "freed"] /\ status' \in [Services -> Lives]
      /\ \A t \in Services : status'[t] = IF t = m THEN "freed" ELSE status[t]
      /\ status[m] = "freeing"
      /\ UNCHANGED <<released, waiting, busRules, held, connRef, over, last>>
  BY <1>1, <1>2, ServiceFreedKeeps
<1>4. DueInv'
  BY <1>1, <1>2, FreedKeepsDue
<1>5. \A t \in Services : (Listed(t))' <=> Listed(t)
  BY <1>3 DEF Listed
<1>6. ListInv'
  BY <1>0, <1>2, <1>5 DEF ListInv
<1>7. ConnTypes'
  BY <1>0, <1>2, <1>3 DEF ConnTypes
<1>8. Bound(status') = Bound(status)
  BY <1>1, <1>3, KindFacts DEF Bound
<1>9. RefInv'
  BY <1>0, <1>2, <1>3, <1>8 DEF RefInv
<1> QED BY <1>3, <1>4, <1>6, <1>7, <1>9 DEF ConnInv

LEMMA FreeReplyKeeps ==
  ASSUME ConnInv, NEW r \in ReplyIds, FreeReply(r)
  PROVE  ConnInv'
<1>0. ConnTypes /\ ListInv /\ RefInv
  BY DEF ConnInv
<1>1. r \in Services /\ r \notin BindIds /\ KindOf(r) = "reply"
  BY KindFacts
<1>2. ServiceFreed(r) /\ ListWithout(r) /\ ifaceRef' = ifaceRef
  BY DEF FreeReply
<1>3. /\ ReleaseInv' /\ StackInv' /\ OwnerInv' /\ CallInv' /\ RulesCurrent' /\ WaitInv'
      /\ Ground(stack') = Ground(stack) /\ InMethod(stack') = InMethod(stack)
      /\ status' = [status EXCEPT ![r] = "freed"] /\ status' \in [Services -> Lives]
      /\ \A t \in Services : status'[t] = IF t = r THEN "freed" ELSE status[t]
      /\ status[r] = "freeing"
      /\ UNCHANGED <<released, waiting, busRules, held, connRef, over, last>>
  BY <1>1, <1>2, ServiceFreedKeeps
<1>4. DueInv'
  <2>1. iter["reply"] # r => iter'["reply"] = iter["reply"]
    BY <1>0, <1>1, <1>2 DEF ListWithout, ConnTypes, Kinds
  <2> QED BY <1>1, <1>2, <2>1, FreedKeepsDue
<1>5. /\ ListInv' /\ lists' \in [Kinds -> Seq(Services)]
      /\ iter' \in [Kinds -> Services \cup {Nobody}]
  BY <1>0, <1>1, <1>2, <1>3, ListsWithout
<1>6. ConnTypes'
  BY <1>0, <1>2, <1>3, <1>5 DEF ConnTypes
<1>7. Bound(status') = Bound(status)
  BY <1>1, <1>3, KindFacts DEF Bound
<1>8. RefInv'
  BY <1>0, <1>2, <1>3, <1>7 DEF RefInv
<1> QED BY <1>3, <1>4, <1>5, <1>6, <1>8 DEF ConnInv

LEMMA FreeBindKeeps ==
  ASSUME ConnInv, NEW b \in BindIds, FreeBind(b)
  PROVE  ConnInv'
<1>0. ConnTypes /\ ListInv /\ RefInv
  BY DEF ConnInv
<1>1. b \in Services /\ KindOf(b) = "bind"
  BY KindFacts
<1>2. ServiceFreed(b) /\ ListWithout(b) /\ ifaceRef' = ifaceRef - 1
  BY DEF FreeBind
<1>3. /\ ReleaseInv' /\ StackInv' /\ OwnerInv' /\ CallInv' /\ RulesCurrent' /\ WaitInv'
      /\ Ground(stack') = Ground(stack) /\ InMethod(stack') = InMethod(stack)
      /\ status' = [status EXCEPT ![b] = "freed"] /\ status' \in [Services -> Lives]
      /\ \A t \in Services : status'[t] = IF t = b THEN "freed" ELSE status[t]
      /\ status[b] = "freeing"
      /\ UNCHANGED <<released, waiting, busRules, held, connRef, over, last>>
  BY <1>1, <1>2, ServiceFreedKeeps
<1>4. DueInv'
  <2>1. iter'["reply"] = iter["reply"]
    BY <1>0, <1>1, <1>2 DEF ListWithout, ConnTypes, Kinds
  <2> QED BY <1>1, <1>2, <2>1, FreedKeepsDue
<1>5. /\ ListInv' /\ lists' \in [Kinds -> Seq(Services)]
      /\ iter' \in [Kinds -> Services \cup {Nobody}]
  BY <1>0, <1>1, <1>2, <1>3, ListsWithout
<1>6. Bound(status') = Bound(status) \ {b} /\ b \in Bound(status)
  BY <1>1, <1>3, KindFacts DEF Bound
<1>7. IsFiniteSet(Bound(status)) /\ Cardinality(Bound(status)) \in Nat
  BY <1>0, FS_CardinalityType DEF RefInv
<1>8. /\ IsFiniteSet(Bound(status')) /\ Cardinality(Bound(status')) \in Nat
      /\ Cardinality(Bound(status)) = Cardinality(Bound(status')) + 1
  <2>1. IsFiniteSet(Bound(status) \ {b})
        /\ Cardinality(Bound(status) \ {b}) = Cardinality(Bound(status)) - 1
    BY <1>6, <1>7, FS_RemoveElement
  <2>2. Cardinality(Bound(status) \ {b}) \in Nat
    BY <2>1, FS_CardinalityType
  <2> QED BY <1>6, <1>7, <2>1, <2>2
<1>9. ifaceRef = (IF held THEN 1 ELSE 0) + (Cardinality(Bound(status')) + 1)
                 + (IF InMethod(stack) THEN 1 ELSE 0)
  BY <1>0, <1>8 DEF RefInv
<1>10. /\ ifaceRef' = (IF held' THEN 1 ELSE 0) + Cardinality(Bound(status'))
                      + (IF InMethod(stack') THEN 1 ELSE 0)
       /\ ifaceRef' \in Nat
  <2>1. held' = held /\ InMethod(stack') = InMethod(stack)
    BY <1>3
  <2> QED BY <1>2, <1>8, <1>9, <2>1
<1>11. RefInv'
  BY <1>8, <1>10 DEF RefInv
<1>12. ConnTypes'
  BY <1>0, <1>3, <1>5, <1>10 DEF ConnTypes
<1> QED BY <1>3, <1>4, <1>5, <1>11, <1>12 DEF ConnInv

-----------------------------------------------------------------------------
(* Freeing the connection *)

LEMMA ConnDerefKeeps ==
  ASSUME ConnInv, ConnDeref
  PROVE  ConnInv' /\ Ground(stack').at = "walk" /\ Ground(stack').kind = "bind"
         /\ Ground(stack').first
<1>0. ConnTypes /\ StackInv /\ OwnerInv /\ RefInv /\ DueInv /\ CallInv
  BY DEF ConnInv
<1> DEFINE w == [at |-> "walk", kind |-> "bind", first |-> TRUE]
<1>1. over = "no" /\ stack = <<>>
  BY DEF ConnDeref
<1>2. Ground(stack).at = "none" /\ BeingFreed(stack) = {} /\ InMethod(stack) = FALSE
  BY <1>1, NoCalls
<1>3. connRef = 1
  BY <1>0, <1>1, <1>2 DEF OwnerInv, ConnTypes
<1>4. /\ connRef' = 0 /\ waiting' = {} /\ stack' = <<w>>
      /\ UNCHANGED <<lists, iter, status, released, busRules, ifaceRef, held, over, last>>
  BY <1>3 DEF ConnDeref
<1>5. w \in WalkFrames /\ w.at = "walk" /\ w.kind = "bind" /\ w.first
  BY DEF WalkFrames, Kinds
<1> HIDE DEF w
<1>6. Shape(stack') /\ Ground(stack') = w /\ BeingFreed(stack') = {} /\ InMethod(stack') = FALSE
  BY <1>4, <1>5, GroundAlone
<1>7. StackInv'
  BY <1>0, <1>2, <1>4, <1>6 DEF StackInv
<1>8. ConnTypes'
  BY <1>0, <1>4 DEF ConnTypes
<1>9. ListInv' /\ ReleaseInv' /\ WaitInv' /\ RulesCurrent'
  BY <1>4 DEF ConnInv, ListInv, Listed, ReleaseInv, WaitInv, RulesCurrent
<1>10. RefInv'
  BY <1>0, <1>2, <1>4, <1>6 DEF RefInv
<1>11. OwnerInv'
  BY <1>4, <1>5, <1>6 DEF OwnerInv
<1>12. DueInv' /\ CallInv'
  BY <1>0, <1>4, <1>5, <1>6 DEF DueInv, CallInv, OneMethod, DispatchPlaces, BeforeReply, AfterReply
<1> QED BY <1>5, <1>6, <1>7, <1>8, <1>9, <1>10, <1>11, <1>12 DEF ConnInv

(* Where the walk is: at a service of its list that is live, as nothing is being freed. *)
LEMMA WalkPlace ==
  ASSUME ConnInv, stack # <<>>, Head(stack).at = "walk"
  PROVE  /\ Head(stack) \in WalkFrames /\ Tail(stack) = <<>> /\ Ground(stack) = Head(stack)
         /\ BeingFreed(stack) = {} /\ InMethod(stack) = FALSE
         /\ \A t \in Services : status[t] # "freeing"
         /\ connRef = 0 /\ waiting = {}
         /\ WalkedTo # Nobody =>
              \E i \in DOMAIN lists[Head(stack).kind] :
                /\ WalkedTo = lists[Head(stack).kind][i]
                /\ Head(stack).first => i = 1
                /\ status[WalkedTo] = "live" /\ KindOf(WalkedTo) = Head(stack).kind
<1>0. ConnTypes /\ ListInv /\ StackInv /\ OwnerInv /\ WaitInv
  BY DEF ConnInv
<1>1. /\ Head(stack) \in WalkFrames /\ Tail(stack) = <<>> /\ Ground(stack) = Head(stack)
      /\ BeingFreed(stack) = {} /\ InMethod(stack) = FALSE
  BY <1>0, TopIsGround DEF StackInv
<1>2. \A t \in Services : status[t] # "freeing"
  BY <1>0, <1>1 DEF StackInv
<1>3. connRef = 0 /\ waiting = {}
  BY <1>0, <1>1 DEF OwnerInv, WaitInv
<1> DEFINE k == Head(stack).kind
           q == lists[k]
<1>4. k \in Kinds /\ Head(stack).first \in BOOLEAN
  BY <1>1, FrameFields
<1>5. q \in Seq(Services)
  BY <1>0, <1>4 DEF ConnTypes
<1> HIDE DEF k
<1>6. ASSUME WalkedTo # Nobody
      PROVE  \E i \in DOMAIN q : /\ WalkedTo = q[i] /\ (Head(stack).first => i = 1)
                                 /\ status[WalkedTo] = "live" /\ KindOf(WalkedTo) = k
  <2>1. CASE Head(stack).first
    <3>1. q # <<>> /\ WalkedTo = Head(q)
      BY <1>6, <2>1 DEF WalkedTo, TopFrame, k
    <3>2. 1 \in DOMAIN q /\ WalkedTo = q[1]
      BY <1>5, <3>1
    <3>3. WalkedTo \in Services /\ WalkedTo \in ToSet(q)
      BY <1>5, <3>2 DEF ToSet
    <3>4. KindOf(WalkedTo) = k /\ Listed(WalkedTo)
      BY <1>0, <1>4, <3>3 DEF ListInv
    <3> QED BY <1>2, <3>2, <3>3, <3>4 DEF Listed
  <2>2. CASE ~Head(stack).first
    <3>1. WalkedTo = iter[k] /\ iter[k] \in ToSet(q)
      BY <1>0, <1>4, <1>6, <2>2 DEF WalkedTo, TopFrame, k, ListInv
    <3>2. PICK i \in DOMAIN q : WalkedTo = q[i]
      BY <3>1 DEF ToSet
    <3>3. WalkedTo \in Services
      BY <1>5, <3>2
    <3>4. KindOf(WalkedTo) = k /\ Listed(WalkedTo)
      BY <1>0, <1>4, <3>1, <3>3 DEF ListInv
    <3> QED BY <1>2, <2>2, <3>2, <3>3, <3>4 DEF Listed
  <2> QED BY <2>1, <2>2
<1> QED BY <1>1, <1>2, <1>3, <1>6 DEF k

(* The lists when the walk frees the service that it is at. *)
LEMMA ListsWalked ==
  ASSUME ConnTypes, ListInv, NEW k \in Kinds, NEW i \in DOMAIN lists[k], NEW s,
         s = lists[k][i], status[s] = "live", status' = [status EXCEPT ![s] = "freeing"],
         iter' = [iter EXCEPT ![k] = NextOf(s)],
         lists' = IF s \in MatchIds THEN [lists EXCEPT ![k] = Without(@, {s})] ELSE lists
  PROVE  /\ ListInv' /\ lists' \in [Kinds -> Seq(Services)]
         /\ iter' \in [Kinds -> Services \cup {Nobody}]
<1>1. /\ s \in Services /\ KindOf(s) = k /\ s \in ToSet(lists[k])
      /\ NextOf(s) \in (ToSet(lists[k]) \ {s}) \cup {Nobody}
  BY NextFacts
<1>2. lists[k] \in Seq(Services) /\ Once(lists[k])
  BY DEF ConnTypes, ListInv
<1>3. ToSet(lists[k]) \subseteq Services
  BY <1>2 DEF ToSet
<1>4. iter' \in [Kinds -> Services \cup {Nobody}]
  BY <1>1, <1>3 DEF ConnTypes
<1>5. /\ \A t \in Services : status'[t] = IF t = s THEN "freeing" ELSE status[t]
      /\ \A l \in Kinds : iter'[l] = IF l = k THEN NextOf(s) ELSE iter[l]
  BY DEF ConnTypes
<1>6. CASE s \notin MatchIds
  <2>1. lists' = lists
    BY <1>6
  <2>2. \A t \in Services : (Listed(t))' <=> Listed(t)
    BY <1>5, <1>6 DEF Listed
  <2>3. \A l \in Kinds : iter'[l] # Nobody => iter'[l] \in ToSet(lists[l])
    BY <1>1, <1>5 DEF ListInv
  <2>4. ListInv'
    BY <2>1, <2>2, <2>3 DEF ListInv
  <2> QED BY <1>4, <2>1, <2>4 DEF ConnTypes
<1>7. CASE s \in MatchIds
  <2> DEFINE q == lists[k]
             w == Without(q, {s})
  <2>1. w \in Seq(Services) /\ ToSet(w) = ToSet(q) \ {s} /\ (Once(q) => Once(w))
    <3> HIDE DEF q
    <3> QED BY <1>2, WithoutFacts DEF q
  <2>2. lists' = [lists EXCEPT ![k] = w]
    BY <1>7
  <2> HIDE DEF w
  <2>3. lists' \in [Kinds -> Seq(Services)]
    BY <2>1, <2>2 DEF ConnTypes
  <2>4. \A l \in Kinds : lists'[l] = IF l = k THEN w ELSE lists[l]
    BY <2>2 DEF ConnTypes
  <2>5. \A l \in Kinds : Once(lists'[l])
    BY <1>2, <2>1, <2>4 DEF ListInv
  <2>6. \A l \in Kinds, t \in Services :
          t \in ToSet(lists'[l]) <=> t \in ToSet(lists[l]) /\ ~(t = s /\ l = k)
    BY <2>1, <2>4
  <2>7. \A l \in Kinds, t \in Services :
          t \in ToSet(lists'[l]) <=> KindOf(t) = l /\ (Listed(t))'
    <3>1. \A l \in Kinds, t \in Services : t \in ToSet(lists[l]) <=> KindOf(t) = l /\ Listed(t)
      BY DEF ListInv
    <3>2. \A t \in Services : (Listed(t))' <=> Listed(t) /\ t # s
      BY <1>5, <1>7 DEF Listed
    <3>3. KindOf(s) = k
      BY <1>1
    <3> HIDE DEF q
    <3> QED BY <2>6, <3>1, <3>2, <3>3
  <2>8. \A l \in Kinds : iter'[l] # Nobody => iter'[l] \in ToSet(lists'[l])
    <3> SUFFICES ASSUME NEW l \in Kinds, iter'[l] # Nobody PROVE iter'[l] \in ToSet(lists'[l])
      OBVIOUS
    <3>1. iter'[l] \in Services
      BY <1>4
    <3>2. CASE l = k
      <4>1. iter'[l] \in ToSet(lists[l]) /\ iter'[l] # s
        BY <1>1, <1>5, <3>2
      <4> QED BY <2>6, <3>1, <4>1
    <3>3. CASE l # k
      <4>1. iter'[l] \in ToSet(lists[l])
        BY <1>5, <3>3 DEF ListInv
      <4> QED BY <2>6, <3>1, <3>3, <4>1
    <3> QED BY <3>2, <3>3
  <2>9. ListInv'
    BY <2>5, <2>7, <2>8 DEF ListInv
  <2> QED BY <1>4, <2>3, <2>9
<1> QED BY <1>6, <1>7

(* DIL_FOREACH comes to a service, which is freed. *)
LEMMA WalkFrees ==
  ASSUME ConnInv, WalkList, WalkedTo # Nobody
  PROVE  /\ ConnInv'
         /\ Ground(stack') = [Head(stack) EXCEPT !.first = FALSE]
         /\ status' = [status EXCEPT ![WalkedTo] = "freeing"]
         /\ iter' = [iter EXCEPT ![Head(stack).kind] = NextOf(WalkedTo)]
         /\ lists' = IF WalkedTo \in MatchIds
                     THEN [lists EXCEPT ![Head(stack).kind] = Without(@, {WalkedTo})]
                     ELSE lists
         /\ over' = over
<1>0. ConnTypes /\ ListInv /\ StackInv /\ ReleaseInv /\ RefInv /\ OwnerInv /\ DueInv /\ CallInv
  BY DEF ConnInv
<1> DEFINE s == WalkedTo
           k == Head(stack).kind
           w == [Head(stack) EXCEPT !.first = FALSE]
           f == [at |-> "free", svc |-> s]
<1>1. over = "no" /\ stack # <<>> /\ Head(stack).at = "walk"
  BY DEF WalkList, TopFrame
<1>2. /\ Head(stack) \in WalkFrames /\ Tail(stack) = <<>> /\ Ground(stack) = Head(stack)
      /\ BeingFreed(stack) = {} /\ InMethod(stack) = FALSE
      /\ \A t \in Services : status[t] # "freeing"
      /\ connRef = 0 /\ waiting = {}
      /\ s # Nobody =>
           \E i \in DOMAIN lists[k] :
             /\ s = lists[k][i]
             /\ Head(stack).first => i = 1
             /\ status[s] = "live" /\ KindOf(s) = k
  BY <1>1, WalkPlace
<1>3. PICK i \in DOMAIN lists[k] : s = lists[k][i] /\ status[s] = "live" /\ KindOf(s) = k
  BY <1>2
<1>4. k \in Kinds
  BY <1>2, FrameFields
<1>5. s \in Services
  BY <1>0, <1>3, <1>4, NextFacts
<1>6. s \in MatchIds <=> k = "match"
  BY <1>3, <1>5, KindFacts
<1>7. /\ stack' = <<f, w>> \o <<>>
      /\ status' = [status EXCEPT ![s] = "freeing"]
      /\ iter' = [iter EXCEPT ![k] = NextOf(s)]
      /\ lists' = IF s \in MatchIds THEN [lists EXCEPT ![k] = Without(@, {s})] ELSE lists
      /\ UNCHANGED <<released, waiting, busRules, ifaceRef, held, connRef, over, last>>
  <2>1. /\ stack' = <<f, w>> \o Tail(stack)
        /\ status' = [status EXCEPT ![s] = "freeing"]
        /\ IF s \in MatchIds
           THEN /\ lists' = [lists EXCEPT !["match"] = Without(@, {s})]
                /\ iter' = [iter EXCEPT !["match"] = NextOf(s)]
           ELSE iter' = [iter EXCEPT ![k] = NextOf(s)] /\ UNCHANGED lists
        /\ UNCHANGED <<released, waiting, busRules, ifaceRef, held, connRef, over, last>>
    BY DEF WalkList, TopFrame
  <2> HIDE DEF s, k, f, w
  <2> QED BY <1>2, <1>6, <2>1
<1>8. w \in WalkFrames /\ w.at = "walk"
  BY <1>2 DEF WalkFrames
<1> HIDE DEF s, k, w
<1>9. f \in FreeFrames /\ f.at = "free" /\ f.svc = s /\ f \in Frames /\ w \in Frames
  BY <1>5, <1>8 DEF FreeFrames, FreePlaces, Frames
<1> HIDE DEF f
<1>10. /\ Shape(<<w>>) /\ Ground(<<w>>) = w
       /\ BeingFreed(<<w>>) = {} /\ InMethod(<<w>>) = FALSE
  BY <1>8, GroundAlone
<1>11. /\ Shape(<<f>> \o <<w>>)
       /\ Ground(<<f>> \o <<w>>) = Ground(<<w>>)
       /\ InMethod(<<f>> \o <<w>>) = InMethod(<<w>>)
       /\ BeingFreed(<<f>> \o <<w>>) = BeingFreed(<<w>>) \cup (IF f.at = "free" THEN {f.svc} ELSE {})
  BY <1>9, <1>10, PushShape
<1>12. stack' = <<f>> \o <<w>>
  BY <1>7, <1>9, ShortStacks
<1>13. Shape(stack') /\ Ground(stack') = w /\ BeingFreed(stack') = {s} /\ InMethod(stack') = FALSE
  BY <1>9, <1>10, <1>11, <1>12
<1>14. /\ \A t \in Services : status'[t] = IF t = s THEN "freeing" ELSE status[t]
       /\ status' \in [Services -> Lives]
  BY <1>0, <1>7 DEF ConnTypes, Lives
<1>15. StackInv'
  BY <1>2, <1>13, <1>14 DEF StackInv
<1>16. /\ ListInv' /\ lists' \in [Kinds -> Seq(Services)]
       /\ iter' \in [Kinds -> Services \cup {Nobody}]
  BY <1>0, <1>3, <1>4, <1>7, ListsWalked
<1>17. ConnTypes'
  BY <1>0, <1>7, <1>14, <1>16 DEF ConnTypes
<1>18. ReleaseInv'
  BY <1>0, <1>3, <1>7, <1>14 DEF ReleaseInv
<1>19. WaitInv' /\ RulesCurrent'
  BY <1>2, <1>7 DEF WaitInv, RulesCurrent
<1>20. Bound(status') = Bound(status)
  BY <1>3, <1>14, KindFacts DEF Bound
<1>21. RefInv'
  BY <1>0, <1>2, <1>7, <1>13, <1>20 DEF RefInv
<1>22. OwnerInv'
  BY <1>2, <1>7, <1>8, <1>13 DEF OwnerInv
<1>23. last.result = "ok" => \A r \in last.due : status'[r] = "freed"
  <2>1. last.due \subseteq Services
    BY <1>0 DEF ConnTypes, Messages, Services
  <2> QED BY <1>0, <1>3, <1>14, <2>1 DEF DueInv
<1>24. "walk" \notin DispatchPlaces /\ "walk" \notin BeforeReply \cup AfterReply
  BY DEF DispatchPlaces, BeforeReply, AfterReply
<1>25. DueInv' /\ CallInv'
  BY <1>0, <1>7, <1>8, <1>13, <1>23, <1>24 DEF DueInv, CallInv, OneMethod
<1>26. ConnInv'
  BY <1>15, <1>16, <1>17, <1>18, <1>19, <1>21, <1>22, <1>25 DEF ConnInv
<1> QED BY <1>7, <1>13, <1>26 DEF s, k, w

(* A list has been walked: the next one follows, or it is the end. *)
LEMMA WalkGoesOn ==
  ASSUME ConnInv, WalkList, WalkedTo = Nobody
  PROVE  /\ ConnInv'
         /\ UNCHANGED <<lists, status>>
         /\ Head(stack).kind = "match" =>
              /\ Ground(stack').at = "none"
              /\ over' = IF \E k \in Kinds : lists[k] # <<>> THEN "assert" ELSE "freed"
         /\ Head(stack).kind # "match" =>
              /\ Ground(stack').at = "walk" /\ Ground(stack').first
              /\ Ground(stack').kind = AfterList[Head(stack).kind]
              /\ over' = over
<1>0. ConnTypes /\ ListInv /\ StackInv /\ ReleaseInv /\ RefInv /\ OwnerInv /\ DueInv /\ CallInv
  BY DEF ConnInv
<1> DEFINE k == Head(stack).kind
           w == [Head(stack) EXCEPT !.kind = AfterList[@], !.first = TRUE]
<1>1. over = "no" /\ stack # <<>> /\ Head(stack).at = "walk"
  BY DEF WalkList, TopFrame
<1>2. /\ Head(stack) \in WalkFrames /\ Tail(stack) = <<>> /\ Ground(stack) = Head(stack)
      /\ BeingFreed(stack) = {} /\ InMethod(stack) = FALSE
      /\ \A t \in Services : status[t] # "freeing"
      /\ connRef = 0 /\ waiting = {}
  BY <1>1, WalkPlace
<1>3. k \in Kinds
  BY <1>2, FrameFields
<1>4. /\ iter' = [iter EXCEPT ![k] = Nobody] /\ UNCHANGED <<lists, status>>
      /\ UNCHANGED <<released, waiting, busRules, ifaceRef, held, connRef, last>>
      /\ k = "match" =>
           /\ stack' = <<>>
           /\ over' = IF \E l \in Kinds : lists[l] # <<>> THEN "assert" ELSE "freed"
      /\ k # "match" => stack' = <<w>> \o <<>> /\ over' = over
  BY <1>2 DEF WalkList, TopFrame, PopFrame, GotoFrame
<1>5. /\ ListInv' /\ iter' \in [Kinds -> Services \cup {Nobody}]
  <2> HIDE DEF k
  <2> QED BY <1>0, <1>3, <1>4, ListsIterate
<1>6. k # "match" => w \in WalkFrames /\ w.at = "walk" /\ w.kind = AfterList[k] /\ w.first
  <2>1. k # "match" => AfterList[k] \in Kinds
    BY <1>3 DEF AfterList, Kinds
  <2>2. \A f \in WalkFrames, l \in Kinds :
          LET v == [f EXCEPT !.kind = l, !.first = TRUE]
          IN  v \in WalkFrames /\ v.at = "walk" /\ v.kind = l /\ v.first
    BY DEF WalkFrames
  <2>3. w = [Head(stack) EXCEPT !.kind = AfterList[k], !.first = TRUE]
    BY <1>2 DEF WalkFrames
  <2> HIDE DEF w, k
  <2> QED BY <1>2, <2>1, <2>2, <2>3
<1> HIDE DEF k, w
<1>7. CASE k = "match"
  <2>1. /\ Shape(stack') /\ Ground(stack').at = "none"
        /\ BeingFreed(stack') = {} /\ InMethod(stack') = FALSE
    BY <1>4, <1>7, NoCalls
  <2>2. over' \in {"assert", "freed"}
    BY <1>4, <1>7
  <2>3. ConnTypes'
    BY <1>0, <1>4, <1>5, <2>2 DEF ConnTypes
  <2>4. StackInv'
    BY <1>2, <1>4, <2>1 DEF StackInv
  <2>5. ReleaseInv' /\ WaitInv' /\ RulesCurrent'
    BY <1>0, <1>2, <1>4 DEF ReleaseInv, WaitInv, RulesCurrent
  <2>6. RefInv' /\ OwnerInv'
    BY <1>0, <1>2, <1>4, <2>1, <2>2 DEF RefInv, OwnerInv
  <2>7. "none" \notin DispatchPlaces /\ "none" \notin BeforeReply \cup AfterReply
    BY DEF DispatchPlaces, BeforeReply, AfterReply
  <2>8. DueInv' /\ CallInv'
    BY <1>0, <1>4, <2>1, <2>7 DEF DueInv, CallInv, OneMethod
  <2>9. ConnInv'
    BY <1>5, <2>3, <2>4, <2>5, <2>6, <2>8 DEF ConnInv
  <2> QED BY <1>4, <1>7, <2>1, <2>9 DEF k
<1>8. CASE k # "match"
  <2>0. w \in Frames
    BY <1>6, <1>8 DEF Frames
  <2>1. stack' = <<w>>
    BY <1>4, <1>8, <2>0, ShortStacks
  <2>2. /\ Shape(stack') /\ Ground(stack') = w /\ w.at = "walk"
        /\ BeingFreed(stack') = {} /\ InMethod(stack') = FALSE
    BY <1>6, <1>8, <2>1, GroundAlone
  <2>3. ConnTypes'
    BY <1>0, <1>4, <1>5, <1>8 DEF ConnTypes
  <2>4. StackInv'
    BY <1>2, <1>4, <2>2 DEF StackInv
  <2>5. ReleaseInv' /\ WaitInv' /\ RulesCurrent'
    BY <1>0, <1>2, <1>4 DEF ReleaseInv, WaitInv, RulesCurrent
  <2>6. RefInv' /\ OwnerInv'
    BY <1>0, <1>2, <1>4, <2>2 DEF RefInv, OwnerInv
  <2>7. "walk" \notin DispatchPlaces /\ "walk" \notin BeforeReply \cup AfterReply
    BY DEF DispatchPlaces, BeforeReply, AfterReply
  <2>8. DueInv' /\ CallInv'
    BY <1>0, <1>4, <2>2, <2>7 DEF DueInv, CallInv, OneMethod
  <2>9. ConnInv'
    BY <1>5, <2>3, <2>4, <2>5, <2>6, <2>8 DEF ConnInv
  <2> QED BY <1>4, <1>6, <1>8, <2>2, <2>9 DEF k
<1> QED BY <1>7, <1>8

-----------------------------------------------------------------------------
(* Dispatch *)

(* The places are different. *)
LEMMA PlacesDiffer ==
  /\ BeforeReply \subseteq DispatchPlaces /\ AfterReply \subseteq DispatchPlaces
  /\ "fromReply" \in DispatchPlaces
  /\ BeforeReply \cap AfterReply = {} /\ "fromReply" \notin BeforeReply \cup AfterReply
  /\ {"none", "walk"} \cap DispatchPlaces = {}
  /\ {"toBind", "fromBind", "toMatch", "fromMatch", "toReply"} = BeforeReply
  /\ {"send", "failed"} = AfterReply
  /\ CallPlaces \cap DispatchPlaces = {} /\ "walk" \notin CallPlaces
BY DEF DispatchPlaces, BeforeReply, AfterReply, CallPlaces

(* What a step of a dispatch does not touch. *)
LEMMA DispatchStep ==
  ASSUME ConnInv, over = "no", BeingFreed(stack) = {}, Ground(stack).at # "walk",
         Shape(stack'), BeingFreed(stack') = {}, Ground(stack').at # "walk",
         UNCHANGED <<lists, status, released, busRules, held, connRef>>,
         waiting' \subseteq waiting
  PROVE  ReleaseInv' /\ StackInv' /\ RulesCurrent' /\ WaitInv' /\ OwnerInv' /\ connRef = 1
<1>1. connRef = 1
  BY DEF ConnInv, OwnerInv, ConnTypes
<1>2. StackInv'
  BY DEF ConnInv, StackInv
<1>3. ReleaseInv' /\ RulesCurrent'
  BY DEF ConnInv, ReleaseInv, RulesCurrent
<1>4. WaitInv'
  BY <1>1 DEF ConnInv, WaitInv
<1>5. OwnerInv'
  BY <1>1 DEF OwnerInv
<1> QED BY <1>1, <1>2, <1>3, <1>4, <1>5

(* It gets on before the replies have their turn. *)
LEMMA DispatchGoesOn ==
  ASSUME ConnInv, Ground(stack).at \in BeforeReply,
         Ground(stack').at \in BeforeReply \ {"toBind"},
         Ground(stack').msg = Ground(stack).msg,
         last'.due = last.due, last'.sent = last.sent, last'.result = last.result,
         Ground(stack').ret = "return" => OneMethod',
         UNCHANGED <<status, waiting>>
  PROVE  DueInv' /\ CallInv'
<1>1. DueInv /\ CallInv
  BY DEF ConnInv
<1>2. last'.result = "none" /\ last'.sent = "none"
  BY <1>1, PlacesDiffer DEF DueInv, CallInv
<1>3. \A r \in last'.due : (Gone(r))' \/ (r \in waiting' /\ Answers(Ground(stack').msg, r))
  BY <1>1 DEF DueInv, Gone
<1>4. Ground(stack').at \in DispatchPlaces /\ Ground(stack').at # "fromReply"
      /\ Ground(stack').at \notin AfterReply
  BY PlacesDiffer
<1>5. DueInv'
  BY <1>2, <1>3, <1>4 DEF DueInv, Answers
<1>6. CallInv'
  BY <1>2, <1>4 DEF CallInv
<1> QED BY <1>5, <1>6

(* It fails. *)
LEMMA DispatchFails ==
  ASSUME ConnInv, Ground(stack).at \in DispatchPlaces, stack' = <<>>,
         last' = [last EXCEPT !.result = "fail"]
  PROVE  /\ DueInv' /\ CallInv' /\ last' \in Messages
         /\ Shape(stack') /\ BeingFreed(stack') = {} /\ InMethod(stack') = FALSE
         /\ Ground(stack').at # "walk"
<1>1. /\ Shape(stack') /\ Ground(stack').at = "none"
      /\ BeingFreed(stack') = {} /\ InMethod(stack') = FALSE
  BY NoCalls
<1>2. CallInv /\ last \in Messages
  BY DEF ConnInv, ConnTypes
<1>3. last' \in Messages /\ last'.result = "fail" /\ last'.sent = last.sent
  <2>1. \A l \in Messages : LET v == [l EXCEPT !.result = "fail"]
                            IN  v \in Messages /\ v.result = "fail" /\ v.sent = l.sent
    BY DEF Messages
  <2> QED BY <1>2, <2>1
<1>4. DueInv' /\ CallInv'
  BY <1>1, <1>2, <1>3, PlacesDiffer DEF DueInv, CallInv
<1> QED BY <1>1, <1>3, <1>4

LEMMA DispatchMessageKeeps ==
  ASSUME ConnInv, NEW msg \in Incoming, DispatchMessage(msg)
  PROVE  ConnInv' /\ Ground(stack').at # "walk"
<1>0. ConnTypes /\ ListInv /\ RefInv /\ OwnerInv
  BY DEF ConnInv
<1> DEFINE g == [at |-> IF msg.type = "method" THEN "toBind" ELSE "toMatch", msg |-> msg,
                 ret |-> IF WantsReply(msg) THEN "return" ELSE "none", svc |-> Nobody]
<1>1. /\ over = "no" /\ stack = <<>> /\ connRef > 0
      /\ stack' = <<g>> \o <<>>
      /\ last' = [NoMessage EXCEPT !.msg = msg, !.due = ReplyFor(msg)]
      /\ UNCHANGED <<lists, iter, status, released, waiting, busRules, ifaceRef, held,
                     connRef, over>>
  BY DEF DispatchMessage, PushFrame
<1>2. /\ g \in DispatchFrames /\ g.at \in {"toBind", "toMatch"} /\ g.msg = msg
      /\ g.ret \in {"return", "none"} /\ (g.at # "toBind" => g.ret = "none")
  <2>1. \A p \in {"toBind", "toMatch"}, t \in {"return", "none"} :
          LET v == [at |-> p, msg |-> msg, ret |-> t, svc |-> Nobody]
          IN  v \in DispatchFrames /\ v.at = p /\ v.msg = msg /\ v.ret = t
    BY DEF DispatchFrames, DispatchPlaces, BeforeReply
  <2> QED BY <2>1 DEF WantsReply
<1> HIDE DEF g
<1>3. stack' = <<g>>
  <2>1. g \in Frames
    BY <1>2 DEF Frames
  <2> QED BY <1>1, <2>1, ShortStacks
<1>4. Shape(stack') /\ Ground(stack') = g /\ BeingFreed(stack') = {} /\ InMethod(stack') = FALSE
  BY <1>2, <1>3, GroundAlone
<1>5. Ground(stack).at = "none" /\ BeingFreed(stack) = {} /\ InMethod(stack) = FALSE
  BY <1>1, NoCalls
<1>6. ReleaseInv' /\ StackInv' /\ RulesCurrent' /\ WaitInv' /\ OwnerInv' /\ connRef = 1
  BY <1>1, <1>2, <1>4, <1>5, DispatchStep
<1>7. ReplyFor(msg) = {r \in waiting : Answers(msg, r)}
  BY DEF ReplyFor, Answers
<1>8. ReplyFor(msg) \subseteq ReplyIds
  BY <1>0, <1>7 DEF ConnTypes
<1>9. /\ last' \in Messages /\ last'.due = ReplyFor(msg) /\ last'.got = {}
      /\ last'.sent = "none" /\ last'.result = "none"
  BY <1>1, <1>8 DEF NoMessage, Messages
<1>10. g.at \in BeforeReply /\ g.at \in DispatchPlaces /\ g.at # "fromReply" /\ g.at \notin AfterReply
  BY <1>2, PlacesDiffer
<1>11. DueInv'
  <2>1. \A r \in last'.due : r \in waiting' /\ Answers(g.msg, r)
    BY <1>1, <1>2, <1>7, <1>9
  <2> QED BY <1>4, <1>9, <1>10, <2>1 DEF DueInv, Answers
<1>12. CallInv'
  BY <1>2, <1>4, <1>9 DEF CallInv
<1>13. ConnTypes'
  BY <1>0, <1>1, <1>9 DEF ConnTypes
<1>14. ListInv' /\ RefInv'
  BY <1>0, <1>1, <1>4, <1>5 DEF ListInv, Listed, RefInv
<1> QED BY <1>2, <1>4, <1>6, <1>11, <1>12, <1>13, <1>14 DEF ConnInv

(* The step at a place of a dispatch. *)
LEMMA AtDispatch ==
  ASSUME ConnInv, NEW p \in DispatchPlaces, AtFrame(p)
  PROVE  /\ over = "no" /\ Head(stack) \in DispatchFrames /\ Head(stack).at = p
         /\ Ground(stack) = Head(stack) /\ Tail(stack) = <<>>
         /\ BeingFreed(stack) = {} /\ InMethod(stack) = FALSE
         /\ Ground(stack).at = p /\ Ground(stack).at # "walk"
<1>1. over = "no" /\ stack # <<>> /\ Head(stack).at = p
  BY DEF AtFrame, TopFrame
<1>2. Shape(stack)
  BY DEF ConnInv, StackInv
<1>3. p # "walk"
  BY PlacesDiffer
<1> QED BY <1>1, <1>2, <1>3, TopIsGround

LEMMA AtCallback ==
  ASSUME ConnInv, NEW p \in CallPlaces, AtFrame(p)
  PROVE  /\ over = "no" /\ stack[2] \in DispatchFrames /\ stack[2].at = WaitsFor[p]
         /\ Ground(stack) = stack[2] /\ SubSeq(stack, 3, Len(stack)) = <<>>
         /\ BeingFreed(stack) = {} /\ InMethod(stack) = (p = "method")
         /\ Ground(stack).at \in DispatchPlaces /\ Ground(stack).at # "walk"
<1>1. over = "no" /\ stack # <<>> /\ Head(stack).at = p
  BY DEF AtFrame, TopFrame
<1>2. Shape(stack)
  BY DEF ConnInv, StackInv
<1>3. /\ stack[2] \in DispatchFrames /\ stack[2].at = WaitsFor[p]
      /\ SubSeq(stack, 3, Len(stack)) = <<>> /\ Ground(stack) = stack[2]
      /\ BeingFreed(stack) = {} /\ InMethod(stack) = (p = "method")
  BY <1>1, <1>2, TopIsCallback
<1>4. Ground(stack).at \in DispatchPlaces
  BY <1>3 DEF DispatchFrames
<1>5. Ground(stack).at # "walk"
  BY <1>4, PlacesDiffer
<1> QED BY <1>1, <1>3, <1>4, <1>5

(* A dispatch alone, which has moved on. *)
LEMMA MovesTo ==
  ASSUME NEW g \in DispatchFrames
  PROVE  /\ <<g>> \o <<>> = <<g>>
         /\ Shape(<<g>>) /\ Ground(<<g>>) = g /\ BeingFreed(<<g>>) = {} /\ InMethod(<<g>>) = FALSE
<1>1. g \in Frames
  BY DEF Frames
<1> QED BY <1>1, ShortStacks, GroundAlone

(* A dispatch that calls a callback. *)
LEMMA CallsBack ==
  ASSUME NEW s \in Services, NEW p \in CallPlaces, NEW g \in DispatchFrames, g.at = WaitsFor[p]
  PROVE  LET st == <<[at |-> p, svc |-> s], g>> \o <<>> IN
         Shape(st) /\ Ground(st) = g /\ BeingFreed(st) = {} /\ InMethod(st) = (p = "method")
<1> DEFINE c == [at |-> p, svc |-> s]
<1>1. c \in CallFrames /\ c.at = p
  BY DEF CallFrames
<1> HIDE DEF c
<1>2. c \in Frames /\ g \in Frames
  BY <1>1 DEF Frames
<1>3. <<c, g>> \o <<>> = <<c, g>>
  BY <1>2, ShortStacks
<1>4. /\ Shape(<<c, g>>) /\ Ground(<<c, g>>) = g
      /\ BeingFreed(<<c, g>>) = {} /\ InMethod(<<c, g>>) = (c.at = "method")
  BY <1>1, CallbackRuns
<1>5. Shape(<<c, g>> \o <<>>) /\ Ground(<<c, g>> \o <<>>) = g
      /\ BeingFreed(<<c, g>> \o <<>>) = {} /\ InMethod(<<c, g>> \o <<>>) = (p = "method")
  BY <1>1, <1>3, <1>4
<1> QED BY <1>5 DEF c

LEMMA CallMethodKeeps ==
  ASSUME ConnInv, CallMethod
  PROVE  ConnInv' /\ Ground(stack').at # "walk"
<1>0. ConnTypes /\ ListInv /\ RefInv /\ DueInv /\ CallInv
  BY DEF ConnInv
<1> DEFINE g == Head(stack)
           h == [g EXCEPT !.at = "fromBind"]
<1>1. "toBind" \in DispatchPlaces /\ "fromBind" \in DispatchPlaces
  BY PlacesDiffer
<1>2. /\ over = "no" /\ g \in DispatchFrames /\ g.at = "toBind"
      /\ Ground(stack) = g /\ Tail(stack) = <<>>
      /\ BeingFreed(stack) = {} /\ InMethod(stack) = FALSE
      /\ Ground(stack).at = "toBind" /\ Ground(stack).at # "walk"
  <2>1. AtFrame("toBind")
    BY DEF CallMethod
  <2> QED BY <1>1, <2>1, AtDispatch
<1>3. PICK b \in Targets(g.msg) :
        /\ stack' = <<[at |-> "method", svc |-> b], h>> \o Tail(stack)
        /\ last' = [last EXCEPT !.got = @ \cup {b}]
  BY DEF CallMethod, TopFrame, GotMessage
<1>4. b \in BindIds /\ b \in Services
  <2>1. g.msg \in Incoming
    BY <1>2, FrameFields
  <2>2. g.msg.to \subseteq BindIds
    BY <2>1, ClientAssumption
  <2> QED BY <2>2, KindFacts DEF Targets
<1>5. /\ ifaceRef' = ifaceRef + 1
      /\ UNCHANGED <<lists, iter, status, released, waiting, busRules, held, connRef, over>>
  BY DEF CallMethod
<1>6. /\ h \in DispatchFrames /\ h.at = "fromBind" /\ h.msg = g.msg /\ h.ret = g.ret
  BY <1>1, <1>2 DEF DispatchFrames
<1> HIDE DEF g, h
<1>7. "method" \in CallPlaces /\ WaitsFor["method"] = "fromBind"
  BY DEF CallPlaces, WaitsFor
<1>8. Shape(stack') /\ Ground(stack') = h /\ BeingFreed(stack') = {} /\ InMethod(stack')
  <2>1. stack' = <<[at |-> "method", svc |-> b], h>> \o <<>>
    BY <1>2, <1>3
  <2>2. /\ Shape(stack') /\ Ground(stack') = h /\ BeingFreed(stack') = {}
        /\ InMethod(stack') = ("method" = "method")
    BY <1>4, <1>6, <1>7, <2>1, CallsBack
  <2> QED BY <2>2
<1>9. /\ last' \in Messages /\ last'.got = last.got \cup {b} /\ last'.due = last.due
      /\ last'.sent = last.sent /\ last'.result = last.result
  BY <1>0, <1>3, <1>4 DEF ConnTypes, Messages
<1>10. ReleaseInv' /\ StackInv' /\ RulesCurrent' /\ WaitInv' /\ OwnerInv' /\ connRef = 1
  BY <1>2, <1>5, <1>6, <1>8, DispatchStep
<1>11. OneMethod'
  <2>1. last.got = {}
    BY <1>0, <1>2 DEF CallInv
  <2>2. last'.got \cap BindIds = {b}
    BY <1>4, <1>9, <2>1
  <2> QED BY <1>4, <2>2 DEF OneMethod
<1>12. DueInv' /\ CallInv'
  <2>1. Ground(stack).at \in BeforeReply /\ Ground(stack').at \in BeforeReply \ {"toBind"}
    BY <1>2, <1>6, <1>8, PlacesDiffer
  <2> QED BY <1>2, <1>5, <1>6, <1>8, <1>9, <1>11, <2>1, DispatchGoesOn
<1>13. ConnTypes'
  BY <1>0, <1>5, <1>9 DEF ConnTypes
<1>14. ListInv'
  BY <1>0, <1>5 DEF ListInv, Listed
<1>15. RefInv'
  <2>1. Cardinality(Bound(status)) \in Nat
    BY <1>0, FS_CardinalityType DEF RefInv
  <2>2. ~InMethod(stack) /\ InMethod(stack')
    BY <1>2, <1>8
  <2> QED BY <1>0, <1>5, <2>1, <2>2 DEF RefInv
<1> QED BY <1>6, <1>8, <1>10, <1>12, <1>13, <1>14, <1>15 DEF ConnInv

LEMMA NoMethodKeeps ==
  ASSUME ConnInv, NoMethod
  PROVE  ConnInv' /\ Ground(stack').at # "walk"
<1>0. ConnTypes /\ ListInv /\ RefInv /\ DueInv /\ CallInv
  BY DEF ConnInv
<1> DEFINE g == Head(stack)
           h == [g EXCEPT !.at = "toMatch", !.ret = IF @ = "none" THEN @ ELSE "error"]
<1>1. "toBind" \in DispatchPlaces /\ "toMatch" \in DispatchPlaces
  BY PlacesDiffer
<1>2. /\ over = "no" /\ g \in DispatchFrames /\ g.at = "toBind"
      /\ Ground(stack) = g /\ Tail(stack) = <<>>
      /\ BeingFreed(stack) = {} /\ InMethod(stack) = FALSE
      /\ Ground(stack).at = "toBind" /\ Ground(stack).at # "walk"
  <2>1. AtFrame("toBind")
    BY DEF NoMethod
  <2> QED BY <1>1, <2>1, AtDispatch
<1>3. /\ stack' = <<h>> \o <<>>
      /\ UNCHANGED <<lists, iter, status, released, waiting, busRules, ifaceRef, held,
                     connRef, over, last>>
  BY <1>2 DEF NoMethod, GotoFrame, TopFrame
<1>4. h \in DispatchFrames /\ h.at = "toMatch" /\ h.msg = g.msg /\ h.ret # "return"
  BY <1>1, <1>2 DEF DispatchFrames
<1> HIDE DEF g, h
<1>5. Shape(stack') /\ Ground(stack') = h /\ BeingFreed(stack') = {} /\ InMethod(stack') = FALSE
  BY <1>3, <1>4, MovesTo
<1>6. ReleaseInv' /\ StackInv' /\ RulesCurrent' /\ WaitInv' /\ OwnerInv' /\ connRef = 1
  BY <1>2, <1>3, <1>4, <1>5, DispatchStep
<1>7. DueInv' /\ CallInv'
  <2>1. Ground(stack).at \in BeforeReply /\ Ground(stack').at \in BeforeReply \ {"toBind"}
    BY <1>2, <1>4, <1>5, PlacesDiffer
  <2> QED BY <1>2, <1>3, <1>4, <1>5, <2>1, DispatchGoesOn
<1>8. ConnTypes' /\ ListInv'
  BY <1>0, <1>3 DEF ConnTypes, ListInv, Listed
<1>9. RefInv'
  BY <1>0, <1>2, <1>3, <1>5 DEF RefInv
<1> QED BY <1>4, <1>5, <1>6, <1>7, <1>8, <1>9 DEF ConnInv

LEMMA MethodReturnsKeeps ==
  ASSUME ConnInv, NEW result \in CallbackResults, MethodReturns(result)
  PROVE  ConnInv' /\ Ground(stack').at # "walk"
<1>0. ConnTypes /\ ListInv /\ RefInv /\ DueInv /\ CallInv
  BY DEF ConnInv
<1> DEFINE g == stack[2]
           t == IF g.ret # "none" /\ result = "error" THEN "error" ELSE g.ret
           h == [g EXCEPT !.at = "toMatch",
                          !.ret = IF @ # "none" /\ result = "error" THEN "error" ELSE @]
<1>1. /\ over = "no" /\ g \in DispatchFrames /\ g.at = "fromBind"
      /\ Ground(stack) = g /\ SubSeq(stack, 3, Len(stack)) = <<>>
      /\ BeingFreed(stack) = {} /\ InMethod(stack)
      /\ Ground(stack).at \in DispatchPlaces /\ Ground(stack).at # "walk"
  <2>1. AtFrame("method") /\ "method" \in CallPlaces /\ WaitsFor["method"] = "fromBind"
    BY DEF MethodReturns, CallPlaces, WaitsFor
  <2> QED BY <2>1, AtCallback
<1>2. /\ ifaceRef' = ifaceRef - 1
      /\ UNCHANGED <<lists, iter, status, released, waiting, busRules, held, connRef, over>>
      /\ result = "fail" => stack' = <<>> /\ last' = [last EXCEPT !.result = "fail"]
      /\ result # "fail" => stack' = <<h>> \o <<>> /\ last' = last
  BY <1>1 DEF MethodReturns
<1>3. /\ h \in DispatchFrames /\ h.at = "toMatch" /\ h.msg = g.msg
      /\ h.ret = "return" => g.ret = "return"
  BY <1>1, PlacesDiffer DEF DispatchFrames
<1> HIDE DEF g, h
<1>4. /\ DueInv' /\ CallInv' /\ last' \in Messages
      /\ Shape(stack') /\ BeingFreed(stack') = {} /\ InMethod(stack') = FALSE
      /\ Ground(stack').at # "walk"
  <2>1. CASE result = "fail"
    BY <1>1, <1>2, <2>1, DispatchFails
  <2>2. CASE result # "fail"
    <3>1. Shape(stack') /\ Ground(stack') = h /\ BeingFreed(stack') = {} /\ InMethod(stack') = FALSE
      BY <1>2, <1>3, <2>2, MovesTo
    <3>2. Ground(stack).at \in BeforeReply /\ Ground(stack').at \in BeforeReply \ {"toBind"}
      BY <1>1, <1>3, <3>1, PlacesDiffer
    <3>3. last' = last
      BY <1>2, <2>2
    <3>4. Ground(stack').ret = "return" => OneMethod'
      BY <1>0, <1>1, <1>3, <3>1, <3>3 DEF CallInv, OneMethod
    <3>5. DueInv' /\ CallInv'
      BY <1>1, <1>2, <1>3, <3>1, <3>2, <3>3, <3>4, DispatchGoesOn
    <3> QED BY <1>0, <1>3, <3>1, <3>3, <3>5 DEF ConnTypes
  <2> QED BY <2>1, <2>2
<1>5. ReleaseInv' /\ StackInv' /\ RulesCurrent' /\ WaitInv' /\ OwnerInv' /\ connRef = 1
  BY <1>1, <1>2, <1>4, DispatchStep
<1>6. Cardinality(Bound(status)) \in Nat
  BY <1>0, FS_CardinalityType DEF RefInv
<1>7. /\ ifaceRef = (IF held THEN 1 ELSE 0) + Cardinality(Bound(status)) + 1
      /\ ~InMethod(stack')
  BY <1>0, <1>1, <1>4 DEF RefInv
<1>8. ifaceRef' = (IF held THEN 1 ELSE 0) + Cardinality(Bound(status)) /\ ifaceRef' \in Nat
  BY <1>2, <1>6, <1>7
<1>9. RefInv'
  BY <1>0, <1>2, <1>6, <1>7, <1>8 DEF RefInv
<1>10. ConnTypes'
  BY <1>0, <1>2, <1>4, <1>8 DEF ConnTypes
<1>11. ListInv'
  BY <1>0, <1>2 DEF ListInv, Listed
<1> QED BY <1>4, <1>5, <1>9, <1>10, <1>11 DEF ConnInv

LEMMA DispatchToMatchKeeps ==
  ASSUME ConnInv, DispatchToMatch
  PROVE  ConnInv' /\ Ground(stack').at # "walk"
<1>0. ConnTypes /\ ListInv /\ RefInv /\ DueInv /\ CallInv
  BY DEF ConnInv
<1> DEFINE g == Head(stack)
           m == FirstFit(g.msg)
           next == IF m = Nobody THEN Nobody ELSE NextOf(m)
           h == [g EXCEPT !.at = "toReply"]
           c == [g EXCEPT !.at = "fromMatch"]
<1>1. {"toMatch", "toReply", "fromMatch"} \subseteq DispatchPlaces
  BY PlacesDiffer
<1>2. /\ over = "no" /\ g \in DispatchFrames /\ g.at = "toMatch"
      /\ Ground(stack) = g /\ Tail(stack) = <<>>
      /\ BeingFreed(stack) = {} /\ InMethod(stack) = FALSE
      /\ Ground(stack).at = "toMatch" /\ Ground(stack).at # "walk"
  <2>1. AtFrame("toMatch")
    BY DEF DispatchToMatch
  <2> QED BY <1>1, <2>1, AtDispatch
<1>3. /\ iter' = [iter EXCEPT !["match"] = next]
      /\ m = Nobody => stack' = <<h>> \o <<>> /\ last' = last
      /\ m # Nobody /\ ArgsBad(m, g.msg) =>
           stack' = <<>> /\ last' = [last EXCEPT !.result = "fail"]
      /\ m # Nobody /\ ~ArgsBad(m, g.msg) =>
           /\ stack' = <<[at |-> "match", svc |-> m], c>> \o <<>>
           /\ last' = [last EXCEPT !.got = @ \cup {m}]
      /\ UNCHANGED <<lists, status, released, waiting, busRules, ifaceRef, held, connRef, over>>
  BY <1>2 DEF DispatchToMatch, GotoFrame, FailDispatch, PopFrame, TopFrame, GotMessage
<1>4. /\ h \in DispatchFrames /\ h.at = "toReply" /\ h.msg = g.msg /\ h.ret = g.ret
      /\ c \in DispatchFrames /\ c.at = "fromMatch" /\ c.msg = g.msg /\ c.ret = g.ret
  BY <1>1, <1>2 DEF DispatchFrames
<1> HIDE DEF g, h, c, next
<1>5. "match" \in Kinds
  BY DEF Kinds
<1>6. m # Nobody => /\ m \in Services /\ m \in MatchIds /\ m \notin BindIds
                    /\ NextOf(m) \in ToSet(lists["match"]) \cup {Nobody}
  <2> SUFFICES ASSUME m # Nobody
               PROVE  /\ m \in Services /\ m \in MatchIds /\ m \notin BindIds
                      /\ NextOf(m) \in ToSet(lists["match"]) \cup {Nobody}
    OBVIOUS
  <2>1. PICK i \in DOMAIN lists["match"] : m = lists["match"][i]
    BY <1>0, FirstFitFacts
  <2>2. /\ lists["match"][i] \in Services /\ KindOf(lists["match"][i]) = "match"
        /\ NextOf(lists["match"][i]) \in (ToSet(lists["match"]) \ {lists["match"][i]}) \cup {Nobody}
    BY <1>0, <1>5, NextFacts
  <2> HIDE DEF m
  <2>3. m \in MatchIds
    BY <2>1, <2>2, KindFacts
  <2> QED BY <2>1, <2>2, <2>3, KindFacts
<1> HIDE DEF m
<1>7. next \in ToSet(lists["match"]) \cup {Nobody}
  BY <1>6 DEF next
<1>8. ListInv' /\ iter' \in [Kinds -> Services \cup {Nobody}]
  BY <1>0, <1>3, <1>5, <1>7, ListsIterate
<1>9. Ground(stack).at \in BeforeReply
  BY <1>2, PlacesDiffer
<1>10. /\ DueInv' /\ CallInv' /\ last' \in Messages
       /\ Shape(stack') /\ BeingFreed(stack') = {} /\ InMethod(stack') = FALSE
       /\ Ground(stack').at # "walk"
  <2>1. CASE m = Nobody
    <3>1. Shape(stack') /\ Ground(stack') = h /\ BeingFreed(stack') = {} /\ InMethod(stack') = FALSE
      BY <1>3, <1>4, <2>1, MovesTo
    <3>2. last' = last
      BY <1>3, <2>1
    <3>3. Ground(stack').at \in BeforeReply \ {"toBind"}
      BY <1>4, <3>1, PlacesDiffer
    <3>4. Ground(stack').ret = "return" => OneMethod'
      BY <1>0, <1>1, <1>2, <1>4, <3>1, <3>2 DEF CallInv, OneMethod
    <3>5. DueInv' /\ CallInv'
      BY <1>2, <1>3, <1>4, <1>9, <3>1, <3>2, <3>3, <3>4, DispatchGoesOn
    <3> QED BY <1>0, <1>4, <3>1, <3>2, <3>5 DEF ConnTypes
  <2>2. CASE m # Nobody /\ ArgsBad(m, g.msg)
    BY <1>1, <1>2, <1>3, <2>2, DispatchFails
  <2>3. CASE m # Nobody /\ ~ArgsBad(m, g.msg)
    <3>1. "match" \in CallPlaces /\ WaitsFor["match"] = "fromMatch"
      BY DEF CallPlaces, WaitsFor
    <3>2. stack' = <<[at |-> "match", svc |-> m], c>> \o <<>>
          /\ last' = [last EXCEPT !.got = @ \cup {m}] /\ m \in Services
      BY <1>3, <1>6, <2>3
    <3>0. /\ Shape(stack') /\ Ground(stack') = c /\ BeingFreed(stack') = {}
          /\ InMethod(stack') = ("match" = "method")
      BY <1>4, <3>1, <3>2, CallsBack
    <3>3. Shape(stack') /\ Ground(stack') = c /\ BeingFreed(stack') = {} /\ InMethod(stack') = FALSE
      BY <3>0
    <3>4. /\ last' \in Messages /\ last'.got = last.got \cup {m} /\ last'.due = last.due
          /\ last'.sent = last.sent /\ last'.result = last.result
      BY <1>0, <3>2 DEF ConnTypes, Messages
    <3>5. Ground(stack').at \in BeforeReply \ {"toBind"}
      BY <1>4, <3>3, PlacesDiffer
    <3>6. last'.got \cap BindIds = last.got \cap BindIds
      BY <1>6, <2>3, <3>4
    <3>7. Ground(stack').ret = "return" => OneMethod'
      BY <1>0, <1>1, <1>2, <1>4, <3>3, <3>6 DEF CallInv, OneMethod
    <3>8. DueInv' /\ CallInv'
      BY <1>2, <1>3, <1>4, <1>9, <3>3, <3>4, <3>5, <3>7, DispatchGoesOn
    <3> QED BY <1>4, <3>3, <3>4, <3>8
  <2> QED BY <2>1, <2>2, <2>3
<1>11. ReleaseInv' /\ StackInv' /\ RulesCurrent' /\ WaitInv' /\ OwnerInv' /\ connRef = 1
  BY <1>2, <1>3, <1>10, DispatchStep
<1>12. ConnTypes'
  BY <1>0, <1>3, <1>8, <1>10 DEF ConnTypes
<1>13. RefInv'
  BY <1>0, <1>2, <1>3, <1>10 DEF RefInv
<1> QED BY <1>8, <1>10, <1>11, <1>12, <1>13 DEF ConnInv

LEMMA MatchReturnsKeeps ==
  ASSUME ConnInv, NEW result \in CallbackResults, MatchReturns(result)
  PROVE  ConnInv' /\ Ground(stack').at # "walk"
<1>0. ConnTypes /\ ListInv /\ RefInv /\ DueInv /\ CallInv
  BY DEF ConnInv
<1> DEFINE g == stack[2]
           h == [g EXCEPT !.at = "toReply"]
<1>1. /\ over = "no" /\ g \in DispatchFrames /\ g.at = "fromMatch"
      /\ Ground(stack) = g /\ SubSeq(stack, 3, Len(stack)) = <<>>
      /\ BeingFreed(stack) = {} /\ InMethod(stack) = FALSE
      /\ Ground(stack).at \in DispatchPlaces /\ Ground(stack).at # "walk"
  <2>1. AtFrame("match") /\ "match" \in CallPlaces /\ WaitsFor["match"] = "fromMatch"
    BY DEF MatchReturns, CallPlaces, WaitsFor
  <2> QED BY <2>1, AtCallback
<1>2. /\ UNCHANGED <<lists, iter, status, released, waiting, busRules, ifaceRef, held,
                     connRef, over>>
      /\ result = "fail" => stack' = <<>> /\ last' = [last EXCEPT !.result = "fail"]
      /\ result # "fail" => stack' = <<h>> \o <<>> /\ last' = last
  BY <1>1 DEF MatchReturns
<1>3. h \in DispatchFrames /\ h.at = "toReply" /\ h.msg = g.msg /\ h.ret = g.ret
  BY <1>1, PlacesDiffer DEF DispatchFrames
<1> HIDE DEF g, h
<1>4. /\ DueInv' /\ CallInv' /\ last' \in Messages
      /\ Shape(stack') /\ BeingFreed(stack') = {} /\ InMethod(stack') = FALSE
      /\ Ground(stack').at # "walk"
  <2>1. CASE result = "fail"
    BY <1>1, <1>2, <2>1, DispatchFails
  <2>2. CASE result # "fail"
    <3>1. Shape(stack') /\ Ground(stack') = h /\ BeingFreed(stack') = {} /\ InMethod(stack') = FALSE
      BY <1>2, <1>3, <2>2, MovesTo
    <3>2. Ground(stack).at \in BeforeReply /\ Ground(stack').at \in BeforeReply \ {"toBind"}
      BY <1>1, <1>3, <3>1, PlacesDiffer
    <3>3. last' = last
      BY <1>2, <2>2
    <3>4. Ground(stack').ret = "return" => OneMethod'
      BY <1>0, <1>1, <1>3, <3>1, <3>3 DEF CallInv, OneMethod
    <3>5. DueInv' /\ CallInv'
      BY <1>1, <1>2, <1>3, <3>1, <3>2, <3>3, <3>4, DispatchGoesOn
    <3> QED BY <1>0, <1>3, <3>1, <3>3, <3>5 DEF ConnTypes
  <2> QED BY <2>1, <2>2
<1>5. ReleaseInv' /\ StackInv' /\ RulesCurrent' /\ WaitInv' /\ OwnerInv' /\ connRef = 1
  BY <1>1, <1>2, <1>4, DispatchStep
<1>6. RefInv'
  BY <1>0, <1>1, <1>2, <1>4 DEF RefInv
<1>7. ConnTypes' /\ ListInv'
  BY <1>0, <1>2, <1>4 DEF ConnTypes, ListInv, Listed
<1> QED BY <1>4, <1>5, <1>6, <1>7 DEF ConnInv

LEMMA DispatchToReplyKeeps ==
  ASSUME ConnInv, DispatchToReply
  PROVE  ConnInv' /\ Ground(stack').at # "walk"
<1>0. ConnTypes /\ ListInv /\ RefInv /\ DueInv /\ CallInv /\ WaitInv
  BY DEF ConnInv
<1> DEFINE g == Head(stack)
           h == [g EXCEPT !.at = "send"]
<1>1. {"toReply", "fromReply", "send"} \subseteq DispatchPlaces
  BY PlacesDiffer
<1>2. /\ over = "no" /\ g \in DispatchFrames /\ g.at = "toReply"
      /\ Ground(stack) = g /\ Tail(stack) = <<>>
      /\ BeingFreed(stack) = {} /\ InMethod(stack) = FALSE
      /\ Ground(stack).at = "toReply" /\ Ground(stack).at # "walk"
  <2>1. AtFrame("toReply")
    BY DEF DispatchToReply
  <2> QED BY <1>1, <2>1, AtDispatch
<1>3. UNCHANGED <<lists, status, released, busRules, ifaceRef, held, connRef>>
  BY DEF DispatchToReply
<1>4. last.result = "none" /\ last.sent = "none" /\ (g.ret = "return" => OneMethod)
  BY <1>0, <1>1, <1>2 DEF DueInv, CallInv
<1>5. /\ \A r \in last.due : Gone(r) \/ (r \in waiting /\ Answers(g.msg, r))
      /\ last.due \subseteq ReplyIds
  BY <1>0, <1>2, PlacesDiffer DEF DueInv, ConnTypes, Messages
<1>6. ReplyFor(g.msg) = {r \in waiting : Answers(g.msg, r)}
  BY DEF ReplyFor, Answers
<1>7. CASE ReplyFor(g.msg) = {}
  <2>1. stack' = <<h>> \o <<>> /\ UNCHANGED <<iter, waiting, over, last>>
    BY <1>2, <1>7 DEF DispatchToReply, GotoFrame, TopFrame
  <2>2. h \in DispatchFrames /\ h.at = "send" /\ h.ret = g.ret
    BY <1>1, <1>2 DEF DispatchFrames
  <2> HIDE DEF g, h
  <2>3. Shape(stack') /\ Ground(stack') = h /\ BeingFreed(stack') = {} /\ InMethod(stack') = FALSE
    BY <2>1, <2>2, MovesTo
  <2>4. ReleaseInv' /\ StackInv' /\ RulesCurrent' /\ WaitInv' /\ OwnerInv' /\ connRef = 1
    BY <1>2, <1>3, <2>1, <2>2, <2>3, DispatchStep
  <2>5. h.at \in AfterReply /\ h.at \notin BeforeReply /\ h.at # "fromReply" /\ h.at # "toBind"
    BY <2>2, PlacesDiffer
  <2>6. \A r \in last.due : Gone(r)
    BY <1>5, <1>6, <1>7
  <2>7. DueInv'
    BY <1>3, <1>4, <2>1, <2>3, <2>5, <2>6 DEF DueInv, Gone
  <2>8. CallInv'
    BY <1>4, <2>1, <2>2, <2>3, <2>5 DEF CallInv, OneMethod
  <2>9. ConnTypes' /\ ListInv'
    BY <1>0, <1>3, <2>1 DEF ConnTypes, ListInv, Listed
  <2>10. RefInv'
    BY <1>0, <1>2, <1>3, <2>3 DEF RefInv
  <2> QED BY <2>2, <2>3, <2>4, <2>7, <2>8, <2>9, <2>10 DEF ConnInv
<1>8. CASE ReplyFor(g.msg) # {}
  <2>1. PICK r \in ReplyFor(g.msg) :
          /\ iter' = [iter EXCEPT !["reply"] = r]
          /\ waiting' = waiting \ {r}
          /\ over' = IF g.msg.type = "error" /\ ~ReplyOf[r].error THEN "crash" ELSE over
          /\ stack' = <<[at |-> "reply", svc |-> r],
                        [g EXCEPT !.at = "fromReply", !.svc = r]>> \o Tail(stack)
          /\ last' = [last EXCEPT !.got = @ \cup {r}]
    BY <1>8 DEF DispatchToReply, GotMessage, TopFrame
  <2> DEFINE c == [g EXCEPT !.at = "fromReply", !.svc = r]
  <2>2. r \in waiting /\ r \in ReplyIds /\ Answers(g.msg, r) /\ status[r] = "live"
    BY <1>0, <1>6 DEF ConnTypes, WaitInv
  <2>3. r \in Services /\ r \notin BindIds /\ KindOf(r) = "reply" /\ "reply" \in Kinds
    BY <2>2, KindFacts DEF Kinds
  <2>4. c \in DispatchFrames /\ c.at = "fromReply" /\ c.svc = r /\ c.ret = g.ret
    BY <1>1, <1>2, <2>2 DEF DispatchFrames
  <2>5. stack' = <<[at |-> "reply", svc |-> r], c>> \o <<>>
    BY <1>2, <2>1
  <2> HIDE DEF g, c
  <2>6. "reply" \in CallPlaces /\ WaitsFor["reply"] = "fromReply" /\ "reply" # "method"
    BY DEF CallPlaces, WaitsFor
  <2>0. /\ Shape(stack') /\ Ground(stack') = c /\ BeingFreed(stack') = {}
        /\ InMethod(stack') = ("reply" = "method")
    BY <2>3, <2>4, <2>5, <2>6, CallsBack
  <2>7. Shape(stack') /\ Ground(stack') = c /\ BeingFreed(stack') = {} /\ InMethod(stack') = FALSE
    BY <2>0
  <2>8. ReleaseInv' /\ StackInv' /\ RulesCurrent' /\ WaitInv' /\ OwnerInv' /\ connRef = 1
    BY <1>2, <1>3, <2>1, <2>4, <2>7, DispatchStep
  <2>9. ListInv' /\ iter' \in [Kinds -> Services \cup {Nobody}]
    <3>1. r \in ToSet(lists["reply"])
      BY <1>0, <2>2, <2>3 DEF ListInv, Listed
    <3> QED BY <1>0, <1>3, <2>1, <2>3, <3>1, ListsIterate
  <2>10. /\ last' \in Messages /\ last'.got = last.got \cup {r} /\ last'.due = last.due
         /\ last'.sent = last.sent /\ last'.result = last.result
    BY <1>0, <2>1, <2>3 DEF ConnTypes, Messages
  <2>11. \A q \in last.due : Gone(q) \/ q = r
    BY <1>5, <2>2, ClientAssumption DEF Answers
  <2>12. c.at \notin BeforeReply /\ c.at \notin AfterReply /\ c.at \in DispatchPlaces /\ c.at # "toBind"
    BY <2>4, PlacesDiffer
  <2>13. iter'["reply"] = r /\ r \notin waiting'
    BY <1>0, <2>1, <2>3 DEF ConnTypes
  <2>14. DueInv'
    BY <1>3, <1>4, <2>2, <2>4, <2>7, <2>10, <2>11, <2>12, <2>13 DEF DueInv, Gone
  <2>15. last'.got \cap BindIds = last.got \cap BindIds
    BY <2>3, <2>10
  <2>16. CallInv'
    BY <1>4, <2>4, <2>7, <2>10, <2>12, <2>15 DEF CallInv, OneMethod
  <2>17. over' \in {"no", "freed", "assert", "crash"}
    BY <1>0, <2>1 DEF ConnTypes
  <2>18. ConnTypes'
    BY <1>0, <1>3, <2>1, <2>9, <2>10, <2>17 DEF ConnTypes
  <2>19. RefInv'
    BY <1>0, <1>2, <1>3, <2>7 DEF RefInv
  <2> QED BY <2>4, <2>7, <2>8, <2>9, <2>14, <2>16, <2>18, <2>19 DEF ConnInv
<1> QED BY <1>7, <1>8

LEMMA ReplyReturnsKeeps ==
  ASSUME ConnInv, NEW result \in CallbackResults, ReplyReturns(result)
  PROVE  ConnInv' /\ Ground(stack').at # "walk"
<1>0. /\ ConnTypes /\ ListInv /\ RefInv /\ DueInv /\ CallInv /\ StackInv /\ ReleaseInv /\ WaitInv
      /\ RulesCurrent
  BY DEF ConnInv
<1> DEFINE g == stack[2]
           p == IF result = "fail" THEN "failed" ELSE "send"
           h == [g EXCEPT !.at = p]
           r == g.svc
           f == [at |-> "free", svc |-> r]
<1>1. /\ over = "no" /\ g \in DispatchFrames /\ g.at = "fromReply"
      /\ Ground(stack) = g /\ SubSeq(stack, 3, Len(stack)) = <<>>
      /\ BeingFreed(stack) = {} /\ InMethod(stack) = FALSE
      /\ Ground(stack).at \in DispatchPlaces /\ Ground(stack).at # "walk"
  <2>1. AtFrame("reply") /\ "reply" \in CallPlaces /\ WaitsFor["reply"] = "fromReply"
    BY DEF ReplyReturns, CallPlaces, WaitsFor
  <2>2. /\ over = "no" /\ stack[2] \in DispatchFrames /\ stack[2].at = WaitsFor["reply"]
        /\ Ground(stack) = stack[2] /\ SubSeq(stack, 3, Len(stack)) = <<>>
        /\ BeingFreed(stack) = {} /\ InMethod(stack) = ("reply" = "method")
        /\ Ground(stack).at \in DispatchPlaces /\ Ground(stack).at # "walk"
    BY <2>1, AtCallback
  <2> QED BY <2>1, <2>2
<1>2. /\ iter' = [iter EXCEPT !["reply"] = Nobody]
      /\ iter["reply"] = r => /\ stack' = <<f, h>> \o <<>>
                              /\ status' = [status EXCEPT ![r] = "freeing"]
      /\ iter["reply"] # r => stack' = <<h>> \o <<>> /\ status' = status
      /\ UNCHANGED <<lists, released, waiting, busRules, ifaceRef, held, connRef, over, last>>
  BY <1>1 DEF ReplyReturns
<1>3. p \in {"failed", "send"} /\ p \in AfterReply /\ p \in DispatchPlaces
  BY PlacesDiffer
<1>4. h \in DispatchFrames /\ h.at = p /\ h.ret = g.ret
  <2> HIDE DEF p
  <2> QED BY <1>1, <1>3 DEF DispatchFrames
<1>5. /\ r \in ReplyIds \ waiting /\ status[r] # "unused"
      /\ status[r] # "freed" => iter["reply"] = r
      /\ \A q \in last.due : Gone(q) \/ q = r
  BY <1>0, <1>1 DEF DueInv
<1>6. last.result = "none" /\ last.sent = "none" /\ (g.ret = "return" => OneMethod)
  BY <1>0, <1>1 DEF DueInv, CallInv
<1>7. r \in Services /\ r \notin MatchIds /\ r \notin BindIds /\ KindOf(r) = "reply" /\ "reply" \in Kinds
  BY <1>5, KindFacts DEF Kinds
<1>8. \A t \in Services : status[t] # "freeing"
  BY <1>0, <1>1 DEF StackInv
<1>9. f \in FreeFrames /\ f.at = "free" /\ f.svc = r
  BY <1>7 DEF FreeFrames, FreePlaces
<1> HIDE DEF g, h, p, r, f
<1>10. h.at \notin BeforeReply /\ h.at # "fromReply" /\ h.at # "toBind" /\ h.at # "walk"
       /\ h.at \in DispatchPlaces
  BY <1>3, <1>4, PlacesDiffer
<1>11. /\ Shape(<<h>>) /\ Ground(<<h>>) = h /\ BeingFreed(<<h>>) = {} /\ InMethod(<<h>>) = FALSE
       /\ <<h>> \o <<>> = <<h>>
  BY <1>4, MovesTo
<1>12. CASE iter["reply"] # r
  <2>1. stack' = <<h>> /\ UNCHANGED status
    BY <1>2, <1>11, <1>12
  <2>2. ReleaseInv' /\ StackInv' /\ RulesCurrent' /\ WaitInv' /\ OwnerInv' /\ connRef = 1
    BY <1>1, <1>2, <1>10, <1>11, <2>1, DispatchStep
  <2>3. ListInv' /\ iter' \in [Kinds -> Services \cup {Nobody}]
    BY <1>0, <1>2, <1>7, <2>1, ListsIterate
  <2>4. \A q \in last.due : Gone(q)
    BY <1>5, <1>12 DEF Gone
  <2>5. DueInv'
    BY <1>2, <1>6, <1>10, <1>11, <2>1, <2>4 DEF DueInv, Gone
  <2>6. CallInv'
    BY <1>2, <1>4, <1>6, <1>10, <1>11, <2>1 DEF CallInv, OneMethod
  <2>7. ConnTypes'
    BY <1>0, <1>2, <2>1, <2>3 DEF ConnTypes
  <2>8. RefInv'
    BY <1>0, <1>1, <1>2, <1>11, <2>1 DEF RefInv
  <2> QED BY <1>10, <1>11, <2>1, <2>2, <2>3, <2>5, <2>6, <2>7, <2>8 DEF ConnInv
<1>13. CASE iter["reply"] = r
  <2>1. h \in Frames /\ f \in Frames
    BY <1>4, <1>9 DEF Frames
  <2>2. stack' = <<f>> \o <<h>> /\ status' = [status EXCEPT ![r] = "freeing"]
    BY <1>2, <1>13, <2>1, ShortStacks
  <2>3. /\ Shape(<<f>> \o <<h>>)
        /\ Ground(<<f>> \o <<h>>) = Ground(<<h>>)
        /\ InMethod(<<f>> \o <<h>>) = InMethod(<<h>>)
        /\ BeingFreed(<<f>> \o <<h>>) = BeingFreed(<<h>>) \cup (IF f.at = "free" THEN {f.svc} ELSE {})
    BY <1>9, <1>11, PushShape
  <2>4. Shape(stack') /\ Ground(stack') = h /\ BeingFreed(stack') = {r} /\ InMethod(stack') = FALSE
    BY <1>9, <1>11, <2>2, <2>3
  <2>5. status[r] = "live"
    <3>1. r # Nobody
      BY <1>7, ClientAssumption
    <3>2. r \in ToSet(lists["reply"])
      BY <1>0, <1>7, <1>13, <3>1 DEF ListInv
    <3> QED BY <1>0, <1>7, <1>8, <3>2 DEF ListInv, Listed
  <2>6. /\ \A t \in Services : status'[t] = IF t = r THEN "freeing" ELSE status[t]
        /\ status' \in [Services -> Lives]
    BY <1>0, <2>2 DEF ConnTypes, Lives
  <2>7. \A k \in Kinds : iter'[k] = IF k = "reply" THEN Nobody ELSE iter[k]
    BY <1>0, <1>2 DEF ConnTypes
  <2>8. \A t \in Services : (Listed(t))' <=> Listed(t)
    BY <1>7, <2>5, <2>6 DEF Listed
  <2>9. ListInv'
    BY <1>0, <1>2, <2>7, <2>8 DEF ListInv
  <2>10. ConnTypes'
    BY <1>0, <1>2, <2>6 DEF ConnTypes
  <2>11. StackInv'
    BY <1>8, <2>4, <2>6 DEF StackInv
  <2>12. ReleaseInv'
    BY <1>0, <1>2, <2>5, <2>6 DEF ReleaseInv
  <2>13. WaitInv'
    <3>1. \A q \in waiting : q \in Services /\ q # r
      BY <1>0, <1>5, KindFacts DEF ConnTypes
    <3> QED BY <1>0, <1>2, <2>6, <3>1 DEF WaitInv
  <2>14. Bound(status') = Bound(status)
    BY <1>7, <2>6, KindFacts DEF Bound
  <2>15. RefInv'
    BY <1>0, <1>1, <1>2, <2>4, <2>14 DEF RefInv
  <2>16. RulesCurrent'
    BY <1>0, <1>2, <1>7, <2>6, KindFacts DEF RulesCurrent
  <2>17. OwnerInv'
    <3>1. connRef = 1
      BY <1>0, <1>1 DEF ConnInv, OwnerInv, ConnTypes
    <3> QED BY <1>2, <1>10, <2>4, <3>1 DEF OwnerInv
  <2>18. \A q \in last.due : (Gone(q))'
    <3>1. \A q \in last.due : q \in Services
      BY <1>0, KindFacts DEF ConnTypes, Messages
    <3> QED BY <1>5, <2>6, <3>1 DEF Gone
  <2>19. DueInv'
    BY <1>2, <1>6, <1>10, <2>4, <2>18 DEF DueInv
  <2>20. CallInv'
    BY <1>2, <1>4, <1>6, <1>10, <2>4 DEF CallInv, OneMethod
  <2> QED BY <1>10, <2>4, <2>9, <2>10, <2>11, <2>12, <2>13, <2>15, <2>16, <2>17, <2>19, <2>20
          DEF ConnInv
<1> QED BY <1>12, <1>13

LEMMA ReplyFailedKeeps ==
  ASSUME ConnInv, ReplyFailed
  PROVE  ConnInv' /\ Ground(stack').at # "walk"
<1>0. ConnTypes /\ ListInv /\ RefInv
  BY DEF ConnInv
<1>1. /\ over = "no" /\ Tail(stack) = <<>> /\ BeingFreed(stack) = {} /\ InMethod(stack) = FALSE
      /\ Ground(stack).at = "failed" /\ Ground(stack).at # "walk" /\ "failed" \in DispatchPlaces
  <2>1. AtFrame("failed") /\ "failed" \in DispatchPlaces
    BY PlacesDiffer DEF ReplyFailed
  <2> QED BY <2>1, AtDispatch
<1>2. /\ stack' = <<>> /\ last' = [last EXCEPT !.result = "fail"]
      /\ UNCHANGED <<lists, iter, status, released, waiting, busRules, ifaceRef, held,
                     connRef, over>>
  BY <1>1 DEF ReplyFailed, FailDispatch, PopFrame
<1>3. /\ DueInv' /\ CallInv' /\ last' \in Messages
      /\ Shape(stack') /\ BeingFreed(stack') = {} /\ InMethod(stack') = FALSE
      /\ Ground(stack').at # "walk"
  BY <1>1, <1>2, DispatchFails
<1>4. ReleaseInv' /\ StackInv' /\ RulesCurrent' /\ WaitInv' /\ OwnerInv' /\ connRef = 1
  BY <1>1, <1>2, <1>3, DispatchStep
<1>5. ConnTypes' /\ ListInv'
  BY <1>0, <1>2, <1>3 DEF ConnTypes, ListInv, Listed
<1>6. RefInv'
  BY <1>0, <1>1, <1>2, <1>3 DEF RefInv
<1> QED BY <1>3, <1>4, <1>5, <1>6 DEF ConnInv

LEMMA SendReplyKeeps ==
  ASSUME ConnInv, SendReply
  PROVE  ConnInv' /\ Ground(stack').at # "walk"
<1>0. ConnTypes /\ ListInv /\ RefInv /\ DueInv /\ CallInv /\ StackInv
  BY DEF ConnInv
<1> DEFINE g == Head(stack)
<1>1. "send" \in DispatchPlaces /\ "send" \in AfterReply /\ "send" # "toBind"
  BY PlacesDiffer
<1>2. /\ over = "no" /\ g \in DispatchFrames /\ Ground(stack) = g
      /\ Tail(stack) = <<>> /\ BeingFreed(stack) = {} /\ InMethod(stack) = FALSE
      /\ Ground(stack).at = "send" /\ Ground(stack).at # "walk"
  <2>1. AtFrame("send")
    BY DEF SendReply
  <2> QED BY <1>1, <2>1, AtDispatch
<1>3. /\ stack' = <<>> /\ last' = [last EXCEPT !.sent = g.ret, !.result = "ok"]
      /\ UNCHANGED <<lists, iter, status, released, waiting, busRules, ifaceRef, held,
                     connRef, over>>
  BY <1>2 DEF SendReply, PopFrame, TopFrame
<1>4. g.ret \in {"none", "return", "error"}
  BY <1>2, FrameFields
<1> HIDE DEF g
<1>5. /\ last' \in Messages /\ last'.sent = g.ret /\ last'.result = "ok"
      /\ last'.due = last.due /\ last'.got = last.got
  <2>1. \A l \in Messages, t \in {"none", "return", "error"} :
          LET v == [l EXCEPT !.sent = t, !.result = "ok"]
          IN  v \in Messages /\ v.sent = t /\ v.result = "ok" /\ v.due = l.due /\ v.got = l.got
    BY DEF Messages
  <2>2. last \in Messages
    BY <1>0 DEF ConnTypes
  <2> QED BY <1>3, <1>4, <2>1, <2>2
<1>6. /\ Shape(stack') /\ Ground(stack').at = "none"
      /\ BeingFreed(stack') = {} /\ InMethod(stack') = FALSE
  BY <1>3, NoCalls
<1>7. ReleaseInv' /\ StackInv' /\ RulesCurrent' /\ WaitInv' /\ OwnerInv' /\ connRef = 1
  <2>1. Ground(stack').at # "walk"
    BY <1>6
  <2> QED BY <1>2, <1>3, <1>6, <2>1, DispatchStep
<1>8. \A r \in last.due : status[r] = "freed"
  <2>1. \A r \in last.due : Gone(r) /\ r \in Services
    BY <1>0, <1>1, <1>2, KindFacts DEF DueInv, ConnTypes, Messages
  <2> QED BY <1>0, <1>2, <2>1 DEF Gone, StackInv
<1>9. DueInv'
  BY <1>3, <1>5, <1>6, <1>8, PlacesDiffer DEF DueInv
<1>10. g.ret = "return" => OneMethod
  BY <1>0, <1>1, <1>2 DEF CallInv
<1>11. CallInv'
  BY <1>5, <1>6, <1>10, PlacesDiffer DEF CallInv, OneMethod
<1>12. ConnTypes' /\ ListInv'
  BY <1>0, <1>3, <1>5 DEF ConnTypes, ListInv, Listed
<1>13. RefInv'
  BY <1>0, <1>2, <1>3, <1>6 DEF RefInv
<1> QED BY <1>6, <1>7, <1>9, <1>11, <1>12, <1>13 DEF ConnInv

-----------------------------------------------------------------------------
(* The invariant holds *)

LEMMA ConnInvSame ==
  ASSUME ConnInv, UNCHANGED ccVars
  PROVE  ConnInv'
<1>1. UNCHANGED <<lists, iter, status, released, waiting, busRules, ifaceRef, held,
                  stack, connRef, over, last>>
  BY DEF ccVars
<1>2. ConnTypes' /\ ListInv' /\ ReleaseInv' /\ WaitInv' /\ StackInv'
  BY <1>1 DEF ConnInv, ConnTypes, ListInv, Listed, ReleaseInv, WaitInv, StackInv
<1>3. RefInv' /\ RulesCurrent' /\ OwnerInv'
  BY <1>1 DEF ConnInv, RefInv, RulesCurrent, OwnerInv
<1>4. DueInv' /\ CallInv'
  BY <1>1 DEF ConnInv, DueInv, Gone, CallInv, OneMethod
<1> QED BY <1>2, <1>3, <1>4 DEF ConnInv

LEMMA ConnInvKept ==
  ASSUME ConnInv, [ClientNext]_ccVars
  PROVE  ConnInv'
<1>1. CASE UNCHANGED ccVars
  BY <1>1, ConnInvSame
<1>2. CASE WalkList
  BY <1>2, WalkFrees, WalkGoesOn
<1>3. CASE \E m \in MatchIds : FreeMatch(m) \/ ConnAddMatch(m) \/ ConnRemoveMatch(m)
  BY <1>3, FreeMatchKeeps, ConnAddMatchKeeps, ConnRemoveMatchKeeps
<1>4. CASE \E r \in ReplyIds : FreeReply(r) \/ ConnAddReply(r) \/ ConnRemoveReply(r)
  BY <1>4, FreeReplyKeeps, ConnAddReplyKeeps, ConnRemoveReplyKeeps
<1>5. CASE \E b \in BindIds : FreeBind(b) \/ ConnBind(b) \/ ConnUnbind(b)
  BY <1>5, FreeBindKeeps, ConnBindKeeps, ConnUnbindKeeps
<1>6. CASE CallMethod \/ NoMethod \/ DispatchToMatch \/ DispatchToReply \/ ReplyFailed \/ SendReply
  BY <1>6, CallMethodKeeps, NoMethodKeeps, DispatchToMatchKeeps, DispatchToReplyKeeps,
     ReplyFailedKeeps, SendReplyKeeps
<1>7. CASE \E result \in CallbackResults :
             MethodReturns(result) \/ MatchReturns(result) \/ ReplyReturns(result)
  BY <1>7, MethodReturnsKeeps, MatchReturnsKeeps, ReplyReturnsKeeps
<1>8. CASE CallRelease \/ ReleaseReturns \/ DropInterface \/ ConnDeref
  BY <1>8, CallReleaseKeeps, ReleaseReturnsKeeps, DropInterfaceKeeps, ConnDerefKeeps
<1>9. CASE \E msg \in Incoming : DispatchMessage(msg)
  BY <1>9, DispatchMessageKeeps
<1> QED BY <1>1, <1>2, <1>3, <1>4, <1>5, <1>6, <1>7, <1>8, <1>9 DEF ClientNext, LibraryStep

-----------------------------------------------------------------------------
(* What the invariant says *)

LEMMA TypesFollow == ConnInv /\ cut \subseteq Kinds => ClientTypeOK
<1> SUFFICES ASSUME ConnInv, cut \subseteq Kinds PROVE ClientTypeOK
  OBVIOUS
<1>0. ConnTypes /\ ListInv
  BY DEF ConnInv
<1>1. \A k \in Kinds : \A i \in DOMAIN lists[k] : KindOf(lists[k][i]) = k
  BY <1>0, NextFacts
<1>2. last.got \subseteq Services /\ last.due \subseteq ReplyIds
  BY <1>0 DEF ConnTypes, Messages
<1> QED BY <1>0, <1>1, <1>2 DEF ClientTypeOK, ConnTypes

(* The places of an element that is in a list at most once. *)
LEMMA PlacesOf ==
  ASSUME NEW S, NEW q \in Seq(S), Once(q), NEW s
  PROVE  Cardinality({i \in DOMAIN q : q[i] = s}) = IF s \in ToSet(q) THEN 1 ELSE 0
<1> DEFINE places == {i \in DOMAIN q : q[i] = s}
<1>1. CASE s \in ToSet(q)
  <2>1. PICK i \in DOMAIN q : q[i] = s
    BY <1>1 DEF ToSet
  <2>2. places = {i}
    BY <2>1 DEF Once
  <2> HIDE DEF places
  <2>3. Cardinality(places) = 1
    BY <2>2, FS_Singleton
  <2> QED BY <1>1, <2>3 DEF places
<1>2. CASE s \notin ToSet(q)
  <2>1. places = {}
    BY <1>2 DEF ToSet
  <2> HIDE DEF places
  <2>2. Cardinality(places) = 0
    BY <2>1, FS_EmptySet
  <2> QED BY <1>2, <2>2 DEF places
<1> QED BY <1>1, <1>2

LEMMA ListsFollow == ConnInv => ListsSound
<1> SUFFICES ASSUME ConnInv PROVE ListsSound
  OBVIOUS
<1>0. ConnTypes /\ ListInv /\ ReleaseInv /\ WaitInv
  BY DEF ConnInv
<1>1. ASSUME NEW s \in Services
      PROVE  Cardinality({i \in DOMAIN lists[KindOf(s)] : lists[KindOf(s)][i] = s}) =
               IF status[s] = "live" \/ (status[s] = "freeing" /\ s \notin MatchIds)
               THEN 1 ELSE 0
  <2> DEFINE q == lists[KindOf(s)]
  <2>1. q \in Seq(Services) /\ Once(q) /\ (s \in ToSet(q) <=> Listed(s))
    BY <1>0, KindFacts DEF ConnTypes, ListInv
  <2>2. Cardinality({i \in DOMAIN q : q[i] = s}) = IF s \in ToSet(q) THEN 1 ELSE 0
    <3> HIDE DEF q
    <3> QED BY <2>1, PlacesOf
  <2>3. Cardinality({i \in DOMAIN q : q[i] = s}) = IF Listed(s) THEN 1 ELSE 0
    <3> HIDE DEF q
    <3> QED BY <2>1, <2>2
  <2> QED BY <2>3 DEF Listed
<1>2. ASSUME NEW k \in Kinds, iter[k] # Nobody
      PROVE  status[iter[k]] \in {"live", "freeing"}
  BY <1>0, <1>2 DEF ListInv, Listed, ConnTypes
<1> QED BY <1>0, <1>1, <1>2 DEF ListsSound, ReleaseInv, WaitInv

LEMMA CountFollows == ConnInv => InterfaceCounted
<1> SUFFICES ASSUME ConnInv PROVE InterfaceCounted
  OBVIOUS
<1>0. ConnTypes /\ RefInv /\ Shape(stack)
  BY DEF ConnInv, StackInv
<1> DEFINE calls == {i \in DOMAIN stack : stack[i].at = "method"}
<1>1. Cardinality(Bound(status)) \in Nat
  BY <1>0, FS_CardinalityType DEF RefInv
<1>2. Bound(status) = {b \in BindIds : status[b] \in {"live", "freeing"}}
  BY DEF Bound
<1>3. CASE InMethod(stack)
  <2>1. PICK i \in DOMAIN stack : stack[i].at = "method"
    BY <1>3 DEF InMethod
  <2>2. \A j \in DOMAIN stack : stack[j].at = "method" => j = Len(stack) - 1
    BY <1>0 DEF Shape, CallPlaces
  <2>3. calls = {i}
    BY <2>1, <2>2
  <2> HIDE DEF calls
  <2>4. Cardinality(calls) = 1
    BY <2>3, FS_Singleton
  <2>5. ifaceRef = (IF held THEN 1 ELSE 0) + Cardinality(Bound(status)) + 1
    BY <1>0, <1>3 DEF RefInv
  <2>6. ifaceRef > 0
    BY <1>1, <2>5
  <2>7. ifaceRef = (IF held THEN 1 ELSE 0) + Cardinality(Bound(status)) + Cardinality(calls)
    BY <2>4, <2>5
  <2> QED BY <1>2, <2>6, <2>7 DEF InterfaceCounted, calls
<1>4. CASE ~InMethod(stack)
  <2>1. calls = {}
    BY <1>4 DEF InMethod
  <2> HIDE DEF calls
  <2>2. Cardinality(calls) = 0
    BY <2>1, FS_EmptySet
  <2>3. ifaceRef = (IF held THEN 1 ELSE 0) + Cardinality(Bound(status)) + Cardinality(calls)
    BY <1>0, <1>4, <2>2 DEF RefInv
  <2>4. \A i \in DOMAIN stack : stack[i].at # "method"
    BY <1>4 DEF InMethod
  <2> QED BY <1>2, <2>3, <2>4 DEF InterfaceCounted, calls
<1> QED BY <1>3, <1>4

LEMMA AnswersFollow == ConnInv => ReturnMeansCalled /\ AnswerSettles /\ RulesCurrent
<1> SUFFICES ASSUME ConnInv PROVE ReturnMeansCalled /\ AnswerSettles /\ RulesCurrent
  OBVIOUS
<1>1. ReturnMeansCalled
  <2> SUFFICES ASSUME last.sent = "return" PROVE Cardinality(last.got \cap BindIds) = 1
    BY DEF ReturnMeansCalled
  <2>1. PICK b \in BindIds : last.got \cap BindIds = {b}
    BY DEF ConnInv, CallInv, OneMethod
  <2> QED BY <2>1, FS_Singleton
<1>2. AnswerSettles /\ RulesCurrent
  BY DEF ConnInv, DueInv, AnswerSettles
<1> QED BY <1>1, <1>2

-----------------------------------------------------------------------------
(* The walk of adbus_conn_deref, as long as no release callback removes the service
   that comes next *)

(* w has some of the elements of the list q, in the same order. *)
ShrunkTo(w, q) ==
  /\ w \in Seq(Services) /\ ToSet(w) \subseteq ToSet(q)
  /\ \A i, j \in DOMAIN w : i < j =>
       \E a, b \in DOMAIN q : a < b /\ q[a] = w[i] /\ q[b] = w[j]
  /\ q = <<>> => w = <<>>

LEMMA Shrunk ==
  ASSUME NEW q \in Seq(Services), NEW s
  PROVE  ShrunkTo(Without(q, {s}), q) /\ ShrunkTo(q, q)
<1> DEFINE w == Without(q, {s})
<1>1. w \in Seq(Services) /\ ToSet(w) = ToSet(q) \ {s}
  BY WithoutFacts
<1>2. \A i, j \in DOMAIN w : i < j =>
        \E a, b \in DOMAIN q : a < b /\ q[a] = w[i] /\ q[b] = w[j]
  BY WithoutOrder
<1> HIDE DEF w
<1>3. q = <<>> => w = <<>>
  <2>1. (q = <<>> <=> ToSet(q) = {}) /\ (w = <<>> <=> ToSet(w) = {})
    BY <1>1, EmptyList
  <2> QED BY <1>1, <2>1
<1>4. ShrunkTo(w, q) /\ ShrunkTo(q, q)
  BY <1>1, <1>2, <1>3 DEF ShrunkTo
<1> QED BY <1>4 DEF w

(* Any service but the one that comes next may be removed or freed meanwhile. *)
LEMMA WalkKept ==
  ASSUME ConnInv, WalkInv, Ground(stack') = Ground(stack), NEW s \in Services,
         \A l \in Kinds : lists'[l] \in {lists[l], Without(lists[l], {s})},
         \A t \in Services : status'[t] = "live" <=> status[t] = "live" /\ t # s,
         Ground(stack).at = "walk" /\ ~Ground(stack).first =>
           iter'[Ground(stack).kind] = iter[Ground(stack).kind] /\ iter[Ground(stack).kind] # s
  PROVE  WalkInv'
<1> SUFFICES ASSUME Ground(stack).at = "walk"
             PROVE  WalkInv'
  BY DEF WalkInv
<1> DEFINE g == Ground(stack)
           k == g.kind
<1>0. ConnTypes /\ ListInv /\ Shape(stack)
  BY DEF ConnInv, StackInv
<1>1. g.at = "walk" /\ k \in Kinds /\ g.first \in BOOLEAN
  <2>1. g \in WalkFrames
    BY <1>0, GroundFrame
  <2> QED BY <2>1, FrameFields
<1>2. "bind" \in Kinds /\ "reply" \in Kinds
  BY DEF Kinds
<1>3. \A l \in Kinds :
        /\ lists[l] \in Seq(Services) /\ lists'[l] \in Seq(Services)
        /\ ToSet(lists'[l]) \subseteq ToSet(lists[l])
        /\ \A i, j \in DOMAIN lists'[l] : i < j =>
             \E a, b \in DOMAIN lists[l] :
               a < b /\ lists[l][a] = lists'[l][i] /\ lists[l][b] = lists'[l][j]
        /\ lists[l] = <<>> => lists'[l] = <<>>
  <2> TAKE l \in Kinds
  <2>1. lists[l] \in Seq(Services)
    BY <1>0 DEF ConnTypes
  <2> DEFINE q == lists[l]
             w == lists'[l]
  <2>2. q \in Seq(Services) /\ (w = q \/ w = Without(q, {s}))
    BY <2>1
  <2> HIDE DEF q, w
  <2>3. ShrunkTo(w, q)
    BY <2>2, Shrunk
  <2> QED BY <2>2, <2>3 DEF q, w, ShrunkTo
<1>4. /\ k # "bind" => lists["bind"] = <<>>
      /\ k = "match" => lists["reply"] = <<>>
      /\ ~g.first /\ iter[k] = Nobody =>
           \A t \in ToSet(lists[k]) : status[t] # "live"
      /\ ~g.first /\ iter[k] # Nobody =>
           /\ status[iter[k]] = "live"
           /\ \A i, j \in DOMAIN lists[k] :
                lists[k][j] = iter[k] /\ i < j => status[lists[k][i]] # "live"
  BY DEF WalkInv
<1>5. ~g.first => iter'[k] = iter[k] /\ iter[k] # s
  OBVIOUS
<1>6. Ground(stack') = g
  OBVIOUS
<1> HIDE DEF g
<1>7. /\ k # "bind" => lists'["bind"] = <<>>
      /\ k = "match" => lists'["reply"] = <<>>
  BY <1>2, <1>3, <1>4
<1>8. ASSUME ~g.first, iter'[k] = Nobody
      PROVE  \A t \in ToSet(lists'[k]) : status'[t] # "live"
  <2>1. \A t \in ToSet(lists'[k]) : t \in ToSet(lists[k]) /\ t \in Services
    <3>1. lists'[k] \in Seq(Services) /\ ToSet(lists'[k]) \subseteq ToSet(lists[k])
      BY <1>1, <1>3
    <3>2. \A w \in Seq(Services) : \A t \in ToSet(w) : t \in Services
      BY DEF ToSet
    <3> QED BY <3>1, <3>2
  <2> QED BY <1>4, <1>5, <1>8, <2>1
<1>9. ASSUME ~g.first, iter'[k] # Nobody
      PROVE  /\ status'[iter'[k]] = "live"
             /\ \A i, j \in DOMAIN lists'[k] :
                  lists'[k][j] = iter'[k] /\ i < j => status'[lists'[k][i]] # "live"
  <2>1. iter'[k] = iter[k] /\ iter[k] # s /\ iter[k] # Nobody /\ iter[k] \in Services
    BY <1>0, <1>1, <1>5, <1>9 DEF ConnTypes
  <2>2. status'[iter'[k]] = "live"
    BY <1>4, <1>9, <2>1
  <2>3. ASSUME NEW i \in DOMAIN lists'[k], NEW j \in DOMAIN lists'[k],
               lists'[k][j] = iter'[k], i < j
        PROVE  status'[lists'[k][i]] # "live"
    <3>1. PICK a, b \in DOMAIN lists[k] :
            a < b /\ lists[k][a] = lists'[k][i] /\ lists[k][b] = lists'[k][j]
      BY <1>1, <1>3, <2>3
    <3>2. status[lists[k][a]] # "live"
      BY <1>4, <1>9, <2>1, <2>3, <3>1
    <3>3. lists'[k][i] \in Services
      BY <1>1, <1>3
    <3> QED BY <3>1, <3>2, <3>3
  <2> QED BY <2>2, <2>3
<1> QED BY <1>6, <1>7, <1>8, <1>9 DEF WalkInv

(* The walk is where it was. *)
LEMMA WalkSame ==
  ASSUME WalkInv, Ground(stack') = Ground(stack), UNCHANGED <<lists, iter, status>>
  PROVE  WalkInv'
BY DEF WalkInv

(* A user's removal leaves the service that comes next alone. *)
LEMMA RemoveKeepsWalk ==
  ASSUME ConnInv, WalkInv, cut' = {}, NEW s \in Services, RemoveService(s),
         \A l \in Kinds : lists'[l] \in {lists[l], Without(lists[l], {s})},
         \A l \in Kinds : iter[l] # s => iter'[l] = iter[l]
  PROVE  WalkInv' /\ over' = over
<1>1. /\ Ground(stack') = Ground(stack)
      /\ \A t \in Services : status'[t] = IF t = s THEN "freeing" ELSE status[t]
      /\ over' = over
  BY RemoveServiceKeeps
<1>2. \A t \in Services : status'[t] = "live" <=> status[t] = "live" /\ t # s
  BY <1>1
<1>3. ASSUME Ground(stack).at = "walk", ~Ground(stack).first
      PROVE  iter'[Ground(stack).kind] = iter[Ground(stack).kind] /\ iter[Ground(stack).kind] # s
  <2> DEFINE k == Ground(stack).kind
  <2>1. Shape(stack) /\ ConnTypes /\ ListInv
    BY DEF ConnInv, StackInv
  <2>2. PICK i \in DOMAIN stack : stack[i] = Ground(stack)
    <3>1. stack # <<>> /\ Ground(stack) = stack[Len(stack)]
      BY <1>3 DEF Ground, NoGround
    <3>2. Len(stack) \in DOMAIN stack
      BY <2>1, <3>1 DEF Shape
    <3> QED BY <3>1, <3>2
  <2>3. k \in Kinds
    BY <1>3, <2>1, GroundFrame, FrameFields
  <2>4. ~Cuts(s)
    BY DEF RemoveService
  <2>5. iter[k] = s => KindOf(s) = k
    <3> HIDE DEF k
    <3>1. s # Nobody
      BY ClientAssumption
    <3> QED BY <2>1, <2>3, <3>1 DEF ListInv
  <2>6. iter[k] # s
    BY <1>3, <2>2, <2>4, <2>5 DEF Cuts
  <2> QED BY <2>3, <2>6
<1>4. WalkInv'
  BY <1>1, <1>2, <1>3, WalkKept
<1> QED BY <1>1, <1>4

(* The lists after ListWithout. *)
LEMMA ListWithoutFacts ==
  ASSUME ConnTypes, NEW s \in Services, ListWithout(s)
  PROVE  /\ \A l \in Kinds : lists'[l] \in {lists[l], Without(lists[l], {s})}
         /\ \A l \in Kinds : iter[l] # s => iter'[l] = iter[l]
<1>1. KindOf(s) \in Kinds
  BY KindFacts
<1>2. \A l \in Kinds : lists'[l] = IF l = KindOf(s) THEN Without(lists[l], {s}) ELSE lists[l]
  BY <1>1 DEF ConnTypes, ListWithout
<1>3. \A l \in Kinds : iter'[l] = IF l = KindOf(s) /\ iter[l] = s THEN Nobody ELSE iter[l]
  BY <1>1 DEF ConnTypes, ListWithout
<1> QED BY <1>2, <1>3

LEMMA UserKeepsWalk ==
  ASSUME ConnInv, WalkInv, cut' = {}, NEW s \in Services,
         (s \in MatchIds /\ ConnRemoveMatch(s)) \/ (s \in ReplyIds /\ ConnRemoveReply(s))
         \/ (s \in BindIds /\ ConnUnbind(s))
  PROVE  WalkInv' /\ over' = over
<1>1. RemoveService(s) /\ (ListWithout(s) \/ UNCHANGED <<lists, iter>>)
  BY DEF ConnRemoveMatch, ConnRemoveReply, ConnUnbind
<1>2. ConnTypes
  BY DEF ConnInv
<1>3. /\ \A l \in Kinds : lists'[l] \in {lists[l], Without(lists[l], {s})}
      /\ \A l \in Kinds : iter[l] # s => iter'[l] = iter[l]
  BY <1>1, <1>2, ListWithoutFacts
<1> QED BY <1>1, <1>3, RemoveKeepsWalk

(* A service that is freed is not the one that comes next, which is live. *)
LEMMA FreedKeepsWalk ==
  ASSUME ConnInv, WalkInv, NEW s \in Services,
         (s \in MatchIds /\ FreeMatch(s)) \/ (s \in ReplyIds /\ FreeReply(s))
         \/ (s \in BindIds /\ FreeBind(s))
  PROVE  WalkInv' /\ over' = over
<1>1. ServiceFreed(s) /\ (ListWithout(s) \/ UNCHANGED <<lists, iter>>)
  BY DEF FreeMatch, FreeReply, FreeBind
<1>2. ConnTypes /\ ListInv /\ Shape(stack)
  BY DEF ConnInv, StackInv
<1>3. /\ \A l \in Kinds : lists'[l] \in {lists[l], Without(lists[l], {s})}
      /\ \A l \in Kinds : iter[l] # s => iter'[l] = iter[l]
  BY <1>1, <1>2, ListWithoutFacts
<1>4. /\ Ground(stack') = Ground(stack)
      /\ \A t \in Services : status'[t] = IF t = s THEN "freed" ELSE status[t]
      /\ status[s] = "freeing" /\ over' = over
  BY <1>1, ServiceFreedKeeps
<1>5. \A t \in Services : status'[t] = "live" <=> status[t] = "live" /\ t # s
  BY <1>4
<1>6. ASSUME Ground(stack).at = "walk", ~Ground(stack).first
      PROVE  iter'[Ground(stack).kind] = iter[Ground(stack).kind] /\ iter[Ground(stack).kind] # s
  <2> DEFINE k == Ground(stack).kind
  <2>1. k \in Kinds
    BY <1>2, <1>6, GroundFrame, FrameFields
  <2>2. iter[k] # Nobody => status[iter[k]] = "live"
    BY <1>6 DEF WalkInv
  <2>3. iter[k] # s
    <3> HIDE DEF k
    <3>1. s # Nobody
      BY ClientAssumption
    <3> QED BY <1>4, <2>2, <3>1
  <2> QED BY <1>3, <2>1, <2>3
<1>7. WalkInv'
  BY <1>3, <1>4, <1>5, <1>6, WalkKept
<1> QED BY <1>4, <1>7

(* The walk frees the first service of its list and goes to the second. *)
LEMMA WalkFreesFirst ==
  ASSUME ConnInv, WalkInv, WalkList, WalkedTo # Nobody
  PROVE  WalkInv' /\ over' = over
<1> DEFINE s == WalkedTo
           g == Head(stack)
           k == g.kind
           q == lists[k]
<1>0. ConnTypes /\ ListInv
  BY DEF ConnInv
<1>1. stack # <<>> /\ g.at = "walk"
  BY DEF WalkList, TopFrame
<1>2. /\ g \in WalkFrames /\ Ground(stack) = g
      /\ \A t \in Services : status[t] # "freeing"
      /\ \E i \in DOMAIN q :
           s = q[i] /\ (g.first => i = 1) /\ status[s] = "live" /\ KindOf(s) = k
  BY <1>1, WalkPlace
<1>3. /\ Ground(stack') = [g EXCEPT !.first = FALSE]
      /\ status' = [status EXCEPT ![s] = "freeing"]
      /\ iter' = [iter EXCEPT ![k] = NextOf(s)]
      /\ lists' = IF s \in MatchIds THEN [lists EXCEPT ![k] = Without(@, {s})] ELSE lists
      /\ over' = over /\ ConnInv'
  BY WalkFrees
<1>4. k \in Kinds /\ g.first \in BOOLEAN
  BY <1>2, FrameFields
<1>5. /\ Ground(stack').at = "walk" /\ Ground(stack').kind = k /\ ~Ground(stack').first
  <2>1. \A f \in WalkFrames : LET v == [f EXCEPT !.first = FALSE]
                              IN  v.at = "walk" /\ v.kind = f.kind /\ ~v.first
    BY DEF WalkFrames
  <2> HIDE DEF g
  <2> QED BY <1>2, <1>3, <2>1
<1>6. ~g.first => s = iter[k]
  BY DEF WalkedTo, TopFrame
<1>7. /\ k # "bind" => lists["bind"] = <<>>
      /\ k = "match" => lists["reply"] = <<>>
      /\ ~g.first /\ iter[k] # Nobody =>
           \A i, j \in DOMAIN q : q[j] = iter[k] /\ i < j => status[q[i]] # "live"
  BY <1>1, <1>2 DEF WalkInv
<1>8. s # Nobody
  OBVIOUS
<1> HIDE DEF s, g, q
<1>9. q \in Seq(Services) /\ Once(q) /\ q = lists[k]
  BY <1>0, <1>4 DEF ConnTypes, ListInv, q
<1> HIDE DEF k
<1>10. \A i \in DOMAIN q : q[i] \in Services /\ status[q[i]] = "live"
  <2> TAKE i \in DOMAIN q
  <2>1. q[i] \in Services /\ q[i] \in ToSet(lists[k])
    BY <1>9 DEF ToSet
  <2> QED BY <1>0, <1>2, <1>4, <2>1 DEF ListInv, Listed
<1>11. PICK i \in DOMAIN q : s = q[i] /\ (g.first => i = 1) /\ status[s] = "live" /\ KindOf(s) = k
  BY <1>2
<1>12. DOMAIN q = 1..Len(q) /\ Len(q) \in Nat /\ i \in 1..Len(q) /\ 1 \in DOMAIN q
  BY <1>9
<1>13. i = 1
  <2>1. CASE g.first
    BY <1>11, <2>1
  <2>2. CASE ~g.first
    <3>1. \A j \in DOMAIN q : j < i => status[q[j]] # "live"
      BY <1>6, <1>7, <1>8, <1>11, <2>2
    <3>2. ~(1 < i)
      BY <1>10, <1>12, <3>1
    <3> QED BY <1>12, <3>2
  <2> QED BY <1>4, <2>1, <2>2
<1>14. /\ NextOf(s) = IF 1 = Len(q) THEN Nobody ELSE q[2]
       /\ NextOf(s) # Nobody => 2 \in DOMAIN q /\ NextOf(s) = q[2]
       /\ s \in Services
  <2>1. /\ lists[k][1] \in Services
        /\ NextOf(lists[k][1]) = IF 1 = Len(lists[k]) THEN Nobody ELSE lists[k][1 + 1]
        /\ NextOf(lists[k][1]) # Nobody =>
             1 + 1 \in DOMAIN lists[k] /\ NextOf(lists[k][1]) = lists[k][1 + 1]
    BY <1>0, <1>4, <1>9, <1>12, NextFacts
  <2> QED BY <1>9, <1>11, <1>13, <2>1
<1>15. /\ \A t \in Services : status'[t] = IF t = s THEN "freeing" ELSE status[t]
       /\ \A l \in Kinds : l # k => lists'[l] = lists[l]
       /\ iter'[k] = NextOf(s)
       /\ lists'[k] = q \/ lists'[k] = Without(q, {s})
  BY <1>0, <1>3, <1>4, <1>9 DEF ConnTypes
<1>16. ShrunkTo(lists'[k], q)
  BY <1>9, <1>15, Shrunk
<1>17. /\ k # "bind" => lists'["bind"] = <<>>
       /\ k = "match" => lists'["reply"] = <<>>
  BY <1>7, <1>15 DEF Kinds
<1>18. ASSUME iter'[k] = Nobody
       PROVE  \A t \in ToSet(lists'[k]) : status'[t] # "live"
  <2>1. 1 = Len(q)
    <3>1. 1 # Len(q) => 2 \in DOMAIN q
      BY <1>12
    <3>2. 2 \in DOMAIN q => q[2] # Nobody
      BY <1>10, ClientAssumption
    <3> QED BY <1>14, <1>15, <1>18, <3>1, <3>2
  <2>2. \A t \in ToSet(q) : t = s
    <3>0. DOMAIN q = 1..1
      BY <1>12, <2>1, Zenon
    <3>1. \A j \in DOMAIN q : j = 1
      BY <3>0
    <3>2. \A j \in DOMAIN q : q[j] = s
      BY <1>11, <1>13, <3>1
    <3> QED BY <3>2 DEF ToSet
  <2>3. ToSet(lists'[k]) \subseteq ToSet(q)
    BY <1>16 DEF ShrunkTo
  <2> QED BY <1>14, <1>15, <2>2, <2>3
<1>19. ASSUME iter'[k] # Nobody
       PROVE  /\ status'[iter'[k]] = "live"
              /\ \A a, b \in DOMAIN lists'[k] :
                   lists'[k][b] = iter'[k] /\ a < b => status'[lists'[k][a]] # "live"
  <2>1. 2 \in DOMAIN q /\ iter'[k] = q[2] /\ q[2] # s
    BY <1>9, <1>11, <1>13, <1>14, <1>15, <1>19 DEF Once
  <2>2. status'[iter'[k]] = "live"
    BY <1>10, <1>15, <2>1
  <2>3. ASSUME NEW a \in DOMAIN lists'[k], NEW b \in DOMAIN lists'[k],
               lists'[k][b] = iter'[k], a < b
        PROVE  status'[lists'[k][a]] # "live"
    <3>1. PICK c, d \in DOMAIN q : c < d /\ q[c] = lists'[k][a] /\ q[d] = lists'[k][b]
      BY <1>16, <2>3 DEF ShrunkTo
    <3>2. d = 2
      BY <1>9, <2>1, <2>3, <3>1 DEF Once
    <3>3. c = 1
      BY <1>12, <3>1, <3>2
    <3>4. lists'[k][a] = s
      BY <1>11, <1>13, <3>1, <3>3
    <3> QED BY <1>14, <1>15, <3>4
  <2> QED BY <2>2, <2>3
<1>20. WalkInv'
  BY <1>5, <1>17, <1>18, <1>19 DEF WalkInv
<1> QED BY <1>3, <1>20

(* A list that has been walked is empty. *)
LEMMA WalkEmpties ==
  ASSUME ConnInv, WalkInv, WalkList, WalkedTo = Nobody
  PROVE  WalkInv' /\ over' # "assert"
<1> DEFINE g == Head(stack)
           k == g.kind
           q == lists[k]
<1>0. ConnTypes /\ ListInv
  BY DEF ConnInv
<1>1. stack # <<>> /\ g.at = "walk" /\ over = "no"
  BY DEF WalkList, TopFrame
<1>2. /\ g \in WalkFrames /\ Ground(stack) = g
      /\ \A t \in Services : status[t] # "freeing"
  BY <1>1, WalkPlace
<1>3. /\ UNCHANGED <<lists, status>>
      /\ k = "match" =>
           /\ Ground(stack').at = "none"
           /\ over' = IF \E l \in Kinds : lists[l] # <<>> THEN "assert" ELSE "freed"
      /\ k # "match" =>
           /\ Ground(stack').at = "walk" /\ Ground(stack').first
           /\ Ground(stack').kind = AfterList[k]
           /\ over' = over
  BY WalkGoesOn
<1>4. k \in Kinds /\ g.first \in BOOLEAN
  BY <1>2, FrameFields
<1>5. /\ k # "bind" => lists["bind"] = <<>>
      /\ k = "match" => lists["reply"] = <<>>
      /\ ~g.first /\ iter[k] = Nobody => \A s \in ToSet(q) : status[s] # "live"
  BY <1>1, <1>2 DEF WalkInv
<1>6. /\ ~g.first => iter[k] = Nobody
      /\ g.first => IF q = <<>> THEN TRUE ELSE Head(q) = Nobody
  BY DEF WalkedTo, TopFrame
<1>7. q \in Seq(Services)
  BY <1>0, <1>4 DEF ConnTypes
<1>8. \A s \in ToSet(q) : s \in Services /\ status[s] = "live"
  <2>1. \A s \in ToSet(q) : s \in Services
    BY <1>7 DEF ToSet
  <2> QED BY <1>0, <1>2, <1>4, <2>1 DEF ListInv, Listed
<1> HIDE DEF g, q
<1>9. q = <<>>
  <2>1. CASE g.first
    <3>1. q # <<>> => Head(q) \in Services
      BY <1>7
    <3> QED BY <1>6, <2>1, <3>1, ClientAssumption
  <2>2. CASE ~g.first
    <3>1. ToSet(q) = {}
      BY <1>5, <1>6, <1>8, <2>2
    <3> QED BY <1>7, <3>1, EmptyList
  <2> QED BY <1>4, <2>1, <2>2
<1>10. lists[k] = <<>>
  BY <1>9 DEF q
<1> HIDE DEF k
<1>11. CASE k = "match"
  <2>1. \A l \in Kinds : lists[l] = <<>>
    BY <1>5, <1>10, <1>11 DEF Kinds
  <2>2. over' = "freed"
    BY <1>3, <1>11, <2>1
  <2>3. WalkInv'
    BY <1>3, <1>11 DEF WalkInv
  <2> QED BY <2>2, <2>3
<1>12. CASE k # "match"
  <2>1. /\ Ground(stack').kind = "reply" => lists'["bind"] = <<>>
        /\ Ground(stack').kind = "match" => lists'["bind"] = <<>> /\ lists'["reply"] = <<>>
        /\ Ground(stack').kind \in {"reply", "match"}
    BY <1>3, <1>4, <1>5, <1>10, <1>12 DEF AfterList, Kinds
  <2>2. WalkInv'
    BY <1>3, <1>12, <2>1 DEF WalkInv
  <2>3. over' # "assert"
    BY <1>1, <1>3, <1>12
  <2> QED BY <2>2, <2>3
<1> QED BY <1>11, <1>12

(* The connection is not walked while it has owners. *)
LEMMA NotWalked ==
  ASSUME ConnInv, connRef # 0
  PROVE  Ground(stack).at # "walk"
BY DEF ConnInv, OwnerInv

LEMMA AddKeepsWalk ==
  ASSUME ConnInv, NEW s \in Services, AddService(s)
  PROVE  WalkInv' /\ over' = over
<1>1. connRef = 1 /\ UNCHANGED <<stack, over>>
  BY AddServiceKeeps
<1>2. Ground(stack').at # "walk"
  BY <1>1, NotWalked
<1> QED BY <1>1, <1>2 DEF WalkInv

(* The calls of release callbacks, and a dispatch. *)
LEMMA ReleasesKeepWalk ==
  ASSUME ConnInv, WalkInv, CallRelease \/ ReleaseReturns \/ DropInterface \/ UNCHANGED ccVars
  PROVE  WalkInv' /\ over' = over
<1>0. Shape(stack)
  BY DEF ConnInv, StackInv
<1>1. UNCHANGED <<lists, iter, status, over>>
  BY DEF CallRelease, ReleaseReturns, DropInterface, ccVars
<1>2. CASE CallRelease
  <2> DEFINE f == [at |-> "release", svc |-> Head(stack).svc]
  <2>1. stack # <<>> /\ Head(stack).at = "free" /\ stack' = <<f>> \o stack
    BY <1>2 DEF CallRelease, TopFrame, PushFrame
  <2>2. Head(stack).svc \in Services
    BY <1>0, <2>1, PopShape DEF FreePlaces
  <2>3. f \in FreeFrames /\ f.at = "release"
    BY <2>2 DEF FreeFrames, FreePlaces
  <2> HIDE DEF f
  <2>4. Ground(<<f>> \o stack) = Ground(stack)
    BY <1>0, <2>3, PushShape
  <2>5. Ground(stack') = Ground(stack)
    BY <2>1, <2>4
  <2> QED BY <1>1, <2>5, WalkSame
<1>3. CASE ReleaseReturns
  <2>1. stack # <<>> /\ Head(stack).at \in FreePlaces /\ stack' = Tail(stack)
    BY <1>3 DEF ReleaseReturns, AtFrame, TopFrame, PopFrame, FreePlaces
  <2>2. Ground(Tail(stack)) = Ground(stack)
    BY <1>0, <2>1, PopShape
  <2>3. Ground(stack') = Ground(stack)
    BY <2>1, <2>2
  <2> QED BY <1>1, <2>3, WalkSame
<1>4. CASE DropInterface \/ UNCHANGED ccVars
  <2>1. stack' = stack
    BY <1>4 DEF DropInterface, ccVars
  <2> QED BY <1>1, <2>1, WalkSame
<1> QED BY <1>2, <1>3, <1>4

(* The walk is kept, and it leaves nothing. *)
LEMMA WalkInvKept ==
  ASSUME ConnInv, WalkInv, over # "assert", cut' = {}, [ClientNext]_ccVars
  PROVE  WalkInv' /\ over' # "assert"
<1>0. over # "assert"
  OBVIOUS
<1>1. CASE WalkList
  BY <1>0, <1>1, WalkFreesFirst, WalkEmpties
<1>2. CASE CallRelease \/ ReleaseReturns \/ DropInterface \/ UNCHANGED ccVars
  BY <1>0, <1>2, ReleasesKeepWalk
<1>3. CASE \E m \in MatchIds : FreeMatch(m) \/ ConnAddMatch(m) \/ ConnRemoveMatch(m)
  <2>1. PICK m \in MatchIds : FreeMatch(m) \/ ConnAddMatch(m) \/ ConnRemoveMatch(m)
    BY <1>3
  <2>2. m \in Services /\ (ConnAddMatch(m) => AddService(m))
    BY KindFacts DEF ConnAddMatch
  <2> QED BY <1>0, <2>1, <2>2, FreedKeepsWalk, AddKeepsWalk, UserKeepsWalk
<1>4. CASE \E r \in ReplyIds : FreeReply(r) \/ ConnAddReply(r) \/ ConnRemoveReply(r)
  <2>1. PICK r \in ReplyIds : FreeReply(r) \/ ConnAddReply(r) \/ ConnRemoveReply(r)
    BY <1>4
  <2>2. r \in Services /\ (ConnAddReply(r) => AddService(r))
    BY KindFacts DEF ConnAddReply
  <2> QED BY <1>0, <2>1, <2>2, FreedKeepsWalk, AddKeepsWalk, UserKeepsWalk
<1>5. CASE \E b \in BindIds : FreeBind(b) \/ ConnBind(b) \/ ConnUnbind(b)
  <2>1. PICK b \in BindIds : FreeBind(b) \/ ConnBind(b) \/ ConnUnbind(b)
    BY <1>5
  <2>2. b \in Services /\ (ConnBind(b) => AddService(b))
    BY KindFacts DEF ConnBind
  <2> QED BY <1>0, <2>1, <2>2, FreedKeepsWalk, AddKeepsWalk, UserKeepsWalk
<1>6. CASE CallMethod \/ NoMethod \/ DispatchToMatch \/ DispatchToReply \/ ReplyFailed \/ SendReply
  <2>1. Ground(stack').at # "walk"
    BY <1>6, CallMethodKeeps, NoMethodKeeps, DispatchToMatchKeeps, DispatchToReplyKeeps,
       ReplyFailedKeeps, SendReplyKeeps
  <2>2. over' = over \/ over' = "crash"
    BY <1>6 DEF CallMethod, NoMethod, DispatchToMatch, DispatchToReply, ReplyFailed, SendReply
  <2> QED BY <1>0, <2>1, <2>2 DEF WalkInv
<1>7. CASE \E result \in CallbackResults :
             MethodReturns(result) \/ MatchReturns(result) \/ ReplyReturns(result)
  <2>1. Ground(stack').at # "walk"
    BY <1>7, MethodReturnsKeeps, MatchReturnsKeeps, ReplyReturnsKeeps
  <2>2. over' = over
    BY <1>7 DEF MethodReturns, MatchReturns, ReplyReturns
  <2> QED BY <1>0, <2>1, <2>2 DEF WalkInv
<1>8. CASE ConnDeref
  <2>1. Ground(stack').kind = "bind" /\ Ground(stack').first
    BY <1>8, ConnDerefKeeps
  <2>2. over' = over
    BY <1>8 DEF ConnDeref
  <2> QED BY <1>0, <2>1, <2>2 DEF WalkInv
<1>9. CASE \E msg \in Incoming : DispatchMessage(msg)
  <2>1. Ground(stack').at # "walk"
    BY <1>9, DispatchMessageKeeps
  <2>2. over' = over
    BY <1>9 DEF DispatchMessage
  <2> QED BY <1>0, <2>1, <2>2 DEF WalkInv
<1> QED BY <1>1, <1>2, <1>3, <1>4, <1>5, <1>6, <1>7, <1>8, <1>9 DEF ClientNext, LibraryStep

(* What has cut a walk is remembered. *)
LEMMA CutGrows ==
  ASSUME [ClientNext]_ccVars
  PROVE  cut' = cut \/ \E s \in Services : cut' = cut \cup {KindOf(s)}
<1>1. ASSUME NEW s \in Services, RemoveService(s)
      PROVE  cut' = cut \/ cut' = cut \cup {KindOf(s)}
  BY <1>1 DEF RemoveService
<1>2. CASE \E s \in Services : RemoveService(s)
  BY <1>1, <1>2
<1>3. CASE \E s \in Services : AddService(s) \/ ServiceFreed(s)
  BY <1>3 DEF AddService, ServiceFreed
<1>4. CASE CallMethod \/ NoMethod \/ DispatchToMatch \/ DispatchToReply \/ ReplyFailed \/ SendReply
  BY <1>4 DEF CallMethod, NoMethod, DispatchToMatch, DispatchToReply, ReplyFailed, SendReply
<1>5. CASE \E result \in CallbackResults :
             MethodReturns(result) \/ MatchReturns(result) \/ ReplyReturns(result)
  BY <1>5 DEF MethodReturns, MatchReturns, ReplyReturns
<1>6. CASE CallRelease \/ ReleaseReturns \/ DropInterface \/ ConnDeref \/ WalkList
  BY <1>6 DEF CallRelease, ReleaseReturns, DropInterface, ConnDeref, WalkList
<1>7. CASE (\E msg \in Incoming : DispatchMessage(msg)) \/ UNCHANGED ccVars
  BY <1>7 DEF DispatchMessage, ccVars
<1>8. /\ \A m \in MatchIds : m \in Services /\ (FreeMatch(m) => ServiceFreed(m))
                           /\ (ConnAddMatch(m) => AddService(m))
                           /\ (ConnRemoveMatch(m) => RemoveService(m))
      /\ \A r \in ReplyIds : r \in Services /\ (FreeReply(r) => ServiceFreed(r))
                           /\ (ConnAddReply(r) => AddService(r))
                           /\ (ConnRemoveReply(r) => RemoveService(r))
      /\ \A b \in BindIds : b \in Services /\ (FreeBind(b) => ServiceFreed(b))
                          /\ (ConnBind(b) => AddService(b))
                          /\ (ConnUnbind(b) => RemoveService(b))
  BY KindFacts DEF FreeMatch, ConnAddMatch, ConnRemoveMatch, FreeReply, ConnAddReply,
     ConnRemoveReply, FreeBind, ConnBind, ConnUnbind
<1> QED BY <1>2, <1>3, <1>4, <1>5, <1>6, <1>7, <1>8 DEF ClientNext, LibraryStep

(* A walk that was not cut leaves nothing. *)
CutInv == cut \subseteq Kinds /\ (cut = {} => WalkInv /\ over # "assert")

(* All that is promised of a connection, whatever its callbacks do, also when the release
   callbacks that adbus_conn_deref calls remove services: the lists, their iterators and
   the tables of the remotes hold exactly the services that have not been freed, a
   service is released once before it is freed, an interface is referenced by its users,
   a reply is settled by its answer, a call is answered by the one method that was
   called, and the bus has the rules of the matches.  The assertions at the end of
   adbus_conn_deref that every service has been released fail only if one of those
   callbacks has removed the service that the walk goes to next. *)
THEOREM ConnectionIsSound == ClientSpec => []ConnectionSound
<1>1. ClientInit => CutInv
  <2>1. Ground(<<>>).at = "none"
    BY NoCalls
  <2> QED BY <2>1 DEF ClientInit, WalkInv, CutInv
<1>2. ConnInv /\ CutInv /\ [ClientNext]_ccVars => ConnInv' /\ CutInv'
  <2> SUFFICES ASSUME ConnInv, CutInv, [ClientNext]_ccVars PROVE ConnInv' /\ CutInv'
    OBVIOUS
  <2>1. cut' \subseteq Kinds /\ (cut' = {} => cut = {})
    BY CutGrows, KindFacts DEF CutInv
  <2>2. cut' = {} => WalkInv' /\ over' # "assert"
    BY <2>1, WalkInvKept DEF CutInv
  <2> QED BY <2>1, <2>2, ConnInvKept DEF CutInv
<1>3. ConnInv /\ CutInv => ConnectionSound
  BY TypesFollow, ListsFollow, CountFollows, AnswersFollow DEF ConnectionSound, CutInv, LeftOnlyIfCut
<1> QED BY <1>1, <1>2, <1>3, ConnInvFirst, PTL DEF ClientSpec
=============================================================================
