---------------------------- MODULE ClientProofs ----------------------------
(***************************************************************************)
(* Proofs about four parts of a client, for all paths, interfaces,         *)
(* members, connections, services and values.                              *)
(*                                                                         *)
(* The object tree of a connection is sound.  In the middle of an          *)
(* operation the tree is not what TreeSound says of it between two, and    *)
(* the inductive invariant says how far it is off: the object that         *)
(* GetObject has just made is not linked to its parent, the object that a  *)
(* bind is for has no purpose yet, and the one that CheckRemoveObject      *)
(* looks at may have lost its purpose.  Following introspection from the   *)
(* root then finds every bound path, by induction over the depth, and no   *)
(* node that leads to none, by induction from the deepest paths up.        *)
(*                                                                         *)
(* What a client sends is sound.  Serials are taken around a circle, and   *)
(* the inductive invariant places each reply on it: its serial lies as far *)
(* behind the next as its age says, no two replies have one age, and the   *)
(* call that is set up has the serial right behind the next.               *)
(*                                                                         *)
(* An interface is there while it is used.  Its references are those of    *)
(* its creator, its binds and the request that is served, and each release *)
(* callback belongs to one member until it is called.                      *)
(*                                                                         *)
(* A match rule is read as it was meant.  It is a row of pairs of six      *)
(* tokens each, so the place of every pair is known (RuleText), and a turn *)
(* of the bus's loop takes one (ReadOne).  The match then has the last     *)
(* value of each key (Took); in a rule that a client wrote every key is    *)
(* there once.                                                             *)
(***************************************************************************)
EXTENDS ObjectTree, Outgoing, Interfaces, Rules, ListFacts

(* The object tree *)

(* What the operation in progress holds pointers to. *)
TaskOK ==
  /\ task.op \in {"get", "bind"} => task.goal \in Paths /\ task.iface \in Bindable
  /\ task.op = "get" =>
       /\ task.at \in Paths
       /\ task.child = NoPath => task.at = task.goal
       /\ task.child # NoPath => /\ task.child \in objects \ {Root}
                                 /\ Parent[task.child] = task.at
                                 /\ task.goal \in objects
  /\ task.op = "bind" => task.goal \in objects
  /\ task.op = "check" => task.at \in objects

(* The table of an object: its built in interfaces and its binds. *)
BoundTo(p) == {i \in Bindable : <<p, i>> \in bound}

TablesOK ==
  /\ \A p \in Paths : ifs[p] = IF p \in objects THEN BuiltIn \cup BoundTo(p) ELSE {}
  /\ \A p \in Paths, i \in Bindable : <<p, i>> \in bound => p \in objects

(* Children know their parents, and parents their children but for the object that
   has just been made. *)
LinksOK ==
  /\ \A p \in Paths : \A q \in kids[p] :
       q \in objects \ {Root} /\ Parent[q] = p /\ p \in objects
  /\ \A q \in objects \ {Root} :
       \/ task.op = "get" /\ q = task.child
       \/ Parent[q] \in objects /\ q \in kids[Parent[q]]

(* Every object has a purpose but for the one that the operation is about. *)
PurposeOK ==
  \A p \in objects :
    \/ BoundTo(p) # {}
    \/ kids[p] # {}
    \/ task.op \in {"get", "bind"} /\ p = task.goal
    \/ task.op = "check" /\ p = task.at

TreeInv == TreeTypeOK /\ TaskOK /\ TablesOK /\ LinksOK /\ PurposeOK

(* The test of CheckRemoveObject: the number of interfaces tells whether an object
   with both built in interfaces has a bind. *)
LEMMA CountTellsBinds ==
  ASSUME NEW B, B \subseteq Bindable
  PROVE  Cardinality(BuiltIn \cup B) > 2 <=> B # {}
<1>1. IsFiniteSet(BuiltIn) /\ Cardinality(BuiltIn) = 2 /\ IsFiniteSet(Bindable)
      /\ Bindable \cap BuiltIn = {}
  BY TreeAssumption
<1>2. CASE B = {}
  <2>1. BuiltIn \cup B = BuiltIn
    BY <1>2
  <2>2. QED
    BY <1>1, <1>2, <2>1
<1>3. CASE B # {}
  <2>1. PICK i \in B : TRUE
    BY <1>3
  <2>2. IsFiniteSet(B)
    BY <1>1, FS_Subset
  <2>3. IsFiniteSet(BuiltIn \cup B)
    BY <1>1, <2>2, FS_Union
  <2>4. Cardinality(BuiltIn \cup {i}) = 3
    <3>1. i \notin BuiltIn
      BY <1>1, <2>1
    <3>2. Cardinality(BuiltIn \cup {i}) = Cardinality(BuiltIn) + 1
      BY <1>1, <3>1, FS_AddElement
    <3>3. QED
      BY <1>1, <3>2
  <2>5. BuiltIn \cup {i} \in SUBSET (BuiltIn \cup B)
    BY <2>1
  <2>6. Cardinality(BuiltIn \cup {i}) <= Cardinality(BuiltIn \cup B)
    BY <2>3, <2>5, FS_Subset
  <2>7. Cardinality(BuiltIn \cup B) \in Nat
    BY <2>3, FS_CardinalityType
  <2>8. QED
    BY <1>3, <2>4, <2>6, <2>7
<1>4. QED
  BY <1>2, <1>3

(* The connection starts without objects. *)
LEMMA TreeInvInit == TreeInit => TreeInv
<1> SUFFICES ASSUME TreeInit PROVE TreeInv
  OBVIOUS
<1> USE DEF TreeInit, NoTask
<1>1. TreeTypeOK
  BY DEF TreeTypeOK
<1>2. TaskOK /\ TablesOK /\ LinksOK /\ PurposeOK
  BY DEF TaskOK, TablesOK, BoundTo, LinksOK, PurposeOK
<1>3. QED
  BY <1>1, <1>2 DEF TreeInv

(* adbus_conn_bind begins: nothing but the operation changes. *)
LEMMA BeginBindKeeps ==
  ASSUME TreeInv, NEW p \in Paths, NEW i \in Bindable, BeginBind(p, i)
  PROVE  TreeInv'
<1> USE DEF TreeInv, BeginBind
<1>1. TreeTypeOK'
  BY DEF TreeTypeOK
<1>2. TaskOK'
  BY DEF TaskOK
<1>3. TablesOK'
  BY DEF TablesOK, BoundTo
<1>4. LinksOK'
  BY DEF LinksOK
<1>5. PurposeOK'
  BY DEF PurposeOK, BoundTo
<1>6. QED
  BY <1>1, <1>2, <1>3, <1>4, <1>5

(* GetObject makes an object: the one below it gets its link, and the new one is the
   one that lacks its own. *)
LEMMA GetObjectKeeps ==
  ASSUME TreeInv, GetObject
  PROVE  TreeInv'
<1> DEFINE a == task.at
<1>1. /\ a \in Paths /\ a \notin objects /\ task.op = "get"
      /\ NoPath \notin Paths /\ Root \in Paths /\ Parent \in [Paths \ {Root} -> Paths]
  BY TreeAssumption DEF TreeInv, TaskOK, GetObject
<1>2. /\ objects' = objects \cup {a}
      /\ bound' = bound
      /\ ifs' = [ifs EXCEPT ![a] = BuiltIn]
      /\ kids' = [kids EXCEPT ![a] = IF task.child = NoPath THEN @ ELSE @ \cup {task.child}]
  BY DEF GetObject, Linked
<1>3. \/ a = Root /\ task' = [task EXCEPT !.op = "bind"]
      \/ a # Root /\ task' = [task EXCEPT !.at = Parent[a], !.child = a]
  BY DEF GetObject
<1>4. TreeTypeOK'
  BY <1>1, <1>2, <1>3 DEF TreeInv, TreeTypeOK
<1>5. task \in [op : {"none", "get", "bind", "check"}, at : Paths \cup {NoPath},
                child : Paths \cup {NoPath}, goal : Paths \cup {NoPath},
                iface : Bindable \cup {NoPath}]
  BY DEF TreeInv, TreeTypeOK
<1>6. /\ task'.goal = task.goal /\ task'.iface = task.iface
      /\ a = Root => task'.op = "bind" /\ task'.child = task.child
      /\ a # Root => task'.op = "get" /\ task'.at = Parent[a] /\ task'.child = a
  BY <1>1, <1>3, <1>5
<1>7. TaskOK'
  BY <1>1, <1>2, <1>6 DEF TreeInv, TaskOK
<1>8. TablesOK'
  <2>1. BoundTo(a) = {}
    BY <1>1 DEF TreeInv, TablesOK, BoundTo
  <2>2. \A p \in Paths : BoundTo(p)' = BoundTo(p)
    BY <1>2 DEF BoundTo
  <2>3. \A p \in Paths : ifs'[p] = IF p = a THEN BuiltIn ELSE ifs[p]
    BY <1>2 DEF TreeInv, TreeTypeOK
  <2>4. QED
    BY <1>2, <2>1, <2>2, <2>3, SMTT(20) DEF TreeInv, TablesOK
<1>9. /\ kids'[a] = IF task.child = NoPath THEN {} ELSE {task.child}
      /\ \A p \in Paths \ {a} : kids'[p] = kids[p]
  <2>1. kids[a] = {}
    BY <1>1 DEF TreeInv, LinksOK
  <2>2. QED
    BY <1>1, <1>2, <2>1 DEF TreeInv, TreeTypeOK
<1>10. LinksOK'
  <2>1. ASSUME NEW p \in Paths, NEW q \in kids'[p]
        PROVE  q \in objects' \ {Root} /\ Parent[q] = p /\ p \in objects'
    <3>1. CASE p = a
      BY <1>1, <1>2, <1>9, <2>1, <3>1 DEF TreeInv, TaskOK
    <3>2. CASE p # a
      BY <1>2, <1>9, <2>1, <3>2 DEF TreeInv, LinksOK
    <3>3. QED
      BY <3>1, <3>2
  <2>2. ASSUME NEW q \in objects' \ {Root}
        PROVE  \/ task'.op = "get" /\ q = task'.child
               \/ Parent[q] \in objects' /\ q \in kids'[Parent[q]]
    <3>1. CASE q = a
      BY <1>6, <2>2, <3>1
    <3>2. CASE q # a /\ q = task.child
      BY <1>1, <1>2, <1>9, <2>2, <3>2 DEF TreeInv, TaskOK, TreeTypeOK
    <3>3. CASE q # a /\ q # task.child
      <4>1. q \in objects \ {Root} /\ Parent[q] \in objects /\ q \in kids[Parent[q]]
        BY <1>1, <1>2, <2>2, <3>3 DEF TreeInv, LinksOK
      <4>2. Parent[q] # a /\ Parent[q] \in Paths
        BY <1>1, <4>1 DEF TreeInv, TreeTypeOK
      <4>3. QED
        BY <1>2, <1>9, <4>1, <4>2
    <3>4. QED
      BY <3>1, <3>2, <3>3
  <2>3. QED
    BY <2>1, <2>2 DEF LinksOK
<1>11. PurposeOK'
  <2>1. ASSUME NEW p \in objects'
        PROVE  \/ BoundTo(p)' # {} \/ kids'[p] # {}
               \/ task'.op \in {"get", "bind"} /\ p = task'.goal
    <3>1. CASE p = a
      BY <1>1, <1>6, <1>9, <3>1 DEF TreeInv, TaskOK
    <3>2. CASE p # a
      BY <1>1, <1>2, <1>6, <1>9, <2>1, <3>2 DEF TreeInv, TreeTypeOK, PurposeOK, BoundTo
    <3>3. QED
      BY <3>1, <3>2
  <2>2. QED
    BY <2>1 DEF PurposeOK
<1>12. QED
  BY <1>4, <1>7, <1>8, <1>10, <1>11 DEF TreeInv

(* GetObject comes to an object that exists, and the last new object gets its link. *)
LEMMA FoundObjectKeeps ==
  ASSUME TreeInv, FoundObject
  PROVE  TreeInv'
<1> DEFINE a == task.at
<1>1. /\ a \in Paths /\ a \in objects /\ task.op = "get"
      /\ NoPath \notin Paths
  BY TreeAssumption DEF TreeInv, TaskOK, FoundObject
<1>2. /\ objects' = objects /\ bound' = bound /\ ifs' = ifs
      /\ kids' = [kids EXCEPT ![a] = IF task.child = NoPath THEN @ ELSE @ \cup {task.child}]
      /\ task' = [task EXCEPT !.op = "bind"]
  BY DEF FoundObject, Linked
<1>3. /\ task'.op = "bind" /\ task'.goal = task.goal /\ task'.iface = task.iface
  BY <1>2 DEF TreeInv, TreeTypeOK
<1>4. TreeTypeOK'
  BY <1>1, <1>2 DEF TreeInv, TreeTypeOK
<1>5. TaskOK'
  BY <1>1, <1>2, <1>3 DEF TreeInv, TaskOK
<1>6. TablesOK'
  BY <1>2 DEF TreeInv, TablesOK, BoundTo
<1>7. /\ kids'[a] = IF task.child = NoPath THEN kids[a] ELSE kids[a] \cup {task.child}
      /\ \A p \in Paths \ {a} : kids'[p] = kids[p]
  BY <1>1, <1>2 DEF TreeInv, TreeTypeOK
<1>8. LinksOK'
  <2>1. ASSUME NEW p \in Paths, NEW q \in kids'[p]
        PROVE  q \in objects' \ {Root} /\ Parent[q] = p /\ p \in objects'
    <3>1. CASE q \in kids[p]
      BY <1>2, <3>1 DEF TreeInv, LinksOK
    <3>2. CASE q \notin kids[p]
      BY <1>1, <1>2, <1>7, <2>1, <3>2 DEF TreeInv, TaskOK
    <3>3. QED
      BY <3>1, <3>2
  <2>2. ASSUME NEW q \in objects' \ {Root}
        PROVE  Parent[q] \in objects' /\ q \in kids'[Parent[q]]
    <3>1. CASE q = task.child
      BY <1>1, <1>2, <1>7, <2>2, <3>1 DEF TreeInv, TaskOK, TreeTypeOK
    <3>2. CASE q # task.child
      <4>1. Parent[q] \in objects /\ q \in kids[Parent[q]]
        BY <1>1, <1>2, <2>2, <3>2 DEF TreeInv, LinksOK
      <4>2. QED
        BY <1>2, <1>7, <4>1 DEF TreeInv, TreeTypeOK
    <3>3. QED
      BY <3>1, <3>2
  <2>3. QED
    BY <2>1, <2>2 DEF LinksOK
<1>9. PurposeOK'
  <2>1. \A p \in Paths : kids[p] \subseteq kids'[p]
    BY <1>7
  <2>2. QED
    BY <1>1, <1>2, <1>3, <2>1, SMTT(20) DEF TreeInv, TreeTypeOK, PurposeOK, BoundTo
<1>10. QED
  BY <1>4, <1>5, <1>6, <1>8, <1>9 DEF TreeInv


(* DoBind: the object of the path gets its purpose, or has one already when it refuses
   the interface. *)
LEMMA DoBindKeeps ==
  ASSUME TreeInv, DoBind
  PROVE  TreeInv'
<1> PICK g, i : g = task.goal /\ i = task.iface
  OBVIOUS
<1>1. /\ g \in Paths /\ g \in objects /\ i \in Bindable /\ task.op = "bind"
  BY DEF TreeInv, TaskOK, DoBind
<1>2. objects' = objects /\ kids' = kids /\ task'.op = "none" /\ task' = NoTask
  BY DEF DoBind, NoTask
<1>3. TreeTypeOK'
  <2>1. ifs' \in [Paths -> SUBSET (Bindable \cup BuiltIn)] /\ bound' \subseteq Paths \X Bindable
    BY <1>1 DEF DoBind, TreeInv, TreeTypeOK
  <2>2. QED
    BY <1>2, <2>1 DEF TreeInv, TreeTypeOK, NoTask
<1>4. TaskOK'
  BY <1>2 DEF TaskOK
<1>5. /\ \A p \in Paths \ {g} : ifs'[p] = ifs[p] /\ BoundTo(p)' = BoundTo(p)
      /\ ifs'[g] = ifs[g] \cup {i} /\ BoundTo(g)' = BoundTo(g) \cup {i}
  <2>1. CASE i \in ifs[g]
    <3>1. i \in BoundTo(g)
      <4>1. ifs[g] = BuiltIn \cup BoundTo(g)
        BY <1>1 DEF TreeInv, TablesOK
      <4>2. i \notin BuiltIn
        BY <1>1, TreeAssumption
      <4>3. QED
        BY <2>1, <4>1, <4>2
    <3>2. QED
      BY <2>1, <3>1 DEF DoBind, BoundTo
  <2>2. CASE i \notin ifs[g]
    <3>1. ifs' = [ifs EXCEPT ![g] = @ \cup {i}] /\ bound' = bound \cup {<<g, i>>}
      BY <2>2 DEF DoBind
    <3>2. QED
      BY <1>1, <3>1 DEF TreeInv, TreeTypeOK, BoundTo
  <2>3. QED
    BY <2>1, <2>2
<1>6. TablesOK'
  <2>1. \A p \in Paths : ifs'[p] = IF p \in objects' THEN BuiltIn \cup BoundTo(p)' ELSE {}
    BY <1>1, <1>2, <1>5 DEF TreeInv, TablesOK
  <2>2. \A p \in Paths, j \in Bindable : <<p, j>> \in bound' => p \in objects'
    BY <1>1, <1>2 DEF TreeInv, TablesOK, DoBind
  <2>3. QED
    BY <2>1, <2>2 DEF TablesOK
<1>7. LinksOK'
  BY <1>1, <1>2 DEF TreeInv, LinksOK
<1>8. PurposeOK'
  <2>1. ASSUME NEW p \in objects' PROVE BoundTo(p)' # {} \/ kids'[p] # {}
    <3>1. CASE p = g
      BY <1>5, <3>1
    <3>2. CASE p # g
      BY <1>1, <1>2, <1>5, <2>1, <3>2 DEF TreeInv, PurposeOK, TreeTypeOK
    <3>3. QED
      BY <3>1, <3>2
  <2>2. QED
    BY <2>1 DEF PurposeOK
<1>9. QED
  BY <1>3, <1>4, <1>6, <1>7, <1>8 DEF TreeInv

(* adbus_conn_unbind takes the bind out of the table of its object, which is then
   the one to be checked. *)
LEMMA UnbindKeeps ==
  ASSUME TreeInv, NEW p \in Paths, NEW i \in Bindable, Unbind(p, i)
  PROVE  TreeInv'
<1>1. /\ p \in objects /\ i \notin BuiltIn /\ task.op = "none"
  BY TreeAssumption DEF TreeInv, TablesOK, Unbind
<1>2. /\ objects' = objects /\ kids' = kids
      /\ bound' = bound \ {<<p, i>>}
      /\ ifs' = [ifs EXCEPT ![p] = @ \ {i}]
      /\ task' = [NoTask EXCEPT !.op = "check", !.at = p]
  BY DEF Unbind
<1>3. task' = [op |-> "check", at |-> p, child |-> NoPath, goal |-> NoPath, iface |-> NoPath]
  BY <1>2 DEF NoTask
<1>4. TreeTypeOK'
  BY <1>2, <1>3 DEF TreeInv, TreeTypeOK
<1>5. TaskOK'
  BY <1>1, <1>2, <1>3 DEF TaskOK
<1>6. /\ \A q \in Paths \ {p} : ifs'[q] = ifs[q] /\ BoundTo(q)' = BoundTo(q)
      /\ ifs'[p] = ifs[p] \ {i} /\ BoundTo(p)' = BoundTo(p) \ {i}
  BY <1>2 DEF TreeInv, TreeTypeOK, BoundTo
<1>7. TablesOK'
  <2>1. \A q \in Paths : ifs'[q] = IF q \in objects' THEN BuiltIn \cup BoundTo(q)' ELSE {}
    BY <1>1, <1>2, <1>6 DEF TreeInv, TablesOK
  <2>2. \A q \in Paths, j \in Bindable : <<q, j>> \in bound' => q \in objects'
    BY <1>2 DEF TreeInv, TablesOK
  <2>3. QED
    BY <2>1, <2>2 DEF TablesOK
<1>8. LinksOK'
  BY <1>1, <1>2 DEF TreeInv, LinksOK
<1>9. PurposeOK'
  BY <1>1, <1>2, <1>3, <1>6 DEF TreeInv, PurposeOK, TreeTypeOK
<1>10. QED
  BY <1>4, <1>5, <1>7, <1>8, <1>9 DEF TreeInv

(* InUse of an object is what PurposeOK asks for. *)
LEMMA InUseIsPurpose ==
  ASSUME TreeInv, NEW p \in objects
  PROVE  InUse(p) <=> BoundTo(p) # {} \/ kids[p] # {}
<1>1. ifs[p] = BuiltIn \cup BoundTo(p) /\ BoundTo(p) \subseteq Bindable
  BY DEF TreeInv, TreeTypeOK, TablesOK, BoundTo
<1>2. Cardinality(ifs[p]) > 2 <=> BoundTo(p) # {}
  BY <1>1, CountTellsBinds
<1>3. QED
  BY <1>2 DEF InUse

(* CheckRemoveObject finds that the object has a purpose. *)
LEMMA KeepObjectKeeps ==
  ASSUME TreeInv, KeepObject
  PROVE  TreeInv'
<1>1. /\ task.op = "check" /\ task.at \in objects /\ InUse(task.at)
      /\ objects' = objects /\ ifs' = ifs /\ kids' = kids /\ bound' = bound
      /\ task' = NoTask /\ task'.op = "none"
  BY DEF TreeInv, TaskOK, KeepObject, NoTask
<1>2. BoundTo(task.at) # {} \/ kids[task.at] # {}
  BY <1>1, InUseIsPurpose
<1>3. TreeTypeOK'
  BY <1>1 DEF TreeInv, TreeTypeOK, NoTask
<1>4. TaskOK' /\ TablesOK' /\ LinksOK'
  BY <1>1 DEF TreeInv, TaskOK, TablesOK, BoundTo, LinksOK
<1>5. PurposeOK'
  BY <1>1, <1>2 DEF TreeInv, PurposeOK, BoundTo
<1>6. QED
  BY <1>3, <1>4, <1>5 DEF TreeInv

(* CheckRemoveObject frees an object: nothing points to it, and only its parent loses
   something. *)
LEMMA RemoveObjectKeeps ==
  ASSUME TreeInv, RemoveObject
  PROVE  TreeInv'
<1> DEFINE a == task.at
<1>1. /\ a \in Paths /\ a \in objects /\ task.op = "check" /\ ~InUse(a)
      /\ Parent \in [Paths \ {Root} -> Paths]
  BY TreeAssumption DEF TreeInv, TaskOK, TreeTypeOK, RemoveObject
<1>2. BoundTo(a) = {} /\ kids[a] = {}
  BY <1>1, InUseIsPurpose
<1>3. /\ objects' = objects \ {a} /\ bound' = bound
      /\ ifs' = [ifs EXCEPT ![a] = {}]
      /\ kids' = IF a = Root THEN kids ELSE [kids EXCEPT ![Parent[a]] = @ \ {a}]
      /\ task' = IF a = Root THEN NoTask ELSE [task EXCEPT !.at = Parent[a]]
  BY DEF RemoveObject
<1>4. a # Root => /\ Parent[a] \in objects /\ Parent[a] \in Paths /\ Parent[a] # a
                  /\ a \in kids[Parent[a]]
  BY <1>1, <1>2 DEF TreeInv, LinksOK, TreeTypeOK
<1>5. /\ a = Root => task'.op = "none"
      /\ a # Root => task'.op = "check" /\ task'.at = Parent[a]
  BY <1>1, <1>3 DEF TreeInv, TreeTypeOK, NoTask
<1>6. TreeTypeOK'
  <2>1. /\ objects' \subseteq Paths /\ bound' \subseteq Paths \X Bindable
        /\ ifs' \in [Paths -> SUBSET (Bindable \cup BuiltIn)]
    BY <1>1, <1>3 DEF TreeInv, TreeTypeOK
  <2>2. CASE a = Root
    BY <1>3, <2>1, <2>2 DEF TreeInv, TreeTypeOK, NoTask
  <2>3. CASE a # Root
    BY <1>3, <1>4, <2>1, <2>3 DEF TreeInv, TreeTypeOK
  <2>4. QED
    BY <2>2, <2>3
<1>7. TaskOK'
  BY <1>3, <1>4, <1>5 DEF TaskOK
<1>8. TablesOK'
  <2>1. \A p \in Paths : BoundTo(p)' = BoundTo(p)
    BY <1>3 DEF BoundTo
  <2>2. \A p \in Paths : ifs'[p] = IF p = a THEN {} ELSE ifs[p]
    BY <1>3 DEF TreeInv, TreeTypeOK
  <2>3. \A p \in Paths, j \in Bindable : <<p, j>> \in bound' => p \in objects'
    BY <1>2, <1>3 DEF TreeInv, TablesOK, BoundTo
  <2>4. \A p \in Paths : ifs'[p] = IF p \in objects' THEN BuiltIn \cup BoundTo(p)' ELSE {}
    BY <1>3, <2>1, <2>2 DEF TreeInv, TablesOK
  <2>5. QED
    BY <2>3, <2>4 DEF TablesOK
<1>9. \A p \in Paths : kids'[p] = kids[p] \ {a}
  <2>1. CASE a = Root
    BY <1>3, <2>1 DEF TreeInv, LinksOK
  <2>2. CASE a # Root
    <3>1. \A p \in Paths : a \in kids[p] => p = Parent[a]
      BY DEF TreeInv, LinksOK
    <3>2. kids' = [kids EXCEPT ![Parent[a]] = @ \ {a}]
      BY <1>3, <2>2
    <3>3. QED
      BY <1>4, <2>2, <3>1, <3>2 DEF TreeInv, TreeTypeOK
  <2>3. QED
    BY <2>1, <2>2
<1>10. LinksOK'
  <2>1. ASSUME NEW p \in Paths, NEW q \in kids'[p]
        PROVE  q \in objects' \ {Root} /\ Parent[q] = p /\ p \in objects'
    BY <1>2, <1>3, <1>9, <2>1 DEF TreeInv, LinksOK
  <2>2. ASSUME NEW q \in objects' \ {Root}
        PROVE  Parent[q] \in objects' /\ q \in kids'[Parent[q]]
    <3>1. /\ q # a /\ Parent[q] \in objects /\ q \in kids[Parent[q]]
      BY <1>1, <1>3, <2>2 DEF TreeInv, LinksOK
    <3>2. Parent[q] # a /\ Parent[q] \in Paths
      BY <1>2, <3>1 DEF TreeInv, TreeTypeOK
    <3>3. QED
      BY <1>3, <1>9, <3>1, <3>2
  <2>3. QED
    BY <2>1, <2>2 DEF LinksOK
<1>11. PurposeOK'
  <2>1. ASSUME NEW p \in objects'
        PROVE  \/ BoundTo(p)' # {} \/ kids'[p] # {}
               \/ task'.op = "check" /\ p = task'.at
    <3>1. p \in objects /\ p # a /\ p \in Paths /\ BoundTo(p)' = BoundTo(p)
      BY <1>3, <2>1 DEF TreeInv, TreeTypeOK, BoundTo
    <3>2. BoundTo(p) # {} \/ kids[p] # {}
      BY <1>1, <3>1 DEF TreeInv, PurposeOK
    <3>3. CASE a \in kids[p]
      BY <1>5, <3>1, <3>3 DEF TreeInv, LinksOK
    <3>4. CASE a \notin kids[p]
      BY <1>9, <3>1, <3>2, <3>4
    <3>5. QED
      BY <3>3, <3>4
  <2>2. QED
    BY <2>1 DEF PurposeOK
<1>12. QED
  BY <1>6, <1>7, <1>8, <1>10, <1>11 DEF TreeInv

(* Every step of adbus_conn_bind and adbus_conn_unbind keeps the invariant. *)
LEMMA TreeInvNext == TreeInv /\ [TreeNext]_treeVars => TreeInv'
<1> SUFFICES ASSUME TreeInv, [TreeNext]_treeVars PROVE TreeInv'
  OBVIOUS
<1>1. CASE UNCHANGED treeVars
  <2>1. /\ objects' = objects /\ ifs' = ifs /\ kids' = kids /\ bound' = bound
        /\ task' = task
    BY <1>1 DEF treeVars
  <2>2. TreeTypeOK' /\ TaskOK'
    BY <2>1 DEF TreeInv, TreeTypeOK, TaskOK
  <2>3. TablesOK' /\ LinksOK' /\ PurposeOK'
    BY <2>1 DEF TreeInv, TablesOK, BoundTo, LinksOK, PurposeOK
  <2>4. QED
    BY <2>2, <2>3 DEF TreeInv
<1>2. CASE TreeStep
  BY <1>2, GetObjectKeeps, FoundObjectKeeps, DoBindKeeps, KeepObjectKeeps,
     RemoveObjectKeeps DEF TreeStep
<1>3. CASE \E p \in Paths, i \in Bindable : BeginBind(p, i) \/ Unbind(p, i)
  BY <1>3, BeginBindKeeps, UnbindKeeps
<1>4. QED
  BY <1>1, <1>2, <1>3 DEF TreeNext

(* Between two operations nothing of the slack of the invariant is left. *)
LEMMA TreeInvSound == TreeInv => TreeSound
<1> SUFFICES ASSUME TreeInv PROVE TreeSound
  OBVIOUS
<1>1. TreeTypeOK
  BY DEF TreeInv
<1>2. BindsAttached
  <2>1. ASSUME NEW b \in bound PROVE b[1] \in objects
    <3>1. PICK p \in Paths, i \in Bindable : b = <<p, i>>
      BY <1>1, <2>1 DEF TreeTypeOK
    <3>2. QED
      BY <2>1, <3>1 DEF TreeInv, TablesOK
  <2>2. \A p \in Paths, i \in Bindable : i \in ifs[p] <=> <<p, i>> \in bound
    BY TreeAssumption DEF TreeInv, TablesOK, BoundTo
  <2>3. QED
    BY <2>1, <2>2 DEF BindsAttached
<1>3. TreeLinked
  BY DEF TreeInv, LinksOK, TreeLinked, TreeTypeOK
<1>4. NothingEmpty
  BY DEF TreeInv, PurposeOK, NothingEmpty, BoundTo
<1>5. QED
  BY <1>1, <1>2, <1>3, <1>4 DEF TreeSound

(* The object tree of bind.c is sound for every set of paths and interfaces: no bind
   points to a freed object, parents and children know each other, and no object stays
   that nothing is bound to or below. *)
THEOREM TreeIsSound == TreeSpec => []TreeSound
<1>1. TreeSpec => []TreeInv
  BY TreeInvInit, TreeInvNext, PTL DEF TreeSpec
<1>2. QED
  BY <1>1, TreeInvSound, PTL

-----------------------------------------------------------------------------
(* Browsing: K[n] is what a browser has seen after n steps.  Paths are as deep as they are
   long, so what is said about the browsers is shown for one depth after the other. *)

(* No path is deeper. *)
Longest == Cardinality(Paths)

(* There is at least the root. *)
LEMMA LongestIsNumber == Longest \in Nat /\ Longest # 0
<1>1. Longest \in Nat
  BY DepthAssumption, FS_CardinalityType DEF Longest
<1>2. Longest # 0
  BY DepthAssumption, TreeAssumption, FS_EmptySet DEF Longest
<1> QED BY <1>1, <1>2

(* K[n]: the objects that a browser has seen n steps after it began at p. *)
Browses(K, p) ==
  /\ K[0] = {p} \cap objects
  /\ \A n \in 1..Longest : K[n] = K[n - 1] \cup UNION {kids[q] : q \in K[n - 1]}

(* The recursion of FoundFrom: the function that it defines exists. *)
LEMMA FoundUnfolds ==
  ASSUME TreeTypeOK, NEW p \in Paths
  PROVE  \E K : Browses(K, p) /\ FoundFrom(p) = K[Longest]
<1> DEFINE Step(g, i) == IF i = 0 THEN {p} \cap objects
                         ELSE g[i - 1] \cup UNION {Introspect(q).nodes : q \in g[i - 1]}
           Fits(g) == g = [i \in 0..Cardinality(Paths) |-> Step(g, i)]
           G == CHOOSE g : Fits(g)
<1>1. FoundFrom(p) = G[Cardinality(Paths)]
  BY Zenon DEF FoundFrom
<1>2. \A X : UNION {Introspect(q).nodes : q \in X} = UNION {kids[q] : q \in X}
  BY DEF Introspect
<1>3. \E g : Fits(g)
  <2> DEFINE T == SUBSET Paths
             widen == [X \in T |-> X \cup UNION {kids[q] : q \in X}]
             F == [i \in 1..Longest |-> widen]
             first == {p} \cap objects
  <2>1. first \in T
    BY DEF TreeTypeOK
  <2>2. widen \in [T -> T]
    BY DEF TreeTypeOK
  <2>3. F \in [1..Longest -> [T -> T]]
    <3> HIDE DEF widen, T
    <3> QED BY <2>2
  <2>4. \A i \in 1..Longest, X \in T : F[i][X] = X \cup UNION {kids[q] : q \in X}
    OBVIOUS
  <2> HIDE DEF F, T, first, widen
  <2>5. \E K \in [0..Longest -> T] : K[0] = first /\ \A i \in 1..Longest : K[i] = F[i][K[i - 1]]
    BY <2>1, <2>3, LongestIsNumber, RecursionExists, SMTT(30)
  <2>6. PICK K \in [0..Longest -> T] : K[0] = first /\ \A i \in 1..Longest : K[i] = F[i][K[i - 1]]
    BY <2>5
  <2>7. \A i \in 0..Longest : K[i] = Step(K, i)
    <3> TAKE i \in 0..Longest
    <3>1. CASE i = 0
      BY <2>6, <3>1 DEF first
    <3>2. CASE i # 0
      <4>1. i \in 1..Longest /\ i - 1 \in 0..Longest
        BY <3>2, LongestIsNumber
      <4>2. K[i] = F[i][K[i - 1]] /\ K[i - 1] \in T
        BY <2>6, <4>1
      <4>3. F[i][K[i - 1]] = K[i - 1] \cup UNION {kids[q] : q \in K[i - 1]}
        BY <2>4, <4>1, <4>2
      <4>4. UNION {Introspect(q).nodes : q \in K[i - 1]} = UNION {kids[q] : q \in K[i - 1]}
        BY <1>2
      <4> QED BY <3>2, <4>2, <4>3, <4>4
    <3> QED BY <3>1, <3>2
  <2>8. K = [i \in 0..Longest |-> K[i]]
    BY <2>6
  <2> HIDE DEF Step
  <2>9. K = [i \in 0..Longest |-> Step(K, i)]
    BY <2>7, <2>8
  <2> QED BY <2>9 DEF Longest
<1>4. Fits(G)
  BY <1>3
<1> HIDE DEF G
<1>5. \A i \in 0..Longest : G[i] = Step(G, i)
  <2> HIDE DEF Step
  <2> QED BY <1>4 DEF Longest
<1>6. Browses(G, p)
  <2>0. 0 \in 0..Longest
    BY LongestIsNumber
  <2>1. G[0] = {p} \cap objects
    <3>1. G[0] = Step(G, 0)
      <4> HIDE DEF Step
      <4> QED BY <1>5, <2>0
    <3> QED BY <3>1
  <2>2. ASSUME NEW n \in 1..Longest
        PROVE  G[n] = G[n - 1] \cup UNION {kids[q] : q \in G[n - 1]}
    <3>1. n \in 0..Longest /\ n # 0
      BY LongestIsNumber
    <3>2. G[n] = G[n - 1] \cup UNION {Introspect(q).nodes : q \in G[n - 1]}
      BY <1>5, <3>1
    <3>3. UNION {Introspect(q).nodes : q \in G[n - 1]} = UNION {kids[q] : q \in G[n - 1]}
      BY <1>2
    <3> QED BY <3>2, <3>3
  <2> QED BY <2>1, <2>2 DEF Browses
<1> QED BY <1>1, <1>6 DEF Longest

(* One browser for each path. *)
LEMMA Browsers ==
  ASSUME TreeTypeOK
  PROVE  \E R : \A p \in Paths : Browses(R[p], p) /\ FoundFrom(p) = R[p][Longest]
<1> DEFINE Is(K, p) == Browses(K, p) /\ FoundFrom(p) = K[Longest]
           R == [p \in Paths |-> CHOOSE K : Is(K, p)]
<1>1. ASSUME NEW p \in Paths PROVE Is(R[p], p)
  <2>1. \E K : Is(K, p)
    BY FoundUnfolds
  <2> HIDE DEF Is
  <2> QED BY <2>1
<1> HIDE DEF R
<1> QED BY <1>1

(* What a browser has seen it does not forget, and it sees objects only. *)
LEMMA BrowserFacts ==
  ASSUME TreeInv, NEW K, NEW p \in Paths, Browses(K, p)
  PROVE  /\ \A k, m \in 0..Longest : k <= m => K[k] \subseteq K[m]
         /\ \A k \in 0..Longest : K[k] \subseteq objects
<1>1. \A k \in 1..Longest : K[k] = K[k - 1] \cup UNION {kids[q] : q \in K[k - 1]}
  BY DEF Browses
<1>2. \A k \in 0..Longest : K[k] \subseteq objects
  <2> DEFINE Good == {k \in Nat : K[k] \subseteq objects}
  <2>1. Good \in SUBSET Nat /\ 0 \in Good
    BY DEF Browses
  <2>2. ASSUME NEW k \in 1..Longest, k - 1 \in Good PROVE k \in Good
    <3>1. K[k - 1] \subseteq objects /\ k \in Nat
      BY <2>2
    <3>2. \A q \in K[k - 1] : q \in Paths /\ kids[q] \subseteq objects
      BY <3>1 DEF TreeInv, TreeTypeOK, LinksOK
    <3> QED BY <1>1, <3>1, <3>2
  <2>3. \A k \in 1..Longest : k - 1 \in Good => k \in Good
    BY <2>2
  <2> HIDE DEF Good
  <2>4. \A k \in 0..Longest : k \in Good
    BY <2>1, <2>3, LongestIsNumber, UpTo
  <2> QED BY <2>4 DEF Good
<1>3. \A m \in 0..Longest : \A k \in 0..m : K[k] \subseteq K[m]
  <2> DEFINE Good == {m \in Nat : \A k \in 0..m : K[k] \subseteq K[m]}
  <2>1. Good \in SUBSET Nat /\ 0 \in Good
    OBVIOUS
  <2>2. ASSUME NEW m \in 1..Longest, m - 1 \in Good PROVE m \in Good
    <3>1. \A k \in 0..(m - 1) : K[k] \subseteq K[m - 1]
      BY <2>2
    <3>2. K[m - 1] \subseteq K[m]
      BY <1>1
    <3>3. \A k \in 0..m : k = m \/ k \in 0..(m - 1)
      OBVIOUS
    <3>4. \A k \in 0..m : K[k] \subseteq K[m]
      BY <3>1, <3>2, <3>3
    <3> QED BY <3>4
  <2>3. \A m \in 1..Longest : m - 1 \in Good => m \in Good
    BY <2>2
  <2> HIDE DEF Good
  <2>4. \A m \in 0..Longest : m \in Good
    BY <2>1, <2>3, LongestIsNumber, UpTo
  <2> QED BY <2>4 DEF Good
<1> QED BY <1>2, <1>3, LongestIsNumber

(* A browser that begins at p is one step behind the one that begins at a child of p. *)
LEMMA OneStepBehind ==
  ASSUME TreeInv, NEW K, NEW L, NEW p \in objects, NEW q \in kids[p],
         Browses(K, p), Browses(L, q)
  PROVE  \A k \in 1..Longest : L[k - 1] \subseteq K[k]
<1> DEFINE Good == {k \in Nat : k \in 1..Longest => L[k - 1] \subseteq K[k]}
<1>1. /\ K[0] = {p} /\ L[0] \subseteq {q}
      /\ \A k \in 1..Longest : K[k] = K[k - 1] \cup UNION {kids[r] : r \in K[k - 1]}
      /\ \A k \in 1..Longest : L[k] = L[k - 1] \cup UNION {kids[r] : r \in L[k - 1]}
  BY DEF Browses
<1>2. Good \in SUBSET Nat /\ 0 \in Good
  OBVIOUS
<1>3. ASSUME NEW k \in 1..Longest, k - 1 \in Good PROVE k \in Good
  <2>1. CASE k = 1
    <3>1. 1 - 1 = 0 /\ 1 \in 1..Longest
      BY <2>1, LongestIsNumber
    <3>2. K[1] = K[0] \cup UNION {kids[r] : r \in K[0]}
      BY <1>1, <3>1
    <3>3. L[0] \subseteq K[1]
      BY <1>1, <3>2
    <3> QED BY <2>1, <3>1, <3>3
  <2>2. CASE k # 1
    <3>1. k - 1 \in 1..Longest /\ k \in Nat
      BY <2>2, LongestIsNumber
    <3>2. L[(k - 1) - 1] \subseteq K[k - 1]
      BY <1>3, <3>1
    <3>3. K[k] = K[k - 1] \cup UNION {kids[r] : r \in K[k - 1]}
      BY <1>1
    <3>4. L[k - 1] = L[(k - 1) - 1] \cup UNION {kids[r] : r \in L[(k - 1) - 1]}
      BY <1>1, <3>1
    <3>5. L[k - 1] \subseteq K[k]
      BY <3>2, <3>3, <3>4, Zenon
    <3> QED BY <3>1, <3>5
  <2> QED BY <2>1, <2>2
<1>4. \A k \in 1..Longest : k - 1 \in Good => k \in Good
  BY <1>3
<1>5. \A k \in 0..Longest : k \in Good
  <2> HIDE DEF Good
  <2> QED BY <1>2, <1>4, LongestIsNumber, UpTo
<1> QED BY <1>5

(* How many steps a path is away from the root. *)
IsDepth(depth) ==
  /\ depth \in [Paths -> 0..(Longest - 1)]
  /\ depth[Root] = 0
  /\ \A p \in Paths \ {Root} : depth[p] = depth[Parent[p]] + 1

(* An object is found from the root in as many steps as it is deep. *)
LEMMA FoundFromRoot ==
  ASSUME TreeInv, task.op = "none", NEW depth, IsDepth(depth),
         NEW K, Browses(K, Root), NEW o \in objects
  PROVE  o \in K[depth[o]]
<1> DEFINE Good == {k \in Nat : \A p \in objects : depth[p] = k => p \in K[k]}
<1>0. objects \subseteq Paths /\ Root \in Paths
  BY TreeAssumption DEF TreeInv, TreeTypeOK
<1>1. /\ \A p \in objects : depth[p] \in 0..(Longest - 1)
      /\ \A p \in objects \ {Root} : /\ Parent[p] \in objects /\ p \in kids[Parent[p]]
                                     /\ depth[p] = depth[Parent[p]] + 1
  <2>1. \A p \in objects : depth[p] \in 0..(Longest - 1)
    BY <1>0 DEF IsDepth
  <2>2. \A p \in objects \ {Root} : Parent[p] \in objects /\ p \in kids[Parent[p]]
    BY DEF TreeInv, LinksOK
  <2>3. \A p \in objects \ {Root} : depth[p] = depth[Parent[p]] + 1
    BY <1>0 DEF IsDepth
  <2> QED BY <2>1, <2>2, <2>3
<1>2. 0 \in Good
  <2>1. ASSUME NEW p \in objects, depth[p] = 0 PROVE p \in K[0]
    <3>1. p = Root
      <4>1. CASE p # Root
        <5>1. depth[p] = depth[Parent[p]] + 1 /\ depth[Parent[p]] \in 0..(Longest - 1)
          BY <1>1, <4>1
        <5> QED BY <2>1, <5>1, LongestIsNumber
      <4> QED BY <4>1
    <3> QED BY <2>1, <3>1 DEF Browses
  <2> QED BY <2>1
<1>3. ASSUME NEW k \in 1..Longest, k - 1 \in Good PROVE k \in Good
  <2>1. ASSUME NEW p \in objects, depth[p] = k PROVE p \in K[k]
    <3>1. p # Root
      BY <2>1 DEF IsDepth
    <3>2. depth[Parent[p]] = k - 1
      <4>1. depth[p] = depth[Parent[p]] + 1 /\ depth[Parent[p]] \in 0..(Longest - 1)
        BY <1>1, <3>1
      <4> QED BY <2>1, <4>1, LongestIsNumber
    <3>3. Parent[p] \in K[k - 1] /\ p \in kids[Parent[p]]
      BY <1>1, <1>3, <3>1, <3>2
    <3>4. K[k] = K[k - 1] \cup UNION {kids[q] : q \in K[k - 1]}
      BY DEF Browses
    <3> QED BY <3>3, <3>4
  <2> QED BY <2>1
<1>4. \A k \in 0..Longest : k \in Good
  <2>1. Good \in SUBSET Nat /\ \A k \in 1..Longest : k - 1 \in Good => k \in Good
    BY <1>3
  <2> HIDE DEF Good
  <2> QED BY <1>2, <2>1, LongestIsNumber, UpTo
<1>5. depth[o] \in 0..Longest
  BY <1>1, LongestIsNumber
<1> QED BY <1>4, <1>5

(* From every object a bound one is found: the deepest objects are bound, and what has no
   bind has a child. *)
LEMMA BoundBelow ==
  ASSUME TreeInv, task.op = "none", NEW depth, IsDepth(depth),
         NEW R, \A p \in Paths : Browses(R[p], p), NEW o \in objects
  PROVE  \E k \in 0..Longest : \E b \in bound : b[1] \in R[o][k]
<1> DEFINE Leads(p, k) == \E b \in bound : b[1] \in R[p][k]
           Good == {k \in Nat : \A p \in objects : depth[p] >= Longest - 1 - k => Leads(p, k)}
<1>0. objects \subseteq Paths
  BY DEF TreeInv, TreeTypeOK
<1>1. \A p \in objects : depth[p] \in 0..(Longest - 1)
  BY <1>0 DEF IsDepth
<1>2. ASSUME NEW p \in objects
      PROVE  (\E b \in bound : b[1] = p) \/ \E q \in kids[p] : TRUE
  <2>1. BoundTo(p) # {} \/ kids[p] # {}
    BY DEF TreeInv, PurposeOK
  <2>2. CASE BoundTo(p) # {}
    <3>1. PICK i \in Bindable : <<p, i>> \in bound
      BY <2>2 DEF BoundTo
    <3> QED BY <3>1
  <2> QED BY <2>1, <2>2
<1>3. ASSUME NEW p \in objects, NEW q \in kids[p]
      PROVE  q \in objects /\ depth[q] = depth[p] + 1
  <2>1. q \in objects \ {Root} /\ Parent[q] = p
    BY <1>0 DEF TreeInv, LinksOK
  <2> QED BY <1>0, <2>1 DEF IsDepth
<1>4. ASSUME NEW p \in objects, NEW k \in 0..Longest, \E b \in bound : b[1] = p
      PROVE  Leads(p, k)
  <2>1. Browses(R[p], p) /\ p \in Paths
    BY <1>0
  <2>2. p \in R[p][0]
    BY <2>1 DEF Browses
  <2>3. R[p][0] \subseteq R[p][k]
    BY <2>1, BrowserFacts, LongestIsNumber
  <2> QED BY <1>4, <2>2, <2>3
<1>5. ASSUME NEW p \in objects, NEW q \in kids[p], NEW k \in 1..Longest, Leads(q, k - 1)
      PROVE  Leads(p, k)
  <2>1. Browses(R[p], p) /\ Browses(R[q], q)
    BY <1>0, <1>3
  <2>2. R[q][k - 1] \subseteq R[p][k]
    BY <2>1, OneStepBehind
  <2> QED BY <1>5, <2>2
<1> HIDE DEF Leads
<1>6. 0 \in Good
  <2>1. ASSUME NEW p \in objects, depth[p] >= Longest - 1 - 0 PROVE Leads(p, 0)
    <3>1. CASE \E b \in bound : b[1] = p
      BY <1>4, <3>1, LongestIsNumber
    <3>2. ASSUME NEW q \in kids[p] PROVE FALSE
      <4>1. depth[q] = depth[p] + 1 /\ depth[q] \in 0..(Longest - 1) /\ depth[p] \in 0..(Longest - 1)
        BY <1>1, <1>3
      <4> QED BY <2>1, <4>1, LongestIsNumber
    <3> QED BY <1>2, <3>1, <3>2
  <2> QED BY <2>1
<1>7. ASSUME NEW k \in 1..Longest, k - 1 \in Good PROVE k \in Good
  <2>1. ASSUME NEW p \in objects, depth[p] >= Longest - 1 - k PROVE Leads(p, k)
    <3>1. CASE \E b \in bound : b[1] = p
      BY <1>4, <3>1, LongestIsNumber
    <3>2. ASSUME NEW q \in kids[p] PROVE Leads(p, k)
      <4>1. q \in objects /\ depth[q] = depth[p] + 1 /\ depth[p] \in 0..(Longest - 1)
        BY <1>1, <1>3
      <4>2. depth[q] >= Longest - 1 - (k - 1)
        BY <2>1, <4>1, LongestIsNumber
      <4>3. Leads(q, k - 1)
        BY <1>7, <4>1, <4>2
      <4> QED BY <1>5, <4>3
    <3> QED BY <1>2, <3>1, <3>2
  <2> QED BY <2>1
<1>8. \A k \in 0..Longest : k \in Good
  <2>1. Good \in SUBSET Nat /\ \A k \in 1..Longest : k - 1 \in Good => k \in Good
    BY <1>7
  <2> HIDE DEF Good
  <2> QED BY <1>6, <2>1, LongestIsNumber, UpTo
<1>9. Longest \in Good /\ Longest \in 0..Longest
  BY <1>8, LongestIsNumber
<1>10. depth[o] >= Longest - 1 - Longest
  BY <1>1, LongestIsNumber
<1>11. Leads(o, Longest)
  BY <1>9, <1>10
<1> QED BY <1>9, <1>11 DEF Leads

(* Between two operations the whole tree can be browsed. *)
LEMMA TreeInvDiscoverable == TreeInv => Discoverable
<1> SUFFICES ASSUME TreeInv, task.op = "none" PROVE Discoverable
  BY DEF Discoverable
<1> DEFINE Objects == {b[1] : b \in bound}
<1>1. PICK depth : IsDepth(depth)
  BY DepthAssumption DEF IsDepth, Longest
<1>2. PICK R : \A p \in Paths : Browses(R[p], p) /\ FoundFrom(p) = R[p][Longest]
  BY Browsers DEF TreeInv
<1>3. Root \in Paths /\ objects \subseteq Paths
  BY TreeAssumption DEF TreeInv, TreeTypeOK
<1>4. Objects \subseteq objects
  BY TreeInvSound DEF TreeSound, BindsAttached
<1>5. \A p \in Paths, k \in 0..Longest : R[p][k] \subseteq FoundFrom(p)
  BY <1>2, BrowserFacts, LongestIsNumber
<1>6. Objects \subseteq FoundFrom(Root)
  <2>1. ASSUME NEW o \in objects PROVE o \in FoundFrom(Root)
    <3>1. o \in R[Root][depth[o]]
      BY <1>1, <1>2, <1>3, FoundFromRoot
    <3>2. depth[o] \in 0..Longest
      BY <1>1, <1>3, LongestIsNumber DEF IsDepth
    <3> QED BY <1>3, <1>5, <3>1, <3>2
  <2> QED BY <1>4, <2>1
<1>7. ASSUME NEW p \in FoundFrom(Root) PROVE FoundFrom(p) \cap Objects # {}
  <2>1. p \in objects
    BY <1>2, <1>3, BrowserFacts, LongestIsNumber
  <2>2. PICK k \in 0..Longest, b \in bound : b[1] \in R[p][k]
    BY <1>1, <1>2, <2>1, BoundBelow
  <2>3. b[1] \in FoundFrom(p)
    BY <1>3, <1>5, <2>1, <2>2
  <2> QED BY <2>3
<1> QED BY <1>6, <1>7 DEF Discoverable

(* Introspection shows the tree of bind.c whole, for every set of paths: between two
   operations a browser that begins at the root finds every path that has an interface
   bound, and every node that it is shown leads to one. *)
THEOREM EveryObjectIsFound == TreeSpec => []Discoverable
<1>1. TreeSpec => []TreeInv
  BY TreeInvInit, TreeInvNext, PTL DEF TreeSpec
<1>2. QED
  BY <1>1, TreeInvDiscoverable, PTL

-----------------------------------------------------------------------------
(* Sending: the inductive invariant *)

(* Serials are numbered around a circle of this length. *)
Circle == MaxSerial - 1

(* The serial that is taken next on c. *)
Coming == [c \in Conns |-> SerialFrom(nextSerial[c])]

Replies ==
  [conn : Conns, serial : 1..Circle, remote : Remotes \cup {Bus}, age : 0..(Circle - 1)]

Fields == {"destination", "member", "interface"} \cup UNION UserFields
Factories ==
  [type : {Nothing, "method", "return", "error", "signal"}, serial : Int,
   path : ObjectPaths \cup {Nothing, BusPath}, dest : Remotes \cup {Bus, Nothing},
   fields : SUBSET Fields, noreply : BOOLEAN]

SendTypes ==
  /\ nextSerial \in [Conns -> 1..MaxSerial]
  /\ factories \in [{"proxy", "signal", "user"} -> Factories]
  /\ open \subseteq Replies
  /\ emitters \in Seq([conn : Conns, path : ObjectPaths]) /\ Len(emitters) <= MaxEmitters
  /\ link \in [Conns -> {"new", "asked", "connected"}]

(* The proxy has a path and a service when it has a connection. *)
ProxySound ==
  /\ proxy = [conn |-> proxy.conn, service |-> proxy.service, path |-> proxy.path,
              iface |-> proxy.iface, kind |-> proxy.kind]
  /\ proxy.iface => proxy.conn # Nothing
  /\ proxy.conn # Nothing =>
       proxy.conn \in Conns /\ proxy.service \in Remotes /\ proxy.path \in ObjectPaths

(* The age of a reply is how far its serial lies behind, around the circle. *)
Behind(r, at) == r.serial + r.age + 1 \in {at, at + Circle}

(* The replies rs go with the serials next: each is where its age says, no two have the
   same age, and one at most waits for Hello. *)
RepliesFit(rs, next) ==
  /\ rs \subseteq Replies
  /\ \A r \in rs : Behind(r, SerialFrom(next[r.conn]))
  /\ \A q, r \in rs : q.conn = r.conn /\ q.age = r.age => q = r
  /\ \A q, r \in rs : q.conn = r.conn /\ q.remote = Bus /\ r.remote = Bus => q = r

HelloFits(rs, lk) ==
  \A c \in Conns : lk[c] = "asked" <=> \E r \in rs : r.conn = c /\ r.remote = Bus

(* A call that is set up has taken the last serial of its connection. *)
CallSound ==
  step = "call" =>
    LET m == factories["proxy"]
    IN  /\ proxy.conn # Nothing /\ sent = <<>>
        /\ m.type = "method" /\ "member" \in m.fields /\ m.path = proxy.path
        /\ m.dest = proxy.service
        /\ m.serial \in 1..Circle /\ nextSerial[proxy.conn] = m.serial + 1
        /\ \A r \in open : r.conn = proxy.conn => r.age > 0

UserSound == factories["user"].fields = {}

(* What the last step has sent. *)
SentApart ==
  \A i \in DOMAIN sent, r \in open :
    r.conn = sent[i].conn /\ r.serial = sent[i].msg.serial => sent[i].by = "proxy" /\ r.age = 0
SentSound == WireComplete /\ SentApart /\ CallRegistered /\ EmissionsDistinct

SendInv ==
  /\ SendTypes /\ ProxySound /\ RepliesFit(open, nextSerial) /\ HelloFits(open, link)
  /\ CallSound /\ UserSound /\ SentSound

-----------------------------------------------------------------------------
(* Serials *)

(* Going n serials further. *)
LEMMA Circular ==
  ASSUME NEW s \in 1..Circle, NEW n \in 0..(Circle - 1)
  PROVE  LET next == IF s + n <= MaxSerial THEN s + n ELSE s + n - Circle
             at == SerialFrom(next)
         IN  /\ next \in 1..MaxSerial /\ at \in 1..Circle
             /\ at \in {s + n, s + n - Circle}
             /\ next # MaxSerial => at = next
BY OutgoingAssumption DEF Circle, SerialFrom

(* The place of a reply after n more serials have been taken. *)
LEMMA StaysBehind ==
  ASSUME NEW s \in 1..Circle, NEW a \in Nat, NEW n \in Nat, a + n <= Circle - 1,
         NEW x \in 1..Circle, x + a + 1 \in {s, s + Circle},
         NEW at \in 1..Circle, at \in {s + n, s + n - Circle}
  PROVE  /\ x + (a + n) + 1 \in {at, at + Circle}
         /\ \A k \in 0..(n - 1), t \in 1..Circle : t \in {s + k, s + k - Circle} => x # t
<1>1. Circle \in Nat /\ Circle > 2
  BY OutgoingAssumption DEF Circle
<1>2. x + (a + n) + 1 \in {at, at + Circle}
  BY <1>1
<1>3. ASSUME NEW k \in 0..(n - 1), NEW t \in 1..Circle, t \in {s + k, s + k - Circle}
      PROVE  x # t
  BY <1>1, <1>3
<1> QED BY <1>2, <1>3

LEMMA ComingFacts ==
  ASSUME SendTypes
  PROVE  /\ \A c \in Conns : /\ nextSerial[c] \in 1..MaxSerial /\ Coming[c] \in 1..Circle
                             /\ Coming[c] = SerialFrom(nextSerial[c])
         /\ Circle \in Nat /\ Circle > 2 /\ MaxSerial = Circle + 1
<1>1. Circle \in Nat /\ Circle > 2 /\ MaxSerial = Circle + 1
  BY OutgoingAssumption DEF Circle
<1>2. \A c \in Conns : nextSerial[c] \in 1..MaxSerial /\ Coming[c] = SerialFrom(nextSerial[c])
  BY DEF SendTypes, Coming
<1>3. \A n \in 1..MaxSerial : SerialFrom(n) \in 1..Circle
  BY <1>1 DEF SerialFrom
<1> QED BY <1>1, <1>2, <1>3

(* No two that wait on a connection have one serial, and Hello is asked once. *)
LEMMA FitsMeans ==
  ASSUME NEW rs, NEW next \in [Conns -> 1..MaxSerial], RepliesFit(rs, next),
         NEW lk \in [Conns -> {"new", "asked", "connected"}], HelloFits(rs, lk)
  PROVE  /\ \A q, r \in rs : q.conn = r.conn /\ q.serial = r.serial => q = r
         /\ \A c \in Conns :
              LET hello == {r \in rs : r.conn = c /\ r.remote = Bus}
              IN  /\ lk[c] = "asked" <=> hello # {}
                  /\ Cardinality(hello) <= 1
                  /\ lk[c] = "connected" => hello = {}
<1>1. ASSUME NEW q \in rs, NEW r \in rs, q.conn = r.conn, q.serial = r.serial PROVE q = r
  <2>1. q \in Replies /\ r \in Replies
    BY DEF RepliesFit
  <2>2. /\ q.age \in 0..(Circle - 1) /\ r.age \in 0..(Circle - 1)
        /\ q.serial \in 1..Circle /\ r.serial \in 1..Circle /\ r.conn \in Conns
    BY <2>1 DEF Replies
  <2> DEFINE at == SerialFrom(next[r.conn])
  <2>3. q.serial + q.age + 1 \in {at, at + Circle} /\ r.serial + r.age + 1 \in {at, at + Circle}
    BY <1>1 DEF RepliesFit, Behind
  <2>4. Circle \in Nat /\ MaxSerial = Circle + 1 /\ Circle > 2
    BY OutgoingAssumption DEF Circle
  <2>5. at \in Int
    <3>1. next[r.conn] \in 1..MaxSerial
      BY <2>2
    <3> QED BY <2>4, <3>1 DEF SerialFrom
  <2> HIDE DEF at
  <2>6. q.age = r.age
    BY <1>1, <2>2, <2>3, <2>4, <2>5
  <2> QED BY <1>1, <2>6 DEF RepliesFit
<1>2. ASSUME NEW c \in Conns
      PROVE  LET hello == {r \in rs : r.conn = c /\ r.remote = Bus}
             IN  /\ lk[c] = "asked" <=> hello # {}
                 /\ Cardinality(hello) <= 1
                 /\ lk[c] = "connected" => hello = {}
  <2> DEFINE hello == {r \in rs : r.conn = c /\ r.remote = Bus}
  <2>1. lk[c] = "asked" <=> hello # {}
    BY DEF HelloFits
  <2>2. \A q, r \in hello : q = r
    BY DEF RepliesFit
  <2> HIDE DEF hello
  <2>3. ASSUME NEW x \in hello PROVE hello = {x}
    BY <2>2, <2>3
  <2>4. Cardinality(hello) <= 1
    <3>1. CASE hello = {}
      BY <3>1, FS_EmptySet
    <3>2. CASE hello # {}
      <4>1. PICK x \in hello : TRUE
        BY <3>2
      <4>2. Cardinality({x}) = 1
        BY FS_Singleton
      <4> QED BY <2>3, <4>2
    <3> QED BY <3>1, <3>2
  <2> QED BY <2>1, <2>4 DEF hello
<1> QED BY <1>1, <1>2

(* The replies when n[c] serials have been taken on each connection c. *)
Aged(n) == {[r EXCEPT !.age = @ + n[r.conn]] : r \in open}

LEMMA AgedFit ==
  ASSUME SendTypes, RepliesFit(open, nextSerial), NEW n \in [Conns -> Nat],
         \A r \in open : r.age + n[r.conn] <= Circle - 1,
         NEW next \in [Conns -> 1..MaxSerial],
         \A c \in Conns : SerialFrom(next[c]) \in {Coming[c] + n[c], Coming[c] + n[c] - Circle}
  PROVE  /\ RepliesFit(Aged(n), next)
         /\ \A r \in Aged(n) : /\ r.age >= n[r.conn]
                               /\ \A k \in 0..(n[r.conn] - 1), t \in 1..Circle :
                                    t \in {Coming[r.conn] + k, Coming[r.conn] + k - Circle} => r.serial # t
         /\ \A c \in Conns : (\E r \in Aged(n) : r.conn = c /\ r.remote = Bus)
                               <=> (\E r \in open : r.conn = c /\ r.remote = Bus)
<1> DEFINE Old(r) == [r EXCEPT !.age = @ + n[r.conn]]
<1>1. /\ Circle \in Nat /\ Circle > 2 /\ MaxSerial = Circle + 1
      /\ \A c \in Conns : Coming[c] \in 1..Circle /\ SerialFrom(next[c]) \in 1..Circle
  <2>1. Circle \in Nat /\ Circle > 2 /\ MaxSerial = Circle + 1
        /\ \A c \in Conns : Coming[c] \in 1..Circle
    BY ComingFacts
  <2>2. \A c \in Conns : next[c] \in 1..MaxSerial
    OBVIOUS
  <2>3. \A k \in 1..MaxSerial : SerialFrom(k) \in 1..Circle
    BY <2>1 DEF SerialFrom
  <2> QED BY <2>1, <2>2, <2>3
<1>2. ASSUME NEW r \in open
      PROVE  /\ r \in Replies /\ r.conn \in Conns /\ r.age \in Nat /\ n[r.conn] \in Nat
             /\ r.serial \in 1..Circle
             /\ Old(r) \in Replies /\ Old(r).conn = r.conn /\ Old(r).remote = r.remote
             /\ Old(r).serial = r.serial /\ Old(r).age = r.age + n[r.conn]
             /\ Old(r).age >= n[r.conn]
             /\ r = [Old(r) EXCEPT !.age = @ - n[r.conn]]
  <2>1. r \in Replies
    BY DEF SendTypes
  <2>2. r.conn \in Conns /\ r.age \in 0..(Circle - 1) /\ r.serial \in 1..Circle /\ n[r.conn] \in Nat
    BY <2>1 DEF Replies
  <2> DEFINE a == r.age + n[r.conn]
  <2>3. a \in 0..(Circle - 1) /\ a >= n[r.conn] /\ r.age \in Nat /\ a - n[r.conn] = r.age
    BY <1>1, <2>2
  <2> HIDE DEF a
  <2>4. Old(r) = [r EXCEPT !.age = a]
    BY DEF a
  <2>5. /\ Old(r) \in Replies /\ Old(r).conn = r.conn /\ Old(r).remote = r.remote
        /\ Old(r).serial = r.serial /\ Old(r).age = a
    BY <2>1, <2>3, <2>4 DEF Replies
  <2>6. r = [Old(r) EXCEPT !.age = @ - n[r.conn]]
    BY <2>1, <2>3, <2>4, <2>5 DEF Replies
  <2> QED BY <2>1, <2>2, <2>3, <2>5, <2>6 DEF a
<1>3. Aged(n) = {Old(r) : r \in open}
  BY DEF Aged
<1> HIDE DEF Old
<1>4. ASSUME NEW r \in open
      PROVE  /\ Behind(Old(r), SerialFrom(next[r.conn]))
             /\ \A k \in 0..(n[r.conn] - 1), t \in 1..Circle :
                  t \in {Coming[r.conn] + k, Coming[r.conn] + k - Circle} => r.serial # t
  <2> DEFINE x == r.serial
             a == r.age
             c == r.conn
             s == Coming[c]
             at == SerialFrom(next[c])
             m == n[c]
  <2>1. /\ s \in 1..Circle /\ a \in Nat /\ m \in Nat /\ a + m <= Circle - 1
        /\ x \in 1..Circle /\ at \in 1..Circle /\ at \in {s + m, s + m - Circle}
    BY <1>1, <1>2
  <2>2. x + a + 1 \in {s, s + Circle}
    <3>1. s = SerialFrom(nextSerial[c])
      BY <1>2, ComingFacts
    <3> QED BY <3>1 DEF RepliesFit, Behind
  <2>3. Old(r).serial = x /\ Old(r).age = a + m
    BY <1>2
  <2> HIDE DEF x, a, s, at, m
  <2>4. /\ x + (a + m) + 1 \in {at, at + Circle}
        /\ \A k \in 0..(m - 1), t \in 1..Circle : t \in {s + k, s + k - Circle} => x # t
    BY <2>1, <2>2, StaysBehind
  <2>5. Behind(Old(r), at)
    BY <2>3, <2>4 DEF Behind
  <2> QED BY <2>4, <2>5 DEF x, a, s, at, m
<1>5. \A q, r \in open : Old(q).conn = Old(r).conn /\ Old(q).age = Old(r).age => q = r
  <2> SUFFICES ASSUME NEW q \in open, NEW r \in open, Old(q).conn = Old(r).conn, Old(q).age = Old(r).age
               PROVE  q = r
    OBVIOUS
  <2>1. q.conn = r.conn /\ q.age + n[q.conn] = r.age + n[q.conn]
    BY <1>2
  <2>2. q.age = r.age
    <3>1. q.age \in Nat /\ r.age \in Nat /\ n[q.conn] \in Nat
      BY <1>2
    <3> QED BY <2>1, <3>1
  <2> QED BY <2>1, <2>2 DEF RepliesFit
<1>6. \A q, r \in open : Old(q).conn = Old(r).conn /\ Old(q).remote = Bus /\ Old(r).remote = Bus => q = r
  BY <1>2 DEF RepliesFit
<1>7. RepliesFit(Aged(n), next)
  <2>1. \A r \in open : Old(r) \in Replies /\ Behind(Old(r), SerialFrom(next[Old(r).conn]))
    BY <1>2, <1>4
  <2> QED BY <1>3, <1>5, <1>6, <2>1 DEF RepliesFit
<1>8. \A r \in open : /\ Old(r).age >= n[Old(r).conn]
                      /\ \A k \in 0..(n[Old(r).conn] - 1), t \in 1..Circle :
                           t \in {Coming[Old(r).conn] + k, Coming[Old(r).conn] + k - Circle}
                             => Old(r).serial # t
  <2> TAKE r \in open
  <2>1. Old(r).conn = r.conn /\ Old(r).serial = r.serial /\ Old(r).age >= n[r.conn]
    BY <1>2
  <2> QED BY <1>4, <2>1
<1>9. \A c \in Conns : (\E r \in Aged(n) : r.conn = c /\ r.remote = Bus)
                         <=> (\E r \in open : r.conn = c /\ r.remote = Bus)
  BY <1>2, <1>3
<1> QED BY <1>3, <1>7, <1>8, <1>9

(* One serial is taken on c. *)
LEMMA OneTaken ==
  ASSUME SendTypes, RepliesFit(open, nextSerial), NEW c \in Conns, Timely(c, 1),
         NEW next, next = [nextSerial EXCEPT ![c] = Coming[c] + 1]
  PROVE  /\ next \in [Conns -> 1..MaxSerial] /\ next[c] = Coming[c] + 1
         /\ Coming[c] = SerialFrom(nextSerial[c]) /\ Coming[c] \in 1..Circle
         /\ RepliesFit(Older(c, 1), next)
         /\ \A r \in Older(c, 1) : r.conn = c => r.age > 0 /\ r.serial # Coming[c]
         /\ \A d \in Conns : (\E r \in Older(c, 1) : r.conn = d /\ r.remote = Bus)
                               <=> (\E r \in open : r.conn = d /\ r.remote = Bus)
<1> DEFINE n == [d \in Conns |-> IF d = c THEN 1 ELSE 0]
<1>1. /\ Circle \in Nat /\ Circle > 2 /\ MaxSerial = Circle + 1
      /\ \A d \in Conns : nextSerial[d] \in 1..MaxSerial /\ Coming[d] \in 1..Circle
                          /\ Coming[d] = SerialFrom(nextSerial[d])
  BY ComingFacts
<1>2. n \in [Conns -> Nat] /\ n[c] = 1 /\ \A d \in Conns : d # c => n[d] = 0
  OBVIOUS
<1> HIDE DEF n
<1>3. /\ next \in [Conns -> 1..MaxSerial] /\ next[c] = Coming[c] + 1
      /\ \A d \in Conns : d # c => next[d] = nextSerial[d]
  <2>1. nextSerial \in [Conns -> 1..MaxSerial] /\ Coming[c] + 1 \in 1..MaxSerial
    BY <1>1 DEF SendTypes
  <2> QED BY <2>1
<1>4. \A d \in Conns : SerialFrom(next[d]) \in {Coming[d] + n[d], Coming[d] + n[d] - Circle}
  <2> TAKE d \in Conns
  <2>1. CASE d = c
    <3>1. SerialFrom(Coming[c] + 1) \in {Coming[c] + 1, Coming[c] + 1 - Circle}
      BY <1>1 DEF SerialFrom
    <3> QED BY <1>2, <1>3, <2>1, <3>1
  <2>2. CASE d # c
    <3>1. SerialFrom(next[d]) = Coming[d] /\ n[d] = 0 /\ Coming[d] \in Int
      BY <1>1, <1>2, <1>3, <2>2
    <3> QED BY <3>1
  <2> QED BY <2>1, <2>2
<1>5. ASSUME NEW r \in open
      PROVE  /\ r.age + n[r.conn] <= Circle - 1
             /\ [r EXCEPT !.age = @ + n[r.conn]] = [r EXCEPT !.age = IF r.conn = c THEN @ + 1 ELSE @]
  <2>1. r \in Replies
    BY DEF SendTypes
  <2>2. r.conn \in Conns /\ r.age \in 0..(Circle - 1)
    BY <2>1 DEF Replies
  <2>3. CASE r.conn = c
    <3>1. r.age + 1 <= MaxSerial - 2
      BY <2>3 DEF Timely
    <3> QED BY <1>1, <1>2, <2>2, <2>3, <3>1
  <2>4. CASE r.conn # c
    <3>1. n[r.conn] = 0 /\ r.age + 0 = r.age
      BY <1>2, <2>2, <2>4
    <3> QED BY <1>1, <2>2, <2>4, <3>1
  <2> QED BY <2>3, <2>4
<1>6. Older(c, 1) = Aged(n)
  <2> DEFINE A(r) == [r EXCEPT !.age = @ + n[r.conn]]
             B(r) == [r EXCEPT !.age = IF r.conn = c THEN @ + 1 ELSE @]
  <2>1. \A r \in open : A(r) = B(r)
    BY <1>5
  <2>2. Aged(n) = {A(r) : r \in open} /\ Older(c, 1) = {B(r) : r \in open}
    BY DEF Older, Aged
  <2> HIDE DEF A, B
  <2> QED BY <2>1, <2>2
<1>7. /\ RepliesFit(Aged(n), next)
      /\ \A r \in Aged(n) : /\ r.age >= n[r.conn]
                            /\ \A k \in 0..(n[r.conn] - 1), t \in 1..Circle :
                                 t \in {Coming[r.conn] + k, Coming[r.conn] + k - Circle} => r.serial # t
      /\ \A d \in Conns : (\E r \in Aged(n) : r.conn = d /\ r.remote = Bus)
                            <=> (\E r \in open : r.conn = d /\ r.remote = Bus)
  BY <1>2, <1>3, <1>4, <1>5, AgedFit
<1>8. \A r \in Aged(n) : r.conn = c => r.age > 0 /\ r.serial # Coming[c]
  <2> SUFFICES ASSUME NEW r \in Aged(n), r.conn = c PROVE r.age > 0 /\ r.serial # Coming[c]
    OBVIOUS
  <2>1. r \in Replies
    BY <1>7 DEF RepliesFit
  <2>2. r.age \in Int /\ r.age >= 1
    BY <1>2, <1>7, <2>1 DEF Replies
  <2>3. 0 \in 0..(n[r.conn] - 1) /\ Coming[c] \in 1..Circle /\ Coming[c] \in {Coming[r.conn] + 0, Coming[r.conn] + 0 - Circle}
    BY <1>1, <1>2
  <2>4. r.serial # Coming[c]
    BY <1>7, <2>3
  <2> QED BY <2>2, <2>4
<1> QED BY <1>1, <1>3, <1>6, <1>7, <1>8

(* The serial after n more have been taken. *)
LEMMA AfterFacts ==
  ASSUME SendTypes, NEW c \in Conns, NEW n \in 0..(Circle - 1)
  PROVE  /\ After(c, n) \in 1..MaxSerial /\ SerialFrom(After(c, n)) \in 1..Circle
         /\ SerialFrom(After(c, n)) \in {Coming[c] + n, Coming[c] + n - Circle}
         /\ After(c, n) # MaxSerial => SerialFrom(After(c, n)) = After(c, n)
<1>1. /\ Circle \in Nat /\ Circle > 2 /\ MaxSerial = Circle + 1
      /\ nextSerial[c] \in 1..MaxSerial /\ Coming[c] \in 1..Circle
      /\ Coming[c] = SerialFrom(nextSerial[c])
  BY ComingFacts
<1>2. CASE n = 0
  <2>1. After(c, n) = nextSerial[c]
    BY <1>2 DEF After
  <2> QED BY <1>1, <1>2, <2>1 DEF SerialFrom
<1>3. CASE n # 0
  <2> DEFINE s == Coming[c]
             next == IF s + n <= MaxSerial THEN s + n ELSE s + n - Circle
  <2>1. After(c, n) = next
    BY <1>1, <1>3 DEF After, Circle
  <2>2. /\ next \in 1..MaxSerial /\ SerialFrom(next) \in 1..Circle
        /\ SerialFrom(next) \in {s + n, s + n - Circle}
        /\ next # MaxSerial => SerialFrom(next) = next
    <3> HIDE DEF s
    <3> QED BY <1>1, Circular DEF s
  <2> QED BY <2>1, <2>2
<1> QED BY <1>2, <1>3

(* The emitters on a connection are counted one by one. *)
LEMMA OnFacts ==
  ASSUME SendTypes, NEW c \in Conns
  PROVE  /\ \A n \in 0..Len(emitters) : On(c, n) \in Nat /\ On(c, n) <= n
         /\ \A i, j \in 0..Len(emitters) : i <= j => On(c, i) <= On(c, j)
         /\ \A i \in 1..Len(emitters) : emitters[i].conn = c => On(c, i) = On(c, i - 1) + 1
<1> DEFINE T(n) == {i \in 1..n : emitters[i].conn = c}
<1>1. Len(emitters) \in Nat
  BY DEF SendTypes
<1>2. \A n : On(c, n) = Cardinality(T(n))
  BY DEF On
<1>3. ASSUME NEW n \in 0..Len(emitters)
      PROVE  IsFiniteSet(T(n)) /\ Cardinality(T(n)) \in Nat /\ Cardinality(T(n)) <= n
  <2>1. IsFiniteSet(1..n) /\ Cardinality(1..n) = n
    <3>1. 1 \in Int /\ n \in Int
      OBVIOUS
    <3>2. IsFiniteSet(1..n) /\ Cardinality(1..n) = IF 1 > n THEN 0 ELSE n - 1 + 1
      BY <3>1, FS_Interval
    <3> QED BY <3>2
  <2>2. T(n) \in SUBSET (1..n)
    OBVIOUS
  <2> HIDE DEF T
  <2>3. IsFiniteSet(T(n)) /\ Cardinality(T(n)) <= n
    BY <2>1, <2>2, FS_Subset
  <2> QED BY <2>3, FS_CardinalityType
<1>4. ASSUME NEW i \in 0..Len(emitters), NEW j \in 0..Len(emitters), i <= j
      PROVE  Cardinality(T(i)) <= Cardinality(T(j))
  <2>1. T(i) \in SUBSET T(j)
    BY <1>4
  <2>2. IsFiniteSet(T(j))
    BY <1>3
  <2> HIDE DEF T
  <2> QED BY <2>1, <2>2, FS_Subset
<1>5. ASSUME NEW i \in 1..Len(emitters), emitters[i].conn = c
      PROVE  Cardinality(T(i)) = Cardinality(T(i - 1)) + 1
  <2>1. T(i) = T(i - 1) \cup {i} /\ i \notin T(i - 1)
    BY <1>5
  <2>2. IsFiniteSet(T(i - 1))
    <3>1. i - 1 \in 0..Len(emitters)
      BY <1>1
    <3> QED BY <1>3, <3>1
  <2> HIDE DEF T
  <2> QED BY <2>1, <2>2, FS_AddElement
<1> HIDE DEF T
<1> QED BY <1>2, <1>3, <1>4, <1>5

-----------------------------------------------------------------------------
(* Factories *)

LEMMA SetterFacts ==
  ASSUME NEW m \in Factories
  PROVE  /\ EmptyFactory \in Factories /\ EmptyFactory.fields = {}
         /\ msg_reset(m) \in Factories /\ msg_reset(m).fields = {}
         /\ \A type \in {"method", "return", "error", "signal"}, serial \in Int, noreply \in BOOLEAN :
              LET h == msg_sethead(m, type, serial, noreply)
              IN  /\ h \in Factories /\ h.type = type /\ h.serial = serial /\ h.noreply = noreply
                  /\ h.path = m.path /\ h.dest = m.dest /\ h.fields = m.fields
         /\ \A path \in ObjectPaths \cup {BusPath} :
              LET h == msg_setpath(m, path)
              IN  /\ h \in Factories /\ h.path = path
                  /\ h.type = m.type /\ h.serial = m.serial /\ h.noreply = m.noreply
                  /\ h.dest = m.dest /\ h.fields = m.fields
         /\ \A dest \in Remotes \cup {Bus} :
              LET h == msg_setdestination(m, dest)
              IN  /\ h \in Factories /\ h.dest = dest
                  /\ h.type = m.type /\ h.serial = m.serial /\ h.noreply = m.noreply
                  /\ h.path = m.path /\ h.fields = m.fields \cup {"destination"}
         /\ \A fields \in SUBSET Fields :
              LET h == msg_setfields(m, fields)
              IN  /\ h \in Factories /\ h.fields = m.fields \cup fields
                  /\ h.type = m.type /\ h.serial = m.serial /\ h.noreply = m.noreply
                  /\ h.path = m.path /\ h.dest = m.dest
<1>1. EmptyFactory \in Factories /\ EmptyFactory.fields = {}
  BY DEF EmptyFactory, Factories
<1>2. msg_reset(m) \in Factories /\ msg_reset(m).fields = {}
  <2>1. m.path \in ObjectPaths \cup {Nothing, BusPath}
    BY DEF Factories
  <2>2. ASSUME NEW e \in Factories, NEW p \in ObjectPaths \cup {Nothing, BusPath}
        PROVE  [e EXCEPT !.path = p] \in Factories /\ [e EXCEPT !.path = p].fields = e.fields
    BY DEF Factories
  <2> DEFINE e == EmptyFactory
             p == m.path
  <2>3. msg_reset(m) = [e EXCEPT !.path = p] /\ e \in Factories /\ e.fields = {}
    BY <1>1 DEF msg_reset
  <2> HIDE DEF e, p
  <2> QED BY <2>1, <2>2, <2>3 DEF p
<1>3. ASSUME NEW type \in {"method", "return", "error", "signal"}, NEW serial \in Int, NEW noreply \in BOOLEAN
      PROVE  LET h == msg_sethead(m, type, serial, noreply)
             IN  /\ h \in Factories /\ h.type = type /\ h.serial = serial /\ h.noreply = noreply
                 /\ h.path = m.path /\ h.dest = m.dest /\ h.fields = m.fields
  BY DEF Factories, msg_sethead
<1>4. ASSUME NEW path \in ObjectPaths \cup {BusPath}
      PROVE  LET h == msg_setpath(m, path)
             IN  /\ h \in Factories /\ h.path = path
                 /\ h.type = m.type /\ h.serial = m.serial /\ h.noreply = m.noreply
                 /\ h.dest = m.dest /\ h.fields = m.fields
  BY DEF Factories, msg_setpath
<1>5. ASSUME NEW dest \in Remotes \cup {Bus}
      PROVE  LET h == msg_setdestination(m, dest)
             IN  /\ h \in Factories /\ h.dest = dest
                 /\ h.type = m.type /\ h.serial = m.serial /\ h.noreply = m.noreply
                 /\ h.path = m.path /\ h.fields = m.fields \cup {"destination"}
  <2>1. m.fields \cup {"destination"} \in SUBSET Fields
    BY DEF Factories, Fields
  <2> QED BY <2>1 DEF Factories, msg_setdestination
<1>6. ASSUME NEW fields \in SUBSET Fields
      PROVE  LET h == msg_setfields(m, fields)
             IN  /\ h \in Factories /\ h.fields = m.fields \cup fields
                 /\ h.type = m.type /\ h.serial = m.serial /\ h.noreply = m.noreply
                 /\ h.path = m.path /\ h.dest = m.dest
  <2>1. m.fields \cup fields \in SUBSET Fields
    BY DEF Factories
  <2> QED BY <2>1 DEF Factories, msg_setfields
<1> QED BY <1>1, <1>2, <1>3, <1>4, <1>5, <1>6

(* The message of a call, and that of Hello. *)
Called(m, serial, dest, path, fields) ==
  msg_setfields(msg_setpath(msg_setdestination(
    msg_sethead(m, "method", serial, FALSE), dest), path), fields)

LEMMA CallMessage ==
  ASSUME NEW m \in Factories, NEW serial \in Int, NEW fields \in SUBSET Fields,
         NEW dest \in Remotes \cup {Bus}, NEW path \in ObjectPaths \cup {BusPath}
  PROVE  LET h == Called(m, serial, dest, path, fields)
         IN  /\ h \in Factories /\ h.type = "method" /\ h.serial = serial /\ ~h.noreply
             /\ h.path = path /\ h.dest = dest /\ fields \subseteq h.fields
<1> DEFINE h1 == msg_sethead(m, "method", serial, FALSE)
           h2 == msg_setdestination(h1, dest)
           h3 == msg_setpath(h2, path)
           h == msg_setfields(h3, fields)
<1>1. h1 \in Factories /\ h1.type = "method" /\ h1.serial = serial /\ ~h1.noreply
  BY DEF msg_sethead, Factories
<1> HIDE DEF h1
<1>2. /\ h2 \in Factories /\ h2.type = "method" /\ h2.serial = serial /\ ~h2.noreply
      /\ h2.dest = dest
  BY <1>1, SetterFacts
<1> HIDE DEF h2
<1>3. /\ h3 \in Factories /\ h3.type = "method" /\ h3.serial = serial /\ ~h3.noreply
      /\ h3.dest = dest /\ h3.path = path
  BY <1>2, SetterFacts
<1> HIDE DEF h3
<1>4. /\ h \in Factories /\ h.type = "method" /\ h.serial = serial /\ ~h.noreply
      /\ h.dest = dest /\ h.path = path /\ fields \subseteq h.fields
  BY <1>3, SetterFacts
<1> QED BY <1>4 DEF Called, h3, h2, h1

-----------------------------------------------------------------------------
(* The steps *)

LEMMA SentNothing == sent' = <<>> => SentSound'
BY DEF SentSound, WireComplete, SentApart, CallRegistered, EmissionsDistinct

LEMMA QuietKeeps ==
  ASSUME SendInv,
         \/ \E c \in Conns, path \in ObjectPaths :
              (\E service \in Remotes : ProxyInit(c, service, path)) \/ SigBind(c, path)
         \/ SetInterface \/ ProxyFree \/ SigFree
  PROVE  SendInv'
<1>1. SendTypes /\ ProxySound /\ UserSound /\ factories["proxy"] \in Factories
  BY DEF SendInv, SendTypes
<1>2. ASSUME NEW c \in Conns, NEW path \in ObjectPaths, NEW service \in Remotes, ProxyInit(c, service, path)
      PROVE  SendInv'
  <2>1. ProxySound'
    BY <1>1, <1>2, OutgoingAssumption DEF ProxyInit, ProxySound
  <2> QED BY <1>2, <2>1, SentNothing DEF ProxyInit, OutReady, SendInv, SendTypes, CallSound, UserSound
<1>3. CASE SetInterface
  <2>1. ProxySound'
    BY <1>1, <1>3 DEF SetInterface, ProxySound
  <2> QED BY <1>3, <2>1, SentNothing DEF SetInterface, OutReady, SendInv, SendTypes, CallSound, UserSound
<1>4. CASE ProxyFree
  <2>1. ProxySound'
    BY <1>4 DEF ProxyFree, NoProxy, ProxySound
  <2>2. EmptyFactory \in Factories
    BY <1>1, SetterFacts
  <2>3. SendTypes' /\ UserSound'
    BY <1>1, <1>4, <2>2 DEF ProxyFree, SendTypes, UserSound
  <2> QED BY <1>4, <2>1, <2>3, SentNothing DEF ProxyFree, OutReady, SendInv, CallSound
<1>5. CASE SigFree
  <2>1. EmptyFactory \in Factories
    BY <1>1, SetterFacts
  <2>2. emitters' \in Seq([conn : Conns, path : ObjectPaths]) /\ Len(emitters') <= MaxEmitters
    BY <1>5, OutgoingAssumption DEF SigFree
  <2>3. SendTypes' /\ UserSound'
    BY <1>1, <1>5, <2>1, <2>2 DEF SigFree, SendTypes, UserSound
  <2> QED BY <1>5, <2>3, SentNothing DEF SigFree, OutReady, SendInv, CallSound, ProxySound
<1>6. ASSUME NEW c \in Conns, NEW path \in ObjectPaths, SigBind(c, path)
      PROVE  SendInv'
  <2>1. emitters' \in Seq([conn : Conns, path : ObjectPaths]) /\ Len(emitters') <= MaxEmitters
    BY <1>1, <1>6, OutgoingAssumption DEF SigBind, SendTypes
  <2>2. SendTypes' /\ UserSound'
    BY <1>1, <1>6, <2>1 DEF SigBind, SendTypes, UserSound
  <2> QED BY <1>6, <2>2, SentNothing DEF SigBind, OutReady, SendInv, CallSound, ProxySound
<1> QED BY <1>2, <1>3, <1>4, <1>5, <1>6

(* A call is set up. *)
LEMMA CallsKeep ==
  ASSUME SendInv, (\E n \in SigSizes : CallAMethod(n)) \/ CallSetProperty \/ CallGetProperty
  PROVE  SendInv'
<1> DEFINE c == proxy.conn
           s == Coming[c]
<1>1. /\ SendTypes /\ ProxySound /\ RepliesFit(open, nextSerial) /\ HelloFits(open, link) /\ UserSound
      /\ factories["proxy"] \in Factories
  BY DEF SendInv, SendTypes
<1>2. c # Nothing /\ Timely(c, 1)
  BY <1>1 DEF CallAMethod, CallSetProperty, CallGetProperty, ProxySound
<1>3. c \in Conns /\ proxy.service \in Remotes /\ proxy.path \in ObjectPaths
  BY <1>1, <1>2 DEF ProxySound
<1>4. PICK fields \in SUBSET {"member", "interface"} :
        "member" \in fields /\ \E sig : SetUp(fields, sig)
  BY DEF CallAMethod, CallSetProperty, CallGetProperty
<1>5. ProxySound' /\ proxy'.conn = c /\ proxy'.service = proxy.service /\ proxy'.path = proxy.path
  BY <1>1 DEF CallAMethod, CallSetProperty, CallGetProperty, ProxySound
<1>6. s = SerialFrom(nextSerial[c]) /\ s \in 1..Circle /\ s \in Int
  BY <1>1, <1>3, ComingFacts
<1> DEFINE m == ProxyMessage(factories["proxy"], s, fields)
<1>7. /\ nextSerial' = [nextSerial EXCEPT ![c] = s + 1]
      /\ open' = Older(c, 1)
      /\ factories' = [factories EXCEPT !["proxy"] = m]
      /\ step' = "call" /\ sent' = <<>> /\ UNCHANGED <<emitters, link, broken>>
  BY <1>4, <1>6 DEF SetUp
<1>8. /\ m \in Factories /\ m.type = "method" /\ m.serial = s /\ m.path = proxy.path
      /\ m.dest = proxy.service /\ "member" \in m.fields
  <2>1. fields \in SUBSET Fields
    BY <1>4 DEF Fields
  <2>2. proxy.service \in Remotes \cup {Bus} /\ proxy.path \in ObjectPaths \cup {BusPath}
    BY <1>3
  <2> DEFINE f == factories["proxy"]
             dest == proxy.service
             path == proxy.path
  <2>3. m = Called(f, s, dest, path, fields)
    BY DEF ProxyMessage, Called
  <2>4. f \in Factories /\ dest \in Remotes \cup {Bus} /\ path \in ObjectPaths \cup {BusPath}
    BY <1>1, <2>2
  <2> HIDE DEF s, f, dest, path, m
  <2>5. /\ m \in Factories /\ m.type = "method" /\ m.serial = s /\ m.path = path
        /\ m.dest = dest /\ fields \subseteq m.fields
    BY <1>6, <2>1, <2>3, <2>4, CallMessage
  <2> QED BY <1>4, <2>5 DEF dest, path
<1> HIDE DEF m
<1>9. /\ nextSerial' \in [Conns -> 1..MaxSerial] /\ nextSerial'[c] = s + 1
      /\ RepliesFit(open', nextSerial')
      /\ \A r \in open' : r.conn = c => r.age > 0
      /\ \A d \in Conns : (\E r \in open' : r.conn = d /\ r.remote = Bus)
                            <=> (\E r \in open : r.conn = d /\ r.remote = Bus)
  <2> HIDE DEF c
  <2> QED BY <1>1, <1>2, <1>3, <1>7, OneTaken
<1> HIDE DEF c, s
<1>10. SendTypes' /\ UserSound' /\ factories'["proxy"] = m
  <2>1. open' \subseteq Replies
    BY <1>9 DEF RepliesFit
  <2> QED BY <1>1, <1>7, <1>8, <1>9, <2>1 DEF SendTypes, UserSound
<1>11. HelloFits(open', link')
  BY <1>1, <1>7, <1>9 DEF HelloFits
<1>12. CallSound'
  BY <1>2, <1>5, <1>6, <1>7, <1>8, <1>9, <1>10 DEF CallSound
<1>13. SentSound'
  BY <1>7, SentNothing
<1> QED BY <1>5, <1>9, <1>10, <1>11, <1>12, <1>13 DEF SendInv

(* A message that is complete, where rs are the replies that wait after it. *)
Whole(x, rs) ==
  LET m == x.msg
  IN  /\ m.type = "method" => "member" \in m.fields /\ m.path # Nothing
      /\ m.type = "return" => "replySerial" \in m.fields
      /\ m.type = "error" => "error" \in m.fields
      /\ m.type = "signal" => {"interface", "member"} \subseteq m.fields
      /\ x.by = "user" => m.fields = x.set
      /\ x.by = "proxy" =>
           (m.noreply <=> ~\E r \in rs : r.conn = x.conn /\ r.serial = m.serial /\ r.remote = m.dest)

(* One message is sent, with the serial before the next. *)
LEMMA OneSent ==
  ASSUME NEW x, sent' = <<x>>, x.by \in {"proxy", "user"}, x.msg.serial \in 1..Circle,
         nextSerial'[x.conn] = x.msg.serial + 1, Whole(x, open'),
         \A r \in open' : r.conn = x.conn /\ r.serial = x.msg.serial => x.by = "proxy" /\ r.age = 0
  PROVE  SentSound'
<1>1. DOMAIN sent' = {1} /\ sent'[1] = x
  OBVIOUS
<1>2. x.msg.serial \in 1..MaxSerial /\ x.msg.serial # nextSerial'[x.conn]
  BY OutgoingAssumption DEF Circle
<1>3. WireComplete' /\ SentApart' /\ CallRegistered'
  BY <1>1, <1>2 DEF WireComplete, SentApart, CallRegistered, Whole
<1>4. EmissionsDistinct'
  BY <1>1, <1>2 DEF EmissionsDistinct
<1> QED BY <1>3, <1>4 DEF SentSound

(* The reply to the call that has taken the last serial has age 0. *)
LEMMA LastHasNoAge ==
  ASSUME NEW rs, NEW next, RepliesFit(rs, next), NEW c \in Conns, NEW s \in 1..Circle,
         next[c] = s + 1, NEW r \in rs, r.conn = c, r.serial = s
  PROVE  r.age = 0
<1>1. Circle \in Nat /\ Circle > 2 /\ MaxSerial = Circle + 1
  BY OutgoingAssumption DEF Circle
<1>2. r.age \in 0..(Circle - 1)
  BY DEF RepliesFit, Replies
<1>3. s + r.age + 1 \in {SerialFrom(s + 1), SerialFrom(s + 1) + Circle}
  BY DEF RepliesFit, Behind
<1> QED BY <1>1, <1>2, <1>3 DEF SerialFrom

(* A reply is registered for the last serial. *)
LEMMA Registered ==
  ASSUME NEW rs, NEW next, RepliesFit(rs, next), NEW c \in Conns, NEW s \in 1..Circle,
         next[c] = s + 1, \A r \in rs : r.conn = c => r.age > 0,
         NEW remote \in Remotes \cup {Bus},
         remote = Bus => ~\E r \in rs : r.conn = c /\ r.remote = Bus,
         NEW new, new = [conn |-> c, serial |-> s, remote |-> remote, age |-> 0]
  PROVE  RepliesFit(rs \cup {new}, next)
<1>1. Circle \in Nat /\ Circle > 2 /\ MaxSerial = Circle + 1
  BY OutgoingAssumption DEF Circle
<1>2. /\ new \in Replies /\ new.conn = c /\ new.serial = s /\ new.age = 0 /\ new.remote = remote
  BY <1>1 DEF Replies
<1>3. Behind(new, SerialFrom(next[c]))
  BY <1>1, <1>2 DEF Behind, SerialFrom
<1>4. \A r \in rs : r.conn = c => r.age # 0
  BY DEF RepliesFit, Replies
<1> QED BY <1>2, <1>3, <1>4 DEF RepliesFit

(* The call is sent. *)
LEMMA SendKeeps ==
  ASSUME SendInv, NEW wanted \in BOOLEAN, CallSend(wanted)
  PROVE  SendInv'
<1> DEFINE c == proxy.conn
           f == factories["proxy"]
           s == f.serial
           m == [f EXCEPT !.noreply = ~wanted]
           r == [conn |-> c, serial |-> m.serial, remote |-> proxy.service, age |-> 0]
           x == [conn |-> c, by |-> "proxy", msg |-> m]
<1>1. /\ SendTypes /\ ProxySound /\ RepliesFit(open, nextSerial) /\ HelloFits(open, link) /\ UserSound
      /\ f \in Factories /\ step = "call"
  BY DEF SendInv, SendTypes, CallSend
<1>2. /\ c \in Conns /\ proxy.service \in Remotes /\ proxy.path \in ObjectPaths /\ sent = <<>>
      /\ f.type = "method" /\ "member" \in f.fields /\ f.path = proxy.path /\ f.dest = proxy.service
      /\ s \in 1..Circle /\ nextSerial[c] = s + 1
      /\ \A q \in open : q.conn = c => q.age > 0
  <2>1. CallSound /\ proxy.conn # Nothing
    BY <1>1 DEF SendInv, CallSound
  <2> QED BY <1>1, <2>1 DEF CallSound, ProxySound
<1>3. step' = "idle" /\ UNCHANGED <<nextSerial, proxy, emitters, link>>
  BY DEF CallSend
<1>4. CallSound' /\ ProxySound'
  BY <1>1, <1>3 DEF CallSound, ProxySound
<1>5. CASE UNCHANGED <<open, sent, factories>>
  <2>1. SentSound'
    BY <1>2, <1>5, SentNothing
  <2> QED BY <1>1, <1>3, <1>4, <1>5, <2>1 DEF SendInv, SendTypes, UserSound
<1>6. CASE /\ open' = IF wanted THEN open \cup {r} ELSE open
           /\ sent' = <<x>>
           /\ factories' = [factories EXCEPT !["proxy"] = msg_reset(m)]
  <2>1. /\ m \in Factories /\ m.type = f.type /\ m.fields = f.fields /\ m.path = f.path
        /\ m.dest = f.dest /\ m.serial = s /\ (m.noreply <=> ~wanted)
    BY <1>1 DEF Factories
  <2>2. r = [conn |-> c, serial |-> s, remote |-> proxy.service, age |-> 0]
    BY <2>1
  <2>3. x.conn = c /\ x.by = "proxy" /\ x.msg = m
    OBVIOUS
  <2> HIDE DEF m, r, x
  <2>4. proxy.service # Bus
    BY <1>2, BusAssumption
  <2>5. RepliesFit(open', nextSerial)
    <3>1. RepliesFit(open \cup {r}, nextSerial)
      <4> DEFINE remote == proxy.service
      <4>1. remote \in Remotes \cup {Bus} /\ remote # Bus
        BY <1>2, <2>4
      <4>2. r = [conn |-> c, serial |-> s, remote |-> remote, age |-> 0]
        BY <2>2
      <4> HIDE DEF remote, c, s
      <4> QED BY <1>1, <1>2, <4>1, <4>2, Registered
    <3> QED BY <1>1, <1>6, <3>1
  <2>6. HelloFits(open', link)
    <3>1. r.remote # Bus
      BY <2>2, <2>4
    <3> QED BY <1>1, <1>6, <3>1 DEF HelloFits
  <2>7. \A q \in open' : q.conn = c /\ q.serial = s => q.age = 0
    <3> HIDE DEF c, s
    <3> QED BY <1>2, <2>5, LastHasNoAge
  <2>8. Whole(x, open')
    <3>1. m.type = "method" /\ "member" \in m.fields /\ m.path # Nothing /\ m.dest = proxy.service
      BY <1>2, <2>1, OutgoingAssumption
    <3>2. m.noreply <=> ~\E q \in open' : q.conn = c /\ q.serial = s /\ q.remote = proxy.service
      <4>1. CASE wanted
        <5>1. r \in open' /\ r.conn = c /\ r.serial = s /\ r.remote = proxy.service
          BY <1>6, <2>2, <4>1
        <5> QED BY <2>1, <4>1, <5>1
      <4>2. CASE ~wanted
        <5>1. \A q \in open' : q.conn = c => q.serial # s
          BY <1>2, <1>6, <2>7, <4>2
        <5> QED BY <2>1, <4>2, <5>1
      <4> QED BY <4>1, <4>2
    <3> QED BY <2>1, <2>3, <3>1, <3>2 DEF Whole
  <2>9. SentSound'
    <3>1. /\ x.by \in {"proxy", "user"} /\ x.msg.serial \in 1..Circle
          /\ nextSerial'[x.conn] = x.msg.serial + 1
          /\ \A q \in open' : q.conn = x.conn /\ q.serial = x.msg.serial => x.by = "proxy" /\ q.age = 0
      BY <1>2, <1>3, <2>1, <2>3, <2>7
    <3> QED BY <1>6, <2>8, <3>1, OneSent
  <2>10. SendTypes' /\ UserSound'
    <3>1. msg_reset(m) \in Factories
      BY <2>1, SetterFacts
    <3>2. open' \subseteq Replies
      BY <2>5 DEF RepliesFit
    <3> QED BY <1>1, <1>3, <1>6, <3>1, <3>2 DEF SendTypes, UserSound
  <2> QED BY <1>3, <1>4, <2>5, <2>6, <2>9, <2>10 DEF SendInv
<1>7. CASE SigEnds(ClosedSig) /\ msg_build(m)
  BY <1>6, <1>7 DEF CallSend
<1>8. CASE ~(SigEnds(ClosedSig) /\ msg_build(m))
  BY <1>5, <1>8 DEF CallSend
<1> QED BY <1>7, <1>8

(* An answer comes, to a call or to Hello. *)
LEMMA AnswersKeep ==
  ASSUME SendInv, NEW r \in open, Answered(r) \/ ConnectCallback(r)
  PROVE  SendInv'
<1>1. /\ SendTypes /\ ProxySound /\ RepliesFit(open, nextSerial) /\ HelloFits(open, link) /\ UserSound
  BY DEF SendInv
<1>2. /\ step = "idle" /\ open' = open \ {r} /\ sent' = <<>>
      /\ UNCHANGED <<nextSerial, factories, proxy, step, emitters>>
  BY DEF Answered, ConnectCallback, OutReady
<1>3. RepliesFit(open', nextSerial')
  BY <1>1, <1>2 DEF RepliesFit
<1>4. CallSound' /\ ProxySound' /\ UserSound'
  BY <1>1, <1>2 DEF CallSound, ProxySound, UserSound
<1>5. r.conn \in Conns
  BY <1>1 DEF SendTypes, Replies
<1>6. link' \in [Conns -> {"new", "asked", "connected"}] /\ HelloFits(open', link')
  <2>1. CASE Answered(r)
    <3>1. link' = link /\ r.remote # Bus
      BY <2>1 DEF Answered
    <3> QED BY <1>1, <1>2, <3>1 DEF HelloFits, SendTypes
  <2>2. CASE ConnectCallback(r)
    <3>1. link' = [link EXCEPT ![r.conn] = "connected"] /\ r.remote = Bus
      BY <2>2 DEF ConnectCallback
    <3>2. link' \in [Conns -> {"new", "asked", "connected"}]
      BY <1>1, <3>1 DEF SendTypes
    <3>3. ~\E q \in open' : q.conn = r.conn /\ q.remote = Bus
      BY <1>1, <1>2, <3>1 DEF RepliesFit
    <3>4. link'[r.conn] = "connected" /\ \A c \in Conns : c # r.conn => link'[c] = link[c]
      BY <1>1, <1>5, <3>1 DEF SendTypes
    <3> QED BY <1>1, <1>2, <3>2, <3>3, <3>4 DEF HelloFits
  <2> QED BY <2>1, <2>2
<1>7. SendTypes'
  BY <1>1, <1>2, <1>6 DEF SendTypes
<1> QED BY <1>2, <1>3, <1>4, <1>6, <1>7, SentNothing DEF SendInv

(* Hello is called. *)
LEMMA ConnectKeeps ==
  ASSUME SendInv, NEW c \in Conns, ConnConnect(c)
  PROVE  SendInv'
<1> DEFINE s == Coming[c]
           new == [conn |-> c, serial |-> s, remote |-> Bus, age |-> 0]
           m == HelloMessage(s)
           x == [conn |-> c, by |-> "proxy", msg |-> m]
<1>1. /\ SendTypes /\ ProxySound /\ RepliesFit(open, nextSerial) /\ HelloFits(open, link) /\ UserSound
  BY DEF SendInv
<1>2. s = SerialFrom(nextSerial[c]) /\ s \in 1..Circle /\ s \in Int
  BY <1>1, ComingFacts
<1>3. /\ step = "idle" /\ link[c] = "new" /\ Timely(c, 1)
      /\ link' = [link EXCEPT ![c] = "asked"]
      /\ nextSerial' = [nextSerial EXCEPT ![c] = s + 1]
      /\ open' = Older(c, 1) \cup {new}
      /\ sent' = <<x>>
      /\ UNCHANGED <<factories, proxy, step, emitters>>
  BY <1>2 DEF ConnConnect, OutReady
<1>4. x.conn = c /\ x.by = "proxy" /\ x.msg = m
  OBVIOUS
<1>5. /\ m \in Factories /\ m.type = "method" /\ m.serial = s /\ ~m.noreply
      /\ m.path = BusPath /\ m.dest = Bus /\ "member" \in m.fields
  <2> DEFINE fields == {"member", "interface"}
             f == EmptyFactory
             path == BusPath
             dest == Bus
  <2>1. m = Called(f, s, dest, path, fields)
    BY DEF HelloMessage, Called
  <2>2. factories["proxy"] \in Factories
    BY <1>1 DEF SendTypes
  <2>3. f \in Factories
    BY <2>2, SetterFacts
  <2>4. fields \in SUBSET Fields /\ dest \in Remotes \cup {Bus} /\ path \in ObjectPaths \cup {BusPath}
    BY DEF Fields
  <2>5. "member" \in fields
    OBVIOUS
  <2> HIDE DEF m, s, fields, f, path, dest
  <2>6. /\ m \in Factories /\ m.type = "method" /\ m.serial = s
        /\ m.path = path /\ m.dest = dest /\ fields \subseteq m.fields
    <3>1. s \in Int
      BY <1>2
    <3>2. LET h == Called(f, s, dest, path, fields)
          IN  /\ h \in Factories /\ h.type = "method" /\ h.serial = s /\ ~h.noreply
              /\ h.path = path /\ h.dest = dest /\ fields \subseteq h.fields
      BY <2>3, <2>4, <3>1, CallMessage
    <3> QED BY <2>1, <3>2
  <2>7. ~m.noreply
    BY <1>2, <2>1, <2>3, <2>4, CallMessage, Zenon
  <2> QED BY <2>5, <2>6, <2>7 DEF path, dest
<1> HIDE DEF m, x
<1> DEFINE rs == Older(c, 1)
<1>6. /\ nextSerial' \in [Conns -> 1..MaxSerial] /\ nextSerial'[c] = s + 1
      /\ RepliesFit(rs, nextSerial')
      /\ \A r \in rs : r.conn = c => r.age > 0
      /\ \A d \in Conns : (\E r \in rs : r.conn = d /\ r.remote = Bus)
                            <=> (\E r \in open : r.conn = d /\ r.remote = Bus)
  BY <1>1, <1>3, OneTaken
<1>7. ~\E r \in rs : r.conn = c /\ r.remote = Bus
  BY <1>1, <1>3, <1>6 DEF HelloFits
<1>8. new.conn = c /\ new.serial = s /\ new.remote = Bus
  OBVIOUS
<1>9. RepliesFit(open', nextSerial')
  <2> DEFINE remote == Bus
  <2>1. remote \in Remotes \cup {Bus} /\ new = [conn |-> c, serial |-> s, remote |-> remote, age |-> 0]
    OBVIOUS
  <2>2. open' = rs \cup {new}
    BY <1>3
  <2> HIDE DEF remote, s, rs, new
  <2> QED BY <1>2, <1>6, <1>7, <2>1, <2>2, Registered
<1> HIDE DEF rs, new, s
<1>10. link' \in [Conns -> {"new", "asked", "connected"}] /\ HelloFits(open', link')
  <2>1. link' \in [Conns -> {"new", "asked", "connected"}] /\ link'[c] = "asked"
        /\ \A d \in Conns : d # c => link'[d] = link[d]
    BY <1>1, <1>3 DEF SendTypes
  <2>2. open' = rs \cup {new}
    BY <1>3 DEF rs
  <2> QED BY <1>1, <1>6, <1>8, <2>1, <2>2 DEF HelloFits
<1>11. SendTypes' /\ UserSound' /\ ProxySound' /\ CallSound'
  <2>1. open' \subseteq Replies
    BY <1>9 DEF RepliesFit
  <2> QED BY <1>1, <1>3, <1>6, <1>10, <2>1 DEF SendTypes, UserSound, ProxySound, CallSound
<1>12. SentSound'
  <2>1. Whole(x, open')
    <3>1. new \in open'
      BY <1>3
    <3>2. m.path # Nothing
      BY <1>5, BusAssumption
    <3> QED BY <1>4, <1>5, <1>8, <3>1, <3>2 DEF Whole
  <2>2. \A r \in open' : r.conn = c /\ r.serial = s => r.age = 0
    BY <1>2, <1>6, <1>9, LastHasNoAge
  <2>3. /\ x.by \in {"proxy", "user"} /\ x.msg.serial \in 1..Circle
        /\ nextSerial'[x.conn] = x.msg.serial + 1
        /\ \A r \in open' : r.conn = x.conn /\ r.serial = x.msg.serial => x.by = "proxy" /\ r.age = 0
    BY <1>2, <1>4, <1>5, <1>6, <2>2
  <2> QED BY <1>3, <2>1, <2>3, OneSent
<1> QED BY <1>9, <1>10, <1>11, <1>12 DEF SendInv

(* A user sends a message of its own. *)
LEMMA UserKeeps ==
  ASSUME SendInv, NEW c \in Conns, NEW type \in {"method", "return", "error", "signal"},
         NEW fields \in UserFields, NEW path \in ObjectPaths \cup {Nothing},
         MsgSend(c, type, fields, path)
  PROVE  SendInv'
<1> DEFINE s == Coming[c]
           f == factories["user"]
           h == msg_sethead(f, type, s, FALSE)
           head == msg_setfields(h, fields)
           m == IF path = Nothing THEN head ELSE msg_setpath(head, path)
           x == [conn |-> c, by |-> "user", msg |-> m, set |-> fields]
<1>1. /\ SendTypes /\ ProxySound /\ RepliesFit(open, nextSerial) /\ HelloFits(open, link) /\ UserSound
      /\ f \in Factories /\ f.fields = {}
  BY DEF SendInv, SendTypes, UserSound
<1>2. s = SerialFrom(nextSerial[c]) /\ s \in 1..Circle /\ s \in Int
  BY <1>1, ComingFacts
<1>3. /\ step = "idle" /\ Timely(c, 1) /\ msg_build(m)
      /\ nextSerial' = [nextSerial EXCEPT ![c] = s + 1]
      /\ open' = Older(c, 1)
      /\ factories' = [factories EXCEPT !["user"] = msg_reset(m)]
      /\ sent' = <<x>>
      /\ UNCHANGED <<proxy, step, emitters, link>>
  BY <1>2 DEF MsgSend, OutReady
<1>4. x.conn = c /\ x.by = "user" /\ x.msg = m /\ x.set = fields
  OBVIOUS
<1>5. m \in Factories /\ m.type = type /\ m.serial = s /\ m.fields = fields
  <2>1. h \in Factories /\ h.type = type /\ h.serial = s /\ h.fields = {}
    BY <1>1, <1>2 DEF msg_sethead, Factories
  <2>2. fields \in SUBSET Fields
    BY DEF Fields
  <2> HIDE DEF h
  <2>3. head \in Factories /\ head.type = type /\ head.serial = s /\ head.fields = fields
    <3>1. h.fields \cup fields = fields /\ fields \in SUBSET Fields
      BY <2>1, <2>2
    <3> QED BY <2>1, <3>1 DEF Factories, msg_setfields
  <2> HIDE DEF head
  <2>4. CASE path = Nothing
    BY <2>3, <2>4
  <2>5. CASE path # Nothing
    BY <2>3, <2>5, SetterFacts
  <2> QED BY <2>4, <2>5
<1> HIDE DEF m, x
<1>6. /\ nextSerial' \in [Conns -> 1..MaxSerial] /\ nextSerial'[c] = s + 1
      /\ RepliesFit(open', nextSerial')
      /\ \A r \in open' : r.conn = c => r.age > 0 /\ r.serial # s
      /\ \A d \in Conns : (\E r \in open' : r.conn = d /\ r.remote = Bus)
                            <=> (\E r \in open : r.conn = d /\ r.remote = Bus)
  <2>1. nextSerial' = [nextSerial EXCEPT ![c] = Coming[c] + 1]
    BY <1>3
  <2>2. SendTypes /\ RepliesFit(open, nextSerial) /\ Timely(c, 1) /\ open' = Older(c, 1)
    BY <1>1, <1>3
  <2> QED BY <2>1, <2>2, OneTaken
<1> HIDE DEF s
<1>7. HelloFits(open', link')
  BY <1>1, <1>3, <1>6 DEF HelloFits
<1>8. SendTypes' /\ UserSound' /\ ProxySound' /\ CallSound'
  <2>1. open' \subseteq Replies
    BY <1>6 DEF RepliesFit
  <2>2. msg_reset(m) \in Factories /\ msg_reset(m).fields = {}
    BY <1>5, SetterFacts
  <2> QED BY <1>1, <1>3, <1>6, <2>1, <2>2 DEF SendTypes, UserSound, ProxySound, CallSound
<1>9. SentSound'
  <2>1. Required(m) \subseteq m.fields
    BY <1>3 DEF msg_build
  <2>2. "path" \notin m.fields
    BY <1>5, OutgoingAssumption
  <2>3. Whole(x, open')
    BY <1>4, <1>5, <2>1, <2>2 DEF Whole, Required
  <2> QED BY <1>2, <1>3, <1>4, <1>5, <1>6, <2>3, OneSent
<1> QED BY <1>3, <1>6, <1>7, <1>8, <1>9 DEF SendInv

(* The signal is emitted. *)
LEMMA EmitKeeps ==
  ASSUME SendInv, SigEmit
  PROVE  SendInv'
<1> DEFINE L == Len(emitters)
           n == [c \in Conns |-> On(c, L)]
           Conn(i) == emitters[i].conn
           K(i) == On(Conn(i), i - 1)
           S(i) == SerialFrom(After(Conn(i), K(i)))
<1>1. /\ SendTypes /\ ProxySound /\ RepliesFit(open, nextSerial) /\ HelloFits(open, link) /\ UserSound
      /\ factories["signal"] \in Factories
  BY DEF SendInv, SendTypes
<1>2. /\ step = "idle" /\ emitters # <<>>
      /\ \A c \in Conns : Timely(c, On(c, L))
      /\ sent' = [i \in DOMAIN emitters |-> [conn |-> Conn(i), by |-> "signal", msg |-> Emission(i)]]
      /\ nextSerial' = [c \in Conns |-> After(c, On(c, L))]
      /\ open' = {[r EXCEPT !.age = @ + On(r.conn, L)] : r \in open}
      /\ factories' = [factories EXCEPT !["signal"] = msg_reset(Emission(L))]
      /\ UNCHANGED <<proxy, step, emitters, link>>
  BY DEF SigEmit, OutReady
<1>3. /\ L \in Nat /\ L > 0 /\ DOMAIN emitters = 1..L /\ L <= Circle - 1
      /\ Circle \in Nat /\ Circle > 2 /\ MaxSerial = Circle + 1
      /\ \A i \in 1..L : Conn(i) \in Conns /\ emitters[i].path \in ObjectPaths
  <2>1. emitters \in Seq([conn : Conns, path : ObjectPaths]) /\ L <= MaxEmitters
    BY <1>1 DEF SendTypes
  <2>2. Circle \in Nat /\ Circle > 2 /\ MaxSerial = Circle + 1 /\ MaxEmitters \in 0..(Circle - 1)
    BY OutgoingAssumption DEF Circle
  <2>3. L \in Nat /\ L > 0 /\ DOMAIN emitters = 1..L
    BY <1>2, <2>1
  <2>4. \A i \in 1..L : Conn(i) \in Conns /\ emitters[i].path \in ObjectPaths
    <3> DEFINE E == [conn : Conns, path : ObjectPaths]
    <3>1. emitters \in Seq(E)
      BY <2>1
    <3> HIDE DEF E
    <3>2. \A i \in 1..L : emitters[i] \in E
      BY <3>1
    <3> QED BY <3>2 DEF E
  <2> QED BY <2>1, <2>2, <2>3, <2>4
<1>4. \A c \in Conns : /\ \A k \in 0..L : On(c, k) \in Nat /\ On(c, k) <= k
                       /\ \A i, j \in 0..L : i <= j => On(c, i) <= On(c, j)
                       /\ \A i \in 1..L : emitters[i].conn = c => On(c, i) = On(c, i - 1) + 1
  BY <1>1, OnFacts
<1> HIDE DEF L
<1>5. n \in [Conns -> Nat] /\ \A c \in Conns : n[c] = On(c, L) /\ n[c] \in 0..(Circle - 1)
  <2>1. L \in 0..L
    BY <1>3
  <2>2. \A c \in Conns : On(c, L) \in Nat /\ On(c, L) <= L
    BY <1>4, <2>1
  <2>3. \A c \in Conns : On(c, L) \in 0..(Circle - 1)
    BY <1>3, <2>2
  <2> QED BY <2>2, <2>3
<1>6. \A i \in 1..L : /\ K(i) \in 0..(n[Conn(i)] - 1) /\ K(i) \in 0..(Circle - 1)
                      /\ Conn(i) \in Conns
  <2> TAKE i \in 1..L
  <2>1. Conn(i) \in Conns /\ i - 1 \in 0..L /\ i \in 0..L /\ L \in 0..L /\ i <= L
    BY <1>3
  <2>2. /\ On(Conn(i), i) = K(i) + 1 /\ On(Conn(i), i) <= On(Conn(i), L)
        /\ K(i) \in Nat /\ On(Conn(i), L) = n[Conn(i)] /\ n[Conn(i)] \in 0..(Circle - 1)
    BY <1>4, <1>5, <2>1
  <2> QED BY <1>3, <2>1, <2>2
<1>7. \A i, j \in 1..L : i < j /\ Conn(i) = Conn(j) => K(i) < K(j)
  <2> SUFFICES ASSUME NEW i \in 1..L, NEW j \in 1..L, i < j, Conn(i) = Conn(j)
               PROVE  K(i) < K(j)
    OBVIOUS
  <2>1. i \in 0..L /\ j - 1 \in 0..L /\ i <= j - 1
    BY <1>3
  <2>2. On(Conn(i), i) <= On(Conn(i), j - 1) /\ On(Conn(i), i) = K(i) + 1
    BY <1>4, <1>6, <2>1
  <2>3. K(j) = On(Conn(i), j - 1)
    OBVIOUS
  <2>4. K(i) \in Nat /\ K(j) \in Nat
    <3> HIDE DEF K, n, Conn
    <3> QED BY <1>3, <1>6
  <2> HIDE DEF K
  <2> QED BY <2>2, <2>3, <2>4
<1>8. \A i \in 1..L : /\ S(i) \in 1..Circle /\ Coming[Conn(i)] \in 1..Circle
                      /\ S(i) \in {Coming[Conn(i)] + K(i), Coming[Conn(i)] + K(i) - Circle}
  BY <1>1, <1>6, AfterFacts, ComingFacts
<1>9. /\ nextSerial' \in [Conns -> 1..MaxSerial]
      /\ \A c \in Conns :
           /\ SerialFrom(nextSerial'[c]) \in {Coming[c] + n[c], Coming[c] + n[c] - Circle}
           /\ nextSerial'[c] # MaxSerial => SerialFrom(nextSerial'[c]) = nextSerial'[c]
  <2>1. \A c \in Conns : nextSerial'[c] = After(c, n[c])
    BY <1>2, <1>5
  <2>2. \A c \in Conns : After(c, n[c]) \in 1..MaxSerial
    BY <1>1, <1>5, AfterFacts
  <2>3. nextSerial' \in [Conns -> 1..MaxSerial]
    BY <1>2, <1>5, <2>2
  <2>4. \A c \in Conns : /\ SerialFrom(After(c, n[c])) \in {Coming[c] + n[c], Coming[c] + n[c] - Circle}
                         /\ After(c, n[c]) # MaxSerial => SerialFrom(After(c, n[c])) = After(c, n[c])
    BY <1>1, <1>5, AfterFacts
  <2> QED BY <2>1, <2>3, <2>4
<1>10. ASSUME NEW r \in open
       PROVE  r.conn \in Conns /\ r.age + n[r.conn] <= Circle - 1
  <2>1. r.conn \in Conns /\ r.age \in 0..(Circle - 1)
    BY <1>1 DEF SendTypes, Replies
  <2>2. r.age + n[r.conn] <= MaxSerial - 2
    BY <1>2, <1>5, <2>1 DEF Timely
  <2> QED BY <1>3, <2>1, <2>2
<1>11. open' = Aged(n)
  <2> DEFINE A(r) == [r EXCEPT !.age = @ + n[r.conn]]
             B(r) == [r EXCEPT !.age = @ + On(r.conn, L)]
  <2>1. \A r \in open : A(r) = B(r)
    BY <1>5, <1>10
  <2>2. Aged(n) = {A(r) : r \in open} /\ open' = {B(r) : r \in open}
    BY <1>2 DEF Aged
  <2> HIDE DEF A, B
  <2> QED BY <2>1, <2>2
<1> HIDE DEF n, K, S, Conn
<1>12. /\ RepliesFit(open', nextSerial')
       /\ \A r \in open' : \A k \in 0..(n[r.conn] - 1), t \in 1..Circle :
            t \in {Coming[r.conn] + k, Coming[r.conn] + k - Circle} => r.serial # t
       /\ \A c \in Conns : (\E r \in open' : r.conn = c /\ r.remote = Bus)
                             <=> (\E r \in open : r.conn = c /\ r.remote = Bus)
  <2>1. /\ RepliesFit(Aged(n), nextSerial')
        /\ \A r \in Aged(n) : /\ r.age >= n[r.conn]
                              /\ \A k \in 0..(n[r.conn] - 1), t \in 1..Circle :
                                   t \in {Coming[r.conn] + k, Coming[r.conn] + k - Circle} => r.serial # t
        /\ \A c \in Conns : (\E r \in Aged(n) : r.conn = c /\ r.remote = Bus)
                              <=> (\E r \in open : r.conn = c /\ r.remote = Bus)
    BY <1>1, <1>5, <1>9, <1>10, AgedFit
  <2> QED BY <1>11, <2>1
<1>13. ASSUME NEW i \in 1..L
       PROVE  /\ Emission(i) \in Factories /\ Emission(i).type = "signal" /\ Emission(i).serial = S(i)
              /\ Emission(i).path = emitters[i].path
              /\ {"interface", "member"} \subseteq Emission(i).fields
  <2> DEFINE f == factories["signal"]
             g == msg_setfields(f, {"member", "interface"})
             h == msg_sethead(g, "signal", S(i), TRUE)
             p == emitters[i].path
  <2>1. Emission(i) = msg_setpath(h, p)
    BY DEF Emission, SignalMessage, S, K, Conn
  <2>2. g \in Factories /\ {"interface", "member"} \subseteq g.fields
    <3>1. {"member", "interface"} \in SUBSET Fields
      BY DEF Fields
    <3>2. f \in Factories
      BY <1>1
    <3> HIDE DEF f
    <3>3. f.fields \cup {"member", "interface"} \in SUBSET Fields
      BY <3>1, <3>2 DEF Factories
    <3> QED BY <3>2, <3>3 DEF Factories, msg_setfields
  <2>3. S(i) \in Int
    BY <1>3, <1>8
  <2> HIDE DEF g
  <2>4. h \in Factories /\ h.type = "signal" /\ h.serial = S(i) /\ {"interface", "member"} \subseteq h.fields
    BY <2>2, <2>3 DEF Factories, msg_sethead
  <2>5. p \in ObjectPaths \cup {BusPath}
    BY <1>3
  <2> HIDE DEF h, p
  <2>6. /\ msg_setpath(h, p) \in Factories /\ msg_setpath(h, p).path = p
        /\ msg_setpath(h, p).type = h.type /\ msg_setpath(h, p).serial = h.serial
        /\ msg_setpath(h, p).fields = h.fields
    BY <2>4, <2>5, SetterFacts
  <2> QED BY <2>1, <2>4, <2>6 DEF p
<1>14. /\ DOMAIN sent' = 1..L /\ Len(sent') = L
       /\ \A i \in 1..L : sent'[i].conn = Conn(i) /\ sent'[i].by = "signal" /\ sent'[i].msg = Emission(i)
  <2>1. sent' = [i \in 1..L |-> [conn |-> Conn(i), by |-> "signal", msg |-> Emission(i)]]
    BY <1>2, <1>3
  <2>2. DOMAIN sent' = 1..L
        /\ \A i \in 1..L : sent'[i].conn = Conn(i) /\ sent'[i].by = "signal" /\ sent'[i].msg = Emission(i)
    BY <2>1
  <2>3. Len(sent') = L
    BY <1>3, <2>1
  <2> QED BY <2>2, <2>3
<1>15. SendTypes' /\ UserSound' /\ ProxySound' /\ CallSound' /\ HelloFits(open', link')
  <2>1. open' \subseteq Replies
    BY <1>12 DEF RepliesFit
  <2>2. msg_reset(Emission(L)) \in Factories
    BY <1>3, <1>13, SetterFacts
  <2>3. SendTypes' /\ UserSound'
    BY <1>1, <1>2, <1>9, <2>1, <2>2 DEF SendTypes, UserSound
  <2> QED BY <1>1, <1>2, <1>12, <2>3 DEF ProxySound, CallSound, HelloFits
<1>16. SentSound'
  <2>1. \A i \in 1..L : S(i) \in 1..MaxSerial
    BY <1>3, <1>8
  <2>2. WireComplete'
    <3> SUFFICES ASSUME NEW i \in 1..L
                 PROVE  LET m == Emission(i)
                        IN  /\ m.serial \in 1..MaxSerial /\ m.type = "signal"
                            /\ {"interface", "member"} \subseteq m.fields
      BY <1>14 DEF WireComplete
    <3> QED BY <1>13, <2>1
  <2>3. CallRegistered'
    BY <1>14 DEF CallRegistered
  <2>4. SentApart'
    <3> SUFFICES ASSUME NEW i \in 1..L, NEW r \in open', r.conn = Conn(i), r.serial = S(i)
                 PROVE  FALSE
      BY <1>13, <1>14 DEF SentApart
    <3>1. K(i) \in 0..(n[r.conn] - 1) /\ S(i) \in 1..Circle
          /\ S(i) \in {Coming[r.conn] + K(i), Coming[r.conn] + K(i) - Circle}
      BY <1>6, <1>8
    <3> QED BY <1>12, <3>1
  <2>5. EmissionsDistinct'
    <3>1. ASSUME NEW i \in 1..L, NEW j \in 1..L, i # j, Conn(i) = Conn(j) PROVE S(i) # S(j)
      <4>1. K(i) # K(j) /\ K(i) \in 0..(Circle - 1) /\ K(j) \in 0..(Circle - 1)
        BY <1>3, <1>6, <1>7, <3>1
      <4> DEFINE at == Coming[Conn(i)]
      <4>2. at \in 1..Circle /\ S(i) \in {at + K(i), at + K(i) - Circle}
            /\ S(j) \in {at + K(j), at + K(j) - Circle}
        BY <1>8, <3>1
      <4> HIDE DEF at
      <4>3. Circle \in Nat
        BY <1>3
      <4> QED BY <4>1, <4>2, <4>3
    <3>2. ASSUME NEW i \in 1..L, nextSerial'[Conn(i)] # MaxSerial PROVE S(i) # nextSerial'[Conn(i)]
      <4> DEFINE at == Coming[Conn(i)]
                 d == n[Conn(i)]
                 next == nextSerial'[Conn(i)]
      <4>1. K(i) \in 0..(d - 1) /\ d \in 0..(Circle - 1) /\ at \in 1..Circle
            /\ S(i) \in {at + K(i), at + K(i) - Circle}
        BY <1>5, <1>6, <1>8
      <4>2. next \in {at + d, at + d - Circle}
        BY <1>6, <1>9, <3>2
      <4> HIDE DEF at, d, next
      <4>3. S(i) # next
        BY <1>3, <4>1, <4>2
      <4> QED BY <4>3 DEF next
    <3>3. emitters' = emitters
      BY <1>2
    <3>4. Len(emitters) = L
      BY DEF L
    <3>5. \A i \in 1..L : sent'[i].msg.serial = S(i) /\ sent'[i].msg.path = emitters[i].path /\ sent'[i].conn = Conn(i)
      BY <1>13, <1>14
    <3> QED BY <1>14, <3>1, <3>2, <3>3, <3>4, <3>5 DEF EmissionsDistinct
  <2> QED BY <2>2, <2>3, <2>4, <2>5 DEF SentSound
<1> QED BY <1>12, <1>15, <1>16 DEF SendInv

LEMMA SendInit == OutInit => SendInv
<1> SUFFICES ASSUME OutInit PROVE SendInv
  OBVIOUS
<1>1. EmptyFactory \in Factories /\ EmptyFactory.fields = {}
  BY DEF EmptyFactory, Factories
<1>2. open = {} /\ sent = <<>> /\ emitters = <<>> /\ step = "idle" /\ proxy = NoProxy
  BY DEF OutInit
<1>3. SendTypes /\ UserSound
  <2>1. nextSerial \in [Conns -> 1..MaxSerial] /\ link \in [Conns -> {"new", "asked", "connected"}]
    BY OutgoingAssumption DEF OutInit
  <2>2. factories \in [{"proxy", "signal", "user"} -> Factories] /\ factories["user"].fields = {}
    BY <1>1 DEF OutInit
  <2>3. emitters \in Seq([conn : Conns, path : ObjectPaths]) /\ Len(emitters) <= MaxEmitters
    BY <1>2, OutgoingAssumption
  <2> QED BY <1>2, <2>1, <2>2, <2>3 DEF SendTypes, UserSound
<1>4. ProxySound
  BY <1>2 DEF ProxySound, NoProxy
<1>5. RepliesFit(open, nextSerial) /\ HelloFits(open, link)
  BY <1>2 DEF RepliesFit, HelloFits, OutInit
<1>6. CallSound /\ SentSound
  BY <1>2 DEF CallSound, SentSound, WireComplete, SentApart, CallRegistered, EmissionsDistinct
<1> QED BY <1>3, <1>4, <1>5, <1>6 DEF SendInv

LEMMA SendStep == SendInv /\ [OutNext]_outVars => SendInv'
<1> SUFFICES ASSUME SendInv, [OutNext]_outVars PROVE SendInv'
  OBVIOUS
<1>1. CASE UNCHANGED outVars
  BY <1>1 DEF outVars, SendInv, SendTypes, ProxySound, RepliesFit, HelloFits, CallSound, UserSound,
     SentSound, WireComplete, SentApart, CallRegistered, EmissionsDistinct
<1>2. CASE OutNext
  BY <1>2, QuietKeeps, CallsKeep, SendKeeps, AnswersKeep, ConnectKeeps, EmitKeeps, UserKeeps DEF OutNext
<1> QED BY <1>1, <1>2

(* Whatever a program sends through its proxies, signals and factories (adbus/proxy.c,
   adbus/signal.c, adbus/message.c), over the wrap of the serials: messages are complete,
   their serials tell them apart, and an answer finds the call that it is for. *)
THEOREM SendingIsSound == OutSpec => []SendingSound
<1>1. SendInv => SendingSound
  <2> SUFFICES ASSUME SendInv PROVE SendingSound
    OBVIOUS
  <2>1. /\ SentSound /\ RepliesFit(open, nextSerial) /\ HelloFits(open, link)
        /\ nextSerial \in [Conns -> 1..MaxSerial] /\ link \in [Conns -> {"new", "asked", "connected"}]
    BY DEF SendInv, SendTypes
  <2>2. /\ \A q, r \in open : q.conn = r.conn /\ q.serial = r.serial => q = r
        /\ ConnectsOnce
    BY <2>1, FitsMeans DEF ConnectsOnce, IsConnected
  <2> QED BY <2>1, <2>2 DEF SendingSound, SentSound, SentApart, OpenDistinct
<1> QED BY <1>1, SendInit, SendStep, PTL DEF OutSpec

-----------------------------------------------------------------------------
(* Interfaces *)

(* The release callbacks of members have been given, each to one member. *)
ReleasesApart ==
  /\ \A n \in Existing : mbrs[n].release \subseteq DOMAIN released
  /\ \A m, n \in Existing : m # n => mbrs[m].release \cap mbrs[n].release = {}

Requests == [op : {"none", "call", "get", "set", "getall", "aborted"}, todo : SUBSET MemberNames, reply : BOOLEAN]

IfaceInv ==
  /\ IfaceTypeOK /\ IfaceCounted /\ ReleasesCalled /\ ReleasesApart /\ ErrorsAnswered
  /\ call \in Requests /\ (call.op = "none" => call.todo = {})

(* The references of the creator and of the request that is served. *)
Held == IF owned THEN 1 ELSE 0
Served == IF call.op = "none" THEN 0 ELSE 1

LEMMA MembersSame ==
  ASSUME IfaceTypeOK, ReleasesCalled, ReleasesApart, UNCHANGED <<mbrs, released>>
  PROVE  ReleasesCalled' /\ ReleasesApart' /\ Existing' = Existing
         /\ mbrs' \in [MemberNames -> Members \cup {NoMember}] /\ released' \in Seq(Nat)
BY DEF IfaceTypeOK, ReleasesCalled, ReleasesApart, Existing

(* Members are freed. *)
LEMMA Freed ==
  ASSUME IfaceTypeOK, NEW ns \in SUBSET Existing
  PROVE  /\ FreeMember(ns) \in Seq(Nat) /\ DOMAIN FreeMember(ns) = DOMAIN released
         /\ \A k \in DOMAIN released :
              FreeMember(ns)[k] = IF \E n \in ns : k \in mbrs[n].release THEN released[k] + 1 ELSE released[k]
<1> DEFINE f == FreeMember(ns)
<1>1. released \in Seq(Nat) /\ DOMAIN released = 1..Len(released) /\ Len(released) \in Nat
  BY DEF IfaceTypeOK
<1>2. \A k \in DOMAIN released : released[k] \in Nat
  BY <1>1
<1>3. \A k \in DOMAIN released :
        f[k] = IF \E n \in ns : k \in mbrs[n].release THEN released[k] + 1 ELSE released[k]
  BY <1>2 DEF FreeMember
<1>4. DOMAIN f = DOMAIN released
  BY DEF FreeMember
<1>5. \A k \in DOMAIN released : f[k] \in Nat
  BY <1>2, <1>3
<1>6. f = [k \in 1..Len(released) |-> f[k]]
  BY <1>1 DEF FreeMember
<1> HIDE DEF f
<1>7. f \in Seq(Nat)
  BY <1>1, <1>5, <1>6
<1> QED BY <1>3, <1>4, <1>7 DEF f

(* The members and the counters of release callbacks, when the last reference goes. *)
LEMMA AllFreed ==
  ASSUME IfaceTypeOK, ReleasesCalled, ReleasesApart,
         mbrs' = [n \in MemberNames |-> NoMember], released' = FreeMember(Existing)
  PROVE  ReleasesCalled' /\ ReleasesApart' /\ Existing' = {}
         /\ mbrs' \in [MemberNames -> Members \cup {NoMember}] /\ released' \in Seq(Nat)
<1>1. /\ FreeMember(Existing) \in Seq(Nat) /\ DOMAIN FreeMember(Existing) = DOMAIN released
      /\ \A k \in DOMAIN released :
           FreeMember(Existing)[k] = IF \E n \in Existing : k \in mbrs[n].release THEN released[k] + 1 ELSE released[k]
  BY Freed
<1>2. Existing' = {}
  BY DEF Existing
<1>3. \A k \in DOMAIN released : released'[k] = 1
  <2> TAKE k \in DOMAIN released
  <2>1. released[k] = IF \E n \in Existing : k \in mbrs[n].release THEN 0 ELSE 1
    BY DEF ReleasesCalled
  <2> QED BY <1>1, <2>1
<1>4. ReleasesCalled'
  BY <1>1, <1>2, <1>3 DEF ReleasesCalled
<1> QED BY <1>1, <1>2, <1>4 DEF ReleasesApart

(* A member is made, possibly in place of another. *)
LEMMA Replaced ==
  ASSUME IfaceTypeOK, ReleasesCalled, ReleasesApart, NEW n \in MemberNames, NEW m \in Members,
         m.release = {},
         mbrs' = [mbrs EXCEPT ![n] = m], released' = FreeMember({n} \cap Existing)
  PROVE  ReleasesCalled' /\ ReleasesApart'
         /\ mbrs' \in [MemberNames -> Members \cup {NoMember}] /\ released' \in Seq(Nat)
<1> DEFINE F == {n} \cap Existing
<1>1. /\ FreeMember(F) \in Seq(Nat) /\ DOMAIN FreeMember(F) = DOMAIN released
      /\ \A k \in DOMAIN released :
           FreeMember(F)[k] = IF \E x \in F : k \in mbrs[x].release THEN released[k] + 1 ELSE released[k]
  <2>1. F \in SUBSET Existing
    OBVIOUS
  <2> HIDE DEF F
  <2> QED BY <2>1, Freed
<1>2. mbrs \in [MemberNames -> Members \cup {NoMember}]
  BY DEF IfaceTypeOK
<1>3. mbrs' \in [MemberNames -> Members \cup {NoMember}] /\ mbrs'[n] = m
      /\ \A x \in MemberNames : x # n => mbrs'[x] = mbrs[x]
  BY <1>2
<1>4. Existing' = Existing \cup {n}
  BY <1>3, MemberAssumption DEF Existing
<1>5. ReleasesApart'
  <2>1. \A x \in Existing' : mbrs'[x].release \subseteq DOMAIN released'
    BY <1>1, <1>3, <1>4 DEF ReleasesApart, Existing
  <2>2. \A x, y \in Existing' : x # y => mbrs'[x].release \cap mbrs'[y].release = {}
    BY <1>3, <1>4 DEF ReleasesApart, Existing
  <2> QED BY <2>1, <2>2 DEF ReleasesApart
<1>6. ASSUME NEW k \in DOMAIN released
      PROVE  released'[k] = IF \E x \in Existing' : k \in mbrs'[x].release THEN 0 ELSE 1
  <2>1. released[k] = IF \E x \in Existing : k \in mbrs[x].release THEN 0 ELSE 1
    BY DEF ReleasesCalled
  <2>2. \A x \in Existing : x # n => mbrs'[x].release = mbrs[x].release
    BY <1>3 DEF Existing
  <2>3. CASE n \in Existing /\ k \in mbrs[n].release
    <3>1. released'[k] = 1
      <4>1. n \in F /\ \E x \in Existing : k \in mbrs[x].release
        BY <2>3
      <4> HIDE DEF F
      <4>2. released'[k] = released[k] + 1 /\ released[k] = 0
        BY <1>1, <2>1, <2>3, <4>1 DEF F
      <4> QED BY <4>2
    <3>2. ~\E x \in Existing' : k \in mbrs'[x].release
      BY <1>3, <1>4, <2>2, <2>3 DEF ReleasesApart
    <3> QED BY <3>1, <3>2
  <2>4. CASE ~(n \in Existing /\ k \in mbrs[n].release)
    <3>1. released'[k] = released[k]
      BY <1>1, <2>4
    <3>2. (\E x \in Existing' : k \in mbrs'[x].release) <=> (\E x \in Existing : k \in mbrs[x].release)
      BY <1>3, <1>4, <2>2, <2>4
    <3> QED BY <2>1, <3>1, <3>2
  <2> QED BY <2>3, <2>4
<1>7. ReleasesCalled'
  BY <1>1, <1>6 DEF ReleasesCalled
<1> QED BY <1>1, <1>3, <1>5, <1>7

(* A member is changed, but not its release callbacks. *)
LEMMA Changed ==
  ASSUME IfaceTypeOK, ReleasesCalled, ReleasesApart, NEW n \in Existing, NEW m \in Members,
         m.release = mbrs[n].release, mbrs' = [mbrs EXCEPT ![n] = m], released' = released
  PROVE  ReleasesCalled' /\ ReleasesApart'
         /\ mbrs' \in [MemberNames -> Members \cup {NoMember}] /\ released' \in Seq(Nat)
<1>1. mbrs \in [MemberNames -> Members \cup {NoMember}] /\ released \in Seq(Nat) /\ n \in MemberNames
  BY DEF IfaceTypeOK, Existing
<1>2. mbrs' \in [MemberNames -> Members \cup {NoMember}] /\ mbrs'[n] = m
      /\ \A x \in MemberNames : x # n => mbrs'[x] = mbrs[x]
  BY <1>1
<1>3. Existing' = Existing
  BY <1>1, <1>2, MemberAssumption DEF Existing
<1>4. \A x \in Existing : mbrs'[x].release = mbrs[x].release
  BY <1>2 DEF Existing
<1>5. ReleasesCalled' /\ ReleasesApart'
  BY <1>3, <1>4 DEF ReleasesCalled, ReleasesApart
<1> QED BY <1>1, <1>2, <1>5

(* A release callback is given to a member. *)
LEMMA Given ==
  ASSUME IfaceTypeOK, ReleasesCalled, ReleasesApart, NEW n \in MemberNames, AddRelease(n)
  PROVE  ReleasesCalled' /\ ReleasesApart'
         /\ mbrs' \in [MemberNames -> Members \cup {NoMember}] /\ released' \in Seq(Nat)
<1> DEFINE new == Len(released) + 1
           old == mbrs[n].release
           m == [mbrs[n] EXCEPT !.release = old \cup {new}]
<1>1. /\ mbrs \in [MemberNames -> Members \cup {NoMember}] /\ released \in Seq(Nat)
      /\ Len(released) \in Nat /\ DOMAIN released = 1..Len(released) /\ n \in Existing
  BY DEF IfaceTypeOK, AddRelease
<1>2. mbrs[n] \in Members
  BY <1>1 DEF Existing
<1>3. m \in Members /\ m.release = old \cup {new}
  <2>1. old \cup {new} \in SUBSET Nat
    BY <1>1, <1>2 DEF Members
  <2> HIDE DEF new
  <2> QED BY <1>2, <2>1 DEF Members
<1>4. mbrs' = [mbrs EXCEPT ![n] = m] /\ released' = Append(released, 0)
  BY DEF AddRelease
<1> HIDE DEF m, old
<1>5. mbrs' \in [MemberNames -> Members \cup {NoMember}] /\ mbrs'[n] = m
      /\ \A x \in MemberNames : x # n => mbrs'[x] = mbrs[x]
  BY <1>1, <1>3, <1>4
<1>6. /\ released' \in Seq(Nat) /\ DOMAIN released' = DOMAIN released \cup {new}
      /\ released'[new] = 0 /\ \A k \in DOMAIN released : released'[k] = released[k]
      /\ new \notin DOMAIN released
  BY <1>1, <1>4
<1> HIDE DEF new
<1>7. Existing' = Existing
  BY <1>1, <1>3, <1>5, MemberAssumption DEF Existing
<1>8. \A x \in Existing : x # n => mbrs'[x].release = mbrs[x].release
  BY <1>5 DEF Existing
<1>9. mbrs'[n].release = mbrs[n].release \cup {new}
  BY <1>3, <1>5 DEF old
<1>10. ReleasesApart'
  <2>1. \A x \in Existing' : mbrs'[x].release \subseteq DOMAIN released'
    BY <1>6, <1>7, <1>8, <1>9 DEF ReleasesApart
  <2>2. \A x \in Existing : new \notin mbrs[x].release
    BY <1>6 DEF ReleasesApart
  <2>3. \A x, y \in Existing' : x # y => mbrs'[x].release \cap mbrs'[y].release = {}
    BY <1>7, <1>8, <1>9, <2>2 DEF ReleasesApart
  <2> QED BY <2>1, <2>3 DEF ReleasesApart
<1>11. ReleasesCalled'
  <2>1. ASSUME NEW k \in DOMAIN released
        PROVE  (\E x \in Existing' : k \in mbrs'[x].release) <=> (\E x \in Existing : k \in mbrs[x].release)
    BY <1>1, <1>6, <1>7, <1>8, <1>9
  <2>2. \E x \in Existing' : new \in mbrs'[x].release
    BY <1>1, <1>7, <1>9
  <2> QED BY <1>6, <2>1, <2>2 DEF ReleasesCalled
<1> QED BY <1>5, <1>6, <1>10, <1>11

(* A reference is given back. *)
LEMMA DerefKeeps ==
  ASSUME IfaceInv, IfaceDeref, irefs > 0
  PROVE  /\ ReleasesCalled' /\ ReleasesApart'
         /\ mbrs' \in [MemberNames -> Members \cup {NoMember}] /\ released' \in Seq(Nat)
         /\ irefs' \in Nat /\ irefs' = irefs - 1
         /\ irefs # 1 => Existing' = Existing
<1>1. IfaceTypeOK /\ ReleasesCalled /\ ReleasesApart /\ irefs \in Nat
  BY DEF IfaceInv, IfaceTypeOK
<1>2. irefs' = irefs - 1 /\ irefs' \in Nat
  BY <1>1 DEF IfaceDeref
<1>3. CASE irefs = 1
  BY <1>1, <1>2, <1>3, AllFreed DEF IfaceDeref
<1>4. CASE irefs # 1
  BY <1>1, <1>2, <1>4, MembersSame DEF IfaceDeref
<1> QED BY <1>3, <1>4

(* What the invariant says of the counts, and of the request. *)
LEMMA Counts ==
  ASSUME IfaceInv
  PROVE  /\ irefs \in Nat /\ ibinds \in Nat /\ ibinds <= MaxBinds /\ jumps \in Nat /\ MaxBinds \in Nat
         /\ irefs = Held + ibinds + Served + jumps /\ Held \in 0..1 /\ Served \in 0..1
BY InterfaceAssumption DEF IfaceInv, IfaceTypeOK, IfaceCounted, Held, Served

LEMMA Numbers ==
  ASSUME IfaceInv
  PROVE  /\ owned \in BOOLEAN /\ (owned => Held = 1)
         /\ (call.op = "none" <=> Served = 0)
         /\ call.todo \subseteq Existing /\ call \in Requests /\ (call.op = "none" => call.todo = {})
BY DEF IfaceInv, IfaceTypeOK, IfaceCounted, Held, Served

LEMMA BuildKeeps ==
  ASSUME IfaceInv, NEW n \in MemberNames,
         \/ \E type \in {"method", "signal"} : AddMethod(n, type, NoMember)
         \/ \E ptype \in PropTypes : AddMethod(n, "property", ptype)
         \/ \E which \in {"method", "getter", "setter"} : SetCallback(n, which)
         \/ AddRelease(n) \/ AddArgument(n)
  PROVE  IfaceInv'
<1>1. IfaceTypeOK /\ ReleasesCalled /\ ReleasesApart /\ mbrs \in [MemberNames -> Members \cup {NoMember}]
  BY DEF IfaceInv, IfaceTypeOK
<1>2. /\ UNCHANGED <<irefs, owned, ibinds, call, answer, jumps, ended>>
      /\ call.op = "none"
  BY DEF AddMethod, SetCallback, AddRelease, AddArgument, Building
<1>3. ReleasesCalled' /\ ReleasesApart'
      /\ mbrs' \in [MemberNames -> Members \cup {NoMember}] /\ released' \in Seq(Nat)
  <2>1. ASSUME NEW type \in MemberTypes, NEW ptype \in PropTypes \cup {NoMember}, AddMethod(n, type, ptype)
        PROVE  ReleasesCalled' /\ ReleasesApart'
               /\ mbrs' \in [MemberNames -> Members \cup {NoMember}] /\ released' \in Seq(Nat)
    <3> DEFINE m == NewMember(type, ptype)
    <3>1. m \in Members /\ m.release = {}
      BY DEF NewMember, Members
    <3>2. mbrs' = [mbrs EXCEPT ![n] = m] /\ released' = FreeMember({n} \cap Existing)
      BY <2>1 DEF AddMethod
    <3> HIDE DEF m
    <3> QED BY <1>1, <3>1, <3>2, Replaced
  <2>2. CASE AddRelease(n)
    BY <1>1, <2>2, Given
  <2>3. ASSUME NEW m \in Members, n \in Existing, m.release = mbrs[n].release,
               mbrs' = [mbrs EXCEPT ![n] = m], released' = released
        PROVE  ReleasesCalled' /\ ReleasesApart'
               /\ mbrs' \in [MemberNames -> Members \cup {NoMember}] /\ released' \in Seq(Nat)
    BY <1>1, <2>3, Changed
  <2>4. n \in Existing => mbrs[n] \in Members
    BY <1>1 DEF Existing
  <2>5. ASSUME NEW which \in {"method", "getter", "setter"}, SetCallback(n, which)
        PROVE  ReleasesCalled' /\ ReleasesApart'
               /\ mbrs' \in [MemberNames -> Members \cup {NoMember}] /\ released' \in Seq(Nat)
    <3> DEFINE m == [mbrs[n] EXCEPT ![which] = TRUE]
    <3>1. n \in Existing /\ mbrs' = [mbrs EXCEPT ![n] = m] /\ released' = released
      BY <2>5 DEF SetCallback
    <3>2. m \in Members /\ m.release = mbrs[n].release
      <4>1. CASE which = "method"
        BY <2>4, <3>1, <4>1 DEF Members
      <4>2. CASE which = "getter"
        BY <2>4, <3>1, <4>2 DEF Members
      <4>3. CASE which = "setter"
        BY <2>4, <3>1, <4>3 DEF Members
      <4> QED BY <4>1, <4>2, <4>3
    <3> HIDE DEF m
    <3> QED BY <2>3, <3>1, <3>2
  <2>6. CASE AddArgument(n)
    <3> DEFINE m == [mbrs[n] EXCEPT !.args = 1, !.argnames = 1]
    <3>1. n \in Existing /\ mbrs' = [mbrs EXCEPT ![n] = m] /\ released' = released
      BY <1>1, <2>6 DEF AddArgument
    <3>2. m \in Members /\ m.release = mbrs[n].release
      <4>1. 1 \in 0..1
        OBVIOUS
      <4> QED BY <2>4, <3>1, <4>1 DEF Members
    <3> HIDE DEF m
    <3> QED BY <2>3, <3>1, <3>2
  <2>7. {"method", "signal", "property"} = MemberTypes
    BY DEF MemberTypes
  <2> QED BY <2>1, <2>2, <2>5, <2>6, <2>7
<1>4. IfaceTypeOK'
  BY <1>1, <1>2, <1>3 DEF IfaceTypeOK
<1>5. IfaceCounted' /\ ErrorsAnswered' /\ call' \in Requests /\ (call'.op = "none" => call'.todo = {})
  <2>1. call'.todo = {}
    BY <1>2, Numbers
  <2> QED BY <1>2, <2>1, Numbers DEF IfaceInv, IfaceCounted, ErrorsAnswered
<1> QED BY <1>3, <1>4, <1>5 DEF IfaceInv

(* A reference is taken or given back, but for a request. *)
LEMMA HoldersKeep ==
  ASSUME IfaceInv, BindIface \/ UnbindIface \/ DropIface
  PROVE  IfaceInv'
<1>1. IfaceTypeOK /\ ReleasesCalled /\ ReleasesApart
  BY DEF IfaceInv
<1>2. UNCHANGED <<call, answer, jumps, ended>>
  BY DEF BindIface, UnbindIface, DropIface
<1>3. ErrorsAnswered' /\ call' \in Requests /\ (call'.op = "none" => call'.todo = {})
  BY <1>2, Numbers DEF IfaceInv, ErrorsAnswered
<1>4. CASE BindIface
  <2>1. UNCHANGED <<mbrs, released, owned>> /\ owned /\ irefs' = irefs + 1 /\ ibinds' = ibinds + 1 /\ ibinds < MaxBinds
    BY <1>4 DEF BindIface
  <2>2. /\ ReleasesCalled' /\ ReleasesApart' /\ Existing' = Existing
        /\ mbrs' \in [MemberNames -> Members \cup {NoMember}] /\ released' \in Seq(Nat)
    BY <1>1, <2>1, MembersSame
  <2>3. Held' = Held /\ Served' = Served
    BY <1>2, <2>1 DEF Held, Served
  <2>4. irefs' = Held' + ibinds' + Served' + jumps' /\ irefs' \in Nat /\ ibinds' \in 0..MaxBinds
    BY <1>2, <2>1, <2>3, Counts
  <2>5. call'.todo \subseteq Existing' /\ owned' \in BOOLEAN /\ jumps' \in Nat
    BY <1>2, <2>1, <2>2, Numbers, Counts
  <2>6. IfaceTypeOK' /\ IfaceCounted'
    BY <2>2, <2>4, <2>5 DEF IfaceTypeOK, IfaceCounted, Held, Served
  <2> QED BY <1>3, <2>2, <2>6 DEF IfaceInv
<1>5. CASE UnbindIface \/ DropIface
  <2>1. /\ IfaceDeref
        /\ \/ ibinds > 0 /\ ibinds' = ibinds - 1 /\ owned' = owned
           \/ owned /\ owned' = FALSE /\ ibinds' = ibinds
    BY <1>5 DEF UnbindIface, DropIface
  <2>2. \/ ibinds > 0
        \/ Held = 1
    BY <2>1, Numbers
  <2>3. irefs > 0 /\ (irefs = 1 => Served = 0)
    BY <2>2, Counts
  <2>4. /\ ReleasesCalled' /\ ReleasesApart'
        /\ mbrs' \in [MemberNames -> Members \cup {NoMember}] /\ released' \in Seq(Nat)
        /\ irefs' \in Nat /\ irefs' = irefs - 1
        /\ irefs # 1 => Existing' = Existing
    BY <2>1, <2>3, DerefKeeps
  <2>5. irefs = 1 => call.op = "none"
    BY <2>3, Numbers
  <2>6. call'.todo \subseteq Existing'
    BY <1>2, <2>4, <2>5, Numbers
  <2>7. Served' = Served
    BY <1>2 DEF Served
  <2>8. owned' \in BOOLEAN
    BY <2>1, Numbers
  <2>9. \/ ibinds > 0 /\ ibinds' = ibinds - 1 /\ Held' = Held
        \/ Held = 1 /\ Held' = 0 /\ ibinds' = ibinds
    <3>1. CASE ibinds > 0 /\ ibinds' = ibinds - 1 /\ owned' = owned
      <4>1. Held' = Held
        BY <3>1 DEF Held
      <4> QED BY <3>1, <4>1
    <3>2. CASE owned /\ owned' = FALSE /\ ibinds' = ibinds
      <4>1. Held = 1 /\ Held' = 0
        BY <3>2 DEF Held
      <4> QED BY <3>2, <4>1
    <3> QED BY <2>1, <3>1, <3>2
  <2>10. irefs' = irefs - 1 /\ jumps' = jumps
    BY <1>2, <2>4
  <2>11. irefs' = Held' + ibinds' + Served' + jumps' /\ ibinds' \in 0..MaxBinds /\ jumps' \in Nat
    BY <2>7, <2>9, <2>10, Counts
  <2>12. IfaceTypeOK' /\ IfaceCounted'
    BY <2>4, <2>6, <2>11, <2>8 DEF IfaceTypeOK, IfaceCounted, Held, Served
  <2> QED BY <1>3, <2>4, <2>12 DEF IfaceInv
<1> QED BY <1>4, <1>5

(* A request that is answered at once, and one that is served. *)
LEMMA AnswerKeeps ==
  ASSUME IfaceInv, IfaceAsked, NEW reply \in BOOLEAN, NEW what, what # "fail", AnswerWith(reply, what)
  PROVE  IfaceInv'
<1>1. IfaceTypeOK /\ ReleasesCalled /\ ReleasesApart
  BY DEF IfaceInv
<1>2. /\ UNCHANGED <<mbrs, owned, ibinds, released, jumps, irefs, call>> /\ answer' # "fail"
  BY DEF IfaceAsked, AnswerWith
<1>3. /\ ReleasesCalled' /\ ReleasesApart' /\ Existing' = Existing
      /\ mbrs' \in [MemberNames -> Members \cup {NoMember}] /\ released' \in Seq(Nat)
  BY <1>1, <1>2, MembersSame
<1>4. IfaceTypeOK' /\ IfaceCounted' /\ call' \in Requests /\ (call'.op = "none" => call'.todo = {})
  BY <1>1, <1>2, <1>3, Numbers DEF IfaceInv, IfaceTypeOK, IfaceCounted
<1> QED BY <1>2, <1>3, <1>4 DEF IfaceInv, ErrorsAnswered

LEMMA ServeKeeps ==
  ASSUME IfaceInv, IfaceAsked, NEW op \in {"call", "get", "set", "getall"},
         NEW todo \in SUBSET Existing, NEW reply \in BOOLEAN, ServeCall(op, todo, reply)
  PROVE  IfaceInv'
<1>1. IfaceTypeOK /\ ReleasesCalled /\ ReleasesApart
  BY DEF IfaceInv
<1>2. /\ UNCHANGED <<mbrs, owned, ibinds, released, jumps>> /\ answer' # "fail" /\ irefs' = irefs + 1
      /\ call' = [op |-> op, todo |-> todo, reply |-> reply] /\ call.op = "none"
  BY DEF IfaceAsked, ServeCall
<1>3. /\ ReleasesCalled' /\ ReleasesApart' /\ Existing' = Existing
      /\ mbrs' \in [MemberNames -> Members \cup {NoMember}] /\ released' \in Seq(Nat)
  BY <1>1, <1>2, MembersSame
<1>4. call' \in Requests /\ call'.op # "none" /\ call'.todo \subseteq Existing
  <2>1. todo \in SUBSET MemberNames
    BY DEF Existing
  <2> QED BY <1>2, <2>1 DEF Requests
<1>5. Held' = Held /\ Served = 0 /\ Served' = 1
  BY <1>2, <1>4 DEF Held, Served
<1>6. irefs' = Held' + ibinds' + Served' + jumps' /\ irefs' \in Nat
  BY <1>2, <1>5, Counts
<1>7. IfaceTypeOK' /\ IfaceCounted'
  BY <1>1, <1>2, <1>3, <1>4, <1>6 DEF IfaceTypeOK, IfaceCounted, Held, Served
<1> QED BY <1>2, <1>3, <1>4, <1>7 DEF IfaceInv, ErrorsAnswered

(* A request comes. *)
LEMMA AskedKeeps ==
  ASSUME IfaceInv,
         \/ \E n \in MemberNames, reply \in BOOLEAN :
              \/ CallMember(n, reply) \/ GetProperty(n, reply)
              \/ \E sig \in PropTypes \cup {NoMember} : SetProperty(n, sig, reply)
         \/ \E reply \in BOOLEAN :
              \/ GetAllProperties(reply) \/ IntrospectIface(reply) \/ Malformed(reply)
              \/ OtherInterface(reply)
  PROVE  IfaceInv'
<1>1. ASSUME IfaceAsked, NEW reply \in BOOLEAN,
             \/ \E what \in {error_argument, interfaceError, methodError, propertyError,
                             propWriteError, propReadError, propTypeError, "none", "xml", "assert"} :
                  AnswerWith(reply, what)
             \/ \E op \in {"call", "get", "set", "getall"}, todo \in SUBSET Existing :
                  ServeCall(op, todo, reply)
      PROVE  IfaceInv'
  <2>1. "fail" \notin {error_argument, interfaceError, methodError, propertyError,
                       propWriteError, propReadError, propTypeError, "none", "xml", "assert"}
    BY DEF error_argument, interfaceError, methodError, propertyError, propWriteError,
           propReadError, propTypeError
  <2> QED BY <1>1, <2>1, AnswerKeeps, ServeKeeps
<1>2. ASSUME NEW n \in MemberNames, NEW reply \in BOOLEAN, CallMember(n, reply)
      PROVE  IfaceInv'
  <2>1. Find(n, "method") => {n} \in SUBSET Existing
    BY DEF Find
  <2> QED BY <1>1, <1>2, <2>1 DEF CallMember
<1>3. ASSUME NEW n \in MemberNames, NEW reply \in BOOLEAN, GetProperty(n, reply)
      PROVE  IfaceInv'
  <2>1. Find(n, "property") => {n} \in SUBSET Existing
    BY DEF Find
  <2> QED BY <1>1, <1>3, <2>1 DEF GetProperty
<1>4. ASSUME NEW n \in MemberNames, NEW reply \in BOOLEAN, NEW sig, SetProperty(n, sig, reply)
      PROVE  IfaceInv'
  <2>1. Find(n, "property") => {n} \in SUBSET Existing
    BY DEF Find
  <2> QED BY <1>1, <1>4, <2>1 DEF SetProperty
<1>5. ASSUME NEW reply \in BOOLEAN, GetAllProperties(reply)
      PROVE  IfaceInv'
  <2> DEFINE todo == {n \in Existing : Find(n, "property") /\ mbrs[n].getter}
  <2>1. todo \in SUBSET Existing
    OBVIOUS
  <2>2. IfaceAsked /\ (AnswerWith(reply, "none") \/ ServeCall("getall", todo, reply))
    BY <1>5 DEF GetAllProperties
  <2> HIDE DEF todo
  <2> QED BY <1>1, <2>1, <2>2
<1>6. ASSUME NEW reply \in BOOLEAN, IntrospectIface(reply)
      PROVE  IfaceInv'
  BY <1>1, <1>6 DEF IntrospectIface
<1>7. ASSUME NEW reply \in BOOLEAN, Malformed(reply) \/ OtherInterface(reply)
      PROVE  IfaceInv'
  BY <1>1, <1>7 DEF Malformed, OtherInterface
<1> QED BY <1>2, <1>3, <1>4, <1>5, <1>6, <1>7

(* A request ends: its reference is given back unless its callback jumped. *)
LEMMA EndKeeps ==
  ASSUME IfaceInv, call.op # "none", call' = NoCall, UNCHANGED <<owned, ibinds>>,
         \/ IfaceDeref /\ UNCHANGED jumps
         \/ jumps' = jumps + 1 /\ UNCHANGED <<mbrs, irefs, released>>,
         ErrorsAnswered'
  PROVE  IfaceInv'
<1>1. IfaceTypeOK /\ ReleasesCalled /\ ReleasesApart
  BY DEF IfaceInv
<1>2. call' \in Requests /\ call'.op = "none" /\ call'.todo = {}
  BY DEF NoCall, Requests
<1>3. /\ ReleasesCalled' /\ ReleasesApart'
      /\ mbrs' \in [MemberNames -> Members \cup {NoMember}] /\ released' \in Seq(Nat)
      /\ irefs' \in Nat
      /\ \/ irefs' = irefs - 1 /\ jumps' = jumps
         \/ irefs' = irefs /\ jumps' = jumps + 1
  <2>1. CASE IfaceDeref /\ UNCHANGED jumps
    <3>1. Served = 1
      BY DEF Served
    <3>2. irefs > 0
      BY <3>1, Counts
    <3> QED BY <2>1, <3>2, DerefKeeps
  <2>2. CASE jumps' = jumps + 1 /\ UNCHANGED <<mbrs, irefs, released>>
    BY <1>1, <2>2, MembersSame, Counts
  <2> QED BY <2>1, <2>2
<1>4. Held' = Held /\ Served' = 0 /\ Served = 1
  BY <1>2 DEF Held, Served
<1>5. irefs' = Held' + ibinds' + Served' + jumps' /\ ibinds' \in 0..MaxBinds /\ jumps' \in Nat
  <2>1. ibinds' = ibinds /\ \/ irefs' = irefs - 1 /\ jumps' = jumps
                            \/ irefs' = irefs /\ jumps' = jumps + 1
    BY <1>3
  <2> QED BY <1>4, <2>1, Counts
<1>6. owned' \in BOOLEAN
  BY Numbers
<1>7. IfaceTypeOK' /\ IfaceCounted'
  BY <1>2, <1>3, <1>5, <1>6 DEF IfaceTypeOK, IfaceCounted, Held, Served
<1> QED BY <1>2, <1>3, <1>7 DEF IfaceInv

LEMMA EndsKeep ==
  ASSUME IfaceInv,
         \/ GetAllEnds
         \/ \E end \in Ends["call"] : DoCall(end)
         \/ \E end \in Ends["get"] : ProxiedGetProperty(end)
         \/ \E end \in Ends["set"] : ProxiedSetProperty(end)
         \/ \E end \in Ends["getall"] \ {"ok"} : GetterFails(end)
  PROVE  IfaceInv'
<1>1. \A op \in {"call", "get", "set", "getall"} : Ends[op] \subseteq {"ok", "error", "jump", "fail"}
  BY InterfaceAssumption
<1>2. CASE GetAllEnds
  <2>1. /\ call.op # "none" /\ call' = NoCall /\ UNCHANGED <<owned, ibinds>>
        /\ IfaceDeref /\ UNCHANGED jumps /\ answer' # "fail"
    BY <1>2 DEF GetAllEnds, EndCall
  <2> QED BY <2>1, EndKeeps DEF ErrorsAnswered
<1>3. ASSUME NEW op \in {"call", "get", "set"}, NEW end, Ended(op, end, Outcome(end)),
             (IfaceDeref /\ UNCHANGED jumps) \/ DerefUnlessJump(end)
      PROVE  IfaceInv'
  <2>1. /\ call.op # "none" /\ call' = NoCall /\ UNCHANGED <<owned, ibinds>>
        /\ end \in {"ok", "error", "jump", "fail"}
        /\ ended' = IF Outcome(end) = "fail" THEN [op |-> op, how |-> end] ELSE NoEnd
        /\ answer' = IF call.reply \/ Outcome(end) = "fail" THEN Outcome(end) ELSE "none"
    BY <1>1, <1>3 DEF Ended, EndCall
  <2>2. answer' = "fail" => ended'.how = "fail"
    BY <2>1 DEF Outcome
  <2>3. \/ IfaceDeref /\ UNCHANGED jumps
        \/ jumps' = jumps + 1 /\ UNCHANGED <<mbrs, irefs, released>>
    BY <1>3 DEF DerefUnlessJump
  <2>4. ErrorsAnswered'
    BY <2>2 DEF ErrorsAnswered
  <2> QED BY <2>1, <2>3, <2>4, EndKeeps
<1>4. ASSUME NEW end, GetterFails(end)
      PROVE  IfaceInv'
  <2>1. /\ call.op # "none" /\ call' = NoCall /\ UNCHANGED <<owned, ibinds>>
        /\ end \in {"error", "jump", "fail"}
        /\ ended' = IF end = "jump" THEN NoEnd ELSE [op |-> "getall", how |-> end]
        /\ end = "jump" => answer' # "fail"
    BY <1>1, <1>4 DEF GetterFails, EndCall
  <2>2. answer' = "fail" => ended'.how = "fail" \/ ended' = [op |-> "getall", how |-> "error"]
    BY <2>1
  <2>3. \/ IfaceDeref /\ UNCHANGED jumps
        \/ jumps' = jumps + 1 /\ UNCHANGED <<mbrs, irefs, released>>
    BY <1>4 DEF GetterFails, DerefUnlessJump
  <2>4. ErrorsAnswered'
    BY <2>2 DEF ErrorsAnswered
  <2> QED BY <2>1, <2>3, <2>4, EndKeeps
<1> QED BY <1>2, <1>3, <1>4 DEF DoCall, ProxiedGetProperty, ProxiedSetProperty

(* A getter of GetAll returns. *)
LEMMA GetterKeeps ==
  ASSUME IfaceInv, NEW n \in MemberNames, GetterReturns(n)
  PROVE  IfaceInv'
<1>1. IfaceTypeOK /\ ReleasesCalled /\ ReleasesApart
  BY DEF IfaceInv
<1>2. /\ UNCHANGED <<mbrs, irefs, owned, ibinds, released, jumps>>
      /\ answer' = "assert" \/ UNCHANGED <<answer, ended>>
      /\ call' \in {[call EXCEPT !.todo = @ \ {n}], [call EXCEPT !.op = "aborted"]}
      /\ call.op # "none" /\ call \in Requests
  BY DEF GetterReturns, IfaceInv
<1>3. /\ ReleasesCalled' /\ ReleasesApart' /\ Existing' = Existing
      /\ mbrs' \in [MemberNames -> Members \cup {NoMember}] /\ released' \in Seq(Nat)
  BY <1>1, <1>2, MembersSame
<1>4. call' \in Requests /\ call'.op # "none" /\ call'.todo \subseteq call.todo
  BY <1>2 DEF Requests
<1>5. IfaceTypeOK' /\ IfaceCounted'
  BY <1>1, <1>2, <1>3, <1>4 DEF IfaceInv, IfaceTypeOK, IfaceCounted
<1> QED BY <1>2, <1>3, <1>4, <1>5 DEF IfaceInv, ErrorsAnswered

LEMMA IfaceStart == IfaceInit => IfaceInv
<1> SUFFICES ASSUME IfaceInit PROVE IfaceInv
  OBVIOUS
<1>1. Existing = {} /\ released = <<>> /\ call = NoCall
  BY DEF IfaceInit, Existing
<1>2. IfaceTypeOK
  BY InterfaceAssumption DEF IfaceInit, IfaceTypeOK
<1>3. call \in Requests /\ call.op = "none" /\ call.todo = {}
  BY <1>1 DEF NoCall, Requests
<1>4. IfaceCounted /\ ErrorsAnswered
  BY <1>1, <1>3 DEF IfaceInit, IfaceCounted, ErrorsAnswered
<1>5. ReleasesCalled /\ ReleasesApart
  BY <1>1 DEF ReleasesCalled, ReleasesApart
<1> QED BY <1>2, <1>3, <1>4, <1>5 DEF IfaceInv

LEMMA IfaceStep == IfaceInv /\ [IfaceNext]_ifaceVars => IfaceInv'
<1> SUFFICES ASSUME IfaceInv, [IfaceNext]_ifaceVars PROVE IfaceInv'
  OBVIOUS
<1>1. CASE UNCHANGED ifaceVars
  BY <1>1 DEF ifaceVars, IfaceInv, IfaceTypeOK, IfaceCounted, ReleasesCalled, ReleasesApart,
     ErrorsAnswered, Existing
<1>2. CASE IfaceNext
  BY <1>2, BuildKeeps, HoldersKeep, AskedKeeps, EndsKeep, GetterKeeps DEF IfaceNext
<1> QED BY <1>1, <1>2

(* An interface that is bound has what introspection asserts. *)
BoundComplete == (ibinds > 0 => Complete) /\ AssertsInGetAll

LEMMA CompleteStays ==
  ASSUME UNCHANGED mbrs
  PROVE  Complete' <=> Complete
BY DEF Complete, Existing

LEMMA BoundStep == IfaceInv /\ BoundComplete /\ [IfaceNext]_ifaceVars => BoundComplete'
<1> SUFFICES ASSUME IfaceInv, BoundComplete, [IfaceNext]_ifaceVars PROVE BoundComplete'
  OBVIOUS
<1>0. ibinds \in Nat
  BY Counts
<1>1. ASSUME IfaceDeref PROVE Complete => Complete'
  <2>1. CASE mbrs' = [n \in MemberNames |-> NoMember]
    BY <2>1 DEF Complete, Existing
  <2>2. CASE UNCHANGED mbrs
    BY <2>2, CompleteStays
  <2> QED BY <1>1, <2>1, <2>2 DEF IfaceDeref
<1>2. CASE UNCHANGED ifaceVars
  <2>1. UNCHANGED <<mbrs, ibinds, answer, ended>>
    BY <1>2 DEF ifaceVars
  <2> QED BY <2>1, CompleteStays DEF BoundComplete, AssertsInGetAll
<1>3. CASE ibinds = 0 /\ UNCHANGED <<ibinds, answer, ended>>
  BY <1>3 DEF BoundComplete, AssertsInGetAll
<1>4. CASE BindIface
  <2>1. Complete /\ UNCHANGED <<mbrs, answer, ended>>
    BY <1>4 DEF BindIface
  <2> QED BY <2>1, CompleteStays DEF BoundComplete, AssertsInGetAll
<1>5. CASE DropIface \/ UnbindIface
  <2>1. IfaceDeref /\ UNCHANGED <<answer, ended>> /\ (ibinds' = ibinds \/ (ibinds > 0 /\ ibinds' = ibinds - 1))
    BY <1>5 DEF DropIface, UnbindIface
  <2> QED BY <1>0, <1>1, <2>1 DEF BoundComplete, AssertsInGetAll
<1>6. ASSUME IfaceAsked, answer' # "assert" PROVE BoundComplete'
  <2>1. UNCHANGED <<mbrs, ibinds>>
    BY <1>6 DEF IfaceAsked
  <2> QED BY <1>6, <2>1, CompleteStays DEF BoundComplete, AssertsInGetAll
<1>7. ASSUME NEW reply \in BOOLEAN, IntrospectIface(reply) PROVE BoundComplete'
  <2>1. Complete /\ IfaceAsked
    BY <1>7 DEF BoundComplete, IntrospectIface, IfaceAsked
  <2>2. \A n \in Existing : Described(mbrs[n])
    BY <2>1 DEF Complete, Described
  <2>3. answer' # "assert"
    BY <1>7, <2>2 DEF IntrospectIface, AnswerWith
  <2> QED BY <1>6, <2>1, <2>3
<1>8. ASSUME UNCHANGED ibinds, IfaceDeref \/ UNCHANGED mbrs,
             answer' # "assert" \/ ended' = [op |-> "getall", how |-> "ok"]
      PROVE  BoundComplete'
  <2>1. Complete => Complete'
    BY <1>1, <1>8, CompleteStays
  <2> QED BY <1>8, <2>1 DEF BoundComplete, AssertsInGetAll
<1>9. ASSUME NEW n \in MemberNames, GetterReturns(n) PROVE BoundComplete'
  <2>1. /\ UNCHANGED <<mbrs, ibinds>>
        /\ UNCHANGED <<answer, ended>> \/ ended' = [op |-> "getall", how |-> "ok"]
    BY <1>9 DEF GetterReturns
  <2> QED BY <2>1, CompleteStays DEF BoundComplete, AssertsInGetAll
<1>10. CASE \E n \in MemberNames :
              \/ \E type \in {"method", "signal"} : AddMethod(n, type, NoMember)
              \/ \E ptype \in PropTypes : AddMethod(n, "property", ptype)
              \/ \E which \in {"method", "getter", "setter"} : SetCallback(n, which)
              \/ AddRelease(n) \/ AddArgument(n)
  BY <1>3, <1>10 DEF AddMethod, SetCallback, AddRelease, AddArgument, Building
<1>11. ASSUME NEW reply \in BOOLEAN, NEW n \in MemberNames,
              \/ CallMember(n, reply) \/ GetProperty(n, reply)
              \/ \E sig \in PropTypes \cup {NoMember} : SetProperty(n, sig, reply)
       PROVE  BoundComplete'
  <2>1. IfaceAsked /\ answer' # "assert"
    BY <1>11 DEF CallMember, GetProperty, SetProperty, AnswerWith, ServeCall, methodError, propertyError,
                 propReadError, propWriteError, propTypeError
  <2> QED BY <1>6, <2>1
<1>12. ASSUME NEW reply \in BOOLEAN, GetAllProperties(reply) \/ Malformed(reply) \/ OtherInterface(reply)
       PROVE  BoundComplete'
  <2>1. IfaceAsked /\ answer' # "assert"
    BY <1>12 DEF GetAllProperties, Malformed, OtherInterface, AnswerWith, ServeCall, error_argument, interfaceError
  <2> QED BY <1>6, <2>1
<1>13. ASSUME NEW op, NEW end, Ended(op, end, Outcome(end)), IfaceDeref \/ DerefUnlessJump(end)
       PROVE  BoundComplete'
  <2>1. UNCHANGED ibinds /\ answer' # "assert" /\ (IfaceDeref \/ UNCHANGED mbrs)
    BY <1>13 DEF Ended, EndCall, Outcome, DerefUnlessJump
  <2> QED BY <1>8, <2>1
<1>14. CASE GetAllEnds
  BY <1>8, <1>14 DEF GetAllEnds, EndCall
<1>15. ASSUME NEW end, GetterFails(end) PROVE BoundComplete'
  <2>1. UNCHANGED ibinds /\ answer' # "assert" /\ (IfaceDeref \/ UNCHANGED mbrs)
    BY <1>15 DEF GetterFails, EndCall, DerefUnlessJump
  <2> QED BY <1>8, <2>1
<1> HIDE DEF BoundComplete
<1> QED BY <1>2, <1>4, <1>5, <1>7, <1>9, <1>10, <1>11, <1>12, <1>13, <1>14, <1>15
        DEF IfaceNext, DoCall, ProxiedGetProperty, ProxiedSetProperty

(* However callbacks end and whatever they unbind and drop (adbus/interface.c), an
   interface and the members that are asked for are there as long as a request is served,
   every release callback is called once, errors of callbacks are sent to the caller
   except those of GetAll, and no assertion fails but the one that ends every GetAll with
   a readable property. *)
THEOREM InterfaceIsSound == IfaceSpec => []InterfaceSound
<1>1. IfaceInv /\ BoundComplete => InterfaceSound
  BY DEF IfaceInv, BoundComplete, InterfaceSound
<1>2. IfaceInit => IfaceInv /\ BoundComplete
  BY IfaceStart DEF IfaceInit, BoundComplete, AssertsInGetAll
<1>3. IfaceInv /\ BoundComplete /\ [IfaceNext]_ifaceVars => (IfaceInv /\ BoundComplete)'
  BY IfaceStep, BoundStep
<1> QED BY <1>1, <1>2, <1>3, PTL DEF IfaceSpec

-----------------------------------------------------------------------------
(* Rules *)

(* What a match is. *)
RuleMatches ==
  [type : TextValues \cup {Absent}, fields : [ToSet(StringKeys) -> TextValues \cup {Absent}],
   args : Seq(TextValues \cup {Absent})]

(* The first of the places from a on where a text has a character is the one that
   is known. *)
LEMMA FirstPlace ==
  ASSUME NEW S, NEW tokens \in Seq(S), NEW c, NEW a \in Nat, NEW b \in Nat, a > 0, a <= b, b <= Len(tokens),
         tokens[b] = c, \A i \in a..(b - 1) : tokens[i] # c
  PROVE  LET T == {i \in a..Len(tokens) : tokens[i] = c} IN T # {} /\ Min(T) = b
<1> DEFINE T == {i \in a..Len(tokens) : tokens[i] = c}
<1>1. Len(tokens) \in Nat
  OBVIOUS
<1>2. b \in T /\ T \in SUBSET Nat
  BY <1>1
<1>3. \A i \in T : ~(i < b)
  <2> SUFFICES ASSUME NEW i \in T, i < b PROVE FALSE
    OBVIOUS
  <2>1. i \in a..(b - 1) /\ tokens[i] = c
    BY <1>1
  <2> QED BY <2>1
<1> HIDE DEF T
<1>4. Min(T) \in T /\ \A k \in T : Min(T) <= k
  BY <1>2, MinIs
<1> DEFINE m == Min(T)
<1>5. m \in Nat /\ m <= b /\ ~(m < b)
  BY <1>2, <1>3, <1>4
<1> HIDE DEF m
<1>6. m = b
  BY <1>5
<1> QED BY <1>2, <1>6 DEF T, m

(* A pair begins at a place, with a value that does not hold a quote. *)
PairAt(tokens, a) ==
  /\ tokens[a] # "=" /\ tokens[a + 1] = "=" /\ tokens[a + 2] = "'" /\ tokens[a + 3] # "'"

(* A turn of the loop takes the pair that begins at a place. *)
LEMMA ReadOne ==
  ASSUME NEW S, NEW tokens \in Seq(S), NEW a \in Nat, a > 0, a + 4 <= Len(tokens), NEW mt, mt # Absent,
         PairAt(tokens, a), tokens[a + 4] = "'", a + 4 = Len(tokens) \/ tokens[a + 5] = Comma
  PROVE  ReadPair(tokens, [at |-> a, match |-> mt]) =
           IF tokens[a] = "type" /\ tokens[a + 3] \notin KnownTypes THEN [at |-> a, match |-> Absent]
           ELSE [at |-> a + 6, match |-> TakePair(mt, tokens[a], tokens[a + 3])]
<1> DEFINE eqs == {i \in a..Len(tokens) : tokens[i] = "="}
           quotes == {i \in (a + 3)..Len(tokens) : tokens[i] = "'"}
           key == SubSeq(tokens, a, a)
           val == SubSeq(tokens, a + 3, a + 3)
<1>1. Len(tokens) \in Nat
  OBVIOUS
<1>2. eqs # {} /\ Min(eqs) = a + 1
  <2>1. a + 1 \in Nat /\ a <= a + 1 /\ a + 1 <= Len(tokens)
    BY <1>1
  <2>2. \A i \in a..((a + 1) - 1) : tokens[i] # "="
    <3>1. \A i \in a..((a + 1) - 1) : i = a
      OBVIOUS
    <3> QED BY <3>1 DEF PairAt
  <2>3. tokens[a + 1] = "="
    BY DEF PairAt
  <2> QED BY <2>1, <2>2, <2>3, FirstPlace
<1>3. quotes # {} /\ Min(quotes) = a + 4
  <2> DEFINE c == a + 3
             b == a + 4
  <2>1. c \in Nat /\ c > 0 /\ b \in Nat /\ c <= b /\ b <= Len(tokens)
    BY <1>1
  <2>2. \A i \in c..(b - 1) : tokens[i] # "'"
    <3>1. \A i \in c..(b - 1) : i = a + 3
      OBVIOUS
    <3> QED BY <3>1 DEF PairAt
  <2>3. tokens[b] = "'"
    OBVIOUS
  <2> HIDE DEF b, c
  <2>4. LET T == {i \in c..Len(tokens) : tokens[i] = "'"} IN T # {} /\ Min(T) = b
    BY <2>1, <2>2, <2>3, FirstPlace
  <2> QED BY <2>4 DEF b, c
<1>4. /\ key \in Seq(S) /\ Len(key) = 1 /\ key[1] = tokens[a]
      /\ val \in Seq(S) /\ Len(val) = 1 /\ val[1] = tokens[a + 3]
  <2>1. a \in 1..Len(tokens) /\ a + 3 \in 1..Len(tokens)
    BY <1>1
  <2>2. \A k \in 1..Len(tokens) : LET x == SubSeq(tokens, k, k)
                                IN  x \in Seq(S) /\ Len(x) = 1 /\ x[1] = tokens[k]
    BY <1>1
  <2> QED BY <2>1, <2>2
<1> HIDE DEF eqs, quotes, key, val
<1>5. key = <<"type">> <=> tokens[a] = "type"
  BY <1>4
<1> DEFINE r == [at |-> a, match |-> mt]
           E == {i \in r.at..Len(tokens) : tokens[i] = "="}
           eq == Min(E)
           Q == {i \in (eq + 2)..Len(tokens) : tokens[i] = "'"}
           quote == Min(Q)
           k == SubSeq(tokens, r.at, eq - 1)
           v == SubSeq(tokens, eq + 2, quote - 1)
<1>6. ReadPair(tokens, r) =
        IF r.match = Absent \/ r.at > Len(tokens) THEN r
        ELSE IF \/ E = {} \/ eq + 1 > Len(tokens) \/ tokens[eq + 1] # "'"
                \/ Q = {} \/ (quote # Len(tokens) /\ tokens[quote + 1] # Comma)
                \/ k = <<"type">> /\ (Len(v) # 1 \/ v[1] \notin KnownTypes)
        THEN [at |-> r.at, match |-> Absent]
        ELSE [at |-> quote + 2,
              match |-> IF Len(k) = 1 /\ Len(v) = 1 THEN TakePair(r.match, k[1], v[1]) ELSE r.match]
  BY Zenon DEF ReadPair
<1>7. r.at = a /\ r.match = mt
  OBVIOUS
<1>8. E = eqs
  BY <1>7, Zenon DEF eqs
<1>9. eq = a + 1
  <2> HIDE DEF E
  <2> QED BY <1>2, <1>8, Zenon
<1>10. (a + 1) + 2 = a + 3 /\ (a + 1) - 1 = a /\ (a + 4) - 1 = a + 3
  BY <1>1
<1>11. Q = quotes /\ k = key
  <2> HIDE DEF eq, r
  <2> QED BY <1>7, <1>9, <1>10, Zenon DEF quotes, key
<1>12. quote = a + 4
  <2> HIDE DEF Q
  <2> QED BY <1>3, <1>11, Zenon
<1>13. v = val
  <2> HIDE DEF quote, eq
  <2> QED BY <1>9, <1>10, <1>12, Zenon DEF val
<1> HIDE DEF E, eq, Q, quote, k, v, r
<1>14. /\ eq + 1 = a + 2 /\ ~(eq + 1 > Len(tokens)) /\ ~(r.at > Len(tokens))
       /\ quote + 1 = a + 5 /\ quote + 2 = a + 6
  BY <1>1, <1>7, <1>9, <1>12
<1>15. /\ ~(r.match = Absent \/ r.at > Len(tokens))
       /\ ~(\/ E = {} \/ eq + 1 > Len(tokens) \/ tokens[eq + 1] # "'"
            \/ Q = {} \/ (quote # Len(tokens) /\ tokens[quote + 1] # Comma))
  BY <1>2, <1>3, <1>7, <1>8, <1>11, <1>12, <1>14 DEF PairAt
<1>16. /\ (k = <<"type">> /\ (Len(v) # 1 \/ v[1] \notin KnownTypes))
             <=> (tokens[a] = "type" /\ tokens[a + 3] \notin KnownTypes)
       /\ Len(k) = 1 /\ Len(v) = 1 /\ k[1] = tokens[a] /\ v[1] = tokens[a + 3]
  BY <1>4, <1>5, <1>11, <1>13
<1>17. ReadPair(tokens, r) =
         IF k = <<"type">> /\ (Len(v) # 1 \/ v[1] \notin KnownTypes) THEN [at |-> r.at, match |-> Absent]
         ELSE [at |-> quote + 2, match |-> TakePair(r.match, k[1], v[1])]
  BY <1>6, <1>15, <1>16, Zenon
<1> QED BY <1>7, <1>14, <1>16, <1>17, Zenon DEF r

(* A value without a quote behind it is refused. *)
LEMMA ReadOpen ==
  ASSUME NEW S, NEW tokens \in Seq(S), NEW a \in Nat, a > 0, a + 3 = Len(tokens), NEW mt, mt # Absent,
         PairAt(tokens, a)
  PROVE  ReadPair(tokens, [at |-> a, match |-> mt]).match = Absent
<1> DEFINE eqs == {i \in a..Len(tokens) : tokens[i] = "="}
           quotes == {i \in (a + 3)..Len(tokens) : tokens[i] = "'"}
<1>1. Len(tokens) \in Nat
  OBVIOUS
<1>2. eqs # {} /\ Min(eqs) = a + 1
  <2>1. a + 1 \in Nat /\ a <= a + 1 /\ a + 1 <= Len(tokens)
    BY <1>1
  <2>2. \A i \in a..((a + 1) - 1) : tokens[i] # "="
    <3>1. \A i \in a..((a + 1) - 1) : i = a
      OBVIOUS
    <3> QED BY <3>1 DEF PairAt
  <2>3. tokens[a + 1] = "="
    BY DEF PairAt
  <2> QED BY <2>1, <2>2, <2>3, FirstPlace
<1>3. quotes = {}
  <2>1. \A i \in (a + 3)..Len(tokens) : i = a + 3
    OBVIOUS
  <2> QED BY <2>1 DEF PairAt
<1>4. (a + 1) + 2 = a + 3 /\ ~(a > Len(tokens))
  BY <1>1
<1> DEFINE r == [at |-> a, match |-> mt]
<1>5. r.at = a /\ r.match = mt
  OBVIOUS
<1> HIDE DEF r, eqs, quotes
<1>6. ReadPair(tokens, r) = [at |-> a, match |-> Absent]
  BY <1>2, <1>3, <1>4, <1>5, Zenon DEF ReadPair, eqs, quotes
<1> QED BY <1>6 DEF r

(* The loop has ended. *)
LEMMA ReadDone ==
  ASSUME NEW tokens, NEW r, r.match = Absent \/ r.at > Len(tokens)
  PROVE  ReadPair(tokens, r) = r
BY Zenon DEF ReadPair

-----------------------------------------------------------------------------
(* v is the value of the last of the first k pairs that have the key, if any. *)
LastGiven(Q, k, key, v) ==
  \/ v = Absent /\ \A i \in 1..k : Q[i].key # key
  \/ \E i \in 1..k : Q[i].key = key /\ Q[i].val = v /\ \A j \in (i + 1)..k : Q[j].key # key

ArgAt(args, i) == IF i <= Len(args) THEN args[i] ELSE Absent

(* The match that has taken the first k pairs. *)
Took(mt, Q, k) ==
  /\ mt \in RuleMatches
  /\ LastGiven(Q, k, "type", mt.type)
  /\ \A key \in ToSet(StringKeys) : LastGiven(Q, k, key, mt.fields[key])
  /\ \A i \in DOMAIN ArgKeys : LastGiven(Q, k, ArgKeys[i], ArgAt(mt.args, i))
  /\ Len(mt.args) <= Len(ArgKeys) /\ (mt.args # <<>> => mt.args[Len(mt.args)] # Absent)

LEMMA LastStays ==
  ASSUME NEW Q, NEW k \in Nat, NEW key, NEW v, LastGiven(Q, k, key, v), Q[k + 1].key # key
  PROVE  LastGiven(Q, k + 1, key, v)
<1>1. \A i \in 1..(k + 1) : i = k + 1 \/ i \in 1..k
  OBVIOUS
<1>2. CASE v = Absent /\ \A i \in 1..k : Q[i].key # key
  BY <1>1, <1>2 DEF LastGiven
<1>3. CASE \E i \in 1..k : Q[i].key = key /\ Q[i].val = v /\ \A j \in (i + 1)..k : Q[j].key # key
  <2>1. PICK i \in 1..k : Q[i].key = key /\ Q[i].val = v /\ \A j \in (i + 1)..k : Q[j].key # key
    BY <1>3
  <2>2. i \in 1..(k + 1) /\ \A j \in (i + 1)..(k + 1) : j = k + 1 \/ j \in (i + 1)..k
    OBVIOUS
  <2>3. \A j \in (i + 1)..(k + 1) : Q[j].key # key
    BY <2>1, <2>2
  <2> QED BY <2>1, <2>2, <2>3 DEF LastGiven
<1> QED BY <1>2, <1>3 DEF LastGiven

LEMMA LastChanges ==
  ASSUME NEW Q, NEW k \in Nat, NEW key, Q[k + 1].key = key
  PROVE  LastGiven(Q, k + 1, key, Q[k + 1].val)
<1>1. k + 1 \in 1..(k + 1) /\ ((k + 1) + 1)..(k + 1) = {}
  OBVIOUS
<1> QED BY <1>1 DEF LastGiven

LEMMA KeysAre ==
  /\ ToSet(StringKeys) = {"sender", "interface", "member", "path", "destination"}
  /\ "type" \notin ToSet(StringKeys) /\ "=" \notin ToSet(StringKeys)
<1>1. ToSet(StringKeys) = {"sender", "interface", "member", "path", "destination"}
  BY DEF ToSet, StringKeys
<1> QED BY <1>1

LEMMA ArgKeyIs ==
  /\ Len(ArgKeys) \in Nat /\ DOMAIN ArgKeys = 1..Len(ArgKeys)
  /\ \A i \in 1..Len(ArgKeys) :
       /\ IsArgKey(ArgKeys[i]) = i /\ ArgKeys[i] \in ToSet(ArgKeys)
       /\ ArgKeys[i] # "type" /\ ArgKeys[i] \notin ToSet(StringKeys)
  /\ \A key : key \notin ToSet(ArgKeys) => IsArgKey(key) = 0 /\ \A i \in 1..Len(ArgKeys) : ArgKeys[i] # key
<1>1. Len(ArgKeys) \in Nat /\ DOMAIN ArgKeys = 1..Len(ArgKeys)
  BY RulesAssumption
<1>2. \A i \in 1..Len(ArgKeys) : ArgKeys[i] \in ToSet(ArgKeys)
  BY <1>1 DEF ToSet
<1>3. ASSUME NEW i \in 1..Len(ArgKeys)
      PROVE  /\ IsArgKey(ArgKeys[i]) = i
             /\ ArgKeys[i] # "type" /\ ArgKeys[i] \notin ToSet(StringKeys)
  <2>1. ArgKeys[i] # "type" /\ ArgKeys[i] \notin ToSet(StringKeys)
    BY <1>2, RulesAssumption
  <2> DEFINE n == CHOOSE j \in DOMAIN ArgKeys : ArgKeys[j] = ArgKeys[i]
  <2>2. n \in DOMAIN ArgKeys /\ ArgKeys[n] = ArgKeys[i]
    BY <1>1
  <2>3. IsArgKey(ArgKeys[i]) = n
    BY <1>2 DEF IsArgKey
  <2> HIDE DEF n
  <2>4. n = i
    BY <1>1, <2>2, RulesAssumption
  <2> QED BY <2>1, <2>3, <2>4
<1>4. \A key : key \notin ToSet(ArgKeys) => IsArgKey(key) = 0
  BY DEF IsArgKey
<1> QED BY <1>1, <1>2, <1>3, <1>4

(* An argument is put into its place. *)
LEMMA WithArgPlaces ==
  ASSUME NEW S, NEW args \in Seq(S), Absent \in S, NEW n \in Nat, n > 0, NEW val \in S, val # Absent,
         args # <<>> => args[Len(args)] # Absent, NEW most \in Nat, n <= most, Len(args) <= most
  PROVE  /\ WithArg(args, n, val) \in Seq(S) /\ Len(WithArg(args, n, val)) <= most
         /\ WithArg(args, n, val) # <<>> /\ WithArg(args, n, val)[Len(WithArg(args, n, val))] # Absent
         /\ \A i \in Nat \ {0} : ArgAt(WithArg(args, n, val), i) = IF i = n THEN val ELSE ArgAt(args, i)
<1> DEFINE m == Len(args)
           len == IF n > m THEN n ELSE m
           new == [i \in 1..len |-> IF i = n THEN val ELSE IF i <= m THEN args[i] ELSE Absent]
<1>1. m \in Nat /\ \A i \in 1..m : args[i] \in S
  OBVIOUS
<1>2. WithArg(args, n, val) = new
  BY Zenon DEF WithArg
<1> HIDE DEF m
<1>3. len \in Nat /\ len > 0 /\ n <= len /\ m <= len /\ (len = n \/ len = m)
  BY <1>1
<1> HIDE DEF len
<1>4. \A i \in 1..len : (IF i = n THEN val ELSE IF i <= m THEN args[i] ELSE Absent) \in S
  BY <1>1
<1>5. new \in Seq(S) /\ Len(new) = len /\ DOMAIN new = 1..len
  <2> DEFINE F(i) == IF i = n THEN val ELSE IF i <= m THEN args[i] ELSE Absent
  <2>1. \A i \in 1..len : F(i) \in S
    BY <1>4
  <2>2. new = [i \in 1..len |-> F(i)]
    OBVIOUS
  <2> HIDE DEF F, new
  <2>3. new \in [1..len -> S]
    BY <2>1, <2>2
  <2> QED BY <1>3, <2>3
<1>6. \A i \in 1..len : new[i] = IF i = n THEN val ELSE IF i <= m THEN args[i] ELSE Absent
  OBVIOUS
<1> HIDE DEF new
<1>7. new # <<>>
  BY <1>3, <1>5
<1>8. new[len] # Absent /\ len <= most
  <2>1. len \in 1..len
    BY <1>3
  <2>2. len # n => len = m
    BY <1>3
  <2>3. len = m => args # <<>> /\ args[m] # Absent
    BY <1>1, <1>3 DEF m
  <2>4. new[len] # Absent
    BY <1>1, <1>3, <1>6, <2>1, <2>2, <2>3
  <2> QED BY <1>3, <2>4 DEF m
<1>9. ASSUME NEW i \in Nat \ {0}
      PROVE  ArgAt(new, i) = IF i = n THEN val ELSE ArgAt(args, i)
  <2>1. ArgAt(new, i) = IF i <= len THEN new[i] ELSE Absent
    BY <1>5 DEF ArgAt
  <2>2. ArgAt(args, i) = IF i <= m THEN args[i] ELSE Absent
    BY DEF ArgAt, m
  <2>3. CASE i <= len
    <3>1. i \in 1..len
      BY <1>3, <2>3
    <3> QED BY <1>6, <2>1, <2>2, <2>3, <3>1
  <2>4. CASE ~(i <= len)
    <3>1. ~(i <= m) /\ i # n
      BY <1>1, <1>3, <2>4
    <3> QED BY <2>1, <2>2, <2>4, <3>1
  <2> QED BY <2>3, <2>4
<1> QED BY <1>2, <1>5, <1>7, <1>8, <1>9

LEMMA NothingTaken ==
  ASSUME NEW Q
  PROVE  Took(NoMatch, Q, 0) /\ NoMatch \in RuleMatches
<1>1. NoMatch.type = Absent /\ NoMatch.args = <<>> /\ \A k \in ToSet(StringKeys) : NoMatch.fields[k] = Absent
  BY DEF NoMatch
<1>2. NoMatch \in RuleMatches
  <2>1. <<>> \in Seq(TextValues \cup {Absent})
    OBVIOUS
  <2> DEFINE T == TextValues \cup {Absent}
  <2>2. Absent \in T /\ <<>> \in Seq(T)
    OBVIOUS
  <2> HIDE DEF T
  <2>3. [k \in ToSet(StringKeys) |-> Absent] \in [ToSet(StringKeys) -> T]
    BY <2>2
  <2> QED BY <2>2, <2>3 DEF NoMatch, RuleMatches, T
<1>3. \A key : LastGiven(Q, 0, key, Absent)
  BY DEF LastGiven
<1>4. \A i \in DOMAIN ArgKeys : ArgAt(<<>>, i) = Absent
  BY ArgKeyIs DEF ArgAt
<1>5. Len(NoMatch.args) <= Len(ArgKeys)
  BY <1>1, ArgKeyIs
<1> QED BY <1>1, <1>2, <1>3, <1>4, <1>5 DEF Took

(* A pair is taken: its key gets its value, the others keep theirs. *)
LEMMA TakeOne ==
  ASSUME NEW Q, NEW k \in Nat, NEW mt, Took(mt, Q, k), NEW key, NEW val \in TextValues,
         Q[k + 1].key = key, Q[k + 1].val = val
  PROVE  Took(TakePair(mt, key, val), Q, k + 1)
<1> DEFINE T == TextValues \cup {Absent}
<1>1. /\ mt \in RuleMatches /\ mt.type \in T /\ mt.fields \in [ToSet(StringKeys) -> T] /\ mt.args \in Seq(T)
      /\ mt = [type |-> mt.type, fields |-> mt.fields, args |-> mt.args]
  <2>1. mt \in [type : T, fields : [ToSet(StringKeys) -> T], args : Seq(T)]
    BY DEF Took, RuleMatches
  <2> HIDE DEF T
  <2> QED BY <2>1 DEF RuleMatches, T
<1>2. val \in T /\ Absent \in T /\ val # Absent
  BY RulesAssumption
<1> HIDE DEF T
<1>3. /\ LastGiven(Q, k, "type", mt.type)
      /\ \A x \in ToSet(StringKeys) : LastGiven(Q, k, x, mt.fields[x])
      /\ \A i \in DOMAIN ArgKeys : LastGiven(Q, k, ArgKeys[i], ArgAt(mt.args, i))
      /\ Len(mt.args) <= Len(ArgKeys) /\ (mt.args # <<>> => mt.args[Len(mt.args)] # Absent)
  BY DEF Took
<1>4. /\ key # "type" => LastGiven(Q, k + 1, "type", mt.type)
      /\ \A x \in ToSet(StringKeys) : x # key => LastGiven(Q, k + 1, x, mt.fields[x])
      /\ \A i \in DOMAIN ArgKeys : ArgKeys[i] # key => LastGiven(Q, k + 1, ArgKeys[i], ArgAt(mt.args, i))
  BY <1>3, LastStays
<1>5. LastGiven(Q, k + 1, key, val)
  BY LastChanges
<1>6. CASE key = "type"
  <2> DEFINE new == [mt EXCEPT !.type = val]
  <2>1. TakePair(mt, key, val) = new
    BY <1>6 DEF TakePair
  <2>2. /\ new.type = val /\ new.fields = mt.fields /\ new.args = mt.args
        /\ new \in [type : T, fields : [ToSet(StringKeys) -> T], args : Seq(T)]
    BY <1>1, <1>2
  <2> HIDE DEF new
  <2>3. \A x \in ToSet(StringKeys) : x # key
    BY <1>6, KeysAre
  <2>4. \A i \in DOMAIN ArgKeys : ArgKeys[i] # key
    BY <1>6, ArgKeyIs
  <2> QED BY <1>3, <1>4, <1>5, <1>6, <2>1, <2>2, <2>3, <2>4 DEF Took, RuleMatches, T
<1>7. CASE key \in ToSet(StringKeys)
  <2> DEFINE new == [mt EXCEPT !.fields[key] = val]
  <2>1. key # "type"
    BY <1>7, KeysAre
  <2>2. TakePair(mt, key, val) = new
    BY <1>7, <2>1 DEF TakePair
  <2>3. /\ new.type = mt.type /\ new.fields = [mt.fields EXCEPT ![key] = val] /\ new.args = mt.args
        /\ new \in [type : T, fields : [ToSet(StringKeys) -> T], args : Seq(T)]
    BY <1>1, <1>2
  <2> HIDE DEF new
  <2>4. \A x \in ToSet(StringKeys) : new.fields[x] = IF x = key THEN val ELSE mt.fields[x]
    BY <1>1, <2>3
  <2>5. \A i \in DOMAIN ArgKeys : ArgKeys[i] # key
    BY <1>7, ArgKeyIs
  <2>6. \A x \in ToSet(StringKeys) : LastGiven(Q, k + 1, x, new.fields[x])
    BY <1>4, <1>5, <2>4
  <2> QED BY <1>3, <1>4, <2>1, <2>2, <2>3, <2>5, <2>6 DEF Took, RuleMatches, T
<1>8. CASE key \in ToSet(ArgKeys)
  <2>1. PICK n \in 1..Len(ArgKeys) : ArgKeys[n] = key
    BY <1>8, ArgKeyIs DEF ToSet
  <2>2. /\ IsArgKey(key) = n /\ key # "type" /\ key \notin ToSet(StringKeys) /\ n \in Nat /\ n > 0
        /\ n <= Len(ArgKeys) /\ Len(ArgKeys) \in Nat /\ DOMAIN ArgKeys = 1..Len(ArgKeys)
    BY <2>1, ArgKeyIs
  <2> DEFINE args == WithArg(mt.args, n, val)
             new == [mt EXCEPT !.args = args]
  <2>3. TakePair(mt, key, val) = new
    <3>1. IsArgKey(key) > 0
      BY <2>2
    <3> QED BY <2>2, <3>1 DEF TakePair
  <2>4. /\ args \in Seq(T) /\ Len(args) <= Len(ArgKeys)
        /\ args # <<>> /\ args[Len(args)] # Absent
        /\ \A i \in Nat \ {0} : ArgAt(args, i) = IF i = n THEN val ELSE ArgAt(mt.args, i)
    BY <1>1, <1>2, <1>3, <2>2, WithArgPlaces
  <2> HIDE DEF args
  <2>5. /\ new.type = mt.type /\ new.fields = mt.fields /\ new.args = args
        /\ new \in [type : T, fields : [ToSet(StringKeys) -> T], args : Seq(T)]
    BY <1>1, <2>4
  <2> HIDE DEF new
  <2>7. ASSUME NEW i \in DOMAIN ArgKeys PROVE LastGiven(Q, k + 1, ArgKeys[i], ArgAt(args, i))
    <3>1. i \in Nat \ {0} /\ (ArgKeys[i] = key => i = n)
      BY <2>1, <2>2, ArgKeyIs
    <3>2. CASE i = n
      BY <1>5, <2>1, <2>4, <3>1, <3>2
    <3>3. CASE i # n
      BY <1>4, <2>4, <3>1, <3>3
    <3> QED BY <3>2, <3>3
  <2>8. \A x \in ToSet(StringKeys) : x # key
    BY <2>2
  <2> QED BY <1>3, <1>4, <2>2, <2>3, <2>4, <2>5, <2>7, <2>8 DEF Took, RuleMatches, T
<1>9. CASE key # "type" /\ key \notin ToSet(StringKeys) /\ key \notin ToSet(ArgKeys)
  <2>1. IsArgKey(key) = 0 /\ \A i \in DOMAIN ArgKeys : ArgKeys[i] # key
    BY <1>9, ArgKeyIs
  <2>2. ~(IsArgKey(key) > 0)
    BY <2>1
  <2>3. TakePair(mt, key, val) = mt
    BY <1>9, <2>2 DEF TakePair
  <2>4. \A x \in ToSet(StringKeys) : x # key
    BY <1>9
  <2> QED BY <1>1, <1>3, <1>4, <1>9, <2>1, <2>3, <2>4 DEF Took
<1> QED BY <1>6, <1>7, <1>8, <1>9

-----------------------------------------------------------------------------
(* The function of the loop exists. *)
LEMMA NewmatchUnfolds ==
  ASSUME NEW S, NEW tokens \in Seq(S)
  PROVE  \E K : /\ K[0] = [at |-> 1, match |-> NoMatch]
                /\ \A k \in 1..Len(tokens) : K[k] = ReadPair(tokens, K[k - 1])
                /\ newmatch(tokens) = K[Len(tokens)].match
<1> DEFINE last == Len(tokens)
           First == [at |-> 1, match |-> NoMatch]
           Step(g, k) == IF k = 0 THEN First ELSE ReadPair(tokens, g[k - 1])
           Fits(g, l) == g = [k \in 0..l |-> Step(g, k)]
           Good == {l \in Nat : \E g : Fits(g, l)}
           K == CHOOSE g : Fits(g, last)
<1>1. last \in Nat
  OBVIOUS
<1>2. 0 \in Good
  <2> HIDE DEF First
  <2>1. Fits([k \in 0..0 |-> First], 0)
    OBVIOUS
  <2> QED BY <2>1
<1>3. ASSUME NEW l \in 1..last, l - 1 \in Good
      PROVE  l \in Good
  <2> HIDE DEF First
  <2>1. PICK g : Fits(g, l - 1)
    BY <1>3
  <2> DEFINE h == [k \in 0..l |-> IF k = l THEN Step(g, l) ELSE g[k]]
  <2>2. \A k \in 0..l : h[k] = Step(h, k)
    <3> TAKE k \in 0..l
    <3>1. CASE k = l
      BY <3>1
    <3>2. CASE k # l
      <4>1. k \in 0..(l - 1) /\ h[k] = g[k]
        BY <3>2
      <4>2. g[k] = Step(g, k)
        BY <2>1, <4>1
      <4>3. k # 0 => h[k - 1] = g[k - 1]
        BY <4>1
      <4> QED BY <4>1, <4>2, <4>3
    <3> QED BY <3>1, <3>2
  <2>3. Fits(h, l)
    BY <2>2
  <2>4. l \in Nat
    BY <1>1
  <2> HIDE DEF Fits, h
  <2> QED BY <2>3, <2>4
<1>4. last \in Good
  <2> HIDE DEF Good, last
  <2>1. Good \in SUBSET Nat
    BY DEF Good
  <2>2. \A l \in 1..last : l - 1 \in Good => l \in Good
    BY <1>3
  <2>3. \A l \in 0..last : l \in Good
    BY <1>1, <1>2, <2>1, <2>2, UpTo
  <2> QED BY <1>1, <2>3
<1>5. Fits(K, last)
  BY <1>4
<1>6. newmatch(tokens) = K[last].match
  BY Zenon DEF newmatch
<1> HIDE DEF K, First
<1>7. K[0] = First
  BY <1>1, <1>5
<1>8. \A k \in 1..last : K[k] = ReadPair(tokens, K[k - 1])
  <2> TAKE k \in 1..last
  <2>1. K[k] = Step(K, k)
    <3> HIDE DEF Step
    <3> QED BY <1>1, <1>5
  <2> QED BY <2>1
<1> QED BY <1>6, <1>7, <1>8 DEF First

RuleKeys == ToSet(ArgKeys) \cup OtherKeys \cup ToSet(StringKeys) \cup {"type"}
Tokens == RuleKeys \cup TextValues \cup {"=", "'", Comma}
PairRecords == [key : RuleKeys, val : TextValues, ok : BOOLEAN]

LEMMA NoKeyIsSign == "=" \notin RuleKeys
BY KeysAre, RulesAssumption DEF RuleKeys

(* The text of a pair, which begins at place a. *)
PairText(tokens, a, q) ==
  /\ a + 3 <= Len(tokens)
  /\ tokens[a] = q.key /\ tokens[a + 1] = "=" /\ tokens[a + 2] = "'" /\ tokens[a + 3] = q.val
  /\ q.ok => a + 4 <= Len(tokens) /\ tokens[a + 4] = "'" /\ (a + 4 = Len(tokens) \/ tokens[a + 5] = Comma)
  /\ ~q.ok => a + 3 = Len(tokens)

(* A rule that consists of these pairs. *)
RuleText(tokens, Q) ==
  /\ \A k \in 1..Len(Q) : PairText(tokens, 6 * k - 5, Q[k])
  /\ Len(tokens) <= 6 * Len(Q)

Refused(Q, k) ==
  \E i \in 1..k : ~Q[i].ok \/ (Q[i].key = "type" /\ Q[i].val \notin KnownTypes)

LEMMA MatchIsThere ==
  ASSUME NEW mt \in RuleMatches
  PROVE  mt # Absent
BY RulesAssumption DEF RuleMatches

(* What the bus makes of the pairs of a rule. *)
LEMMA RuleIsRead ==
  ASSUME NEW S, NEW tokens \in Seq(S), NEW Q \in Seq(PairRecords), RuleText(tokens, Q)
  PROVE  IF Refused(Q, Len(Q)) THEN newmatch(tokens) = Absent ELSE Took(newmatch(tokens), Q, Len(Q))
<1> DEFINE n == Len(Q)
           len == Len(tokens)
<1>1. n \in Nat /\ len \in Nat /\ len <= 6 * n /\ n <= len
  <2>1. n \in Nat /\ len \in Nat /\ len <= 6 * n
    BY DEF RuleText
  <2>2. n # 0 => (6 * n - 5) + 3 <= len
    <3> SUFFICES ASSUME n # 0 PROVE (6 * n - 5) + 3 <= len
      OBVIOUS
    <3>1. n \in 1..n
      <4> HIDE DEF n
      <4> QED BY <2>1
    <3> QED BY <3>1 DEF RuleText, PairText
  <2> HIDE DEF n, len
  <2> QED BY <2>1, <2>2
<1>2. PICK K : /\ K[0] = [at |-> 1, match |-> NoMatch]
               /\ \A k \in 1..len : K[k] = ReadPair(tokens, K[k - 1])
               /\ newmatch(tokens) = K[len].match
  BY NewmatchUnfolds
<1>3. \A k \in 1..n : /\ Q[k].key # "=" /\ Q[k].val \in TextValues /\ Q[k].ok \in BOOLEAN
                      /\ PairText(tokens, 6 * k - 5, Q[k])
  <2> TAKE k \in 1..n
  <2>1. Q[k] \in PairRecords
    OBVIOUS
  <2>2. Q[k].key \in RuleKeys /\ Q[k].val \in TextValues /\ Q[k].ok \in BOOLEAN
    BY <2>1 DEF PairRecords
  <2> QED BY <2>2, NoKeyIsSign DEF RuleText
<1> HIDE DEF n, len
<1> DEFINE Good == {k \in Nat :
             IF Refused(Q, k) THEN K[k].match = Absent
             ELSE \E mt : Took(mt, Q, k) /\ K[k] = [at |-> 6 * k + 1, match |-> mt]}
<1>4. 0 \in Good /\ Good \in SUBSET Nat
  <2>1. ~Refused(Q, 0)
    BY DEF Refused
  <2>2. Took(NoMatch, Q, 0) /\ 6 * 0 + 1 = 1
    BY NothingTaken
  <2> QED BY <1>2, <2>1, <2>2
<1>5. \A k \in 1..n : k - 1 \in Good => k \in Good
  <2> SUFFICES ASSUME NEW k \in 1..n, k - 1 \in Good PROVE k \in Good
    OBVIOUS
  <2> DEFINE a == 6 * k - 5
  <2>1. k \in Nat /\ k - 1 \in Nat /\ (k - 1) + 1 = k /\ k \in 1..len /\ a \in Nat /\ a > 0
        /\ 6 * (k - 1) + 1 = a /\ a + 6 = 6 * k + 1
    BY <1>1
  <2>2. K[k] = ReadPair(tokens, K[k - 1])
    BY <1>2, <2>1
  <2>3. \A i \in 1..k : i = k \/ i \in 1..(k - 1)
    OBVIOUS
  <2>4. CASE Refused(Q, k - 1)
    <3>1. Refused(Q, k)
      <4>1. \A i \in 1..(k - 1) : i \in 1..k
        BY <2>1
      <4> QED BY <2>4, <4>1 DEF Refused
    <3>2. K[k - 1].match = Absent
      BY <2>4
    <3>3. K[k] = K[k - 1]
      BY <2>2, <3>2, ReadDone
    <3> QED BY <2>1, <3>1, <3>2, <3>3
  <2>5. CASE ~Refused(Q, k - 1)
    <3>1. PICK mt : Took(mt, Q, k - 1) /\ K[k - 1] = [at |-> 6 * (k - 1) + 1, match |-> mt]
      BY <2>5
    <3>2. K[k - 1] = [at |-> a, match |-> mt]
      BY <2>1, <3>1
    <3>3. mt # Absent
      BY <3>1, MatchIsThere DEF Took
    <3>4. PairText(tokens, a, Q[k]) /\ Q[k].key # "=" /\ Q[k].val \in TextValues /\ Q[k].ok \in BOOLEAN
      BY <1>3
    <3> HIDE DEF a
    <3>5. PairAt(tokens, a) /\ tokens[a] = Q[k].key /\ tokens[a + 3] = Q[k].val
      BY <3>4, RulesAssumption DEF PairText, PairAt
    <3>6. CASE ~Q[k].ok
      <4>1. a + 3 = Len(tokens)
        BY <3>4, <3>6 DEF PairText
      <4>2. K[k].match = Absent
        BY <2>1, <2>2, <3>2, <3>3, <3>5, <4>1, ReadOpen
      <4>3. Refused(Q, k)
        <5>1. k \in 1..k
          BY <2>1
        <5> QED BY <3>6, <5>1 DEF Refused
      <4> QED BY <2>1, <4>2, <4>3
    <3>7. CASE Q[k].ok
      <4>1. a + 4 <= Len(tokens) /\ tokens[a + 4] = "'" /\ (a + 4 = Len(tokens) \/ tokens[a + 5] = Comma)
        BY <3>4, <3>7 DEF PairText
      <4> DEFINE wrong == Q[k].key = "type" /\ Q[k].val \notin KnownTypes
      <4>2. K[k] = IF wrong THEN [at |-> a, match |-> Absent]
                   ELSE [at |-> a + 6, match |-> TakePair(mt, Q[k].key, Q[k].val)]
        <5>1. K[k] = IF tokens[a] = "type" /\ tokens[a + 3] \notin KnownTypes THEN [at |-> a, match |-> Absent]
                     ELSE [at |-> a + 6, match |-> TakePair(mt, tokens[a], tokens[a + 3])]
          <6>1. a \in Nat /\ a > 0 /\ PairAt(tokens, a)
            BY <2>1, <3>5
          <6>2. ReadPair(tokens, [at |-> a, match |-> mt]) =
                  IF tokens[a] = "type" /\ tokens[a + 3] \notin KnownTypes THEN [at |-> a, match |-> Absent]
                  ELSE [at |-> a + 6, match |-> TakePair(mt, tokens[a], tokens[a + 3])]
            BY <3>3, <4>1, <6>1, ReadOne
          <6> QED BY <2>2, <3>2, <6>2
        <5> QED BY <3>5, <5>1
      <4>3. CASE wrong
        <5>1. Refused(Q, k)
          <6>1. k \in 1..k
            BY <2>1
          <6> QED BY <4>3, <6>1 DEF Refused
        <5>2. K[k].match = Absent
          BY <4>2, <4>3
        <5> QED BY <2>1, <5>1, <5>2
      <4>4. CASE ~wrong
        <5>1. ~Refused(Q, k)
          BY <2>3, <2>5, <3>7, <4>4 DEF Refused
        <5>2. Took(TakePair(mt, Q[k].key, Q[k].val), Q, k)
          <6> DEFINE j == k - 1
          <6>1. j \in Nat /\ j + 1 = k /\ Took(mt, Q, j)
            BY <2>1, <3>1
          <6> HIDE DEF j
          <6>2. Took(TakePair(mt, Q[j + 1].key, Q[j + 1].val), Q, j + 1)
            BY <3>4, <6>1, TakeOne
          <6> QED BY <6>1, <6>2
        <5>3. K[k] = [at |-> 6 * k + 1, match |-> TakePair(mt, Q[k].key, Q[k].val)]
          BY <2>1, <4>2, <4>4
        <5> QED BY <2>1, <5>1, <5>2, <5>3
      <4> QED BY <4>3, <4>4
    <3> QED BY <3>4, <3>6, <3>7
  <2> QED BY <2>4, <2>5
<1>6. n \in Good
  <2> HIDE DEF Good
  <2>1. \A k \in 0..n : k \in Good
    BY <1>1, <1>4, <1>5, UpTo
  <2> QED BY <1>1, <2>1
<1>7. K[n].match = Absent \/ K[n].at > len
  <2>1. CASE Refused(Q, n)
    BY <1>6, <2>1
  <2>2. CASE ~Refused(Q, n)
    <3>1. PICK mt : K[n] = [at |-> 6 * n + 1, match |-> mt]
      BY <1>6, <2>2
    <3>2. 6 * n + 1 > len
      BY <1>1
    <3> QED BY <3>1, <3>2
  <2> QED BY <2>1, <2>2
<1> DEFINE Same == {k \in Nat : K[n + k] = K[n]}
<1>8. 0 \in Same /\ Same \in SUBSET Nat
  BY <1>1
<1>9. \A k \in 1..(len - n) : k - 1 \in Same => k \in Same
  <2> SUFFICES ASSUME NEW k \in 1..(len - n), k - 1 \in Same PROVE k \in Same
    OBVIOUS
  <2>1. k \in Nat /\ n + k \in 1..len /\ (n + k) - 1 = n + (k - 1)
    BY <1>1
  <2>2. K[n + k] = ReadPair(tokens, K[n])
    BY <1>2, <2>1
  <2>3. K[n + k] = K[n]
    BY <1>7, <2>2, ReadDone DEF len
  <2> QED BY <2>1, <2>3
<1>10. K[len] = K[n]
  <2>1. len - n \in Nat /\ n + (len - n) = len /\ len - n \in 0..(len - n)
    BY <1>1
  <2>2. len - n \in Same
    <3> HIDE DEF Same
    <3>1. \A k \in 0..(len - n) : k \in Same
      BY <1>8, <1>9, <2>1, UpTo
    <3> QED BY <2>1, <3>1
  <2> QED BY <2>1, <2>2
<1>11. CASE Refused(Q, n)
  BY <1>2, <1>6, <1>10, <1>11 DEF n
<1>12. CASE ~Refused(Q, n)
  <2>1. PICK mt : Took(mt, Q, n) /\ K[n] = [at |-> 6 * n + 1, match |-> mt]
    BY <1>6, <1>12
  <2>2. newmatch(tokens) = mt
    BY <1>2, <1>10, <2>1
  <2> QED BY <1>12, <2>1, <2>2 DEF n
<1> QED BY <1>11, <1>12

-----------------------------------------------------------------------------
(* The text that a client writes for some pairs, with a comma behind each. *)
FullText(t, Q) ==
  /\ Len(t) = 6 * Len(Q)
  /\ \A k \in 1..Len(Q) :
       LET a == 6 * k - 5
       IN  /\ Q[k].ok = TRUE /\ t[a] = Q[k].key /\ t[a + 1] = "=" /\ t[a + 2] = "'"
           /\ t[a + 3] = Q[k].val /\ t[a + 4] = "'" /\ t[a + 5] = Comma

(* The pairs are those of a set. *)
Exactly(Q, G) == \A q : q \in G <=> \E k \in 1..Len(Q) : Q[k] = q

(* A text that has exactly some pairs in it. *)
Written(t, G) ==
  t \in Seq(Tokens) /\ \E Q \in Seq(PairRecords) : FullText(t, Q) /\ Exactly(Q, G)

LEMMA NoneWritten == Written(<<>>, {})
<1>1. <<>> \in Seq(PairRecords) /\ <<>> \in Seq(Tokens) /\ Len(<<>>) = 0
  OBVIOUS
<1>2. FullText(<<>>, <<>>)
  <2>1. 6 * 0 = 0 /\ 1..0 = {}
    OBVIOUS
  <2> QED BY <1>1, <2>1 DEF FullText
<1>3. Exactly(<<>>, {})
  BY <1>1 DEF Exactly
<1> QED BY <1>1, <1>2, <1>3 DEF Written

LEMMA OneWritten ==
  ASSUME NEW key \in RuleKeys, NEW val \in TextValues
  PROVE  Written(Pair(key, val), {[key |-> key, val |-> val, ok |-> TRUE]})
<1> DEFINE q == [key |-> key, val |-> val, ok |-> TRUE]
           Q == <<q>>
           t == Pair(key, val)
<1>1. q \in PairRecords
  BY DEF PairRecords
<1>2. q.key = key /\ q.val = val /\ q.ok = TRUE
  OBVIOUS
<1> HIDE DEF q
<1>3. Q \in Seq(PairRecords) /\ Len(Q) = 1 /\ Q[1] = q
  BY <1>1
<1>4. /\ t \in Seq(Tokens) /\ Len(t) = 6 /\ t[1] = key /\ t[2] = "=" /\ t[3] = "'" /\ t[4] = val
      /\ t[5] = "'" /\ t[6] = Comma
  <2>1. key \in Tokens /\ val \in Tokens /\ "=" \in Tokens /\ "'" \in Tokens /\ Comma \in Tokens
    BY DEF Tokens
  <2> QED BY <2>1 DEF Pair
<1> HIDE DEF Q, t
<1>5. \A k \in 1..1 : k = 1 /\ 6 * k - 5 = 1
  OBVIOUS
<1>6. FullText(t, Q)
  BY <1>2, <1>3, <1>4, <1>5 DEF FullText
<1>7. Exactly(Q, {q})
  BY <1>3 DEF Exactly
<1> QED BY <1>3, <1>4, <1>6, <1>7 DEF Written, q, t

LEMMA BothWritten ==
  ASSUME NEW s, NEW t, NEW G, NEW H, Written(s, G), Written(t, H)
  PROVE  Written(s \o t, G \cup H)
<1>1. PICK Q \in Seq(PairRecords) : FullText(s, Q) /\ Exactly(Q, G)
  BY DEF Written
<1>2. PICK R \in Seq(PairRecords) : FullText(t, R) /\ Exactly(R, H)
  BY DEF Written
<1> DEFINE m == Len(Q)
           n == Len(R)
           x == s \o t
           P == Q \o R
<1>3. s \in Seq(Tokens) /\ t \in Seq(Tokens)
  BY DEF Written
<1>4. m \in Nat /\ n \in Nat /\ Len(s) = 6 * m /\ Len(t) = 6 * n
  BY <1>1, <1>2 DEF FullText
<1>5. /\ x \in Seq(Tokens) /\ Len(x) = 6 * m + 6 * n
      /\ \A i \in 1..(6 * m + 6 * n) : x[i] = IF i <= 6 * m THEN s[i] ELSE t[i - 6 * m]
  <2>1. /\ x \in Seq(Tokens) /\ Len(x) = Len(s) + Len(t)
        /\ \A i \in 1..(Len(s) + Len(t)) : x[i] = IF i <= Len(s) THEN s[i] ELSE t[i - Len(s)]
    BY <1>3, JoinPlaces
  <2> HIDE DEF x, m, n
  <2> QED BY <1>4, <2>1
<1>6. /\ P \in Seq(PairRecords) /\ Len(P) = m + n
      /\ \A i \in 1..(m + n) : P[i] = IF i <= m THEN Q[i] ELSE R[i - m]
  BY JoinPlaces
<1> HIDE DEF x, P, m, n
<1>7. ASSUME NEW k \in 1..(m + n)
      PROVE  LET a == 6 * k - 5
             IN  /\ P[k].ok = TRUE /\ x[a] = P[k].key /\ x[a + 1] = "=" /\ x[a + 2] = "'"
                 /\ x[a + 3] = P[k].val /\ x[a + 4] = "'" /\ x[a + 5] = Comma
  <2> DEFINE a == 6 * k - 5
  <2>1. CASE k <= m
    <3>1. k \in 1..m /\ P[k] = Q[k]
      BY <1>4, <1>6, <2>1
    <3>2. \A i \in 0..5 : a + i \in 1..(6 * m + 6 * n) /\ a + i <= 6 * m
      <4>1. k \in Nat /\ k > 0 /\ k <= m /\ m \in Nat /\ n \in Nat
        BY <1>4, <3>1
      <4>2. a \in Nat /\ a > 0 /\ a + 5 <= 6 * m
        BY <4>1
      <4> HIDE DEF a
      <4> QED BY <4>1, <4>2
    <3>3. \A i \in 0..5 : x[a + i] = s[a + i]
      BY <1>5, <3>2
    <3>4. a + 0 = a
      BY <1>4
    <3>5. x[a] = s[a] /\ \A i \in 1..5 : x[a + i] = s[a + i]
      BY <3>3, <3>4
    <3>6. /\ Q[k].ok = TRUE /\ s[a] = Q[k].key /\ s[a + 1] = "=" /\ s[a + 2] = "'"
          /\ s[a + 3] = Q[k].val /\ s[a + 4] = "'" /\ s[a + 5] = Comma
      BY <1>1, <3>1 DEF FullText, m
    <3> HIDE DEF a
    <3>7. /\ x[a + 1] = s[a + 1] /\ x[a + 2] = s[a + 2] /\ x[a + 3] = s[a + 3]
          /\ x[a + 4] = s[a + 4] /\ x[a + 5] = s[a + 5]
      BY <3>5
    <3> QED BY <3>1, <3>5, <3>6, <3>7 DEF a
  <2>2. CASE ~(k <= m)
    <3> DEFINE j == k - m
               b == 6 * j - 5
    <3>1. j \in 1..n /\ P[k] = R[j]
      BY <1>4, <1>6, <2>2
    <3>2. \A i \in 0..5 : a + i \in 1..(6 * m + 6 * n) /\ ~(a + i <= 6 * m) /\ (a + i) - 6 * m = b + i
      BY <1>4, <3>1
    <3>3. \A i \in 0..5 : x[a + i] = t[b + i]
      BY <1>5, <3>2
    <3>4. a + 0 = a /\ b + 0 = b
      BY <1>4, <3>1
    <3>5. x[a] = t[b] /\ \A i \in 1..5 : x[a + i] = t[b + i]
      BY <3>3, <3>4
    <3>6. /\ R[j].ok = TRUE /\ t[b] = R[j].key /\ t[b + 1] = "=" /\ t[b + 2] = "'"
          /\ t[b + 3] = R[j].val /\ t[b + 4] = "'" /\ t[b + 5] = Comma
      BY <1>2, <3>1 DEF FullText, n
    <3> HIDE DEF a, b, j
    <3>7. /\ x[a + 1] = t[b + 1] /\ x[a + 2] = t[b + 2] /\ x[a + 3] = t[b + 3]
          /\ x[a + 4] = t[b + 4] /\ x[a + 5] = t[b + 5]
      BY <3>5
    <3> QED BY <3>1, <3>5, <3>6, <3>7 DEF a
  <2> QED BY <2>1, <2>2
<1>8. FullText(x, P)
  <2>1. 6 * m + 6 * n = 6 * (m + n)
    BY <1>4
  <2> QED BY <1>5, <1>6, <1>7, <2>1 DEF FullText
<1>9. Exactly(P, G \cup H)
  <2>1. ASSUME NEW k \in 1..Len(P) PROVE P[k] \in G \cup H
    <3>1. CASE k <= m
      <4>1. k \in 1..m /\ P[k] = Q[k]
        BY <1>4, <1>6, <2>1, <3>1
      <4> QED BY <1>1, <4>1 DEF Exactly, m
    <3>2. CASE ~(k <= m)
      <4>1. k - m \in 1..n /\ P[k] = R[k - m]
        BY <1>4, <1>6, <2>1, <3>2
      <4> QED BY <1>2, <4>1 DEF Exactly, n
    <3> QED BY <3>1, <3>2
  <2>2. ASSUME NEW q \in G PROVE \E k \in 1..Len(P) : P[k] = q
    <3>1. PICK k \in 1..m : Q[k] = q
      BY <1>1, <2>2 DEF Exactly, m
    <3>2. k \in 1..Len(P) /\ P[k] = q
      BY <1>4, <1>6, <3>1
    <3> QED BY <3>2
  <2>3. ASSUME NEW q \in H PROVE \E k \in 1..Len(P) : P[k] = q
    <3>1. PICK k \in 1..n : R[k] = q
      BY <1>2, <2>3 DEF Exactly, n
    <3>2. m + k \in 1..(m + n) /\ ~(m + k <= m) /\ (m + k) - m = k
      BY <1>4
    <3>3. P[m + k] = q
      BY <1>6, <3>1, <3>2
    <3> QED BY <1>6, <3>2, <3>3
  <2> QED BY <2>1, <2>2, <2>3 DEF Exactly
<1> QED BY <1>5, <1>6, <1>8, <1>9 DEF Written, x

LEMMA FieldsWritten ==
  ASSUME NEW keys \in Seq(RuleKeys), NEW vals,
         \A i \in 1..Len(keys) : vals[i] \in TextValues \cup {Absent}
  PROVE  Written(FieldPairs(keys, vals),
                 {[key |-> keys[i], val |-> vals[i], ok |-> TRUE] : i \in {j \in 1..Len(keys) : vals[j] # Absent}})
<1> DEFINE N == Len(keys)
           q(i) == [key |-> keys[i], val |-> vals[i], ok |-> TRUE]
           G(n) == {q(i) : i \in {j \in 1..n : vals[j] # Absent}}
           piece(i) == IF vals[i] = Absent THEN <<>> ELSE Pair(keys[i], vals[i])
           ss == [i \in DOMAIN keys |-> piece(i)]
           W == Seq(Tokens)
<1>1. N \in Nat /\ DOMAIN keys = 1..N /\ \A i \in 1..N : keys[i] \in RuleKeys
  OBVIOUS
<1>2. \A i \in 1..N : Written(piece(i), IF vals[i] = Absent THEN {} ELSE {q(i)})
  <2> TAKE i \in 1..N
  <2>1. CASE vals[i] = Absent
    BY <2>1, NoneWritten
  <2>2. CASE vals[i] # Absent
    <3>1. keys[i] \in RuleKeys /\ vals[i] \in TextValues
      BY <1>1, <2>2
    <3> QED BY <2>2, <3>1, OneWritten
  <2> QED BY <2>1, <2>2
<1> HIDE DEF piece, q, N
<1>3. \A i \in 1..N : piece(i) \in W
  BY <1>2 DEF Written
<1>4. ss \in Seq(W) /\ Len(ss) = N /\ \A i \in 1..N : ss[i] = piece(i)
  <2> HIDE DEF W
  <2>1. ss \in [1..N -> W]
    BY <1>1, <1>3
  <2> QED BY <1>1, <2>1
<1> HIDE DEF ss
<1>5. PICK K \in [0..N -> W] :
        K[0] = <<>> /\ (\A n \in 1..N : K[n] = K[n - 1] \o ss[n]) /\ FlattenSeq(ss) = K[N]
  BY <1>4, FlattenUnfolds
<1>6. FieldPairs(keys, vals) = K[N]
  BY <1>5 DEF FieldPairs, ss, piece
<1> HIDE DEF W
<1> DEFINE Good == {n \in Nat : Written(K[n], G(n))}
<1>7. 0 \in Good /\ Good \in SUBSET Nat
  <2>1. G(0) = {}
    OBVIOUS
  <2> QED BY <1>5, <2>1, NoneWritten
<1>8. \A n \in 1..N : n - 1 \in Good => n \in Good
  <2> SUFFICES ASSUME NEW n \in 1..N, n - 1 \in Good PROVE n \in Good
    OBVIOUS
  <2>1. n \in Nat /\ \A i : i \in 1..n <=> i = n \/ i \in 1..(n - 1)
    BY <1>1
  <2>2. Written(K[n - 1] \o piece(n), G(n - 1) \cup (IF vals[n] = Absent THEN {} ELSE {q(n)}))
    <3>1. Written(K[n - 1], G(n - 1))
      OBVIOUS
    <3> HIDE DEF G
    <3> QED BY <1>2, <3>1, BothWritten
  <2>3. G(n) = G(n - 1) \cup (IF vals[n] = Absent THEN {} ELSE {q(n)})
    <3>1. CASE vals[n] = Absent
      <4>1. {j \in 1..n : vals[j] # Absent} = {j \in 1..(n - 1) : vals[j] # Absent}
        BY <2>1, <3>1
      <4> QED BY <3>1, <4>1
    <3>2. CASE vals[n] # Absent
      <4>1. {j \in 1..n : vals[j] # Absent} = {j \in 1..(n - 1) : vals[j] # Absent} \cup {n}
        BY <2>1, <3>2
      <4> QED BY <3>2, <4>1
    <3> QED BY <3>1, <3>2
  <2>4. K[n] = K[n - 1] \o piece(n)
    BY <1>4, <1>5
  <2> HIDE DEF G
  <2> QED BY <2>1, <2>2, <2>3, <2>4
<1>9. N \in Good
  <2> HIDE DEF Good
  <2>1. \A n \in 0..N : n \in Good
    BY <1>1, <1>7, <1>8, UpTo
  <2> QED BY <1>1, <2>1
<1> QED BY <1>6, <1>9 DEF q, N

(* The comma at the end goes. *)
LEMMA FrontIsRule ==
  ASSUME NEW t, NEW G, Written(t, G)
  PROVE  LET tokens == IF t = <<>> THEN <<>> ELSE Front(t)
         IN  tokens \in Seq(Tokens) /\ \E Q \in Seq(PairRecords) : RuleText(tokens, Q) /\ Exactly(Q, G)
                                        /\ \A k \in 1..Len(Q) : Q[k].ok = TRUE
<1> DEFINE tokens == IF t = <<>> THEN <<>> ELSE Front(t)
<1>1. PICK Q \in Seq(PairRecords) : FullText(t, Q) /\ Exactly(Q, G)
  BY DEF Written
<1> DEFINE n == Len(Q)
<1>2. n \in Nat /\ t \in Seq(Tokens) /\ Len(t) = 6 * n
  <2>1. n \in Nat
    OBVIOUS
  <2>2. t \in Seq(Tokens)
    BY DEF Written
  <2>3. Len(t) = 6 * n
    BY <1>1 DEF FullText
  <2> QED BY <2>1, <2>2, <2>3
<1>3. CASE t = <<>>
  <2>1. n = 0
    <3>1. 6 * n = 0
      BY <1>2, <1>3
    <3> HIDE DEF n
    <3> QED BY <1>2, <3>1
  <2>2. tokens = <<>> /\ tokens \in Seq(Tokens) /\ Len(tokens) = 0
    BY <1>3
  <2> HIDE DEF n, tokens
  <2>3. RuleText(tokens, Q)
    BY <2>1, <2>2 DEF RuleText, n
  <2>4. \A k \in 1..Len(Q) : Q[k].ok = TRUE
    <3>1. 1..n = {}
      BY <2>1
    <3> QED BY <3>1 DEF n
  <2> QED BY <1>1, <2>2, <2>3, <2>4 DEF tokens
<1>4. CASE t # <<>>
  <2>1. tokens \in Seq(Tokens) /\ Len(tokens) = 6 * n - 1 /\ \A i \in 1..(6 * n - 1) : tokens[i] = t[i]
    <3>1. Front(t) \in Seq(Tokens) /\ Len(Front(t)) = Len(t) - 1 /\ \A i \in 1..(Len(t) - 1) : Front(t)[i] = t[i]
      BY <1>2, <1>4, FrontPlaces
    <3> QED BY <1>2, <1>4, <3>1
  <2> HIDE DEF tokens
  <2>2. ASSUME NEW k \in 1..n PROVE PairText(tokens, 6 * k - 5, Q[k]) /\ Q[k].ok = TRUE
    <3> DEFINE a == 6 * k - 5
    <3>1. /\ Q[k].ok = TRUE /\ t[a] = Q[k].key /\ t[a + 1] = "=" /\ t[a + 2] = "'"
          /\ t[a + 3] = Q[k].val /\ t[a + 4] = "'" /\ t[a + 5] = Comma
      BY <1>1 DEF FullText
    <3> HIDE DEF n
    <3>2. /\ a \in 1..(6 * n - 1) /\ a + 1 \in 1..(6 * n - 1) /\ a + 2 \in 1..(6 * n - 1)
          /\ a + 3 \in 1..(6 * n - 1) /\ a + 4 \in 1..(6 * n - 1)
          /\ (a + 4 = 6 * n - 1 \/ a + 5 \in 1..(6 * n - 1))
      BY <1>2
    <3>3. a + 3 <= 6 * n - 1 /\ a + 4 <= 6 * n - 1
      BY <1>2
    <3> HIDE DEF a
    <3>4. /\ tokens[a] = t[a] /\ tokens[a + 1] = t[a + 1] /\ tokens[a + 2] = t[a + 2]
          /\ tokens[a + 3] = t[a + 3] /\ tokens[a + 4] = t[a + 4]
          /\ (a + 4 = 6 * n - 1 \/ tokens[a + 5] = t[a + 5])
      BY <2>1, <3>2
    <3>5. PairText(tokens, a, Q[k])
      BY <2>1, <3>1, <3>3, <3>4 DEF PairText
    <3> QED BY <3>1, <3>5 DEF a
  <2>3. Len(tokens) <= 6 * n
    <3> HIDE DEF n
    <3> QED BY <1>2, <2>1
  <2>4. RuleText(tokens, Q)
    BY <2>2, <2>3 DEF RuleText
  <2> QED BY <1>1, <2>1, <2>2, <2>4 DEF tokens
<1> QED BY <1>3, <1>4

(* Some pairs give a key one value, or do not have it. *)
OneValue(G, key, w) ==
  /\ w # Absent => \E q \in G : q.key = key
  /\ \A q \in G : q.key = key => q.val = w /\ w # Absent

LEMMA ValueIs ==
  ASSUME NEW Q, NEW G, NEW key, NEW v, NEW w,
         Exactly(Q, G), LastGiven(Q, Len(Q), key, v), OneValue(G, key, w)
  PROVE  v = w
<1>0. /\ w # Absent => \E q \in G : q.key = key
      /\ \A q \in G : q.key = key => q.val = w /\ w # Absent
  BY DEF OneValue
<1>1. CASE v = Absent /\ \A i \in 1..Len(Q) : Q[i].key # key
  <2> SUFFICES ASSUME w # Absent PROVE FALSE
    BY <1>1
  <2>1. PICK q \in G : q.key = key
    BY <1>0
  <2>2. PICK i \in 1..Len(Q) : Q[i] = q
    BY DEF Exactly
  <2> QED BY <1>1, <2>1, <2>2
<1>2. CASE \E i \in 1..Len(Q) : Q[i].key = key /\ Q[i].val = v
  <2>1. PICK i \in 1..Len(Q) : Q[i].key = key /\ Q[i].val = v
    BY <1>2
  <2>2. Q[i] \in G
    BY DEF Exactly
  <2> QED BY <1>0, <2>1, <2>2
<1> QED BY <1>1, <1>2 DEF LastGiven

LEMMA StringKeyPlaces ==
  /\ StringKeys \in Seq(RuleKeys) /\ Len(StringKeys) = 5 /\ DOMAIN StringKeys = 1..5
  /\ \A i \in 1..5 : StringKeys[i] \in ToSet(StringKeys)
  /\ \A key \in ToSet(StringKeys) : \E i \in 1..5 : StringKeys[i] = key
<1>1. Len(StringKeys) = 5 /\ DOMAIN StringKeys = 1..5
  BY DEF StringKeys
<1>2. \A i \in 1..5 : StringKeys[i] \in ToSet(StringKeys)
  BY <1>1, Zenon DEF ToSet
<1>3. \A key \in ToSet(StringKeys) : \E i \in 1..5 : StringKeys[i] = key
  BY <1>1, Zenon DEF ToSet
<1>4. StringKeys \in Seq(RuleKeys)
  <2>1. ToSet(StringKeys) \subseteq RuleKeys
    BY DEF RuleKeys
  <2>2. {"sender", "interface", "member", "path", "destination"} \subseteq RuleKeys
    BY <2>1, KeysAre
  <2> HIDE DEF RuleKeys
  <2> QED BY <2>2 DEF StringKeys
<1> QED BY <1>1, <1>2, <1>3, <1>4

(* Matches with any fields: those that clients ask for, and their copies. *)
AnyMatches ==
  [type : RuleTypes \cup {Absent}, fields : [ToSet(StringKeys) -> RuleValues \cup {Absent}],
   args : UNION {[1..n -> RuleValues \cup {Absent}] : n \in 0..Len(ArgKeys)}]

(* What a client's match is. *)
LEMMA AskedIs ==
  ASSUME NEW mt \in AnyMatches
  PROVE  /\ mt.type = Absent \/ (mt.type \in TextValues /\ mt.type \in KnownTypes)
         /\ mt.fields \in [ToSet(StringKeys) -> RuleValues \cup {Absent}]
         /\ mt.args \in Seq(RuleValues \cup {Absent}) /\ Len(mt.args) \in Nat /\ Len(mt.args) <= Len(ArgKeys)
         /\ mt # Absent
<1> DEFINE V == RuleValues \cup {Absent}
<1> DEFINE F == [ToSet(StringKeys) -> V]
<1>1. mt.type \in RuleTypes \cup {Absent} /\ mt.fields \in F
      /\ mt.args \in UNION {[1..n -> V] : n \in 0..Len(ArgKeys)}
      /\ mt = [type |-> mt.type, fields |-> mt.fields, args |-> mt.args]
  <2> DEFINE A == UNION {[1..n -> V] : n \in 0..Len(ArgKeys)}
             B == RuleTypes \cup {Absent}
  <2>1. mt \in [type : B, fields : F, args : A]
    BY DEF AnyMatches
  <2> HIDE DEF A, B, F
  <2>2. mt.type \in B /\ mt.fields \in F /\ mt.args \in A
        /\ mt = [type |-> mt.type, fields |-> mt.fields, args |-> mt.args]
    BY <2>1
  <2> QED BY <2>2 DEF A, B
<1>2. mt.type = Absent \/ (mt.type \in TextValues /\ mt.type \in KnownTypes)
  BY <1>1, RulesAssumption DEF TextValues
<1>3. mt.fields \in [ToSet(StringKeys) -> V]
  BY <1>1
<1>4. PICK n \in 0..Len(ArgKeys) : mt.args \in [1..n -> V]
  BY <1>1
<1>5. n \in Nat /\ n <= Len(ArgKeys)
  BY ArgKeyIs
<1> HIDE DEF V
<1>6. mt.args \in Seq(V) /\ Len(mt.args) = n
  BY <1>4, <1>5
<1>7. mt # Absent
  <2> DEFINE T == TextValues \cup {Absent}
  <2>1. V \subseteq T
    BY DEF V, TextValues
  <2>2. mt.type \in T
    BY <1>2
  <2> HIDE DEF T
  <2>3. mt.fields \in [ToSet(StringKeys) -> T]
    BY <1>3, <2>1
  <2>4. mt.args \in Seq(T)
    BY <1>6, <2>1
  <2>5. mt \in RuleMatches
    BY <1>1, <2>2, <2>3, <2>4 DEF RuleMatches, T
  <2> QED BY <2>5, MatchIsThere
<1> QED BY <1>2, <1>3, <1>5, <1>6, <1>7 DEF V

(* The pairs of a client's match. *)
OneGiven(key, val) == [key |-> key, val |-> val, ok |-> TRUE]
TypePair(mt) == IF mt.type = Absent THEN {} ELSE {OneGiven("type", mt.type)}
FieldsGiven(mt) ==
  {OneGiven(StringKeys[i], mt.fields[StringKeys[i]]) :
     i \in {j \in 1..5 : mt.fields[StringKeys[j]] # Absent}}
ArgsGiven(mt) ==
  {OneGiven(ArgKeys[i], mt.args[i]) : i \in {j \in 1..Len(mt.args) : mt.args[j] # Absent}}

LEMMA MatchIsWritten ==
  ASSUME NEW mt \in AnyMatches
  PROVE  /\ matchString(mt) \in Seq(Tokens)
         /\ \E Q \in Seq(PairRecords) :
              /\ RuleText(matchString(mt), Q) /\ \A k \in 1..Len(Q) : Q[k].ok = TRUE
              /\ Exactly(Q, (TypePair(mt) \cup FieldsGiven(mt)) \cup ArgsGiven(mt))
<1>1. /\ mt.type = Absent \/ mt.type \in TextValues
      /\ mt.fields \in [ToSet(StringKeys) -> RuleValues \cup {Absent}]
      /\ mt.args \in Seq(RuleValues \cup {Absent}) /\ Len(mt.args) \in Nat /\ Len(mt.args) <= Len(ArgKeys)
  BY AskedIs
<1>2. RuleValues \cup {Absent} \subseteq TextValues \cup {Absent}
  BY DEF TextValues
<1> DEFINE one == IF mt.type = Absent THEN <<>> ELSE Pair("type", mt.type)
           vals == [i \in DOMAIN StringKeys |-> mt.fields[StringKeys[i]]]
           two == FieldPairs(StringKeys, vals)
           keys == SubSeq(ArgKeys, 1, Len(mt.args))
           three == FieldPairs(keys, mt.args)
           all == one \o two \o three
<1>3. Written(one, TypePair(mt))
  <2>1. CASE mt.type = Absent
    BY <2>1, NoneWritten DEF TypePair
  <2>2. CASE mt.type # Absent
    <3>1. mt.type \in TextValues /\ "type" \in RuleKeys
      BY <1>1, <2>2 DEF RuleKeys
    <3> QED BY <2>2, <3>1, OneWritten DEF TypePair, OneGiven
  <2> QED BY <2>1, <2>2
<1>4. Written(two, FieldsGiven(mt))
  <2>1. \A i \in 1..5 : vals[i] = mt.fields[StringKeys[i]] /\ vals[i] \in TextValues \cup {Absent}
    BY <1>1, <1>2, StringKeyPlaces
  <2> HIDE DEF vals
  <2>2. Written(two, {[key |-> StringKeys[i], val |-> vals[i], ok |-> TRUE] :
                        i \in {j \in 1..5 : vals[j] # Absent}})
    <3>1. \A i \in 1..Len(StringKeys) : vals[i] \in TextValues \cup {Absent}
      BY <2>1, StringKeyPlaces
    <3>2. Written(two, {[key |-> StringKeys[i], val |-> vals[i], ok |-> TRUE] :
                          i \in {j \in 1..Len(StringKeys) : vals[j] # Absent}})
      <4>1. StringKeys \in Seq(RuleKeys)
        BY StringKeyPlaces
      <4> QED BY <3>1, <4>1, FieldsWritten, Zenon
    <3> HIDE DEF two
    <3> QED BY <3>2, StringKeyPlaces
  <2>3. {[key |-> StringKeys[i], val |-> vals[i], ok |-> TRUE] : i \in {j \in 1..5 : vals[j] # Absent}}
          = FieldsGiven(mt)
    BY <2>1 DEF FieldsGiven, OneGiven
  <2> QED BY <2>2, <2>3
<1>5. Written(three, ArgsGiven(mt))
  <2> DEFINE l == Len(mt.args)
  <2>1. l \in Nat /\ l <= Len(ArgKeys) /\ Len(ArgKeys) \in Nat /\ ArgKeys \in Seq(ToSet(ArgKeys))
    <3>1. \A i \in 1..Len(ArgKeys) : ArgKeys[i] \in ToSet(ArgKeys)
      BY ArgKeyIs
    <3>2. ArgKeys \in Seq(STRING)
      BY RulesAssumption
    <3> QED BY <1>1, <3>1, <3>2, ArgKeyIs
  <2> HIDE DEF l
  <2>2. /\ keys \in Seq(ToSet(ArgKeys)) /\ Len(keys) = l /\ \A i \in 1..l : keys[i] = ArgKeys[i]
    <3> DEFINE S == ToSet(ArgKeys)
    <3>1. ArgKeys \in Seq(S)
      BY <2>1
    <3> HIDE DEF S
    <3>2. LET x == SubSeq(ArgKeys, 1, l) IN x \in Seq(S) /\ Len(x) = l /\ \A i \in 1..l : x[i] = ArgKeys[i]
      BY <2>1, <3>1
    <3> QED BY <3>2 DEF S, l
  <2> HIDE DEF keys
  <2>3. keys \in Seq(RuleKeys)
    <3>1. \A i \in 1..l : keys[i] \in RuleKeys
      BY <2>1, <2>2, ArgKeyIs DEF RuleKeys
    <3> QED BY <2>1, <2>2, <3>1
  <2>4. \A i \in 1..l : mt.args[i] \in TextValues \cup {Absent}
    <3> DEFINE V == RuleValues \cup {Absent}
    <3>1. mt.args \in Seq(V)
      BY <1>1
    <3> HIDE DEF V
    <3>2. \A i \in 1..l : mt.args[i] \in V
      BY <3>1 DEF l
    <3> QED BY <1>2, <3>2 DEF V
  <2>5. Written(three, {[key |-> keys[i], val |-> mt.args[i], ok |-> TRUE] :
                          i \in {j \in 1..l : mt.args[j] # Absent}})
    BY <2>2, <2>3, <2>4, FieldsWritten
  <2>6. {[key |-> keys[i], val |-> mt.args[i], ok |-> TRUE] : i \in {j \in 1..l : mt.args[j] # Absent}}
          = ArgsGiven(mt)
    BY <2>2 DEF ArgsGiven, OneGiven, l
  <2> QED BY <2>5, <2>6
<1>6. matchString(mt) = IF all = <<>> THEN <<>> ELSE Front(all)
  BY Zenon DEF matchString
<1> HIDE DEF one, two, three
<1>7. Written(all, (TypePair(mt) \cup FieldsGiven(mt)) \cup ArgsGiven(mt))
  <2>1. Written(one \o two, TypePair(mt) \cup FieldsGiven(mt))
    BY <1>3, <1>4, BothWritten
  <2> QED BY <1>5, <2>1, BothWritten
<1> HIDE DEF all
<1> QED BY <1>6, <1>7, FrontIsRule

(* The bus keeps what the client wrote. *)
LEMMA MatchIsKept ==
  ASSUME NEW mt \in AnyMatches
  PROVE  LET new == newmatch(matchString(mt))
         IN  /\ new \in RuleMatches /\ new.type = mt.type /\ new.fields = mt.fields
             /\ \A i \in 1..Len(ArgKeys) : ArgAt(new.args, i) = ArgAt(mt.args, i)
             /\ Len(new.args) <= Len(ArgKeys) /\ (new.args # <<>> => new.args[Len(new.args)] # Absent)
<1> DEFINE tokens == matchString(mt)
           new == newmatch(tokens)
           G == (TypePair(mt) \cup FieldsGiven(mt)) \cup ArgsGiven(mt)
<1>1. tokens \in Seq(Tokens)
  BY MatchIsWritten
<1>2. PICK Q \in Seq(PairRecords) :
        RuleText(tokens, Q) /\ Exactly(Q, G) /\ \A k \in 1..Len(Q) : Q[k].ok = TRUE
  BY MatchIsWritten
<1>3. /\ mt.type = Absent \/ (mt.type \in TextValues /\ mt.type \in KnownTypes)
      /\ mt.fields \in [ToSet(StringKeys) -> RuleValues \cup {Absent}]
      /\ mt.args \in Seq(RuleValues \cup {Absent}) /\ Len(mt.args) \in Nat /\ Len(mt.args) <= Len(ArgKeys)
  BY AskedIs
<1>4. \A key, val : OneGiven(key, val).key = key /\ OneGiven(key, val).val = val
  BY DEF OneGiven
<1>5. ASSUME NEW q \in G
      PROVE  \/ q.key = "type" /\ q.val = mt.type /\ mt.type # Absent
             \/ \E x \in ToSet(StringKeys) : q.key = x /\ q.val = mt.fields[x] /\ mt.fields[x] # Absent
             \/ \E i \in 1..Len(mt.args) : q.key = ArgKeys[i] /\ q.val = mt.args[i] /\ mt.args[i] # Absent
  <2>1. CASE q \in TypePair(mt)
    BY <1>4, <2>1 DEF TypePair
  <2>2. CASE q \in FieldsGiven(mt)
    <3>1. PICK i \in 1..5 : mt.fields[StringKeys[i]] # Absent /\ q = OneGiven(StringKeys[i], mt.fields[StringKeys[i]])
      BY <2>2 DEF FieldsGiven
    <3> QED BY <1>4, <3>1, StringKeyPlaces
  <2>3. CASE q \in ArgsGiven(mt)
    <3>1. PICK i \in 1..Len(mt.args) : mt.args[i] # Absent /\ q = OneGiven(ArgKeys[i], mt.args[i])
      BY <2>3 DEF ArgsGiven
    <3> QED BY <1>4, <3>1
  <2> QED BY <2>1, <2>2, <2>3
<1>6. Len(ArgKeys) \in Nat /\ \A i \in 1..Len(mt.args) : i \in 1..Len(ArgKeys)
  BY <1>3, ArgKeyIs
<1>7. \A i \in 1..Len(mt.args) : ArgKeys[i] # "type" /\ ArgKeys[i] \notin ToSet(StringKeys)
  BY <1>6, ArgKeyIs
<1>8. ~Refused(Q, Len(Q))
  <2> SUFFICES ASSUME NEW k \in 1..Len(Q), Q[k].key = "type", Q[k].val \notin KnownTypes PROVE FALSE
    BY <1>2 DEF Refused
  <2>1. Q[k] \in G
    <3> HIDE DEF G
    <3> QED BY <1>2 DEF Exactly
  <2> HIDE DEF G
  <2> QED BY <1>3, <1>5, <1>7, <2>1, KeysAre
<1>9. Took(new, Q, Len(Q))
  BY <1>1, <1>2, <1>8, RuleIsRead
<1> HIDE DEF new, tokens
<1>10. /\ new \in RuleMatches /\ LastGiven(Q, Len(Q), "type", new.type)
       /\ \A x \in ToSet(StringKeys) : LastGiven(Q, Len(Q), x, new.fields[x])
       /\ \A i \in DOMAIN ArgKeys : LastGiven(Q, Len(Q), ArgKeys[i], ArgAt(new.args, i))
       /\ Len(new.args) <= Len(ArgKeys) /\ (new.args # <<>> => new.args[Len(new.args)] # Absent)
  BY <1>9 DEF Took
<1>11. new.type = mt.type
  <2> DEFINE v == new.type
             w == mt.type
  <2>1. w # Absent => \E q \in G : q.key = "type"
    BY <1>4 DEF TypePair
  <2> HIDE DEF G
  <2>2. \A q \in G : q.key = "type" => q.val = w /\ w # Absent
    BY <1>5, <1>7, KeysAre
  <2>3. LastGiven(Q, Len(Q), "type", v)
    BY <1>10
  <2> HIDE DEF v, w
  <2>4. OneValue(G, "type", w)
    BY <2>1, <2>2 DEF OneValue
  <2>5. v = w
    BY <1>2, <2>3, <2>4, ValueIs
  <2> QED BY <2>5 DEF v, w
<1>12. ASSUME NEW x \in ToSet(StringKeys) PROVE new.fields[x] = mt.fields[x]
  <2> DEFINE w == mt.fields[x]
  <2>1. w # Absent => \E q \in G : q.key = x
    <3> SUFFICES ASSUME w # Absent PROVE \E q \in G : q.key = x
      OBVIOUS
    <3>1. PICK i \in 1..5 : StringKeys[i] = x
      BY StringKeyPlaces
    <3>2. OneGiven(x, w) \in FieldsGiven(mt)
      BY <3>1 DEF FieldsGiven
    <3> QED BY <1>4, <3>2
  <2> HIDE DEF G
  <2>2. \A q \in G : q.key = x => q.val = w /\ w # Absent
    BY <1>5, <1>7, KeysAre
  <2>3. LastGiven(Q, Len(Q), x, new.fields[x])
    BY <1>10
  <2> HIDE DEF w
  <2>4. OneValue(G, x, w)
    BY <2>1, <2>2 DEF OneValue
  <2>5. new.fields[x] = w
    BY <1>2, <2>3, <2>4, ValueIs
  <2> QED BY <2>5 DEF w
<1>13. new.fields = mt.fields
  <2> DEFINE T == TextValues \cup {Absent}
             V == RuleValues \cup {Absent}
  <2>1. new.fields \in [ToSet(StringKeys) -> T]
    <3>1. new \in [type : T, fields : [ToSet(StringKeys) -> T], args : Seq(T)]
      BY <1>10 DEF RuleMatches
    <3> HIDE DEF T
    <3> QED BY <3>1
  <2>2. mt.fields \in [ToSet(StringKeys) -> V]
    BY <1>3
  <2> HIDE DEF T, V
  <2> QED BY <1>12, <2>1, <2>2
<1>14. ASSUME NEW i \in 1..Len(ArgKeys) PROVE ArgAt(new.args, i) = ArgAt(mt.args, i)
  <2> DEFINE w == ArgAt(mt.args, i)
  <2>1. w # Absent => i \in 1..Len(mt.args) /\ mt.args[i] = w
    BY <1>3, <1>6 DEF ArgAt
  <2>2. \A j \in 1..Len(mt.args) : ArgAt(mt.args, j) = mt.args[j]
    BY <1>3 DEF ArgAt
  <2>3. w # Absent => \E q \in G : q.key = ArgKeys[i]
    <3> SUFFICES ASSUME w # Absent PROVE \E q \in G : q.key = ArgKeys[i]
      OBVIOUS
    <3>1. OneGiven(ArgKeys[i], w) \in ArgsGiven(mt)
      BY <2>1 DEF ArgsGiven
    <3> QED BY <1>4, <3>1
  <2> HIDE DEF G
  <2>4. \A q \in G : q.key = ArgKeys[i] => q.val = w /\ w # Absent
    <3> SUFFICES ASSUME NEW q \in G, q.key = ArgKeys[i] PROVE q.val = w /\ w # Absent
      OBVIOUS
    <3>1. PICK j \in 1..Len(mt.args) : q.key = ArgKeys[j] /\ q.val = mt.args[j] /\ mt.args[j] # Absent
      BY <1>5, ArgKeyIs
    <3>2. IsArgKey(ArgKeys[i]) = i /\ IsArgKey(ArgKeys[j]) = j
      BY <1>6, ArgKeyIs
    <3>3. i = j
      BY <3>1, <3>2
    <3> QED BY <2>2, <3>1, <3>3
  <2>5. LastGiven(Q, Len(Q), ArgKeys[i], ArgAt(new.args, i))
    BY <1>10, ArgKeyIs
  <2> HIDE DEF w
  <2>6. OneValue(G, ArgKeys[i], w)
    BY <2>3, <2>4 DEF OneValue
  <2>7. ArgAt(new.args, i) = w
    BY <1>2, <2>5, <2>6, ValueIs
  <2> QED BY <2>7 DEF w
<1> QED BY <1>10, <1>11, <1>13, <1>14 DEF new, tokens

-----------------------------------------------------------------------------
LEMMA CommaIsNoQuote == Comma # "'"
BY Zenon DEF Comma

(* A rule that goes on has whole pairs. *)
LEMMA RuleGoesOn ==
  ASSUME NEW tokens \in Seq(Tokens), NEW Q \in Seq(PairRecords), RuleText(tokens, Q),
         tokens # <<>> => Last(tokens) = Comma
  PROVE  Len(tokens) = 6 * Len(Q)
<1> DEFINE n == Len(Q)
           len == Len(tokens)
           a == 6 * n - 5
<1>1. n \in Nat /\ len \in Nat /\ len <= 6 * n
  BY DEF RuleText
<1>2. CASE n = 0
  <2> HIDE DEF n, len
  <2>1. len = 6 * n
    BY <1>1, <1>2
  <2> QED BY <2>1 DEF n, len
<1>3. CASE n # 0
  <2>1. n \in 1..n
    <3> HIDE DEF n
    <3> QED BY <1>1, <1>3
  <2>2. PairText(tokens, a, Q[n]) /\ Q[n] \in PairRecords
    BY <2>1 DEF RuleText
  <2>3. Q[n].val \in TextValues /\ Q[n].ok \in BOOLEAN
    BY <2>2 DEF PairRecords
  <2>4. a + 3 <= len /\ a \in Nat /\ a > 0
    <3>1. a + 3 <= len
      BY <2>2 DEF PairText
    <3>2. a \in Nat /\ a > 0
      <4> HIDE DEF n
      <4> QED BY <1>1, <1>3
    <3> QED BY <3>1, <3>2
  <2> HIDE DEF a, n
  <2>5. tokens # <<>> /\ tokens[len] = Comma
    <3>1. len > 0
      BY <1>1, <2>4
    <3>2. tokens # <<>>
      BY <3>1
    <3> QED BY <3>2 DEF Last
  <2>6. Q[n].ok
    <3> SUFFICES ASSUME ~Q[n].ok PROVE FALSE
      OBVIOUS
    <3>1. a + 3 = len /\ tokens[a + 3] = Q[n].val
      BY <2>2 DEF PairText
    <3>2. tokens[len] = Q[n].val
      BY <3>1
    <3> QED BY <2>3, <2>5, <3>2, RulesAssumption
  <2>7. a + 4 <= len /\ a + 4 # len
    <3>1. a + 4 <= len /\ tokens[a + 4] = "'"
      BY <2>2, <2>6 DEF PairText
    <3>2. a + 4 # len
      <4> SUFFICES ASSUME a + 4 = len PROVE FALSE
        OBVIOUS
      <4>1. tokens[len] = "'"
        BY <3>1
      <4> QED BY <2>5, <4>1, CommaIsNoQuote
    <3> QED BY <3>1, <3>2
  <2>8. len = 6 * n
    <3> HIDE DEF len
    <3> QED BY <1>1, <2>4, <2>7 DEF a
  <2> QED BY <2>8 DEF n
<1> QED BY <1>2, <1>3

(* One more pair at the end of a rule. *)
LEMMA PairAdded ==
  ASSUME NEW tokens \in Seq(Tokens), NEW Q \in Seq(PairRecords), RuleText(tokens, Q),
         Len(tokens) = 6 * Len(Q), NEW key \in RuleKeys, NEW val \in TextValues,
         NEW end \in {<<>>, <<"'">>, <<"'", Comma>>}
  PROVE  LET new == tokens \o <<key, "=", "'", val>> \o end
             more == Append(Q, [key |-> key, val |-> val, ok |-> end # <<>>])
         IN  new \in Seq(Tokens) /\ more \in Seq(PairRecords) /\ RuleText(new, more)
<1> DEFINE n == Len(Q)
           L == 6 * n
           four == <<key, "=", "'", val>>
           begun == tokens \o four
           new == begun \o end
           q == [key |-> key, val |-> val, ok |-> end # <<>>]
           more == Append(Q, q)
<1>0. Len(tokens) = L
  OBVIOUS
<1>1. n \in Nat /\ L \in Nat
  <2>1. n \in Nat
    OBVIOUS
  <2> HIDE DEF n
  <2> QED BY <2>1
<1>2. q \in PairRecords /\ q.key = key /\ q.val = val /\ q.ok = (end # <<>>)
  <2>1. (end # <<>>) \in BOOLEAN
    OBVIOUS
  <2> QED BY <2>1 DEF PairRecords
<1> HIDE DEF q
<1>3. /\ more \in Seq(PairRecords) /\ Len(more) = n + 1 /\ more[n + 1] = q
      /\ \A k \in 1..n : more[k] = Q[k]
  BY <1>2
<1>4. "=" \in Tokens /\ "'" \in Tokens /\ Comma \in Tokens /\ key \in Tokens /\ val \in Tokens
  BY DEF Tokens
<1>5. four \in Seq(Tokens) /\ Len(four) = 4 /\ four[1] = key /\ four[2] = "=" /\ four[3] = "'" /\ four[4] = val
  BY <1>4
<1>6. end \in Seq(Tokens) /\ Len(end) \in 0..2 /\ (end # <<>> => Len(end) > 0 /\ end[1] = "'")
      /\ (Len(end) > 1 => end[2] = Comma) /\ (end = <<>> => Len(end) = 0)
  <2>1. CASE end = <<>>
    BY <2>1
  <2>2. CASE end = <<"'">>
    BY <1>4, <2>2
  <2>3. CASE end = <<"'", Comma>>
    BY <1>4, <2>3
  <2> QED BY <2>1, <2>2, <2>3
<1> DEFINE e == Len(end)
<1> HIDE DEF four, n, L, more
<1>7. /\ begun \in Seq(Tokens) /\ Len(begun) = L + 4
      /\ \A i \in 1..(L + 4) : begun[i] = IF i <= L THEN tokens[i] ELSE four[i - L]
  <2>1. /\ begun \in Seq(Tokens) /\ Len(begun) = Len(tokens) + Len(four)
        /\ \A i \in 1..(Len(tokens) + Len(four)) : begun[i] = IF i <= Len(tokens) THEN tokens[i] ELSE four[i - Len(tokens)]
    BY <1>5, JoinPlaces
  <2> HIDE DEF begun
  <2> QED BY <1>0, <1>5, <2>1
<1> HIDE DEF begun
<1>8. /\ new \in Seq(Tokens) /\ Len(new) = L + 4 + e
      /\ \A i \in 1..(L + 4 + e) : new[i] = IF i <= L + 4 THEN begun[i] ELSE end[i - (L + 4)]
  <2>1. /\ new \in Seq(Tokens) /\ Len(new) = Len(begun) + Len(end)
        /\ \A i \in 1..(Len(begun) + Len(end)) : new[i] = IF i <= Len(begun) THEN begun[i] ELSE end[i - Len(begun)]
    BY <1>6, <1>7, JoinPlaces
  <2> HIDE DEF new
  <2> QED BY <1>7, <2>1
<1> HIDE DEF new, e
<1>9. e \in 0..2 /\ (end # <<>> => e > 0) /\ (end = <<>> => e = 0)
  BY <1>6 DEF e
<1>10. \A i \in 1..L : new[i] = tokens[i]
  <2> TAKE i \in 1..L
  <2>1. i \in 1..(L + 4 + e) /\ i <= L + 4 /\ i \in 1..(L + 4) /\ i <= L
    BY <1>1, <1>9
  <2> QED BY <1>7, <1>8, <2>1
<1>11. new[L + 1] = key /\ new[L + 2] = "=" /\ new[L + 3] = "'" /\ new[L + 4] = val
  <2>1. \A j \in 1..4 : new[L + j] = four[j]
    <3> TAKE j \in 1..4
    <3>1. L + j \in 1..(L + 4 + e) /\ L + j <= L + 4 /\ L + j \in 1..(L + 4) /\ ~(L + j <= L) /\ (L + j) - L = j
      BY <1>1, <1>9
    <3> QED BY <1>7, <1>8, <3>1
  <2> QED BY <1>5, <2>1
<1>12. /\ e > 0 => new[L + 5] = "'"
       /\ e > 1 => new[L + 6] = Comma
  <2>1. \A j \in 1..e : new[L + 4 + j] = end[j]
    <3> TAKE j \in 1..e
    <3>1. L + 4 + j \in 1..(L + 4 + e) /\ ~(L + 4 + j <= L + 4) /\ (L + 4 + j) - (L + 4) = j
      BY <1>1, <1>9
    <3> QED BY <1>8, <3>1
  <2>2. (e > 0 => 1 \in 1..e) /\ (e > 1 => 2 \in 1..e) /\ L + 4 + 1 = L + 5 /\ L + 4 + 2 = L + 6
    BY <1>1, <1>9
  <2>3. (e > 0 => end[1] = "'") /\ (e > 1 => end[2] = Comma)
    <3>1. e > 0 => end # <<>>
      BY <1>9
    <3> QED BY <1>6, <3>1 DEF e
  <2>4. (e > 0 => new[L + 4 + 1] = "'") /\ (e > 1 => new[L + 4 + 2] = Comma)
    BY <2>1, <2>2, <2>3
  <2> QED BY <2>2, <2>4
<1>13. ASSUME NEW k \in 1..n PROVE PairText(new, 6 * k - 5, more[k])
  <2> DEFINE a == 6 * k - 5
  <2>1. PairText(tokens, a, Q[k])
    BY DEF RuleText, n
  <2>2. /\ a \in 1..L /\ a + 1 \in 1..L /\ a + 2 \in 1..L /\ a + 3 \in 1..L /\ a + 4 \in 1..L /\ a + 5 \in 1..L
        /\ a + 3 # L /\ a + 4 # L /\ a + 3 <= L + 4 + e /\ a + 4 <= L + 4 + e
    BY <1>1, <1>9 DEF L
  <2>3. Q[k].ok
    <3> SUFFICES ASSUME ~Q[k].ok PROVE FALSE
      OBVIOUS
    <3>1. a + 3 = Len(tokens)
      BY <2>1 DEF PairText
    <3> QED BY <1>0, <2>2, <3>1
  <2>4. /\ tokens[a] = Q[k].key /\ tokens[a + 1] = "=" /\ tokens[a + 2] = "'" /\ tokens[a + 3] = Q[k].val
        /\ tokens[a + 4] = "'" /\ (a + 4 = Len(tokens) \/ tokens[a + 5] = Comma)
    BY <2>1, <2>3 DEF PairText
  <2>5. tokens[a + 5] = Comma
    BY <1>0, <2>2, <2>4
  <2> HIDE DEF a
  <2>6. /\ new[a] = tokens[a] /\ new[a + 1] = tokens[a + 1] /\ new[a + 2] = tokens[a + 2]
        /\ new[a + 3] = tokens[a + 3] /\ new[a + 4] = tokens[a + 4] /\ new[a + 5] = tokens[a + 5]
    BY <1>10, <2>2
  <2>7. PairText(new, a, Q[k])
    BY <1>8, <2>2, <2>3, <2>4, <2>5, <2>6 DEF PairText
  <2> QED BY <1>3, <2>7 DEF a
<1>14. PairText(new, 6 * (n + 1) - 5, more[n + 1])
  <2> DEFINE a == 6 * (n + 1) - 5
  <2>1. a = L + 1 /\ a + 1 = L + 2 /\ a + 2 = L + 3 /\ a + 3 = L + 4 /\ a + 4 = L + 5 /\ a + 5 = L + 6
    BY <1>1 DEF L
  <2> HIDE DEF a
  <2>2. L + 4 <= L + 4 + e /\ (e > 0 => L + 5 <= L + 4 + e) /\ (e = 0 => L + 4 = L + 4 + e)
        /\ (e = 1 => L + 5 = L + 4 + e) /\ (e > 0 => e = 1 \/ e > 1)
    BY <1>1, <1>9
  <2>3. /\ a + 3 <= Len(new) /\ new[a] = q.key /\ new[a + 1] = "=" /\ new[a + 2] = "'" /\ new[a + 3] = q.val
    BY <1>2, <1>8, <1>11, <2>1, <2>2
  <2>4. ASSUME q.ok PROVE a + 4 <= Len(new) /\ new[a + 4] = "'" /\ (a + 4 = Len(new) \/ new[a + 5] = Comma)
    <3>1. e > 0
      BY <1>2, <1>9, <2>4
    <3> QED BY <1>8, <1>12, <2>1, <2>2, <3>1
  <2>5. ASSUME ~q.ok PROVE a + 3 = Len(new)
    <3>1. e = 0
      BY <1>2, <1>9, <2>5
    <3> QED BY <1>8, <2>1, <2>2, <3>1
  <2>6. PairText(new, a, q)
    BY <2>3, <2>4, <2>5 DEF PairText
  <2> QED BY <1>3, <2>6 DEF a
<1>15. RuleText(new, more)
  <2>1. \A k \in 1..(n + 1) : k \in 1..n \/ k = n + 1
    BY <1>1
  <2>2. \A k \in 1..(n + 1) : PairText(new, 6 * k - 5, more[k])
    BY <1>13, <1>14, <2>1
  <2>3. L + 4 + e <= 6 * (n + 1)
    BY <1>1, <1>9 DEF L
  <2> QED BY <1>3, <1>8, <2>2, <2>3 DEF RuleText
<1> QED BY <1>3, <1>8, <1>15 DEF new, more, begun, four, q
(* The last value of a key. *)
LEMMA LastIs ==
  ASSUME NEW Q \in Seq(PairRecords), NEW key, NEW v, LastGiven(Q, Len(Q), key, v)
  PROVE  v = LET at == {i \in DOMAIN Q : Q[i].key = key}
             IN  IF at = {} THEN Absent ELSE Q[Max(at)].val
<1> DEFINE at == {i \in DOMAIN Q : Q[i].key = key}
<1>1. DOMAIN Q = 1..Len(Q) /\ Len(Q) \in Nat
  OBVIOUS
<1>2. CASE v = Absent /\ \A i \in 1..Len(Q) : Q[i].key # key
  <2>1. at = {}
    BY <1>1, <1>2
  <2> QED BY <2>1, <1>2
<1>3. CASE \E i \in 1..Len(Q) : Q[i].key = key /\ Q[i].val = v /\ \A j \in (i + 1)..Len(Q) : Q[j].key # key
  <2>1. PICK i \in 1..Len(Q) : Q[i].key = key /\ Q[i].val = v /\ \A j \in (i + 1)..Len(Q) : Q[j].key # key
    BY <1>3
  <2>2. at \in SUBSET (1..Len(Q)) /\ i \in at
    BY <1>1, <2>1
  <2>3. \A k \in at : k <= i
    BY <1>1, <2>1
  <2>4. Max(at) = i
    BY <1>1, <2>2, <2>3, MaxIs
  <2> QED BY <2>1, <2>2, <2>4
<1> QED BY <1>2, <1>3 DEF LastGiven

(* The copy of a match that a client asks for. *)
LEMMA CloneIs ==
  ASSUME NEW mt \in Matches
  PROVE  /\ mt \in AnyMatches /\ CloneMatch(mt) \in AnyMatches
         /\ CloneMatch(mt).type = mt.type /\ CloneMatch(mt).args = mt.args
         /\ \A k \in ToSet(StringKeys) : CloneMatch(mt).fields[k] = ClonedField(k, mt.fields[k])
<1> DEFINE V == RuleValues \cup {Absent}
           K == ToSet(StringKeys)
           A == UNION {[1..n -> V] : n \in 0..Len(ArgKeys)}
           B == RuleTypes \cup {Absent}
           f == [k \in K |-> ClonedField(k, mt.fields[k])]
<1>1. RuleFields \subseteq [K -> V] /\ WellKnown \subseteq RuleValues /\ PathAs \in [RuleValues -> RuleValues]
  BY RulesAssumption
<1>2. mt \in [type : B, fields : RuleFields, args : A]
  BY DEF Matches
<1> HIDE DEF A, B, K
<1>3. mt.type \in B /\ mt.fields \in [K -> V] /\ mt.args \in A /\ mt \in [type : B, fields : [K -> V], args : A]
  <2> HIDE DEF V
  <2> QED BY <1>1, <1>2
<1>4. \A k \in K : ClonedField(k, mt.fields[k]) \in V
  <2>1. \A k \in K : mt.fields[k] \in V
    BY <1>3
  <2> SUFFICES ASSUME NEW k, NEW val \in V PROVE ClonedField(k, val) \in V
    BY <2>1
  <2>2. CASE val = Absent
    BY <2>2 DEF ClonedField
  <2>3. CASE val \in RuleValues
    <3>1. PathAs[val] \in RuleValues
      BY <1>1, <2>3
    <3> QED BY <2>3, <3>1 DEF ClonedField
  <2> QED BY <2>2, <2>3
<1> HIDE DEF V
<1>5. f \in [K -> V] /\ \A k \in K : f[k] = ClonedField(k, mt.fields[k])
  BY <1>4
<1>6. CloneMatch(mt) = [type |-> mt.type, fields |-> f, args |-> mt.args]
  BY DEF CloneMatch, K
<1> HIDE DEF f
<1>7. /\ CloneMatch(mt) \in [type : B, fields : [K -> V], args : A] /\ CloneMatch(mt).fields = f
      /\ CloneMatch(mt).type = mt.type /\ CloneMatch(mt).args = mt.args
  BY <1>3, <1>5, <1>6
<1> QED BY <1>3, <1>5, <1>7 DEF AnyMatches, V, K, A, B

(* What is known of the match, and of the message that was compared with it. *)
RulesInv ==
  /\ asked # Absent => asked \in Matches /\ kept = newmatch(matchString(CloneMatch(asked)))
  /\ asked = Absent =>
       /\ pairs \in Seq(PairRecords) /\ rule \in Seq(Tokens) /\ RuleText(rule, pairs)
       /\ pairs # <<>> => kept = newmatch(rule)
       /\ pairs = <<>> => kept = NoMatch /\ result = "none"
  /\ result = "none" \/ (asked # Absent =>
       argMsg \in ArgSeqs /\ (result = "match" <=> ArgsMatch(kept, parseargs(argMsg))))

LEMMA RulesInitially == RulesInit => RulesInv
<1> SUFFICES ASSUME RulesInit PROVE RulesInv
  OBVIOUS
<1>1. asked = Absent /\ pairs = <<>> /\ rule = <<>> /\ kept = NoMatch /\ result = "none"
  BY DEF RulesInit
<1>2. pairs \in Seq(PairRecords) /\ rule \in Seq(Tokens) /\ Len(pairs) = 0 /\ Len(rule) = 0
  BY <1>1
<1>3. RuleText(rule, pairs)
  BY <1>2 DEF RuleText
<1> QED BY <1>1, <1>2, <1>3 DEF RulesInv

(* A rule that has pairs is not empty. *)
LEMMA EmptyRule ==
  ASSUME NEW tokens \in Seq(Tokens), NEW Q \in Seq(PairRecords), RuleText(tokens, Q), tokens = <<>>
  PROVE  Q = <<>>
<1>1. Len(tokens) = 0 /\ Len(Q) \in Nat
  OBVIOUS
<1>2. SUFFICES ASSUME Len(Q) > 0 PROVE FALSE
  BY <1>1
<1>3. PairText(tokens, 1, Q[1])
  BY <1>1, <1>2 DEF RuleText
<1> QED BY <1>1, <1>3 DEF PairText

LEMMA ClientWritesKeeps == RulesInv /\ ClientWrites => RulesInv'
<1> SUFFICES ASSUME RulesInv, ClientWrites PROVE RulesInv'
  OBVIOUS
<1>1. PICK mt \in Matches : asked' = mt /\ rule' = matchString(CloneMatch(mt)) /\ kept' = newmatch(rule')
  BY DEF ClientWrites
<1>2. asked' # Absent /\ asked' \in Matches /\ kept' = newmatch(matchString(CloneMatch(asked')))
  BY <1>1, CloneIs, AskedIs
<1>3. result' = result /\ rule = <<>> /\ asked = Absent
  BY DEF ClientWrites
<1>4. pairs = <<>>
  BY <1>3, EmptyRule DEF RulesInv
<1>5. result' = "none"
  BY <1>3, <1>4 DEF RulesInv
<1> QED BY <1>2, <1>5 DEF RulesInv

LEMMA OtherWritesKeeps ==
  ASSUME RulesInv, NEW key \in OtherKeys, NEW val \in RuleValues \cup {"signal"},
         NEW end \in {<<>>, <<"'">>, <<"'", Comma>>}, OtherWrites(key, val, end)
  PROVE  RulesInv'
<1>1. /\ asked = Absent /\ asked' = Absent /\ (rule # <<>> => Last(rule) = Comma)
      /\ rule' = rule \o <<key, "=", "'", val>> \o end
      /\ pairs' = Append(pairs, [key |-> key, val |-> val, ok |-> end # <<>>])
      /\ kept' = newmatch(rule')
  BY DEF OtherWrites
<1>2. pairs \in Seq(PairRecords) /\ rule \in Seq(Tokens) /\ RuleText(rule, pairs)
  BY <1>1 DEF RulesInv
<1>3. Len(rule) = 6 * Len(pairs)
  BY <1>1, <1>2, RuleGoesOn
<1>4. key \in RuleKeys /\ val \in TextValues
  BY DEF RuleKeys, TextValues
<1>5. rule' \in Seq(Tokens) /\ pairs' \in Seq(PairRecords) /\ RuleText(rule', pairs')
  BY <1>1, <1>2, <1>3, <1>4, PairAdded
<1>6. pairs' # <<>>
  BY <1>1, <1>2
<1> QED BY <1>1, <1>5, <1>6 DEF RulesInv

LEMMA CompareKeeps ==
  ASSUME RulesInv, NEW msg \in ArgSeqs, Compare(msg)
  PROVE  RulesInv'
<1>1. UNCHANGED <<rule, pairs, asked, kept>> /\ argMsg' = msg /\ kept.args # <<>>
  BY DEF Compare
<1>2. msg # Absent => (result' = "match" <=> ArgsMatch(kept, parseargs(msg)))
  BY DEF Compare
<1>3. msg # Absent
  BY RulesAssumption
<1>4. pairs # <<>> \/ asked # Absent
  <2>1. NoMatch.args = <<>>
    BY DEF NoMatch
  <2>2. pairs = <<>> /\ asked = Absent => kept = NoMatch
    BY DEF RulesInv
  <2> QED BY <1>1, <2>1, <2>2
<1> QED BY <1>1, <1>2, <1>3, <1>4 DEF RulesInv

LEMMA RulesInductive == RulesInv /\ [RulesNext]_ruleVars => RulesInv'
<1> SUFFICES ASSUME RulesInv, [RulesNext]_ruleVars PROVE RulesInv'
  OBVIOUS
<1>1. CASE ClientWrites
  BY <1>1, ClientWritesKeeps
<1>2. ASSUME NEW key \in OtherKeys, NEW val \in RuleValues \cup {"signal"},
             NEW end \in {<<>>, <<"'">>, <<"'", Comma>>}, OtherWrites(key, val, end)
      PROVE  RulesInv'
  BY <1>2, OtherWritesKeeps
<1>3. ASSUME NEW msg \in ArgSeqs, Compare(msg)
      PROVE  RulesInv'
  BY <1>3, CompareKeeps
<1>4. CASE UNCHANGED ruleVars
  BY <1>4 DEF RulesInv, ruleVars
<1> QED BY <1>1, <1>2, <1>3, <1>4 DEF RulesNext

LEMMA RuleKeptHolds == RulesInv => RuleKept
<1> DEFINE trimmed(args) == {<<i, args[i]>> : i \in {i \in DOMAIN args : args[i] # Absent}}
<1> SUFFICES ASSUME RulesInv, asked # Absent
             PROVE  /\ kept # Absent /\ kept.type = asked.type
                    /\ \A k \in ToSet(StringKeys) : kept.fields[k] = ClonedField(k, asked.fields[k])
                    /\ trimmed(kept.args) = trimmed(asked.args)
  <2>1. ToSet(StringKeys) = {"sender", "interface", "member", "path", "destination"} /\ Absent \notin WellKnown
    BY KeysAre, RulesAssumption DEF TextValues
  <2> QED BY <2>1 DEF RuleKept, ClonedField
<1>1. asked \in Matches /\ kept = newmatch(matchString(CloneMatch(asked))) /\ asked \in AnyMatches
  BY CloneIs DEF RulesInv
<1>2. /\ kept \in RuleMatches /\ kept.type = asked.type
      /\ \A k \in ToSet(StringKeys) : kept.fields[k] = ClonedField(k, asked.fields[k])
      /\ \A i \in 1..Len(ArgKeys) : ArgAt(kept.args, i) = ArgAt(asked.args, i)
      /\ Len(kept.args) <= Len(ArgKeys)
  <2> DEFINE mt == CloneMatch(asked)
  <2>1. /\ mt \in AnyMatches /\ mt.type = asked.type /\ mt.args = asked.args
        /\ \A k \in ToSet(StringKeys) : mt.fields[k] = ClonedField(k, asked.fields[k])
    BY <1>1, CloneIs
  <2>2. kept = newmatch(matchString(mt))
    BY <1>1
  <2> HIDE DEF mt
  <2> QED BY <2>1, <2>2, MatchIsKept
<1>3. kept # Absent
  BY <1>2, MatchIsThere
<1>4. asked.args \in Seq(RuleValues \cup {Absent}) /\ Len(asked.args) <= Len(ArgKeys)
  BY <1>1, AskedIs
<1>5. kept.args \in Seq(TextValues \cup {Absent})
  BY <1>2 DEF RuleMatches
<1>6. Len(ArgKeys) \in Nat
  BY ArgKeyIs
<1>7. ASSUME NEW s, NEW t, NEW S, NEW T, s \in Seq(S), t \in Seq(T), Len(s) <= Len(ArgKeys),
             \A i \in 1..Len(ArgKeys) : ArgAt(s, i) = ArgAt(t, i)
      PROVE  \A i \in DOMAIN s : s[i] # Absent => i \in DOMAIN t /\ t[i] = s[i]
  <2> SUFFICES ASSUME NEW i \in DOMAIN s, s[i] # Absent PROVE i \in DOMAIN t /\ t[i] = s[i]
    OBVIOUS
  <2>1. i \in 1..Len(s) /\ i \in 1..Len(ArgKeys)
    BY <1>6, <1>7
  <2>2. ArgAt(t, i) = s[i]
    BY <1>7, <2>1 DEF ArgAt
  <2> QED BY <1>7, <2>1, <2>2 DEF ArgAt
<1>8. \A i \in DOMAIN kept.args : kept.args[i] # Absent => i \in DOMAIN asked.args /\ asked.args[i] = kept.args[i]
  BY <1>2, <1>4, <1>5, <1>7
<1>9. \A i \in DOMAIN asked.args : asked.args[i] # Absent => i \in DOMAIN kept.args /\ kept.args[i] = asked.args[i]
  BY <1>2, <1>4, <1>5, <1>7
<1>10. ASSUME NEW s, NEW t, \A i \in DOMAIN s : s[i] # Absent => i \in DOMAIN t /\ t[i] = s[i]
       PROVE  trimmed(s) \subseteq trimmed(t)
  <2> SUFFICES ASSUME NEW i \in DOMAIN s, s[i] # Absent PROVE <<i, s[i]>> \in trimmed(t)
    OBVIOUS
  <2>1. i \in {j \in DOMAIN t : t[j] # Absent} /\ <<i, s[i]>> = <<i, t[i]>>
    BY <1>10
  <2> QED BY <2>1
<1>11. trimmed(kept.args) = trimmed(asked.args)
  <2>1. trimmed(kept.args) \subseteq trimmed(asked.args)
    BY <1>8, <1>10
  <2>2. trimmed(asked.args) \subseteq trimmed(kept.args)
    BY <1>9, <1>10
  <2> HIDE DEF trimmed
  <2> QED BY <2>1, <2>2
<1> QED BY <1>2, <1>3, <1>11

LEMMA RuleReadHolds == RulesInv => RuleRead
<1> DEFINE bad == \E i \in DOMAIN pairs : ~pairs[i].ok \/ (pairs[i].key = "type" /\ pairs[i].val \notin KnownTypes)
           lastOf(key) == LET at == {i \in DOMAIN pairs : pairs[i].key = key}
                          IN  IF at = {} THEN Absent ELSE pairs[Max(at)].val
<1> SUFFICES ASSUME RulesInv, asked = Absent, pairs # <<>>
             PROVE  IF bad THEN kept = Absent
                    ELSE /\ kept # Absent /\ kept.type = lastOf("type")
                         /\ \A k \in ToSet(StringKeys) : kept.fields[k] = lastOf(k)
                         /\ \A i \in DOMAIN ArgKeys : ArgAt(kept.args, i) = lastOf(ArgKeys[i])
  BY DEF RuleRead, ArgAt
<1>1. pairs \in Seq(PairRecords) /\ rule \in Seq(Tokens) /\ RuleText(rule, pairs) /\ kept = newmatch(rule)
  BY DEF RulesInv
<1>2. IF Refused(pairs, Len(pairs)) THEN kept = Absent ELSE Took(kept, pairs, Len(pairs))
  BY <1>1, RuleIsRead
<1>3. bad <=> Refused(pairs, Len(pairs))
  <2>1. DOMAIN pairs = 1..Len(pairs)
    BY <1>1
  <2> QED BY <2>1 DEF Refused
<1>4. ASSUME ~bad
      PROVE  /\ kept # Absent /\ kept.type = lastOf("type")
             /\ \A k \in ToSet(StringKeys) : kept.fields[k] = lastOf(k)
             /\ \A i \in DOMAIN ArgKeys : ArgAt(kept.args, i) = lastOf(ArgKeys[i])
  <2>1. Took(kept, pairs, Len(pairs))
    BY <1>2, <1>3, <1>4
  <2>2. \A key, v : LastGiven(pairs, Len(pairs), key, v) => v = lastOf(key)
    BY <1>1, LastIs
  <2> HIDE DEF lastOf
  <2>3. kept # Absent
    BY <2>1, MatchIsThere DEF Took
  <2>4. kept.type = lastOf("type")
    BY <2>1, <2>2 DEF Took
  <2>5. \A k \in ToSet(StringKeys) : kept.fields[k] = lastOf(k)
    BY <2>1, <2>2 DEF Took
  <2>6. \A i \in DOMAIN ArgKeys : ArgAt(kept.args, i) = lastOf(ArgKeys[i])
    BY <2>1, <2>2 DEF Took
  <2> QED BY <2>3, <2>4, <2>5, <2>6
<1> HIDE DEF bad, lastOf
<1> QED BY <1>2, <1>3, <1>4

(* Arguments K are those of A, without the ones left open at the end. *)
SameArgs(K, A) ==
  /\ Len(A) <= Len(ArgKeys) /\ \A i \in 1..Len(ArgKeys) : ArgAt(K, i) = ArgAt(A, i)
  /\ Len(K) <= Len(ArgKeys) /\ (K # <<>> => K[Len(K)] # Absent)

(* A match and one that differs from it only in arguments that are left open at the end
   are fitted by the same messages. *)
LEMMA SameArgsFit ==
  ASSUME NEW mt, NEW K \in Seq(TextValues \cup {Absent}), mt.args = K,
         NEW A \in Seq(RuleValues \cup {Absent}), SameArgs(K, A), NEW msg \in ArgSeqs
  PROVE  ArgsMatch(mt, parseargs(msg)) <=>
           \A i \in DOMAIN A : A[i] # Absent => i \in DOMAIN msg /\ msg[i] = [t |-> "s", v |-> A[i]]
<1>3. /\ \A i \in 1..Len(ArgKeys) : ArgAt(K, i) = ArgAt(A, i)
      /\ Len(K) <= Len(ArgKeys) /\ (K # <<>> => K[Len(K)] # Absent)
  BY DEF SameArgs
<1>4. Len(A) <= Len(ArgKeys) /\ DOMAIN A = 1..Len(A) /\ Len(A) \in Nat
  BY DEF SameArgs
<1>5. DOMAIN K = 1..Len(K) /\ Len(K) \in Nat /\ mt.args = K
  OBVIOUS
<1>6. Len(ArgKeys) \in Nat /\ Absent \notin RuleValues
  BY ArgKeyIs, RulesAssumption DEF TextValues
<1>7. PICK n \in Nat : msg \in [1..n -> [t : {"s"}, v : RuleValues] \cup {[t |-> "u", v |-> "number"]}]
  BY <1>6 DEF ArgSeqs
<1> DEFINE args == parseargs(msg)
<1>8. args = [i \in 1..n |-> IF msg[i].t = "s" THEN msg[i].v ELSE Absent] /\ Len(args) = n
  BY <1>7 DEF parseargs
<1>9. ASSUME NEW i \in 1..n, NEW w, w # Absent
      PROVE  args[i] = w <=> msg[i] = [t |-> "s", v |-> w]
  <2>1. args[i] = IF msg[i].t = "s" THEN msg[i].v ELSE Absent
    BY <1>8
  <2> HIDE DEF args
  <2>2. CASE msg[i] \in [t : {"s"}, v : RuleValues]
    BY <1>9, <2>1, <2>2
  <2>3. CASE msg[i] = [t |-> "u", v |-> "number"]
    BY <1>9, <2>1, <2>3
  <2> QED BY <1>7, <2>2, <2>3
<1> HIDE DEF args
<1>10. ArgsMatch(mt, args) <=> n >= Len(K) /\ \A i \in 1..Len(K) : K[i] # Absent => args[i] = K[i]
  BY <1>5, <1>8 DEF ArgsMatch
<1>11. ASSUME n >= Len(K), \A i \in 1..Len(K) : K[i] # Absent => args[i] = K[i],
              NEW i \in 1..Len(A), A[i] # Absent
       PROVE  i \in 1..n /\ msg[i] = [t |-> "s", v |-> A[i]]
  <2>1. i \in 1..Len(ArgKeys)
    BY <1>4, <1>6
  <2>2. ArgAt(K, i) = A[i]
    BY <1>3, <1>4, <2>1 DEF ArgAt
  <2>3. i \in 1..Len(K) /\ K[i] = A[i]
    BY <1>5, <1>11, <2>1, <2>2 DEF ArgAt
  <2>4. i \in 1..n /\ args[i] = A[i]
    BY <1>5, <1>11, <2>3
  <2> QED BY <1>9, <1>11, <2>4
<1>12. ASSUME \A i \in 1..Len(A) : A[i] # Absent => i \in 1..n /\ msg[i] = [t |-> "s", v |-> A[i]]
       PROVE  n >= Len(K) /\ \A i \in 1..Len(K) : K[i] # Absent => args[i] = K[i]
  <2>1. ASSUME NEW i \in 1..Len(K), K[i] # Absent
        PROVE  i \in 1..n /\ args[i] = K[i]
    <3>1. i \in 1..Len(ArgKeys)
      BY <1>3, <1>5, <1>6
    <3>2. ArgAt(A, i) = K[i]
      BY <1>3, <1>5, <3>1 DEF ArgAt
    <3>3. i \in 1..Len(A) /\ A[i] = K[i]
      BY <1>4, <2>1, <3>1, <3>2 DEF ArgAt
    <3>4. i \in 1..n /\ msg[i] = [t |-> "s", v |-> K[i]]
      BY <1>12, <2>1, <3>3
    <3> QED BY <1>9, <2>1, <3>4
  <2>2. n >= Len(K)
    <3>1. CASE Len(K) = 0
      BY <3>1
    <3>2. CASE Len(K) # 0
      <4>1. K # <<>> /\ Len(K) \in 1..Len(K)
        BY <1>5, <3>2
      <4>2. Len(K) \in 1..n
        BY <1>3, <2>1, <4>1
      <4> QED BY <4>2
    <3> QED BY <3>1, <3>2
  <2> QED BY <2>1, <2>2
<1>13. DOMAIN msg = 1..n
  BY <1>7
<1>14. (\A i \in DOMAIN A : A[i] # Absent => i \in DOMAIN msg /\ msg[i] = [t |-> "s", v |-> A[i]])
         <=> ArgsMatch(mt, args)
  BY <1>4, <1>10, <1>11, <1>12, <1>13
<1> QED BY <1>14 DEF args

LEMMA ArgumentsFitHolds == RulesInv => ArgumentsFit
<1>1. ASSUME RulesInv, asked # Absent
      PROVE  /\ asked \in AnyMatches /\ CloneMatch(asked) \in AnyMatches
             /\ CloneMatch(asked).args = asked.args /\ kept = newmatch(matchString(CloneMatch(asked)))
  <2>1. asked \in Matches /\ kept = newmatch(matchString(CloneMatch(asked)))
    BY <1>1, Zenon DEF RulesInv
  <2> QED BY <2>1, CloneIs
<1>2. ASSUME RulesInv, asked # Absent, NEW msg \in ArgSeqs
      PROVE  ArgsMatch(kept, parseargs(msg)) <=>
               \A i \in DOMAIN asked.args :
                 asked.args[i] # Absent => i \in DOMAIN msg /\ msg[i] = [t |-> "s", v |-> asked.args[i]]
  <2>1. /\ kept \in RuleMatches
        /\ \A i \in 1..Len(ArgKeys) : ArgAt(kept.args, i) = ArgAt(asked.args, i)
        /\ Len(kept.args) <= Len(ArgKeys) /\ (kept.args # <<>> => kept.args[Len(kept.args)] # Absent)
    BY <1>1, <1>2, MatchIsKept
  <2>2. asked.args \in Seq(RuleValues \cup {Absent}) /\ Len(asked.args) <= Len(ArgKeys)
    BY <1>1, <1>2, AskedIs
  <2>3. kept.args \in Seq(TextValues \cup {Absent})
    BY <2>1 DEF RuleMatches
  <2> DEFINE K == kept.args  A == asked.args
  <2>4. /\ K \in Seq(TextValues \cup {Absent}) /\ A \in Seq(RuleValues \cup {Absent})
        /\ kept.args = K /\ SameArgs(K, A)
    BY <2>1, <2>2, <2>3 DEF SameArgs
  <2> HIDE DEF K, A
  <2>5. ArgsMatch(kept, parseargs(msg)) <=>
          \A i \in DOMAIN A : A[i] # Absent => i \in DOMAIN msg /\ msg[i] = [t |-> "s", v |-> A[i]]
    BY <1>2, <2>4, SameArgsFit
  <2> QED BY <2>5 DEF A
<1>3. RulesInv /\ asked # Absent /\ result \in {"match", "no match"} =>
        argMsg \in ArgSeqs /\ (result = "match" <=> ArgsMatch(kept, parseargs(argMsg)))
  BY Zenon DEF RulesInv
<1> QED BY <1>2, <1>3, Zenon DEF ArgumentsFit

(* The steps of a rule, for the messages that have arguments. *)
RulesTextSpec == RulesInit /\ [][RulesNext]_ruleVars

(* A rule that a client makes is the rule that the bus applies, with the path sanitised
   and without a sender that is a well-known name (adbus_conn_addmatch,
   adbusI_matchString, adbusI_serv_newmatch), its arguments are compared with those of
   the message (ArgsMatch), and a rule of another program is refused or read as its last
   values: for any values, fields, well-known names, keys and numbers of arguments and
   pairs. *)
THEOREM RulesAreSound == RulesTextSpec => []RulesSound
<1>1. RulesInit => RulesInv
  BY RulesInitially
<1>2. RulesInv /\ [RulesNext]_ruleVars => RulesInv'
  BY RulesInductive
<1>3. RulesInv => RulesSound
  BY RuleKeptHolds, RuleReadHolds, ArgumentsFitHolds DEF RulesSound
<1> QED BY <1>1, <1>2, <1>3, PTL DEF RulesTextSpec
=============================================================================
