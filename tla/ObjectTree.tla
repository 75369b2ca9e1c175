----------------------------- MODULE ObjectTree -----------------------------
(***************************************************************************)
(* The objects of a client connection (adbus/bind.c): one for each path    *)
(* that has an interface bound and for each path above one, created by     *)
(* adbus_conn_bind and pruned when the last interface is unbound.          *)
(*                                                                         *)
(* GetObject and CheckRemoveObject call themselves for the parent.  Here   *)
(* every such call is a step, and no other operation starts before the     *)
(* last of them.                                                           *)
(***************************************************************************)
EXTENDS Integers, FiniteSets

CONSTANTS
  Paths, Root, Parent,  \* the paths and the parent of each but the root
  Bindable,             \* names of the interfaces that users bind
  BuiltIn,              \* the two interfaces that every object has
  NoPath                \* NULL

ASSUME TreeAssumption ==
  /\ Root \in Paths /\ NoPath \notin Paths
  /\ Parent \in [Paths \ {Root} -> Paths]
  /\ Bindable \cap BuiltIn = {}
  /\ IsFiniteSet(BuiltIn) /\ Cardinality(BuiltIn) = 2
  /\ IsFiniteSet(Bindable)

(* A path is longer than its parent: going up ends at the root. *)
ASSUME DepthAssumption ==
  /\ IsFiniteSet(Paths)
  /\ \E depth \in [Paths -> 0..(Cardinality(Paths) - 1)] :
       depth[Root] = 0 /\ \A p \in Paths \ {Root} : depth[p] = depth[Parent[p]] + 1

VARIABLES
  objects,   \* the keys of c->paths
  ifs,       \* ifs[p]: the interfaces of the object at p
  kids,      \* kids[p]: its children
  bound,     \* the binds that users hold, as path and interface
  task       \* the operation in progress

treeVars == <<objects, ifs, kids, bound, task>>

NoTask == [op |-> "none", at |-> NoPath, child |-> NoPath, goal |-> NoPath, iface |-> NoPath]

TreeInit ==
  /\ objects = {}
  /\ ifs = [p \in Paths |-> {}]
  /\ kids = [p \in Paths |-> {}]
  /\ bound = {}
  /\ task = NoTask

(* adbus_conn_bind begins with the object of the path. *)
BeginBind(p, i) ==
  /\ task.op = "none"
  /\ task' = [op |-> "get", at |-> p, child |-> NoPath, goal |-> p, iface |-> i]
  /\ UNCHANGED <<objects, ifs, kids, bound>>

Linked(p, child) == [kids EXCEPT ![p] = IF child = NoPath THEN @ ELSE @ \cup {child}]

(* GetObject makes the object with the built in interfaces, and goes on to the
   parent. *)
GetObject ==
  /\ task.op = "get" /\ task.at \notin objects
  /\ objects' = objects \cup {task.at}
  /\ ifs' = [ifs EXCEPT ![task.at] = BuiltIn]
  /\ kids' = Linked(task.at, task.child)
  /\ task' = IF task.at = Root THEN [task EXCEPT !.op = "bind"]
             ELSE [task EXCEPT !.at = Parent[task.at], !.child = task.at]
  /\ UNCHANGED bound

(* GetObject comes to an object that exists. *)
FoundObject ==
  /\ task.op = "get" /\ task.at \in objects
  /\ kids' = Linked(task.at, task.child)
  /\ task' = [task EXCEPT !.op = "bind"]
  /\ UNCHANGED <<objects, ifs, bound>>

(* DoBind: an interface is bound once to an object; the second bind fails. *)
DoBind ==
  /\ task.op = "bind"
  /\ IF task.iface \in ifs[task.goal]
     THEN UNCHANGED <<ifs, bound>>
     ELSE /\ ifs' = [ifs EXCEPT ![task.goal] = @ \cup {task.iface}]
          /\ bound' = bound \cup {<<task.goal, task.iface>>}
  /\ task' = NoTask
  /\ UNCHANGED <<objects, kids>>

(* adbus_conn_unbind, adbusI_freeBind: the object loses the interface, and is
   then checked. *)
Unbind(p, i) ==
  /\ task.op = "none"
  /\ <<p, i>> \in bound
  /\ bound' = bound \ {<<p, i>>}
  /\ ifs' = [ifs EXCEPT ![p] = @ \ {i}]
  /\ task' = [NoTask EXCEPT !.op = "check", !.at = p]
  /\ UNCHANGED <<objects, kids>>

(* The test of CheckRemoveObject. *)
InUse(p) == Cardinality(ifs[p]) > 2 \/ kids[p] # {}

(* CheckRemoveObject keeps an object that is in use. *)
KeepObject ==
  /\ task.op = "check" /\ InUse(task.at)
  /\ task' = NoTask
  /\ UNCHANGED <<objects, ifs, kids, bound>>

(* Mutant: the parent is not looked at. *)
RemoveObject_Once ==
  /\ task.op = "check" /\ ~InUse(task.at)
  /\ objects' = objects \ {task.at}
  /\ ifs' = [ifs EXCEPT ![task.at] = {}]
  /\ kids' = IF task.at = Root THEN kids
             ELSE [kids EXCEPT ![Parent[task.at]] = @ \ {task.at}]
  /\ task' = NoTask
  /\ UNCHANGED bound

(* Mutant: the walk does not end at the root. *)
RemoveObject_Root ==
  /\ task.op = "check" /\ ~InUse(task.at)
  /\ objects' = objects \ {task.at}
  /\ ifs' = [ifs EXCEPT ![task.at] = {}]
  /\ kids' = IF task.at = Root THEN kids
             ELSE [kids EXCEPT ![Parent[task.at]] = @ \ {task.at}]
  /\ task' = IF task.at = Root THEN task ELSE [task EXCEPT !.at = Parent[task.at]]
  /\ UNCHANGED bound

(* CheckRemoveObject and adbusI_freeObjectPath: the built in interfaces go, the
   object leaves its parent's children, and the parent is checked. *)
RemoveObject ==
  /\ task.op = "check" /\ ~InUse(task.at)
  /\ objects' = objects \ {task.at}
  /\ ifs' = [ifs EXCEPT ![task.at] = {}]
  /\ kids' = IF task.at = Root THEN kids
             ELSE [kids EXCEPT ![Parent[task.at]] = @ \ {task.at}]
  /\ task' = IF task.at = Root THEN NoTask ELSE [task EXCEPT !.at = Parent[task.at]]
  /\ UNCHANGED bound

TreeStep == GetObject \/ FoundObject \/ DoBind \/ KeepObject \/ RemoveObject

TreeNext ==
  \/ TreeStep
  \/ \E p \in Paths, i \in Bindable : BeginBind(p, i) \/ Unbind(p, i)

TreeFairness == WF_treeVars(TreeStep)

TreeSpec == TreeInit /\ [][TreeNext]_treeVars /\ TreeFairness

(* Mutant: objects that only lead to others are left out. *)
Introspect_Bound(p) ==
  [interfaces |-> ifs[p], nodes |-> {q \in kids[p] : ifs[q] # BuiltIn}]

(* What adbusI_introspect answers for a path: IntrospectInterfaces lists the
   interfaces of the object, IntrospectNode its children. *)
Introspect(p) == [interfaces |-> ifs[p], nodes |-> kids[p]]

-----------------------------------------------------------------------------
(* Properties *)

(* The types of the variables. *)
TreeTypeOK ==
  /\ objects \subseteq Paths
  /\ ifs \in [Paths -> SUBSET (Bindable \cup BuiltIn)]
  /\ kids \in [Paths -> SUBSET Paths]
  /\ bound \subseteq Paths \X Bindable
  /\ task \in [op : {"none", "get", "bind", "check"}, at : Paths \cup {NoPath},
               child : Paths \cup {NoPath}, goal : Paths \cup {NoPath},
               iface : Bindable \cup {NoPath}]

(* No bind points to an object that has been freed, and a call finds exactly the
   interfaces that are bound: what the table of an object holds besides the
   built in interfaces are its binds (adbusI_freeBind, CheckRemoveObject). *)
BindsAttached ==
  /\ \A b \in bound : b[1] \in objects
  /\ \A p \in Paths, i \in Bindable : i \in ifs[p] <=> <<p, i>> \in bound

(* Between two operations the parent of every object is an object and knows it
   as its child, and knows no child that is gone. *)
TreeLinked ==
  task.op = "none" =>
    \A p \in objects :
      /\ p # Root => Parent[p] \in objects
      /\ kids[p] = {q \in objects \ {Root} : Parent[q] = p}

(* Between two operations there is no object without a purpose: unbinding the
   last interface of a path prunes the path and all that it leaves empty above
   it. *)
NothingEmpty ==
  task.op = "none" =>
    \A p \in objects : (\E i \in Bindable : <<p, i>> \in bound) \/ kids[p] # {}

(* The objects that following the nodes of introspection from p reaches, in at
   most as many steps as there are paths. *)
FoundFrom(p) ==
  LET Reach[n \in 0..Cardinality(Paths)] ==
        IF n = 0 THEN {p} \cap objects
        ELSE Reach[n - 1] \cup UNION {Introspect(q).nodes : q \in Reach[n - 1]}
  IN  Reach[Cardinality(Paths)]

(* A browser that follows introspection from the root finds every bound object,
   and never a node that leads to none. *)
Discoverable ==
  task.op = "none" =>
    LET Objects == {b[1] : b \in bound}
    IN  /\ Objects \subseteq FoundFrom(Root)
        /\ \A p \in FoundFrom(Root) : FoundFrom(p) \cap Objects # {}

(* Binding and unbinding come to an end, however deep the path. *)
TreeSettles == task.op # "none" ~> task.op = "none"

(* The tree of objects is what the binds make of it: no bind hangs in the air, and no
   object is left over or cut off. *)
TreeSound == TreeTypeOK /\ BindsAttached /\ TreeLinked /\ NothingEmpty
=============================================================================
