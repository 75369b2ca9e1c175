----------------------------- MODULE Interfaces -----------------------------
(***************************************************************************)
(* An interface (adbus/interface.c): its members, who references it, and   *)
(* the answers to method calls and to the methods of                       *)
(* org.freedesktop.DBus.Properties and Introspectable on its objects.      *)
(***************************************************************************)
EXTENDS Integers, Sequences, FiniteSets

CONSTANTS
  MemberNames, \* names of members
  PropTypes,   \* types of properties
  Ends,        \* how the callbacks of each request may end: "ok", "error"
               \* (adbus_error, then 0), "jump" (adbus_errorf_jmp), "fail" (-1)
  NoMember,    \* NULL
  MaxBinds, MaxAdds, MaxRefs   \* bounds

ASSUME InterfaceAssumption ==
  /\ Ends \in [{"call", "get", "set", "getall"} -> SUBSET {"ok", "error", "jump", "fail"}]
  /\ {MaxBinds, MaxAdds, MaxRefs} \subseteq Nat

VARIABLES
  mbrs,      \* the member of each name
  irefs,     \* the reference count
  owned,     \* whether one of them is the creator's
  ibinds,    \* how many objects the interface is bound to
  adds,      \* how many members have been added
  released,  \* history: how often each release callback that was given was called
  call,      \* the request being served
  answer,    \* the answer to the last request
  jumps,     \* history: how many callbacks of properties have jumped out
  ended      \* history: the callback that made the last request fail or the program
             \* end, and how it ended

ifaceVars == <<mbrs, irefs, owned, ibinds, adds, released, call, answer, jumps,
               ended>>

NoEnd == [op |-> "none", how |-> "none"]
NoCall == [op |-> "none", todo |-> {}, reply |-> FALSE]

MemberTypes == {"method", "signal", "property"}

(* struct adbus_Member: arguments count the types of argsig and the names, and release
   callbacks are numbered in the order that they are given in. *)
Members ==
  [type : MemberTypes, ptype : PropTypes \cup {NoMember}, method : BOOLEAN, getter : BOOLEAN,
   setter : BOOLEAN, release : SUBSET Nat, args : 0..1, argnames : 0..1]

ASSUME MemberAssumption == NoMember \notin Members

NewMember(type, ptype) ==
  [type |-> type, ptype |-> ptype, method |-> FALSE, getter |-> FALSE,
   setter |-> FALSE, release |-> {}, args |-> 0, argnames |-> 0]

(* adbus_iface_new *)
IfaceInit ==
  /\ mbrs = [n \in MemberNames |-> NoMember]
  /\ irefs = 1 /\ owned = TRUE /\ ibinds = 0 /\ adds = 0
  /\ released = <<>>
  /\ call = NoCall /\ answer = "none" /\ ended = NoEnd /\ jumps = 0

Existing == {n \in MemberNames : mbrs[n] # NoMember}

(* FreeMember calls the release callbacks of a member: here of all the members ns. *)
FreeMember(ns) ==
  [k \in DOMAIN released |->
     released[k] + IF \E n \in ns : k \in mbrs[n].release THEN 1 ELSE 0]

Building == owned /\ ibinds = 0 /\ call.op = "none"

(* AddMethod: a member that had the name is freed, which calls its release
   callbacks. *)
AddMethod(n, type, ptype) ==
  /\ Building /\ adds < MaxAdds
  /\ adds' = adds + 1
  /\ released' = FreeMember({n} \cap Existing)
  /\ mbrs' = [mbrs EXCEPT ![n] = NewMember(type, ptype)]
  /\ UNCHANGED <<irefs, owned, ibinds, call, answer, jumps, ended>>

(* adbus_mbr_setmethod, adbus_mbr_setgetter, adbus_mbr_setsetter *)
SetCallback(n, which) ==
  /\ Building /\ n \in Existing
  /\ mbrs[n].type = IF which = "method" THEN "method" ELSE "property"
  /\ mbrs' = [mbrs EXCEPT ![n][which] = TRUE]
  /\ UNCHANGED <<irefs, owned, ibinds, adds, released, call, answer, jumps, ended>>

(* adbus_mbr_addrelease: there is room for two. *)
AddRelease(n) ==
  /\ Building /\ n \in Existing
  /\ Cardinality(mbrs[n].release) < 2
  /\ mbrs' = [mbrs EXCEPT ![n].release = @ \cup {Len(released) + 1}]
  /\ released' = Append(released, 0)
  /\ UNCHANGED <<irefs, owned, ibinds, adds, call, answer, jumps, ended>>

(* adbus_mbr_argsig with adbus_mbr_argname: no more names than arguments by the time
   the interface is bound. *)
AddArgument(n) ==
  /\ Building /\ n \in Existing
  /\ mbrs[n].type # "property" /\ mbrs[n].args = 0
  /\ mbrs' = [mbrs EXCEPT ![n].args = 1, ![n].argnames = 1]
  /\ UNCHANGED <<irefs, owned, ibinds, adds, released, call, answer, jumps, ended>>

(* What must be set before an interface is bound. *)
Complete ==
  \A n \in Existing : /\ mbrs[n].type = "property" => mbrs[n].getter \/ mbrs[n].setter
                      /\ mbrs[n].argnames <= mbrs[n].args

BindIface ==
  /\ owned /\ ibinds < MaxBinds /\ call.op = "none"
  /\ Complete
  /\ ibinds' = ibinds + 1 /\ irefs' = irefs + 1
  /\ UNCHANGED <<mbrs, owned, adds, released, call, answer, jumps, ended>>

(* adbus_iface_deref: the last reference frees the members. *)
IfaceDeref ==
  /\ irefs' = irefs - 1
  /\ IF irefs = 1
     THEN /\ released' = FreeMember(Existing)
          /\ mbrs' = [n \in MemberNames |-> NoMember]
     ELSE UNCHANGED <<released, mbrs>>

(* The creator's adbus_iface_free, and adbusI_freeBind, which a callback may
   call as well. *)
DropIface ==
  /\ owned /\ owned' = FALSE /\ call.op # "aborted"
  /\ IfaceDeref
  /\ UNCHANGED <<ibinds, adds, call, answer, jumps, ended>>
UnbindIface ==
  /\ ibinds > 0 /\ ibinds' = ibinds - 1 /\ call.op # "aborted"
  /\ IfaceDeref
  /\ UNCHANGED <<owned, adds, call, answer, jumps, ended>>

-----------------------------------------------------------------------------
(* Requests *)

(* GetMethod: a member of another type is not found. *)
Find(n, type) == n \in Existing /\ mbrs[n].type = type

(* The errors of adbus/misc.c, which differ in their names. *)
error_argument == "InvalidArgument"
interfaceError == "InvalidInterface"
methodError == "InvalidMethod"
propertyError == "InvalidProperty"
propWriteError == "ReadOnlyProperty"
propReadError == "WriteOnlyProperty"
propTypeError == "InvalidPropertyType"

(* A request that ends without a callback.  An error is set up if a reply is
   wanted. *)
AnswerWith(reply, what) ==
  /\ answer' = IF reply THEN what ELSE "none"
  /\ ended' = NoEnd
  /\ UNCHANGED <<irefs, call>>

(* Mutant: the interface is not referenced for the callback. *)
ServeCall_NoRef(op, todo, reply) ==
  /\ irefs' = irefs
  /\ call' = [op |-> op, todo |-> todo, reply |-> reply]
  /\ answer' = "pending" /\ ended' = NoEnd

(* The interface is referenced, and the callback called, possibly on another
   thread. *)
ServeCall(op, todo, reply) ==
  /\ irefs' = irefs + 1
  /\ call' = [op |-> op, todo |-> todo, reply |-> reply]
  /\ answer' = "pending" /\ ended' = NoEnd

IfaceAsked ==
  /\ call.op = "none" /\ ibinds > 0 /\ irefs < MaxRefs
  /\ UNCHANGED <<mbrs, owned, ibinds, adds, released, jumps>>

(* adbus_iface_method and adbus_mbr_call *)
CallMember(n, reply) ==
  /\ IfaceAsked
  /\ IF Find(n, "method") /\ mbrs[n].method
     THEN ServeCall("call", {n}, reply)
     ELSE AnswerWith(reply, methodError)

(* adbusI_getProperty *)
GetProperty(n, reply) ==
  /\ IfaceAsked
  /\ IF ~Find(n, "property") THEN AnswerWith(reply, propertyError)
     ELSE IF ~mbrs[n].getter THEN AnswerWith(reply, propReadError)
     ELSE IF ~reply THEN AnswerWith(reply, "none")
     ELSE ServeCall("get", {n}, reply)

(* adbusI_setProperty *)
SetProperty(n, sig, reply) ==
  /\ IfaceAsked
  /\ IF ~Find(n, "property") THEN AnswerWith(reply, propertyError)
     ELSE IF ~mbrs[n].setter THEN AnswerWith(reply, propWriteError)
     ELSE IF mbrs[n].ptype # sig THEN AnswerWith(reply, propTypeError)
     ELSE ServeCall("set", {n}, reply)

(* adbusI_getAllProperties: the getters of all readable properties are called,
   one after the other. *)
GetAllProperties(reply) ==
  /\ IfaceAsked
  /\ IF ~reply THEN AnswerWith(reply, "none")
     ELSE ServeCall("getall", {n \in Existing : Find(n, "property") /\ mbrs[n].getter}, reply)

(* IntrospectMember and IntrospectArguments assert what must be set before the
   interface is bound. *)
Described(m) ==
  /\ m.type = "property" => m.getter \/ m.setter
  /\ m.argnames <= m.args

(* adbusI_introspect on an object with the interface. *)
IntrospectIface(reply) ==
  /\ IfaceAsked
  /\ AnswerWith(reply, IF \A n \in Existing : Described(mbrs[n]) THEN "xml" ELSE "assert")

(* The arguments of a request to Properties or Introspectable are not what the
   method takes: adbus_check_string, adbus_check_end. *)
Malformed(reply) ==
  /\ IfaceAsked
  /\ AnswerWith(reply, error_argument)

(* adbus_conn_interface finds no bind of the interface that a request names. *)
OtherInterface(reply) ==
  /\ IfaceAsked
  /\ AnswerWith(reply, interfaceError)

EndCall(what) ==
  /\ answer' = IF call.reply \/ what = "fail" THEN what ELSE "none"
  /\ call' = NoCall

(* What the end of a callback makes of the request. *)
Outcome(end) ==
  CASE end = "ok" -> "return" [] end = "fail" -> "fail" [] OTHER -> "error"

Ended(op, end, what) ==
  /\ call.op = op /\ end \in Ends[op]
  /\ ended' = IF what = "fail" THEN [op |-> op, how |-> end] ELSE NoEnd
  /\ EndCall(what)
  /\ UNCHANGED <<owned, ibinds, adds>>

(* DoCall: adbus_dispatch catches a jump, then the reference is given back. *)
DoCall(end) ==
  /\ Ended("call", end, Outcome(end))
  /\ IfaceDeref
  /\ UNCHANGED jumps

(* A jump out of the callback of a property leaves the function that called it
   before that gives its reference back. *)
DerefUnlessJump(end) ==
  IF end = "jump" THEN jumps' = jumps + 1 /\ UNCHANGED <<mbrs, irefs, released>>
  ELSE IfaceDeref /\ UNCHANGED jumps

ProxiedGetProperty(end) == Ended("get", end, Outcome(end)) /\ DerefUnlessJump(end)

ProxiedSetProperty(end) == Ended("set", end, Outcome(end)) /\ DerefUnlessJump(end)

(* A getter of ProxiedGetAllProperties returns a value.  adbus_buf_enddictentry asserts
   that the signature goes on with '{' where it is at '}', and ends the program; built
   without assertions it steps over the character: on to the next getter, or the array
   is complete. *)
GetterReturns(n) ==
  /\ call.op = "getall" /\ n \in call.todo
  /\ "ok" \in Ends["getall"]
  /\ \/ /\ call' = [call EXCEPT !.op = "aborted"]
        /\ answer' = "assert" /\ ended' = [op |-> "getall", how |-> "ok"]
     \/ call' = [call EXCEPT !.todo = @ \ {n}] /\ UNCHANGED <<answer, ended>>
  /\ UNCHANGED <<mbrs, irefs, owned, ibinds, adds, released, jumps>>

GetAllEnds ==
  /\ call.op = "getall" /\ call.todo = {}
  /\ EndCall("return")
  /\ IfaceDeref
  /\ UNCHANGED <<owned, ibinds, adds, jumps, ended>>

(* A getter fails: one that set an error up makes the whole request fail. *)
GetterFails(end) ==
  /\ call.op = "getall" /\ call.todo # {}
  /\ end \in Ends["getall"] \ {"ok"}
  /\ ended' = IF end = "jump" THEN NoEnd ELSE [op |-> "getall", how |-> end]
  /\ EndCall(IF end = "jump" THEN "error" ELSE "fail")
  /\ DerefUnlessJump(end)
  /\ UNCHANGED <<owned, ibinds, adds>>

IfaceNext ==
  \/ \E n \in MemberNames :
       \/ \E type \in {"method", "signal"} : AddMethod(n, type, NoMember)
       \/ \E ptype \in PropTypes : AddMethod(n, "property", ptype)
       \/ \E which \in {"method", "getter", "setter"} : SetCallback(n, which)
       \/ AddRelease(n)
       \/ AddArgument(n)
       \/ GetterReturns(n)
  \/ BindIface \/ UnbindIface \/ DropIface \/ GetAllEnds
  \/ \E n \in MemberNames, reply \in BOOLEAN :
       \/ CallMember(n, reply) \/ GetProperty(n, reply)
       \/ \E sig \in PropTypes \cup {NoMember} : SetProperty(n, sig, reply)
  \/ \E reply \in BOOLEAN :
       \/ GetAllProperties(reply) \/ IntrospectIface(reply) \/ Malformed(reply)
       \/ OtherInterface(reply)
  \/ \E end \in Ends["call"] : DoCall(end)
  \/ \E end \in Ends["get"] : ProxiedGetProperty(end)
  \/ \E end \in Ends["set"] : ProxiedSetProperty(end)
  \/ \E end \in Ends["getall"] \ {"ok"} : GetterFails(end)

IfaceSpec == IfaceInit /\ [][IfaceNext]_ifaceVars

-----------------------------------------------------------------------------
(* Properties *)

(* The types of the variables. *)
IfaceTypeOK ==
  /\ mbrs \in [MemberNames -> Members \cup {NoMember}]
  /\ irefs \in Nat /\ owned \in BOOLEAN /\ ibinds \in 0..MaxBinds /\ jumps \in Nat
  /\ released \in Seq(Nat)

(* An interface is referenced by its creator, its binds and the request that is
   being served, and for good by each request for a property whose callback
   jumped out with an error: a callback that unbinds its own object and drops
   the interface runs on members that exist, and no other request leaves a
   reference behind. *)
IfaceCounted ==
  /\ irefs = (IF owned THEN 1 ELSE 0) + ibinds + (IF call.op = "none" THEN 0 ELSE 1) + jumps
  /\ call.todo \subseteq Existing

(* Every release callback that was given to a member is called exactly once:
   when the member is replaced or the interface is freed (FreeMember). *)
ReleasesCalled ==
  \A k \in DOMAIN released :
    released[k] = IF \E n \in Existing : k \in mbrs[n].release THEN 0 ELSE 1

(* A request fails, which drops the connection, only when a callback returned -1
   or a getter of GetAll set an error up; any other error that a callback sets up
   is sent to the caller. *)
ErrorsAnswered ==
  answer = "fail" => ended.how = "fail" \/ ended = [op |-> "getall", how |-> "error"]

(* No assertion fails (IntrospectMember, IntrospectArguments), other than the one that
   every GetAll with a readable property runs into (ProxiedGetAllProperties,
   adbus_buf_enddictentry). *)
AssertsInGetAll == answer = "assert" => ended = [op |-> "getall", how |-> "ok"]

(* Whatever callbacks do and however they end, an interface and its members are there
   as long as they are used, every release callback is called once, errors of
   callbacks are sent to the caller instead of ending the connection, except those of
   GetAll, and only GetAll fails an assertion. *)
InterfaceSound ==
  IfaceTypeOK /\ IfaceCounted /\ ReleasesCalled /\ ErrorsAnswered /\ AssertsInGetAll
=============================================================================
