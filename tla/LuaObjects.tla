----------------------------- MODULE LuaObjects -----------------------------
(***************************************************************************)
(* The objects of the Lua binding (adbuslua/lconnection.c, lmatch.c,       *)
(* linterface.c): connections, matches, replies, binds and interfaces keep *)
(* Lua functions in slots of Lua's registry for the callbacks that the     *)
(* library makes, and give the slots back when the library releases them,  *)
(* when the program closes them or when Lua collects them.  An error in a  *)
(* callback is collected in a list of the connection, since it must not    *)
(* unwind the library, and thrown by the call of the binding that led to   *)
(* the callback.                                                           *)
(*                                                                         *)
(* The model ends where a slot is given back that is not held (stopped.how *)
(* is "spoiled") and where an assertion fails or freed memory is used      *)
(* ("broken").                                                             *)
(***************************************************************************)
EXTENDS Integers, Sequences, SequencesExt, FiniteSets

CONSTANTS
  LuaObjs,    \* objects: matches, replies and binds that a program makes
  ObjKind,    \* what each of them is
  MemberTables, \* tables for a member: flag is unpack_message or type, first and
              \* second are callback, or getter and setter
  MaxObjects, \* bound on the objects that are made
  MaxFrames,  \* bound on callbacks inside callbacks
  MaxErrors   \* bound on the errors that callbacks raise

ASSUME LuaAssumption ==
  /\ IsFiniteSet(LuaObjs)
  /\ LuaObjs \cap {"none", "errors", "sender", "connect", "sig", "function"} = {}
  /\ MemberTables \subseteq
       [unknown : BOOLEAN, first : {"none", "bad", "ok"}, second : {"none", "bad", "ok"},
        returns : {"none", "bad", "empty", "ok"}, arguments : {"none", "bad", "empty", "ok"},
        annotations : {"none", "bad", "ok"}, flag : {"none", "bad", "ok"}]

VARIABLES
  registry,  \* the slots that are taken, and what is in each
  lconn,     \* the connection: open, and its slots
  objs,      \* the objects
  iface,     \* the interface: whether Lua and the binds hold it, and its slots
  frames,    \* the callbacks that run, the innermost last: for whom, and whose
             \* function it is
  lphase,     \* "lua": Lua code runs; "back": a callback has returned to the library
  errs,      \* errors of callbacks, counted: raised; in the list, as texts and as other
             \* values; thrown to Lua code; masked by another error; lost.  odd tells
             \* which errors other than texts of ordinary callbacks there were
  leaked,    \* slots that nothing will give back
  stopped    \* how the program ended, and by the close or the call of what

luaVars == <<registry, lconn, objs, iface, frames, lphase, errs, leaked, stopped>>

-----------------------------------------------------------------------------
(* The registry: luaL_ref and luaL_unref *)

NoSlot == <<"none", 0>>

(* A slot that is not taken; which one does not matter, so it is named after what is
   put in it. *)
Ref(reg, who) ==
  LET n == CHOOSE n \in 1..Cardinality(DOMAIN reg) + 1 :
             <<who, n>> \notin DOMAIN reg /\ \A k \in 1..n - 1 : <<who, k>> \in DOMAIN reg
  IN  [reg |-> [slot \in DOMAIN reg \cup {<<who, n>>} |-> IF slot = <<who, n>> THEN who ELSE reg[slot]],
       ref |-> <<who, n>>]

(* Slots for several functions of one holder, in order. *)
RefAll(reg, whos) ==
  LET Taken[n \in 0..Len(whos)] ==
        IF n = 0 THEN [reg |-> reg, refs |-> <<>>]
        ELSE [reg |-> Ref(Taken[n - 1].reg, whos[n]).reg,
              refs |-> Append(Taken[n - 1].refs, Ref(Taken[n - 1].reg, whos[n]).ref)]
  IN  Taken[Len(whos)]

UnrefAll(reg, slots) == [slot \in DOMAIN reg \ slots |-> reg[slot]]

-----------------------------------------------------------------------------
(* State *)

NoObject == [L |-> FALSE, lib |-> FALSE, dead |-> FALSE, callback |-> NoSlot, object |-> NoSlot]

(* NewConnection does not set the sender and connect slots of the userdata: they
   hold what the memory held.  set has the slots that the program has filled and not
   given back. *)
LuaInit ==
  /\ registry = Ref(<<>>, "errors").reg
  /\ \E s, c \in {NoSlot, <<"errors", 1>>} :
       lconn = [open |-> TRUE, errors |-> <<"errors", 1>>, sender |-> s, connect |-> c, set |-> {},
                hello |-> "no"]
  /\ objs = [o \in LuaObjs |-> NoObject]
  /\ iface = [kind |-> "none", held |-> FALSE, binds |-> 0, refs |-> <<>>, made |-> FALSE]
  /\ frames = <<>> /\ lphase = "lua"
  /\ errs = [raised |-> 0, texts |-> 0, values |-> 0, thrown |-> 0, masked |-> 0, lost |-> 0, odd |-> {}]
  /\ leaked = {} /\ stopped = [how |-> "no", by |-> "none"]

(* A program sets the sender before it makes calls that send. *)
SenderKnown == lconn.sender = NoSlot \/ "sender" \in lconn.set
ConnectKnown == lconn.connect = NoSlot \/ "connect" \in lconn.set

LuaStops(how, by) == stopped' = [how |-> how, by |-> by]
LuaRuns == stopped.how = "no" /\ lphase = "lua"
MadeObjs == {o \in LuaObjs : objs[o] # NoObject}
Registered == {o \in LuaObjs : objs[o].lib}

-----------------------------------------------------------------------------
(* Errors *)

(* What a callback raises: nothing, a text (or a number, which Lua takes for one),
   another value, or nil. *)
Raisable == IF errs.raised < MaxErrors THEN {"none", "text", "value", "nil"} ELSE {"none"}

(* CollectError puts the error in the list of the connection; a nil is not put
   anywhere.  Traceback keeps an error that is not a text as it is. *)
Listed(e, kind) ==
  [e EXCEPT !.raised = IF kind = "none" THEN @ ELSE @ + 1, !.texts = IF kind = "text" THEN @ + 1 ELSE @,
            !.values = IF kind = "value" THEN @ + 1 ELSE @, !.lost = IF kind = "nil" THEN @ + 1 ELSE @]

Collected(kind) == [Listed(errs, kind) EXCEPT !.odd = @ \cup ({kind} \cap {"value", "nil"})]

(* The functions for sending and for being connected run within a call.  The handler
   that their lua_pcall names is the function itself: it is called again, with the
   error, and what it returns then is collected, be it a text, a value or nothing
   (adbusluaI_send, adbusluaI_connect). *)
CollectedOwn(kind) == [Listed(errs, kind) EXCEPT !.odd = @ \cup (IF kind = "none" THEN {} ELSE {"own"})]

SendErrors == IF lconn.sender = NoSlot THEN {"none"} ELSE Raisable

(* ThrowError empties the list into one error.  lua_concat cannot take a value that is
   no text: then it raises an error of its own, which tells nothing of the list. *)
Thrown(e) ==
  IF e.values = 0 THEN [e EXCEPT !.texts = 0, !.thrown = @ + e.texts]
  ELSE [e EXCEPT !.texts = 0, !.values = 0, !.masked = @ + e.texts + e.values]

(* That error ends the callback that it is thrown in, and is collected again. *)
PassedOn(e) == IF e.values = 0 THEN e ELSE Listed(Thrown(e), "text")

(* The call that Lua code made goes on with the errors e: without any it returns;
   those that are thrown Lua code catches or not. *)
Throws(e) ==
  IF e.texts + e.values = 0 THEN errs' = e /\ UNCHANGED <<lphase, frames>>
  ELSE \/ errs' = Thrown(e) /\ UNCHANGED <<lphase, frames>>
       \/ frames # <<>> /\ errs' = PassedOn(e) /\ lphase' = "back" /\ UNCHANGED frames

-----------------------------------------------------------------------------
(* Connections *)

(* SetSender and LuaConnect give back the slot that was there. *)
SetSender ==
  /\ LuaRuns /\ lconn.open
  /\ IF ~SenderKnown
     THEN LuaStops("spoiled", "sender") /\ UNCHANGED <<registry, lconn>>
     ELSE LET r == Ref(UnrefAll(registry, {lconn.sender}), "sender")
          IN  /\ registry' = r.reg
              /\ lconn' = [lconn EXCEPT !.sender = r.ref, !.set = @ \cup {"sender"}]
              /\ UNCHANGED stopped
  /\ UNCHANGED <<objs, iface, frames, lphase, errs, leaked>>

(* Without a function the slot of the last one is given back, and stays in the field.
   adbus_conn_connect asserts that the connection is not connected and waits for no
   callback; a build without assertions goes on.  LuaConnect does not look at the list
   of errors. *)
ConnectedOnce == lconn.hello # "done" /\ "connect" \notin lconn.set
LuaConnect(fn) ==
  /\ LuaRuns /\ lconn.open /\ SenderKnown
  /\ \/ /\ ~ConnectKnown /\ LuaStops("spoiled", "connect")
        /\ UNCHANGED <<registry, lconn, errs>>
     \/ /\ ConnectKnown /\ ~ConnectedOnce /\ LuaStops("broken", "connect")
        /\ UNCHANGED <<registry, lconn, errs>>
     \/ /\ ConnectKnown /\ UNCHANGED stopped
        /\ LET given == UnrefAll(registry, {lconn.connect})
               r == Ref(given, "connect")
           IN  IF fn
               THEN /\ registry' = r.reg
                    /\ lconn' = [lconn EXCEPT !.connect = r.ref, !.set = @ \cup {"connect"}, !.hello = "sent"]
               ELSE /\ registry' = given
                    /\ lconn' = [lconn EXCEPT !.set = @ \ {"connect"}, !.hello = "sent"]
        /\ \E kind \in SendErrors : errs' = CollectedOwn(kind)
  /\ UNCHANGED <<objs, iface, frames, lphase, leaked>>

(* LuaParse has the reply to Hello: adbusluaI_connect calls the function. *)
LuaConnected ==
  /\ LuaRuns /\ lconn.open /\ lconn.hello = "sent"
  /\ lconn' = [lconn EXCEPT !.hello = "done"]
  /\ \E kind \in IF "connect" \in lconn.set THEN Raisable ELSE {"none"} : Throws(CollectedOwn(kind))
  /\ UNCHANGED <<registry, objs, iface, leaked, stopped>>

LuaSend ==
  /\ LuaRuns /\ lconn.open /\ SenderKnown
  /\ \E kind \in SendErrors : Throws(CollectedOwn(kind))
  /\ UNCHANGED <<registry, lconn, objs, iface, leaked, stopped>>

-----------------------------------------------------------------------------
(* Objects *)

(* The interface lives as long as Lua, a bind or a call that runs holds it; then its
   members are released, with their slots (ReleaseMember). *)
Holds(i, calls) == i.held \/ i.binds > 0 \/ \E n \in DOMAIN calls : ObjKind[calls[n].for] = "bind"
IfaceRefs(i, calls) == IF Holds(i, calls) THEN {} ELSE ToSet(i.refs)
Unheld(i, calls) == IF Holds(i, calls) THEN i ELSE [i EXCEPT !.refs = <<>>, !.kind = "none"]

ObjRefs(o) == {objs[o].callback, objs[o].object}

(* The slots that adbusluaI_tomatch and adbusluaI_toreply take, for the callback and
   the object it is called with (here a match has an object and a reply has none).
   A table that is not as it should be is an error before or after they are taken. *)
ToMatch(o, ends) == IF ends = "early" THEN <<>> ELSE <<o, o>>
ToReply(o, ends) == IF ends = "early" THEN <<>> ELSE <<o>>

(* Mutant: a call that fails gives its slots back, and so does the collector. *)
LuaRegister_Undo(o, whos, ends) ==
  /\ LuaRuns /\ lconn.open /\ SenderKnown /\ objs[o] = NoObject
  /\ Cardinality(MadeObjs) < MaxObjects
  /\ LET r == RefAll(registry, whos)
         slot(n) == IF n \in DOMAIN r.refs THEN r.refs[n] ELSE NoSlot
     IN  /\ registry' = IF ends = "late" THEN UnrefAll(r.reg, ToSet(r.refs)) ELSE r.reg
         /\ objs' = [objs EXCEPT ![o] = [L |-> TRUE, lib |-> ends = "ok", dead |-> FALSE,
                                         callback |-> slot(1), object |-> slot(2)]]
  /\ IF ends = "ok" THEN \E kind \in SendErrors : Throws(CollectedOwn(kind))
     ELSE UNCHANGED <<errs, lphase, frames>>
  /\ UNCHANGED <<lconn, leaked, stopped>>

(* The object is made first, then its slots are taken, then the library gets it.  A
   call that fails leaves the object to the collector; one that throws the errors of
   callbacks does so too, with the object registered. *)
LuaRegister(o, whos, ends) ==
  /\ LuaRuns /\ lconn.open /\ SenderKnown /\ objs[o] = NoObject
  /\ Cardinality(MadeObjs) < MaxObjects
  /\ LET r == RefAll(registry, whos)
         slot(n) == IF n \in DOMAIN r.refs THEN r.refs[n] ELSE NoSlot
     IN  /\ registry' = r.reg
         /\ objs' = [objs EXCEPT ![o] = [L |-> TRUE, lib |-> ends = "ok", dead |-> FALSE,
                                         callback |-> slot(1), object |-> slot(2)]]
  /\ IF ends = "ok" THEN \E kind \in SendErrors : Throws(CollectedOwn(kind))
     ELSE UNCHANGED <<errs, lphase, frames>>
  /\ UNCHANGED <<lconn, leaked, stopped>>

LuaAddMatch(o, ends) == ObjKind[o] = "match" /\ LuaRegister(o, ToMatch(o, ends), ends) /\ UNCHANGED iface
LuaAddReply(o, ends) == ObjKind[o] = "reply" /\ LuaRegister(o, ToReply(o, ends), ends) /\ UNCHANGED iface

LuaBind(o) ==
  /\ ObjKind[o] = "bind" /\ iface.held /\ LuaRegister(o, <<>>, "ok")
  /\ iface' = [iface EXCEPT !.binds = @ + 1]

Closed(o) == [objs[o] EXCEPT !.L = FALSE, !.lib = FALSE]

(* ReleaseObject by the library, of several objects: their slots are given back
   once. *)
LuaReleased(reg, os) == UnrefAll(reg, UNION {ObjRefs(o) : o \in os})
IfaceWithout(os) == [iface EXCEPT !.binds = @ - Cardinality({o \in os : ObjKind[o] = "bind"})]

(* CloseObject, by the program or by the collector.  DoCloseObject of an object that
   the library has removes it there, which releases it with its slots, and then gives
   the slots back that it found in the object; of one whose connection is closed it
   fails its assertion. *)
CloseObject(o, collect) ==
  /\ LuaRuns /\ objs[o] # NoObject /\ ~objs[o].dead
  /\ IF ~objs[o].L
     THEN /\ objs' = [objs EXCEPT ![o].dead = collect]
          /\ UNCHANGED <<registry, iface, frames, lphase, errs, stopped>>
     ELSE IF ~lconn.open
     THEN LuaStops("broken", o) /\ UNCHANGED <<objs, registry, iface, frames, lphase, errs>>
     ELSE IF ~(ObjRefs(o) \ {NoSlot} \subseteq
                 DOMAIN (IF objs[o].lib THEN LuaReleased(registry, {o}) ELSE registry))
     THEN LuaStops("spoiled", o) /\ UNCHANGED <<objs, registry, iface, frames, lphase, errs>>
     ELSE /\ objs' = [objs EXCEPT ![o] = [Closed(o) EXCEPT !.dead = collect]]
          /\ LET i == IF objs[o].lib THEN IfaceWithout({o}) ELSE iface
             IN  /\ registry' = UnrefAll(UnrefAll(registry, ObjRefs(o)), IfaceRefs(i, frames))
                 /\ iface' = Unheld(i, frames)
          /\ Throws(errs)
          /\ UNCHANGED stopped
  /\ UNCHANGED <<lconn, leaked>>

(* Reading the table of a member.  A field is missing ("none"), of the wrong shape
   ("bad"), or as it should be ("ok"); a list may be empty.  Each step of the reading
   fails or takes slots. *)
Takes(whos) == [fails |-> FALSE, whos |-> whos]
FailsIf(bad) == [fails |-> bad, whos |-> <<>>]

(* CheckOptionalTable and DoUnpackArguments, for arguments and returns: the types that
   were read are kept for the values of calls if there are any. *)
UnpackArguments(list) == IF list = "ok" THEN Takes(<<"sig">>) ELSE FailsIf(list = "bad")
UnpackAnnotations(table) == FailsIf(table = "bad")

(* adbusluaI_check_fields_numbers *)
KnownFields(t) == FailsIf(t.unknown)

(* adbusluaI_functionField *)
FunctionField(f) == IF f = "ok" THEN Takes(<<"function">>) ELSE FailsIf(f = "bad")

UnpackMethod(t) ==
  <<KnownFields(t), UnpackArguments(t.returns), UnpackArguments(t.arguments),
    UnpackAnnotations(t.annotations), FailsIf(t.flag = "bad"),
    FunctionField(t.first), FailsIf(t.first = "none")>>
UnpackProperty(t) ==
  <<KnownFields(t), FailsIf(t.flag # "ok"), UnpackAnnotations(t.annotations),
    FunctionField(t.first), FunctionField(t.second),
    FailsIf(t.first = "none" /\ t.second = "none")>>
UnpackSignal(t) ==
  <<KnownFields(t), FailsIf(t.arguments = "bad"), UnpackAnnotations(t.annotations)>>

(* NewInterface and UnpackInterfaceTable, with one member: the slots are taken up to the
   step that fails.  An error before the member has its release callback, which is set
   at the end, leaves the slots taken. *)
NewInterface(kind, steps) ==
  LET ok == \A i \in DOMAIN steps : ~steps[i].fails
      done(i) == \A j \in 1..i : ~steps[j].fails
      whos == FlattenSeq([i \in DOMAIN steps |-> IF done(i) THEN steps[i].whos ELSE <<>>])
      r == RefAll(registry, whos)
  IN  /\ LuaRuns /\ ~iface.made
      /\ registry' = r.reg
      /\ iface' = [kind |-> IF ok THEN kind ELSE "none", made |-> TRUE, held |-> ok, binds |-> 0,
                   refs |-> IF ok THEN r.refs ELSE <<>>]
      /\ leaked' = IF ok THEN leaked ELSE leaked \cup ToSet(r.refs)
      /\ UNCHANGED <<lconn, objs, frames, lphase, errs, stopped>>

(* FreeInterface, by the collector *)
FreeInterface ==
  /\ LuaRuns /\ iface.held
  /\ LET i == [iface EXCEPT !.held = FALSE]
     IN  registry' = UnrefAll(registry, IfaceRefs(i, frames)) /\ iface' = Unheld(i, frames)
  /\ UNCHANGED <<lconn, objs, frames, lphase, errs, leaked, stopped>>

-----------------------------------------------------------------------------
(* Callbacks *)

(* LuaParse has a message for an object: adbusluaI_callback calls the function in the
   slot, adbusluaI_method, getproperty and setproperty the one of the interface. *)
LuaParse(o) ==
  /\ LuaRuns /\ lconn.open /\ o \in Registered /\ Len(frames) < MaxFrames
  /\ ObjKind[o] = "bind" => iface.refs # <<>>
  /\ LET slot == IF ObjKind[o] = "bind" THEN Last(iface.refs) ELSE objs[o].callback
     IN  frames' = Append(frames, [for |-> o, runs |-> registry[slot]])
  /\ UNCHANGED <<registry, lconn, objs, iface, lphase, errs, leaked, stopped>>

(* The callback returns, or ends with an error, of its own or of a call that refused
   something, which is collected. *)
LuaEnds(kind) ==
  /\ LuaRuns /\ kind \in Raisable
  /\ errs' = Collected(kind) /\ lphase' = "back"
  /\ UNCHANGED <<registry, lconn, objs, iface, frames, leaked, stopped>>

CallbackEnds(kind) == frames # <<>> /\ ObjKind[Last(frames).for] # "bind" /\ LuaEnds(kind)

(* What a method or a getter returns is converted; a value that cannot be is an error
   as well. *)
MethodEnds(kind) ==
  frames # <<>> /\ ObjKind[Last(frames).for] = "bind" /\ iface.kind = "method" /\ LuaEnds(kind)
PropertyEnds(kind) ==
  frames # <<>> /\ ObjKind[Last(frames).for] = "bind" /\ iface.kind = "property" /\ LuaEnds(kind)

(* The library is done with the message: a reply is released.  Back in LuaParse its
   buffer is used, so the connection must not have been closed; then the errors are
   thrown. *)
ParseReturns ==
  /\ stopped.how = "no" /\ lphase = "back"
  /\ IF ~lconn.open
     THEN LuaStops("broken", Last(frames).for) /\ UNCHANGED <<registry, objs, iface, frames, lphase, errs>>
     ELSE LET o == Last(frames).for
              answered == o \in Registered /\ ObjKind[o] = "reply"
              outer == Front(frames)
          IN  /\ registry' = UnrefAll(IF answered THEN LuaReleased(registry, {o}) ELSE registry,
                                      IfaceRefs(iface, outer))
              /\ iface' = Unheld(iface, outer)
              /\ objs' = IF answered THEN [objs EXCEPT ![o] = Closed(o)] ELSE objs
              /\ frames' = outer
              /\ \/ errs' = Thrown(errs) /\ lphase' = "lua"
                 \/ /\ errs.texts + errs.values > 0 /\ outer # <<>>
                    /\ errs' = PassedOn(errs) /\ lphase' = "back"
              /\ UNCHANGED stopped
  /\ UNCHANGED <<lconn, leaked>>

(* CloseConnection: the library releases every object, then the connection gives its
   own slots back. *)
CloseConnection ==
  /\ LuaRuns /\ lconn.open
  /\ IF ~SenderKnown \/ ~ConnectKnown
     THEN /\ LuaStops("spoiled", IF SenderKnown THEN "connect" ELSE "sender")
          /\ UNCHANGED <<registry, lconn, objs, iface, frames, lphase, errs>>
     ELSE LET i == IfaceWithout(Registered)
          IN  /\ registry' = UnrefAll(UnrefAll(LuaReleased(registry, Registered), IfaceRefs(i, frames)),
                                      {lconn.sender, lconn.connect, lconn.errors})
              /\ objs' = [o \in LuaObjs |-> IF o \in Registered THEN Closed(o) ELSE objs[o]]
              /\ iface' = Unheld(i, frames)
              /\ lconn' = [lconn EXCEPT !.open = FALSE]
              /\ Throws(errs)
              /\ UNCHANGED stopped
  /\ UNCHANGED leaked

LuaNext ==
  \/ SetSender \/ LuaConnected \/ LuaSend \/ CloseConnection \/ ParseReturns \/ FreeInterface
  \/ \E t \in MemberTables : \/ NewInterface("method", UnpackMethod(t))
                            \/ NewInterface("property", UnpackProperty(t))
                            \/ NewInterface("signal", UnpackSignal(t))
  \/ \E o \in LuaObjs :
       \/ \E ends \in {"ok", "early", "late"} : LuaAddMatch(o, ends) \/ LuaAddReply(o, ends)
       \/ LuaBind(o)
       \/ \E collect \in BOOLEAN : CloseObject(o, collect)
       \/ LuaParse(o)
  \/ \E fn \in BOOLEAN : LuaConnect(fn)
  \/ \E kind \in {"none", "text", "value", "nil"} :
       CallbackEnds(kind) \/ MethodEnds(kind) \/ PropertyEnds(kind)

LuaSpec == LuaInit /\ [][LuaNext]_luaVars

-----------------------------------------------------------------------------
(* Properties *)

(* Who holds which slot. *)
Claims ==
  LET fields == IF ~lconn.open THEN {}
                ELSE {"errors"} \cup lconn.set
      held == {<<"connection", f, lconn[f]>> : f \in fields}
                \cup {<<"interface", i, iface.refs[i]>> : i \in DOMAIN iface.refs}
                \cup {<<"callback", o, objs[o].callback>> : o \in {o \in LuaObjs : objs[o].L}}
                \cup {<<"object", o, objs[o].object>> : o \in {o \in LuaObjs : objs[o].L}}
                \cup {<<"nobody", 0, slot>> : slot \in leaked}
  IN  {claim \in held : claim[3] # NoSlot}

(* Until the program ends, every slot of the registry has one holder, whose function is
   in it, or was left by an interface that failed, and none is forgotten
   (ReleaseObject, ReleaseMember, CloseConnection). *)
SlotsHeld ==
  /\ \A c, d \in Claims : c[3] = d[3] => c = d
  /\ {c[3] : c \in Claims} = DOMAIN registry

(* A slot is given back that is not held when a match or a reply is closed or collected
   that the library still has, so that it is released twice (CloseObject), when a
   connect without a function has left the slot of the one before it (Connect), and
   when the connection never set the field (NewConnection); nothing else does it, in
   whatever order objects are released, closed and collected.  What ends otherwise, by
   a failed assertion, is an object closed after its connection, a callback that closed
   its connection, and a second connect. *)
StopsForAReason ==
  /\ stopped.how = "spoiled" =>
       \/ \E o \in Registered : stopped.by = o /\ ObjKind[o] # "bind"
       \/ stopped.by = "sender" /\ ~SenderKnown
       \/ stopped.by = "connect" /\ ~ConnectKnown
  /\ stopped.how = "broken" => ~lconn.open \/ (stopped.by = "connect" /\ ~ConnectedOnce)

(* A callback runs the function that was registered for its object, and the object
   was open when it was called (adbusluaI_callback, adbusluaI_method). *)
OwnFunctionRuns ==
  \A i \in DOMAIN frames :
    frames[i].runs = IF ObjKind[frames[i].for] = "bind" THEN "function" ELSE frames[i].for

(* An error of a callback is in the list of the connection or was thrown to Lua code
   that could see it (CollectError, ThrowError).  It is lost only if it was nil, or came
   from the function for sending or connecting, and another error takes its place only
   if one of those, or a value that is no text, was in the list. *)
NoErrorLost ==
  /\ errs.raised = errs.texts + errs.values + errs.thrown + errs.masked + errs.lost
  /\ errs.lost > 0 => errs.odd \cap {"nil", "own"} # {}
  /\ errs.values + errs.masked > 0 => errs.odd \cap {"value", "own"} # {}

(* In whatever order objects are released, closed and collected, also inside their own
   callbacks, a slot has one holder until it is given back for one of the known
   reasons, a callback runs its own function, and an error that is a text gets to Lua
   code. *)
LuaObjectsSound == SlotsHeld /\ StopsForAReason /\ OwnFunctionRuns /\ NoErrorLost
=============================================================================
