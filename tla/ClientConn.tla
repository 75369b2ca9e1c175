----------------------------- MODULE ClientConn -----------------------------
(***************************************************************************)
(* The connection of a client (adbus/connection.c): its lists of matches,  *)
(* replies and binds, the dispatch of a message to them (adbus/match.c,    *)
(* reply.c, bind.c) and the callbacks that run meanwhile.                  *)
(*                                                                         *)
(* A callback is user code: it may remove any service, and a message       *)
(* callback may add some (doc.inl).  What the library goes on doing when   *)
(* the callback returns is kept on a stack, one frame for each call in     *)
(* progress; a step is taken by the topmost frame.                         *)
(***************************************************************************)
EXTENDS Integers, Sequences, FiniteSets, Lists

CONSTANTS
  MatchIds, ReplyIds, BindIds,  \* the services that a run may add, once each
  MatchOf,      \* the fields of each match; Unset where there is none
  ReplyOf,      \* remote and serial of each reply, and if it has an error callback
  Releases,     \* how many release callbacks a service has: 0, 1 or 2
  Incoming,     \* the messages that may come
  Nobody,       \* a NULL service
  Unset,        \* a field that is not set
  MaxDepth      \* bound on the calls in progress

Services == MatchIds \cup ReplyIds \cup BindIds
Kinds == {"bind", "reply", "match"}

ASSUME ClientAssumption ==
  /\ MatchIds \cap ReplyIds = {} /\ (MatchIds \cup ReplyIds) \cap BindIds = {}
  /\ Releases \in [Services -> 0..2]
  /\ Nobody \notin Services
  /\ \A q, r \in ReplyIds :   \* one reply for a serial of a remote
       ReplyOf[q].remote = ReplyOf[r].remote /\ ReplyOf[q].serial = ReplyOf[r].serial => q = r
  /\ \A msg \in Incoming : msg.to \subseteq BindIds
  /\ MaxDepth \in Nat

VARIABLES
  lists,    \* the services of each kind, newest first
  iter,     \* the iter field of each list
  status,   \* the life of each service
  released, \* how many of its release callbacks have been called
  waiting,  \* the replies in the tables of their remotes
  busRules,    \* the matches that the bus has been told of
  ifaceRef, \* references to the interface of the binds
  held,     \* whether one of them is the user's
  stack,    \* the calls in progress, the innermost first
  connRef,  \* references to the connection
  cut,      \* history: the lists that adbus_conn_deref stopped walking as a release
            \* callback removed the service that came next
  over,     \* how the connection has ended: "no", "freed", "assert", "crash"
  last      \* the message being dispatched or dispatched last: the replies that
            \* waited for it, who got it, what was sent back

ccVars == <<lists, iter, status, released, waiting, busRules, ifaceRef, held,
            stack, connRef, cut, over, last>>

KindOf(s) == IF s \in MatchIds THEN "match"
             ELSE IF s \in ReplyIds THEN "reply" ELSE "bind"

NoMessage == [msg |-> Unset, due |-> {}, got |-> {}, sent |-> "none",
              result |-> "none"]

(* adbus_conn_new *)
ClientInit ==
  /\ lists = [k \in Kinds |-> <<>>]
  /\ iter = [k \in Kinds |-> Nobody]
  /\ status = [s \in Services |-> "unused"]
  /\ released = [s \in Services |-> 0]
  /\ waiting = {} /\ busRules = {}
  /\ ifaceRef = 1 /\ held = TRUE /\ connRef = 1
  /\ stack = <<>> /\ cut = {} /\ over = "no" /\ last = NoMessage

-----------------------------------------------------------------------------
(* dmem/list.h *)

(* Mutant: the iterator keeps pointing at what has been removed. *)
ListWithout_Stale(s) ==
  /\ lists' = [lists EXCEPT ![KindOf(s)] = Without(@, {s})]
  /\ UNCHANGED iter

(* dil_remove: a walk that was to go to s next ends there. *)
ListWithout(s) ==
  /\ lists' = [lists EXCEPT ![KindOf(s)] = Without(@, {s})]
  /\ iter' = [iter EXCEPT ![KindOf(s)] = IF @ = s THEN Nobody ELSE @]

(* dil_insert_after with the head of the list *)
AtFront(s) == [lists EXCEPT ![KindOf(s)] = <<s>> \o @]

(* What DIL_FOREACH puts into iter when it comes to s. *)
NextOf(s) ==
  LET q == lists[KindOf(s)]
      i == CHOOSE i \in DOMAIN q : q[i] = s
  IN  IF i = Len(q) THEN Nobody ELSE q[i + 1]

-----------------------------------------------------------------------------
(* The user *)

TopFrame == Head(stack)
PushFrame(frame) == stack' = <<frame>> \o stack
GotoFrame(frame) == stack' = <<frame>> \o Tail(stack)
PopFrame == stack' = Tail(stack)

Callbacks == {"method", "match", "reply", "release"}
UserRuns == over = "no" /\ (stack # <<>> => TopFrame.at \in Callbacks)
MayAdd == UserRuns /\ connRef > 0 /\ (stack # <<>> => TopFrame.at # "release")

(* The part that is common to all services: s goes to the front of its list. *)
AddService(s) ==
  /\ MayAdd
  /\ status[s] = "unused"
  /\ status' = [status EXCEPT ![s] = "live"]
  /\ lists' = AtFront(s)
  /\ UNCHANGED <<iter, released, held, stack, connRef, cut, over, last>>

(* adbus_conn_addmatch, with addMatchToBusDaemon set. *)
ConnAddMatch(m) ==
  /\ AddService(m)
  /\ busRules' = busRules \cup {m}
  /\ UNCHANGED <<waiting, ifaceRef>>

(* adbus_conn_addreply.  A serial is registered once for a remote. *)
ConnAddReply(r) ==
  /\ AddService(r)
  /\ waiting' = waiting \cup {r}
  /\ UNCHANGED <<busRules, ifaceRef>>

(* adbus_conn_bind, by an owner of the interface. *)
ConnBind(b) ==
  /\ AddService(b)
  /\ held
  /\ ifaceRef' = ifaceRef + 1
  /\ UNCHANGED <<waiting, busRules>>

(* adbus_conn_deref walks the list of s, and s comes next. *)
Cuts(s) ==
  \E i \in DOMAIN stack :
    /\ stack[i].at = "walk" /\ stack[i].kind = KindOf(s) /\ ~stack[i].first
    /\ iter[KindOf(s)] = s

(* The user removes what has not been released. *)
RemoveService(s) ==
  /\ UserRuns
  /\ Len(stack) < MaxDepth
  /\ status[s] = "live"
  /\ status' = [status EXCEPT ![s] = "freeing"]
  /\ PushFrame([at |-> "free", svc |-> s])
  /\ cut' = IF Cuts(s) THEN cut \cup {KindOf(s)} ELSE cut
  /\ UNCHANGED <<released, ifaceRef, held, connRef, over, last>>

(* adbus_conn_removematch: the bus is told, then the match leaves its list. *)
ConnRemoveMatch(m) ==
  /\ RemoveService(m)
  /\ busRules' = busRules \ {m}
  /\ ListWithout(m)
  /\ UNCHANGED waiting

(* adbus_conn_removereply: the reply leaves the table of its remote. *)
ConnRemoveReply(r) ==
  /\ RemoveService(r)
  /\ waiting' = waiting \ {r}
  /\ UNCHANGED <<lists, iter, busRules>>

(* adbus_conn_unbind: the bind leaves its object. *)
ConnUnbind(b) ==
  /\ RemoveService(b)
  /\ UNCHANGED <<lists, iter, waiting, busRules>>

(* adbus_iface_free: the user needs the interface no more. *)
DropInterface ==
  /\ UserRuns
  /\ held
  /\ held' = FALSE
  /\ ifaceRef' = ifaceRef - 1
  /\ UNCHANGED <<lists, iter, status, released, waiting, busRules, stack, connRef, cut,
                 over, last>>

-----------------------------------------------------------------------------
(* Freeing a service and the connection *)

(* adbusI_freeMatch, adbusI_freeReply and adbusI_freeBind call the release
   callbacks one after the other. *)
CallRelease ==
  /\ over = "no" /\ stack # <<>> /\ TopFrame.at = "free"
  /\ released[TopFrame.svc] < Releases[TopFrame.svc]
  /\ released' = [released EXCEPT ![TopFrame.svc] = @ + 1]
  /\ PushFrame([at |-> "release", svc |-> TopFrame.svc])
  /\ UNCHANGED <<lists, iter, status, waiting, busRules, ifaceRef, held, connRef, cut,
                 over, last>>

(* The release callbacks have been called: the service is freed. *)
ServiceFreed(s) ==
  /\ over = "no" /\ stack # <<>>
  /\ TopFrame.at = "free" /\ TopFrame.svc = s
  /\ released[s] = Releases[s]
  /\ status' = [status EXCEPT ![s] = "freed"]
  /\ PopFrame
  /\ UNCHANGED <<released, waiting, busRules, held, connRef, cut, over, last>>

(* adbusI_freeMatch has taken the match off its list before. *)
FreeMatch(m) ==
  /\ ServiceFreed(m)
  /\ UNCHANGED <<lists, iter, ifaceRef>>

(* adbusI_freeReply takes the reply off its list only now. *)
FreeReply(r) ==
  /\ ServiceFreed(r)
  /\ ListWithout(r)
  /\ UNCHANGED ifaceRef

(* adbusI_freeBind gives its reference to the interface back and leaves its
   list. *)
FreeBind(b) ==
  /\ ServiceFreed(b)
  /\ ListWithout(b)
  /\ ifaceRef' = ifaceRef - 1

(* adbus_conn_deref by the last owner: the tables are cleared, then the lists
   are walked. *)
ConnDeref ==
  /\ over = "no" /\ stack = <<>>
  /\ connRef' = connRef - 1
  /\ IF connRef = 1
     THEN /\ waiting' = {}
          /\ stack' = <<[at |-> "walk", kind |-> "bind", first |-> TRUE]>>
     ELSE UNCHANGED <<waiting, stack>>
  /\ UNCHANGED <<lists, iter, status, released, busRules, ifaceRef, held, cut, over, last>>

(* The service that DIL_FOREACH is at. *)
WalkedTo ==
  IF ~TopFrame.first THEN iter[TopFrame.kind]
  ELSE IF lists[TopFrame.kind] = <<>> THEN Nobody ELSE Head(lists[TopFrame.kind])

AfterList == [bind |-> "reply", reply |-> "match", match |-> "end"]

(* One service of the walk is freed, or the walk is over. *)
WalkList ==
  /\ over = "no" /\ stack # <<>> /\ TopFrame.at = "walk"
  /\ LET s == WalkedTo IN
     IF s # Nobody
     THEN /\ stack' = <<[at |-> "free", svc |-> s], [TopFrame EXCEPT !.first = FALSE]>>
                      \o Tail(stack)
          /\ status' = [status EXCEPT ![s] = "freeing"]
          /\ IF s \in MatchIds
             THEN /\ lists' = [lists EXCEPT !["match"] = Without(@, {s})]
                  /\ iter' = [iter EXCEPT !["match"] = NextOf(s)]
             ELSE /\ iter' = [iter EXCEPT ![TopFrame.kind] = NextOf(s)]
                  /\ UNCHANGED lists
          /\ UNCHANGED over
     ELSE /\ iter' = [iter EXCEPT ![TopFrame.kind] = Nobody]
          /\ IF TopFrame.kind = "match"
             THEN /\ PopFrame
                  /\ over' = IF \E k \in Kinds : lists[k] # <<>>
                             THEN "assert" ELSE "freed"
             ELSE /\ GotoFrame([TopFrame EXCEPT !.kind = AfterList[@], !.first = TRUE])
                  /\ UNCHANGED over
          /\ UNCHANGED <<lists, status>>
  /\ UNCHANGED <<released, waiting, busRules, ifaceRef, held, connRef, cut, last>>

-----------------------------------------------------------------------------
(* Dispatch *)

(* Matches: an unset field of the match fits everything. *)
Matches(field, value) == field = Unset \/ field = value

(* ArgsMatch: the arguments of the match are the first of the message. *)
ArgsMatch(args, values) ==
  /\ Len(values) >= Len(args)
  /\ \A i \in DOMAIN args : Matches(args[i], values[i])

(* The header fields that adbusI_dispatchMatch compares. *)
HeaderFits(m, msg) ==
  /\ Matches(MatchOf[m].type, msg.type)
  /\ Matches(MatchOf[m].serial, msg.serial)
  /\ Matches(MatchOf[m].sender, msg.sender)
  /\ Matches(MatchOf[m].member, msg.member)

(* A match that asks for arguments needs them parsed. *)
ArgsBad(m, msg) == MatchOf[m].args # Unset /\ ~msg.parses
Fits(m, msg) ==
  /\ HeaderFits(m, msg)
  /\ MatchOf[m].args = Unset \/ ArgsBad(m, msg) \/ ArgsMatch(MatchOf[m].args, msg.args)

(* Where the walk of adbusI_dispatchMatch stops. *)
FirstFit(msg) ==
  LET fit == {i \in DOMAIN lists["match"] : Fits(lists["match"][i], msg)}
  IN  IF fit = {} THEN Nobody
      ELSE lists["match"][CHOOSE i \in fit : \A j \in fit : i <= j]

(* '!flags & ADBUS_MSG_NO_REPLY' is (!flags) & 1. *)
WantsReply(msg) == msg.type = "method" /\ msg.flags = {}

(* The reply that is registered for the sender and the serial. *)
ReplyFor(msg) ==
  {r \in waiting : /\ msg.type \in {"return", "error"}
                   /\ ReplyOf[r].remote = msg.sender
                   /\ ReplyOf[r].serial = msg.serial}

(* adbus_conn_dispatch and the beginning of Dispatch. *)
DispatchMessage(msg) ==
  /\ over = "no" /\ stack = <<>> /\ connRef > 0
  /\ PushFrame([at |-> IF msg.type = "method" THEN "toBind" ELSE "toMatch", msg |-> msg,
                 ret |-> IF WantsReply(msg) THEN "return" ELSE "none", svc |-> Nobody])
  /\ last' = [NoMessage EXCEPT !.msg = msg, !.due = ReplyFor(msg)]
  /\ UNCHANGED <<lists, iter, status, released, waiting, busRules, ifaceRef, held,
                 connRef, cut, over>>

AtFrame(place) == over = "no" /\ stack # <<>> /\ TopFrame.at = place
GotMessage(s) == last' = [last EXCEPT !.got = @ \cup {s}]

(* Dispatch returns -1: no reply is sent. *)
FailDispatch ==
  /\ PopFrame
  /\ last' = [last EXCEPT !.result = "fail"]

(* adbus_conn_interface, or adbus_conn_method when the message names no
   interface: the binds of the path that have the method. *)
Targets(msg) == {b \in msg.to : status[b] = "live"}

(* adbusI_dispatchBind has found the method; adbus_mbr_call references the
   interface and calls it. *)
CallMethod ==
  /\ AtFrame("toBind")
  /\ \E b \in Targets(TopFrame.msg) :
       /\ stack' = <<[at |-> "method", svc |-> b], [TopFrame EXCEPT !.at = "fromBind"]>>
                   \o Tail(stack)
       /\ GotMessage(b)
  /\ ifaceRef' = ifaceRef + 1
  /\ UNCHANGED <<lists, iter, status, released, waiting, busRules, held, connRef, cut, over>>

(* adbusI_interfaceError, adbusI_methodError: adbus_error sets the reply up if
   there is to be one. *)
NoMethod ==
  /\ AtFrame("toBind")
  /\ Targets(TopFrame.msg) = {}
  /\ GotoFrame([TopFrame EXCEPT !.at = "toMatch", !.ret = IF @ = "none" THEN @ ELSE "error"])
  /\ UNCHANGED <<lists, iter, status, released, waiting, busRules, ifaceRef, held,
                 connRef, cut, over, last>>

(* How a callback ends: it returns 0, sets an error up (with adbus_errorf_jmp
   past the rest of it, which adbus_dispatch catches) or returns -1. *)
CallbackResults == {"ok", "error", "fail"}

(* DoCall after the method. *)
MethodReturns(result) ==
  /\ AtFrame("method")
  /\ ifaceRef' = ifaceRef - 1
  /\ LET caller == stack[2] IN
     IF result = "fail"
     THEN /\ stack' = SubSeq(stack, 3, Len(stack))
          /\ last' = [last EXCEPT !.result = "fail"]
     ELSE /\ stack' = <<[caller EXCEPT
                           !.at = "toMatch",
                           !.ret = IF @ # "none" /\ result = "error" THEN "error" ELSE @]>>
                      \o SubSeq(stack, 3, Len(stack))
          /\ UNCHANGED last
  /\ UNCHANGED <<lists, iter, status, released, waiting, busRules, held, connRef, cut, over>>

(* adbusI_dispatchMatch: the first match that fits gets the message, and no
   other. *)
DispatchToMatch ==
  /\ AtFrame("toMatch")
  /\ LET m == FirstFit(TopFrame.msg) IN
     /\ iter' = [iter EXCEPT !["match"] = IF m = Nobody THEN Nobody ELSE NextOf(m)]
     /\ IF m = Nobody
        THEN /\ GotoFrame([TopFrame EXCEPT !.at = "toReply"])
             /\ UNCHANGED last
        ELSE IF ArgsBad(m, TopFrame.msg) THEN FailDispatch
        ELSE /\ stack' = <<[at |-> "match", svc |-> m], [TopFrame EXCEPT !.at = "fromMatch"]>>
                         \o Tail(stack)
             /\ GotMessage(m)
  /\ UNCHANGED <<lists, status, released, waiting, busRules, ifaceRef, held, connRef, cut, over>>

(* The callback of the match returns; an error that it sets up is dropped, as
   there is no reply message at this point. *)
MatchReturns(result) ==
  /\ AtFrame("match")
  /\ IF result = "fail"
     THEN /\ stack' = SubSeq(stack, 3, Len(stack))
          /\ last' = [last EXCEPT !.result = "fail"]
     ELSE /\ stack' = <<[stack[2] EXCEPT !.at = "toReply"]>> \o SubSeq(stack, 3, Len(stack))
          /\ UNCHANGED last
  /\ UNCHANGED <<lists, iter, status, released, waiting, busRules, ifaceRef, held,
                 connRef, cut, over>>

(* adbusI_dispatchReply: the reply leaves its table and its callback is
   called.  Without an error callback, an error calls NULL. *)
DispatchToReply ==
  /\ AtFrame("toReply")
  /\ IF ReplyFor(TopFrame.msg) = {}
     THEN /\ GotoFrame([TopFrame EXCEPT !.at = "send"])
          /\ UNCHANGED <<iter, waiting, over, last>>
     ELSE \E r \in ReplyFor(TopFrame.msg) :
            /\ iter' = [iter EXCEPT !["reply"] = r]
            /\ waiting' = waiting \ {r}
            /\ over' = IF TopFrame.msg.type = "error" /\ ~ReplyOf[r].error
                       THEN "crash" ELSE over
            /\ stack' = <<[at |-> "reply", svc |-> r],
                          [TopFrame EXCEPT !.at = "fromReply", !.svc = r]>> \o Tail(stack)
            /\ GotMessage(r)
  /\ UNCHANGED <<lists, status, released, busRules, ifaceRef, held, connRef, cut>>

(* The callback of the reply returns.  The iterator tells whether the callback
   has removed the reply; if not, it is freed now. *)
ReplyReturns(result) ==
  /\ AtFrame("reply")
  /\ iter' = [iter EXCEPT !["reply"] = Nobody]
  /\ LET caller == [stack[2] EXCEPT !.at = IF result = "fail" THEN "failed" ELSE "send"]
         r == stack[2].svc
     IN  IF iter["reply"] = r
         THEN /\ stack' = <<[at |-> "free", svc |-> r], caller>>
                          \o SubSeq(stack, 3, Len(stack))
              /\ status' = [status EXCEPT ![r] = "freeing"]
         ELSE /\ stack' = <<caller>> \o SubSeq(stack, 3, Len(stack))
              /\ UNCHANGED status
  /\ UNCHANGED <<lists, released, waiting, busRules, ifaceRef, held, connRef, cut, over, last>>

ReplyFailed ==
  /\ AtFrame("failed")
  /\ FailDispatch
  /\ UNCHANGED <<lists, iter, status, released, waiting, busRules, ifaceRef, held,
                 connRef, cut, over>>

(* The end of adbus_conn_dispatch: the reply message goes out. *)
SendReply ==
  /\ AtFrame("send")
  /\ PopFrame
  /\ last' = [last EXCEPT !.sent = TopFrame.ret, !.result = "ok"]
  /\ UNCHANGED <<lists, iter, status, released, waiting, busRules, ifaceRef, held,
                 connRef, cut, over>>

(* A release callback returns. *)
ReleaseReturns ==
  /\ AtFrame("release")
  /\ PopFrame
  /\ UNCHANGED <<lists, iter, status, released, waiting, busRules, ifaceRef, held,
                 connRef, cut, over, last>>

(* What the library does by itself, and the return of callbacks. *)
LibraryStep ==
  \/ CallRelease \/ WalkList
  \/ \E m \in MatchIds : FreeMatch(m)
  \/ \E r \in ReplyIds : FreeReply(r)
  \/ \E b \in BindIds : FreeBind(b)
  \/ CallMethod \/ NoMethod \/ DispatchToMatch \/ DispatchToReply \/ ReplyFailed \/ SendReply
  \/ ReleaseReturns
  \/ \E result \in CallbackResults :
       MethodReturns(result) \/ MatchReturns(result) \/ ReplyReturns(result)

ClientNext ==
  \/ LibraryStep
  \/ \E m \in MatchIds : ConnAddMatch(m) \/ ConnRemoveMatch(m)
  \/ \E r \in ReplyIds : ConnAddReply(r) \/ ConnRemoveReply(r)
  \/ \E b \in BindIds : ConnBind(b) \/ ConnUnbind(b)
  \/ DropInterface
  \/ ConnDeref
  \/ \E msg \in Incoming : DispatchMessage(msg)

ClientSpec == ClientInit /\ [][ClientNext]_ccVars

ClientFairness == WF_ccVars(LibraryStep)

-----------------------------------------------------------------------------
(* Properties *)

Lives == {"unused", "live", "freeing", "freed"}

(* The types of the variables. *)
ClientTypeOK ==
  /\ \A k \in Kinds : \A i \in DOMAIN lists[k] : KindOf(lists[k][i]) = k
  /\ \A k \in Kinds : iter[k] \in Services \cup {Nobody}
  /\ status \in [Services -> Lives]
  /\ released \in [Services -> 0..2]
  /\ waiting \subseteq ReplyIds /\ busRules \subseteq MatchIds
  /\ ifaceRef \in Nat /\ held \in BOOLEAN /\ connRef \in 0..1 /\ cut \subseteq Kinds
  /\ over \in {"no", "freed", "assert", "crash"}
  /\ last.got \subseteq Services /\ last.due \subseteq ReplyIds

(* Whatever callbacks add and remove while the library is in the middle of a
   list, its lists, their iterators and the tables of the remotes hold no
   service that has been freed (dil_remove, dispatchReply), a service is on its
   list exactly once, and every release callback of a service is called exactly
   once before it is freed. *)
ListsSound ==
  /\ \A s \in Services :
       /\ Cardinality({i \in DOMAIN lists[KindOf(s)] : lists[KindOf(s)][i] = s}) =
            IF status[s] = "live" \/ (status[s] = "freeing" /\ s \notin MatchIds)
            THEN 1 ELSE 0
       /\ status[s] \in {"unused", "live"} => released[s] = 0
       /\ status[s] = "freed" => released[s] = Releases[s]
  /\ \A k \in Kinds : iter[k] # Nobody => status[iter[k]] \in {"live", "freeing"}
  /\ \A r \in waiting : status[r] = "live"

(* The reference count of an interface is the number of its users: the owner,
   the binds and the method calls in progress.  So a method that unbinds its
   own bind and drops the interface still runs on a live interface
   (adbus_mbr_call, DoCall), and nothing is left referenced afterwards. *)
InterfaceCounted ==
  /\ ifaceRef = (IF held THEN 1 ELSE 0)
                + Cardinality({b \in BindIds : status[b] \in {"live", "freeing"}})
                + Cardinality({i \in DOMAIN stack : stack[i].at = "method"})
  /\ \A i \in DOMAIN stack : stack[i].at = "method" => ifaceRef > 0

(* A call that is answered with a return message has been handed to exactly one
   method; all others get an error or nothing (dispatchBind, adbus_error). *)
ReturnMeansCalled ==
  last.sent = "return" => Cardinality(last.got \cap BindIds) = 1

(* Replies are removed by the first return or error that answers them, whatever
   match took the message before and whatever the callbacks removed. *)
AnswerSettles ==
  (stack = <<>> /\ last.result = "ok") => \A r \in last.due : status[r] = "freed"

(* The bus has a rule for exactly the matches of the connection until the
   connection is closed. *)
RulesCurrent == connRef > 0 => busRules = {m \in MatchIds : status[m] = "live"}

(* The assertions at the end of adbus_conn_deref, that every service has been
   released, fail only when a release callback that it called has removed the very
   service that the walk was to go to next.  They can fail then: dil_remove ends the
   walk, and what is behind stays on its list and is never released, although
   doc.inl lets services be removed at any time and the comment in front of the walk
   claims protection against this. *)
LeftOnlyIfCut == over = "assert" => cut # {}

(* A dispatch ends, and a connection whose last reference has gone is freed. *)
LibraryReturns ==
  /\ stack # <<>> ~> (stack = <<>> \/ over # "no")
  /\ connRef = 0 ~> over # "no"

(* Whatever the callbacks of a connection add, remove and drop while it dispatches or
   is freed: its lists, tables, reference counts and the rules of the bus agree with the
   services that there are, a service is released once before it is freed, a reply is
   settled by its answer, and a call is answered by the method that was called.  All
   services are released when the connection is freed, unless a release callback cuts
   the walk by removing the service that comes next. *)
ConnectionSound ==
  /\ ClientTypeOK /\ ListsSound /\ InterfaceCounted /\ ReturnMeansCalled
  /\ AnswerSettles /\ RulesCurrent /\ LeftOnlyIfCut
=============================================================================
