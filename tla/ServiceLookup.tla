--------------------------- MODULE ServiceLookup ---------------------------
(***************************************************************************)
(* Calls and matches to a named service on the client side                 *)
(* (adbus/client-service.c, the reply table of adbus/reply.c, the sender   *)
(* test of adbus/match.c), together with the bus they race with.           *)
(*                                                                         *)
(* Replies carry the unique name of the service's owner.  The client       *)
(* therefore follows the owner with NameOwnerChanged and GetNameOwner and  *)
(* keeps the replies it waits for under the owner's unique name.  The      *)
(* connection to the bus is first in, first out in both directions; the    *)
(* bus and the owners act at any moment in between.                        *)
(***************************************************************************)
EXTENDS Integers, Sequences, FiniteSets

CONSTANTS
  Owners,          \* unique names that may own the service
  InitialOwners,   \* who may own it at the start
  Service,         \* the service name
  BusName,         \* org.freedesktop.DBus
  Empty,           \* the empty name, in NameOwnerChanged for "no owner"
  None,            \* NULL
  MaxCalls, MaxChanges, MaxSignals   \* bounds

ASSUME NamesAssumption ==
  /\ InitialOwners \subseteq Owners \cup {None}
  /\ Cardinality({Service, BusName, Empty, None}) = 4
  /\ Owners \cap {Service, BusName, Empty, None} = {}
ASSUME CallsAssumption == {MaxCalls, MaxChanges, MaxSignals} \subseteq Nat

VARIABLES
  owner,     \* the bus: who owns the service
  rules,     \* the bus: the match rules of the client
  toBus,     \* messages from the client to the bus
  toClient,  \* messages from the bus to the client
  called,    \* called[x]: the calls that x has to answer
  changes,   \* how often the owner has changed
  signals,   \* how many signals have been sent
  lookup,    \* whether the client has a struct ServiceLookup
  unique,    \* its unique field: None until it is known
  replies,   \* replies[k]: serials registered for remote k
  calls,     \* the state of each call of the client
  matching,  \* whether the client has a match with Service as its sender
  heard,     \* history: for the signals that came, whether their sender owned
             \* the service when it sent them and whether the match took them
  fault      \* what has ended the client, if anything

busVars == <<owner, rules, called, changes, signals>>
followVars == <<lookup, unique, replies, calls, matching, heard, fault>>
lookupVars == <<busVars, toBus, toClient, followVars>>

Serials == 1..MaxCalls
LookupSerial == 0   \* the call of GetNameOwner

(* The keys of c->remotes. *)
Keys == Owners \cup {Service, BusName, Empty}

LookupInit ==
  /\ owner \in InitialOwners
  /\ rules = {} /\ changes = 0 /\ signals = 0
  /\ called = [x \in Owners |-> {}]
  /\ toBus = <<>> /\ toClient = <<>>
  /\ lookup = FALSE /\ unique = None
  /\ replies = [k \in Keys |-> {}]
  /\ calls = [s \in Serials |-> "unused"]
  /\ matching = FALSE /\ heard = {}
  /\ fault = "none"

-----------------------------------------------------------------------------
(* The client *)

Alive == fault = "none"

(* Mutant: GetNameOwner goes out before the rule. *)
LookupRequests_Late ==
  IF lookup THEN <<>>
  ELSE <<[kind |-> "GetNameOwner"], [kind |-> "AddMatch", rule |-> "owner"]>>

(* What adbusI_lookupService sends the first time: the rule, then the
   question. *)
LookupRequests ==
  IF lookup THEN <<>>
  ELSE <<[kind |-> "AddMatch", rule |-> "owner"], [kind |-> "GetNameOwner"]>>

(* The reply table with the registration of GetNameOwner, the first time. *)
WithLookup ==
  IF lookup THEN replies
  ELSE [replies EXCEPT ![BusName] = @ \cup {LookupSerial}]

(* adbus_conn_addreply: the remote that the reply is registered for. *)
ReplyKey == IF lookup /\ unique # None THEN unique ELSE Service

(* adbus_call_send for a method of the service: the reply is registered,
   which may start the lookup, then the call is sent.  The calls give both
   callbacks. *)
CallService(s) ==
  /\ Alive
  /\ calls[s] = "unused" /\ \A t \in 1..(s - 1) : calls[t] # "unused"
  /\ calls' = [calls EXCEPT ![s] = "waiting"]
  /\ lookup' = TRUE
  /\ replies' = [WithLookup EXCEPT ![ReplyKey] = @ \cup {s}]
  /\ toBus' = toBus \o LookupRequests \o <<[kind |-> "Call", serial |-> s]>>
  /\ UNCHANGED <<busVars, toClient, unique, matching, heard, fault>>

(* adbus_conn_addmatch with the service as the sender.  The rule for the bus
   does not name the sender. *)
MatchService ==
  /\ Alive
  /\ ~matching
  /\ matching' = TRUE
  /\ lookup' = TRUE
  /\ replies' = WithLookup
  /\ toBus' = toBus \o LookupRequests \o <<[kind |-> "AddMatch", rule |-> "signal"]>>
  /\ UNCHANGED <<busVars, toClient, unique, calls, heard, fault>>

(* MoveReplies: from the service name to the owner. *)
MoveReplies(table, to) ==
  [table EXCEPT ![to] = @ \cup table[Service], ![Service] = {}]

Take(kind) ==
  /\ Alive
  /\ toClient # <<>>
  /\ toClient[1].kind = kind
  /\ toClient' = Tail(toClient)

(* Every change is taken over, also one to no owner. *)
NameOwnerChanged ==
  /\ Take("changed")
  /\ unique' = toClient[1].name
  /\ replies' = MoveReplies(replies, toClient[1].name)
  /\ UNCHANGED <<busVars, toBus, lookup, calls, matching, heard, fault>>

(* The reply of GetNameOwner.  Its callback asserts that the owner was not
   known. *)
GetNameOwner ==
  /\ Take("owner")
  /\ LET table == [replies EXCEPT ![BusName] = @ \ {LookupSerial}]
     IN  IF unique = None
         THEN /\ unique' = toClient[1].name
              /\ replies' = MoveReplies(table, toClient[1].name)
              /\ fault' = fault
         ELSE /\ fault' = "assert"
              /\ replies' = table
              /\ UNCHANGED unique
  /\ UNCHANGED <<busVars, toBus, lookup, calls, matching, heard>>

(* The error reply of GetNameOwner.  No error callback was given, and the
   null one is called. *)
GetNameOwnerFails ==
  /\ Take("noowner")
  /\ replies' = [replies EXCEPT ![BusName] = @ \ {LookupSerial}]
  /\ fault' = "null"
  /\ UNCHANGED <<busVars, toBus, lookup, unique, calls, matching, heard>>

(* Mutant: errors are passed over. *)
DispatchReply_Returns(type) ==
  /\ Take(type)
  /\ LET m == toClient[1]
     IN  IF type = "return" /\ m.serial \in replies[m.from]
         THEN /\ replies' = [replies EXCEPT ![m.from] = @ \ {m.serial}]
              /\ calls' = [calls EXCEPT ![m.serial] = "answered"]
         ELSE UNCHANGED <<replies, calls>>
  /\ UNCHANGED <<busVars, toBus, lookup, unique, matching, heard, fault>>

(* adbusI_dispatchReply for a call to the service: looked up by the sender
   and the serial, removed, then handed to the callback for its type. *)
DispatchReply(type) ==
  /\ Take(type)
  /\ LET m == toClient[1]
         found == m.serial \in replies[m.from]
     IN  IF found
         THEN /\ replies' = [replies EXCEPT ![m.from] = @ \ {m.serial}]
              /\ calls' = [calls EXCEPT ![m.serial] = "answered"]
         ELSE UNCHANGED <<replies, calls>>
  /\ UNCHANGED <<busVars, toBus, lookup, unique, matching, heard, fault>>

(* adbusI_dispatchMatch: a lookup without result does not restrict the
   sender. *)
Accepts(from) == unique \in {None, from}

DispatchSignal ==
  /\ Take("signal")
  /\ heard' = heard \cup {[owned |-> toClient[1].owned, accepted |-> Accepts(toClient[1].from)]}
  /\ UNCHANGED <<busVars, toBus, lookup, unique, replies, calls, matching, fault>>

-----------------------------------------------------------------------------
(* The bus, the owners and others on the bus *)

Told(m) == toClient' = Append(toClient, m)

BusStep ==
  /\ toBus # <<>>
  /\ toBus' = Tail(toBus)
  /\ LET m == toBus[1]
     IN  \/ /\ m.kind = "AddMatch"
            /\ rules' = rules \cup {m.rule}
            /\ UNCHANGED <<toClient, called>>
         \/ /\ m.kind = "GetNameOwner"
            /\ Told(IF owner = None THEN [kind |-> "noowner"]
                    ELSE [kind |-> "owner", name |-> owner])
            /\ UNCHANGED <<rules, called>>
         \/ /\ m.kind = "Call"
            /\ called' = IF owner = None THEN called
                         ELSE [called EXCEPT ![owner] = @ \cup {m.serial}]
            /\ UNCHANGED <<rules, toClient>>
  /\ UNCHANGED <<owner, changes, signals, followVars>>

(* The service changes hands. *)
Change(new) ==
  /\ changes < MaxChanges
  /\ new # owner
  /\ owner' = new
  /\ changes' = changes + 1
  /\ IF "owner" \in rules
     THEN Told([kind |-> "changed", name |-> IF new = None THEN Empty ELSE new])
     ELSE UNCHANGED toClient
  /\ UNCHANGED <<rules, called, signals, toBus, followVars>>

Answer(x, s, type) ==
  /\ s \in called[x]
  /\ called' = [called EXCEPT ![x] = @ \ {s}]
  /\ Told([kind |-> type, serial |-> s, from |-> x])
  /\ UNCHANGED <<owner, rules, changes, signals, toBus, followVars>>

Signal(x) ==
  /\ signals < MaxSignals
  /\ "signal" \in rules
  /\ signals' = signals + 1
  /\ Told([kind |-> "signal", from |-> x, owned |-> x = owner])
  /\ UNCHANGED <<owner, rules, called, changes, toBus, followVars>>

TakeMessage ==
  \/ NameOwnerChanged
  \/ GetNameOwner
  \/ GetNameOwnerFails
  \/ \E type \in {"return", "error"} : DispatchReply(type)
  \/ DispatchSignal

LookupNext ==
  \/ \E s \in Serials : CallService(s)
  \/ MatchService
  \/ NameOwnerChanged
  \/ GetNameOwner
  \/ GetNameOwnerFails
  \/ \E type \in {"return", "error"} : DispatchReply(type)
  \/ DispatchSignal
  \/ BusStep
  \/ \E new \in Owners \cup {None} : Change(new)
  \/ \E x \in Owners, s \in Serials, type \in {"return", "error"} : Answer(x, s, type)
  \/ \E x \in Owners : Signal(x)

LookupSpec == LookupInit /\ [][LookupNext]_lookupVars

(* The bus and the client read what is sent to them, and an owner answers
   every call. *)
LookupFairSpec ==
  /\ LookupSpec
  /\ WF_lookupVars(BusStep)
  /\ WF_lookupVars(TakeMessage)
  /\ \A x \in Owners, s \in Serials :
       WF_lookupVars(\E type \in {"return", "error"} : Answer(x, s, type))

-----------------------------------------------------------------------------
(***************************************************************************)
(* Properties                                                              *)
(***************************************************************************)

(* Type correctness of the client. *)
LookupTypeOK ==
  /\ unique \in Owners \cup {Empty, None}
  /\ replies \in [Keys -> SUBSET (Serials \cup {LookupSerial})]
  /\ calls \in [Serials -> {"unused", "waiting", "answered"}]
  /\ heard \subseteq [owned : BOOLEAN, accepted : BOOLEAN]
  /\ lookup \/ (unique = None /\ \A k \in Keys : replies[k] = {})

(* A call is registered for exactly one remote until it is answered, and for
   none afterwards: no callback can run twice, whatever moves the replies. *)
OneRegistration ==
  \A s \in Serials :
    Cardinality({k \in Keys : s \in replies[k]}) = IF calls[s] = "waiting" THEN 1 ELSE 0

(* When nothing is under way, the lookup holds the owner of the service. *)
LookupSettles ==
  lookup /\ Alive /\ toBus = <<>> /\ toClient = <<>> =>
    IF owner = None THEN unique \in {Empty, None} ELSE unique = owner

(* Once the lookup has succeeded, no reply is left under the service name,
   where no message can find it. *)
RepliesMoved == unique # None => replies[Service] = {}

(* The match with the service as its sender takes exactly the signals that the
   owner of the service sent while it owned it, although owners change while
   signals and answers are on the way. *)
SignalsFollowOwner == \A h \in heard : h.accepted = h.owned

(* A service that keeps its owner and answers is heard: every call gets its
   answer, however the calls overlap with the lookup. *)
CallAnswered ==
  \A s \in Serials :
    (calls[s] = "waiting" /\ owner # None /\ changes = 0)
      ~> (calls[s] = "answered" \/ changes # 0)

(* The assertion in the callback of GetNameOwner: the reply finds the lookup
   without a unique name. *)
NoAssertFailure == fault # "assert"

(* While owners change and answers and signals are on their way, a call waits in one
   place where its answer finds it, the lookup ends up with the owner, and a match by
   name takes just the signals of the owner. *)
LookupSound ==
  /\ LookupTypeOK /\ OneRegistration /\ LookupSettles
  /\ RepliesMoved /\ SignalsFollowOwner
=============================================================================
