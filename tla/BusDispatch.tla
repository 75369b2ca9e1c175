---------------------------- MODULE BusDispatch ----------------------------
(***************************************************************************)
(* Message routing of the bus server (adbus/server-dispatch.c, DispatchMsg *)
(* and FixHeaders of adbus/server-parse.c, the methods of                  *)
(* adbus/server-bus.c).                                                    *)
(*                                                                         *)
(* One action is one message taken from a remote, with everything it       *)
(* causes before the server turns to the next one: delivery to the remotes *)
(* with a matching rule, delivery to the destination, the bus method, its  *)
(* signals and its reply.  Names are requested with DO_NOT_QUEUE only, for *)
(* which module BusNames implements NameOwnership.                         *)
(*                                                                         *)
(* A message is its type and its present fields.  "sender", "destination", *)
(* "member" and "arg0" stand for all fields: the others are compared in    *)
(* the same way.  body is payload that no rule looks at: what the message  *)
(* says about the owners of names.                                         *)
(***************************************************************************)
EXTENDS Integers, Sequences, SequencesExt, FiniteSetsExt, Lists

CONSTANTS
  Remotes,    \* the remotes, the server's own one included
  Bus,        \* busRemote
  Names,      \* well known names
  Rules,      \* the match rules that clients add
  PeerMsgs,   \* the messages that clients send, as they send them
  ReplyFlags, \* whether calls to the bus want a reply: a subset of BOOLEAN
  MaxRules,   \* bound on the rules of one remote
  Fragile,    \* the remotes whose send callback may start to fail
  None        \* NULL

ASSUME BusAssumption == Bus \in Remotes \ Fragile
ASSUME NamesAssumption == Remotes \cap Names = {} /\ None \notin Remotes \cup Names
ASSUME RuleBoundAssumption == MaxRules \in Nat

(* The methods of the bus.  A call of one of them, to the bus or to nobody, is an
   action of its own and none of PeerMsgs. *)
BusMethods ==
  {"Hello", "RequestName", "ReleaseName", "GetNameOwner", "NameHasOwner", "ListNames",
   "AddMatch", "RemoveMatch"}
ASSUME PeerAssumption ==
  \A m \in PeerMsgs :
    /\ DOMAIN m = {"type", "fields", "bad", "body"}
    /\ m.bad \in BOOLEAN
    /\ /\ m.type = "method" /\ "member" \in DOMAIN m.fields
       /\ "destination" \in DOMAIN m.fields => m.fields["destination"] = Bus
       => m.fields["member"] \notin BusMethods

VARIABLES
  bus,     \* the server's tables
  kicked,  \* remotes whose dispatch failed: they wait to be disconnected
  sent,    \* the message the last step took from a remote, or None
  out,     \* what the last step delivered, in order
  view     \* history: the owner each remote was last told, for each name

vars == <<bus, kicked, sent, out, view>>

Unknown == "unknown"

Types == {"method", "return", "error", "signal"}

(***************************************************************************)
(* remotes: s->remotes, newest first.  services[r]: the names r owns, its  *)
(* unique name first.  matches[r]: its rules, newest first.  broken: the   *)
(* remotes whose send callback fails.                                      *)
(***************************************************************************)
Owner(b, n) ==
  IF \E r \in Remotes : n \in ToSet(b.services[r])
  THEN CHOOSE r \in Remotes : n \in ToSet(b.services[r])
  ELSE None

HaveHello(b, r) == r \in ToSet(b.services[r])

-----------------------------------------------------------------------------
(* The type test of RemoteDispatchMatch. *)
TypeMatches(rule, m) == ~(rule.type = "INVALID" /\ rule.type # m.type)

(* StringMatches and ArgsMatch over the fields of a kind. *)
FieldsMatch(rule, m, F) ==
  \A f \in F \cap DOMAIN rule.fields :
    f \in DOMAIN m.fields /\ m.fields[f] = rule.fields[f]

HeaderFields == {"sender", "destination", "member"}
ArgFields == {"arg0"}

HasArgs(rule) == ArgFields \cap DOMAIN rule.fields # {}

(***************************************************************************)
(* RemoteDispatchMatch: the first rule that matches decides.  A rule with  *)
(* arguments needs those of the message, and parsing them can fail.        *)
(***************************************************************************)
RemoteDispatchMatch(b, r, m) ==
  LET rules == b.matches[r]
      hits == {i \in DOMAIN rules :
                 /\ TypeMatches(rules[i], m)
                 /\ FieldsMatch(rules[i], m, HeaderFields)
                 /\ HasArgs(rules[i]) => m.bad \/ FieldsMatch(rules[i], m, ArgFields)}
  IN  IF hits = {} THEN "none"
      ELSE IF m.bad /\ HasArgs(rules[Min(hits)]) THEN "malformed"
      ELSE "send"

(* The remote a message is addressed to. *)
Target(b, m) ==
  IF "destination" \in DOMAIN m.fields THEN Owner(b, m.fields["destination"])
  ELSE IF m.type = "method" THEN Bus
  ELSE None

(* Mutants: the destination is not left out of the round over the rules; a
   send that fails is passed over. *)
serv_dispatch_Twice(b, m) ==
  LET direct == Target(b, m)
      deaf == {r \in Remotes : RemoteDispatchMatch(b, r, m) = "none"}
      tried == Without(b.remotes, deaf)
                 \o (IF direct = None THEN <<>> ELSE <<direct>>)
  IN  [to |-> tried, ok |-> TRUE]

serv_dispatch_Lossy(b, m) ==
  LET direct == Target(b, m)
      deaf == {r \in Remotes : r = direct \/ RemoteDispatchMatch(b, r, m) # "send"}
      tried == Without(b.remotes, deaf)
                 \o (IF direct = None THEN <<>> ELSE <<direct>>)
  IN  [to |-> Without(tried, b.broken), ok |-> TRUE]

(***************************************************************************)
(* adbusI_serv_dispatch: to the remotes with a matching rule, in list      *)
(* order, then to the destination.  The first failure ends it.             *)
(***************************************************************************)
serv_dispatch(b, m) ==
  LET direct == Target(b, m)
      deaf == {r \in Remotes : r = direct \/ RemoteDispatchMatch(b, r, m) = "none"}
      Fails(r) == \/ r \in b.broken
                  \/ r # direct /\ RemoteDispatchMatch(b, r, m) = "malformed"
      tried == Without(b.remotes, deaf)
                 \o (IF direct = None THEN <<>> ELSE <<direct>>)
      failed == {i \in DOMAIN tried : Fails(tried[i])}
  IN  [to |-> SubSeq(tried, 1, IF failed = {} THEN Len(tried) ELSE Min(failed) - 1),
       ok |-> failed = {}]

Delivered(b, m) ==
  LET to == serv_dispatch(b, m).to
  IN  [i \in DOMAIN to |-> [to |-> to[i], msg |-> m]]

(* Mutant: a sender field that is already there is kept. *)
FixHeaders_Keep(r, m) ==
  [m EXCEPT !.fields = [f \in DOMAIN @ \cup {"sender"} |->
                          IF f = "sender" /\ f \notin DOMAIN @ THEN r ELSE @[f]]]

(* FixHeaders: whatever sender the message names, it leaves with the real
   one. *)
FixHeaders(r, m) ==
  [m EXCEPT !.fields = [f \in DOMAIN @ \cup {"sender"} |-> IF f = "sender" THEN r ELSE @[f]]]

(* adbus_sig_emit or adbus_msg_send on the bus connection, one message after
   the other; their failures are not looked at. *)
Emit(b, msgs) ==
  FlattenSeq([i \in DOMAIN msgs |-> Delivered(b, FixHeaders(Bus, msgs[i]))])

-----------------------------------------------------------------------------
(* The messages of the bus. *)
Message(type, fields, body) ==
  [type |-> type, fields |-> fields, bad |-> FALSE, body |-> body]

Told(n, r) == [name |-> n, owner |-> r]

ownerchanged(n, old, new) ==
  <<Message("signal", [member |-> "NameOwnerChanged", arg0 |-> n], {Told(n, new)})>>
  \o (IF old = None THEN <<>>
      ELSE <<Message("signal", [member |-> "NameLost", arg0 |-> n, destination |-> old], {})>>)
  \o (IF new = None THEN <<>>
      ELSE <<Message("signal", [member |-> "NameAcquired", arg0 |-> n, destination |-> new], {})>>)

(* The reply of the bus connection, if the flags of the call ask for one. *)
Reply(type, r, body, wanted) ==
  IF wanted THEN <<Message(type, [destination |-> r], body)>> ELSE <<>>

BusCall(member) == Message("method", [member |-> member, destination |-> Bus], {})

-----------------------------------------------------------------------------
Init ==
  /\ bus = [remotes |-> <<Bus>>,
            services |-> [r \in Remotes |-> IF r = Bus THEN <<Bus>> ELSE <<>>],
            matches |-> [r \in Remotes |-> <<>>],
            broken |-> {}]
  /\ kicked = {}
  /\ sent = None
  /\ out = <<>>
  /\ view = [r \in Remotes |-> [n \in Names |-> Unknown]]

(* Whether remote r has a rule for the NameOwnerChanged of name n. *)
Listening(b, r, n) ==
  RemoteDispatchMatch(b, r,
    FixHeaders(Bus, ownerchanged(n, None, None)[1])) # "none"

(***************************************************************************)
(* What the remotes make of the deliveries: a remote that listens to the   *)
(* owner of n keeps what the bus last told it, in NameOwnerChanged or in   *)
(* the reply of GetNameOwner, NameHasOwner or ListNames.                   *)
(***************************************************************************)
Observe ==
  view' = [r \in Remotes |-> [n \in Names |->
    LET news == {i \in DOMAIN out' :
                   /\ out'[i].to = r
                   /\ out'[i].msg.fields["sender"] = Bus
                   /\ \E told \in out'[i].msg.body : told.name = n}
    IN  IF ~Listening(bus', r, n) THEN Unknown
        ELSE IF news = {} THEN view[r][n]
        ELSE (CHOOSE told \in out'[Max(news)].msg.body : told.name = n).owner]]

(***************************************************************************)
(* DispatchMsg: the message of r is routed; when it reaches the bus, the   *)
(* bus method changes the tables to b2 and sends msgs.  A failure on the   *)
(* way makes the caller of the library drop r.                             *)
(***************************************************************************)
Handle(r, call, b2, msgs) ==
  LET m == FixHeaders(r, call)
      ok == serv_dispatch(bus, m).ok
  IN  /\ bus' = IF ok THEN b2 ELSE bus
      /\ out' = Delivered(bus, m) \o (IF ok THEN Emit(b2, msgs) ELSE <<>>)
      /\ kicked' = IF ok THEN kicked ELSE kicked \cup {r}
      /\ sent' = [from |-> r, msg |-> m]
      /\ Observe

Listed(r) == r \in ToSet(bus.remotes) \ (kicked \cup {Bus})

Ready(r) == Listed(r) /\ HaveHello(bus, r)

Connect(r) ==
  /\ r \notin ToSet(bus.remotes)
  /\ bus' = [bus EXCEPT !.remotes = <<r>> \o @]
  /\ sent' = None
  /\ out' = <<>>
  /\ UNCHANGED <<kicked, view>>

(* The gate of DispatchMsg: before its hello a remote can only say hello. *)
Reject(r) ==
  /\ Listed(r) /\ ~HaveHello(bus, r)
  /\ kicked' = kicked \cup {r}
  /\ sent' = None
  /\ out' = <<>>
  /\ UNCHANGED <<bus, view>>

Hello(r, wanted) ==
  /\ Listed(r) /\ ~HaveHello(bus, r)
  /\ Handle(r, BusCall("Hello"),
            [bus EXCEPT !.services[r] = <<r>>],
            ownerchanged(r, None, r) \o Reply("return", r, {}, wanted))

(* A second hello is answered with an error. *)
HelloAgain(r, wanted) ==
  /\ Ready(r)
  /\ Handle(r, BusCall("Hello"), bus, Reply("error", r, {}, wanted))

(* The three outcomes of RequestName with DO_NOT_QUEUE. *)
RequestName(r, n, wanted) ==
  /\ Ready(r)
  /\ LET free == Owner(bus, n) = None
     IN  Handle(r, BusCall("RequestName"),
                IF free THEN [bus EXCEPT !.services[r] = Append(@, n)] ELSE bus,
                (IF free THEN ownerchanged(n, None, r) ELSE <<>>)
                  \o Reply("return", r, {}, wanted))

ReleaseName(r, n, wanted) ==
  /\ Ready(r)
  /\ LET own == Owner(bus, n) = r
     IN  Handle(r, BusCall("ReleaseName"),
                IF own THEN [bus EXCEPT !.services[r] = RemoveFirst(@, n)] ELSE bus,
                (IF own THEN ownerchanged(n, r, None) ELSE <<>>)
                  \o Reply("return", r, {}, wanted))

GetNameOwner(r, n, wanted) ==
  /\ Ready(r)
  /\ LET type == IF Owner(bus, n) = None THEN "error" ELSE "return"
     IN  Handle(r, BusCall("GetNameOwner"), bus,
                Reply(type, r, {Told(n, Owner(bus, n))}, wanted))

(* NameHasOwner and ListNames tell which names have no owner, and not who owns the
   others. *)
NameHasOwner(r, n, wanted) ==
  /\ Ready(r)
  /\ Handle(r, BusCall("NameHasOwner"), bus,
            Reply("return", r, IF Owner(bus, n) = None THEN {Told(n, None)} ELSE {}, wanted))

ListNames(r, wanted) ==
  /\ Ready(r)
  /\ Handle(r, BusCall("ListNames"), bus,
            Reply("return", r, {Told(n, None) : n \in {n \in Names : Owner(bus, n) = None}}, wanted))

AddMatch(r, rule, wanted) ==
  /\ Ready(r)
  /\ Len(bus.matches[r]) < MaxRules
  /\ Handle(r, BusCall("AddMatch"),
            [bus EXCEPT !.matches[r] = <<rule>> \o @],
            Reply("return", r, {}, wanted))

(* The newest copy of the rule goes; without one the reply is an error. *)
RemoveMatch(r, rule, wanted) ==
  /\ Ready(r)
  /\ LET found == rule \in ToSet(bus.matches[r])
     IN  Handle(r, BusCall("RemoveMatch"),
                [bus EXCEPT !.matches[r] = RemoveFirst(@, rule)],
                Reply(IF found THEN "return" ELSE "error", r, {}, wanted))

(* Any other message.  A method call that ends up at the bus is one the bus
   does not have. *)
Send(r, m, wanted) ==
  /\ Ready(r)
  /\ Handle(r, m, bus,
            IF m.type = "method" /\ Target(bus, m) = Bus
            THEN Reply("error", r, {}, wanted) ELSE <<>>)

(* adbus_remote_disconnect, after a kick or because the peer has gone. *)
Disconnect(r) ==
  /\ r \in ToSet(bus.remotes) \ {Bus}
  /\ LET b2 == [bus EXCEPT !.remotes = RemoveFirst(@, r),
                           !.matches[r] = <<>>,
                           !.services[r] = <<>>,
                           !.broken = @ \ {r}]
         own == bus.services[r]
     IN  /\ bus' = b2
         /\ out' = Emit(b2, FlattenSeq([i \in DOMAIN own |-> ownerchanged(own[i], r, None)]))
  /\ kicked' = kicked \ {r}
  /\ sent' = None
  /\ Observe

(* Environment: the send callback of r starts to fail. *)
Break(r) ==
  /\ r \in (Fragile \cap ToSet(bus.remotes)) \ bus.broken
  /\ bus' = [bus EXCEPT !.broken = @ \cup {r}]
  /\ sent' = None
  /\ out' = <<>>
  /\ UNCHANGED <<kicked, view>>

Next ==
  \E r \in Remotes, wanted \in ReplyFlags :
    \/ Connect(r)
    \/ Reject(r)
    \/ \E m \in PeerMsgs : Send(r, m, wanted)
    \/ Hello(r, wanted)
    \/ HelloAgain(r, wanted)
    \/ \E n \in Names :
         \/ RequestName(r, n, wanted)
         \/ ReleaseName(r, n, wanted)
         \/ GetNameOwner(r, n, wanted) \/ NameHasOwner(r, n, wanted)
    \/ ListNames(r, wanted)
    \/ \E rule \in Rules : AddMatch(r, rule, wanted) \/ RemoveMatch(r, rule, wanted)
    \/ Disconnect(r)
    \/ Break(r)

Spec == Init /\ [][Next]_vars

-----------------------------------------------------------------------------
(***************************************************************************)
(* Properties                                                              *)
(***************************************************************************)

(* Type correctness of the tables, the bound on rules, and every name in the
   list of one remote at most. *)
TypeOK ==
  /\ ToSet(bus.remotes) \subseteq Remotes /\ Bus \in ToSet(bus.remotes)
  /\ \A r \in Remotes :
       /\ ToSet(bus.services[r]) \subseteq Names \cup {r}
       /\ ToSet(bus.matches[r]) \subseteq Rules
       /\ Len(bus.matches[r]) <= MaxRules
  /\ \A q, r \in Remotes : q # r => ToSet(bus.services[q]) \cap ToSet(bus.services[r]) = {}
  /\ bus.broken \subseteq Fragile
  /\ kicked \subseteq ToSet(bus.remotes)
  /\ view \in [Remotes -> [Names -> Remotes \cup {None, Unknown}]]

(* A remote takes part in the traffic only between its hello and its end:
   before and after that nothing reaches it, and nothing of what it sends
   reaches anyone, except the hello itself. *)
Introduced ==
  \A i \in DOMAIN out :
    LET sender == out[i].msg.fields["sender"]
    IN  /\ HaveHello(bus, out[i].to)
        /\ HaveHello(bus, sender) \/ out[i].msg = FixHeaders(sender, BusCall("Hello"))

(* However many of its rules match, and even when it is the destination too,
   a remote gets a message once. *)
AtMostOnce ==
  \A i, j \in DOMAIN out :
    out[i].to = out[j].to /\ out[i].msg = out[j].msg => i = j

(* A remote that has a rule for the NameOwnerChanged of a name and has been
   told its owner once, by that signal or by a reply of the bus, knows the owner
   from then on, whatever others request, release, send or forge. *)
ViewCurrent ==
  \A r \in Remotes, n \in Names :
    view[r][n] # Unknown => view[r][n] = Owner(bus, n)

(* The remotes that a message should reach. *)
Due(b, m) ==
  {q \in ToSet(b.remotes) :
     \/ q = Target(b, m)
     \/ \E rule \in ToSet(b.matches[q]) :
          TypeMatches(rule, m) /\ FieldsMatch(rule, m, HeaderFields \cup ArgFields)}

(* The last step routed a message that is not for the bus: it has left the
   tables as they are. *)
PeerSent ==
  sent # None /\ \E m \in PeerMsgs : sent.msg = FixHeaders(sent.from, m)

Got(q) == \E i \in DOMAIN out : out[i].to = q /\ out[i].msg = sent.msg

(* A message of a client reaches everyone it should reach, or its sender is
   dropped: dispatch never loses a message silently. *)
NoSilentLoss ==
  PeerSent => sent.from \in kicked \/ \A q \in Due(bus, sent.msg) : Got(q)

(* The type of a rule is checked if it is not ADBUS_MSG_INVALID: a message
   that is not addressed to a remote reaches it exactly when one of its rules
   has no type or the message's type, and matches the rest. *)
TypeChecked ==
  PeerSent /\ sent.from \notin kicked =>
    \A q \in ToSet(bus.remotes) \ {Target(bus, sent.msg)} :
      Got(q) <=> \E rule \in ToSet(bus.matches[q]) :
                   /\ rule.type # "INVALID" => rule.type = sent.msg.type
                   /\ FieldsMatch(rule, sent.msg, HeaderFields \cup ArgFields)

(* The tables keep their types, only introduced remotes take part in the traffic, and
   nobody gets a message twice (adbusI_dispatch). *)
TrafficSound == TypeOK /\ Introduced /\ AtMostOnce
=============================================================================
