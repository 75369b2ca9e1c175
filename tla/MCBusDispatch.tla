--------------------------- MODULE MCBusDispatch ---------------------------
(***************************************************************************)
(* Instances of BusDispatch for TLC.                                       *)
(***************************************************************************)
EXTENDS BusDispatch, TLC

(* The rule a client of the library adds to follow the owner of a name, and
   one for the calls to the bus. *)
OwnerRules ==
  {[type |-> "signal",
    fields |-> "sender" :> Bus @@ "member" :> "NameOwnerChanged" @@ "arg0" :> n]
     : n \in Names}
CallRules == {[type |-> "method", fields |-> "destination" :> Bus]}

(* Rules with and without arguments for the signal Ping, and one for
   everything sent to a name. *)
PingRules ==
  {[type |-> "signal", fields |-> "member" :> "Ping"],
   [type |-> "signal", fields |-> "member" :> "Ping" @@ "arg0" :> "x"]}
NameRules == {[type |-> "method", fields |-> "destination" :> n] : n \in Names}

(* A rule without a type. *)
UntypedRules == {[type |-> "INVALID", fields |-> "member" :> "Ping"]}

FollowRules == OwnerRules \cup CallRules
TrafficRules == PingRules \cup NameRules

Ping == [type |-> "signal", fields |-> "member" :> "Ping" @@ "arg0" :> "x",
         bad |-> FALSE, body |-> {}]

(* A forged NameOwnerChanged, with and without the bus as its sender. *)
ForgedMsgs ==
  {[type |-> "signal", bad |-> FALSE, body |-> {Told(n, None)},
    fields |-> "sender" :> Bus @@ "member" :> "NameOwnerChanged" @@ "arg0" :> n]
     : n \in Names}

(* A signal, one with malformed arguments, a call to a name, and a call
   without destination. *)
TrafficMsgs ==
  {Ping, [Ping EXCEPT !.bad = TRUE],
   [type |-> "method", fields |-> "member" :> "Ping", bad |-> FALSE, body |-> {}]}
  \cup {[type |-> "method", bad |-> FALSE, body |-> {},
         fields |-> "member" :> "Call" @@ "destination" :> n] : n \in Names}

PingOnly == {Ping}

Symmetry == Permutations(Remotes \ {Bus})
=============================================================================
