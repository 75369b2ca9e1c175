------------------------------- MODULE Rules -------------------------------
(***************************************************************************)
(* Match rules as text: the client writes a match as a rule for the bus    *)
(* (adbusI_matchString of adbus/misc.c), the bus reads it                  *)
(* (adbusI_serv_newmatch of adbus/server.c), and both match the arguments  *)
(* of messages with it (adbus_parseargs of adbus/parse.c, ArgsMatch of     *)
(* adbus/match.c and adbus/server-dispatch.c).                             *)
(*                                                                         *)
(* A rule is a sequence of tokens; a key or a value is one token.          *)
(***************************************************************************)
EXTENDS Integers, Sequences, SequencesExt, FiniteSets

CONSTANTS
  RuleTypes,   \* the types that a client may ask for
  RuleValues,  \* values of fields and arguments
  RuleFields,  \* the fields that a client may ask for
  WellKnown,   \* the senders that adbusI_lookupService follows: not unique names, nor the bus
  PathAs,      \* what adbusI_relativePath makes of a path
  ArgKeys,     \* the keys of arguments, in order: arg0 to arg63
  OtherKeys,   \* the keys in rules that another program writes
  MaxPairs,    \* bound on the pairs of such a rule
  Absent       \* NULL

VARIABLES
  rule,    \* the text of a rule
  pairs,   \* history: the pairs of key and value in it
  asked,   \* history: the match that the client asked for, if it is a client's
  kept,    \* the bus's match, or Absent
  argMsg,  \* the message that is compared: its arguments, of which strings are
           \* told apart, or Absent for one without a signature
  result   \* what the comparison came to

ruleVars == <<rule, pairs, asked, kept, argMsg, result>>

StringKeys == <<"sender", "interface", "member", "path", "destination">>
Comma == ","
KnownTypes == {"signal", "method_call", "method_return", "error"}

(* A match; args is as long as its last argument. *)
NoMatch == [type |-> Absent, fields |-> [k \in ToSet(StringKeys) |-> Absent], args |-> <<>>]

Matches ==
  [type : RuleTypes \cup {Absent}, fields : RuleFields,
   args : UNION {[1..n -> RuleValues \cup {Absent}] : n \in 0..Len(ArgKeys)}]

(* The arguments of a message. *)
ArgSeqs == UNION {[1..n -> [t : {"s"}, v : RuleValues] \cup {[t |-> "u", v |-> "number"]}] : n \in 0..Len(ArgKeys)}

(* The values that are read; a value is one token, so it is not the quote that ends
   it, nor the comma behind that. *)
TextValues == RuleValues \cup RuleTypes \cup {"signal"}

(* NULL is nothing else.  Keys have no '=' in them, and those of arguments are
   different. *)
ASSUME RulesAssumption ==
  /\ MaxPairs \in Nat /\ RuleTypes \subseteq KnownTypes
  /\ RuleFields \subseteq [ToSet(StringKeys) -> RuleValues \cup {Absent}]
  /\ WellKnown \subseteq RuleValues /\ PathAs \in [RuleValues -> RuleValues]
  /\ Absent \notin TextValues /\ "'" \notin TextValues /\ Comma \notin TextValues
  /\ Absent \notin [type : TextValues \cup {Absent},
                    fields : [ToSet(StringKeys) -> TextValues \cup {Absent}],
                    args : Seq(TextValues \cup {Absent})]
  /\ Absent \notin ArgSeqs
  /\ ArgKeys \in Seq(STRING) /\ "=" \notin ToSet(ArgKeys) \cup OtherKeys
  /\ \A i, j \in DOMAIN ArgKeys : ArgKeys[i] = ArgKeys[j] => i = j
  /\ ToSet(ArgKeys) \cap ({"type"} \cup ToSet(StringKeys)) = {}

RulesInit ==
  /\ rule = <<>> /\ pairs = <<>> /\ asked = Absent /\ kept = NoMatch
  /\ argMsg = Absent /\ result = "none"

-----------------------------------------------------------------------------
(* Writing *)

Pair(key, val) == <<key, "=", "'", val, "'", Comma>>

(* The pairs of the fields that are set. *)
FieldPairs(keys, vals) ==
  FlattenSeq([i \in DOMAIN keys |-> IF vals[i] = Absent THEN <<>> ELSE Pair(keys[i], vals[i])])

(* Mutant: arguments are numbered from those that are given. *)
matchString_Dense(mt) ==
  LET given == SelectSeq(mt.args, LAMBDA a : a # Absent)
      all == (IF mt.type = Absent THEN <<>> ELSE Pair("type", mt.type))
               \o FieldPairs(StringKeys, [i \in DOMAIN StringKeys |-> mt.fields[StringKeys[i]]])
               \o FieldPairs(SubSeq(ArgKeys, 1, Len(given)), given)
  IN  IF all = <<>> THEN <<>> ELSE Front(all)

(* What adbus_conn_addmatch keeps of a field: a path is sanitised, and a sender whose
   service is looked up is left out, for the owner of the name may change. *)
ClonedField(k, val) ==
  IF k = "path" /\ val # Absent THEN PathAs[val]
  ELSE IF k = "sender" /\ val \in WellKnown THEN Absent
  ELSE val

(* CloneMatch, and the sender of adbus_conn_addmatch *)
CloneMatch(mt) ==
  [type |-> mt.type, fields |-> [k \in ToSet(StringKeys) |-> ClonedField(k, mt.fields[k])], args |-> mt.args]

(* adbusI_matchString; the comma at the end is removed. *)
matchString(mt) ==
  LET all == (IF mt.type = Absent THEN <<>> ELSE Pair("type", mt.type))
               \o FieldPairs(StringKeys, [i \in DOMAIN StringKeys |-> mt.fields[StringKeys[i]]])
               \o FieldPairs(SubSeq(ArgKeys, 1, Len(mt.args)), mt.args)
  IN  IF all = <<>> THEN <<>> ELSE Front(all)

-----------------------------------------------------------------------------
(* Reading *)

(* IsArgKey: the number of an argument, counted from 1 here, or 0. *)
IsArgKey(key) == IF key \in ToSet(ArgKeys) THEN CHOOSE i \in DOMAIN ArgKeys : ArgKeys[i] = key ELSE 0

(* The vector of arguments is filled up to the number with empty ones. *)
WithArg(args, n, val) ==
  [i \in 1..(IF n > Len(args) THEN n ELSE Len(args)) |->
     IF i = n THEN val ELSE IF i <= Len(args) THEN args[i] ELSE Absent]

(* What one pair does to the match; a key that is not known does nothing. *)
TakePair(mt, key, val) ==
  IF key = "type" THEN [mt EXCEPT !.type = val]
  ELSE IF key \in ToSet(StringKeys) THEN [mt EXCEPT !.fields[key] = val]
  ELSE IF IsArgKey(key) > 0 THEN [mt EXCEPT !.args = WithArg(@, IsArgKey(key), val)]
  ELSE mt

(* A turn of the loop of adbusI_serv_newmatch, from the token at: "key='value'", and
   then a comma or the end.  Absent stands for a rule that is refused. *)
ReadPair(text, r) ==
  LET eqs == {i \in r.at..Len(text) : text[i] = "="}
      eq == Min(eqs)
      quotes == {i \in (eq + 2)..Len(text) : text[i] = "'"}
      quote == Min(quotes)
      key == SubSeq(text, r.at, eq - 1)
      val == SubSeq(text, eq + 2, quote - 1)
  IN  IF r.match = Absent \/ r.at > Len(text) THEN r
      ELSE IF \/ eqs = {} \/ eq + 1 > Len(text) \/ text[eq + 1] # "'"
              \/ quotes = {} \/ (quote # Len(text) /\ text[quote + 1] # Comma)
              \/ key = <<"type">> /\ (Len(val) # 1 \/ val[1] \notin KnownTypes)
      THEN [at |-> r.at, match |-> Absent]
      ELSE [at |-> quote + 2,
            match |-> IF Len(key) = 1 /\ Len(val) = 1 THEN TakePair(r.match, key[1], val[1])
                      ELSE r.match]

(* adbusI_serv_newmatch *)
newmatch(text) ==
  LET After[k \in 0..Len(text)] ==
        IF k = 0 THEN [at |-> 1, match |-> NoMatch] ELSE ReadPair(text, After[k - 1])
  IN  After[Len(text)].match

-----------------------------------------------------------------------------
(* Matching arguments *)

(* adbus_parseargs: strings have values.  It asserts that there is a signature,
   and reads it. *)
parseargs(msg) == [i \in DOMAIN msg |-> IF msg[i].t = "s" THEN msg[i].v ELSE Absent]

(* ArgsMatch, which the client and the bus each have *)
ArgsMatch(mt, args) ==
  /\ Len(args) >= Len(mt.args)
  /\ \A i \in DOMAIN mt.args : mt.args[i] # Absent => args[i] = mt.args[i]

-----------------------------------------------------------------------------
(* Steps *)

(* A client adds a match to the bus. *)
ClientWrites ==
  /\ rule = <<>> /\ asked = Absent
  /\ \E mt \in Matches :
       /\ asked' = mt
       /\ rule' = matchString(CloneMatch(mt))
       /\ kept' = newmatch(rule')
  /\ UNCHANGED <<pairs, argMsg, result>>

(* Another program writes a rule: pairs in any order, also repeated, with unknown
   keys, a comma at the end, or a value without its quote. *)
OtherWrites(key, val, end) ==
  /\ asked = Absent /\ Len(pairs) < MaxPairs
  /\ rule # <<>> => Last(rule) = Comma
  /\ rule' = rule \o <<key, "=", "'", val>> \o end
  /\ pairs' = Append(pairs, [key |-> key, val |-> val, ok |-> end # <<>>])
  /\ kept' = newmatch(rule')
  /\ UNCHANGED <<asked, argMsg, result>>

(* A message whose other fields fit the match is compared. *)
Compare(msg) ==
  /\ kept # Absent /\ kept.args # <<>> /\ result = "none"
  /\ argMsg' = msg
  /\ result' = IF msg = Absent THEN "broken"
               ELSE IF ArgsMatch(kept, parseargs(msg)) THEN "match" ELSE "no match"
  /\ UNCHANGED <<rule, pairs, asked, kept>>

RulesNext ==
  \/ ClientWrites
  \/ \E key \in OtherKeys, val \in RuleValues \cup {"signal"}, end \in {<<>>, <<"'">>, <<"'", Comma>>} :
       OtherWrites(key, val, end)
  \/ \E msg \in ArgSeqs : Compare(msg)

(* The steps of RulesNext, and messages that have no arguments. *)
AnyArgsNext == RulesNext \/ Compare(Absent)

-----------------------------------------------------------------------------
(* Properties *)

(* The bus keeps the match that the client asked for: type, fields and arguments
   at the places they had (adbusI_matchString, adbusI_serv_newmatch), but for
   arguments left open at the end.  The path is the sanitised one, and a sender that
   is a well-known name is not in the rule (adbus_conn_addmatch): the bus then lets
   the signals of every sender through, and the client tells them apart. *)
RuleKept ==
  LET trimmed(args) == {<<i, args[i]>> : i \in {i \in DOMAIN args : args[i] # Absent}}
  IN  asked # Absent =>
        /\ kept # Absent /\ kept.type = asked.type
        /\ \A k \in {"interface", "member", "destination"} : kept.fields[k] = asked.fields[k]
        /\ asked.fields["path"] = Absent => kept.fields["path"] = Absent
        /\ asked.fields["path"] # Absent => kept.fields["path"] = PathAs[asked.fields["path"]]
        /\ asked.fields["sender"] \in WellKnown => kept.fields["sender"] = Absent
        /\ asked.fields["sender"] \notin WellKnown => kept.fields["sender"] = asked.fields["sender"]
        /\ trimmed(kept.args) = trimmed(asked.args)

(* A rule in any other form is refused, or has the last value of each key: pairs
   in a different order, repeated keys or unknown ones do not change the rest. *)
RuleRead ==
  LET bad == \E i \in DOMAIN pairs : ~pairs[i].ok \/ (pairs[i].key = "type" /\ pairs[i].val \notin KnownTypes)
      last(key) ==
        LET at == {i \in DOMAIN pairs : pairs[i].key = key}
        IN  IF at = {} THEN Absent ELSE pairs[Max(at)].val
  IN  asked = Absent /\ pairs # <<>> =>
        IF bad THEN kept = Absent
        ELSE /\ kept # Absent /\ kept.type = last("type")
             /\ \A k \in ToSet(StringKeys) : kept.fields[k] = last(k)
             /\ \A i \in DOMAIN ArgKeys :
                  (IF i <= Len(kept.args) THEN kept.args[i] ELSE Absent) = last(ArgKeys[i])

(* A message fits the arguments that were asked for exactly if it has a string
   equal to each of them in its place, and as many arguments as the rule reaches
   to. *)
ArgumentsFit ==
  result \in {"match", "no match"} /\ asked # Absent =>
    (result = "match" <=>
       \A i \in DOMAIN asked.args :
         asked.args[i] # Absent => i \in DOMAIN argMsg /\ argMsg[i] = [t |-> "s", v |-> asked.args[i]])

(* The assertion of adbus_parseargs: a message whose arguments are looked at has a
   signature. *)
SignatureThere == result # "broken"

(* A rule that a client makes is the rule that the bus applies, but for the sender, and
   its arguments are compared with those of the message. *)
RulesSound == RuleKept /\ RuleRead /\ ArgumentsFit
=============================================================================
