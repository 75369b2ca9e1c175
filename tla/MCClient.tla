------------------------------ MODULE MCClient ------------------------------
(***************************************************************************)
(* The parts of the client library, checked side by side: in a behaviour   *)
(* one of them runs and the others keep their initial states.              *)
(***************************************************************************)
EXTENDS ClientConn, ObjectTree, StateTracker, ServiceLookup, TLC

CONSTANTS m1, m2, m3, r1, r2, b1,   \* matches, replies and a bind
          d1, d2, d3,               \* services of a state
          pa, pb, pc, pd            \* object paths

VARIABLE part  \* the part that runs

mcVars == <<part, ccVars, treeVars, stateVars, lookupVars>>

(* m1 asks for a second argument of a member's signals, the others for the
   answer to a serial. *)
MCMatchOf ==
  [m \in MatchIds |->
     IF m = m1
     THEN [type |-> "signal", serial |-> Unset, sender |-> "a", member |-> "M",
           args |-> <<Unset, "x">>]
     ELSE [type |-> Unset, serial |-> 1, sender |-> Unset, member |-> Unset,
           args |-> Unset]]

(* The second reply has no error callback. *)
MCReplyOf ==
  [r \in ReplyIds |-> [remote |-> "a", serial |-> IF r = r1 THEN 1 ELSE 2, error |-> r = r1]]

MCReleases == [s \in Services |-> IF s = r2 THEN 0 ELSE IF s = m2 THEN 2 ELSE 1]

MCMessage(type, flags, to, serial, args) ==
  [type |-> type, flags |-> flags, to |-> to, serial |-> serial, sender |-> "a",
   member |-> "M", args |-> args, parses |-> args # <<"z", "z">>]

(* Calls to the bind and to nothing, answers to both replies, signals with
   arguments that do and do not parse. *)
MCIncoming ==
  { MCMessage("method", {}, BindIds, Unset, <<>>),
    MCMessage("method", {"noreply"}, {}, Unset, <<>>),
    MCMessage("return", {}, {}, 1, <<"y">>),
    MCMessage("error", {}, {}, 1, <<>>),
    MCMessage("error", {}, {}, 2, <<>>),
    MCMessage("signal", {}, {}, Unset, <<Unset, "x">>),
    MCMessage("signal", {}, {}, Unset, <<"z", "z">>) }

(* /, /a, /b, /a/c and /a/d *)
MCParent == [p \in Paths \ {Root} |-> IF p \in {pc, pd} THEN pa ELSE Root]

MCDataKind == [d \in Tracked |-> IF d = d1 THEN "bind" ELSE IF d = d2 THEN "match" ELSE "reply"]

Init ==
  /\ part \in {"connection", "release", "objects", "state", "lookup"}
  /\ ClientInit /\ TreeInit /\ StateInit /\ LookupInit
  /\ part # "state" => proxied = (CHOOSE t \in Threaded : TRUE)
  /\ part # "lookup" => owner = (CHOOSE x \in InitialOwners : TRUE)

(* One part runs. *)
Runs(p) == part = p /\ UNCHANGED part

(* Two matches, two replies and a bind; callbacks remove services one level less
   deep than where the connection is freed. *)
ConnectionRuns ==
  /\ Runs("connection") /\ ClientNext
  /\ status'[m3] = "unused" /\ (UserRuns => Len(stack') < MaxDepth)
  /\ UNCHANGED <<treeVars, stateVars, lookupVars>>
(* Three matches, so that a walk can be cut with one behind, and no messages. *)
ReleaseRuns ==
  /\ Runs("release") /\ ClientNext
  /\ last' = NoMessage /\ \A s \in ReplyIds \cup BindIds : status'[s] = "unused"
  /\ UNCHANGED <<treeVars, stateVars, lookupVars>>
ObjectsRun ==
  /\ Runs("objects") /\ TreeNext
  /\ UNCHANGED <<ccVars, stateVars, lookupVars>>
StateRuns ==
  /\ Runs("state") /\ StateNext
  /\ UNCHANGED <<ccVars, treeVars, lookupVars>>
LookupRuns ==
  /\ Runs("lookup") /\ LookupNext
  /\ UNCHANGED <<ccVars, treeVars, stateVars>>

Next == ConnectionRuns \/ ReleaseRuns \/ ObjectsRun \/ StateRuns \/ LookupRuns

(* The fairness of each part while it runs. *)
Spec ==
  /\ Init /\ [][Next]_mcVars
  /\ WF_ccVars(part \in {"connection", "release"} /\ LibraryStep)
  /\ WF_treeVars(part = "objects" /\ TreeStep)
  /\ WF_stateVars(part = "state" /\ StateStep)
  /\ WF_lookupVars(part = "lookup" /\ BusStep)
  /\ WF_lookupVars(part = "lookup" /\ TakeMessage)
  /\ \A x \in Owners, s \in Serials :
       WF_lookupVars(part = "lookup" /\ \E type \in {"return", "error"} : Answer(x, s, type))

(* The library comes back: a dispatch, the freeing of a connection, and the walk up and
   down the object tree of a bind end. *)
CallbacksReturn == LibraryReturns /\ TreeSettles
=============================================================================
