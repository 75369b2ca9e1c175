----------------------------- MODULE MCBusNames -----------------------------
(***************************************************************************)
(* Instances of BusNames for TLC.                                          *)
(***************************************************************************)
EXTENDS BusNames

AllFlags == SUBSET {"ALLOW_REPLACEMENT", "REPLACE_EXISTING", "DO_NOT_QUEUE"}

(* Clients that neither wait for a name nor take it from its owner. *)
NoQueueFlags == {{"DO_NOT_QUEUE"}, {"DO_NOT_QUEUE", "ALLOW_REPLACEMENT"}}

(* Clients that wait for a name, and never replace. *)
QueueFlags == {{}}

=============================================================================
