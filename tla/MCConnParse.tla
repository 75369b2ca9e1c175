---------------------------- MODULE MCConnParse ----------------------------
(***************************************************************************)
(* Instances of ConnParse for TLC.                                         *)
(***************************************************************************)
EXTENDS ConnParse

Field(size) == [sender |-> FALSE, size |-> size]

(* The server appends the sender to every message it sends: 13 to 16 bytes
   for the unique names :1.0 to :1.9999, 17 bytes from :1.10000 on. *)
ShortSender == [sender |-> TRUE, size |-> 4]
LongSender == [sender |-> TRUE, size |-> 5]

ShortFields == {<<ShortSender>>, <<Field(3), ShortSender>>, <<Field(2), ShortSender>>}
LongFields == ShortFields \cup {<<Field(3), LongSender>>}
=============================================================================
