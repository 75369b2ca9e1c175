-------------------------------- MODULE Auth --------------------------------
(***************************************************************************)
(* The authentication handshake (adbus/auth.c) between adbus_sock_cauth of *)
(* adbus/socket.c and the loop of a server that runs adbus_auth_parse and  *)
(* then adbus_remote_parse on the same receive buffer                      *)
(* (example/bus-epoll/main.c).                                             *)
(*                                                                         *)
(* Either side may also be some other program that sends any sequence of   *)
(* lines.  A line is its command; identities, cookies and their encodings  *)
(* are left out, and so is a line that has arrived only in part: it stays  *)
(* in the buffer.                                                          *)
(***************************************************************************)
EXTENDS Integers, Sequences, SequencesExt

CONSTANTS
  Offered,   \* whether the server offers EXTERNAL: a subset of BOOLEAN
  Verdicts,  \* the answers of the server's external callback: same
  MaxLines,  \* bound on the lines of some other program
  MaxPosts    \* bound on the messages of the client after the handshake

ASSUME LinesAssumption == MaxLines \in Nat /\ MaxPosts \in Nat
ASSUME AnswersAssumption == Offered \subseteq BOOLEAN /\ Verdicts \subseteq BOOLEAN

VARIABLES
  clientIs, serverIs,  \* who they are: "adbus" or "other"
  toServer,        \* bytes on the way, as lines and messages
  toClient,
  pending,             \* the server's receive buffer
  phase,           \* the server: "null byte", "auth", "remote", "gone"
  external,        \* the server's a->external
  okSent,          \* the server's a->okSent
  cauth,               \* the client: "idle", "auth", "done", "failed"
  tried,           \* the client: the mechanisms that are in BEGIN
  lines,           \* lines sent by some other program
  posted,          \* messages sent by the client
  parsed,          \* messages given to adbus_remote_parse
  granted,         \* history: the callback has accepted, no rejection since
  misread          \* history: adbus_auth_line was given bytes of a message

sauthVars == <<phase, external, okSent, parsed, granted, misread>>
cauthVars == <<cauth, tried, posted>>
authVars == <<clientIs, serverIs, toServer, toClient, pending, sauthVars, cauthVars, lines>>

(* What a client can send: commands with the distinctions that the server
   makes.  OTHER is any line the server has no branch for, AUTH without
   mechanism and DATA included. *)
ClientLines ==
  {"NUL", "AUTH EXTERNAL", "AUTH COOKIE", "AUTH NODATA", "CANCEL", "BEGIN", "ERROR", "OTHER"}
ServerLines == {"OK", "REJECTED", "DATA", "ERROR", "OTHER"}

AuthInit ==
  /\ clientIs \in {"adbus", "other"} /\ serverIs \in {"adbus", "other"}
  /\ clientIs = "adbus" \/ serverIs = "adbus"
  /\ toServer = <<>> /\ toClient = <<>> /\ pending = <<>>
  /\ phase = "null byte"
  /\ \E offered \in Offered : external = IF offered THEN "NOT_TRIED" ELSE "NOT_SUPPORTED"
  /\ okSent = FALSE
  /\ cauth = "idle" /\ tried = {}
  /\ lines = 0 /\ posted = 0 /\ parsed = 0
  /\ granted = FALSE /\ misread = FALSE

-----------------------------------------------------------------------------
(* The server *)

(* RemoteRecv reads what has arrived, then works until the buffer is empty. *)
AuthReceive ==
  /\ serverIs = "adbus" /\ phase # "gone"
  /\ pending = <<>>
  /\ \E k \in 1..Len(toServer) :
       /\ pending' = SubSeq(toServer, 1, k)
       /\ toServer' = SubSeq(toServer, k + 1, Len(toServer))
  /\ UNCHANGED <<clientIs, serverIs, toClient, sauthVars, cauthVars, lines>>

DropClient == phase' = "gone" /\ pending' = <<>>

NullByte ==
  /\ pending # <<>> /\ phase = "null byte"
  /\ IF pending[1] = "NUL" THEN phase' = "auth" /\ pending' = Tail(pending) ELSE DropClient
  /\ UNCHANGED <<clientIs, serverIs, toServer, toClient, external, okSent, parsed,
                 granted, misread, cauthVars, lines>>

(* adbus_auth_parse takes the next line, which is one of those. *)
TakeLine(cmds) ==
  /\ pending # <<>> /\ phase = "auth"
  /\ pending[1] \in cmds
  /\ pending' = Tail(pending)

SendLine(line) == toClient' = Append(toClient, line)

(* Mutant: okSent survives. *)
ServerReset_Keep ==
  /\ granted' = FALSE
  /\ okSent' = okSent
  /\ SendLine("REJECTED")

ServerReset ==
  /\ granted' = FALSE
  /\ okSent' = FALSE
  /\ SendLine("REJECTED")

ServerOk ==
  /\ granted' = TRUE
  /\ okSent' = TRUE
  /\ SendLine("OK")

(* ServerAuth and ServerExternalInit: EXTERNAL gets one chance. *)
AuthExternal(accepted) ==
  /\ TakeLine({"AUTH EXTERNAL"})
  /\ external = "NOT_TRIED"
  /\ external' = "BEGIN"
  /\ IF accepted THEN ServerOk ELSE ServerReset
  /\ UNCHANGED <<clientIs, serverIs, toServer, phase, parsed, misread, cauthVars, lines>>

AuthRefused ==
  /\ \/ TakeLine({"AUTH EXTERNAL"}) /\ external # "NOT_TRIED"
     \/ TakeLine({"AUTH COOKIE"})
  /\ ServerReset
  /\ UNCHANGED <<clientIs, serverIs, toServer, phase, external, parsed, misread, cauthVars, lines>>

Cancel ==
  /\ TakeLine({"CANCEL"})
  /\ ServerReset
  /\ UNCHANGED <<clientIs, serverIs, toServer, phase, external, parsed, misread, cauthVars, lines>>

(* The handshake has succeeded: what follows in the buffer is for the remote
   that is now connected. *)
BeginLine ==
  /\ TakeLine({"BEGIN"})
  /\ okSent
  /\ phase' = "remote"
  /\ UNCHANGED <<clientIs, serverIs, toServer, toClient, external, okSent, parsed,
                 granted, misread, cauthVars, lines>>

ErrorLine ==
  /\ pending # <<>> /\ phase = "auth"
  /\ pending[1] = "ERROR"
  /\ DropClient
  /\ UNCHANGED <<clientIs, serverIs, toServer, toClient, external, okSent, parsed,
                 granted, misread, cauthVars, lines>>

(* The last branch of adbus_auth_line, and the one for AUTH without data. *)
UnknownLine ==
  /\ \/ TakeLine({"AUTH NODATA", "OTHER", "NUL", "MESSAGE"})
     \/ TakeLine({"BEGIN"}) /\ ~okSent
  /\ SendLine("ERROR")
  /\ misread' = (misread \/ pending[1] = "MESSAGE")
  /\ UNCHANGED <<clientIs, serverIs, toServer, phase, external, okSent, parsed,
                 granted, cauthVars, lines>>

(* adbus_remote_parse takes the whole buffer; lines are no messages. *)
RemoteBytes ==
  /\ pending # <<>> /\ phase = "remote"
  /\ IF ToSet(pending) = {"MESSAGE"}
     THEN parsed' = parsed + Len(pending) /\ pending' = <<>> /\ UNCHANGED phase
     ELSE DropClient /\ UNCHANGED parsed
  /\ UNCHANGED <<clientIs, serverIs, toServer, toClient, external, okSent,
                 granted, misread, cauthVars, lines>>

-----------------------------------------------------------------------------
(* The client *)

(* adbus_sock_cauth: the null byte, and ClientReset for the first time. *)
StartAuth ==
  /\ clientIs = "adbus" /\ cauth = "idle"
  /\ cauth' = "auth"
  /\ tried' = {"EXTERNAL"}
  /\ toServer' = toServer \o <<"NUL", "AUTH EXTERNAL">>
  /\ UNCHANGED <<clientIs, serverIs, toClient, pending, sauthVars, posted, lines>>

(* The client takes the next line, which is one of those.  When the server
   closes the connection, recv returns 0 and the loop goes on. *)
TakeAnswer(answers) ==
  /\ clientIs = "adbus" /\ cauth = "auth"
  /\ toClient # <<>> /\ toClient[1] \in answers
  /\ toClient' = Tail(toClient)
  /\ UNCHANGED <<clientIs, serverIs, pending, sauthVars, posted, lines>>

ClientOk ==
  /\ TakeAnswer({"OK"})
  /\ cauth' = "done"
  /\ toServer' = Append(toServer, "BEGIN")
  /\ UNCHANGED tried

(* ClientReset: EXTERNAL has been tried, then the cookie, then it is over. *)
ClientReset ==
  /\ TakeAnswer({"REJECTED"})
  /\ IF "COOKIE" \notin tried
     THEN /\ tried' = tried \cup {"COOKIE"}
          /\ toServer' = Append(toServer, "AUTH COOKIE")
          /\ UNCHANGED cauth
     ELSE /\ cauth' = "failed"
          /\ UNCHANGED <<tried, toServer>>

(* ClientCookie answers with DATA, or fails when it cannot find the cookie.
   DATA has a callback only while the cookie is tried. *)
ClientCookie(found) ==
  /\ TakeAnswer({"DATA"})
  /\ "COOKIE" \in tried
  /\ cauth' = IF found THEN cauth ELSE "failed"
  /\ toServer' = IF found THEN Append(toServer, "OTHER") ELSE toServer
  /\ UNCHANGED tried

ClientError ==
  /\ TakeAnswer({"ERROR"})
  /\ cauth' = "failed"
  /\ UNCHANGED <<toServer, tried>>

ClientUnknown ==
  /\ TakeAnswer(IF "COOKIE" \in tried THEN {"OTHER"} ELSE {"OTHER", "DATA"})
  /\ toServer' = Append(toServer, "ERROR")
  /\ UNCHANGED <<cauth, tried>>

(* After the handshake the client sends its messages at once. *)
PostMessage ==
  /\ clientIs = "adbus" /\ cauth = "done" /\ posted < MaxPosts
  /\ posted' = posted + 1
  /\ toServer' = Append(toServer, "MESSAGE")
  /\ UNCHANGED <<clientIs, serverIs, toClient, pending, sauthVars, cauth, tried, lines>>

-----------------------------------------------------------------------------
(* Some other program in the place of the client or the server. *)
OtherClient ==
  /\ clientIs = "other" /\ lines < MaxLines
  /\ lines' = lines + 1
  /\ \E line \in ClientLines \cup {"MESSAGE"} : toServer' = Append(toServer, line)
  /\ UNCHANGED <<clientIs, serverIs, toClient, pending, sauthVars, cauthVars>>

OtherServer ==
  /\ serverIs = "other" /\ lines < MaxLines
  /\ lines' = lines + 1
  /\ \E line \in ServerLines : SendLine(line)
  /\ UNCHANGED <<clientIs, serverIs, toServer, pending, sauthVars, cauthVars>>

ServerStep ==
  \/ NullByte
  \/ \E accepted \in Verdicts : AuthExternal(accepted)
  \/ AuthRefused \/ Cancel \/ BeginLine \/ ErrorLine \/ UnknownLine
  \/ RemoteBytes

ClientStep ==
  \/ StartAuth
  \/ ClientOk \/ ClientReset \/ ClientError \/ ClientUnknown
  \/ \E found \in BOOLEAN : ClientCookie(found)

AuthNext ==
  \/ AuthReceive
  \/ ServerStep
  \/ ClientStep
  \/ PostMessage
  \/ OtherClient
  \/ OtherServer

AuthSpec == AuthInit /\ [][AuthNext]_authVars

(* Both event loops run, and the network delivers. *)
AuthFairSpec == AuthSpec /\ WF_authVars(AuthReceive) /\ WF_authVars(ServerStep) /\ WF_authVars(ClientStep)

-----------------------------------------------------------------------------
(***************************************************************************)
(* Properties                                                              *)
(***************************************************************************)

(* Type correctness; BEGIN of a mechanism stands for at most one question. *)
AuthTypeOK ==
  /\ phase \in {"null byte", "auth", "remote", "gone"}
  /\ external \in {"NOT_TRIED", "NOT_SUPPORTED", "BEGIN"}
  /\ cauth \in {"idle", "auth", "done", "failed"}
  /\ tried \subseteq {"EXTERNAL", "COOKIE"}
  /\ okSent => external = "BEGIN"
  /\ parsed <= posted \/ clientIs = "other"

(* Whatever lines a client sends and in whatever order, adbus_serv_connect is
   reached only when the identity was accepted and neither a refusal nor a
   CANCEL came after that. *)
OnlyGranted == phase = "remote" => granted

(* Server and client agree: a client that is done has been accepted, and the
   bytes it sends behind its BEGIN never meet adbus_auth_line, also when they
   are read together with it. *)
Agreement ==
  clientIs = "adbus" /\ serverIs = "adbus" =>
    /\ cauth = "done" => granted
    /\ ~misread
    /\ phase # "gone"

(* A handshake that the client starts ends: the client is done and the server has connected it, or
   the client has given up and the server has not. *)
HandshakeEnds ==
  (cauth = "auth" /\ serverIs = "adbus") ~>
    (\/ cauth = "done" /\ phase = "remote"
     \/ cauth = "failed" /\ phase = "auth")

(* Every message that follows the handshake gets to adbus_remote_parse. *)
MessagesArrive ==
  clientIs = "adbus" /\ serverIs = "adbus" => []<>(parsed = posted)

(* Whatever lines are sent and however they are read, only a client whose identity was
   accepted is connected, and the two sides of adbus_Auth agree on the end of the
   handshake. *)
HandshakeSound == AuthTypeOK /\ OnlyGranted /\ Agreement
=============================================================================
