------------------------------ MODULE AuthData ------------------------------
(***************************************************************************)
(* What the lines of the handshake carry (adbus/auth.c): the identity of   *)
(* the client, in hexadecimal digits, and its answer to a challenge of the *)
(* cookie mechanism, computed with a cookie of a keyring file.             *)
(*                                                                         *)
(* Characters and bytes are their codes.  A challenge is its words, up to  *)
(* a byte 0; a line of the file, which ends with a newline, is its         *)
(* identifier and the rest of its words, a time and a cookie if the line   *)
(* is complete.  The digest is the text that it is computed from.          *)
(***************************************************************************)
EXTENDS Integers, Sequences, SequencesExt, FiniteSets

CONSTANTS
  Identities, \* what LocalId may return: text, without a byte 0
  Claims,     \* digits that some other client sends for an identity
  Challenges, \* sequences of words, each a sequence of codes
  Keyrings,   \* files: sequences of lines
  Randoms,    \* what RandomData may return
  NotYet      \* nothing sent, nothing received, no file

ASSUME AuthDataAssumption ==
  /\ NotYet \notin Challenges /\ NotYet \notin Seq(0..255)
  /\ Identities \subseteq Seq(1..255) /\ Claims \cup Randoms \subseteq Seq(0..255)
  /\ \A words \in Challenges : Len(words) > 1 => words[2] \in Seq(0..255)
  /\ \A file \in Keyrings : file = NotYet \/ file \in Seq(Range(file))
  /\ \A file \in Keyrings : file # NotYet => \A i \in DOMAIN file : file[i].rest \in Seq(Range(file[i].rest))

VARIABLES
  ownId,     \* the client's a->id
  claim,     \* the argument of the AUTH line
  serverId,  \* the server's a->id
  asked,     \* what externalcb is asked about
  challenge, \* the challenge that the client has got
  keyring,   \* the file that it names
  cookieReply \* what the client makes of it

authDataVars == <<ownId, claim, serverId, asked, challenge, keyring, cookieReply>>

AuthDataInit ==
  /\ ownId \in Identities
  /\ claim = NotYet /\ serverId = NotYet /\ asked = NotYet
  /\ challenge = NotYet /\ keyring = NotYet /\ cookieReply = NotYet

-----------------------------------------------------------------------------
(* Hexadecimal digits *)

(* The digit of a number below 16: '0' is 48 and 'a' is 97. *)
DigitOf(n) == IF n < 10 THEN n + 48 ELSE n + 97 - 10

HexEncode(data) ==
  [i \in 1..(2 * Len(data)) |->
     DigitOf(IF i % 2 = 1 THEN data[(i + 1) \div 2] \div 16 ELSE data[i \div 2] % 16)]

(* The number of a digit, -1 if the character is none. *)
ValueOf(c) ==
  CASE c \in 48..57 -> c - 48
    [] c \in 97..102 -> c - 97 + 10
    [] c \in 65..70 -> c - 65 + 10
    [] OTHER -> -1

(* The bytes in front of the first pair that is not two digits; none of an odd
   number of characters. *)
HexDecode(str) ==
  LET bad == {i \in 1..(Len(str) \div 2) : ValueOf(str[2 * i - 1]) < 0 \/ ValueOf(str[2 * i]) < 0}
      n == IF Len(str) % 2 # 0 THEN 0 ELSE Min(bad \cup {Len(str) \div 2 + 1}) - 1
  IN  [i \in 1..n |-> 16 * ValueOf(str[2 * i - 1]) + ValueOf(str[2 * i])]

-----------------------------------------------------------------------------
(* Identities *)

(* What a char* shows of the bytes of a string: those in front of the first 0. *)
CString(s) == SubSeq(s, 1, Min({i \in DOMAIN s : s[i] = 0} \cup {Len(s) + 1}) - 1)

(* ServerAuth and ServerExternalInit: the server keeps what it makes of the argument,
   and its callback is asked about ds_cstr of that. *)
ServerAuth(digits) ==
  /\ serverId' = HexDecode(digits)
  /\ asked' = CString(serverId')

(* ClientReset: the client says who it is. *)
Identify ==
  /\ claim = NotYet
  /\ claim' = HexEncode(ownId)
  /\ ServerAuth(claim')
  /\ UNCHANGED <<ownId, challenge, keyring, cookieReply>>

(* Some other client sends an argument of its own. *)
ClaimOther(digits) ==
  /\ claim = NotYet
  /\ claim' = digits
  /\ ServerAuth(digits)
  /\ UNCHANGED <<ownId, challenge, keyring, cookieReply>>

-----------------------------------------------------------------------------
(* Cookies *)

(* ParseServerData: the name of the keyring, an identifier and the server's own
   data, which is the rest; NotYet if there are no two blanks. *)
ParseServerData(words) ==
  IF Len(words) < 3 THEN NotYet
  ELSE [ring |-> words[1], id |-> words[2], data |-> SubSeq(words, 3, Len(words))]

(* What is taken of a line that begins with the identifier.  The next character is
   skipped, and the cookie is what follows the next blank: that behind the time, or
   none, if the identifier is that of the line; all that follows the line's own
   identifier, the time too, if that goes on. *)
CookieIn(line, id) ==
  IF line.id # id THEN line.rest
  ELSE IF line.rest = <<>> THEN <<>> ELSE Tail(line.rest)

(* Mutant: the last line with the identifier is taken. *)
GetCookie_Last(file, id) ==
  LET found == {i \in DOMAIN file : IsPrefix(id, file[i].id)}
  IN  IF file = NotYet \/ found = {} THEN <<>>
      ELSE CookieIn(file[Max(found)], id)

(* GetCookie: the first line that begins with the identifier decides.  The file may
   be missing, and a line may have no time or nothing but its identifier. *)
GetCookie(file, id) ==
  LET found == {i \in DOMAIN file : IsPrefix(id, file[i].id)}
  IN  IF file = NotYet \/ found = {} THEN <<>>
      ELSE CookieIn(file[Min(found)], id)

(* The text that the digest is computed from. *)
ShaText(data, local, cookie) == <<data, HexEncode(local), cookie>>

(* ClientCookie: the client fails without a cookie, else it answers with its own
   data and the digest. *)
AnswerChallenge(words, file, local) ==
  LET s == ParseServerData(words)
      cookie == GetCookie(file, s.id)
  IN  /\ challenge = NotYet
      /\ challenge' = words /\ keyring' = file
      /\ cookieReply' = IF s = NotYet THEN [local |-> NotYet]
                   ELSE IF cookie = <<>> THEN [local |-> NotYet]
                   ELSE [local |-> HexEncode(local), digest |-> ShaText(s.data, local, cookie)]
      /\ UNCHANGED <<ownId, claim, serverId, asked>>

AuthDataNext ==
  \/ Identify
  \/ \E digits \in Claims : ClaimOther(digits)
  \/ \E words \in Challenges, file \in Keyrings, local \in Randoms :
       AnswerChallenge(words, file, local)

AuthDataSpec == AuthDataInit /\ [][AuthDataNext]_authDataVars

-----------------------------------------------------------------------------
(* Properties *)

(* Small letters for the digits above 9. *)
Lower(str) == [i \in DOMAIN str |-> IF str[i] \in 65..70 THEN str[i] + 32 ELSE str[i]]

(* The server's callback is asked about the identity that the client has.  Some other
   client gets no identity that its digits do not spell; if they spell a byte 0 it is
   asked about the bytes in front of that, so that arguments which differ only behind
   it are the same to the callback. *)
IdentityKept ==
  serverId # NotYet =>
    /\ claim = HexEncode(ownId) => asked = ownId
    /\ IsPrefix(HexEncode(serverId), Lower(claim))
    /\ IsPrefix(asked, serverId)
    /\ asked # serverId => serverId[Len(asked) + 1] = 0

(* The lines that the server can mean with an identifier. *)
LinesOf(id) == {i \in DOMAIN keyring : keyring[i].id = id}

(* The client has sent an answer, computed from a cookie and from the data with it. *)
AnswersWith(s, cookie) ==
  /\ cookieReply.local # NotYet
  /\ cookieReply.digest = ShaText(s.data, HexDecode(cookieReply.local), cookie)

(* A server that holds the same keyring accepts the answer of the client: it is
   computed from the server's data, from the data that comes with it and from what
   follows the time in the line that the challenge names, if no line in front of that
   begins with the identifier too.  If one does, as the line of 12 does for 1, it is
   computed from the time and the cookie of that line, or there is none.  When the
   keyring has no line that begins with it, or the line has no time, the client fails
   and sends no answer. *)
CookieOfChallenge ==
  LET s == ParseServerData(challenge)
      mine == LinesOf(s.id)
      first == Min(mine)
  IN  cookieReply # NotYet =>
        /\ s = NotYet => cookieReply.local = NotYet
        /\ s # NotYet /\ keyring = NotYet => cookieReply.local = NotYet
        /\ s # NotYet /\ keyring # NotYet =>
             /\ cookieReply.local # NotYet => \E i \in DOMAIN keyring : IsPrefix(s.id, keyring[i].id)
             /\ /\ mine # {}
                /\ \A i \in DOMAIN keyring : i < first => ~IsPrefix(s.id, keyring[i].id)
                => IF Len(keyring[first].rest) < 2 THEN cookieReply.local = NotYet
                   ELSE AnswersWith(s, Tail(keyring[first].rest))
             /\ \A i \in DOMAIN keyring :
                  /\ \A j \in DOMAIN keyring : IsPrefix(s.id, keyring[j].id) => i <= j
                  /\ IsPrefix(s.id, keyring[i].id) /\ i \notin mine
                  => cookieReply.local = NotYet \/ AnswersWith(s, keyring[i].rest)

(* The data of the handshake survive their encoding: the server checks the identity
   that the client has, and the client answers with the cookie that was asked for
   unless another line of the keyring comes first. *)
AuthDataSound == IdentityKept /\ CookieOfChallenge
=============================================================================
