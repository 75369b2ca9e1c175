------------------------------- MODULE Names -------------------------------
(***************************************************************************)
(* Names and object paths as text (adbus/misc.c): which ones are valid,    *)
(* how two paths are joined and what the parent of a path is.              *)
(*                                                                         *)
(* A text is the sequence of its characters, each a member of a small      *)
(* class: "a" stands for letters and '_', "0" for digits; "/", ".", ":"    *)
(* and "-" are themselves and "?" is any other character.  Every text up   *)
(* to MaxChars is written, one character in a step.                        *)
(***************************************************************************)
EXTENDS Integers, Sequences, SequencesExt

CONSTANTS
  Chars,     \* characters that texts have
  MaxChars,  \* bound on their length
  NameLimit  \* the longest name: 255

ASSUME NamesAssumption == MaxChars \in Nat /\ NameLimit \in Nat

VARIABLE word  \* the text that has been written

NamesInit == word = <<>>

NamesNext == Len(word) < MaxChars /\ \E ch \in Chars : word' = Append(word, ch)

-----------------------------------------------------------------------------
(* The code: the loops over the characters keep the place of the last
   separator and stop at the first character that is wrong. *)

NameChars == {"a", "0"}

(* The places where a loop that started with the separator before at rejects a
   character: another separator directly after the last, or a wrong character. *)
Rejected(s, from, sep, allowed) ==
  {i \in from..Len(s) : IF s[i] = sep THEN i > 1 /\ s[i - 1] = sep ELSE s[i] \notin allowed}

isValidObjectPath(s) ==
  /\ s # <<>> /\ s[1] = "/"
  /\ Len(s) > 1 => s[Len(s)] # "/"
  /\ Rejected(s, 2, "/", NameChars) = {}

(* A dot is needed, a name must not start with one.  It may end with one. *)
isValidInterfaceName(s) ==
  /\ Len(s) \in 1..NameLimit /\ s[1] = "a"
  /\ Rejected(s, 2, ".", NameChars) = {}
  /\ \E i \in 2..Len(s) : s[i] = "."

(* In a unique name the colon counts as the separator before the first part,
   and also as the dot that a name needs. *)
isValidBusName(s) ==
  /\ Len(s) \in 1..NameLimit /\ s[1] \in {":", "a", "-"}
  /\ Rejected(s, 2, ".", NameChars \cup {"-"}) = {}
  /\ ~(Len(s) > 1 /\ s[1] = ":" /\ s[2] = ".")
  /\ s[1] = ":" \/ \E i \in 2..Len(s) : s[i] = "."

isValidMemberName(s) ==
  Len(s) \in 1..NameLimit /\ s[1] = "a" /\ \A i \in 2..Len(s) : s[i] \in NameChars

(* The loop of adbusI_relativePath: a slash after a slash is removed, and the loop goes
   on behind it. *)
RemoveSlash(r) ==
  IF r.at > Len(r.text) THEN r
  ELSE [text |-> IF r.text[r.at] = "/" /\ r.text[r.at - 1] = "/"
                 THEN RemoveAt(r.text, r.at) ELSE r.text,
        at |-> r.at + 1]

RemoveRepeated(s) ==
  LET After[k \in 0..Len(s)] ==
        IF k = 0 THEN [text |-> s, at |-> 2] ELSE RemoveSlash(After[k - 1])
  IN  After[Len(s)].text

Slashed(s) == IF s # <<>> /\ s[1] # "/" THEN <<"/">> \o s ELSE s

(* Mutant: the slash at the end stays. *)
relativePath_Trailing(s, t) == RemoveRepeated(Slashed(s) \o Slashed(t))

(* adbusI_relativePath *)
relativePath(s, t) ==
  LET joined == RemoveRepeated(Slashed(s) \o Slashed(t))
  IN  IF Len(joined) > 1 /\ joined[Len(joined)] = "/" THEN Front(joined) ELSE joined

(* The assertion of adbusI_parentPath. *)
Sanitised(s) == relativePath(s, <<>>) = s

(* adbusI_parentPath searches back for a slash that is not the last character;
   <<>> stands for the NULL of a path that has no parent. *)
parentPath(s) ==
  LET sizes == {n \in 1..(Len(s) - 1) : s[n] = "/"}
      size == IF sizes = {} THEN 0 ELSE Max(sizes)
  IN  CASE size = 0 -> <<>>
        [] size = 1 -> SubSeq(s, 1, 1)
        [] OTHER -> SubSeq(s, 1, size - 1)

-----------------------------------------------------------------------------
(* Properties *)

(* The texts between the separators of s. *)
Cuts(s, sep) == {0, Len(s) + 1} \cup {i \in DOMAIN s : s[i] = sep}
NextCut(s, sep, i) == Min({j \in Cuts(s, sep) : j > i})
Parts(s, sep) ==
  {SubSeq(s, i + 1, NextCut(s, sep, i) - 1) : i \in {j \in Cuts(s, sep) : j <= Len(s)}}

Plain(s, chars) == s # <<>> /\ ToSet(s) \subseteq chars

DoubleSlash(s) == \E i \in 1..(Len(s) - 1) : s[i] = "/" /\ s[i + 1] = "/"
TripleSlash(s) == \E i \in 1..(Len(s) - 2) : s[i] = "/" /\ s[i + 1] = "/" /\ s[i + 2] = "/"

(* The name checks accept exactly these texts: parts of the characters allowed,
   separated by one dot or slash each, and in a name also with a dot at the end.  An
   interface and a well-known bus name have a dot.  A unique name needs none, for
   adbusI_isValidBusName takes the colon as the dot, and the colon alone is one too:
   the comment that bus names must include at least one dot does not hold for them. *)
NamesChecked ==
  LET s == word
      body == IF s # <<>> /\ s[1] = ":" THEN Tail(s) ELSE s
      cut(t) == IF t # <<>> /\ t[Len(t)] = "." THEN Front(t) ELSE t
      dotted(t, chars) == \A p \in Parts(cut(t), ".") : Plain(p, chars)
      dot == \E i \in DOMAIN s : s[i] = "."
  IN  /\ isValidObjectPath(s) <=>
           (s = <<"/">> \/ (s # <<>> /\ s[1] = "/" /\ \A p \in Parts(Tail(s), "/") : Plain(p, NameChars)))
      /\ isValidInterfaceName(s) <=>
           (Len(s) <= NameLimit /\ dot /\ dotted(s, NameChars) /\ s[1] # "0")
      /\ isValidBusName(s) <=>
           /\ Len(s) <= NameLimit /\ s # <<>> /\ s[1] # "0"
           /\ s = <<":">> \/ dotted(body, NameChars \cup {"-"})
           /\ s[1] = ":" \/ dot
      /\ isValidMemberName(s) <=> (Len(s) <= NameLimit /\ Plain(s, NameChars) /\ s[1] # "0")

(* However a path is cut in two, joining the parts leads to one path: with one
   slash at the front, none at the end, and none repeated, exactly if there are no
   three slashes in a row.  Of more the loop of adbusI_relativePath leaves some: it
   goes on behind the character that moved up.  A path without them does not change
   when it is joined with nothing again, which is how every path is looked up; one
   with them does, unless it was of slashes only, and fails the assertion of
   adbusI_parentPath. *)
JoinedPaths ==
  \A n \in 0..Len(word) :
    LET s == SubSeq(word, 1, n)
        t == SubSeq(word, n + 1, Len(word))
        path == relativePath(s, t)
    IN  /\ path = <<>> <=> word = <<>>
        /\ path # <<>> => path[1] = "/"
        /\ IF TripleSlash(Slashed(s) \o Slashed(t))
           THEN path = <<"/">> \/ ~Sanitised(path)
           ELSE /\ ~DoubleSlash(path) /\ Sanitised(path)
                /\ path \notin {<<>>, <<"/">>} => path[Len(path)] # "/"

(* The parent of a valid path is valid, one part shorter, and going from parent to
   parent leads to "/", which has none (adbusI_parentPath): the object tree hangs
   together. *)
ParentsLeadToRoot ==
  isValidObjectPath(word) /\ Sanitised(word) =>
    LET parent == parentPath(word)
    IN  IF word = <<"/">> THEN parent = <<>>
        ELSE /\ isValidObjectPath(parent)
             /\ \E p \in Parts(Tail(word), "/") : relativePath(parent, p) = word

(* Names are accepted as described, and paths without three slashes in a row are joined
   and cut so that the object tree hangs together. *)
NamesSound == NamesChecked /\ JoinedPaths /\ ParentsLeadToRoot
=============================================================================
