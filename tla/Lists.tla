------------------------------- MODULE Lists -------------------------------
(***************************************************************************)
(* The lists of include/c/dmem/list.h as sequences.                        *)
(***************************************************************************)
EXTENDS Integers, Sequences

(* dl_remove and dil_remove of each of the elements in gone: the others keep their
   order.  A recursive function, since SelectSeq cannot be unfolded in proofs. *)
Without(list, gone) ==
  LET Kept[n \in 0..Len(list)] ==
        IF n = 0 THEN <<>>
        ELSE IF list[n] \in gone THEN Kept[n - 1]
        ELSE Append(Kept[n - 1], list[n])
  IN  Kept[Len(list)]
=============================================================================
