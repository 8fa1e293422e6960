-------------------------------- MODULE List --------------------------------
(***************************************************************************)
(* What a dynamic array promises its user: a list that grows and shrinks at *)
(* its end and whose elements can be replaced.  DArray implements it.       *)
(***************************************************************************)
EXTENDS Integers, Sequences

CONSTANTS
  Elements,
  NULL       \* what is taken from an empty list

VARIABLES
  items,
  taken      \* what the last Take returned

vars == <<items, taken>>

Init == items = <<>> /\ taken = NULL

Put(el) ==
  /\ items' = Append(items, el)
  /\ UNCHANGED taken

Take ==
  IF items = <<>>
    THEN taken' = NULL /\ UNCHANGED items
    ELSE /\ taken' = items[Len(items)]
         /\ items' = SubSeq(items, 1, Len(items) - 1)

Replace(i, el) ==
  /\ i \in 1 .. Len(items)
  /\ items' = [items EXCEPT ![i] = el]
  /\ UNCHANGED taken

Next ==
  \/ \E el \in Elements : Put(el)
  \/ Take
  \/ \E i \in 1 .. Len(items), el \in Elements : Replace(i, el)

Spec == Init /\ [][Next]_vars

=============================================================================
