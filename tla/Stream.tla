------------------------------- MODULE Stream -------------------------------
(***************************************************************************)
(* What a bStream promises: the characters of the source, those put back     *)
(* before them, are read once each and in order.  BstrStream implements it.  *)
(***************************************************************************)
EXTENDS Integers, SequencesExt

CONSTANTS Returned   \* what may be put back

VARIABLES
  rest,   \* what is still to be read
  text    \* the string reads are appended to

vars == <<rest, text>>

Init == text = <<>>

\* Some characters are read, to the end of the string or instead of it.
Read ==
  \E k \in 0 .. Len(rest), base \in {text, <<>>} :
    /\ text' = base \o SubSeq(rest, 1, k)
    /\ rest' = SubSeq(rest, k + 1, Len(rest))

PutBack == \E t \in Returned : rest' = t \o rest /\ UNCHANGED text

Next == Read \/ PutBack

Spec == Init /\ [][Next]_vars

=============================================================================
