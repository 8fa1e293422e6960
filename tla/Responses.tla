----------------------------- MODULE Responses -----------------------------
(***************************************************************************)
(* The bytes of a response and the memory of a round of the loop, side by   *)
(* side.                                                                   *)
(***************************************************************************)
EXTENDS GzipResponse

VARIABLES pc, request, directory, heap

roundVars == <<pc, request, directory, heap>>

Own == INSTANCE Ownership

\* The variables of the three have their types: the room deflate is told of ends
\* where the output does, the field lines are at least as many bytes as the
\* serialiser reads of them, and the child is somewhere in its round.
TypesOK == TypeOK /\ R!TypeOK /\ Own!TypeOK

\* Nothing is freed twice, used after it was freed, or allocated over a pointer
\* nobody has freed, and a map points at what is allocated (see Ownership).
SoundUse == Own!SoundUse

\* A round of the loop leaves behind what its code abandons, and nothing else
\* (see Ownership).
OnlyAbandoned == Own!OnlyAbandoned
=============================================================================
