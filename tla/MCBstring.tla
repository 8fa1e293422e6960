----------------------------- MODULE MCBstring -----------------------------
(***************************************************************************)
(* An instance for TLC of Bstring, and of BstrStream, of which either moves: *)
(* strings of two characters, in blocks of two, four and eight bytes and the *)
(* sizes ballocmin makes; sources of up to four characters with two kinds   *)
(* of line ends, read through a buffer of one to three.                     *)
(***************************************************************************)
EXTENDS Strings

MCTexts == BoundedSeq(Chars, 2) \cup {<<c, c, c>> : c \in Chars}
MCSources == BoundedSeq({"a", "n", "s"}, 3) \cup {<<"a", "n", "a", "a">>}
MCTerminators == {{"n"}, {"n", "s"}}
MCReturned == {<<"n">>, <<"b", "b">>}

ASSUME MCBstringAssumption == BS!BstrStreamAssumption

\* A full string, as a failed call may leave it: the string while the stream moves.
Left == [data |-> [i \in 1 .. MinBlock |-> CHOOSE c \in Chars : TRUE],
         mlen |-> MinBlock, ended |-> FALSE]

\* A stream that was not used: the stream while the string moves.
Fresh == BS!Init /\ source = <<>> /\ ~partial /\ maxBuffSz = 1

MCInit == (Init /\ Fresh) \/ (b = Left /\ BS!Init)

MCNext ==
  \/ Fresh /\ Next /\ UNCHANGED streamVars
  \/ b = Left /\ BS!Next /\ UNCHANGED vars

\* The caller may stop calling; a call of the stream that was begun goes on.
MCFairSpec ==
  MCInit /\ [][MCNext]_<<vars, streamVars>> /\ WF_streamVars(BS!Round /\ UNCHANGED vars)
=============================================================================
