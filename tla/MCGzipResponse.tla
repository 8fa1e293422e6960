--------------------------- MODULE MCGzipResponse ---------------------------
(* An instance of GzipResponse for TLC, and of Ownership, of which either     *)
(* moves.  The bodies make the block of the serialiser end everywhere in a   *)
(* chunk; their compressed forms are longer or shorter than they are, and    *)
(* reach the sizes the output may have exactly, miss them or pass them by    *)
(* one.                                                                     *)
EXTENDS Responses

Letters == "abcdefghijklmnopq"

MCTexts == {SubSeq(Letters, 1, n) : n \in 0 .. 12}

\* And files, whose third byte is zero, or the fourth, the last.
MCMessages == MCTexts \cup {"executable", "zero"}
MCUpto == [m \in MCMessages |-> IF m = "executable" THEN 2
                                ELSE IF m = "zero" THEN 3 ELSE Len(m)]
MCGzip == [m \in MCMessages |-> SubSeq("gzip of a message", 1, CASE Len(m) = 9 -> 17
                                                 [] Len(m) > 9 -> Len(m) - 8
                                                 [] OTHER -> Len(m) + 5)]
MCTotals == 2 .. 17

MCInit == GInit /\ Own!Init

MCNext ==
  \/ Own!Init /\ directory /\ GNext /\ UNCHANGED roundVars
  \/ builder = NULL /\ Own!Next /\ UNCHANGED <<vars, responseVars>>

\* The child is scheduled, and deflate returns.
MCFairSpec ==
  /\ MCInit /\ [][MCNext]_<<vars, responseVars, roundVars>>
  /\ WF_<<vars, responseVars>>(InGzip)
=============================================================================
