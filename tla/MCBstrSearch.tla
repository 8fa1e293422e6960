--------------------------- MODULE MCBstrSearch ---------------------------
(***************************************************************************)
(* An instance for TLC of BstrSearch, and of BstrCompare, of which either   *)
(* moves: searches among two letters, one of them in two cases; comparisons *)
(* of strings of the zero byte, a letter in two cases, one that sorts       *)
(* between them, and a byte that is negative as a char.                     *)
(***************************************************************************)
EXTENDS Searches

MCLower == [c \in Chars |-> IF c = "A" THEN "a" ELSE c]

ASSUME MCBstrSearchAssumption == BC!BstrCompareAssumption

MCInit == Init /\ BC!Init

\* The strings are compared after the shortest search.
Ended == pc = "done" /\ b1 = <<>> /\ b2 = <<>> /\ pos = 0 /\ kind = "binstr"

MCNext ==
  \/ Next /\ UNCHANGED compareVars
  \/ Ended /\ BC!Next /\ UNCHANGED vars

\* The caller is scheduled.
MCFairSpec ==
  MCInit /\ [][MCNext]_<<vars, compareVars>> /\ WF_vars(Next /\ UNCHANGED compareVars)
=============================================================================
