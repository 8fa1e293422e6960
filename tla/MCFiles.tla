------------------------------ MODULE MCFiles ------------------------------
(* Instances of Files for TLC: a short and a long body, two readers. *)
EXTENDS Files, TLC

CONSTANTS p1, p2, g1, g2

MCPosts == {p1, p2}
MCGets == {g1, g2}
\* The old contents have a zero byte in the middle.
MCZeros == {<<Old, 2>>}
MCLength == p1 :> 1 @@ p2 :> 3
Sym == Permutations(MCGets)
=============================================================================
