---------------------------- MODULE MCContainers ----------------------------
(***************************************************************************)
(* An instance for TLC of DArray and of Hashmap, the dynamic array and the  *)
(* map whose buckets are such arrays.  They share no state: one of them     *)
(* moves, the other stays as it was created.  Of the keys k1 and k2 have    *)
(* the same hash, k3 another one in the same bucket, k4 a bucket of its own. *)
(***************************************************************************)
EXTENDS Containers

CONSTANTS k1, k2, k3, k4

MCKeys == {k1, k2, k3, k4}
MCHash == k1 :> 1 @@ k2 :> 1 @@ k3 :> 3 @@ k4 :> 2
Sym == Permutations(Elements) \cup Permutations(Data)

ASSUME MCContainersAssumption == HashmapAssumption

MCInit == ArrayInit /\ Init

MCNext ==
  \/ Init /\ ArrayNext /\ UNCHANGED vars
  \/ ArrayInit /\ Next /\ UNCHANGED arrayVars

MCSpec == MCInit /\ [][MCNext]_<<vars, arrayVars>>
=============================================================================
