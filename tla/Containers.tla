----------------------------- MODULE Containers -----------------------------
(***************************************************************************)
(* The dynamic array and the hash map side by side.  They share no state:   *)
(* the buckets of the map are sequences, which an array implements.         *)
(***************************************************************************)
EXTENDS DArray, Hashmap

\* The variables of both have their types: an array has no more elements
\* than slots, and every node of the map is in the bucket of its hash,
\* which is that of its key.
TypesOK == ArrayTypeOK /\ end <= max /\ TypeOK
=============================================================================
