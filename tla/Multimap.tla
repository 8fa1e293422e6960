------------------------------ MODULE Multimap ------------------------------
(***************************************************************************)
(* What a hash map promises its users: a bag of entries.  A lookup and a    *)
(* deletion find one of the entries of the key, if there is any; which of   *)
(* several is not said.  Hashmap implements it.                             *)
(***************************************************************************)
EXTENDS Naturals

CONSTANTS Keys, Data, NULL

VARIABLES
  entries,   \* how many there are of each <<key, data>>
  found      \* what the last operation returned

vars == <<entries, found>>

None == [e \in Keys \X Data |-> 0]

Init == entries = None /\ found = NULL

Of(key) == {d \in Data : entries[<<key, d>>] > 0}

Insert(key, d) ==
  /\ entries' = [entries EXCEPT ![<<key, d>>] = @ + 1]
  /\ UNCHANGED found

Lookup(key) ==
  /\ IF Of(key) = {} THEN found' = NULL ELSE found' \in Of(key)
  /\ UNCHANGED entries

Remove(key) ==
  IF Of(key) = {}
    THEN found' = NULL /\ UNCHANGED entries
    ELSE \E d \in Of(key) :
           /\ found' = d
           /\ entries' = [entries EXCEPT ![<<key, d>>] = @ - 1]

Clear == entries' = None /\ UNCHANGED found

Next ==
  \/ Clear
  \/ \E key \in Keys : Lookup(key) \/ Remove(key) \/ \E d \in Data : Insert(key, d)

Spec == Init /\ [][Next]_vars

=============================================================================
