------------------------------ MODULE Hashmap ------------------------------
(***************************************************************************)
(* The hash map of src/src/hashmap.c: an array of buckets, each of them     *)
(* NULL or a list of nodes (see List, which DArray implements).  Nothing    *)
(* keeps a key from being set twice.  Allocations succeed.                  *)
(***************************************************************************)
EXTENDS Integers, SequencesExt

CONSTANTS
  Keys, Data,
  NULL,
  Hash,       \* default_hash, a number for each key
  Buckets,    \* DEFAULT_NUMBER_OF_BUCKETS
  MaxNodes    \* bound on the nodes in the map

Nodes == [key : Keys, hash : Range(Hash), data : Data]

\* What is assumed of the constants.
HashmapAssumption ==
  /\ NULL \notin Data /\ NULL \notin Seq(Nodes)
  /\ Hash \in [Keys -> Nat]
  /\ Buckets \in Nat \ {0} /\ MaxNodes \in Nat

VARIABLES
  buckets,   \* the nodes of each bucket, NULL before its first use
  result,    \* what the last operation returned
  \* What the properties compare with.
  history,   \* the entries that were set and not deleted, oldest first
  disturbed  \* the buckets an entry was deleted from

vars == <<buckets, result, history, disturbed>>

TypeOK ==
  /\ \A b \in 0 .. Buckets - 1 :
       \/ buckets[b] = NULL
       \/ /\ buckets[b] \in Seq(Nodes)
          /\ \A i \in DOMAIN buckets[b] :
               LET node == buckets[b][i]
               IN  node.hash = Hash[node.key] /\ node.hash % Buckets = b
  /\ result \in Data \cup {NULL}
  /\ history \in Seq(Keys \X Data)
  /\ disturbed \subseteq 0 .. Buckets - 1

\* Hashmap_create
Init ==
  /\ buckets = [b \in 0 .. Buckets - 1 |-> NULL]
  /\ result = NULL /\ history = <<>> /\ disturbed = {}

\* The order of Hashmap_traverse.
Traversed ==
  FlattenSeq([i \in 1 .. Buckets |->
                IF buckets[i - 1] = NULL THEN <<>> ELSE buckets[i - 1]])

-----------------------------------------------------------------------------

\* Hashmap_find_bucket
BucketOf(key) == Hash[key] % Buckets

\* What Hashmap_get_node compares.
Same(key, node) == node.hash = Hash[key] /\ node.key = key

\* Hashmap_get_node: the first node of the key, 0 when there is none.
Position(key) ==
  IF buckets[BucketOf(key)] = NULL THEN 0
  ELSE SelectInSeq(buckets[BucketOf(key)], LAMBDA node : Same(key, node))

\* Mutant: the number of the bucket is kept for the hash.
SetBucketAsHash(key, d) ==
  /\ Len(Traversed) < MaxNodes
  /\ LET b == BucketOf(key)
         node == [key |-> key, hash |-> b, data |-> d]
     IN  buckets' = [buckets EXCEPT ![b] =
                       IF @ = NULL THEN <<node>> ELSE Append(@, node)]
  /\ history' = Append(history, <<key, d>>)
  /\ UNCHANGED <<result, disturbed>>

\* Mutant: the new node is put before the others.
SetFirst(key, d) ==
  /\ Len(Traversed) < MaxNodes
  /\ LET b == BucketOf(key)
         node == [key |-> key, hash |-> Hash[key], data |-> d]
     IN  buckets' = [buckets EXCEPT ![b] =
                       IF @ = NULL THEN <<node>> ELSE <<node>> \o @]
  /\ history' = Append(history, <<key, d>>)
  /\ UNCHANGED <<result, disturbed>>

\* Hashmap_set
Set(key, d) ==
  /\ Len(Traversed) < MaxNodes
  /\ LET b == BucketOf(key)
         node == [key |-> key, hash |-> Hash[key], data |-> d]
     IN  buckets' = [buckets EXCEPT ![b] =
                       IF @ = NULL THEN <<node>> ELSE Append(@, node)]
  /\ history' = Append(history, <<key, d>>)
  /\ UNCHANGED <<result, disturbed>>

\* What Hashmap_get returns.
Found(key) ==
  IF Position(key) = 0 THEN NULL
                       ELSE buckets[BucketOf(key)][Position(key)].data

Get(key) ==
  /\ result' = Found(key)
  /\ UNCHANGED <<buckets, history, disturbed>>

\* Mutant: the last node is put into the hole and stays where it was.
FilledByCopy(nodes, i) == [nodes EXCEPT ![i] = Last(nodes)]

\* The last node is popped and, unless it is the one that goes, put in the hole.
Filled(nodes, i) ==
  IF i = Len(nodes) THEN Front(nodes)
                    ELSE Front([nodes EXCEPT ![i] = Last(nodes)])

\* Hashmap_delete
Delete(key) ==
  LET b == BucketOf(key)
      i == Position(key)
  IN  IF i = 0
        THEN result' = NULL /\ UNCHANGED <<buckets, history, disturbed>>
        ELSE /\ result' = buckets[b][i].data
             /\ buckets' = [buckets EXCEPT ![b] = Filled(@, i)]
             /\ LET oldest == SelectInSeq(history,
                                LAMBDA e : e = <<key, buckets[b][i].data>>)
                IN  history' = RemoveAt(history, oldest)
             /\ disturbed' = disturbed \cup {b}

\* Hashmap_destroy; a map is created anew for the next request.
Destroy ==
  /\ buckets' = [b \in 0 .. Buckets - 1 |-> NULL]
  /\ history' = <<>> /\ disturbed' = {}
  /\ UNCHANGED result

Next ==
  \/ Destroy
  \/ \E key \in Keys :
       Get(key) \/ Delete(key) \/ \E d \in Data : Set(key, d)

Spec == Init /\ [][Next]_vars

-----------------------------------------------------------------------------
(* Properties.                                                             *)

\* What traversing the map visits, and how often.
Entries ==
  [e \in Keys \X Data |->
     Cardinality({i \in DOMAIN Traversed :
                    <<Traversed[i].key, Traversed[i].data>> = e})]

AbstractMap == INSTANCE Multimap WITH entries <- Entries, found <- result

\* Whatever the hashes and the buckets they fall in, the map is a bag of
\* entries: none is lost, found under another key, or visited twice.
ImplementsMultimap == AbstractMap!Spec

\* As request.c relies on for a header that is there twice: of the entries of a
\* key the one that was set first is found, as long as none was deleted from
\* its bucket (after that the order in a bucket means nothing).
FirstSetIsFound ==
  \A key \in Keys :
    LET i == SelectInSeq(history, LAMBDA e : e[1] = key)
    IN  BucketOf(key) \notin disturbed =>
          Found(key) = IF i = 0 THEN NULL ELSE history[i][2]

=============================================================================
