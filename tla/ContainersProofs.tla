-------------------------- MODULE ContainersProofs --------------------------
(***************************************************************************)
(* What DArray keeps true for any elements, sizes and expand rate, and       *)
(* Hashmap for any keys, any hash function and any numbers of buckets and    *)
(* entries.                                                                *)
(***************************************************************************)
EXTENDS Containers, SequenceLemmas

-----------------------------------------------------------------------------
(* The dynamic array never writes outside its block.                       *)

\* The types and the room at the end: the invariant of the array.
ArrayInv == ArrayTypeOK /\ RoomAndWritten

\* The array DArray_create returns has room for a first element.
LEMMA ArrayInvInit == ArrayInit => ArrayInv
  BY DArrayAssumption DEF ArrayInit, ArrayInv, ArrayTypeOK, RoomAndWritten, Slots

\* How many slots memset clears is a natural number.
LEMMA ClearedNat == Cleared \in Nat
  BY DArrayAssumption DEF Cleared

\* A resized block has the slots asked for; an expanded one keeps the old ones.
LEMMA ResizedType ==
  ASSUME NEW old \in Nat, NEW new \in Nat,
         NEW slots \in [0 .. old - 1 -> Slots]
  PROVE  /\ Resized(slots, old, new) \in [0 .. new - 1 -> Slots]
         /\ \A i \in 0 .. new - 1 : i < old => Resized(slots, old, new)[i] = slots[i]
  BY DEF Resized, Slots

\* Growing keeps every slot of the old block.
LEMMA ExpandedType ==
  ASSUME NEW old \in Nat, NEW slots \in [0 .. old - 1 -> Slots]
  PROVE  /\ Expanded(slots, old) \in [0 .. (old + ExpandRate) - 1 -> Slots]
         /\ \A i \in 0 .. old - 1 : Expanded(slots, old)[i] = slots[i]
<1>1. old + ExpandRate \in Nat
  BY DArrayAssumption
<1>2. /\ Resized(slots, old, old + ExpandRate) \in [0 .. (old + ExpandRate) - 1 -> Slots]
      /\ \A i \in 0 .. (old + ExpandRate) - 1 :
           i < old => Resized(slots, old, old + ExpandRate)[i] = slots[i]
  BY <1>1, ResizedType
<1>3. ASSUME NEW i \in 0 .. (old + ExpandRate) - 1
      PROVE  (IF i \in old .. old + Cleared - 1 THEN NullPtr
              ELSE Resized(slots, old, old + ExpandRate)[i]) \in Slots
  <2>1. Resized(slots, old, old + ExpandRate)[i] \in Slots /\ NullPtr \in Slots
    BY <1>2 DEF Slots
  <2> QED
    BY <2>1, Zenon
<1>4. Expanded(slots, old) \in [0 .. (old + ExpandRate) - 1 -> Slots]
  BY <1>3, Zenon DEF Expanded
<1>5. ASSUME NEW i \in 0 .. old - 1
      PROVE  Expanded(slots, old)[i] = slots[i]
  <2>1. i \in 0 .. (old + ExpandRate) - 1 /\ i < old /\ i \notin old .. old + Cleared - 1
    BY ClearedNat, DArrayAssumption
  <2>2. Expanded(slots, old)[i] = Resized(slots, old, old + ExpandRate)[i]
    BY <2>1, Zenon DEF Expanded
  <2> QED
    BY <1>2, <2>1, <2>2, Zenon
<1> QED
  BY <1>4, <1>5, Zenon

\* What a push leaves: room again, and the elements with the new one last.
LEMMA PushKeeps ==
  ASSUME ArrayInv, NEW el \in Elements, DArray_push(el)
  PROVE  /\ ArrayInv'
         /\ end' = end + 1
         /\ \A i \in 0 .. end - 1 : contents'[i] = contents[i]
         /\ contents'[end] = el
<1> DEFINE slots == [contents EXCEPT ![end] = el]
<1>1. /\ end \in 0 .. max - 1 /\ max \in Nat /\ end' = end + 1
      /\ slots \in [0 .. max - 1 -> Slots]
      /\ slots[end] = el
      /\ \A i \in 0 .. end - 1 : slots[i] = contents[i]
  BY DEF ArrayInv, ArrayTypeOK, RoomAndWritten, DArray_push, Slots
<1>2. CASE Full(end + 1)
  <2>1. max' = max + ExpandRate /\ contents' = Expanded(slots, max)
    BY <1>2 DEF DArray_push
  <2> HIDE DEF slots
  <2>2. /\ contents' \in [0 .. max' - 1 -> Slots]
        /\ \A i \in 0 .. max - 1 : contents'[i] = slots[i]
    <3>1. max \in Nat
      BY DEF ArrayInv, ArrayTypeOK
    <3>2. /\ Expanded(slots, max) \in [0 .. (max + ExpandRate) - 1 -> Slots]
          /\ \A i \in 0 .. max - 1 : Expanded(slots, max)[i] = slots[i]
      BY <1>1, <3>1, ExpandedType
    <3> QED
      BY <2>1, <3>2
  <2>3. max' \in Nat \ {0} /\ end' < max'
    BY <1>1, <2>1, DArrayAssumption DEF ArrayInv, ArrayTypeOK
  <2>4. \A i \in 0 .. end - 1 : contents'[i] = contents[i]
    BY <1>1, <2>2
  <2>5. contents'[end] = el
    BY <1>1, <2>2
  <2>6. popped' = popped
    BY DEF DArray_push
  <2>7. \A i \in 0 .. end' - 1 : contents'[i] \in Elements
    BY <1>1, <2>4, <2>5 DEF ArrayInv, RoomAndWritten
  <2> QED
    <3>1. ArrayTypeOK'
      <4>1. end' \in Nat
        BY <1>1
      <4> QED
        BY <2>2, <2>3, <2>6, <4>1, Zenon DEF ArrayInv, ArrayTypeOK
    <3>2. RoomAndWritten'
      BY <2>3, <2>7 DEF RoomAndWritten
    <3> QED
      BY <1>1, <2>4, <2>5, <3>1, <3>2 DEF ArrayInv
<1>3. CASE ~Full(end + 1)
  <2>1. max' = max /\ contents' = slots /\ end + 1 < max
    BY <1>1, <1>3 DEF DArray_push, Full, ArrayInv, ArrayTypeOK
  <2> QED
    BY <1>1, <2>1 DEF ArrayInv, ArrayTypeOK, RoomAndWritten, DArray_push
<1> QED
  BY <1>2, <1>3

\* What a pop leaves when there is something to pop.
LEMMA PopKeeps ==
  ASSUME ArrayInv, DArray_pop, end # 0
  PROVE  /\ ArrayInv'
         /\ end' = end - 1
         /\ popped' = contents[end - 1]
         /\ \A i \in 0 .. end - 2 : contents'[i] = contents[i]
<1> DEFINE e == end - 1
           slots == [contents EXCEPT ![end - 1] = NullPtr]
<1>1. /\ e \in Nat /\ e < max - 1 /\ end - 1 >= 0
      /\ max \in Nat
      /\ slots \in [0 .. max - 1 -> Slots]
      /\ \A i \in 0 .. e - 1 : slots[i] = contents[i] /\ slots[i] \in Elements
      /\ contents[e] \in Elements
  BY DEF ArrayInv, ArrayTypeOK, RoomAndWritten, Slots
<1>2. end' = e /\ popped' = contents[e]
  BY <1>1 DEF DArray_pop
<1>3. CASE e > ExpandRate /\ e % ExpandRate # 0
  <2>1. max' = Contracted(e) /\ contents' = Resized(slots, max, Contracted(e))
    BY <1>1, <1>3 DEF DArray_pop
  <2>2. Contracted(e) \in Nat \ {0} /\ e < Contracted(e)
    BY <1>1, DArrayAssumption DEF Contracted
  <2> HIDE DEF slots, e
  <2>3. /\ contents' \in [0 .. max' - 1 -> Slots]
        /\ \A i \in 0 .. max' - 1 : i < max => contents'[i] = slots[i]
    <3>1. LET new == Contracted(e)
          IN  /\ Resized(slots, max, new) \in [0 .. new - 1 -> Slots]
              /\ \A i \in 0 .. new - 1 :
                   i < max => Resized(slots, max, new)[i] = slots[i]
      BY <1>1, <2>2, ResizedType
    <3> QED
      BY <2>1, <3>1
  <2>4. \A i \in 0 .. e - 1 : contents'[i] = contents[i]
    BY <1>1, <2>1, <2>2, <2>3
  <2>5. \A i \in 0 .. e - 1 : contents'[i] \in Elements
    BY <1>1, <2>4
  <2>6. ArrayTypeOK'
    BY <1>1, <1>2, <2>1, <2>2, <2>3 DEF ArrayTypeOK
  <2>7. RoomAndWritten'
    BY <1>2, <2>1, <2>2, <2>5 DEF RoomAndWritten
  <2> QED
    <3>1. end' = end - 1 /\ popped' = contents[end - 1]
      BY <1>2 DEF e
    <3>2. 0 .. e - 1 = 0 .. end - 2
      BY DEF e, ArrayInv, ArrayTypeOK
    <3>3. \A i \in 0 .. end - 2 : contents'[i] = contents[i]
      BY <2>4, <3>2
    <3> QED
      BY <2>6, <2>7, <3>1, <3>3 DEF ArrayInv
<1>4. CASE ~(e > ExpandRate /\ e % ExpandRate # 0)
  <2>1. max' = max /\ contents' = slots
    BY <1>1, <1>4 DEF DArray_pop
  <2> QED
    BY <1>1, <1>2, <2>1 DEF ArrayInv, ArrayTypeOK, RoomAndWritten
<1> QED
  BY <1>3, <1>4

\* A pop of an empty array and a set keep the block.
LEMMA SetKeeps ==
  ASSUME ArrayInv, NEW i \in 0 .. end - 1, NEW el \in Elements, DArray_set(i, el)
  PROVE  ArrayInv' /\ end' = end /\ contents' = [contents EXCEPT ![i] = el]
<1>1. end' = end /\ max' = max /\ popped' = popped
      /\ contents' = [contents EXCEPT ![i] = el]
  BY DEF ArrayInv, ArrayTypeOK, DArray_set
<1> QED
  BY <1>1 DEF ArrayInv, ArrayTypeOK, RoomAndWritten, Slots

\* Every step keeps the invariant.
LEMMA ArrayInvStep == ArrayInv /\ [ArrayNext]_arrayVars => ArrayInv'
<1> SUFFICES ASSUME ArrayInv, [ArrayNext]_arrayVars PROVE ArrayInv'
  OBVIOUS
<1>1. ASSUME NEW el \in Elements, DArray_push(el) PROVE ArrayInv'
  BY <1>1, PushKeeps
<1>2. CASE DArray_pop
  <2>1. CASE end # 0
    BY <1>2, <2>1, PopKeeps
  <2>2. CASE end = 0
    BY <1>2, <2>2 DEF DArray_pop, ArrayInv, ArrayTypeOK, RoomAndWritten
  <2> QED
    BY <2>1, <2>2
<1>3. ASSUME NEW i \in 0 .. end - 1, NEW el \in Elements, DArray_set(i, el) PROVE ArrayInv'
  BY <1>3, SetKeeps
<1>4. CASE UNCHANGED arrayVars
  BY <1>4 DEF arrayVars, ArrayInv, ArrayTypeOK, RoomAndWritten
<1> QED
  BY <1>1, <1>2, <1>3, <1>4 DEF ArrayNext

\* The array always has its types ...
THEOREM ArrayTypes == ArraySpec => []ArrayTypeOK
  BY ArrayInvInit, ArrayInvStep, PTL DEF ArraySpec, ArrayInv

\* ... and always room for the next element: DArray_push, which does not look,
\* never writes past its block, and no slot in use was left unwritten.
THEOREM ArrayHasRoom == ArraySpec => []RoomAndWritten
  BY ArrayInvInit, ArrayInvStep, PTL DEF ArraySpec, ArrayInv

-----------------------------------------------------------------------------
(* It implements a list.                                                   *)

\* The abstract list is a sequence, as long as the array is full.
LEMMA ItemsSeq ==
  ASSUME ArrayInv
  PROVE  /\ Items \in Seq(Elements)
         /\ Len(Items) = end
         /\ \A i \in 1 .. end : Items[i] = contents[i - 1]
<1>1. end \in Nat /\ \A i \in 1 .. end : contents[i - 1] \in Elements
  BY DEF ArrayInv, ArrayTypeOK, RoomAndWritten
<1> QED
  BY <1>1 DEF Items

\* Every step of the array is a step of the list, or none.
LEMMA ListStep == ArrayInv /\ [ArrayNext]_arrayVars => [AbstractList!Next]_(AbstractList!vars)
<1> SUFFICES ASSUME ArrayInv, [ArrayNext]_arrayVars
             PROVE  [AbstractList!Next]_(AbstractList!vars)
  OBVIOUS
<1>a. /\ Items \in Seq(Elements) /\ Len(Items) = end /\ end \in Nat
      /\ \A i \in 1 .. end : Items[i] = contents[i - 1]
  BY ItemsSeq DEF ArrayInv, ArrayTypeOK
<1>b. ArrayInv'
  BY ArrayInvStep
<1>c. /\ Items' \in Seq(Elements) /\ Len(Items') = end' /\ end' \in Nat
      /\ \A i \in 1 .. end' : Items'[i] = contents'[i - 1]
  <2>1. end' \in Nat /\ \A i \in 0 .. end' - 1 : contents'[i] \in Elements
    BY <1>b DEF ArrayInv, ArrayTypeOK, RoomAndWritten
  <2>2. ASSUME NEW i \in 1 .. end' PROVE contents'[i - 1] \in Elements
    <3>1. PICK e \in Nat : e = end'
      BY <2>1
    <3>2. i \in 1 .. e
      BY <3>1
    <3>3. i - 1 \in 0 .. e - 1
      BY ONLY e \in Nat, <3>2
    <3>4. \A j \in 0 .. e - 1 : contents'[j] \in Elements
      BY <2>1, <3>1
    <3> QED
      BY <3>3, <3>4
  <2> QED
    BY <2>1, <2>2 DEF Items
<1>1. ASSUME NEW el \in Elements, DArray_push(el) PROVE AbstractList!Put(el)
  <2>1. /\ end' = end + 1 /\ contents'[end] = el
        /\ \A i \in 0 .. end - 1 : contents'[i] = contents[i]
    BY <1>1, PushKeeps
  <2>2. Append(Items, el) \in Seq(Elements) /\ Len(Append(Items, el)) = end + 1
        /\ \A i \in 1 .. end : Append(Items, el)[i] = Items[i]
        /\ Append(Items, el)[end + 1] = el
    BY <1>a, <1>1, AppendProperties
  <2>3. ASSUME NEW i \in 1 .. end + 1 PROVE Items'[i] = Append(Items, el)[i]
    <3>1. Items'[i] = contents'[i - 1]
      BY <1>c, <2>1
    <3>2. CASE i = end + 1
      BY <1>a, <2>1, <2>2, <3>1, <3>2
    <3>3. CASE i \in 1 .. end
      <4>1. i - 1 \in 0 .. end - 1
        BY <1>a, <3>3
      <4> QED
        BY <1>a, <2>1, <2>2, <3>1, <3>3, <4>1
    <3> QED
      BY <1>a, <3>2, <3>3
  <2>4. Items' = Append(Items, el)
    BY <1>c, <2>1, <2>2, <2>3, SeqEqual
  <2> QED
    BY <1>1, <2>4 DEF AbstractList!Put, DArray_push
<1>2. CASE DArray_pop /\ end # 0
  <2>1. /\ end' = end - 1 /\ popped' = contents[end - 1]
        /\ \A i \in 0 .. end - 2 : contents'[i] = contents[i]
    BY <1>2, PopKeeps
  <2>2. /\ SubSeq(Items, 1, end - 1) \in Seq(Elements)
        /\ Len(SubSeq(Items, 1, end - 1)) = end - 1
        /\ \A i \in 1 .. end - 1 : SubSeq(Items, 1, end - 1)[i] = Items[i]
    BY <1>a, <1>2
  <2>3. ASSUME NEW i \in 1 .. end - 1
        PROVE  Items'[i] = SubSeq(Items, 1, end - 1)[i]
    <3>1. i - 1 \in 0 .. end - 2 /\ i \in 1 .. end
      BY <1>a
    <3>2. Items'[i] = contents'[i - 1] /\ Items[i] = contents[i - 1]
      BY <1>a, <1>c, <2>1, <3>1
    <3> QED
      BY <2>1, <2>2, <3>1, <3>2
  <2>4. Items' = SubSeq(Items, 1, end - 1)
    BY <1>c, <2>1, <2>2, <2>3, SeqEqual
  <2>5. Items # <<>> /\ popped' = Items[Len(Items)]
    BY <1>a, <1>2, <2>1
  <2> QED
    BY <1>a, <2>4, <2>5 DEF AbstractList!Take, AbstractList!Next
<1>3. CASE DArray_pop /\ end = 0
  <2>1. popped' = NullPtr /\ UNCHANGED <<end, contents>>
    BY <1>3 DEF DArray_pop
  <2>2. Items = <<>> /\ UNCHANGED Items
    BY <1>a, <1>3, <2>1 DEF Items
  <2> QED
    BY <2>1, <2>2 DEF AbstractList!Take, AbstractList!Next
<1>4. ASSUME NEW i \in 0 .. end - 1, NEW el \in Elements, DArray_set(i, el)
      PROVE  AbstractList!Replace(i + 1, el)
  <2>1. end' = end /\ contents' = [contents EXCEPT ![i] = el]
    BY <1>4, SetKeeps
  <2>2. /\ i + 1 \in 1 .. Len(Items)
        /\ [Items EXCEPT ![i + 1] = el] \in Seq(Elements)
        /\ Len([Items EXCEPT ![i + 1] = el]) = end
    BY <1>a, <1>4, ExceptSeq
  <2>3. \A j \in 1 .. end : Items'[j] = [Items EXCEPT ![i + 1] = el][j]
    BY <1>a, <1>c, <1>4, <2>1, <2>2 DEF ArrayInv, ArrayTypeOK, RoomAndWritten
  <2>4. Items' = [Items EXCEPT ![i + 1] = el]
    BY <1>c, <2>1, <2>2, <2>3, SeqEqual
  <2> QED
    BY <1>4, <2>2, <2>4 DEF AbstractList!Replace, DArray_set
<1>5. CASE UNCHANGED arrayVars
  BY <1>5 DEF arrayVars, AbstractList!vars, Items
<1>6. ASSUME NEW i \in 0 .. end - 1, NEW el \in Elements, DArray_set(i, el)
      PROVE  AbstractList!Next
  <2>1. i + 1 \in 1 .. Len(Items)
    BY <1>a, <1>6
  <2> QED
    BY <1>4, <1>6, <2>1 DEF AbstractList!Next
<1> QED
  BY <1>1, <1>2, <1>3, <1>5, <1>6 DEF ArrayNext, AbstractList!Next

\* The array implements the list.
THEOREM ArrayIsAList == ArraySpec => ImplementsList
<1>1. ArrayInit => AbstractList!Init
  BY DEF ArrayInit, AbstractList!Init, Items
<1> QED
  BY <1>1, ArrayInvInit, ArrayInvStep, ListStep, PTL
     DEF ArraySpec, ImplementsList, AbstractList!Spec

-----------------------------------------------------------------------------
(* The map: operators.                                                     *)

Entry == Keys \X Data

\* The first entry of a key in a history h is one with the data d, and a bucket
\* the nodes of which are s has its first node of the key with d.
FirstEntry(h, key, d) ==
  \E m \in 1 .. Len(h) :
    h[m] = <<key, d>> /\ \A n \in 1 .. m - 1 : h[n][1] # key

NoEntry(h, key) == \A m \in 1 .. Len(h) : h[m][1] # key

FirstNode(s, key, d) ==
  \E m \in 1 .. Len(s) :
    s[m].key = key /\ s[m].data = d /\ \A n \in 1 .. m - 1 : s[n].key # key

NoNode(s, key) == \A m \in 1 .. Len(s) : s[m].key # key

\* What follows the first entry of a key does not matter.
LEMMA EntryAppended ==
  ASSUME NEW h \in Seq(Entry), NEW key \in Keys, NEW e \in Entry
  PROVE  /\ \A d : FirstEntry(h, key, d) => FirstEntry(Append(h, e), key, d)
         /\ NoEntry(h, key) /\ e[1] = key => FirstEntry(Append(h, e), key, e[2])
         /\ NoEntry(h, key) /\ e[1] # key => NoEntry(Append(h, e), key)
<1> DEFINE g == Append(h, e)
<1>1. /\ Len(h) \in Nat /\ Len(g) = Len(h) + 1 /\ g[Len(h) + 1] = e
      /\ \A m \in 1 .. Len(h) : g[m] = h[m]
  BY AppendProperties
<1>2. e = <<e[1], e[2]>>
  BY DEF Entry
<1> HIDE DEF g
<1>3. \A d : FirstEntry(h, key, d) => FirstEntry(g, key, d)
  BY <1>1 DEF FirstEntry
<1>4. NoEntry(h, key) /\ e[1] = key => FirstEntry(g, key, e[2])
  <2> SUFFICES ASSUME NoEntry(h, key), e[1] = key
               PROVE  FirstEntry(g, key, e[2])
    OBVIOUS
  <2>1. Len(h) + 1 \in 1 .. Len(g) /\ g[Len(h) + 1] = <<key, e[2]>>
    BY <1>1, <1>2
  <2>2. \A n \in 1 .. (Len(h) + 1) - 1 : g[n][1] # key
    BY <1>1 DEF NoEntry
  <2> QED
    BY <2>1, <2>2 DEF FirstEntry
<1>5. NoEntry(h, key) /\ e[1] # key => NoEntry(g, key)
  BY <1>1 DEF NoEntry
<1> QED
  BY <1>3, <1>4, <1>5 DEF g

\* The same of nodes.
LEMMA NodeAppended ==
  ASSUME NEW s \in Seq(Nodes), NEW key \in Keys, NEW node \in Nodes
  PROVE  /\ \A d : FirstNode(s, key, d) => FirstNode(Append(s, node), key, d)
         /\ NoNode(s, key) /\ node.key = key =>
              FirstNode(Append(s, node), key, node.data)
         /\ NoNode(s, key) /\ node.key # key => NoNode(Append(s, node), key)
<1> DEFINE g == Append(s, node)
<1>1. /\ Len(s) \in Nat /\ Len(g) = Len(s) + 1 /\ g[Len(s) + 1] = node
      /\ \A m \in 1 .. Len(s) : g[m] = s[m]
  BY AppendProperties
<1> HIDE DEF g
<1>2. \A d : FirstNode(s, key, d) => FirstNode(g, key, d)
  BY <1>1 DEF FirstNode
<1>3. NoNode(s, key) /\ node.key = key => FirstNode(g, key, node.data)
  BY <1>1 DEF NoNode, FirstNode
<1>4. NoNode(s, key) /\ node.key # key => NoNode(g, key)
  BY <1>1 DEF NoNode
<1> QED
  BY <1>2, <1>3, <1>4 DEF g

\* Nor does an entry of another key that is taken out.
LEMMA EntryRemoved ==
  ASSUME NEW h \in Seq(Entry), NEW key \in Keys, NEW i \in 0 .. Len(h),
         i = 0 \/ h[i][1] # key
  PROVE  /\ RemoveAt(h, i) \in Seq(Entry)
         /\ \A d : FirstEntry(h, key, d) => FirstEntry(RemoveAt(h, i), key, d)
         /\ NoEntry(h, key) => NoEntry(RemoveAt(h, i), key)
<1> DEFINE g == RemoveAt(h, i)
<1>1. CASE i = 0
  BY <1>1, RemoveNone
<1>2. CASE i > 0
  <2>1. /\ g \in Seq(Entry) /\ Len(g) = Len(h) - 1
        /\ \A m \in 1 .. i - 1 : g[m] = h[m]
        /\ \A m \in i .. Len(h) - 1 : g[m] = h[m + 1]
    BY <1>2, RemoveOne
  <2> HIDE DEF g
  <2>2. ASSUME NEW d, FirstEntry(h, key, d)
        PROVE  FirstEntry(g, key, d)
    <3>1. PICK m \in 1 .. Len(h) :
            h[m] = <<key, d>> /\ \A n \in 1 .. m - 1 : h[n][1] # key
      BY <2>2 DEF FirstEntry
    <3>2. m # i
      BY <1>2, <3>1
    <3>3. CASE m < i
      <4>1. /\ m \in 1 .. Len(g) /\ g[m] = <<key, d>>
            /\ \A n \in 1 .. m - 1 : g[n][1] # key
        BY <2>1, <3>1, <3>3
      <4> QED
        BY <4>1 DEF FirstEntry
    <3>4. CASE m > i
      <4>1. m - 1 \in 1 .. Len(g) /\ g[m - 1] = <<key, d>>
        BY <1>2, <2>1, <3>1, <3>4
      <4>2. ASSUME NEW n \in 1 .. (m - 1) - 1
            PROVE  g[n][1] # key
        BY <1>2, <2>1, <3>1, <3>4
      <4> QED
        BY <4>1, <4>2 DEF FirstEntry
    <3> QED
      BY <3>2, <3>3, <3>4
  <2>3. ASSUME NoEntry(h, key)
        PROVE  NoEntry(g, key)
    <3> SUFFICES ASSUME NEW m \in 1 .. Len(g)
                 PROVE  g[m][1] # key
      BY DEF NoEntry
    <3> QED
      BY <1>2, <2>1, <2>3 DEF NoEntry
  <2> QED
    BY <2>1, <2>2, <2>3 DEF g
<1> QED
  BY <1>1, <1>2

-----------------------------------------------------------------------------
(* The invariant.                                                          *)

Bucket == 0 .. Buckets - 1

\* The nodes of a bucket, none before its first use.
NodesIn(b) == IF buckets[b] = NULL THEN <<>> ELSE buckets[b]

\* A node carries the hash of its key and is in the bucket of that hash.
AtHome(node, b) == node.hash = Hash[node.key] /\ BucketOf(node.key) = b

MapTypes ==
  /\ buckets \in [Bucket -> {NULL} \cup Seq(Nodes)]
  /\ \A b \in Bucket : \A m \in 1 .. Len(NodesIn(b)) : AtHome(NodesIn(b)[m], b)
  /\ result \in Data \cup {NULL}
  /\ history \in Seq(Entry)
  /\ disturbed \subseteq Bucket

\* Bucket and history agree on which entry of the key is the first.
Agree(key) ==
  \/ NoEntry(history, key) /\ NoNode(NodesIn(BucketOf(key)), key)
  \/ \E d \in Data : /\ FirstEntry(history, key, d)
                     /\ FirstNode(NodesIn(BucketOf(key)), key, d)

MapInv ==
  /\ MapTypes
  /\ \A key \in Keys : BucketOf(key) \notin disturbed => Agree(key)

LEMMA BucketIsOne ==
  ASSUME HashmapAssumption, NEW key \in Keys
  PROVE  BucketOf(key) \in Bucket /\ Hash[key] \in Range(Hash)
BY DEF HashmapAssumption, BucketOf, Bucket, Range

\* What a bucket holds.
LEMMA NodesInBucket ==
  ASSUME HashmapAssumption, MapTypes, NEW b \in Bucket
  PROVE  /\ NodesIn(b) \in Seq(Nodes) /\ Len(NodesIn(b)) \in Nat
         /\ \A m \in 1 .. Len(NodesIn(b)) :
              NodesIn(b)[m] \in Nodes /\ AtHome(NodesIn(b)[m], b)
<1>1. NodesIn(b) \in Seq(Nodes)
  <2>1. buckets[b] \in {NULL} \cup Seq(Nodes)
    BY DEF MapTypes
  <2>2. <<>> \in Seq(Nodes)
    OBVIOUS
  <2> QED
    BY <2>1, <2>2 DEF NodesIn
<1>2. Len(NodesIn(b)) \in Nat /\ \A m \in 1 .. Len(NodesIn(b)) : NodesIn(b)[m] \in Nodes
  BY <1>1, ElementOfSeq, LenProperties
<1> QED
  BY <1>1, <1>2 DEF MapTypes

\* Hashmap_get_node finds the first node of the key, if there is one.
LEMMA PositionIsFirst ==
  ASSUME HashmapAssumption, MapTypes, NEW key \in Keys
  PROVE  LET s == NodesIn(BucketOf(key))
         IN  \/ Position(key) = 0 /\ NoNode(s, key)
             \/ /\ Position(key) \in 1 .. Len(s)
                /\ s = buckets[BucketOf(key)]
                /\ s[Position(key)].key = key
                /\ \A n \in 1 .. Position(key) - 1 : s[n].key # key
<1> DEFINE b == BucketOf(key)
           s == NodesIn(b)
           I == {m \in 1 .. Len(buckets[b]) : Same(key, buckets[b][m])}
<1>1. b \in Bucket
  BY BucketIsOne
<1>2. CASE buckets[b] = NULL
  <2>1. Position(key) = 0 /\ s = <<>>
    BY <1>2 DEF Position, NodesIn
  <2> QED
    BY <2>1 DEF NoNode
<1>3. CASE buckets[b] # NULL
  <2>1. s = buckets[b]
    BY <1>3 DEF NodesIn
  <2>2. Position(key) = IF I # {} THEN Min(I) ELSE 0
    BY <1>3 DEF Position, SelectInSeq
  <2>3. /\ Len(s) \in Nat
        /\ \A m \in 1 .. Len(s) : Same(key, s[m]) <=> s[m].key = key
    BY <1>1, NodesInBucket DEF AtHome, Same
  <2>4. I = {m \in 1 .. Len(s) : s[m].key = key}
    BY <2>1, <2>3
  <2> HIDE DEF I, s, b
  <2>5. CASE I = {}
    <3>1. NoNode(s, key)
      BY <2>4, <2>5 DEF NoNode
    <3> QED
      BY <2>2, <2>5, <3>1 DEF s, b
  <2>6. CASE I # {}
    <3>1. I \in SUBSET (1 .. Len(s))
      BY <2>4
    <3>. Len(s) \in Nat
      BY <2>3
    <3>. DEFINE first == Min(I)
    <3>. Position(key) = first
      BY <2>2, <2>6
    <3>. first \in I /\ \A x \in I : first <= x
      BY <2>6, <3>1, FirstPosition
    <3>. HIDE DEF first
    <3>2. Position(key) \in I /\ \A x \in I : Position(key) <= x
      OBVIOUS
    <3>3. \A n \in 1 .. Position(key) - 1 : s[n].key # key
      BY <2>3, <2>4, <3>2
    <3>4. Position(key) \in 1 .. Len(s) /\ s[Position(key)].key = key
      BY <2>4, <3>2
    <3> QED
      BY <2>1, <3>3, <3>4 DEF s, b
  <2> QED
    BY <2>5, <2>6
<1> QED
  BY <1>2, <1>3

\* So a lookup returns the data of the first node of the key.
LEMMA FoundIsFirst ==
  ASSUME HashmapAssumption, MapTypes, NEW key \in Keys
  PROVE  LET s == NodesIn(BucketOf(key))
         IN  /\ NoNode(s, key) => Found(key) = NULL
             /\ \A d : FirstNode(s, key, d) => Found(key) = d
             /\ Found(key) \in Data \cup {NULL}
<1> DEFINE s == NodesIn(BucketOf(key))
<1>1. s \in Seq(Nodes) /\ \A m \in 1 .. Len(s) : s[m] \in Nodes
  BY BucketIsOne, NodesInBucket
<1>2. CASE Position(key) = 0 /\ NoNode(s, key)
  BY <1>2 DEF Found, NoNode, FirstNode
<1>3. CASE /\ Position(key) \in 1 .. Len(s)
           /\ s = buckets[BucketOf(key)]
           /\ s[Position(key)].key = key
           /\ \A n \in 1 .. Position(key) - 1 : s[n].key # key
  <2>1. Found(key) = s[Position(key)].data
    BY <1>3 DEF Found
  <2>2. Found(key) \in Data
    BY <1>1, <1>3, <2>1 DEF Nodes
  <2>3. ~NoNode(s, key)
    BY <1>3 DEF NoNode
  <2>4. ASSUME NEW d, FirstNode(s, key, d)
        PROVE  Found(key) = d
    <3>1. PICK m \in 1 .. Len(s) :
            s[m].key = key /\ s[m].data = d /\ \A n \in 1 .. m - 1 : s[n].key # key
      BY <2>4 DEF FirstNode
    <3>2. m = Position(key)
      BY <1>3, <3>1
    <3> QED
      BY <2>1, <3>1, <3>2
  <2> QED
    BY <2>2, <2>3, <2>4
<1> QED
  BY <1>2, <1>3, PositionIsFirst

LEMMA MapInvImplies ==
  ASSUME HashmapAssumption, MapInv
  PROVE  TypeOK /\ FirstSetIsFound
<1>1. TypeOK
  <2>1. ASSUME NEW b \in 0 .. Buckets - 1
        PROVE  \/ buckets[b] = NULL
               \/ /\ buckets[b] \in Seq(Nodes)
                  /\ \A m \in DOMAIN buckets[b] :
                       LET node == buckets[b][m]
                       IN  node.hash = Hash[node.key] /\ node.hash % Buckets = b
    <3> SUFFICES ASSUME buckets[b] # NULL
                 PROVE  /\ buckets[b] \in Seq(Nodes)
                        /\ \A m \in DOMAIN buckets[b] :
                             /\ buckets[b][m].hash = Hash[buckets[b][m].key]
                             /\ buckets[b][m].hash % Buckets = b
      OBVIOUS
    <3>1. b \in Bucket /\ NodesIn(b) = buckets[b] /\ MapTypes
      BY DEF Bucket, NodesIn, MapInv
    <3>2. /\ buckets[b] \in Seq(Nodes) /\ DOMAIN buckets[b] = 1 .. Len(buckets[b])
          /\ \A m \in 1 .. Len(buckets[b]) : AtHome(buckets[b][m], b)
      BY <3>1, NodesInBucket, LenProperties
    <3> QED
      BY <3>2 DEF AtHome, BucketOf
  <2> QED
    BY <2>1 DEF MapInv, MapTypes, TypeOK, Entry, Bucket
<1>2. FirstSetIsFound
  <2> SUFFICES ASSUME NEW key \in Keys, BucketOf(key) \notin disturbed
               PROVE  LET n == SelectInSeq(history, LAMBDA e : e[1] = key)
                      IN  Found(key) = IF n = 0 THEN NULL ELSE history[n][2]
    BY DEF FirstSetIsFound
  <2> DEFINE I == {m \in 1 .. Len(history) : history[m][1] = key}
             n == SelectInSeq(history, LAMBDA e : e[1] = key)
  <2>1. n = IF I # {} THEN Min(I) ELSE 0
    BY DEF SelectInSeq
  <2>2. Agree(key) /\ MapTypes /\ Len(history) \in Nat
    BY LenProperties DEF MapInv, MapTypes
  <2>3. CASE NoEntry(history, key) /\ NoNode(NodesIn(BucketOf(key)), key)
    <3>1. I = {}
      BY <2>3 DEF NoEntry
    <3>2. Found(key) = NULL
      BY <2>2, <2>3, FoundIsFirst
    <3> QED
      BY <2>1, <3>1, <3>2
  <2>4. CASE \E d \in Data : /\ FirstEntry(history, key, d)
                             /\ FirstNode(NodesIn(BucketOf(key)), key, d)
    <3>1. PICK d \in Data : /\ FirstEntry(history, key, d)
                            /\ FirstNode(NodesIn(BucketOf(key)), key, d)
      BY <2>4
    <3>2. PICK m \in 1 .. Len(history) :
            history[m] = <<key, d>> /\ \A x \in 1 .. m - 1 : history[x][1] # key
      BY <3>1 DEF FirstEntry
    <3>3. m \in I
      BY <3>2
    <3>4. I \in SUBSET (1 .. Len(history))
      OBVIOUS
    <3>5. \A x \in I : history[x][1] = key
      OBVIOUS
    <3> HIDE DEF I, n
    <3>6. n \in I /\ n <= m
      BY <2>1, <2>2, <3>3, <3>4, FirstPosition
    <3>7. n = m
      <4>1. n \in 1 .. Len(history) /\ history[n][1] = key
        BY <3>4, <3>5, <3>6
      <4>2. n \notin 1 .. m - 1
        BY <3>2, <4>1
      <4> QED
        BY <2>2, <3>6, <4>1, <4>2
    <3>8. Found(key) = d /\ n # 0 /\ history[n][2] = d
      BY <2>2, <3>1, <3>2, <3>7, FoundIsFirst
    <3> QED
      BY <3>8 DEF n
  <2> QED
    BY <2>2, <2>3, <2>4 DEF Agree
<1> QED
  BY <1>1, <1>2

-----------------------------------------------------------------------------
(* The steps.                                                              *)

\* A map that was just created.
LEMMA FreshMap ==
  ASSUME HashmapAssumption, buckets = [b \in 0 .. Buckets - 1 |-> NULL],
         result \in Data \cup {NULL}, history = <<>>, disturbed = {}
  PROVE  MapInv
<1>1. \A b \in Bucket : NodesIn(b) = <<>>
  BY DEF NodesIn, Bucket
<1>2. MapTypes
  BY <1>1 DEF MapTypes, Bucket
<1>3. ASSUME NEW key \in Keys
      PROVE  Agree(key)
  BY <1>1, BucketIsOne DEF Agree, NoEntry, NoNode
<1> QED
  BY <1>2, <1>3 DEF MapInv

\* A step that looks a key up.
LEMMA SameMap ==
  ASSUME MapInv, UNCHANGED <<buckets, history, disturbed>>,
         result' \in Data \cup {NULL}
  PROVE  MapInv'
<1>1. \A b : NodesIn(b)' = NodesIn(b)
  BY DEF NodesIn
<1>2. MapTypes'
  BY <1>1 DEF MapInv, MapTypes, AtHome, BucketOf
<1>3. ASSUME NEW key \in Keys, BucketOf(key) \notin disturbed
      PROVE  Agree(key)'
  <2>1. Agree(key)
    BY <1>3 DEF MapInv
  <2>2. history' = history /\ NodesIn(BucketOf(key))' = NodesIn(BucketOf(key))
    BY <1>1 DEF BucketOf
  <2>3. Agree(key)' <=> Agree(key)
    BY <2>2 DEF Agree, NoEntry, NoNode, FirstEntry, FirstNode
  <2> QED
    BY <2>1, <2>3
<1> QED
  BY <1>2, <1>3 DEF MapInv, BucketOf

\* The node of an entry that is set.
NodeOf(key, d) == [key |-> key, hash |-> Hash[key], data |-> d]

\* Hashmap_set puts the node behind those of its bucket.
LEMMA SetChanges ==
  ASSUME HashmapAssumption, MapTypes, NEW key \in Keys, NEW d \in Data, Set(key, d)
  PROVE  /\ NodeOf(key, d) \in Nodes /\ AtHome(NodeOf(key, d), BucketOf(key))
         /\ buckets' \in [Bucket -> {NULL} \cup Seq(Nodes)]
         /\ \A b \in Bucket :
              NodesIn(b)' = IF b = BucketOf(key)
                              THEN Append(NodesIn(b), NodeOf(key, d))
                              ELSE NodesIn(b)
         /\ history' = Append(history, <<key, d>>)
         /\ UNCHANGED <<result, disturbed>>
<1> DEFINE b0 == BucketOf(key)
           node == NodeOf(key, d)
<1>1. b0 \in Bucket /\ Hash[key] \in Range(Hash)
  BY BucketIsOne
<1>2. node \in Nodes /\ AtHome(node, b0)
  BY <1>1 DEF NodeOf, Nodes, AtHome
<1>3. /\ buckets' = [buckets EXCEPT ![b0] =
                       IF @ = NULL THEN <<node>> ELSE Append(@, node)]
      /\ history' = Append(history, <<key, d>>)
      /\ UNCHANGED <<result, disturbed>>
  BY DEF Set, NodeOf
<1> HIDE DEF b0, node
<1>4. /\ buckets \in [Bucket -> {NULL} \cup Seq(Nodes)]
      /\ <<node>> \in Seq(Nodes) /\ <<node>> = Append(<<>>, node)
  BY <1>2 DEF MapTypes
<1>5. buckets[b0] # NULL =>
        buckets[b0] \in Seq(Nodes) /\ Append(buckets[b0], node) \in Seq(Nodes)
  BY <1>1, <1>2, <1>4, AppendProperties
<1>6. <<node>> # NULL /\ (buckets[b0] # NULL => Append(buckets[b0], node) # NULL)
  BY <1>4, <1>5 DEF HashmapAssumption
<1>7. buckets' \in [Bucket -> {NULL} \cup Seq(Nodes)]
  BY <1>1, <1>3, <1>4, <1>5
<1>8. ASSUME NEW b \in Bucket
      PROVE  NodesIn(b)' = IF b = b0 THEN Append(NodesIn(b), node) ELSE NodesIn(b)
  <2>1. buckets'[b] = IF b = b0
                        THEN IF buckets[b] = NULL THEN <<node>>
                                                  ELSE Append(buckets[b], node)
                        ELSE buckets[b]
    BY <1>1, <1>3, <1>4
  <2> QED
    BY <1>4, <1>6, <2>1 DEF NodesIn
<1> QED
  BY <1>2, <1>3, <1>7, <1>8 DEF b0, node

LEMMA SetStep ==
  ASSUME HashmapAssumption, MapInv, NEW key \in Keys, NEW d \in Data, Set(key, d)
  PROVE  MapInv'
<1> DEFINE b0 == BucketOf(key)
           node == NodeOf(key, d)
<1>1. MapTypes /\ history \in Seq(Entry) /\ <<key, d>> \in Entry
  BY DEF MapInv, MapTypes, Entry
<1>2. /\ node \in Nodes /\ AtHome(node, b0) /\ b0 \in Bucket
      /\ node.key = key /\ node.data = d
      /\ buckets' \in [Bucket -> {NULL} \cup Seq(Nodes)]
      /\ \A b \in Bucket :
           NodesIn(b)' = IF b = b0 THEN Append(NodesIn(b), node) ELSE NodesIn(b)
      /\ history' = Append(history, <<key, d>>)
      /\ UNCHANGED <<result, disturbed>>
  BY <1>1, SetChanges, BucketIsOne DEF NodeOf
<1> HIDE DEF b0, node
<1>3. MapTypes'
  <2>1. ASSUME NEW b \in Bucket, NEW m \in 1 .. Len(NodesIn(b)')
        PROVE  AtHome(NodesIn(b)'[m], b)
    <3>1. /\ NodesIn(b) \in Seq(Nodes)
          /\ \A n \in 1 .. Len(NodesIn(b)) : AtHome(NodesIn(b)[n], b)
      BY <1>1, NodesInBucket
    <3>2. CASE b = b0
      <4> DEFINE s == NodesIn(b)
                 t == Append(s, node)
      <4>1. NodesIn(b)' = t
        BY <1>2, <3>2
      <4>2. /\ Len(s) \in Nat /\ Len(t) = Len(s) + 1 /\ t[Len(s) + 1] = node
            /\ \A n \in 1 .. Len(s) : t[n] = s[n]
        BY <1>2, <3>1, AppendProperties
      <4> HIDE DEF s, t
      <4>3. \A n \in 1 .. Len(t) : AtHome(t[n], b)
        <5>1. \A n \in 1 .. Len(s) : AtHome(s[n], b)
          BY <3>1 DEF s
        <5>2. \A n \in 1 .. Len(t) : n = Len(s) + 1 \/ n \in 1 .. Len(s)
          BY <4>2
        <5> QED
          BY <1>2, <3>2, <4>2, <5>1, <5>2
      <4> QED
        BY <2>1, <4>1, <4>3
    <3>3. CASE b # b0
      BY <1>2, <2>1, <3>1, <3>3
    <3> QED
      BY <3>2, <3>3
  <2>2. \A b \in Bucket : \A m \in 1 .. Len(NodesIn(b)') :
          AtHome(NodesIn(b)[m], b)'
    BY <2>1 DEF AtHome, BucketOf
  <2>3. history' \in Seq(Entry)
    BY <1>1, <1>2, AppendProperties
  <2> QED
    BY <1>1, <1>2, <2>2, <2>3 DEF MapTypes
<1>4. ASSUME NEW k \in Keys, BucketOf(k) \notin disturbed
      PROVE  Agree(k)'
  <2> DEFINE b == BucketOf(k)
             s == NodesIn(b)
  <2>1. b \in Bucket /\ s \in Seq(Nodes) /\ Agree(k)
    BY <1>1, <1>4, BucketIsOne, NodesInBucket DEF MapInv
  <2>2. /\ history' = Append(history, <<key, d>>)
        /\ s' = IF b = b0 THEN Append(s, node) ELSE s
        /\ k = key => b = b0
    BY <1>2, <2>1 DEF BucketOf, b0
  <2>3. /\ \A x : FirstEntry(history, k, x) => FirstEntry(history', k, x)
        /\ NoEntry(history, k) /\ key = k => FirstEntry(history', k, d)
        /\ NoEntry(history, k) /\ key # k => NoEntry(history', k)
    BY <1>1, <2>2, EntryAppended
  <2>4. /\ \A x : FirstNode(s, k, x) => FirstNode(s', k, x)
        /\ NoNode(s, k) /\ key = k => FirstNode(s', k, d)
        /\ NoNode(s, k) /\ key # k => NoNode(s', k)
    BY <1>2, <2>1, <2>2, NodeAppended
  <2>5. Agree(k) <=> \/ NoEntry(history, k) /\ NoNode(s, k)
                     \/ \E x \in Data : FirstEntry(history, k, x) /\ FirstNode(s, k, x)
    BY DEF Agree
  <2>6. Agree(k)' <=> \/ NoEntry(history', k) /\ NoNode(s', k)
                      \/ \E x \in Data :
                           FirstEntry(history', k, x) /\ FirstNode(s', k, x)
    BY DEF Agree, BucketOf, NoEntry, NoNode, FirstEntry, FirstNode
  <2> HIDE DEF b, s
  <2> QED
    BY <2>1, <2>3, <2>4, <2>5, <2>6
<1> QED
  BY <1>2, <1>3, <1>4 DEF MapInv, BucketOf

\* An element of a sequence from which one is popped and put into a hole.
LEMMA FilledHolds ==
  ASSUME NEW S, NEW s \in Seq(S), NEW i \in 1 .. Len(s)
  PROVE  /\ Filled(s, i) \in Seq(S) /\ Len(Filled(s, i)) = Len(s) - 1
         /\ \A m \in 1 .. Len(s) - 1 :
              Filled(s, i)[m] = IF m = i THEN s[Len(s)] ELSE s[m]
<1> DEFINE t == [s EXCEPT ![i] = s[Len(s)]]
<1>1. /\ Len(s) \in Nat /\ DOMAIN s = 1 .. Len(s) /\ i \in 1 .. Len(s)
      /\ \A m \in 1 .. Len(s) : s[m] \in S
  BY ElementOfSeq, LenProperties
<1>2. \A m \in 1 .. Len(s) : t[m] = IF m = i THEN s[Len(s)] ELSE s[m]
  BY <1>1
<1>3. Len(t) = Len(s) /\ \A m \in 1 .. Len(s) : t[m] \in S
  <2>1. t \in Seq(S)
    <3>1. s[Len(s)] \in S
      BY <1>1
    <3> QED
      BY <1>1, <3>1, ExceptSeq
  <2>2. Len(t) = Len(s)
    <3>1. s[Len(s)] \in S
      BY <1>1
    <3> QED
      BY <1>1, <3>1, ExceptSeq
  <2> QED
    BY <2>1, <2>2, ElementOfSeq
<1>4. CASE i = Len(s)
  <2>1. Filled(s, i) = SubSeq(s, 1, Len(s) - 1)
    BY <1>4 DEF Filled, Front
  <2>2. /\ Filled(s, i) \in Seq(S) /\ Len(Filled(s, i)) = Len(s) - 1
        /\ \A m \in 1 .. Len(s) - 1 : Filled(s, i)[m] = s[m]
    BY <1>1, <2>1, SubSeqProperties
  <2> QED
    BY <1>1, <1>4, <2>2
<1>5. CASE i # Len(s)
  <2>1. Filled(s, i) = SubSeq(t, 1, Len(s) - 1)
    BY <1>3, <1>5 DEF Filled, Front, Last
  <2>2. \A m \in 1 .. Len(s) - 1 : t[m] \in S /\ m \in 1 .. Len(s)
    BY <1>1, <1>3
  <2> HIDE DEF t
  <2>3. /\ Filled(s, i) \in Seq(S) /\ Len(Filled(s, i)) = Len(s) - 1
        /\ \A m \in 1 .. Len(s) - 1 : Filled(s, i)[m] = t[m]
    BY <1>1, <2>1, <2>2, SubSeqProperties
  <2> QED
    BY <1>2, <2>2, <2>3
<1> QED
  BY <1>4, <1>5

\* Hashmap_delete of a key that is there takes its first node out of the bucket.
LEMMA DeleteChanges ==
  ASSUME HashmapAssumption, MapTypes, NEW key \in Keys, Delete(key),
         Position(key) # 0
  PROVE  /\ Position(key) \in 1 .. Len(NodesIn(BucketOf(key)))
         /\ buckets[BucketOf(key)] = NodesIn(BucketOf(key))
         /\ NodesIn(BucketOf(key))[Position(key)].key = key
         /\ result' = NodesIn(BucketOf(key))[Position(key)].data
         /\ buckets' \in [Bucket -> {NULL} \cup Seq(Nodes)]
         /\ \A b \in Bucket :
              NodesIn(b)' = IF b = BucketOf(key)
                              THEN Filled(NodesIn(b), Position(key))
                              ELSE NodesIn(b)
         /\ \E i \in 0 .. Len(history) :
              /\ i = 0 \/ history[i][1] = key
              /\ history' = RemoveAt(history, i)
         /\ disturbed' = disturbed \cup {BucketOf(key)}
<1> DEFINE b0 == BucketOf(key)
           p == Position(key)
           s == NodesIn(b0)
           I == {m \in 1 .. Len(history) : history[m] = <<key, s[p].data>>}
<1>1. b0 \in Bucket
  BY BucketIsOne
<1>2. p \in 1 .. Len(s) /\ s = buckets[b0] /\ s[p].key = key
  BY PositionIsFirst
<1>3. s \in Seq(Nodes)
  BY <1>1, NodesInBucket
<1>4. /\ result' = s[p].data
      /\ buckets' = [buckets EXCEPT ![b0] = Filled(@, p)]
      /\ disturbed' = disturbed \cup {b0}
      /\ history' = RemoveAt(history,
                      SelectInSeq(history, LAMBDA e : e = <<key, s[p].data>>))
  BY <1>2 DEF Delete
<1>5. \E i \in 0 .. Len(history) :
        /\ i = 0 \/ history[i][1] = key
        /\ history' = RemoveAt(history, i)
  <2>1. history' = RemoveAt(history, IF I # {} THEN Min(I) ELSE 0)
    BY <1>4 DEF SelectInSeq
  <2>2. Len(history) \in Nat /\ I \in SUBSET (1 .. Len(history))
    BY LenProperties DEF MapTypes
  <2>3. \A m \in I : history[m][1] = key
    OBVIOUS
  <2> HIDE DEF I
  <2>4. CASE I = {}
    BY <2>1, <2>2, <2>4
  <2>5. CASE I # {}
    <3>1. PICK m \in I : m = Min(I)
      BY <2>2, <2>5, FirstPosition
    <3>2. history' = RemoveAt(history, m)
      BY <2>1, <2>5, <3>1
    <3>3. m \in 0 .. Len(history) /\ history[m][1] = key
      BY <2>2, <2>3
    <3> QED
      BY <3>2, <3>3
  <2> QED
    BY <2>4, <2>5
<1>6. Filled(s, p) \in Seq(Nodes)
  BY <1>2, <1>3, FilledHolds
<1> HIDE DEF b0, p
<1>7. buckets \in [Bucket -> {NULL} \cup Seq(Nodes)]
  BY DEF MapTypes
<1>8. buckets' \in [Bucket -> {NULL} \cup Seq(Nodes)]
  BY <1>1, <1>2, <1>4, <1>6, <1>7
<1>9. ASSUME NEW b \in Bucket
      PROVE  NodesIn(b)' = IF b = b0 THEN Filled(NodesIn(b), p) ELSE NodesIn(b)
  <2>1. buckets'[b] = IF b = b0 THEN Filled(s, p) ELSE buckets[b]
    BY <1>1, <1>2, <1>4, <1>7
  <2>2. Filled(s, p) # NULL
    BY <1>6 DEF HashmapAssumption
  <2> QED
    BY <2>1, <2>2 DEF NodesIn
<1> QED
  BY <1>2, <1>4, <1>5, <1>8, <1>9 DEF b0, p

LEMMA DeleteStep ==
  ASSUME HashmapAssumption, MapInv, NEW key \in Keys, Delete(key)
  PROVE  MapInv'
<1>1. MapTypes /\ history \in Seq(Entry)
  BY DEF MapInv, MapTypes
<1>2. CASE Position(key) = 0
  <2>1. result' = NULL /\ UNCHANGED <<buckets, history, disturbed>>
    BY <1>2 DEF Delete
  <2> QED
    BY <2>1, SameMap
<1>3. CASE Position(key) # 0
  <2> DEFINE b0 == BucketOf(key)
             p == Position(key)
  <2>1. /\ p \in 1 .. Len(NodesIn(b0)) /\ b0 \in Bucket
        /\ result' = NodesIn(b0)[p].data
        /\ buckets' \in [Bucket -> {NULL} \cup Seq(Nodes)]
        /\ \A b \in Bucket :
             NodesIn(b)' = IF b = b0 THEN Filled(NodesIn(b), p) ELSE NodesIn(b)
        /\ disturbed' = disturbed \cup {b0}
    BY <1>1, <1>3, DeleteChanges, BucketIsOne
  <2>2. PICK i \in 0 .. Len(history) : /\ i = 0 \/ history[i][1] = key
                                       /\ history' = RemoveAt(history, i)
    BY <1>1, <1>3, DeleteChanges
  <2> HIDE DEF p
  <2>3. MapTypes'
    <3>1. ASSUME NEW b \in Bucket
          PROVE  \A m \in 1 .. Len(NodesIn(b)') : AtHome(NodesIn(b)'[m], b)
      <4> DEFINE s == NodesIn(b)
      <4>1. /\ s \in Seq(Nodes) /\ Len(s) \in Nat
            /\ \A m \in 1 .. Len(s) : AtHome(s[m], b)
        BY <1>1, NodesInBucket
      <4>2. CASE b = b0
        <5> DEFINE t == Filled(s, p)
        <5>1. NodesIn(b)' = t /\ p \in 1 .. Len(s)
          BY <2>1, <4>2
        <5> HIDE DEF s
        <5>2. /\ Len(t) = Len(s) - 1
              /\ \A m \in 1 .. Len(s) - 1 : t[m] = IF m = p THEN s[Len(s)] ELSE s[m]
          BY <4>1, <5>1, FilledHolds
        <5> HIDE DEF t
        <5>3. \A m \in 1 .. Len(t) : AtHome(t[m], b)
          BY <4>1, <5>1, <5>2
        <5> QED
          BY <5>1, <5>3
      <4>3. CASE b # b0
        BY <2>1, <4>1, <4>3
      <4> QED
        BY <4>2, <4>3
    <3>2. \A b \in Bucket : \A m \in 1 .. Len(NodesIn(b)') : AtHome(NodesIn(b)[m], b)'
      BY <3>1 DEF AtHome, BucketOf
    <3>3. history' \in Seq(Entry)
      <4>1. CASE i = 0
        BY <1>1, <2>2, <4>1, RemoveNone
      <4>2. CASE i # 0
        BY <1>1, <2>2, <4>2, RemoveOne
      <4> QED
        BY <4>1, <4>2
    <3>4. result' \in Data
      BY <1>1, <2>1, NodesInBucket DEF Nodes
    <3> QED
      BY <1>1, <2>1, <3>2, <3>3, <3>4 DEF MapTypes
  <2>4. ASSUME NEW k \in Keys, BucketOf(k) \notin disturbed'
        PROVE  Agree(k)'
    <3> DEFINE s == NodesIn(BucketOf(k))
    <3>1. BucketOf(k) # b0 /\ BucketOf(k) \notin disturbed /\ k # key
      BY <2>1, <2>4
    <3>2. s' = s /\ Agree(k)
      BY <2>1, <3>1, BucketIsOne DEF MapInv, BucketOf
    <3>3. /\ \A x : FirstEntry(history, k, x) => FirstEntry(history', k, x)
          /\ NoEntry(history, k) => NoEntry(history', k)
      BY <1>1, <2>2, <3>1, EntryRemoved
    <3>4. Agree(k) <=> \/ NoEntry(history, k) /\ NoNode(s, k)
                       \/ \E x \in Data :
                            FirstEntry(history, k, x) /\ FirstNode(s, k, x)
      BY DEF Agree
    <3>5. Agree(k)' <=> \/ NoEntry(history', k) /\ NoNode(s', k)
                        \/ \E x \in Data :
                             FirstEntry(history', k, x) /\ FirstNode(s', k, x)
      BY DEF Agree, BucketOf, NoEntry, NoNode, FirstEntry, FirstNode
    <3> HIDE DEF s
    <3> QED
      BY <3>2, <3>3, <3>4, <3>5
  <2> QED
    BY <2>3, <2>4 DEF MapInv, BucketOf
<1> QED
  BY <1>2, <1>3

LEMMA MapStep ==
  ASSUME HashmapAssumption, MapInv, [Next]_vars
  PROVE  MapInv'
<1>1. CASE Destroy
  <2>1. result \in Data \cup {NULL}
    BY DEF MapInv, MapTypes
  <2>2. (HashmapAssumption /\ buckets = [b \in 0 .. Buckets - 1 |-> NULL]
          /\ result \in Data \cup {NULL} /\ history = <<>> /\ disturbed = {})'
    BY <1>1, <2>1 DEF Destroy, HashmapAssumption, Nodes
  <2> QED
    BY <2>2, FreshMap, PTL
<1>2. CASE \E key \in Keys : Get(key)
  <2>1. UNCHANGED <<buckets, history, disturbed>> /\ result' \in Data \cup {NULL}
    BY <1>2, FoundIsFirst DEF Get, MapInv
  <2> QED
    BY <2>1, SameMap
<1>3. CASE UNCHANGED vars
  BY <1>3, SameMap DEF vars, MapInv, MapTypes
<1> QED
  BY <1>1, <1>2, <1>3, SetStep, DeleteStep DEF Next

LEMMA MapInit ==
  ASSUME HashmapAssumption, Init
  PROVE  MapInv
BY FreshMap DEF Init

-----------------------------------------------------------------------------
(* The bag of entries that the map is.                                     *)

Lists == [i \in 1 .. Buckets |-> NodesIn(i - 1)]

\* The nodes that carry an entry.
NodesOf(e) == {node \in Nodes : <<node.key, node.data>> = e}

Listed ==
  /\ Buckets \in Nat \ {0} /\ Lists \in [1 .. Buckets -> Seq(Nodes)]
  /\ Traversed = FlattenSeq(Lists) /\ Traversed \in Seq(Nodes)

Counted ==
  /\ Entries = [e \in Entry |-> Count(Traversed, NodesOf(e))]
  /\ \A e \in Entry : Entries[e] \in Nat

LEMMA ListsTyped ==
  ASSUME HashmapAssumption, MapTypes
  PROVE  Listed
<1>1. Buckets \in Nat \ {0}
  BY DEF HashmapAssumption
<1>2. \A i \in 1 .. Buckets : i - 1 \in Bucket /\ NodesIn(i - 1) \in Seq(Nodes)
  <2>1. \A i \in 1 .. Buckets : i - 1 \in Bucket
    BY <1>1 DEF Bucket
  <2> QED
    BY <2>1, NodesInBucket
<1>3. Lists \in [1 .. Buckets -> Seq(Nodes)]
  BY <1>2 DEF Lists
<1>4. Traversed = FlattenSeq(Lists)
  BY DEF Traversed, Lists, NodesIn
<1>5. FlattenSeq(Lists) \in Seq(Nodes)
  BY <1>1, <1>3, FlattenedHolds
<1> QED
  BY <1>1, <1>3, <1>4, <1>5 DEF Listed

\* How many there are of an entry.
LEMMA EntriesCounted ==
  ASSUME HashmapAssumption, MapTypes
  PROVE  Counted
<1> DEFINE s == Traversed
<1>1. s \in Seq(Nodes) /\ DOMAIN s = 1 .. Len(s) /\ \A i \in 1 .. Len(s) : s[i] \in Nodes
  BY ListsTyped, ElementOfSeq, LenProperties DEF Listed
<1>2. Entries = [e \in Entry |->
                   Cardinality({i \in DOMAIN s : <<s[i].key, s[i].data>> = e})]
  BY DEF Entries, Entry
<1> HIDE DEF s
<1>3. ASSUME NEW e \in Entry
      PROVE  {i \in DOMAIN s : <<s[i].key, s[i].data>> = e} = PlacesOf(s, NodesOf(e))
  BY <1>1 DEF PlacesOf, NodesOf
<1>4. \A e \in Entry : Count(s, NodesOf(e)) \in Nat
  BY <1>1, CountIsNumber
<1>5. Entries = [e \in Entry |-> Count(s, NodesOf(e))]
  BY <1>2, <1>3 DEF Count
<1> QED
  BY <1>4, <1>5 DEF s, Counted

\* The entries of a key are in its bucket.
LEMMA EntriesAtHome ==
  ASSUME HashmapAssumption, MapTypes, NEW key \in Keys, NEW d \in Data
  PROVE  LET s == NodesIn(BucketOf(key))
         IN  Entries[<<key, d>>] > 0 <=>
               \E m \in 1 .. Len(s) : s[m].key = key /\ s[m].data = d
<1> DEFINE e == <<key, d>>
           b0 == BucketOf(key)
           s == NodesIn(b0)
<1>1. e \in Entry /\ b0 \in Bucket
  BY BucketIsOne DEF Entry
<1>2. Entries[e] > 0 <=> \E m \in 1 .. Len(Traversed) : Traversed[m] \in NodesOf(e)
  <2>1. Entries[e] = Count(Traversed, NodesOf(e))
    BY <1>1, EntriesCounted DEF Counted
  <2>2. Traversed \in Seq(Nodes)
    BY ListsTyped DEF Listed
  <2> QED
    BY <2>1, <2>2, CountIsNumber
<1>3. Entries[e] > 0 <=> \E node \in NodesOf(e) : Holds(Traversed, node)
  BY <1>2 DEF Holds
<1>4. \A x : Holds(Traversed, x) <=> \E i \in 1 .. Buckets : Holds(Lists[i], x)
  BY ListsTyped, FlattenedHolds DEF Listed
<1>5. ASSUME NEW i \in 1 .. Buckets, NEW node \in NodesOf(e), Holds(Lists[i], node)
      PROVE  i - 1 = b0
  <2>1. i - 1 \in Bucket /\ Lists[i] = NodesIn(i - 1)
    BY DEF Bucket, HashmapAssumption, Lists
  <2>2. PICK m \in 1 .. Len(NodesIn(i - 1)) : NodesIn(i - 1)[m] = node
    BY <1>5, <2>1 DEF Holds
  <2>3. AtHome(node, i - 1)
    BY <2>1, <2>2, NodesInBucket
  <2>4. node.key = key
    BY <1>5 DEF NodesOf
  <2> QED
    BY <2>3, <2>4 DEF AtHome
<1>6. b0 + 1 \in 1 .. Buckets /\ Lists[b0 + 1] = s
  BY <1>1 DEF Bucket, HashmapAssumption, Lists
<1>7. \A node \in NodesOf(e) : Holds(Traversed, node) <=> Holds(s, node)
  BY <1>4, <1>5, <1>6
<1>8. \A m \in 1 .. Len(s) :
        s[m] \in NodesOf(e) <=> s[m].key = key /\ s[m].data = d
  <2>1. \A m \in 1 .. Len(s) : s[m] \in Nodes
    BY <1>1, NodesInBucket
  <2> QED
    BY <2>1 DEF NodesOf
<1>9. Entries[e] > 0 <=> \E node \in NodesOf(e) : Holds(s, node)
  BY <1>3, <1>7
<1> HIDE DEF s
<1>10. (\E node \in NodesOf(e) : Holds(s, node)) <=>
         \E m \in 1 .. Len(s) : s[m] \in NodesOf(e)
  BY DEF Holds
<1> QED
  BY <1>8, <1>9, <1>10 DEF s

\* When one bucket changes, so does the number of an entry in it.
LEMMA BucketChanged ==
  ASSUME HashmapAssumption, MapTypes, MapTypes', NEW b \in Bucket,
         \A c \in Bucket : c # b => NodesIn(c)' = NodesIn(c), NEW e \in Entry
  PROVE  SameRest(Entries[e], Count(NodesIn(b), NodesOf(e)),
                  Entries'[e], Count(NodesIn(b)', NodesOf(e)))
<1> DEFINE q == Lists
           r == Lists'
           k == b + 1
           P == NodesOf(e)
<1>1. /\ Buckets \in Nat \ {0} /\ q \in [1 .. Buckets -> Seq(Nodes)]
      /\ Traversed = FlattenSeq(q)
  BY ListsTyped DEF Listed
<1>2. Listed' /\ Counted'
  <2>1. (HashmapAssumption /\ MapTypes)'
    BY DEF HashmapAssumption, Nodes
  <2> QED
    BY <2>1, ListsTyped, EntriesCounted, PTL
<1>3. r \in [1 .. Buckets -> Seq(Nodes)] /\ Traversed' = FlattenSeq(r)
  BY <1>2 DEF Listed, Nodes
<1>4. Entries[e] = Count(Traversed, P) /\ Entries'[e] = Count(Traversed', P)
  <2>1. Entries = [x \in Entry |-> Count(Traversed, NodesOf(x))]
    BY EntriesCounted DEF Counted
  <2>2. Entries' = [x \in Entry |-> Count(Traversed', NodesOf(x))]
    BY <1>2 DEF Counted, Entry, Count, PlacesOf, NodesOf, Nodes
  <2> HIDE DEF Entries
  <2> QED
    BY <2>1, <2>2
<1>5. k \in 1 .. Buckets /\ q[k] = NodesIn(b) /\ r[k] = NodesIn(b)'
  BY <1>1 DEF Bucket, Lists, NodesIn
<1>6. ASSUME NEW i \in 1 .. Buckets, i # k
      PROVE  r[i] = q[i]
  <2>1. i - 1 \in Bucket /\ i - 1 # b
    BY <1>1, <1>6 DEF Bucket
  <2>2. NodesIn(i - 1)' = NodesIn(i - 1)
    BY <2>1
  <2> QED
    BY <2>2 DEF Lists, NodesIn
<1> HIDE DEF q, r, k, P
<1>7. SameRest(Count(FlattenSeq(q), P), Count(q[k], P),
               Count(FlattenSeq(r), P), Count(r[k], P))
  BY <1>1, <1>3, <1>5, <1>6, CountSplit
<1> QED
  BY <1>1, <1>3, <1>4, <1>5, <1>7 DEF P

\* Taking a node out of a bucket takes one from the number of its entry.
LEMMA CountFilled ==
  ASSUME NEW S, NEW s \in Seq(S), NEW i \in 1 .. Len(s), NEW P
  PROVE  Count(s, P) = Count(Filled(s, i), P) + IF s[i] \in P THEN 1 ELSE 0
<1> DEFINE t == Filled(s, i)
           n == Len(s)
           A == PlacesOf(s, P)
           B == PlacesOf(t, P)
           C == A \ {i}
           moved == [m \in C |-> IF m = n THEN i ELSE m]
<1>1. n \in Nat /\ IsFiniteSet(A) /\ (i \in A <=> s[i] \in P)
  BY CountIsNumber, LenProperties DEF PlacesOf
<1>2. /\ t \in Seq(S) /\ Len(t) = n - 1
      /\ \A m \in 1 .. n - 1 : t[m] = IF m = i THEN s[n] ELSE s[m]
  BY FilledHolds
<1>3. /\ \A m : m \in A <=> m \in 1 .. n /\ s[m] \in P
      /\ \A m : m \in B <=> m \in 1 .. n - 1 /\ t[m] \in P
  BY <1>2 DEF PlacesOf
<1> HIDE DEF t, n, A, B
<1>4. moved \in [C -> B]
  <2> SUFFICES ASSUME NEW m \in C
               PROVE  (IF m = n THEN i ELSE m) \in B
    OBVIOUS
  <2>1. m \in 1 .. n /\ s[m] \in P /\ m # i
    BY <1>3
  <2> QED
    BY <1>1, <1>2, <1>3, <2>1 DEF n
<1>5. \A k, m \in C : moved[k] = moved[m] => k = m
  OBVIOUS
<1>6. ASSUME NEW m \in B
      PROVE  \E k \in C : moved[k] = m
  <2>1. m \in 1 .. n - 1 /\ t[m] \in P /\ m # n
    BY <1>1, <1>3, <1>6
  <2>2. CASE m = i
    <3>1. n \in C /\ moved[n] = i
      BY <1>1, <1>2, <1>3, <2>1, <2>2
    <3> QED
      BY <2>2, <3>1
  <2>3. CASE m # i
    <3>1. m \in C /\ moved[m] = m
      BY <1>1, <1>2, <1>3, <2>1, <2>3
    <3> QED
      BY <3>1
  <2> QED
    BY <2>2, <2>3
<1>7. C = A \ {i}
  OBVIOUS
<1> HIDE DEF moved, C
<1>8. IsFiniteSet(C) /\ Cardinality(A) \in Nat
      /\ Cardinality(A) = Cardinality(C) + IF i \in A THEN 1 ELSE 0
  <2>1. IsFiniteSet(C) /\ Cardinality(A) \in Nat /\ Cardinality(C) \in Nat
    BY <1>1, <1>7, FS_RemoveElement, FS_CardinalityType
  <2>2. Cardinality(C) = IF i \in A THEN Cardinality(A) - 1 ELSE Cardinality(A)
    BY <1>1, <1>7, FS_RemoveElement
  <2> QED
    BY <2>1, <2>2
<1>9. Cardinality(B) = Cardinality(C)
  BY <1>4, <1>5, <1>6, <1>8, OneToOne
<1> QED
  BY <1>1, <1>8, <1>9 DEF Count, A, B, t

-----------------------------------------------------------------------------
(* Every operation of the map is one of the bag.                           *)

LEMMA EntriesKept ==
  ASSUME UNCHANGED buckets
  PROVE  Entries' = Entries
BY DEF Entries, Traversed

LEMMA NothingEntered ==
  ASSUME HashmapAssumption, MapTypes, \A b \in Bucket : buckets[b] = NULL
  PROVE  Entries = AbstractMap!None
<1>1. Listed /\ Counted
  BY ListsTyped, EntriesCounted
<1>2. \A i \in 1 .. Buckets : Lists[i] = <<>>
  <2>1. \A i \in 1 .. Buckets : i - 1 \in Bucket
    BY DEF Bucket, HashmapAssumption
  <2> QED
    BY <2>1 DEF Lists, NodesIn
<1>3. FlattenSeq(Lists) = <<>>
  BY <1>1, <1>2, FlattenedEmpty DEF Listed
<1>4. ASSUME NEW P
      PROVE  Count(<<>>, P) = 0
  <2>1. PlacesOf(<<>>, P) = {}
    BY DEF PlacesOf
  <2> QED
    BY <2>1, FS_EmptySet DEF Count
<1>5. Entries = [e \in Entry |-> 0]
  BY <1>1, <1>3, <1>4 DEF Listed, Counted
<1> QED
  BY <1>5 DEF AbstractMap!None, Entry

\* A key has no entry when its bucket has no node of it; the data of any such
\* node are those of an entry.
LEMMA EntriesOf ==
  ASSUME HashmapAssumption, MapTypes, NEW key \in Keys
  PROVE  LET s == NodesIn(BucketOf(key))
         IN  /\ AbstractMap!Of(key) = {} <=> NoNode(s, key)
             /\ \A m \in 1 .. Len(s) :
                  s[m].key = key => s[m].data \in AbstractMap!Of(key)
<1> DEFINE s == NodesIn(BucketOf(key))
<1>1. \A m \in 1 .. Len(s) : s[m].data \in Data
  BY BucketIsOne, NodesInBucket DEF Nodes
<1>2. \A d \in Data : d \in AbstractMap!Of(key) <=>
        \E m \in 1 .. Len(s) : s[m].key = key /\ s[m].data = d
  <2> HIDE DEF s
  <2>1. ASSUME NEW d \in Data
        PROVE  Entries[<<key, d>>] > 0 <=>
                 \E m \in 1 .. Len(s) : s[m].key = key /\ s[m].data = d
    BY EntriesAtHome DEF s
  <2> HIDE DEF Entries
  <2> QED
    BY <2>1 DEF AbstractMap!Of
<1>3. AbstractMap!Of(key) \subseteq Data
  BY DEF AbstractMap!Of
<1> HIDE DEF s
<1> QED
  BY <1>1, <1>2, <1>3 DEF NoNode, s

LEMMA GetIsLookup ==
  ASSUME HashmapAssumption, MapTypes, NEW key \in Keys, Get(key)
  PROVE  AbstractMap!Lookup(key)
<1> DEFINE s == NodesIn(BucketOf(key))
<1>1. result' = Found(key) /\ Entries' = Entries
  BY EntriesKept DEF Get
<1>2. CASE NoNode(s, key)
  <2>1. AbstractMap!Of(key) = {} /\ Found(key) = NULL
    BY <1>2, EntriesOf, FoundIsFirst
  <2> QED
    BY <1>1, <2>1 DEF AbstractMap!Lookup
<1>3. CASE ~NoNode(s, key)
  <2>1. AbstractMap!Of(key) # {}
    BY <1>3, EntriesOf
  <2>2. Position(key) \in 1 .. Len(s) /\ s = buckets[BucketOf(key)]
        /\ s[Position(key)].key = key
    BY <1>3, PositionIsFirst
  <2>3. Found(key) = s[Position(key)].data
    BY <2>2 DEF Found
  <2>4. s[Position(key)].data \in AbstractMap!Of(key)
    BY <2>2, EntriesOf
  <2> QED
    BY <1>1, <2>1, <2>3, <2>4 DEF AbstractMap!Lookup
<1> QED
  BY <1>2, <1>3

LEMMA SetIsInsert ==
  ASSUME HashmapAssumption, MapTypes, MapTypes', NEW key \in Keys, NEW d \in Data,
         Set(key, d)
  PROVE  AbstractMap!Insert(key, d)
<1> DEFINE b0 == BucketOf(key)
           s == NodesIn(b0)
           node == NodeOf(key, d)
<1>1. /\ node \in Nodes /\ UNCHANGED result /\ b0 \in Bucket /\ s \in Seq(Nodes)
      /\ s' = Append(s, node)
      /\ \A c \in Bucket : c # b0 => NodesIn(c)' = NodesIn(c)
  BY SetChanges, BucketIsOne, NodesInBucket DEF BucketOf
<1>2. ASSUME NEW e \in Entry
      PROVE  Entries'[e] = IF e = <<key, d>> THEN Entries[e] + 1 ELSE Entries[e]
  <2> DEFINE P == NodesOf(e)
  <2>1. node \in P <=> e = <<key, d>>
    BY <1>1 DEF NodesOf, NodeOf
  <2>2. SameRest(Entries[e], Count(s, P), Entries'[e], Count(s', P))
    BY <1>1, BucketChanged DEF BucketOf
  <2> HIDE DEF b0, s, node, P
  <2>3. Count(s', P) = Count(s, P) + IF node \in P THEN 1 ELSE 0
    BY <1>1, CountAppend
  <2>4. Count(s, P) \in Nat
    BY <1>1, CountIsNumber
  <2> QED
    BY <2>1, <2>2, <2>3, <2>4 DEF SameRest
<1>3. Entries = [e \in Entry |-> Entries[e]] /\ Entries' = [e \in Entry |-> Entries'[e]]
  BY DEF Entries, Entry
<1>4. <<key, d>> \in Entry
  BY DEF Entry
<1> HIDE DEF Entries
<1>5. Entries' = [Entries EXCEPT ![<<key, d>>] = @ + 1]
  BY <1>2, <1>3, <1>4
<1> QED
  BY <1>1, <1>5 DEF AbstractMap!Insert

LEMMA DeleteIsRemove ==
  ASSUME HashmapAssumption, MapTypes, MapTypes', NEW key \in Keys, Delete(key)
  PROVE  AbstractMap!Remove(key)
<1> DEFINE b0 == BucketOf(key)
           s == NodesIn(b0)
           p == Position(key)
           d == s[p].data
<1>1. CASE p = 0
  <2>1. result' = NULL /\ Entries' = Entries
    BY <1>1, EntriesKept DEF Delete
  <2>2. NoNode(s, key)
    BY <1>1, PositionIsFirst
  <2>3. AbstractMap!Of(key) = {}
    BY <2>2, EntriesOf
  <2> QED
    BY <2>1, <2>3 DEF AbstractMap!Remove
<1>2. CASE p # 0
  <2>1. /\ p \in 1 .. Len(s) /\ s[p].key = key /\ result' = d
        /\ b0 \in Bucket /\ s \in Seq(Nodes) /\ s' = Filled(s, p)
        /\ \A c \in Bucket : c # b0 => NodesIn(c)' = NodesIn(c)
    BY <1>2, DeleteChanges, BucketIsOne, NodesInBucket DEF BucketOf
  <2>2. d \in AbstractMap!Of(key) /\ d \in Data
    BY <2>1, EntriesOf DEF AbstractMap!Of
  <2>3. ASSUME NEW e \in Entry
        PROVE  Entries'[e] = IF e = <<key, d>> THEN Entries[e] - 1 ELSE Entries[e]
    <3> DEFINE P == NodesOf(e)
    <3>1. s[p] \in P <=> e = <<key, d>>
      BY <2>1, NodesInBucket DEF NodesOf
    <3>2. SameRest(Entries[e], Count(s, P), Entries'[e], Count(s', P))
      BY <2>1, BucketChanged DEF BucketOf
    <3> HIDE DEF b0, s, p, P, d
    <3>3. Count(s, P) = Count(s', P) + IF s[p] \in P THEN 1 ELSE 0
      BY <2>1, CountFilled
    <3>4. Count(s', P) \in Nat
      <4>1. s' \in Seq(Nodes)
        BY <2>1, FilledHolds
      <4> QED
        BY <4>1, CountIsNumber
    <3> QED
      BY <3>1, <3>2, <3>3, <3>4 DEF SameRest
  <2>4. Entries = [e \in Entry |-> Entries[e]] /\ Entries' = [e \in Entry |-> Entries'[e]]
    BY DEF Entries, Entry
  <2>5. <<key, d>> \in Entry
    BY <2>2 DEF Entry
  <2> HIDE DEF Entries, d
  <2>6. Entries' = [Entries EXCEPT ![<<key, d>>] = @ - 1]
    BY <2>3, <2>4, <2>5
  <2> QED
    BY <2>1, <2>2, <2>6 DEF AbstractMap!Remove
<1> QED
  BY <1>1, <1>2

LEMMA MapSimulates ==
  ASSUME HashmapAssumption, MapInv, MapInv', [Next]_vars
  PROVE  [AbstractMap!Next]_(AbstractMap!vars)
<1>1. MapTypes /\ MapTypes'
  BY DEF MapInv
<1>2. CASE Destroy
  <2>1. (HashmapAssumption /\ MapTypes /\ \A b \in Bucket : buckets[b] = NULL)'
    BY <1>1, <1>2 DEF Destroy, HashmapAssumption, Nodes, Bucket
  <2>2. (Entries = AbstractMap!None)'
    BY <2>1, NothingEntered, PTL
  <2>3. AbstractMap!Clear
    BY <1>2, <2>2 DEF Destroy, AbstractMap!Clear, AbstractMap!None
  <2> QED
    BY <2>3 DEF AbstractMap!Next
<1>3. CASE UNCHANGED vars
  BY <1>3, EntriesKept DEF vars, AbstractMap!vars
<1>4. ASSUME NEW key \in Keys, Get(key)
      PROVE  AbstractMap!Next
  BY <1>1, <1>4, GetIsLookup DEF AbstractMap!Next
<1>5. ASSUME NEW key \in Keys, Delete(key)
      PROVE  AbstractMap!Next
  BY <1>1, <1>5, DeleteIsRemove DEF AbstractMap!Next
<1>6. ASSUME NEW key \in Keys, NEW d \in Data, Set(key, d)
      PROVE  AbstractMap!Next
  BY <1>1, <1>6, SetIsInsert DEF AbstractMap!Next
<1> QED
  BY <1>2, <1>3, <1>4, <1>5, <1>6 DEF Next

-----------------------------------------------------------------------------
(* Results.                                                                *)

\* Of the entries of a key the one that was set first is found, as long as none
\* was deleted from its bucket: whatever else is set, found and deleted, and
\* whichever keys share the bucket or the hash.
THEOREM FirstIsFound ==
  ASSUME HashmapAssumption
  PROVE  Spec => [](TypeOK /\ FirstSetIsFound)
BY MapInit, MapStep, MapInvImplies, PTL DEF Spec

\* The map implements a bag of entries: whatever the hashes and the buckets they
\* fall in, no entry is lost, found under another key, or visited twice.
THEOREM MapIsABag ==
  ASSUME HashmapAssumption
  PROVE  Spec => ImplementsMultimap
<1>1. Init => MapInv /\ AbstractMap!Init
  <2> SUFFICES ASSUME Init
               PROVE  MapInv /\ AbstractMap!Init
    OBVIOUS
  <2>1. MapInv /\ MapTypes
    BY MapInit DEF MapInv
  <2>2. Entries = AbstractMap!None
    BY <2>1, NothingEntered DEF Init, Bucket
  <2> QED
    BY <2>1, <2>2 DEF Init, AbstractMap!Init
<1>2. MapInv /\ [Next]_vars => MapInv'
  BY MapStep
<1>3. MapInv /\ MapInv' /\ [Next]_vars => [AbstractMap!Next]_(AbstractMap!vars)
  BY MapSimulates
<1> QED
  BY <1>1, <1>2, <1>3, PTL DEF Spec, ImplementsMultimap, AbstractMap!Spec

(***************************************************************************)
(* Both.                                                                   *)
(***************************************************************************)

\* Of an array and of a map that are used side by side, each keeps its types: the
\* array never has more elements than slots, and every node of the map is in the
\* bucket of the hash of its key.
THEOREM TypesKept ==
  ASSUME HashmapAssumption
  PROVE  ArraySpec /\ Spec => []TypesOK
<1>1. ArraySpec => []ArrayTypeOK
  BY ArrayTypes, PTL
<1>2. Spec => []TypeOK
  BY FirstIsFound, PTL
<1>3. ArraySpec => []RoomAndWritten
  BY ArrayHasRoom, PTL
<1>4. ArrayTypeOK /\ RoomAndWritten /\ TypeOK => TypesOK
  BY DEF ArrayTypeOK, RoomAndWritten, TypesOK
<1> QED
  BY <1>1, <1>2, <1>3, <1>4, PTL

=============================================================================
