------------------------------- MODULE DArray -------------------------------
(***************************************************************************)
(* The dynamic array of src/src/darray.c and darray.h: a block of max slots *)
(* of which the first end are in use.  Allocations succeed.                 *)
(***************************************************************************)
EXTENDS Integers, Sequences

CONSTANTS
  Elements,
  NullPtr,         \* the null pointer
  Wild,         \* what memory nobody has written holds
  InitialMax,   \* the argument of DArray_create
  ExpandRate,   \* DEFAULT_EXPAND_RATE
  PointerSize,  \* sizeof(void *)
  MaxEnd        \* bound on the number of elements

ASSUME DArrayAssumption ==
  /\ NullPtr \notin Elements /\ Wild \notin Elements /\ NullPtr # Wild
  /\ InitialMax \in Nat \ {0} /\ ExpandRate \in Nat \ {0}
  /\ PointerSize \in Nat \ {0} /\ MaxEnd \in Nat

VARIABLES
  end,
  max,
  contents,   \* the slots, numbered from 0
  popped      \* what the last DArray_pop returned

arrayVars == <<end, max, contents, popped>>

Slots == Elements \cup {NullPtr, Wild}

ArrayTypeOK ==
  /\ end \in Nat
  /\ max \in Nat \ {0}
  /\ contents \in [0 .. max - 1 -> Slots]
  /\ popped \in Elements \cup {NullPtr}

\* DArray_create
ArrayInit ==
  /\ max = InitialMax /\ end = 0
  /\ contents = [i \in 0 .. InitialMax - 1 |-> NullPtr]
  /\ popped = NullPtr

-----------------------------------------------------------------------------

\* DArray_resize: what realloc keeps, and what it leaves unwritten.
Resized(slots, old, new) ==
  [i \in 0 .. new - 1 |-> IF i < old THEN slots[i] ELSE Wild]

\* memset(contents + old, 0, expand_rate + 1) counts bytes where pointers were
\* added: the slots it clears are these many, not expand_rate.
Cleared == (ExpandRate + 1) \div PointerSize

\* Mutant: memset begins one slot early.
ExpandedClearsLast(slots, old) ==
  [i \in 0 .. (old + ExpandRate) - 1 |->
     IF i \in old - 1 .. old + Cleared - 2 THEN NullPtr
     ELSE Resized(slots, old, old + ExpandRate)[i]]

\* DArray_expand
Expanded(slots, old) ==
  [i \in 0 .. (old + ExpandRate) - 1 |->
     IF i \in old .. old + Cleared - 1 THEN NullPtr
     ELSE Resized(slots, old, old + ExpandRate)[i]]

Full(e) == e >= max

\* DArray_push: the element is written first, the array expanded afterwards.
DArray_push(el) ==
  /\ end < MaxEnd
  /\ LET slots == [contents EXCEPT ![end] = el]
     IN  IF Full(end + 1)
           THEN /\ max' = max + ExpandRate
                /\ contents' = Expanded(slots, max)
           ELSE /\ contents' = slots
                /\ UNCHANGED max
  /\ end' = end + 1
  /\ UNCHANGED popped

\* Mutant: the block is cut to the elements in use.
ContractedTight(e) == IF e < ExpandRate THEN ExpandRate ELSE e

\* The size DArray_contract asks for: never below the expand rate, and one
\* slot more than is in use.
Contracted(e) == (IF e < ExpandRate THEN ExpandRate ELSE e) + 1

\* DArray_pop, which contracts when the new end is past the expand rate and not
\* one of its multiples.
DArray_pop ==
  IF end - 1 >= 0
    THEN LET slots == [contents EXCEPT ![end - 1] = NullPtr]
             e == end - 1
         IN  /\ popped' = contents[e]
             /\ end' = e
             /\ IF e > ExpandRate /\ e % ExpandRate # 0
                  THEN /\ max' = Contracted(e)
                       /\ contents' = Resized(slots, max, Contracted(e))
                  ELSE /\ contents' = slots
                       /\ UNCHANGED max
    ELSE /\ popped' = NullPtr
         /\ UNCHANGED <<end, max, contents>>

\* DArray_set; its users replace an element that is there.
DArray_set(i, el) ==
  /\ i \in 0 .. end - 1
  /\ i < max
  /\ end' = IF i > end THEN i ELSE end
  /\ contents' = [contents EXCEPT ![i] = el]
  /\ UNCHANGED <<max, popped>>

ArrayNext ==
  \/ \E el \in Elements : DArray_push(el)
  \/ DArray_pop
  \/ \E i \in 0 .. end - 1, el \in Elements : DArray_set(i, el)

ArraySpec == ArrayInit /\ [][ArrayNext]_arrayVars

-----------------------------------------------------------------------------
(* Properties.                                                             *)

\* DArray_push writes at end without looking: there is always a slot there,
\* after any growth and any contraction, and every slot that is in use holds an
\* element, never what memset left out or what DArray_remove cleared.
RoomAndWritten ==
  /\ end < max
  /\ \A i \in 0 .. end - 1 : contents[i] \in Elements

\* The list the array stands for.
Items == [i \in 1 .. end |-> contents[i - 1]]

AbstractList == INSTANCE List WITH items <- Items, taken <- popped, NULL <- NullPtr

\* The array is a list: growing, contracting and the order of writing and
\* expanding in DArray_push lose, add and move nothing.
ImplementsList == AbstractList!Spec

=============================================================================
