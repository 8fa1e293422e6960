--------------------------- MODULE SequenceLemmas ---------------------------
(***************************************************************************)
(* Facts about numbers, sequences and the operators of the community        *)
(* modules, on which the proofs of several components rest.                *)
(***************************************************************************)
EXTENDS SequencesExt, SequenceTheorems, FiniteSetTheorems, TLAPS

-----------------------------------------------------------------------------
(* Numbers.                                                                *)

\* The smaller, and the larger, of two numbers.
LEMMA OfTwo ==
  ASSUME NEW a \in Int, NEW b \in Int
  PROVE  /\ Min({a, b}) = IF a <= b THEN a ELSE b
         /\ Max({a, b}) = IF a <= b THEN b ELSE a
<1>1. Min({a, b}) = IF a <= b THEN a ELSE b
  <2> DEFINE m == IF a <= b THEN a ELSE b
  <2>1. m \in {a, b} /\ \A y \in {a, b} : m <= y
    OBVIOUS
  <2>2. \A x \in {a, b} : (\A y \in {a, b} : x <= y) => x = m
    OBVIOUS
  <2> QED
    BY <2>1, <2>2 DEF Min
<1>2. Max({a, b}) = IF a <= b THEN b ELSE a
  <2> DEFINE m == IF a <= b THEN b ELSE a
  <2>1. m \in {a, b} /\ \A y \in {a, b} : m >= y
    OBVIOUS
  <2>2. \A x \in {a, b} : (\A y \in {a, b} : x >= y) => x = m
    OBVIOUS
  <2> QED
    BY <2>1, <2>2 DEF Max
<1> QED
  BY <1>1, <1>2

\* The smallest of three numbers is one of them, and not above any.
LEMMA OfThree ==
  ASSUME NEW a \in Int, NEW b \in Int, NEW c \in Int
  PROVE  /\ Min({a, b, c}) \in {a, b, c}
         /\ Min({a, b, c}) <= a /\ Min({a, b, c}) <= b /\ Min({a, b, c}) <= c
<1>1. \E x \in {a, b, c} : \A y \in {a, b, c} : x <= y
  <2>1. CASE a <= b /\ a <= c
    BY <2>1
  <2>2. CASE b <= a /\ b <= c
    BY <2>2
  <2>3. CASE c <= a /\ c <= b
    BY <2>3
  <2> QED
    BY <2>1, <2>2, <2>3
<1> QED
  BY <1>1 DEF Min

\* An element that no other one is below is the smallest.
LEMMA IsSmallest ==
  ASSUME NEW S \in SUBSET Int, NEW s \in S, \A y \in S : s <= y
  PROVE  Min(S) = s
<1>1. \A x \in S : (\A y \in S : x <= y) => x = s
  OBVIOUS
<1> QED
  BY <1>1 DEF Min

\* One that no other one is above is the largest.
LEMMA IsLargest ==
  ASSUME NEW S \in SUBSET Int, NEW s \in S, \A y \in S : s >= y
  PROVE  Max(S) = s
<1>1. \A x \in S : (\A y \in S : x >= y) => x = s
  OBVIOUS
<1> QED
  BY <1>1 DEF Max

\* A set of numbers that is not empty has a smallest one: it is the one to which
\* the least of the intervals from 0 on belongs.
LEMMA SmallestOf ==
  ASSUME NEW I \in SUBSET Nat, I # {}
  PROVE  \E x \in I : \A y \in I : x <= y
<1> DEFINE T == {0 .. x : x \in I}
<1>1. T \subseteq FiniteSubsetsOf(Nat) /\ T # {}
  <2>1. ASSUME NEW x \in I
        PROVE  0 .. x \in FiniteSubsetsOf(Nat)
    <3>1. 0 \in Int /\ x \in Int
      OBVIOUS
    <3>2. IsFiniteSet(0 .. x)
      BY <3>1, FS_Interval
    <3>3. 0 .. x \in SUBSET Nat
      OBVIOUS
    <3> QED
      BY <3>2, <3>3 DEF FiniteSubsetsOf
  <2> QED
    BY <2>1
<1>2. \E X \in T : \A Y \in T : <<Y, X>> \notin StrictSubsetOrdering(Nat)
  <2> HIDE DEF T
  <2>1. IsWellFoundedOn(StrictSubsetOrdering(Nat), FiniteSubsetsOf(Nat))
    BY FS_StrictSubsetOrderingWellFounded
  <2> QED
    BY <1>1, <2>1, WFMin
<1>3. PICK x \in I : \A y \in I : <<0 .. y, 0 .. x>> \notin StrictSubsetOrdering(Nat)
  BY <1>2
<1>4. ASSUME NEW y \in I, y < x
      PROVE  FALSE
  <2>1. 0 .. y \subseteq 0 .. x /\ 0 .. y # 0 .. x
    <3>1. x \in 0 .. x /\ x \notin 0 .. y
      BY <1>4
    <3> QED
      BY <1>4, <3>1
  <2>2. <<0 .. y, 0 .. x>> \in StrictSubsetOrdering(Nat)
    BY <2>1 DEF StrictSubsetOrdering
  <2> QED
    BY <1>3, <2>2
<1> QED
  BY <1>4

\* A set of positions that is not empty has a first one.
LEMMA FirstPosition ==
  ASSUME NEW n \in Nat, NEW I \in SUBSET (1 .. n), I # {}
  PROVE  Min(I) \in I /\ \A x \in I : Min(I) <= x
<1>1. I \in SUBSET Nat
  OBVIOUS
<1> QED
  BY <1>1, SmallestOf DEF Min

\* And a last one.
LEMMA LastPosition ==
  ASSUME NEW n \in Nat, NEW I \in SUBSET (1 .. n), I # {}
  PROVE  Max(I) \in I /\ \A x \in I : Max(I) >= x
<1> DEFINE J == {n - x : x \in I}
<1>1. J \in SUBSET Nat /\ J # {}
  <2>1. \A x \in I : n - x \in Nat
    OBVIOUS
  <2>2. PICK x \in I : TRUE
    OBVIOUS
  <2>3. n - x \in J
    BY <2>2
  <2> QED
    BY <2>1, <2>3
<1>2. PICK y \in J : \A z \in J : y <= z
  <2> HIDE DEF J
  <2> QED
    BY <1>1, SmallestOf
<1>3. PICK m \in I : y = n - m
  BY <1>2
<1>4. \A x \in I : n - x \in J /\ x \in Int
  OBVIOUS
<1>5. \A x \in I : m >= x
  <2>1. \A x \in I : n - m <= n - x
    BY <1>2, <1>3, <1>4
  <2>2. m \in Int /\ n \in Int
    OBVIOUS
  <2> HIDE DEF J
  <2> QED
    BY <1>4, <2>1, <2>2
<1>6. \E z \in I : \A x \in I : z >= x
  BY <1>3, <1>5
<1> QED
  BY <1>6 DEF Max

\* A set that holds 0, and with a number the next one, holds every number.
LEMMA EveryNumber ==
  ASSUME NEW A, 0 \in A, \A n \in Nat : n \in A => n + 1 \in A
  PROVE  \A n \in Nat : n \in A
<1> DEFINE missing == {n \in Nat : n \notin A}
<1>1. ASSUME missing # {}
      PROVE  FALSE
  <2>1. PICK m \in missing : \A y \in missing : m <= y
    BY <1>1, SmallestOf
  <2>2. m \in Nat /\ m # 0 /\ m - 1 \in Nat /\ (m - 1) + 1 = m
    BY <2>1
  <2>3. m - 1 \in A
    BY <2>1, <2>2
  <2> QED
    BY <2>1, <2>2, <2>3
<1> QED
  BY <1>1

-----------------------------------------------------------------------------
(* Sequences.                                                              *)

\* The strings of a bounded length are sequences.
LEMMA BoundedSeqIsSeq ==
  ASSUME NEW S, NEW n \in Nat
  PROVE  BoundedSeq(S, n) \subseteq Seq(S)
BY DEF BoundedSeq, SeqOf

\* A sequence to which anything is appended.
LEMMA AppendAny ==
  ASSUME NEW S, NEW s \in Seq(S), NEW e
  PROVE  /\ Len(s) \in Nat /\ DOMAIN s = 1 .. Len(s)
         /\ Len(Append(s, e)) = Len(s) + 1
         /\ DOMAIN Append(s, e) = 1 .. Len(s) + 1
         /\ \A i \in 1 .. Len(s) : Append(s, e)[i] = s[i]
         /\ Append(s, e)[Len(s) + 1] = e
<1> DEFINE T == S \cup {e}
<1>1. s \in Seq(T) /\ e \in T
  BY SeqMonotonic
<1> HIDE DEF T
<1>2. /\ Append(s, e) \in Seq(T)
      /\ Len(Append(s, e)) = Len(s) + 1
      /\ \A i \in 1 .. Len(s) : Append(s, e)[i] = s[i]
      /\ Append(s, e)[Len(s) + 1] = e
  BY <1>1, AppendProperties
<1>3. DOMAIN Append(s, e) = 1 .. Len(Append(s, e))
  BY <1>2, LenProperties
<1> QED
  BY <1>2, <1>3, LenProperties

\* Two sequences put one behind the other.
LEMMA ConcatPlaces ==
  ASSUME NEW S, NEW s \in Seq(S), NEW t \in Seq(S)
  PROVE  /\ Len(s) \in Nat /\ Len(t) \in Nat
         /\ s \o t \in Seq(S) /\ Len(s \o t) = Len(s) + Len(t)
         /\ \A m \in 1 .. Len(s) : (s \o t)[m] = s[m]
         /\ \A m \in 1 .. Len(t) : (s \o t)[Len(s) + m] = t[m]
<1>1. /\ Len(s) \in Nat /\ Len(t) \in Nat
      /\ s \o t \in Seq(S) /\ Len(s \o t) = Len(s) + Len(t)
      /\ \A i \in 1 .. Len(s) + Len(t) :
           (s \o t)[i] = IF i <= Len(s) THEN s[i] ELSE t[i - Len(s)]
  BY ConcatProperties, LenProperties
<1>2. ASSUME NEW m \in 1 .. Len(s)
      PROVE  (s \o t)[m] = s[m]
  BY <1>1
<1>3. ASSUME NEW m \in 1 .. Len(t)
      PROVE  (s \o t)[Len(s) + m] = t[m]
  <2>1. /\ Len(s) + m \in 1 .. Len(s) + Len(t) /\ ~(Len(s) + m <= Len(s))
        /\ (Len(s) + m) - Len(s) = m
    BY <1>1
  <2> QED
    BY <1>1, <2>1
<1> QED
  BY <1>1, <1>2, <1>3

\* A sequence of this many elements of a set.
SeqLong(s, S, n) == s \in Seq(S) /\ n \in Nat /\ Len(s) = n

LEMMA ConcatSeqLong ==
  \A S, s, t, m, n :
    SeqLong(s, S, m) /\ SeqLong(t, S, n) => SeqLong(s \o t, S, m + n)
<1> SUFFICES ASSUME NEW S, NEW s \in Seq(S), NEW t \in Seq(S),
                    NEW m \in Nat, NEW n \in Nat, Len(s) = m, Len(t) = n
             PROVE  s \o t \in Seq(S) /\ Len(s \o t) = m + n /\ m + n \in Nat
  BY DEF SeqLong
<1>1. s \o t \in Seq(S)
  BY ConcatProperties
<1>2. Len(s \o t) = Len(s) + Len(t)
  BY ConcatProperties
<1> QED
  BY <1>1, <1>2

\* Of two such sequences, one is what the other begins with.
SameUpTo(s, u, n) == \A i \in 1 .. n : s[i] = u[i]

LEMMA FirstPart ==
  ASSUME NEW S, NEW s, NEW m, SeqLong(s, S, m), NEW u, NEW n, SeqLong(u, S, n),
         n <= m, SameUpTo(s, u, n)
  PROVE  SubSeq(s, 1, n) = u
<1>1. s \in Seq(S) /\ Len(s) = m /\ m \in Nat /\ u \in Seq(S) /\ Len(u) = n /\ n \in Nat
  BY DEF SeqLong
<1>2. PICK v : v = SubSeq(s, 1, n)
  OBVIOUS
<1>3. \A i \in 1 .. n : i \in 1 .. Len(s)
  BY <1>1
<1>4. v \in Seq(S) /\ Len(v) = n /\ \A i \in 1 .. n : v[i] = s[i]
  BY <1>1, <1>2, <1>3, SubSeqProperties
<1>5. \A i \in 1 .. n : v[i] = u[i]
  BY <1>4 DEF SameUpTo
<1>6. v = u
  BY <1>1, <1>4, <1>5, SeqEqual
<1> QED
  BY <1>2, <1>6

\* So is the first of two that are put together, also when the second is cut.
CutTo(s, n, u) == SubSeq(s, 1, n) = u

LEMMA FirstOfTwo ==
  ASSUME NEW S, NEW s, NEW m, SeqLong(s, S, m), NEW t, NEW k, SeqLong(t, S, k),
         NEW u, NEW n, SeqLong(u, S, n), n <= k, SameUpTo(t, u, n)
  PROVE  CutTo(s \o t, m + n, s \o u)
<1>1. /\ s \in Seq(S) /\ Len(s) = m /\ m \in Nat
      /\ t \in Seq(S) /\ Len(t) = k /\ k \in Nat
      /\ u \in Seq(S) /\ Len(u) = n /\ n \in Nat
  BY DEF SeqLong
<1>2. PICK st, su : st = s \o t /\ su = s \o u
  OBVIOUS
<1>3. SeqLong(st, S, m + k) /\ SeqLong(su, S, m + n)
  BY <1>2, ConcatSeqLong
<1>4. /\ \A i \in 1 .. m : st[i] = s[i]
      /\ \A i \in 1 .. k : st[m + i] = t[i]
  BY <1>1, <1>2, ConcatPlaces
<1>5. /\ \A i \in 1 .. m : su[i] = s[i]
      /\ \A i \in 1 .. n : su[m + i] = u[i]
  BY <1>1, <1>2, ConcatPlaces
<1>6. ASSUME NEW i \in 1 .. m + n
      PROVE  st[i] = su[i]
  <2>1. CASE i <= m
    <3>1. i \in 1 .. m
      BY <1>1, <2>1
    <3> QED
      BY <1>4, <1>5, <3>1
  <2>2. CASE i > m
    <3>1. PICK j : j = i - m
      OBVIOUS
    <3>2. i = m + j /\ j \in 1 .. n /\ j \in 1 .. k
      BY <1>1, <2>2, <3>1
    <3> QED
      BY <1>4, <1>5, <3>2 DEF SameUpTo
  <2> QED
    BY <1>1, <2>1, <2>2
<1>7. m + n <= m + k
  BY <1>1
<1>8. SubSeq(st, 1, m + n) = su
  BY <1>3, <1>6, <1>7, FirstPart DEF SameUpTo
<1> QED
  BY <1>2, <1>8 DEF CutTo

\* A sequence is itself without the element at 0.
LEMMA RemoveNone ==
  ASSUME NEW S, NEW h \in Seq(S)
  PROVE  RemoveAt(h, 0) = h
<1>1. SubSeq(h, 1, 0 - 1) = <<>> /\ SubSeq(h, 0 + 1, Len(h)) = h
  BY SubSeqEmpty, SubSeqFull
<1> QED
  BY <1>1, ConcatEmptySeq DEF RemoveAt

\* A sequence without one of its elements.
LEMMA RemoveOne ==
  ASSUME NEW S, NEW h \in Seq(S), NEW i \in 1 .. Len(h)
  PROVE  /\ RemoveAt(h, i) \in Seq(S) /\ Len(RemoveAt(h, i)) = Len(h) - 1
         /\ \A m \in 1 .. i - 1 : RemoveAt(h, i)[m] = h[m]
         /\ \A m \in i .. Len(h) - 1 : RemoveAt(h, i)[m] = h[m + 1]
<1> DEFINE s == SubSeq(h, 1, i - 1)
           t == SubSeq(h, i + 1, Len(h))
<1>1. Len(h) \in Nat /\ \A m \in 1 .. Len(h) : h[m] \in S
  BY ElementOfSeq, LenProperties
<1>2. /\ s \in Seq(S) /\ Len(s) = i - 1
      /\ \A m \in 1 .. i - 1 : s[m] = h[m]
  BY <1>1, SubSeqProperties
<1>3. /\ t \in Seq(S) /\ Len(t) = Len(h) - i
      /\ \A m \in 1 .. Len(h) - i : t[m] = h[m + i]
  BY <1>1, SubSeqProperties
<1> HIDE DEF s, t
<1>4. /\ s \o t \in Seq(S) /\ Len(s \o t) = Len(h) - 1
      /\ \A m \in 1 .. i - 1 : (s \o t)[m] = h[m]
      /\ \A m \in i .. Len(h) - 1 : (s \o t)[m] = t[m - (i - 1)]
  <2>1. /\ s \o t \in Seq(S) /\ Len(s \o t) = Len(s) + Len(t)
        /\ \A m \in 1 .. Len(s) + Len(t) :
             (s \o t)[m] = IF m <= Len(s) THEN s[m] ELSE t[m - Len(s)]
    BY <1>2, <1>3, ConcatProperties
  <2>2. Len(s) + Len(t) = Len(h) - 1 /\ Len(s) = i - 1
    BY <1>1, <1>2, <1>3
  <2> QED
    BY <1>1, <1>2, <2>1, <2>2
<1>5. \A m \in i .. Len(h) - 1 : t[m - (i - 1)] = h[m + 1]
  <2> TAKE m \in i .. Len(h) - 1
  <2>1. m - (i - 1) \in 1 .. Len(h) - i /\ m - (i - 1) + i = m + 1
    BY <1>1
  <2> QED
    BY <1>3, <2>1
<1>6. RemoveAt(h, i) = s \o t
  BY DEF RemoveAt, s, t
<1> QED
  BY <1>4, <1>5, <1>6

\* An element of a sequence.
Holds(s, x) == \E m \in 1 .. Len(s) : s[m] = x

LEMMA HoldsConcat ==
  ASSUME NEW S, NEW s \in Seq(S), NEW t \in Seq(S), NEW x
  PROVE  Holds(s \o t, x) <=> Holds(s, x) \/ Holds(t, x)
<1>1. /\ Len(s) \in Nat /\ Len(t) \in Nat /\ Len(s \o t) = Len(s) + Len(t)
      /\ \A m \in 1 .. Len(s) + Len(t) :
           (s \o t)[m] = IF m <= Len(s) THEN s[m] ELSE t[m - Len(s)]
  BY ConcatProperties, LenProperties
<1>2. ASSUME NEW m \in 1 .. Len(s)
      PROVE  m \in 1 .. Len(s) + Len(t) /\ (s \o t)[m] = s[m]
  BY <1>1
<1>3. ASSUME NEW m \in 1 .. Len(t)
      PROVE  /\ Len(s) + m \in 1 .. Len(s) + Len(t)
             /\ (s \o t)[Len(s) + m] = t[m]
  BY <1>1
<1>4. ASSUME NEW m \in 1 .. Len(s) + Len(t)
      PROVE  \/ m \in 1 .. Len(s) /\ (s \o t)[m] = s[m]
             \/ m - Len(s) \in 1 .. Len(t) /\ (s \o t)[m] = t[m - Len(s)]
  BY <1>1
<1> QED
  BY <1>1, <1>2, <1>3, <1>4 DEF Holds

-----------------------------------------------------------------------------
(* How many elements of a sequence are in a set.                           *)

PlacesOf(s, P) == {m \in 1 .. Len(s) : s[m] \in P}

Count(s, P) == Cardinality(PlacesOf(s, P))

\* Two sets have as many elements when a function pairs them.
LEMMA OneToOne ==
  ASSUME NEW A, NEW B, IsFiniteSet(A), NEW f \in [A -> B],
         \A k, m \in A : f[k] = f[m] => k = m,
         \A b \in B : \E k \in A : f[k] = b
  PROVE  IsFiniteSet(B) /\ Cardinality(B) = Cardinality(A)
<1>1. f \in Bijection(A, B)
  BY DEF Bijection, Injection, Surjection, IsInjective
<1> QED
  BY <1>1, FS_Bijection DEF ExistsBijection

LEMMA CountIsNumber ==
  ASSUME NEW S, NEW s \in Seq(S), NEW P
  PROVE  /\ IsFiniteSet(PlacesOf(s, P)) /\ Count(s, P) \in Nat
         /\ Count(s, P) > 0 <=> \E m \in 1 .. Len(s) : s[m] \in P
<1>1. IsFiniteSet(1 .. Len(s)) /\ PlacesOf(s, P) \subseteq 1 .. Len(s)
  <2>1. 1 \in Int /\ Len(s) \in Int
    BY LenProperties
  <2> QED
    BY <2>1, FS_Interval DEF PlacesOf
<1>2. IsFiniteSet(PlacesOf(s, P))
  BY <1>1, FS_Subset
<1>3. Count(s, P) \in Nat /\ (Count(s, P) = 0 <=> PlacesOf(s, P) = {})
  BY <1>2, FS_CardinalityType, FS_EmptySet DEF Count
<1>4. PlacesOf(s, P) # {} <=> \E m \in 1 .. Len(s) : s[m] \in P
  BY DEF PlacesOf
<1> QED
  BY <1>2, <1>3, <1>4

\* The elements of a sequence that is put behind another are counted with it.
LEMMA CountConcat ==
  ASSUME NEW S, NEW s \in Seq(S), NEW t \in Seq(S), NEW P
  PROVE  Count(s \o t, P) = Count(s, P) + Count(t, P)
<1> DEFINE n == Len(s)
           A == PlacesOf(s, P)
           B == PlacesOf(t, P)
           shifted == [m \in B |-> n + m]
           C == {n + m : m \in B}
<1>1. /\ n \in Nat /\ Len(t) \in Nat /\ Len(s \o t) = n + Len(t)
      /\ \A m \in 1 .. n + Len(t) : (s \o t)[m] = IF m <= n THEN s[m] ELSE t[m - n]
  BY ConcatProperties, LenProperties
<1>2. IsFiniteSet(A) /\ IsFiniteSet(B)
  BY CountIsNumber
<1>3. B \subseteq Nat /\ A \subseteq 1 .. n /\ \A m \in B : m > 0
  BY <1>1 DEF PlacesOf
<1>4. C = {n + m : m \in B}
  OBVIOUS
<1>5. PlacesOf(s \o t, P) = A \cup C
  <2>1. ASSUME NEW m \in PlacesOf(s \o t, P)
        PROVE  m \in A \cup {n + k : k \in B}
    <3>1. m \in 1 .. n + Len(t) /\ (s \o t)[m] \in P
      BY <1>1, <2>1 DEF PlacesOf
    <3>2. CASE m <= n
      BY <1>1, <3>1, <3>2 DEF PlacesOf
    <3>3. CASE m > n
      <4>1. m - n \in 1 .. Len(t) /\ t[m - n] \in P /\ n + (m - n) = m
        BY <1>1, <3>1, <3>3
      <4> QED
        BY <4>1 DEF PlacesOf
    <3> QED
      BY <1>1, <3>1, <3>2, <3>3
  <2>2. ASSUME NEW m \in A
        PROVE  m \in PlacesOf(s \o t, P)
    <3>1. m \in 1 .. n /\ s[m] \in P
      BY <2>2 DEF PlacesOf
    <3>2. m \in 1 .. n + Len(t) /\ (s \o t)[m] = s[m]
      BY <1>1, <3>1
    <3> QED
      BY <1>1, <3>1, <3>2 DEF PlacesOf
  <2>3. ASSUME NEW k \in B
        PROVE  n + k \in PlacesOf(s \o t, P)
    <3>1. k \in 1 .. Len(t) /\ t[k] \in P
      BY <2>3 DEF PlacesOf
    <3>2. n + k \in 1 .. n + Len(t) /\ (s \o t)[n + k] = t[k]
      BY <1>1, <3>1
    <3> QED
      BY <1>1, <3>1, <3>2 DEF PlacesOf
  <2> HIDE DEF A, B
  <2> QED
    BY <1>4, <2>1, <2>2, <2>3
<1> HIDE DEF n, A, B
<1>6. /\ shifted \in [B -> C] /\ \A k, m \in B : shifted[k] = shifted[m] => k = m
      /\ \A c \in C : \E k \in B : shifted[k] = c
  BY <1>1, <1>3, <1>4
<1> HIDE DEF shifted, C
<1>7. IsFiniteSet(C) /\ Cardinality(C) = Cardinality(B)
  BY <1>2, <1>6, OneToOne
<1>8. A \cap C = {}
  BY <1>1, <1>3, <1>4
<1>9. Cardinality(A \cup C) = Cardinality(A) + Cardinality(C)
  <2>1. Cardinality(A \cup C) = Cardinality(A) + Cardinality(C) - 0
    BY <1>2, <1>7, <1>8, FS_Union, FS_EmptySet
  <2>2. Cardinality(A) \in Nat /\ Cardinality(C) \in Nat
    BY <1>2, <1>7, FS_CardinalityType
  <2> QED
    BY <2>1, <2>2
<1> QED
  BY <1>5, <1>7, <1>9 DEF Count, A, B

LEMMA CountOne ==
  ASSUME NEW S, NEW e \in S, NEW P
  PROVE  Count(<<e>>, P) = IF e \in P THEN 1 ELSE 0
<1>1. Len(<<e>>) = 1 /\ <<e>>[1] = e
  OBVIOUS
<1>2. PlacesOf(<<e>>, P) = IF e \in P THEN {1} ELSE {}
  BY <1>1 DEF PlacesOf
<1> QED
  BY <1>2, FS_Singleton, FS_EmptySet DEF Count

LEMMA CountAppend ==
  ASSUME NEW S, NEW s \in Seq(S), NEW e \in S, NEW P
  PROVE  Count(Append(s, e), P) = Count(s, P) + IF e \in P THEN 1 ELSE 0
<1>1. PICK t \in Seq(S) : t = <<e>>
  <2>1. <<e>> \in Seq(S)
    OBVIOUS
  <2> QED
    BY <2>1
<1>2. Append(s, e) = s \o t
  BY <1>1
<1>3. Count(s \o t, P) = Count(s, P) + Count(t, P)
  BY <1>1, CountConcat
<1>4. Count(t, P) = IF e \in P THEN 1 ELSE 0
  BY <1>1, CountOne
<1> QED
  BY <1>2, <1>3, <1>4

-----------------------------------------------------------------------------
(* A sequence of sequences, put one behind the other.                      *)

\* The function by which FlattenSeq is defined.
IsFlat(f, q, n) ==
  f = [i \in 1 .. n |-> IF i = 1 THEN q[i] ELSE f[i - 1] \o q[i]]

\* There is such a function, of as many of the sequences as there are.
LEMMA FlatExists ==
  ASSUME NEW q
  PROVE  \A n \in Nat : \E f : IsFlat(f, q, n)
<1> DEFINE A == {n \in Nat : \E f : IsFlat(f, q, n)}
<1>1. 0 \in A
  <2>1. IsFlat(<<>>, q, 0)
    BY DEF IsFlat
  <2> QED
    BY <2>1
<1>2. ASSUME NEW n \in Nat, n \in A
      PROVE  n + 1 \in A
  <2>1. PICK g : IsFlat(g, q, n)
    BY <1>2
  <2> DEFINE f == [i \in 1 .. n + 1 |-> IF i = 1 THEN q[i] ELSE g[i - 1] \o q[i]]
  <2>2. ASSUME NEW i \in 1 .. n
        PROVE  f[i] = g[i]
    <3> DEFINE h == [k \in 1 .. n |-> IF k = 1 THEN q[k] ELSE g[k - 1] \o q[k]]
    <3>0. g = h
      BY <2>1 DEF IsFlat
    <3>1. h[i] = IF i = 1 THEN q[i] ELSE g[i - 1] \o q[i]
      OBVIOUS
    <3> HIDE DEF h
    <3>2. i \in 1 .. n + 1
      OBVIOUS
    <3> QED
      BY <3>0, <3>1, <3>2
  <2>3. \A i \in 1 .. n + 1 : i # 1 => i - 1 \in 1 .. n
    OBVIOUS
  <2>4. IsFlat(f, q, n + 1)
    BY <2>2, <2>3 DEF IsFlat
  <2> QED
    BY <2>4
<1> HIDE DEF A
<1>3. \A n \in Nat : n \in A
  BY <1>1, <1>2, EveryNumber
<1> QED
  BY <1>3 DEF A

\* What FlattenSeq is, one sequence after the other.
Flattens(f, S, q, n) ==
  /\ f \in [1 .. n -> Seq(S)]
  /\ f[1] = q[1] /\ \A i \in 1 .. n - 1 : f[i + 1] = f[i] \o q[i + 1]
  /\ FlattenSeq(q) = f[n]

LEMMA Flattened ==
  ASSUME NEW S, NEW n \in Nat \ {0}, NEW q \in [1 .. n -> Seq(S)]
  PROVE  \E f : Flattens(f, S, q, n)
<1> DEFINE g == CHOOSE f : IsFlat(f, q, n)
<1>1. IsFlat(g, q, n)
  BY FlatExists
<1>2. q \in Seq(Seq(S)) /\ Len(q) = n
  OBVIOUS
<1>3. FlattenSeq(q) = g[n]
  BY <1>2 DEF FlattenSeq, IsFlat
<1> HIDE DEF g
<1>4. DOMAIN g = 1 .. n /\ g[1] = q[1]
  BY <1>1 DEF IsFlat
<1>5. ASSUME NEW i \in 1 .. n - 1
      PROVE  g[i + 1] = g[i] \o q[i + 1]
  <2> DEFINE h == [k \in 1 .. n |-> IF k = 1 THEN q[k] ELSE g[k - 1] \o q[k]]
  <2>1. g = h
    BY <1>1 DEF IsFlat
  <2>2. PICK k \in 1 .. n : k = i + 1 /\ k # 1 /\ k - 1 = i
    OBVIOUS
  <2>3. h[k] = g[k - 1] \o q[k]
    BY <2>2
  <2> HIDE DEF h
  <2> QED
    BY <2>1, <2>2, <2>3
<1>6. \A i \in Nat : i \in 1 .. n => g[i] \in Seq(S)
  <2> DEFINE A == {i \in Nat : i \in 1 .. n => g[i] \in Seq(S)}
  <2>1. ASSUME NEW i \in Nat, i \in A
        PROVE  i + 1 \in A
    <3> SUFFICES ASSUME i + 1 \in 1 .. n
                 PROVE  g[i + 1] \in Seq(S)
      OBVIOUS
    <3>1. CASE i = 0
      <4>1. i + 1 = 1 /\ q[1] \in Seq(S)
        BY <3>1
      <4> QED
        BY <1>4, <4>1
    <3>2. CASE i > 0
      <4>1. i \in 1 .. n - 1 /\ g[i] \in Seq(S) /\ q[i + 1] \in Seq(S)
        BY <2>1, <3>2
      <4>2. g[i + 1] = g[i] \o q[i + 1]
        BY <1>5, <4>1
      <4> QED
        BY <4>1, <4>2, ConcatProperties
    <3> QED
      BY <3>1, <3>2
  <2>2. 0 \in A
    OBVIOUS
  <2> QED
    BY <2>1, <2>2, EveryNumber
<1>7. g \in [1 .. n -> Seq(S)]
  <2>1. g = [i \in DOMAIN g |-> g[i]]
    BY <1>1 DEF IsFlat
  <2> QED
    BY <1>4, <1>6, <2>1
<1>8. Flattens(g, S, q, n)
  BY <1>3, <1>4, <1>5, <1>7 DEF Flattens
<1> QED
  BY <1>8

\* What has been put together stays at the beginning.
Begins(s, t) ==
  Len(s) <= Len(t) /\ \A p \in 1 .. Len(s) : t[p] = s[p]

LEMMA BeginsFurther ==
  ASSUME NEW S, NEW s \in Seq(S), NEW t \in Seq(S), NEW u \in Seq(S),
         Begins(s, t)
  PROVE  Begins(s, t \o u)
<1>1. /\ Len(s) \in Nat /\ Len(t) \in Nat /\ Len(u) \in Nat
      /\ Len(t \o u) = Len(t) + Len(u)
      /\ \A p \in 1 .. Len(t) + Len(u) :
           (t \o u)[p] = IF p <= Len(t) THEN t[p] ELSE u[p - Len(t)]
  BY ConcatProperties, LenProperties
<1>2. \A p \in 1 .. Len(s) : p <= Len(t) /\ p \in 1 .. Len(t) + Len(u)
  BY <1>1 DEF Begins
<1> QED
  BY <1>1, <1>2 DEF Begins

LEMMA PrefixStays ==
  ASSUME NEW S, NEW n \in Nat \ {0}, NEW q \in [1 .. n -> Seq(S)],
         NEW f, Flattens(f, S, q, n), NEW k \in 1 .. n
  PROVE  \A j \in Nat : k + j <= n => Begins(f[k], f[k + j])
<1> DEFINE A == {j \in Nat : k + j <= n => Begins(f[k], f[k + j])}
<1>1. \A i \in 1 .. n : f[i] \in Seq(S) /\ Len(f[i]) \in Nat
  BY LenProperties DEF Flattens
<1>2. 0 \in A
  <2>1. k + 0 = k /\ Begins(f[k], f[k])
    BY <1>1 DEF Begins
  <2> QED
    BY <2>1
<1>3. ASSUME NEW j \in Nat, j \in A
      PROVE  j + 1 \in A
  <2> SUFFICES ASSUME k + (j + 1) <= n
               PROVE  Begins(f[k], f[k + (j + 1)])
    OBVIOUS
  <2>1. PICK i \in 1 .. n - 1 : i = k + j /\ k + (j + 1) = i + 1
    OBVIOUS
  <2>2. Begins(f[k], f[i])
    BY <1>3, <2>1
  <2>3. f[i + 1] = f[i] \o q[i + 1] /\ f[i] \in Seq(S) /\ q[i + 1] \in Seq(S)
    <3>1. i \in 1 .. n /\ i + 1 \in 1 .. n
      OBVIOUS
    <3> QED
      BY <1>1, <3>1 DEF Flattens
  <2>4. Begins(f[k], f[i] \o q[i + 1])
    BY <1>1, <2>2, <2>3, BeginsFurther
  <2> QED
    BY <2>1, <2>3, <2>4
<1> HIDE DEF A
<1>4. \A j \in Nat : j \in A
  BY <1>2, <1>3, EveryNumber
<1> QED
  BY <1>4 DEF A

\* Where the sequences lie in the one they make up: each begins where the one
\* before it ends.
Laid(start, S, q, n) ==
  /\ start \in [1 .. n + 1 -> Nat \ {0}] /\ start[1] = 1
  /\ \A k \in 1 .. n : start[k + 1] = start[k] + Len(q[k])
  /\ FlattenSeq(q) \in Seq(S) /\ Len(FlattenSeq(q)) = start[n + 1] - 1
  /\ \A k \in 1 .. n : \A m \in 1 .. Len(q[k]) :
       FlattenSeq(q)[start[k] + m - 1] = q[k][m]

LEMMA FlattenedLaid ==
  ASSUME NEW S, NEW n \in Nat, NEW q \in [1 .. n -> Seq(S)]
  PROVE  \E start : Laid(start, S, q, n)
<1>1. CASE n = 0
  <2> DEFINE start == [k \in 1 .. 1 |-> 1]
  <2>1. q = <<>> /\ Len(q) = 0 /\ q \in Seq(S)
    BY <1>1
  <2>2. FlattenSeq(q) = q
    BY <2>1 DEF FlattenSeq
  <2>3. start \in [1 .. n + 1 -> Nat \ {0}] /\ start[1] = 1 /\ start[n + 1] = 1
    BY <1>1
  <2> HIDE DEF start
  <2>4. \A k \in 1 .. n : FALSE
    BY <1>1
  <2>5. FlattenSeq(q) \in Seq(S) /\ Len(FlattenSeq(q)) = start[n + 1] - 1
    <3>1. start[n + 1] - 1 = 0
      BY <2>3
    <3> QED
      BY <2>1, <2>2, <3>1
  <2>6. Laid(start, S, q, n)
    BY <2>3, <2>4, <2>5 DEF Laid
  <2> QED
    BY <2>6
<1>2. CASE n # 0
  <2>1. PICK f : Flattens(f, S, q, n)
    BY <1>2, Flattened
  <2>2. /\ \A k \in 1 .. n : f[k] \in Seq(S) /\ q[k] \in Seq(S)
        /\ f[1] = q[1] /\ FlattenSeq(q) = f[n]
        /\ \A k \in 1 .. n - 1 : f[k + 1] = f[k] \o q[k + 1]
    BY <2>1 DEF Flattens
  <2>3. \A k \in 1 .. n : Len(f[k]) \in Nat /\ Len(q[k]) \in Nat
    BY <2>2, LenProperties
  <2> DEFINE start == [k \in 1 .. n + 1 |-> IF k = 1 THEN 1 ELSE Len(f[k - 1]) + 1]
  <2>4. start \in [1 .. n + 1 -> Nat \ {0}] /\ start[1] = 1
    <3>1. \A k \in 1 .. n + 1 : k # 1 => k - 1 \in 1 .. n
      OBVIOUS
    <3> QED
      BY <2>3, <3>1
  <2>5. \A k \in 1 .. n : start[k + 1] = Len(f[k]) + 1
    OBVIOUS
  <2> HIDE DEF start
  <2>6. ASSUME NEW k \in 1 .. n
        PROVE  /\ start[k + 1] = start[k] + Len(q[k])
               /\ \A m \in 1 .. Len(q[k]) :
                    /\ start[k] + m - 1 \in 1 .. Len(f[k])
                    /\ f[k][start[k] + m - 1] = q[k][m]
    <3>1. CASE k = 1
      BY <2>2, <2>3, <2>4, <2>5, <3>1
    <3>2. CASE k # 1
      <4>1. PICK i \in 1 .. n - 1 : k = i + 1
        <5>1. k - 1 \in 1 .. n - 1 /\ k = (k - 1) + 1
          BY <3>2
        <5> QED
          BY <5>1
      <4>2. f[k] = f[i] \o q[k] /\ f[i] \in Seq(S) /\ q[k] \in Seq(S)
        <5>1. f[i + 1] = f[i] \o q[i + 1]
          BY <2>2
        <5>2. i \in 1 .. n
          OBVIOUS
        <5> QED
          BY <2>2, <4>1, <5>1, <5>2
      <4>3. /\ Len(f[k]) = Len(f[i]) + Len(q[k])
            /\ \A p \in 1 .. Len(f[i]) + Len(q[k]) :
                 f[k][p] = IF p <= Len(f[i]) THEN f[i][p] ELSE q[k][p - Len(f[i])]
        BY <4>2, ConcatProperties
      <4>4. /\ start[k] = Len(f[i]) + 1 /\ start[k + 1] = Len(f[k]) + 1
            /\ Len(f[i]) \in Nat /\ Len(q[k]) \in Nat
        BY <2>3, <2>5, <4>1
      <4>5. ASSUME NEW m \in 1 .. Len(q[k])
            PROVE  /\ start[k] + m - 1 \in 1 .. Len(f[k])
                   /\ f[k][start[k] + m - 1] = q[k][m]
        <5>1. start[k] + m - 1 = Len(f[i]) + m
          BY <4>4
        <5>2. /\ Len(f[i]) + m \in 1 .. Len(f[i]) + Len(q[k])
              /\ ~(Len(f[i]) + m <= Len(f[i])) /\ (Len(f[i]) + m) - Len(f[i]) = m
          BY <4>4
        <5> QED
          BY <4>3, <5>1, <5>2
      <4> QED
        BY <4>3, <4>4, <4>5
    <3> QED
      BY <3>1, <3>2
  <2>7. ASSUME NEW k \in 1 .. n, NEW p \in 1 .. Len(f[k])
        PROVE  f[n][p] = f[k][p]
    <3>1. PICK j \in Nat : k + j = n
      <4>1. n - k \in Nat /\ k + (n - k) = n
        OBVIOUS
      <4> QED
        BY <4>1
    <3>2. Begins(f[k], f[k + j])
      <4>1. n \in Nat \ {0} /\ k + j <= n
        BY <1>2, <3>1
      <4> QED
        BY <2>1, <4>1, PrefixStays
    <3> QED
      BY <3>1, <3>2 DEF Begins
  <2>8. Laid(start, S, q, n)
    <3>1. FlattenSeq(q) \in Seq(S) /\ Len(FlattenSeq(q)) = start[n + 1] - 1
      <4>1. n \in 1 .. n
        BY <1>2
      <4>2. start[n + 1] = Len(f[n]) + 1 /\ f[n] \in Seq(S) /\ Len(f[n]) \in Nat
        BY <2>2, <2>3, <2>5, <4>1
      <4> QED
        BY <2>2, <4>2
    <3>2. \A k \in 1 .. n : \A m \in 1 .. Len(q[k]) :
            FlattenSeq(q)[start[k] + m - 1] = q[k][m]
      BY <2>2, <2>6, <2>7
    <3> QED
      BY <2>4, <2>6, <3>1, <3>2 DEF Laid
  <2> QED
    BY <2>8
<1> QED
  BY <1>1, <1>2

\* Each begins behind all that come before it.
LEMMA LaidInOrder ==
  ASSUME NEW S, NEW n \in Nat, NEW q \in [1 .. n -> Seq(S)],
         NEW start, Laid(start, S, q, n), NEW k \in 1 .. n
  PROVE  \A j \in Nat : k + j <= n => start[k + 1] <= start[k + 1 + j]
<1> DEFINE A == {j \in Nat : k + j <= n => start[k + 1] <= start[k + 1 + j]}
<1>1. /\ \A i \in 1 .. n + 1 : start[i] \in Nat
      /\ \A i \in 1 .. n : start[i + 1] = start[i] + Len(q[i]) /\ Len(q[i]) \in Nat
  BY LenProperties DEF Laid
<1>2. 0 \in A
  <2>1. k + 1 + 0 = k + 1 /\ k + 1 \in 1 .. n + 1
    OBVIOUS
  <2> QED
    BY <1>1, <2>1
<1>3. ASSUME NEW j \in Nat, j \in A
      PROVE  j + 1 \in A
  <2> SUFFICES ASSUME k + (j + 1) <= n
               PROVE  start[k + 1] <= start[k + 1 + (j + 1)]
    OBVIOUS
  <2>1. PICK i \in 1 .. n : i = k + 1 + j /\ k + 1 + (j + 1) = i + 1
    OBVIOUS
  <2>2. start[k + 1] <= start[i]
    BY <1>3, <2>1
  <2>3. start[i] <= start[i + 1] /\ start[i + 1] \in Nat /\ start[i] \in Nat
    BY <1>1
  <2>4. start[k + 1] \in Nat
    BY <1>1
  <2> QED
    BY <2>1, <2>2, <2>3, <2>4
<1> HIDE DEF A
<1>4. \A j \in Nat : j \in A
  BY <1>2, <1>3, EveryNumber
<1> QED
  BY <1>4 DEF A

\* Every place of the whole is in one of them.
Covers(start, q, n) ==
  \A p \in 1 .. start[n + 1] - 1 :
    \E k \in 1 .. n : \E m \in 1 .. Len(q[k]) : p = start[k] + m - 1

LEMMA LaidEverywhere ==
  ASSUME NEW S, NEW n \in Nat, NEW q \in [1 .. n -> Seq(S)],
         NEW start, Laid(start, S, q, n)
  PROVE  Covers(start, q, n)
<1> SUFFICES ASSUME NEW p \in 1 .. start[n + 1] - 1
             PROVE  \E k \in 1 .. n : \E m \in 1 .. Len(q[k]) : p = start[k] + m - 1
  BY DEF Covers
<1>1. /\ \A i \in 1 .. n + 1 : start[i] \in Nat
      /\ \A i \in 1 .. n : start[i + 1] = start[i] + Len(q[i]) /\ Len(q[i]) \in Nat
      /\ start[1] = 1
  BY LenProperties DEF Laid
<1> DEFINE ends == {k \in 1 .. n : p < start[k + 1]}
           k == Min(ends)
<1>2. n # 0 /\ n \in ends
  <2>1. n # 0
    BY <1>1
  <2> QED
    BY <1>1, <2>1
<1>3. k \in ends /\ \A x \in ends : k <= x
  <2>1. ends \in SUBSET (1 .. n) /\ ends # {}
    BY <1>2
  <2> HIDE DEF ends
  <2> QED
    BY <2>1, FirstPosition
<1> HIDE DEF k
<1>4. start[k] <= p
  <2>1. CASE k = 1
    BY <1>1, <2>1
  <2>2. CASE k # 1
    <3>1. k \in 1 .. n
      BY <1>3
    <3>2. k - 1 \in 1 .. n /\ (k - 1) + 1 = k /\ ~(k <= k - 1)
      BY <2>2, <3>1
    <3>3. ~(p < start[(k - 1) + 1])
      BY <1>3, <3>2
    <3>4. start[k] \in Nat
      BY <1>1, <3>1
    <3> QED
      BY <3>2, <3>3, <3>4
  <2> QED
    BY <2>1, <2>2
<1>5. k \in 1 .. n /\ p < start[k] + Len(q[k]) /\ start[k] \in Nat
  BY <1>1, <1>3
<1>6. PICK m \in 1 .. Len(q[k]) : p = start[k] + m - 1
  <2>1. Len(q[k]) \in Nat /\ p \in Nat
    BY <1>1, <1>2, <1>5
  <2>2. /\ p - start[k] + 1 \in 1 .. Len(q[k])
        /\ p = start[k] + (p - start[k] + 1) - 1
    BY <1>4, <1>5, <2>1
  <2> QED
    BY <2>2
<1> QED
  BY <1>5, <1>6

\* It holds what the sequences hold.
LEMMA FlattenedHolds ==
  ASSUME NEW S, NEW n \in Nat \ {0}, NEW q \in [1 .. n -> Seq(S)]
  PROVE  /\ FlattenSeq(q) \in Seq(S)
         /\ \A x : Holds(FlattenSeq(q), x) <=> \E k \in 1 .. n : Holds(q[k], x)
<1>1. PICK f :
        /\ f \in [1 .. n -> Seq(S)]
        /\ f[1] = q[1] /\ \A i \in 1 .. n - 1 : f[i + 1] = f[i] \o q[i + 1]
        /\ FlattenSeq(q) = f[n]
  <2>1. PICK f : Flattens(f, S, q, n)
    BY Flattened
  <2> QED
    BY <2>1 DEF Flattens
<1>2. ASSUME NEW x
      PROVE  \A i \in Nat : i \in 1 .. n =>
               (Holds(f[i], x) <=> \E k \in 1 .. i : Holds(q[k], x))
  <2> DEFINE A == {i \in Nat : i \in 1 .. n =>
                     (Holds(f[i], x) <=> \E k \in 1 .. i : Holds(q[k], x))}
  <2>1. ASSUME NEW i \in Nat, i \in A
        PROVE  i + 1 \in A
    <3> SUFFICES ASSUME i + 1 \in 1 .. n
                 PROVE  Holds(f[i + 1], x) <=> \E k \in 1 .. i + 1 : Holds(q[k], x)
      OBVIOUS
    <3>1. CASE i = 0
      <4>1. i + 1 = 1 /\ f[i + 1] = q[1] /\ \A k \in 1 .. i + 1 : k = 1
        BY <1>1, <3>1
      <4> QED
        BY <4>1
    <3>2. CASE i > 0
      <4>1. i \in 1 .. n - 1 /\ i \in 1 .. n /\ i + 1 \in 1 .. n
        BY <3>2
      <4>2. f[i + 1] = f[i] \o q[i + 1] /\ f[i] \in Seq(S) /\ q[i + 1] \in Seq(S)
        BY <1>1, <4>1
      <4>3. Holds(f[i + 1], x) <=> Holds(f[i], x) \/ Holds(q[i + 1], x)
        BY <4>2, HoldsConcat
      <4>4. Holds(f[i], x) <=> \E k \in 1 .. i : Holds(q[k], x)
        BY <2>1, <4>1
      <4>5. \A k : k \in 1 .. i + 1 <=> k \in 1 .. i \/ k = i + 1
        OBVIOUS
      <4> QED
        BY <4>3, <4>4, <4>5
    <3> QED
      BY <3>1, <3>2
  <2>2. 0 \in A
    OBVIOUS
  <2> HIDE DEF A
  <2>3. \A i \in Nat : i \in A
    BY <2>1, <2>2, EveryNumber
  <2> QED
    BY <2>3 DEF A
<1>3. n \in Nat /\ n \in 1 .. n
  OBVIOUS
<1>4. f[n] \in Seq(S)
  BY <1>1, <1>3
<1>5. ASSUME NEW x
      PROVE  Holds(f[n], x) <=> \E k \in 1 .. n : Holds(q[k], x)
  BY <1>2, <1>3
<1> QED
  BY <1>1, <1>4, <1>5

\* There is nothing in it if there is nothing in any of them.
LEMMA FlattenedEmpty ==
  ASSUME NEW S, NEW n \in Nat \ {0}, NEW q \in [1 .. n -> Seq(S)],
         \A k \in 1 .. n : q[k] = <<>>
  PROVE  FlattenSeq(q) = <<>>
<1> DEFINE s == FlattenSeq(q)
<1>1. s \in Seq(S) /\ \A x : ~Holds(s, x)
  <2>1. \A x : \A k \in 1 .. n : ~Holds(q[k], x)
    BY DEF Holds
  <2> QED
    BY <2>1, FlattenedHolds
<1> HIDE DEF s
<1>2. Len(s) \in Nat /\ (Len(s) > 0 => Holds(s, s[1]))
  BY <1>1, LenProperties DEF Holds
<1>3. Len(s) = 0
  BY <1>1, <1>2
<1>4. s = <<>>
  BY <1>1, <1>3, EmptySeq
<1> QED
  BY <1>4 DEF s

\* ConcatAssociative in a form that can be instantiated with parts of functions.
Joins(s, t, u) == (s \o t) \o u = s \o (t \o u)

LEMMA ConcatThree ==
  \A S : \A s, t, u \in Seq(S) : Joins(s, t, u)
<1> SUFFICES ASSUME NEW S, NEW s \in Seq(S), NEW t \in Seq(S), NEW u \in Seq(S)
             PROVE  (s \o t) \o u = s \o (t \o u)
  BY DEF Joins
<1> QED
  BY ConcatAssociative

\* Where two sequences of sequences differ in one place, so do those that are
\* made of them.
Around(s, before, here, after) == s = (before \o here) \o after

LEMMA FlattenedSplit ==
  ASSUME NEW S, NEW n \in Nat \ {0}, NEW q \in [1 .. n -> Seq(S)],
         NEW r \in [1 .. n -> Seq(S)], NEW k \in 1 .. n,
         \A i \in 1 .. n : i # k => r[i] = q[i]
  PROVE  \E before, after \in Seq(S) :
           /\ Around(FlattenSeq(q), before, q[k], after)
           /\ Around(FlattenSeq(r), before, r[k], after)
<1>1. PICK f :
        /\ f \in [1 .. n -> Seq(S)]
        /\ f[1] = q[1] /\ \A i \in 1 .. n - 1 : f[i + 1] = f[i] \o q[i + 1]
        /\ FlattenSeq(q) = f[n]
  <2>1. PICK f : Flattens(f, S, q, n)
    BY Flattened
  <2> QED
    BY <2>1 DEF Flattens
<1>2. PICK g :
        /\ g \in [1 .. n -> Seq(S)]
        /\ g[1] = r[1] /\ \A i \in 1 .. n - 1 : g[i + 1] = g[i] \o r[i + 1]
        /\ FlattenSeq(r) = g[n]
  <2>1. PICK g : Flattens(g, S, r, n)
    BY Flattened
  <2> QED
    BY <2>1 DEF Flattens
\* Up to the place they are the same.
<1>3. \A i \in Nat : i \in 1 .. k - 1 => f[i] = g[i]
  <2> DEFINE A == {i \in Nat : i \in 1 .. k - 1 => f[i] = g[i]}
  <2>1. ASSUME NEW i \in Nat, i \in A
        PROVE  i + 1 \in A
    <3> SUFFICES ASSUME i + 1 \in 1 .. k - 1
                 PROVE  f[i + 1] = g[i + 1]
      OBVIOUS
    <3>1. i + 1 \in 1 .. n /\ i + 1 # k /\ r[i + 1] = q[i + 1]
      OBVIOUS
    <3>2. CASE i = 0
      <4>1. i + 1 = 1
        BY <3>2
      <4> QED
        BY <1>1, <1>2, <3>1, <4>1
    <3>3. CASE i > 0
      <4>1. i \in 1 .. n - 1 /\ f[i] = g[i]
        BY <2>1, <3>3
      <4> QED
        BY <1>1, <1>2, <3>1, <4>1
    <3> QED
      BY <3>2, <3>3
  <2>2. 0 \in A
    OBVIOUS
  <2> HIDE DEF A
  <2>3. \A i \in Nat : i \in A
    BY <2>1, <2>2, EveryNumber
  <2> QED
    BY <2>3 DEF A
\* There they begin to differ.
<1>4. \E before \in Seq(S) : f[k] = before \o q[k] /\ g[k] = before \o r[k]
  <2>1. q[k] \in Seq(S) /\ r[k] \in Seq(S)
    OBVIOUS
  <2>2. CASE k = 1
    <3>1. PICK none : none = <<>> /\ none \in Seq(S)
      BY EmptySeq
    <3>2. f[k] = none \o q[k] /\ g[k] = none \o r[k]
      BY <1>1, <1>2, <2>1, <2>2, <3>1, ConcatEmptySeq
    <3> QED
      BY <3>1, <3>2
  <2>3. CASE k # 1
    <3>1. PICK i \in 1 .. n - 1 : i + 1 = k
      <4>1. k - 1 \in 1 .. n - 1 /\ (k - 1) + 1 = k
        BY <2>3
      <4> QED
        BY <4>1
    <3>2. f[i] = g[i] /\ f[i] \in Seq(S)
      <4>1. i \in Nat /\ i \in 1 .. k - 1 /\ i \in 1 .. n
        BY <3>1
      <4> QED
        BY <1>1, <1>3, <4>1
    <3> QED
      BY <1>1, <1>2, <3>1, <3>2
  <2> QED
    BY <2>2, <2>3
<1>5. PICK before \in Seq(S) : f[k] = before \o q[k] /\ g[k] = before \o r[k]
  BY <1>4
<1>6. before \o q[k] \in Seq(S) /\ before \o r[k] \in Seq(S)
  BY ConcatProperties
\* What follows is the same again.
<1> DEFINE Split(i, after) == /\ f[i] = (before \o q[k]) \o after
                              /\ g[i] = (before \o r[k]) \o after
<1>7. \A i \in Nat : i \in k .. n => \E after \in Seq(S) : Split(i, after)
  <2> DEFINE A == {i \in Nat : i \in k .. n => \E after \in Seq(S) : Split(i, after)}
  <2>1. ASSUME NEW i \in Nat, i \in A
        PROVE  i + 1 \in A
    <3> SUFFICES ASSUME i + 1 \in k .. n
                 PROVE  \E after \in Seq(S) : Split(i + 1, after)
      <4> HIDE DEF Split
      <4> QED
        OBVIOUS
    <3>1. CASE i + 1 = k
      <4>1. PICK none : none = <<>> /\ none \in Seq(S)
        BY EmptySeq
      <4>2. Split(i + 1, none)
        BY <1>5, <1>6, <3>1, <4>1, ConcatEmptySeq
      <4> HIDE DEF Split
      <4> QED
        BY <4>1, <4>2
    <3>2. CASE i + 1 # k
      <4>1. /\ i \in k .. n /\ i \in 1 .. n - 1
            /\ i + 1 \in 1 .. n /\ r[i + 1] = q[i + 1] /\ q[i + 1] \in Seq(S)
        BY <3>2
      <4>2. PICK after \in Seq(S) : Split(i, after)
        <5> HIDE DEF Split
        <5> QED
          BY <2>1, <4>1
      <4>3. PICK longer \in Seq(S) : longer = after \o q[i + 1]
        BY <4>1, ConcatProperties
      <4>4. /\ f[i + 1] = ((before \o q[k]) \o after) \o q[i + 1]
            /\ g[i + 1] = ((before \o r[k]) \o after) \o q[i + 1]
        BY <1>1, <1>2, <4>1, <4>2
      <4>5. /\ ((before \o q[k]) \o after) \o q[i + 1] =
                 (before \o q[k]) \o (after \o q[i + 1])
            /\ ((before \o r[k]) \o after) \o q[i + 1] =
                 (before \o r[k]) \o (after \o q[i + 1])
        <5>1. PICK part \in Seq(S) : part = q[i + 1]
          BY <4>1
        <5>2. after \in Seq(S)
          BY <4>2
        <5>3. ASSUME NEW head \in Seq(S)
              PROVE  (head \o after) \o part = head \o (after \o part)
          <6>1. Joins(head, after, part)
            BY <5>1, <5>2, <5>3, ConcatThree
          <6> QED
            BY <6>1 DEF Joins
        <5> QED
          BY <1>6, <5>1, <5>3
      <4>6. Split(i + 1, longer)
        BY <4>3, <4>4, <4>5
      <4> HIDE DEF Split
      <4> QED
        BY <4>6
    <3> QED
      BY <3>1, <3>2
  <2>2. 0 \in A
    OBVIOUS
  <2> HIDE DEF A
  <2>3. \A i \in Nat : i \in A
    BY <2>1, <2>2, EveryNumber
  <2> QED
    BY <2>3 DEF A
<1>8. n \in Nat /\ n \in k .. n
  OBVIOUS
<1>9. PICK after \in Seq(S) : Split(n, after)
  <2> HIDE DEF Split
  <2> QED
    BY <1>7, <1>8
<1> QED
  BY <1>1, <1>2, <1>9 DEF Around

\* Of two numbers the one is the part c and a rest, the other d and that rest.
SameRest(a, c, b, d) == \E rest \in Nat : a = rest + c /\ b = rest + d

\* What is counted changes by what changes in that place.
LEMMA CountSplit ==
  ASSUME NEW S, NEW n \in Nat \ {0}, NEW q \in [1 .. n -> Seq(S)],
         NEW r \in [1 .. n -> Seq(S)], NEW k \in 1 .. n,
         \A i \in 1 .. n : i # k => r[i] = q[i], NEW P
  PROVE  SameRest(Count(FlattenSeq(q), P), Count(q[k], P),
                  Count(FlattenSeq(r), P), Count(r[k], P))
<1>1. PICK before \in Seq(S), after \in Seq(S) :
        /\ Around(FlattenSeq(q), before, q[k], after)
        /\ Around(FlattenSeq(r), before, r[k], after)
  BY FlattenedSplit
<1>2. before \in Seq(S) /\ after \in Seq(S)
  BY <1>1
<1> DEFINE rest == Count(before, P) + Count(after, P)
<1>3. ASSUME NEW here \in Seq(S)
      PROVE  Count((before \o here) \o after, P) = rest + Count(here, P)
  <2>1. before \o here \in Seq(S)
    BY <1>2, <1>3, ConcatProperties
  <2>2. PICK first \in Seq(S) : first = before \o here
    BY <2>1
  <2>3. Count(first \o after, P) = Count(first, P) + Count(after, P)
    BY <1>2, <2>2, CountConcat
  <2>4. Count(before \o here, P) = Count(before, P) + Count(here, P)
    BY <1>2, <1>3, CountConcat
  <2>5. Count(before, P) \in Nat /\ Count(here, P) \in Nat /\ Count(after, P) \in Nat
    BY <1>2, <1>3, CountIsNumber
  <2> QED
    BY <2>2, <2>3, <2>4, <2>5
<1>4. rest \in Nat
  <2>1. Count(before, P) \in Nat /\ Count(after, P) \in Nat
    BY <1>2, CountIsNumber
  <2> QED
    BY <2>1
<1> HIDE DEF rest
<1>5. PICK here \in Seq(S), there \in Seq(S) : here = q[k] /\ there = r[k]
  <2>1. q[k] \in Seq(S) /\ r[k] \in Seq(S)
    OBVIOUS
  <2> QED
    BY <2>1
<1>6. /\ Count((before \o here) \o after, P) = rest + Count(here, P)
      /\ Count((before \o there) \o after, P) = rest + Count(there, P)
  BY <1>3, <1>5
<1> QED
  BY <1>1, <1>4, <1>5, <1>6 DEF Around, SameRest

=============================================================================
