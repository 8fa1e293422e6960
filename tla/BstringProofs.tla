--------------------------- MODULE BstringProofs ---------------------------
(***************************************************************************)
(* What the calls of Bstring leave, for characters and texts of any kind,   *)
(* strings of any length and blocks of any size; and, at the end, that the  *)
(* streams of BstrStream read what Stream promises.                        *)
(***************************************************************************)
EXTENDS Strings, SequenceLemmas

-----------------------------------------------------------------------------
(* Operations on texts and blocks, character by character.  S is the set of  *)
(* what may be in them, l, m and n are the lengths of s, t and u.           *)

\* The part of t that follows its first k characters.
IsPart(w, S, t, k, n) ==
  SeqLong(w, S, n) /\ \A i \in 1 .. n : w[i] = t[k + i]

LEMMA PartOf ==
  ASSUME NEW S, NEW t, NEW l \in Nat, SeqLong(t, S, l),
         NEW k \in Nat, NEW n \in Int, k + n <= l
  PROVE  IsPart(SubSeq(t, k + 1, k + n), S, t, k, IF 0 <= n THEN n ELSE 0)
<1>1. t \in Seq(S) /\ Len(t) = l /\ l \in Nat
  BY DEF SeqLong
<1>2. \A i \in k + 1 .. k + n : t[i] \in S
  BY <1>1
<1>3. /\ SubSeq(t, k + 1, k + n) \in Seq(S)
      /\ Len(SubSeq(t, k + 1, k + n)) =
           IF k + 1 <= k + n THEN (k + n) - (k + 1) + 1 ELSE 0
      /\ \A i \in 1 .. (k + n) - (k + 1) + 1 :
           SubSeq(t, k + 1, k + n)[i] = t[(k + 1) + i - 1]
  BY <1>2, SubSeqProperties
<1> PICK w : w = SubSeq(t, k + 1, k + n)
  OBVIOUS
<1> PICK m \in Nat : m = IF 0 <= n THEN n ELSE 0
  OBVIOUS
<1>4. SeqLong(w, S, m)
  BY <1>3 DEF SeqLong
<1>5. ASSUME NEW i \in 1 .. m
      PROVE  w[i] = t[k + i]
  <2>1. i \in 1 .. (k + n) - (k + 1) + 1 /\ (k + 1) + i - 1 = k + i
    OBVIOUS
  <2> QED
    BY <1>3, <2>1
<1> QED
  BY <1>4, <1>5 DEF IsPart

\* Texts of the same length and with the same characters are the same.
LEMMA SameText ==
  ASSUME NEW S, NEW n \in Nat, NEW v, SeqLong(v, S, n), NEW w, SeqLong(w, S, n),
         \A i \in 1 .. n : v[i] = w[i]
  PROVE  v = w
BY SeqEqual DEF SeqLong

LEMMA FunctionIsText ==
  ASSUME NEW S, NEW n \in Nat, NEW f \in [1 .. n -> S]
  PROVE  SeqLong(f, S, n)
BY DEF SeqLong

\* As many of the first pos characters of t as there are.
LEMMA BeforePlaces ==
  ASSUME NEW S, NEW t, NEW l \in Nat, SeqLong(t, S, l), NEW pos \in Nat
  PROVE  IsPart(Before(t, pos), S, t, 0, IF pos <= l THEN pos ELSE l)
<1>1. Len(t) = l /\ l \in Nat
  BY DEF SeqLong
<1>2. Min({pos, l}) = IF pos <= l THEN pos ELSE l
  BY <1>1, OfTwo
<1>3. PICK n \in Nat : n = Min({pos, l}) /\ n <= l
  BY <1>1, <1>2
<1>4. IsPart(SubSeq(t, 0 + 1, 0 + n), S, t, 0, IF 0 <= n THEN n ELSE 0)
  BY <1>1, <1>3, PartOf
<1>5. 0 + 1 = 1 /\ 0 + n = n /\ (IF 0 <= n THEN n ELSE 0) = n
  OBVIOUS
<1>6. Before(t, pos) = SubSeq(t, 1, n)
  BY <1>1, <1>3 DEF Before
<1> QED
  BY <1>2, <1>3, <1>4, <1>5, <1>6

\* What follows them.
LEMMA FromPlaces ==
  ASSUME NEW S, NEW t, NEW l \in Nat, SeqLong(t, S, l), NEW pos \in Nat
  PROVE  IsPart(From(t, pos), S, t, pos, IF pos <= l THEN l - pos ELSE 0)
<1>1. Len(t) = l /\ l \in Nat
  BY DEF SeqLong
<1> PICK n \in Int : n = l - pos
  BY <1>1
<1>2. pos + n = l /\ (IF 0 <= n THEN n ELSE 0) = IF pos <= l THEN l - pos ELSE 0
  BY <1>1
<1>3. IsPart(SubSeq(t, pos + 1, pos + n), S, t, pos, IF 0 <= n THEN n ELSE 0)
  BY <1>1, <1>2, PartOf
<1> QED
  BY <1>1, <1>2, <1>3 DEF From

IsFill(w, S, n, c) == SeqLong(w, S, n) /\ \A i \in 1 .. n : w[i] = c

LEMMA FillPlaces ==
  ASSUME NEW S, NEW n \in Nat, NEW c \in S
  PROVE  IsFill(Fill(n, c), S, n, c)
BY DEF Fill, IsFill, SeqLong

\* t after s, and u after t.
IsConcat(w, S, s, l, t, m) ==
  /\ SeqLong(w, S, l + m)
  /\ \A i \in 1 .. l + m : w[i] = IF i <= l THEN s[i] ELSE t[i - l]

LEMMA ConcatIf ==
  ASSUME NEW S, NEW s, NEW l \in Nat, SeqLong(s, S, l),
         NEW t, NEW m \in Nat, SeqLong(t, S, m)
  PROVE  IsConcat(s \o t, S, s, l, t, m)
<1>1. s \in Seq(S) /\ t \in Seq(S) /\ Len(s) = l /\ Len(t) = m /\ l \in Nat /\ m \in Nat
  BY DEF SeqLong
<1>2. /\ s \o t \in Seq(S) /\ Len(s \o t) = Len(s) + Len(t)
      /\ \A i \in 1 .. Len(s) + Len(t) :
           (s \o t)[i] = IF i <= Len(s) THEN s[i] ELSE t[i - Len(s)]
  BY <1>1, ConcatProperties
<1> PICK w : w = s \o t
  OBVIOUS
<1>3. SeqLong(w, S, l + m) /\ \A i \in 1 .. l + m : w[i] = IF i <= l THEN s[i] ELSE t[i - l]
  BY <1>1, <1>2 DEF SeqLong
<1> QED
  BY <1>3 DEF IsConcat

IsThree(w, S, s, l, t, m, u, n) ==
  /\ SeqLong(w, S, l + m + n)
  /\ \A i \in 1 .. l + m + n :
       w[i] = IF i <= l THEN s[i]
              ELSE IF i <= l + m THEN t[i - l] ELSE u[i - (l + m)]

LEMMA ThreeJoined ==
  ASSUME NEW S, NEW l \in Nat, NEW m \in Nat, NEW n \in Nat, NEW s, NEW t, NEW u,
         NEW v, IsConcat(v, S, s, l, t, m), NEW w, IsConcat(w, S, v, l + m, u, n)
  PROVE  IsThree(w, S, s, l, t, m, u, n)
<1>1. ASSUME NEW i \in 1 .. l + m + n
      PROVE  w[i] = IF i <= l THEN s[i]
                    ELSE IF i <= l + m THEN t[i - l] ELSE u[i - (l + m)]
  BY DEF IsConcat
<1> QED
  BY <1>1 DEF IsConcat, IsThree

LEMMA ThreePlaces ==
  ASSUME NEW S, NEW s, NEW l \in Nat, SeqLong(s, S, l),
         NEW t, NEW m \in Nat, SeqLong(t, S, m),
         NEW u, NEW n \in Nat, SeqLong(u, S, n)
  PROVE  IsThree(s \o t \o u, S, s, l, t, m, u, n)
<1>1. IsConcat(s \o t, S, s, l, t, m)
  BY ConcatIf
<1>2. SeqLong(s \o t, S, l + m) /\ l + m \in Nat
  BY <1>1 DEF IsConcat
<1>3. IsConcat(s \o t \o u, S, s \o t, l + m, u, n)
  BY <1>2, ConcatIf
<1> QED
  BY <1>1, <1>3, ThreeJoined

\* Memory of length l into which u is put at pos: c is what is between its end and
\* pos.
IsOverlaid(w, S, t, l, pos, u, n, c) ==
  /\ SeqLong(w, S, IF l <= pos + n THEN pos + n ELSE l)
  /\ \A i \in 1 .. IF l <= pos + n THEN pos + n ELSE l :
       w[i] = IF pos < i /\ i <= pos + n THEN u[i - pos]
              ELSE IF i <= l THEN t[i] ELSE c

LEMMA PutPlaces ==
  ASSUME NEW S, NEW t, NEW l \in Nat, SeqLong(t, S, l), NEW pos \in Nat,
         NEW u, NEW n \in Nat, SeqLong(u, S, n), Junk \in S
  PROVE  IsOverlaid(Put(t, pos, u), S, t, l, pos, u, n, Junk)
<1>1. l \in Nat /\ n \in Nat /\ Len(t) = l /\ Len(u) = n
  BY DEF SeqLong
<1>2. Max({l, pos + n}) = IF l <= pos + n THEN pos + n ELSE l
  <2>1. l \in Int /\ pos + n \in Int
    OBVIOUS
  <2> QED
    BY ONLY <2>1, OfTwo
<1> PICK k \in Nat : k = IF l <= pos + n THEN pos + n ELSE l
  BY <1>1
<1> DEFINE p == [i \in 1 .. k |-> CASE i \in pos + 1 .. pos + n -> u[i - pos]
                                    [] i \notin pos + 1 .. pos + n /\ i <= l -> t[i]
                                    [] OTHER -> Junk]
<1>3. Put(t, pos, u) = p
  BY <1>1, <1>2 DEF Put
<1>4. ASSUME NEW i \in 1 .. k
      PROVE  /\ p[i] = IF pos < i /\ i <= pos + n THEN u[i - pos]
                       ELSE IF i <= l THEN t[i] ELSE Junk
             /\ p[i] \in S
  <2>1. CASE pos < i /\ i <= pos + n
    <3>1. i \in pos + 1 .. pos + n /\ i - pos \in 1 .. n
      BY <1>1, <2>1
    <3>2. u[i - pos] \in S
      BY <3>1 DEF SeqLong
    <3> QED
      BY <3>1, <3>2, <2>1
  <2>2. CASE ~(pos < i /\ i <= pos + n) /\ i <= l
    <3>1. i \notin pos + 1 .. pos + n
      BY <1>1, <2>2
    <3>2. t[i] \in S
      BY <2>2 DEF SeqLong
    <3> QED
      BY <3>1, <3>2, <2>2
  <2>3. CASE ~(pos < i /\ i <= pos + n) /\ ~(i <= l)
    <3>1. i \notin pos + 1 .. pos + n
      BY <1>1, <2>3
    <3> QED
      BY <3>1, <2>3
  <2> QED
    BY <2>1, <2>2, <2>3
<1>5. p \in [1 .. k -> S]
  BY <1>4
<1> HIDE DEF p
<1>6. SeqLong(p, S, k)
  BY <1>5, FunctionIsText
<1>7. IsOverlaid(p, S, t, l, pos, u, n, Junk)
  BY <1>4, <1>6 DEF IsOverlaid
<1> QED
  BY <1>3, <1>7

-----------------------------------------------------------------------------
(* What the calls promise, character by character.                          *)

\* The first pos characters of t, and c where it has fewer.
IsHead(w, S, t, l, pos, c) ==
  SeqLong(w, S, pos) /\ \A i \in 1 .. pos : w[i] = IF i <= l THEN t[i] ELSE c

IsReaching(w, S, t, l, pos, c) ==
  /\ SeqLong(w, S, IF pos <= l THEN l ELSE pos)
  /\ \A i \in 1 .. IF pos <= l THEN l ELSE pos : w[i] = IF i <= l THEN t[i] ELSE c

LEMMA ReachingJoined ==
  ASSUME NEW S, NEW t, NEW l \in Nat, NEW pos \in Nat, NEW n \in Nat,
         n = IF pos - l <= 0 THEN 0 ELSE pos - l,
         NEW c, NEW f, IsFill(f, S, n, c), NEW w, IsConcat(w, S, t, l, f, n)
  PROVE  IsReaching(w, S, t, l, pos, c)
<1>1. l + n = IF pos <= l THEN l ELSE pos
  OBVIOUS
<1>2. ASSUME NEW i \in 1 .. l + n
      PROVE  w[i] = IF i <= l THEN t[i] ELSE c
  BY DEF IsConcat, IsFill
<1> QED
  BY <1>1, <1>2 DEF IsConcat, IsReaching

LEMMA ReachingPlaces ==
  ASSUME NEW S, NEW t, NEW l \in Nat, SeqLong(t, S, l), NEW pos \in Nat, NEW c \in S
  PROVE  IsReaching(Reaching(t, pos, c), S, t, l, pos, c)
<1>1. Len(t) = l
  BY DEF SeqLong
<1>2. pos - l \in Int /\ 0 \in Int
  OBVIOUS
<1>3. Max({pos - l, 0}) = IF pos - l <= 0 THEN 0 ELSE pos - l
  BY ONLY <1>2, OfTwo
<1>4. (IF pos - l <= 0 THEN 0 ELSE pos - l) \in Nat
  OBVIOUS
<1> PICK n \in Nat : n = IF pos - l <= 0 THEN 0 ELSE pos - l
  BY <1>4
<1>5. IsFill(Fill(n, c), S, n, c)
  BY FillPlaces
<1>6. SeqLong(Fill(n, c), S, n)
  BY <1>5 DEF IsFill
<1>7. IsConcat(t \o Fill(n, c), S, t, l, Fill(n, c), n)
  BY <1>6, ConcatIf
<1>8. IsReaching(t \o Fill(n, c), S, t, l, pos, c)
  BY <1>5, <1>7, ReachingJoined
<1> QED
  BY <1>1, <1>3, <1>8 DEF Reaching

LEMMA HeadJoined ==
  ASSUME NEW S, NEW t, NEW l \in Nat, NEW pos \in Nat, NEW c,
         NEW r, IsReaching(r, S, t, l, pos, c),
         NEW h, IsPart(h, S, r, 0, pos)
  PROVE  IsHead(h, S, t, l, pos, c)
<1>1. ASSUME NEW i \in 1 .. pos
      PROVE  h[i] = IF i <= l THEN t[i] ELSE c
  <2>1. 0 + i = i /\ i \in 1 .. IF pos <= l THEN l ELSE pos
    OBVIOUS
  <2> QED
    BY <2>1 DEF IsPart, IsReaching
<1> QED
  BY <1>1 DEF IsHead, IsPart

LEMMA HeadPlaces ==
  ASSUME NEW S, NEW t, NEW l \in Nat, SeqLong(t, S, l), NEW pos \in Nat, NEW c \in S
  PROVE  IsHead(Before(Reaching(t, pos, c), pos), S, t, l, pos, c)
<1>1. IsReaching(Reaching(t, pos, c), S, t, l, pos, c)
  BY ReachingPlaces
<1>2. (IF pos <= l THEN l ELSE pos) \in Nat
  OBVIOUS
<1> PICK k \in Nat : k = IF pos <= l THEN l ELSE pos
  BY <1>2
<1>3. SeqLong(Reaching(t, pos, c), S, k)
  BY <1>1 DEF IsReaching
<1>4. (IF pos <= k THEN pos ELSE k) = pos
  OBVIOUS
<1>5. IsPart(Before(Reaching(t, pos, c), pos), S, Reaching(t, pos, c), 0, pos)
  BY <1>3, <1>4, BeforePlaces
<1> QED
  BY <1>1, <1>5, HeadJoined

\* The head of t, u, and what follows the first from characters of t.
IsSpliced(w, S, t, l, pos, u, n, from, c) ==
  LET m == IF from <= l THEN l - from ELSE 0
  IN  /\ SeqLong(w, S, pos + n + m)
      /\ \A i \in 1 .. pos + n + m :
           w[i] = IF i <= pos THEN IF i <= l THEN t[i] ELSE c
                  ELSE IF i <= pos + n THEN u[i - pos] ELSE t[from + (i - (pos + n))]

LEMMA SplicedJoined ==
  ASSUME NEW S, NEW t, NEW l \in Nat, NEW pos \in Nat, NEW u, NEW n \in Nat,
         NEW from \in Nat, NEW c, NEW h, IsHead(h, S, t, l, pos, c),
         NEW m \in Nat, m = IF from <= l THEN l - from ELSE 0,
         NEW f, IsPart(f, S, t, from, m),
         NEW w, IsThree(w, S, h, pos, u, n, f, m)
  PROVE  IsSpliced(w, S, t, l, pos, u, n, from, c)
<1>1. ASSUME NEW i \in 1 .. pos + n + m
      PROVE  w[i] = IF i <= pos THEN IF i <= l THEN t[i] ELSE c
                    ELSE IF i <= pos + n THEN u[i - pos]
                    ELSE t[from + (i - (pos + n))]
  BY DEF IsHead, IsPart, IsThree
<1> QED
  BY <1>1 DEF IsThree, IsSpliced

LEMMA SplicedPlaces ==
  ASSUME NEW S, NEW t, NEW l \in Nat, SeqLong(t, S, l), NEW pos \in Nat,
         NEW u, NEW n \in Nat, SeqLong(u, S, n), NEW from \in Nat, NEW c \in S
  PROVE  IsSpliced(Before(Reaching(t, pos, c), pos) \o u \o From(t, from),
                   S, t, l, pos, u, n, from, c)
<1>1. IsHead(Before(Reaching(t, pos, c), pos), S, t, l, pos, c)
  BY HeadPlaces
<1>2. (IF from <= l THEN l - from ELSE 0) \in Nat
  OBVIOUS
<1> PICK m \in Nat : m = IF from <= l THEN l - from ELSE 0
  BY <1>2
<1>3. IsPart(From(t, from), S, t, from, m)
  BY <1>2, FromPlaces
<1>4. /\ SeqLong(Before(Reaching(t, pos, c), pos), S, pos)
      /\ SeqLong(From(t, from), S, m)
  BY <1>1, <1>3 DEF IsHead, IsPart
<1>5. IsThree(Before(Reaching(t, pos, c), pos) \o u \o From(t, from), S,
              Before(Reaching(t, pos, c), pos), pos, u, n, From(t, from), m)
  BY <1>4, ThreePlaces
<1> QED
  BY <1>1, <1>3, <1>5, SplicedJoined

\* There is only one such text.
LEMMA SameSpliced ==
  ASSUME NEW S, NEW t, NEW l \in Nat, NEW pos \in Nat, NEW u, NEW n \in Nat,
         NEW from \in Nat, NEW c,
         NEW v, IsSpliced(v, S, t, l, pos, u, n, from, c),
         NEW w, IsSpliced(w, S, t, l, pos, u, n, from, c)
  PROVE  v = w
<1> PICK k \in Nat : k = pos + n + IF from <= l THEN l - from ELSE 0
  OBVIOUS
<1>1. SeqLong(v, S, k) /\ SeqLong(w, S, k)
  BY DEF IsSpliced
<1>2. \A i \in 1 .. k : v[i] = w[i]
  BY DEF IsSpliced
<1> QED
  BY <1>1, <1>2, SameText

\* Where pos is not behind the end of t, what follows it is the same as what follows
\* it in t made to reach pos.
LEMMA FromReaching ==
  ASSUME NEW S, NEW t, NEW l \in Nat, SeqLong(t, S, l), NEW pos \in Nat, NEW c \in S
  PROVE  From(Reaching(t, pos, c), pos) = From(t, pos)
<1>1. IsReaching(Reaching(t, pos, c), S, t, l, pos, c)
  BY ReachingPlaces
<1>2. /\ (IF pos <= l THEN l ELSE pos) \in Nat
      /\ (IF pos <= l THEN l - pos ELSE 0) \in Nat
  OBVIOUS
<1> PICK k \in Nat : k = IF pos <= l THEN l ELSE pos
  BY <1>2
<1> PICK m \in Nat : m = IF pos <= l THEN l - pos ELSE 0
  BY <1>2
<1> PICK r : r = Reaching(t, pos, c)
  OBVIOUS
<1>3. SeqLong(r, S, k)
  BY <1>1 DEF IsReaching
<1>4. (IF pos <= k THEN k - pos ELSE 0) = m
  OBVIOUS
<1>5. IsPart(From(r, pos), S, r, pos, m)
  BY <1>3, <1>4, FromPlaces
<1>6. IsPart(From(t, pos), S, t, pos, m)
  BY FromPlaces
<1>7. ASSUME NEW v, IsPart(v, S, r, pos, m), NEW w, IsPart(w, S, t, pos, m)
      PROVE  v = w
  <2>1. ASSUME NEW i \in 1 .. m
        PROVE  v[i] = w[i]
    <3>1. pos + i \in 1 .. k /\ pos + i <= l
      OBVIOUS
    <3>2. r[pos + i] = t[pos + i]
      BY <1>1, <3>1 DEF IsReaching
    <3> QED
      BY <1>7, <3>2 DEF IsPart
  <2> QED
    BY <1>7, <2>1, SameText DEF IsPart
<1> QED
  BY <1>5, <1>6, <1>7

\* The promises of bsetstr, binsert and breplace are such texts.
LEMMA Promised ==
  ASSUME NEW S, NEW t, NEW l \in Nat, SeqLong(t, S, l), NEW pos \in Nat,
         NEW u, NEW n \in Nat, SeqLong(u, S, n), NEW len \in Nat, NEW c \in S
  PROVE  /\ IsSpliced(Overlaid(t, pos, u, c), S, t, l, pos, u, n, pos + n, c)
         /\ IsSpliced(Inserted(t, pos, u, c), S, t, l, pos, u, n, pos, c)
         /\ IsSpliced(Replaced(t, pos, len, u, c), S, t, l, pos, u, n, pos + len, c)
<1>1. \A from \in Nat :
        IsSpliced(Before(Reaching(t, pos, c), pos) \o u \o From(t, from),
                  S, t, l, pos, u, n, from, c)
  BY SplicedPlaces
<1>2. pos + n \in Nat /\ pos + len \in Nat /\ Len(u) = n
  BY DEF SeqLong
<1>3. From(Reaching(t, pos, c), pos) = From(t, pos)
  BY FromReaching
<1> QED
  BY <1>1, <1>2, <1>3 DEF Overlaid, Inserted, Replaced

-----------------------------------------------------------------------------
(* What the calls do in a block.  M is what memory may hold.                *)

\* bsetstr: the gap is filled, and u put.
LEMMA SetJoined ==
  ASSUME NEW S, NEW t, NEW l \in Nat, NEW pos \in Nat, NEW u, NEW n \in Nat, NEW c,
         NEW k \in Nat, k = IF pos - l <= 0 THEN 0 ELSE pos - l,
         NEW f, IsFill(f, S, k, c),
         NEW v, IsOverlaid(v, S, t, l, l, f, k, Junk),
         NEW w, IsOverlaid(w, S, v, l + k, pos, u, n, Junk)
  PROVE  IsSpliced(w, S, t, l, pos, u, n, pos + n, c)
<1> PICK m \in Nat : m = IF l <= pos + n THEN pos + n ELSE l
  OBVIOUS
<1>1. m = IF l + k <= pos + n THEN pos + n ELSE l + k
  OBVIOUS
<1>2. m = pos + n + IF pos + n <= l THEN l - (pos + n) ELSE 0
  OBVIOUS
<1>3. ASSUME NEW i \in 1 .. l + k
      PROVE  v[i] = IF i <= l THEN t[i] ELSE c
  BY DEF IsFill, IsOverlaid
<1>4. ASSUME NEW i \in 1 .. m
      PROVE  w[i] = IF i <= pos THEN IF i <= l THEN t[i] ELSE c
                    ELSE IF i <= pos + n THEN u[i - pos]
                    ELSE t[(pos + n) + (i - (pos + n))]
  <2>1. w[i] = IF pos < i /\ i <= pos + n THEN u[i - pos]
               ELSE IF i <= l + k THEN v[i] ELSE Junk
    BY <1>1 DEF IsOverlaid
  <2>2. CASE i <= pos
    BY <1>3, <2>1, <2>2
  <2>3. CASE pos < i /\ i <= pos + n
    BY <2>1, <2>3
  <2>4. CASE pos + n < i
    <3>1. (pos + n) + (i - (pos + n)) = i /\ i <= l
      BY <2>4
    <3> QED
      BY <1>3, <2>1, <2>4, <3>1
  <2> QED
    BY <2>2, <2>3, <2>4
<1> QED
  BY <1>1, <1>2, <1>4 DEF IsOverlaid, IsSpliced

\* binsert: behind the end the gap is filled; otherwise the rest is moved; u is put.
LEMMA InsertBehindJoined ==
  ASSUME NEW S, NEW t, NEW l \in Nat, NEW pos \in Nat, NEW u, NEW n \in Nat, NEW c,
         l < pos,
         NEW f, IsFill(f, S, pos - l, c),
         NEW v, IsOverlaid(v, S, t, l, l, f, pos - l, Junk),
         NEW w, IsOverlaid(w, S, v, pos, pos, u, n, Junk)
  PROVE  IsSpliced(w, S, t, l, pos, u, n, pos, c)
<1>1. ASSUME NEW i \in 1 .. pos
      PROVE  v[i] = IF i <= l THEN t[i] ELSE c
  BY DEF IsFill, IsOverlaid
<1>2. ASSUME NEW i \in 1 .. pos + n
      PROVE  w[i] = IF i <= pos THEN IF i <= l THEN t[i] ELSE c
                    ELSE IF i <= pos + n THEN u[i - pos] ELSE t[pos + (i - (pos + n))]
  BY <1>1 DEF IsOverlaid
<1>3. /\ pos + n = IF pos <= pos + n THEN pos + n ELSE pos
      /\ pos + n = pos + n + IF pos <= l THEN l - pos ELSE 0
  OBVIOUS
<1> QED
  BY <1>2, <1>3 DEF IsOverlaid, IsSpliced

LEMMA InsertJoined ==
  ASSUME NEW S, NEW t, NEW l \in Nat, NEW pos \in Nat, NEW u, NEW n \in Nat, NEW c,
         pos <= l,
         NEW f, IsPart(f, S, t, pos, l - pos),
         NEW v, IsOverlaid(v, S, t, l, pos + n, f, l - pos, Junk),
         NEW w, IsOverlaid(w, S, v, l + n, pos, u, n, Junk)
  PROVE  IsSpliced(w, S, t, l, pos, u, n, pos, c)
<1>1. ASSUME NEW i \in 1 .. l + n, i <= pos \/ pos + n < i
      PROVE  v[i] = IF i <= pos THEN t[i] ELSE t[pos + (i - (pos + n))]
  <2>1. v[i] = IF pos + n < i /\ i <= (pos + n) + (l - pos) THEN f[i - (pos + n)]
               ELSE IF i <= l THEN t[i] ELSE Junk
    BY DEF IsOverlaid
  <2>2. pos + n < i => f[i - (pos + n)] = t[pos + (i - (pos + n))]
    BY DEF IsPart
  <2> QED
    BY <1>1, <2>1, <2>2
<1>2. ASSUME NEW i \in 1 .. l + n
      PROVE  w[i] = IF i <= pos THEN IF i <= l THEN t[i] ELSE c
                    ELSE IF i <= pos + n THEN u[i - pos] ELSE t[pos + (i - (pos + n))]
  <2>1. w[i] = IF pos < i /\ i <= pos + n THEN u[i - pos]
               ELSE IF i <= l + n THEN v[i] ELSE Junk
    BY DEF IsOverlaid
  <2> QED
    BY <1>1, <2>1
<1>3. /\ l + n = IF l + n <= pos + n THEN pos + n ELSE l + n
      /\ l + n = pos + n + IF pos <= l THEN l - pos ELSE 0
  OBVIOUS
<1> QED
  BY <1>2, <1>3 DEF IsOverlaid, IsSpliced

\* breplace, within t: the rest is moved, u is put, and what is left over cut off.
LEMMA ReplaceJoined ==
  ASSUME NEW S, NEW t, NEW l \in Nat, SeqLong(t, S, l), NEW pos \in Nat,
         NEW u, NEW n \in Nat, NEW c, NEW len \in Nat, pos + len < l,
         NEW f, IsPart(f, S, t, pos + len, l - (pos + len)),
         NEW k \in Nat, k = IF l <= l + n - len THEN l + n - len ELSE l,
         NEW v, \/ n = len /\ v = t
                \/ IsOverlaid(v, S, t, l, pos + n, f, l - (pos + len), Junk),
         NEW w, IsOverlaid(w, S, v, k, pos, u, n, Junk),
         NEW x, IsPart(x, S, w, 0, l + n - len)
  PROVE  IsSpliced(x, S, t, l, pos, u, n, pos + len, c)
<1>1. ASSUME NEW i \in 1 .. l + n - len, i <= pos \/ pos + n < i
      PROVE  v[i] = IF i <= pos THEN t[i] ELSE t[(pos + len) + (i - (pos + n))]
  <2>1. CASE n = len /\ v = t
    <3>1. (pos + len) + (i - (pos + n)) = i
      BY <2>1
    <3> QED
      BY <2>1, <3>1
  <2>2. CASE IsOverlaid(v, S, t, l, pos + n, f, l - (pos + len), Junk)
    <3>1. v[i] = IF pos + n < i /\ i <= (pos + n) + (l - (pos + len))
                   THEN f[i - (pos + n)]
                 ELSE IF i <= l THEN t[i] ELSE Junk
      BY <2>2 DEF IsOverlaid
    <3>2. pos + n < i => f[i - (pos + n)] = t[(pos + len) + (i - (pos + n))]
      BY DEF IsPart
    <3> QED
      BY <1>1, <3>1, <3>2
  <2> QED
    BY <2>1, <2>2
<1>2. ASSUME NEW i \in 1 .. l + n - len
      PROVE  x[i] = IF i <= pos THEN IF i <= l THEN t[i] ELSE c
                    ELSE IF i <= pos + n THEN u[i - pos]
                    ELSE t[(pos + len) + (i - (pos + n))]
  <2>1. w[i] = IF pos < i /\ i <= pos + n THEN u[i - pos]
               ELSE IF i <= k THEN v[i] ELSE Junk
    BY DEF IsOverlaid
  <2>2. x[i] = w[i]
    <3>1. 0 + i = i
      OBVIOUS
    <3> QED
      BY <3>1 DEF IsPart
  <2> QED
    BY <1>1, <2>1, <2>2
<1>3. l + n - len = pos + n + IF pos + len <= l THEN l - (pos + len) ELSE 0
  OBVIOUS
<1> QED
  BY <1>2, <1>3 DEF IsPart, IsSpliced

\* breplace, to the end of t: as bsetstr, and what is left over cut off.
LEMMA ReplaceEndJoined ==
  ASSUME NEW S, NEW t, NEW l \in Nat, NEW pos \in Nat,
         NEW u, NEW n \in Nat, NEW c, NEW len \in Nat, l <= pos + len,
         NEW w, IsSpliced(w, S, t, l, pos, u, n, pos + n, c),
         NEW x, IsPart(x, S, w, 0, pos + n)
  PROVE  IsSpliced(x, S, t, l, pos, u, n, pos + len, c)
<1>1. pos + n = pos + n + IF pos + len <= l THEN l - (pos + len) ELSE 0
  OBVIOUS
<1>2. ASSUME NEW i \in 1 .. pos + n
      PROVE  x[i] = IF i <= pos THEN IF i <= l THEN t[i] ELSE c
                    ELSE IF i <= pos + n THEN u[i - pos]
                    ELSE t[(pos + len) + (i - (pos + n))]
  <2>1. 0 + i = i
    OBVIOUS
  <2> QED
    BY <2>1 DEF IsPart, IsSpliced
<1> QED
  BY <1>1, <1>2 DEF IsPart, IsSpliced

\* binsertch, within t: the rest is moved, and the gap filled.
LEMMA OpenJoined ==
  ASSUME NEW S, NEW t, NEW l \in Nat, NEW pos \in Nat, NEW u, NEW n \in Nat, NEW c,
         pos <= l,
         NEW v, \A i \in 1 .. l + n : v[i] = IF i > pos + n THEN t[i - n]
                                             ELSE IF i <= l THEN t[i] ELSE Junk,
         NEW w, IsOverlaid(w, S, v, l + n, pos, u, n, Junk)
  PROVE  IsSpliced(w, S, t, l, pos, u, n, pos, c)
<1>1. ASSUME NEW i \in 1 .. l + n
      PROVE  w[i] = IF i <= pos THEN IF i <= l THEN t[i] ELSE c
                    ELSE IF i <= pos + n THEN u[i - pos] ELSE t[pos + (i - (pos + n))]
  <2>1. w[i] = IF pos < i /\ i <= pos + n THEN u[i - pos]
               ELSE IF i <= l + n THEN v[i] ELSE Junk
    BY DEF IsOverlaid
  <2>2. pos + (i - (pos + n)) = i - n
    OBVIOUS
  <2> QED
    BY <2>1, <2>2
<1>2. /\ l + n = IF l + n <= pos + n THEN pos + n ELSE l + n
      /\ l + n = pos + n + IF pos <= l THEN l - pos ELSE 0
  OBVIOUS
<1> QED
  BY <1>1, <1>2 DEF IsOverlaid, IsSpliced

\* t without what follows its first a characters, up to the first e.
IsWithout(w, S, t, l, a, e) ==
  LET k == IF a <= l THEN a ELSE l
      m == IF e <= l THEN l - e ELSE 0
  IN  /\ SeqLong(w, S, k + m)
      /\ \A i \in 1 .. k + m : w[i] = IF i <= k THEN t[i] ELSE t[e + (i - k)]

LEMMA WithoutJoined ==
  ASSUME NEW S, NEW t, NEW l \in Nat, NEW a \in Nat, NEW e \in Nat,
         NEW k \in Nat, k = IF a <= l THEN a ELSE l,
         NEW m \in Nat, m = IF e <= l THEN l - e ELSE 0,
         NEW h, IsPart(h, S, t, 0, k), NEW f, IsPart(f, S, t, e, m),
         NEW w, IsConcat(w, S, h, k, f, m)
  PROVE  IsWithout(w, S, t, l, a, e)
<1>1. ASSUME NEW i \in 1 .. k + m
      PROVE  w[i] = IF i <= k THEN t[i] ELSE t[e + (i - k)]
  <2>1. 0 + i = i
    OBVIOUS
  <2>2. w[i] = IF i <= k THEN h[i] ELSE f[i - k]
    BY DEF IsConcat
  <2>3. i <= k => h[i] = t[i]
    BY <2>1 DEF IsPart
  <2>4. k < i => f[i - k] = t[e + (i - k)]
    BY DEF IsPart
  <2> QED
    BY <2>2, <2>3, <2>4
<1> QED
  BY <1>1 DEF IsConcat, IsWithout

LEMMA WithoutPlaces ==
  ASSUME NEW S, NEW t, NEW l \in Nat, SeqLong(t, S, l), NEW a \in Nat, NEW e \in Nat
  PROVE  IsWithout(Before(t, a) \o From(t, e), S, t, l, a, e)
<1>1. (IF a <= l THEN a ELSE l) \in Nat /\ (IF e <= l THEN l - e ELSE 0) \in Nat
  OBVIOUS
<1> PICK k \in Nat : k = IF a <= l THEN a ELSE l
  BY <1>1
<1> PICK m \in Nat : m = IF e <= l THEN l - e ELSE 0
  BY <1>1
<1>2. IsPart(Before(t, a), S, t, 0, k) /\ IsPart(From(t, e), S, t, e, m)
  BY BeforePlaces, FromPlaces
<1>3. SeqLong(Before(t, a), S, k) /\ SeqLong(From(t, e), S, m)
  BY <1>2 DEF IsPart
<1>4. IsConcat(Before(t, a) \o From(t, e), S, Before(t, a), k, From(t, e), m)
  BY <1>3, ConcatIf
<1> QED
  BY <1>2, <1>4, WithoutJoined

LEMMA SameWithout ==
  ASSUME NEW S, NEW t, NEW l \in Nat, NEW a \in Nat, NEW e \in Nat,
         NEW v, IsWithout(v, S, t, l, a, e), NEW w, IsWithout(w, S, t, l, a, e)
  PROVE  v = w
<1> PICK k \in Nat : k = (IF a <= l THEN a ELSE l) + IF e <= l THEN l - e ELSE 0
  OBVIOUS
<1>1. SeqLong(v, S, k) /\ SeqLong(w, S, k)
  BY DEF IsWithout
<1>2. \A i \in 1 .. k : v[i] = w[i]
  BY DEF IsWithout
<1> QED
  BY <1>1, <1>2, SameText

\* bdelete: nothing is left out, or the end, or the rest is moved and the end cut off.
LEMMA DeleteNone ==
  ASSUME NEW S, NEW t, NEW l \in Nat, SeqLong(t, S, l), NEW a \in Nat, NEW e \in Nat,
         e = a \/ (l <= a /\ a <= e)
  PROVE  IsWithout(t, S, t, l, a, e)
<1>1. l = (IF a <= l THEN a ELSE l) + IF e <= l THEN l - e ELSE 0
  OBVIOUS
<1>2. ASSUME NEW i \in 1 .. l
      PROVE  t[i] = IF i <= IF a <= l THEN a ELSE l THEN t[i]
                    ELSE t[e + (i - IF a <= l THEN a ELSE l)]
  OBVIOUS
<1> QED
  BY <1>1, <1>2 DEF IsWithout

LEMMA DeleteEnd ==
  ASSUME NEW S, NEW t, NEW l \in Nat, NEW a \in Nat, NEW e \in Nat, a < l, l <= e,
         NEW w, IsPart(w, S, t, 0, a)
  PROVE  IsWithout(w, S, t, l, a, e)
<1>1. a = (IF a <= l THEN a ELSE l) + IF e <= l THEN l - e ELSE 0
  OBVIOUS
<1>2. ASSUME NEW i \in 1 .. a
      PROVE  0 + i = i
  OBVIOUS
<1> QED
  BY <1>1, <1>2 DEF IsPart, IsWithout

LEMMA DeleteWithin ==
  ASSUME NEW S, NEW t, NEW l \in Nat, NEW a \in Nat, NEW e \in Nat, a <= e, e < l,
         NEW m \in Nat, m = l - e, NEW f, IsPart(f, S, t, e, m),
         NEW v, IsOverlaid(v, S, t, l, a, f, m, Junk),
         NEW k \in Nat, k = l - (e - a), NEW w, IsPart(w, S, v, 0, k)
  PROVE  IsWithout(w, S, t, l, a, e)
<1>1. k = (IF a <= l THEN a ELSE l) + IF e <= l THEN l - e ELSE 0
  OBVIOUS
<1>2. ASSUME NEW i \in 1 .. k
      PROVE  w[i] = IF i <= a THEN t[i] ELSE t[e + (i - a)]
  <2>1. 0 + i = i
    OBVIOUS
  <2>2. w[i] = v[i]
    BY <2>1 DEF IsPart
  <2>3. v[i] = IF a < i /\ i <= a + m THEN f[i - a]
               ELSE IF i <= l THEN t[i] ELSE Junk
    BY DEF IsOverlaid
  <2>4. a < i => f[i - a] = t[e + (i - a)]
    BY DEF IsPart
  <2> QED
    BY <2>2, <2>3, <2>4
<1> QED
  BY <1>1, <1>2 DEF IsPart, IsWithout

\* Division with remainder.
LEMMA Division ==
  ASSUME NEW a \in Nat, NEW d \in Nat, 0 < d
  PROVE  a % d \in 0 .. d - 1 /\ a \div d \in Int /\ a = d * (a \div d) + (a % d)
OBVIOUS

LEMMA OneRemainder ==
  ASSUME NEW d \in Nat, 0 < d, NEW q \in Int, NEW p \in Int,
         NEW r \in 0 .. d - 1, NEW s \in 0 .. d - 1, d * q + r = d * p + s
  PROVE  r = s
<1>1. ASSUME NEW x \in Int, NEW y \in Int, NEW v \in 0 .. d - 1, NEW w \in 0 .. d - 1,
             d * x + v = d * y + w, y < x
      PROVE  FALSE
  BY <1>1
<1> QED
  BY <1>1

\* bpattern: characters are repeated from one place to the place a length behind it.
LEMMA Remainder ==
  ASSUME NEW a \in Nat, NEW d \in Nat, 0 < d
  PROVE  /\ a % d \in 0 .. d - 1 /\ (a < d => a % d = a)
         /\ d <= a => a % d = (a - d) % d
<1>1. a % d \in 0 .. d - 1 /\ a \div d \in Int /\ a = d * (a \div d) + (a % d)
  BY Division
<1>2. a < d => a % d = a
  <2>1. a = d * 0 + a
    OBVIOUS
  <2>2. a < d => a \in 0 .. d - 1
    OBVIOUS
  <2> QED
    BY <1>1, <2>1, <2>2, OneRemainder
<1>3. ASSUME d <= a
      PROVE  a % d = (a - d) % d
  <2> PICK e \in Nat : e = a - d
    BY <1>3
  <2>1. e % d \in 0 .. d - 1 /\ e \div d \in Int /\ e = d * (e \div d) + (e % d)
    BY Division
  <2> PICK q \in Int : q = a \div d
    BY <1>1
  <2> PICK p \in Int : p = e \div d
    BY <2>1
  <2> PICK r \in 0 .. d - 1 : r = a % d
    BY <1>1
  <2> PICK s \in 0 .. d - 1 : s = e % d
    BY <2>1
  <2>2. d * q + r = d * (p + 1) + s
    BY <1>1, <2>1
  <2>3. /\ d \in Nat /\ 0 < d /\ q \in Int /\ p + 1 \in Int
        /\ r \in 0 .. d - 1 /\ s \in 0 .. d - 1
    OBVIOUS
  <2>4. r = s
    BY ONLY <2>2, <2>3, OneRemainder
  <2> QED
    BY <2>4
<1> QED
  BY <1>1, <1>2, <1>3

-----------------------------------------------------------------------------
(* The calls on a text t of length l give what they promise.                *)

Memory == Chars \cup {Junk}

LEMMA InMemory ==
  /\ Junk \in Memory /\ \A c \in Chars : c \in Memory
  /\ \A t, l : SeqLong(t, Chars, l) => SeqLong(t, Memory, l)
<1>1. Chars \subseteq Memory
  BY DEF Memory
<1>2. ASSUME NEW t, NEW l, SeqLong(t, Chars, l)
      PROVE  SeqLong(t, Memory, l)
  BY <1>1, <1>2, SeqMonotonic DEF SeqLong
<1> QED
  BY <1>1, <1>2 DEF Memory

LEMMA SetGives ==
  ASSUME NEW t, NEW l \in Nat, SeqLong(t, Chars, l), NEW pos \in Nat,
         NEW u, NEW n \in Nat, SeqLong(u, Chars, n), NEW c \in Chars
  PROVE  Put(Put(t, Len(t), Fill(Max({pos - Len(t), 0}), c)), pos, u)
           = Overlaid(t, pos, u, c)
<1>1. SeqLong(t, Memory, l) /\ SeqLong(u, Memory, n) /\ Junk \in Memory /\ c \in Memory
  BY InMemory
<1>2. Len(t) = l
  BY DEF SeqLong
<1>3. pos - l \in Int /\ 0 \in Int
  OBVIOUS
<1>4. Max({pos - l, 0}) = IF pos - l <= 0 THEN 0 ELSE pos - l
  BY ONLY <1>3, OfTwo
<1>5. (IF pos - l <= 0 THEN 0 ELSE pos - l) \in Nat
  OBVIOUS
<1> PICK k \in Nat : k = IF pos - l <= 0 THEN 0 ELSE pos - l
  BY <1>5
<1>6. IsFill(Fill(k, c), Memory, k, c)
  BY <1>1, FillPlaces
<1>7. SeqLong(Fill(k, c), Memory, k)
  BY <1>6 DEF IsFill
<1>8. IsOverlaid(Put(t, l, Fill(k, c)), Memory, t, l, l, Fill(k, c), k, Junk)
  BY <1>1, <1>7, PutPlaces
<1>9. (IF l <= l + k THEN l + k ELSE l) = l + k /\ l + k \in Nat
  OBVIOUS
<1>10. SeqLong(Put(t, l, Fill(k, c)), Memory, l + k)
  BY <1>8, <1>9 DEF IsOverlaid
<1>11. IsOverlaid(Put(Put(t, l, Fill(k, c)), pos, u), Memory,
                  Put(t, l, Fill(k, c)), l + k, pos, u, n, Junk)
  BY <1>1, <1>9, <1>10, PutPlaces
<1>12. IsSpliced(Put(Put(t, l, Fill(k, c)), pos, u), Memory, t, l, pos, u, n, pos + n, c)
  BY <1>6, <1>8, <1>11, SetJoined
<1>13. 0 \in Nat /\ pos + n \in Nat
  OBVIOUS
<1>14. IsSpliced(Overlaid(t, pos, u, c), Memory, t, l, pos, u, n, pos + n, c)
  BY <1>1, <1>13, Promised
<1>15. Put(Put(t, l, Fill(k, c)), pos, u) = Overlaid(t, pos, u, c)
  BY <1>12, <1>13, <1>14, SameSpliced
<1> QED
  BY <1>2, <1>4, <1>15

LEMMA InsertBehindGives ==
  ASSUME NEW t, NEW l \in Nat, SeqLong(t, Chars, l), NEW pos \in Nat, l < pos,
         NEW u, NEW n \in Nat, SeqLong(u, Chars, n), NEW c \in Chars
  PROVE  Put(Put(t, Len(t), Fill(pos - Len(t), c)), pos, u) = Inserted(t, pos, u, c)
<1>1. SeqLong(t, Memory, l) /\ SeqLong(u, Memory, n) /\ Junk \in Memory /\ c \in Memory
  BY InMemory
<1>2. Len(t) = l
  BY DEF SeqLong
<1> PICK k \in Nat : k = pos - l
  OBVIOUS
<1>3. IsFill(Fill(k, c), Memory, k, c)
  BY <1>1, FillPlaces
<1>4. SeqLong(Fill(k, c), Memory, k)
  BY <1>3 DEF IsFill
<1>5. IsOverlaid(Put(t, l, Fill(k, c)), Memory, t, l, l, Fill(k, c), k, Junk)
  BY <1>1, <1>4, PutPlaces
<1>6. (IF l <= l + k THEN l + k ELSE l) = pos
  OBVIOUS
<1>7. SeqLong(Put(t, l, Fill(k, c)), Memory, pos)
  BY <1>5, <1>6 DEF IsOverlaid
<1>8. IsOverlaid(Put(Put(t, l, Fill(k, c)), pos, u), Memory,
                 Put(t, l, Fill(k, c)), pos, pos, u, n, Junk)
  BY <1>1, <1>7, PutPlaces
<1>9. IsSpliced(Put(Put(t, l, Fill(k, c)), pos, u), Memory, t, l, pos, u, n, pos, c)
  BY <1>3, <1>5, <1>8, InsertBehindJoined
<1>10. IsSpliced(Inserted(t, pos, u, c), Memory, t, l, pos, u, n, pos, c)
  BY <1>1, Promised
<1>11. Put(Put(t, l, Fill(k, c)), pos, u) = Inserted(t, pos, u, c)
  BY <1>9, <1>10, SameSpliced
<1> QED
  BY <1>2, <1>11

LEMMA InsertGives ==
  ASSUME NEW t, NEW l \in Nat, SeqLong(t, Chars, l), NEW pos \in Nat, pos <= l,
         NEW u, NEW n \in Nat, SeqLong(u, Chars, n), NEW c \in Chars
  PROVE  Put(Put(t, pos + n, From(t, pos)), pos, u) = Inserted(t, pos, u, c)
<1>1. SeqLong(t, Memory, l) /\ SeqLong(u, Memory, n) /\ Junk \in Memory /\ c \in Memory
  BY InMemory
<1> PICK k \in Nat : k = l - pos
  OBVIOUS
<1>2. k = IF pos <= l THEN l - pos ELSE 0
  OBVIOUS
<1>3. IsPart(From(t, pos), Memory, t, pos, k)
  BY <1>1, <1>2, FromPlaces
<1>4. SeqLong(From(t, pos), Memory, k)
  BY <1>3 DEF IsPart
<1>5. pos + n \in Nat /\ l + n \in Nat
  OBVIOUS
<1>6. IsOverlaid(Put(t, pos + n, From(t, pos)), Memory, t, l, pos + n, From(t, pos), k, Junk)
  BY <1>1, <1>4, <1>5, PutPlaces
<1>7. (IF l <= (pos + n) + k THEN (pos + n) + k ELSE l) = l + n
  OBVIOUS
<1>8. SeqLong(Put(t, pos + n, From(t, pos)), Memory, l + n)
  BY <1>6, <1>7 DEF IsOverlaid
<1>9. IsOverlaid(Put(Put(t, pos + n, From(t, pos)), pos, u), Memory,
                 Put(t, pos + n, From(t, pos)), l + n, pos, u, n, Junk)
  BY <1>1, <1>5, <1>8, PutPlaces
<1>10. IsSpliced(Put(Put(t, pos + n, From(t, pos)), pos, u), Memory, t, l, pos, u, n, pos, c)
  BY <1>3, <1>6, <1>9, InsertJoined
<1>11. IsSpliced(Inserted(t, pos, u, c), Memory, t, l, pos, u, n, pos, c)
  BY <1>1, Promised
<1> QED
  BY <1>10, <1>11, SameSpliced

LEMMA ReplaceGives ==
  ASSUME NEW t, NEW l \in Nat, SeqLong(t, Chars, l), NEW pos \in Nat,
         NEW len \in Nat, pos + len < l,
         NEW u, NEW n \in Nat, SeqLong(u, Chars, n), NEW c \in Chars,
         NEW v, v = IF n = len THEN t ELSE Put(t, pos + n, From(t, pos + len))
  PROVE  Before(Put(v, pos, u), l + n - len) = Replaced(t, pos, len, u, c)
<1>1. SeqLong(t, Memory, l) /\ SeqLong(u, Memory, n) /\ Junk \in Memory /\ c \in Memory
  BY InMemory
<1>2. pos + n \in Nat /\ pos + len \in Nat /\ l + n - len \in Nat
  OBVIOUS
<1> PICK m \in Nat : m = l - (pos + len)
  OBVIOUS
<1>3. m = IF pos + len <= l THEN l - (pos + len) ELSE 0
  OBVIOUS
<1>4. IsPart(From(t, pos + len), Memory, t, pos + len, m)
  BY <1>1, <1>2, <1>3, FromPlaces
<1>5. SeqLong(From(t, pos + len), Memory, m)
  BY <1>4 DEF IsPart
<1>6. IsOverlaid(Put(t, pos + n, From(t, pos + len)), Memory,
                 t, l, pos + n, From(t, pos + len), m, Junk)
  BY <1>1, <1>2, <1>5, PutPlaces
<1> PICK f : f = From(t, pos + len)
  OBVIOUS
<1>7. (IF l <= l + n - len THEN l + n - len ELSE l) \in Nat
  BY <1>2
<1> PICK k \in Nat : k = IF l <= l + n - len THEN l + n - len ELSE l
  BY <1>7
<1>8. k = IF l <= (pos + n) + m THEN (pos + n) + m ELSE l
  OBVIOUS
<1>9. (n = len /\ v = t) \/ IsOverlaid(v, Memory, t, l, pos + n, f, m, Junk)
  BY <1>6
<1>10. n = len => k = l
  OBVIOUS
<1>11. SeqLong(v, Memory, k)
  BY <1>1, <1>8, <1>9, <1>10 DEF IsOverlaid
<1>12. IsOverlaid(Put(v, pos, u), Memory, v, k, pos, u, n, Junk)
  BY <1>1, <1>11, PutPlaces
<1>13. (IF k <= pos + n THEN pos + n ELSE k) = k
  OBVIOUS
<1>14. SeqLong(Put(v, pos, u), Memory, k)
  BY <1>12, <1>13 DEF IsOverlaid
<1> PICK w : w = Put(v, pos, u)
  OBVIOUS
<1>15. l + n - len = IF l + n - len <= k THEN l + n - len ELSE k
  OBVIOUS
<1>16. IsPart(Before(w, l + n - len), Memory, w, 0, l + n - len)
  BY <1>2, <1>14, <1>15, BeforePlaces
<1>17. IsSpliced(Before(w, l + n - len), Memory, t, l, pos, u, n, pos + len, c)
  BY <1>1, <1>4, <1>9, <1>12, <1>16, ReplaceJoined
<1>18. IsSpliced(Replaced(t, pos, len, u, c), Memory, t, l, pos, u, n, pos + len, c)
  BY <1>1, Promised
<1> QED
  BY <1>2, <1>17, <1>18, SameSpliced

LEMMA ReplaceEndGives ==
  ASSUME NEW t, NEW l \in Nat, SeqLong(t, Chars, l), NEW pos \in Nat,
         NEW len \in Nat, l <= pos + len,
         NEW u, NEW n \in Nat, SeqLong(u, Chars, n), NEW c \in Chars,
         NEW w, w = Overlaid(t, pos, u, c)
  PROVE  /\ pos + n < Len(w) => Before(w, pos + n) = Replaced(t, pos, len, u, c)
         /\ ~(pos + n < Len(w)) => w = Replaced(t, pos, len, u, c)
<1>1. pos + n \in Nat /\ pos + len \in Nat
  OBVIOUS
<1>2. IsSpliced(w, Chars, t, l, pos, u, n, pos + n, c)
  BY Promised, <1>1
<1>3. IsSpliced(Replaced(t, pos, len, u, c), Chars, t, l, pos, u, n, pos + len, c)
  BY Promised
<1> PICK k \in Nat : k = pos + n + IF pos + n <= l THEN l - (pos + n) ELSE 0
  OBVIOUS
<1>4. SeqLong(w, Chars, k)
  BY <1>2 DEF IsSpliced
<1>5. pos + n = IF pos + n <= k THEN pos + n ELSE k
  OBVIOUS
<1>6. IsPart(Before(w, pos + n), Chars, w, 0, pos + n)
  BY <1>1, <1>4, <1>5, BeforePlaces
<1>7. IsSpliced(Before(w, pos + n), Chars, t, l, pos, u, n, pos + len, c)
  BY <1>2, <1>6, ReplaceEndJoined
<1>8. Before(w, pos + n) = Replaced(t, pos, len, u, c)
  BY <1>1, <1>3, <1>7, SameSpliced
<1>9. Len(w) = k
  BY <1>4 DEF SeqLong
<1>10. ASSUME ~(pos + n < k)
       PROVE  Before(w, pos + n) = w
  <2>1. k = pos + n
    BY <1>10
  <2>2. IsPart(Before(w, k), Chars, w, 0, k)
    BY <1>6, <2>1
  <2>3. SeqLong(Before(w, k), Chars, k) /\ \A i \in 1 .. k : Before(w, k)[i] = w[0 + i]
    BY <2>2 DEF IsPart
  <2>4. \A i \in 1 .. k : 0 + i = i
    OBVIOUS
  <2>5. Before(w, k) = w
    BY <1>4, <2>3, <2>4, SameText
  <2> QED
    BY <2>1, <2>5
<1>11. pos + n < k => k = l
  OBVIOUS
<1> QED
  BY <1>8, <1>9, <1>10, <1>11

\* Where binsertch has moved the characters behind pos.
Opened(t, pos, n) ==
  [i \in 1 .. Len(t) + n |-> IF i > pos + n THEN t[i - n]
                             ELSE IF i <= Len(t) THEN t[i] ELSE Junk]

LEMMA OpenGives ==
  ASSUME NEW t, NEW l \in Nat, SeqLong(t, Chars, l), NEW pos \in Nat, pos <= l,
         NEW n \in Nat, NEW c \in Chars
  PROVE  Put(Opened(t, pos, n), pos, Fill(n, c)) = Inserted(t, pos, Fill(n, c), c)
<1> PICK v : v = Opened(t, pos, n)
  OBVIOUS
<1>1. SeqLong(t, Memory, l) /\ Junk \in Memory /\ c \in Memory
  BY InMemory
<1>2. Len(t) = l /\ \A i \in 1 .. l : t[i] \in Memory
  BY <1>1 DEF SeqLong
<1>3. IsFill(Fill(n, c), Memory, n, c)
  BY <1>1, FillPlaces
<1>4. SeqLong(Fill(n, c), Memory, n)
  BY <1>3 DEF IsFill
<1>5. \A i \in 1 .. l + n :
        v[i] = IF i > pos + n THEN t[i - n] ELSE IF i <= l THEN t[i] ELSE Junk
  BY <1>2 DEF Opened
<1>6. ASSUME NEW i \in 1 .. l + n
      PROVE  v[i] \in Memory
  <2>1. i > pos + n => i - n \in 1 .. l
    OBVIOUS
  <2> QED
    BY <1>1, <1>2, <1>5, <2>1
<1>7. SeqLong(v, Memory, l + n)
  <2>1. v = [i \in 1 .. l + n |-> v[i]]
    BY <1>2 DEF Opened
  <2>2. v \in [1 .. l + n -> Memory]
    BY ONLY <1>6, <2>1
  <2>3. l + n \in Nat
    OBVIOUS
  <2> QED
    BY <2>2, <2>3, FunctionIsText
<1>8. l + n \in Nat
  OBVIOUS
<1>9. IsOverlaid(Put(v, pos, Fill(n, c)), Memory, v, l + n, pos, Fill(n, c), n, Junk)
  BY <1>1, <1>4, <1>7, <1>8, PutPlaces
<1>10. ASSUME NEW x, \A i \in 1 .. l + n : x[i] = IF i > pos + n THEN t[i - n]
                                                  ELSE IF i <= l THEN t[i] ELSE Junk,
              NEW w, IsOverlaid(w, Memory, x, l + n, pos, Fill(n, c), n, Junk)
       PROVE  IsSpliced(w, Memory, t, l, pos, Fill(n, c), n, pos, c)
  BY <1>10, OpenJoined
<1>11. IsSpliced(Put(v, pos, Fill(n, c)), Memory, t, l, pos, Fill(n, c), n, pos, c)
  BY <1>5, <1>9, <1>10
<1>12. IsSpliced(Inserted(t, pos, Fill(n, c), c), Memory, t, l, pos, Fill(n, c), n, pos, c)
  BY <1>1, <1>4, Promised
<1> QED
  BY <1>11, <1>12, SameSpliced

Joined(s, t) == s \o t

LEMMA OpenBehindGives ==
  ASSUME NEW t, NEW l \in Nat, SeqLong(t, Chars, l), NEW k \in Nat, NEW c \in Chars
  PROVE  Put(t, Len(t), Fill(k, c)) = Joined(t, Fill(k, c))
<1>1. SeqLong(t, Memory, l) /\ Junk \in Memory /\ c \in Memory
  BY InMemory
<1>2. Len(t) = l
  BY DEF SeqLong
<1>3. IsFill(Fill(k, c), Memory, k, c)
  BY <1>1, FillPlaces
<1>4. SeqLong(Fill(k, c), Memory, k)
  BY <1>3 DEF IsFill
<1>5. IsOverlaid(Put(t, l, Fill(k, c)), Memory, t, l, l, Fill(k, c), k, Junk)
  BY <1>1, <1>4, PutPlaces
<1>6. IsConcat(Joined(t, Fill(k, c)), Memory, t, l, Fill(k, c), k)
  BY <1>1, <1>4, ConcatIf DEF Joined
<1>7. ASSUME NEW f, NEW v, IsOverlaid(v, Memory, t, l, l, f, k, Junk),
             NEW w, IsConcat(w, Memory, t, l, f, k)
      PROVE  v = w
  <2>1. (IF l <= l + k THEN l + k ELSE l) = l + k /\ l + k \in Nat
    OBVIOUS
  <2>2. SeqLong(v, Memory, l + k) /\ SeqLong(w, Memory, l + k)
    BY <1>7, <2>1 DEF IsOverlaid, IsConcat
  <2>3. ASSUME NEW i \in 1 .. l + k
        PROVE  v[i] = w[i]
    BY <1>7, <2>1 DEF IsOverlaid, IsConcat
  <2> QED
    BY <2>1, <2>2, <2>3, SameText
<1> QED
  BY <1>2, <1>5, <1>6, <1>7

\* What bdelete leaves in each of its cases, where it leaves out what is between a
\* and e.
LEMMA DeleteGives ==
  ASSUME NEW t, NEW l \in Nat, SeqLong(t, Chars, l), NEW a \in Nat, NEW e \in Nat,
         a <= e
  PROVE  /\ e = a \/ l <= a => t = Joined(Before(t, a), From(t, e))
         /\ a < l /\ l <= e => Before(t, a) = Joined(Before(t, a), From(t, e))
         /\ e < l => Before(Put(t, a, From(t, e)), l - (e - a)) = Joined(Before(t, a), From(t, e))
<1>1. SeqLong(t, Memory, l) /\ Junk \in Memory
  BY InMemory
<1>2. IsWithout(Joined(Before(t, a), From(t, e)), Memory, t, l, a, e)
  BY <1>1, WithoutPlaces DEF Joined
<1>3. ASSUME e = a \/ l <= a
      PROVE  t = Joined(Before(t, a), From(t, e))
  <2>1. IsWithout(t, Memory, t, l, a, e)
    BY <1>1, <1>3, DeleteNone
  <2> QED
    BY <1>2, <2>1, SameWithout
<1>4. ASSUME a < l, l <= e
      PROVE  Before(t, a) = Joined(Before(t, a), From(t, e))
  <2>1. a = IF a <= l THEN a ELSE l
    BY <1>4
  <2>2. IsPart(Before(t, a), Memory, t, 0, a)
    BY <1>1, <2>1, BeforePlaces
  <2>3. IsWithout(Before(t, a), Memory, t, l, a, e)
    BY <1>4, <2>2, DeleteEnd
  <2> QED
    BY <1>2, <2>3, SameWithout
<1>5. ASSUME e < l
      PROVE  Before(Put(t, a, From(t, e)), l - (e - a)) = Joined(Before(t, a), From(t, e))
  <2> PICK m \in Nat : m = l - e
    BY <1>5
  <2>1. m = IF e <= l THEN l - e ELSE 0
    BY <1>5
  <2>2. IsPart(From(t, e), Memory, t, e, m)
    BY <1>1, <2>1, FromPlaces
  <2>3. SeqLong(From(t, e), Memory, m)
    BY <2>2 DEF IsPart
  <2>4. IsOverlaid(Put(t, a, From(t, e)), Memory, t, l, a, From(t, e), m, Junk)
    BY <1>1, <2>3, PutPlaces
  <2>5. (IF l <= a + m THEN a + m ELSE l) = l
    BY <1>5
  <2>6. SeqLong(Put(t, a, From(t, e)), Memory, l)
    BY <2>4, <2>5 DEF IsOverlaid
  <2> PICK k \in Nat : k = l - (e - a)
    BY <1>5
  <2>7. k = IF k <= l THEN k ELSE l
    BY <1>5
  <2>8. IsPart(Before(Put(t, a, From(t, e)), k), Memory, Put(t, a, From(t, e)), 0, k)
    BY <2>6, <2>7, BeforePlaces
  <2>9. IsWithout(Before(Put(t, a, From(t, e)), k), Memory, t, l, a, e)
    BY <1>5, <2>2, <2>4, <2>8, DeleteWithin
  <2>10. Before(Put(t, a, From(t, e)), k) = Joined(Before(t, a), From(t, e))
    BY <1>2, <2>9, SameWithout
  <2> QED
    BY <2>10
<1> QED
  BY <1>3, <1>4, <1>5

\* Each character bpattern writes is the one a length before it.
Pattern(data, t, d, len) ==
  data = [i \in 1 .. len |-> IF i <= d THEN t[i] ELSE data[i - d]]

LEMMA PatternGives ==
  ASSUME NEW t, NEW d \in Nat, 0 < d, NEW len \in Nat, NEW data, Pattern(data, t, d, len)
  PROVE  \A i \in 1 .. len : data[i] = t[((i - 1) % d) + 1]
<1> DEFINE A == {n \in Nat : \A i \in 1 .. len : i <= n => data[i] = t[((i - 1) % d) + 1]}
<1>0. \A a \in Nat : (a < d => a % d = a) /\ (d <= a => a % d = (a - d) % d)
  BY Remainder
<1>1. 0 \in A
  OBVIOUS
<1>2. ASSUME NEW n \in Nat, n \in A
      PROVE  n + 1 \in A
  <2> SUFFICES ASSUME NEW i \in 1 .. len, i = n + 1
               PROVE  data[i] = t[((i - 1) % d) + 1]
    BY <1>2
  <2>1. data[i] = IF i <= d THEN t[i] ELSE data[i - d]
    BY DEF Pattern
  <2>2. i - 1 \in Nat
    OBVIOUS
  <2>3. CASE i <= d
    <3>1. i - 1 < d /\ (i - 1) + 1 = i
      BY <2>3
    <3>2. (i - 1) % d = i - 1
      BY ONLY <1>0, <2>2, <3>1
    <3> QED
      BY <2>1, <2>3, <3>1, <3>2
  <2>4. CASE d < i
    <3>1. d <= i - 1 /\ i - d \in 1 .. len /\ i - d <= n /\ (i - 1) - d = (i - d) - 1
      BY <2>4
    <3>2. (i - 1) % d = ((i - d) - 1) % d
      BY ONLY <1>0, <2>2, <3>1
    <3>3. data[i - d] = t[(((i - d) - 1) % d) + 1]
      BY <1>2, <3>1
    <3> QED
      BY <2>1, <2>4, <3>2, <3>3
  <2> QED
    BY <2>3, <2>4
<1> HIDE DEF A
<1>3. \A n \in Nat : n \in A
  BY <1>1, <1>2, EveryNumber
<1>4. len \in A
  BY <1>3
<1> QED
  BY <1>4 DEF A

LEMMA PatternExists ==
  ASSUME NEW t, NEW d \in Nat, 0 < d, NEW len \in Nat
  PROVE  \E data : Pattern(data, t, d, len)
<1> DEFINE w == [i \in 1 .. len |-> t[((i - 1) % d) + 1]]
<1>0. \A a \in Nat : (a < d => a % d = a) /\ (d <= a => a % d = (a - d) % d)
  BY Remainder
<1>1. ASSUME NEW i \in 1 .. len
      PROVE  w[i] = IF i <= d THEN t[i] ELSE w[i - d]
  <2>1. i - 1 \in Nat
    OBVIOUS
  <2>2. CASE i <= d
    <3>1. i - 1 < d /\ (i - 1) + 1 = i
      BY <2>2
    <3>2. (i - 1) % d = i - 1
      BY ONLY <1>0, <2>1, <3>1
    <3> QED
      BY <2>2, <3>1, <3>2
  <2>3. CASE d < i
    <3>1. d <= i - 1 /\ i - d \in 1 .. len /\ (i - 1) - d = (i - d) - 1
      BY <2>3
    <3>2. (i - 1) % d = ((i - d) - 1) % d
      BY ONLY <1>0, <2>1, <3>1
    <3> QED
      BY <2>3, <3>1, <3>2
  <2> QED
    BY <2>2, <2>3
<1>2. w = [i \in 1 .. len |-> w[i]]
  OBVIOUS
<1> HIDE DEF w
<1>3. Pattern(w, t, d, len)
  BY <1>1, <1>2 DEF Pattern
<1> QED
  BY <1>3

-----------------------------------------------------------------------------
(* What the calls are, by what they promise.                                *)

\* A copy changes nothing but whether there is room.
LEMMA CopyRoom ==
  ASSUME NEW arg, NEW limit, NEW room
  PROVE  /\ BesideCopy(arg, limit, room) \in {room, NoRoom}
         /\ \A size : Beside(arg, size, limit, room) \in {room, NoRoom}
         /\ arg.own => BesideCopy(arg, limit, room) = room
BY DEF BesideCopy, Beside

LEMMA BsetstrIs ==
  ASSUME NEW s, NEW pos \in Nat, NEW arg, NEW c \in Chars, NEW limit,
         NEW l \in Nat, SeqLong(s.data, Chars, l),
         NEW n \in Nat, SeqLong(arg.text, Chars, n)
  PROVE  Bsetstr(s, pos, arg, c, limit)
           = Within(s, BesideCopy(arg, limit, Balloc(s, pos + n + 1, limit)),
                    Overlaid(s.data, pos, arg.text, c))
<1> PICK t : t = s.data
  OBVIOUS
<1> PICK u : u = arg.text
  OBVIOUS
<1>1. Len(u) = n
  BY DEF SeqLong
<1>2. Put(Put(t, Len(t), Fill(Max({pos - Len(t), 0}), c)), pos, u) = Overlaid(t, pos, u, c)
  BY SetGives
<1>3. ~(pos < 0)
  OBVIOUS
<1> QED
  BY <1>1, <1>2, <1>3 DEF Bsetstr, Copied

LEMMA BinsertIs ==
  ASSUME NEW s, NEW pos \in Nat, NEW arg, NEW c \in Chars, NEW limit,
         NEW l \in Nat, SeqLong(s.data, Chars, l),
         NEW n \in Nat, SeqLong(arg.text, Chars, n)
  PROVE  Binsert(s, pos, arg, c, limit)
           = Within(s, Beside(arg, n, limit,
                              Balloc(s, (IF pos <= l THEN l + n ELSE pos + n) + 1, limit)),
                    Inserted(s.data, pos, arg.text, c))
<1> PICK t : t = s.data
  OBVIOUS
<1> PICK u : u = arg.text
  OBVIOUS
<1>1. Len(t) = l /\ Len(u) = n
  BY DEF SeqLong
<1>2. l + n \in Int /\ pos + n \in Int
  OBVIOUS
<1>3. Max({l + n, pos + n}) = IF l + n <= pos + n THEN pos + n ELSE l + n
  BY ONLY <1>2, OfTwo
<1>4. Max({l + n, pos + n}) = IF pos <= l THEN l + n ELSE pos + n
  BY <1>3
<1>5. ~(pos < 0) /\ (pos + n > l + n <=> l < pos)
  OBVIOUS
<1> DEFINE p == IF pos + n > l + n THEN Put(t, l, Fill(pos - l, c))
                                   ELSE Put(t, pos + n, From(t, pos))
<1>6. Put(p, pos, u) = Inserted(t, pos, u, c)
  <2>1. CASE l < pos
    <3>1. p = Put(t, l, Fill(pos - l, c))
      BY <1>5, <2>1
    <3>2. /\ l \in Nat /\ SeqLong(t, Chars, l) /\ pos \in Nat /\ l < pos
          /\ n \in Nat /\ SeqLong(u, Chars, n) /\ c \in Chars
      BY <2>1
    <3>3. Put(Put(t, Len(t), Fill(pos - Len(t), c)), pos, u) = Inserted(t, pos, u, c)
      BY ONLY <3>2, InsertBehindGives
    <3> QED
      BY <1>1, <3>1, <3>3
  <2>2. CASE pos <= l
    <3>1. p = Put(t, pos + n, From(t, pos))
      BY <1>5, <2>2
    <3> QED
      BY <2>2, <3>1, InsertGives
  <2> QED
    BY <2>1, <2>2
<1>7. Binsert(s, pos, arg, c, limit)
        = Within(s, Beside(arg, n, limit, Balloc(s, Max({l + n, pos + n}) + 1, limit)),
                 Put(p, pos, u))
  BY <1>1, <1>5 DEF Binsert, Copied
<1> QED
  BY <1>4, <1>6, <1>7

LEMMA BreplaceIs ==
  ASSUME NEW s, NEW pos \in Nat, NEW len \in Nat, NEW arg, NEW c \in Chars, NEW limit,
         NEW l \in Nat, SeqLong(s.data, Chars, l),
         NEW n \in Nat, SeqLong(arg.text, Chars, n)
  PROVE  LET edit == Breplace(s, pos, len, arg, c, limit)
             meant == Replaced(s.data, pos, len, arg.text, c)
         IN  IF pos + len < l
               THEN edit = Within(s, BesideCopy(arg, limit, IF n > len
                                                              THEN Balloc(s, l + n - len, limit)
                                                              ELSE Unmoved(s)), meant)
               ELSE edit = Within(s, BesideCopy(arg, limit, Balloc(s, pos + n + 1, limit)),
                                  meant)
<1>5. Bsetstr(s, pos, arg, c, limit)
        = Within(s, BesideCopy(arg, limit, Balloc(s, pos + n + 1, limit)),
                 Overlaid(s.data, pos, arg.text, c))
  BY BsetstrIs
<1> PICK t : t = s.data
  OBVIOUS
<1> PICK u : u = arg.text
  OBVIOUS
<1>1. Len(t) = l /\ Len(u) = n
  BY DEF SeqLong
<1>2. ~(pos < 0 \/ len < 0)
  OBVIOUS
<1>3. CASE pos + len < l
  <2>1. PICK v : v = IF n = len THEN t ELSE Put(t, pos + n, From(t, pos + len))
    OBVIOUS
  <2>2. Before(Put(v, pos, u), l + n - len) = Replaced(t, pos, len, u, c)
    <3>1. SeqLong(t, Chars, l) /\ SeqLong(u, Chars, n)
      OBVIOUS
    <3> QED
      BY ONLY <1>3, <2>1, <3>1, c \in Chars, l \in Nat, n \in Nat, pos \in Nat, len \in Nat,
              ReplaceGives
  <2>3. Breplace(s, pos, len, arg, c, limit)
          = Within(s, BesideCopy(arg, limit, IF n > len THEN Balloc(s, l + n - len, limit)
                                                        ELSE Unmoved(s)),
                   Before(Put(v, pos, u), l + n - len))
    BY <1>1, <1>2, <1>3, <2>1 DEF Breplace, Copied
  <2> QED
    BY <1>3, <2>2, <2>3
<1>4. CASE ~(pos + len < l)
  <2>1. PICK w : w = Overlaid(t, pos, u, c)
    OBVIOUS
  <2>2. PICK room : room = BesideCopy(arg, limit, Balloc(s, pos + n + 1, limit))
    OBVIOUS
  <2>3. PICK set : set = Bsetstr(s, pos, arg, c, limit)
    OBVIOUS
  <2>4. set = Within(s, room, w)
    BY <1>5, <2>1, <2>2, <2>3
  <2>5. /\ pos + n < Len(w) => Before(w, pos + n) = Replaced(t, pos, len, u, c)
        /\ ~(pos + n < Len(w)) => w = Replaced(t, pos, len, u, c)
    <3>1. SeqLong(t, Chars, l) /\ SeqLong(u, Chars, n) /\ l <= pos + len
      BY <1>4
    <3> QED
      BY ONLY <2>1, <3>1, c \in Chars, l \in Nat, n \in Nat, pos \in Nat, len \in Nat, ReplaceEndGives
  <2>6. Breplace(s, pos, len, arg, c, limit)
          = IF ~set.failed /\ pos + n < Len(set.b.data)
              THEN Done(set.b.mlen, Before(set.b.data, pos + n)) ELSE set
    BY <1>1, <1>2, <1>4, <2>3 DEF Breplace
  <2>7. CASE room = NoRoom
    <3>1. set = Failed(s) /\ set.failed
      BY <2>4, <2>7 DEF Within, Failed, Outcome
    <3> QED
      BY <1>4, <2>2, <2>6, <2>7, <3>1 DEF Within
  <2>8. CASE room # NoRoom
    <3>1. set = Done(room.mlen, w) /\ ~set.failed /\ set.b.data = w /\ set.b.mlen = room.mlen
      BY <2>4, <2>8 DEF Within, Done, Outcome
    <3>2. Breplace(s, pos, len, arg, c, limit) = Done(room.mlen, Replaced(t, pos, len, u, c))
      BY <2>5, <2>6, <3>1
    <3> QED
      BY <1>4, <2>2, <2>8, <3>2 DEF Within
  <2> QED
    BY <2>7, <2>8
<1> QED
  BY <1>3, <1>4

LEMMA BinsertchIs ==
  ASSUME NEW s, NEW pos \in Nat, NEW len \in Nat, NEW c \in Chars, NEW limit,
         NEW l \in Nat, SeqLong(s.data, Chars, l)
  PROVE  Binsertch(s, pos, len, c, limit)
           = Within(s, Balloc(s, (IF pos <= l THEN l + len ELSE pos + len) + 1, limit),
                    IF pos <= l THEN Inserted(s.data, pos, Fill(len, c), c)
                                ELSE Joined(s.data, Fill(pos + len - l, c)))
<1> PICK t : t = s.data
  OBVIOUS
<1>1. Len(t) = l
  BY DEF SeqLong
<1>2. l + len \in Int /\ pos + len \in Int
  OBVIOUS
<1>3. Max({l + len, pos + len}) = IF l + len <= pos + len THEN pos + len ELSE l + len
  BY ONLY <1>2, OfTwo
<1>4. Max({l + len, pos + len}) = IF pos <= l THEN l + len ELSE pos + len
  BY <1>3
<1>5. ~(pos < 0 \/ len < 0) /\ (pos + len > l + len <=> l < pos)
  OBVIOUS
<1> DEFINE v == Opened(t, pos, len)
           p == IF pos + len > l + len THEN Put(t, l, Fill(pos + len - l, c))
                                       ELSE Put(v, pos, Fill(len, c))
<1>6. p = IF pos <= l THEN Inserted(t, pos, Fill(len, c), c)
                      ELSE Joined(t, Fill(pos + len - l, c))
  <2>1. CASE l < pos
    <3>1. p = Put(t, l, Fill(pos + len - l, c))
      BY <1>5, <2>1
    <3>2. pos + len - l \in Nat
      BY <2>1
    <3>3. Put(t, Len(t), Fill(pos + len - l, c)) = Joined(t, Fill(pos + len - l, c))
      BY <3>2, OpenBehindGives
    <3> QED
      BY <1>1, <2>1, <3>1, <3>3
  <2>2. CASE pos <= l
    <3>1. p = Put(v, pos, Fill(len, c))
      BY <1>5, <2>2
    <3>2. Put(v, pos, Fill(len, c)) = Inserted(t, pos, Fill(len, c), c)
      BY <2>2, OpenGives
    <3> QED
      BY <2>2, <3>1, <3>2
  <2> QED
    BY <2>1, <2>2
<1>7. Binsertch(s, pos, len, c, limit)
        = Within(s, Balloc(s, Max({l + len, pos + len}) + 1, limit), p)
  BY <1>1, <1>5 DEF Binsertch, Opened
<1> QED
  BY <1>4, <1>6, <1>7

\* bdelete fails, or it changes nothing where there is nothing to delete.
LEMMA BdeleteIs ==
  ASSUME NEW s, NEW pos \in Int, NEW len \in Int, NEW l \in Nat, SeqLong(s.data, Chars, l)
  PROVE  \/ Bdelete(s, pos, len) = Failed(s)
         \/ /\ Bdelete(s, pos, len) = Outcome(s, FALSE)
            /\ s.data = Without(s.data, pos, len)
         \/ /\ Bdelete(s, pos, len) = Done(s.mlen, Without(s.data, pos, len))
            /\ \E n \in Nat : n <= l /\ SeqLong(Without(s.data, pos, len), Chars, n)
<1> PICK t : t = s.data
  OBVIOUS
<1>1. Len(t) = l
  BY DEF SeqLong
<1>2. pos \in Int /\ 0 \in Int /\ pos + len \in Int
  OBVIOUS
<1>3. /\ Max({pos, 0}) = IF pos <= 0 THEN 0 ELSE pos
      /\ Min({pos, 0}) = IF pos <= 0 THEN pos ELSE 0
      /\ Max({pos + len, 0}) = IF pos + len <= 0 THEN 0 ELSE pos + len
  BY ONLY <1>2, OfTwo
<1>4. (IF pos <= 0 THEN 0 ELSE pos) \in Nat /\ (IF pos <= 0 THEN pos ELSE 0) \in Int
  OBVIOUS
<1> PICK a \in Nat : a = IF pos <= 0 THEN 0 ELSE pos
  BY <1>4
<1> PICK m \in Int : m = IF pos <= 0 THEN pos ELSE 0
  BY <1>4
<1> PICK k \in Int : k = len + m
  OBVIOUS
<1>5. a + k = pos + len
  OBVIOUS
<1>6. Bdelete(s, pos, len)
        = IF k < 0 THEN Failed(s)
          ELSE IF k = 0 \/ a >= l THEN Outcome(s, FALSE)
          ELSE IF a + k >= l THEN Done(s.mlen, Before(t, a))
          ELSE Done(s.mlen, Before(Put(t, a, From(t, a + k)), l - k))
  BY <1>1, <1>3 DEF Bdelete
<1>7. ASSUME ~(k < 0)
      PROVE  \/ Bdelete(s, pos, len) = Outcome(s, FALSE) /\ t = Without(t, pos, len)
             \/ /\ Bdelete(s, pos, len) = Done(s.mlen, Without(t, pos, len))
                /\ \E n \in Nat : n <= l /\ SeqLong(Without(t, pos, len), Chars, n)
  <2> PICK e \in Nat : e = a + k
    BY <1>7
  <2>1. a <= e /\ e - a = k /\ (e = a <=> k = 0)
    BY <1>7
  <2>2. Max({pos + len, 0}) = e
    BY <1>3, <1>5, <1>7
  <2>3. Without(t, pos, len) = Joined(Before(t, a), From(t, e))
    BY <1>3, <2>2 DEF Without, Joined
  <2> PICK w : w = Joined(Before(t, a), From(t, e))
    OBVIOUS
  <2> PICK x : x = Before(Put(t, a, From(t, e)), l - (e - a))
    OBVIOUS
  <2>4. /\ e = a \/ l <= a => t = w
        /\ a < l /\ l <= e => Before(t, a) = w
        /\ e < l => x = w
    <3>1. SeqLong(t, Chars, l) /\ a <= e
      BY <2>1
    <3> QED
      BY ONLY <3>1, l \in Nat, a \in Nat, e \in Nat, w = Joined(Before(t, a), From(t, e)),
              x = Before(Put(t, a, From(t, e)), l - (e - a)), DeleteGives
  <2>5. Bdelete(s, pos, len)
          = IF k = 0 \/ a >= l THEN Outcome(s, FALSE)
            ELSE IF e >= l THEN Done(s.mlen, Before(t, a)) ELSE Done(s.mlen, x)
    <3>1. l - k = l - (e - a)
      BY <2>1
    <3> QED
      BY <1>6, <1>7, <3>1
  <2>9. \E n \in Nat : n <= l /\ SeqLong(w, Chars, n)
    <3>1. (IF a <= l THEN a ELSE l) \in Nat /\ (IF e <= l THEN l - e ELSE 0) \in Nat
      OBVIOUS
    <3> PICK x1 \in Nat : x1 = IF a <= l THEN a ELSE l
      BY <3>1
    <3> PICK x2 \in Nat : x2 = IF e <= l THEN l - e ELSE 0
      BY <3>1
    <3>2. SeqLong(Before(t, a), Chars, x1)
      BY BeforePlaces DEF IsPart
    <3>3. SeqLong(From(t, e), Chars, x2)
      BY FromPlaces DEF IsPart
    <3>4. SeqLong(w, Chars, x1 + x2)
      <4>1. SeqLong(Joined(Before(t, a), From(t, e)), Chars, x1 + x2)
        BY <3>2, <3>3, ConcatSeqLong, Zenon DEF Joined
      <4> QED
        BY <4>1
    <3> QED
      BY <2>1, <3>4
  <2>6. CASE k = 0 \/ a >= l
    <3>1. t = w
      BY <2>1, <2>4, <2>6
    <3> QED
      BY <2>3, <2>5, <2>6, <3>1
  <2>7. CASE ~(k = 0 \/ a >= l) /\ e >= l
    <3>1. Before(t, a) = w
      BY <2>4, <2>7
    <3> QED
      BY <2>3, <2>5, <2>7, <2>9, <3>1
  <2>8. CASE ~(k = 0 \/ a >= l) /\ ~(e >= l)
    <3>1. x = w
      BY <2>4, <2>8
    <3> QED
      BY <2>3, <2>5, <2>8, <2>9, <3>1
  <2> QED
    BY <2>6, <2>7, <2>8
<1> QED
  BY <1>6, <1>7

-----------------------------------------------------------------------------
(* The sizes of blocks.                                                    *)

\* The doubling of snapUpSize, from m on.
Doubled(f, i, m) == f = [n \in m .. 2 * i |-> IF n > i THEN n ELSE f[2 * n]]

LEMMA DoubledExists ==
  ASSUME NEW i \in Nat, 0 < i
  PROVE  \E f : Doubled(f, i, 1)
<1> DEFINE A == {k \in Nat : k < 2 * i => \E f : Doubled(f, i, 2 * i - k)}
<1>1. 0 \in A
  <2> DEFINE f == [n \in 2 * i .. 2 * i |-> n]
  <2>1. \A n \in 2 * i .. 2 * i : n > i
    OBVIOUS
  <2>2. f = [n \in 2 * i .. 2 * i |-> IF n > i THEN n ELSE f[2 * n]]
    BY <2>1
  <2> HIDE DEF f
  <2>3. 2 * i - 0 = 2 * i
    OBVIOUS
  <2>4. Doubled(f, i, 2 * i - 0)
    BY <2>2, <2>3 DEF Doubled
  <2> QED
    BY <2>4
<1>2. ASSUME NEW k \in Nat, k \in A
      PROVE  k + 1 \in A
  <2> SUFFICES ASSUME k + 1 < 2 * i
               PROVE  \E g : Doubled(g, i, 2 * i - (k + 1))
    OBVIOUS
  <2> PICK m \in Nat : m = 2 * i - (k + 1)
    OBVIOUS
  <2>1. 2 * i - k = m + 1 /\ 0 < m /\ m < 2 * i
    OBVIOUS
  <2>2. PICK f : Doubled(f, i, m + 1)
    BY <1>2, <2>1
  <2>3. f = [n \in m + 1 .. 2 * i |-> IF n > i THEN n ELSE f[2 * n]]
    BY <2>2 DEF Doubled
  <2> DEFINE g == [n \in m .. 2 * i |-> IF n > i THEN n ELSE f[2 * n]]
  <2>4. \A n \in m + 1 .. 2 * i : g[n] = f[n]
    BY <2>3
  <2>5. \A n \in m .. 2 * i : ~(n > i) => 2 * n \in m + 1 .. 2 * i
    BY <2>1
  <2>6. \A n \in m .. 2 * i : g[n] = IF n > i THEN n ELSE g[2 * n]
    BY <2>4, <2>5
  <2>7. g = [n \in m .. 2 * i |-> g[n]]
    OBVIOUS
  <2> HIDE DEF g
  <2>8. Doubled(g, i, m)
    BY <2>6, <2>7 DEF Doubled
  <2> QED
    BY <2>8
<1> HIDE DEF A
<1>3. \A k \in Nat : k \in A
  BY <1>1, <1>2, EveryNumber
<1>4. 2 * i - 1 \in A /\ 2 * i - 1 < 2 * i /\ 2 * i - (2 * i - 1) = 1
  BY <1>3
<1> QED
  BY <1>4 DEF A

LEMMA DoubledAbove ==
  ASSUME NEW i \in Nat, 0 < i, NEW f, Doubled(f, i, 1)
  PROVE  f[1] \in Nat /\ f[1] > i
<1> DEFINE A == {k \in Nat : \A n \in 1 .. 2 * i : n >= 2 * i - k => f[n] \in Nat /\ f[n] > i}
<1>1. \A n \in 1 .. 2 * i : f[n] = IF n > i THEN n ELSE f[2 * n]
  BY DEF Doubled
<1>2. 0 \in A
  BY <1>1
<1>3. ASSUME NEW k \in Nat, k \in A
      PROVE  k + 1 \in A
  <2> SUFFICES ASSUME NEW n \in 1 .. 2 * i, n >= 2 * i - (k + 1)
               PROVE  f[n] \in Nat /\ f[n] > i
    OBVIOUS
  <2>1. CASE n > i
    BY <1>1, <2>1
  <2>2. CASE ~(n > i)
    <3>1. 2 * n \in 1 .. 2 * i /\ 2 * n >= 2 * i - k
      BY <2>2
    <3>2. f[2 * n] \in Nat /\ f[2 * n] > i
      BY <1>3, <3>1
    <3> QED
      BY <1>1, <2>2, <3>2
  <2> QED
    BY <2>1, <2>2
<1> HIDE DEF A
<1>4. \A k \in Nat : k \in A
  BY <1>2, <1>3, EveryNumber
<1>5. 2 * i \in A /\ 1 \in 1 .. 2 * i /\ 1 >= 2 * i - 2 * i
  BY <1>4
<1> QED
  BY <1>5 DEF A

LEMMA SnapUpAbove ==
  ASSUME NEW i \in Nat
  PROVE  SnapUp(i) \in Nat /\ SnapUp(i) > i
<1>1. MinBlock \in Nat /\ MinBlock > 1
  BY BstringAssumption
<1>2. CASE i < MinBlock
  BY <1>1, <1>2 DEF SnapUp
<1>3. CASE ~(i < MinBlock)
  <2>1. 0 < i
    BY <1>1, <1>3
  <2> DEFINE f == CHOOSE f : f = [n \in 1 .. 2 * i |-> IF n > i THEN n ELSE f[2 * n]]
  <2>2. Doubled(f, i, 1)
    BY <2>1, DoubledExists DEF Doubled
  <2>3. SnapUp(i) = f[1]
    BY <1>3 DEF SnapUp
  <2> HIDE DEF f
  <2> QED
    BY <2>1, <2>2, <2>3, DoubledAbove
<1> QED
  BY <1>2, <1>3

\* What balloc leaves: there is no room, or the block is as before and large
\* enough, or it has moved to another one that is at least as large as both.
LEMMA BallocRoom ==
  ASSUME NEW s, s.mlen \in Nat, NEW olen \in Int, NEW limit \in Nat
  PROVE  LET r == Balloc(s, olen, limit)
         IN  \/ r = NoRoom
             \/ /\ r # NoRoom /\ r.mlen \in Nat /\ olen <= r.mlen /\ s.mlen <= r.mlen
                /\ 0 < olen
                /\ ~r.moved => r = Unmoved(s) /\ olen < s.mlen
                /\ s.mlen <= olen => r.moved /\ (r.mlen = SnapUp(olen) \/ r.mlen = olen)
<1>1. CASE olen <= 0
  BY <1>1 DEF Balloc
<1>2. CASE ~(olen <= 0) /\ olen < s.mlen
  BY <1>2 DEF Balloc, Unmoved, NoRoom
<1>3. CASE ~(olen <= 0) /\ ~(olen < s.mlen)
  <2>1. olen \in Nat /\ s.mlen <= olen /\ 0 < olen
    BY <1>3
  <2>2. SnapUp(olen) \in Nat /\ SnapUp(olen) > olen
    BY <2>1, SnapUpAbove
  <2>3. Balloc(s, olen, limit)
          = IF SnapUp(olen) <= limit THEN [mlen |-> SnapUp(olen), moved |-> TRUE]
            ELSE IF olen <= limit THEN [mlen |-> olen, moved |-> TRUE] ELSE NoRoom
    BY <1>3 DEF Balloc
  <2> QED
    BY <2>1, <2>2, <2>3 DEF NoRoom
<1> QED
  BY <1>1, <1>2, <1>3

-----------------------------------------------------------------------------
(* Outcomes.                                                               *)

\* What TypeOK says of b.
IsString(s) ==
  /\ s \in [data : Seq(Chars), mlen : Nat, ended : BOOLEAN]
  /\ IF s.ended THEN Len(s.data) <= s.mlen ELSE Len(s.data) = s.mlen

\* There is no room, or room for n characters.
Fits(room, n) == room = NoRoom \/ (room # NoRoom /\ room.mlen \in Nat /\ n <= room.mlen)

LEMMA DoneIsString ==
  ASSUME NEW w, NEW n \in Nat, SeqLong(w, Chars, n), NEW mlen \in Nat, n <= mlen
  PROVE  IsString(Done(mlen, w).b)
<1>1. w \in Seq(Chars) /\ Len(w) = n
  BY DEF SeqLong
<1> DEFINE s == [data |-> w, mlen |-> mlen, ended |-> TRUE]
<1>2. s \in [data : Seq(Chars), mlen : Nat, ended : BOOLEAN]
  BY <1>1
<1>3. s.ended /\ Len(s.data) <= s.mlen
  BY <1>1
<1>4. IsString(s)
  BY <1>2, <1>3 DEF IsString
<1>5. Done(mlen, w).b = s
  BY DEF Done, Outcome
<1> QED
  BY <1>4, <1>5

LEMMA WithinIsString ==
  ASSUME NEW s, IsString(s), NEW w, NEW n \in Nat, SeqLong(w, Chars, n),
         NEW room, n <= MaxLen => Fits(room, n), NEW o, o = Within(s, room, w),
         Len(o.b.data) <= MaxLen
  PROVE  IsString(o.b)
<1>1. CASE room = NoRoom
  BY <1>1 DEF Within, Failed, Outcome
<1>2. CASE room # NoRoom
  <2>1. o = Done(room.mlen, w)
    BY <1>2 DEF Within
  <2>2. o.b.data = w
    BY <2>1 DEF Done, Outcome
  <2>3. n <= MaxLen
    BY <2>2 DEF SeqLong
  <2>4. room.mlen \in Nat /\ n <= room.mlen
    BY <1>2, <2>3 DEF Fits
  <2> QED
    BY <2>1, <2>4, DoneIsString
<1> QED
  BY <1>1, <1>2

LEMMA WithinKeeps ==
  ASSUME NEW room, NEW w
  PROVE  Keeps(Within(b, room, w), w) /\ Keeps(Failed(b), w) /\ \A n : Keeps(Done(n, w), w)
<1>1. Failed(b).failed /\ Failed(b).b = b
  BY DEF Failed, Outcome
<1>2. \A n : ~Done(n, w).failed /\ Done(n, w).b.data = w
  BY DEF Done, Outcome
<1>3. Within(b, room, w) = Failed(b) \/ Within(b, room, w) = Done(room.mlen, w)
  BY DEF Within
<1> QED
  BY <1>1, <1>2, <1>3 DEF Keeps

\* The characters of an argument, and where it is a part of the string.
LEMMA ArgText ==
  ASSUME TypeOK, NEW arg \in Args
  PROVE  \E n \in Nat : SeqLong(arg.text, Chars, n) /\ (arg.own \/ n <= Len(b.data))
<1>1. Texts \subseteq Seq(Chars)
  BY BstringAssumption
<1>2. b.data \in Seq(Chars)
  BY DEF TypeOK
<1>3. CASE arg \in {Own(t) : t \in Texts}
  <2>1. PICK t \in Texts : arg = Own(t)
    BY <1>3
  <2>2. arg.text = t /\ arg.own
    BY <2>1 DEF Own
  <2>3. SeqLong(t, Chars, Len(t)) /\ Len(t) \in Nat
    BY <1>1 DEF SeqLong
  <2> QED
    BY <2>2, <2>3
<1>4. CASE arg \in {Part(b, left, len) : left \in 0 .. Len(b.data), len \in 0 .. Len(b.data)}
  <2> PICK l \in Nat : l = Len(b.data)
    BY <1>2
  <2>1. SeqLong(b.data, Chars, l)
    BY <1>2 DEF SeqLong
  <2>2. PICK left \in 0 .. l, len \in 0 .. l : arg = Part(b, left, len)
    BY <1>4
  <2>3. left \in Int /\ 0 \in Int /\ left + len \in Int /\ l \in Int
    OBVIOUS
  <2>4. /\ Max({left, 0}) = IF left <= 0 THEN 0 ELSE left
        /\ Min({left + len, l}) = IF left + len <= l THEN left + len ELSE l
    BY ONLY <2>3, OfTwo
  <2>5. Max({left, 0}) = left /\ left \in Nat
    BY <2>4
  <2>9. (IF left + len <= l THEN len ELSE l - left) \in Nat
    OBVIOUS
  <2> PICK n \in Nat : n = IF left + len <= l THEN len ELSE l - left
    BY <2>9
  <2>6. Min({left + len, l}) = left + n /\ 0 <= n /\ left + n <= l /\ n \in Nat /\ n <= l
    BY <2>4
  <2>7. IsPart(SubSeq(b.data, left + 1, left + n), Chars, b.data, left, n)
    BY <2>1, <2>5, <2>6, PartOf
  <2>8. arg.text = SubSeq(b.data, left + 1, left + n)
    BY <2>2, <2>5, <2>6 DEF Part, Middle
  <2> QED
    BY <2>6, <2>7, <2>8 DEF IsPart
<1> QED
  BY <1>3, <1>4 DEF Args

LEMMA BconcatIs ==
  ASSUME NEW s, NEW arg, NEW limit, NEW l \in Nat, SeqLong(s.data, Chars, l),
         NEW n \in Nat, SeqLong(arg.text, Chars, n)
  PROVE  Bconcat(s, arg, limit)
           = Within(s, IF s.mlen <= l + n + 1
                         THEN BesideCopy(arg, limit, Balloc(s, l + n + 1, limit))
                         ELSE Unmoved(s),
                    Joined(s.data, arg.text))
BY DEF SeqLong, Bconcat, Copied, Joined

\* bassign does not move the block for a part of the string that does not fill it.
LEMMA BassignIs ==
  ASSUME NEW s, IsString(s), s.ended, NEW arg, NEW limit,
         NEW n \in Nat, SeqLong(arg.text, Chars, n), arg.own \/ n < s.mlen
  PROVE  \/ arg.text = <<>> /\ Bassign(s, arg, limit) = Done(s.mlen, arg.text)
         \/ 0 < n /\ Bassign(s, arg, limit) = Within(s, Balloc(s, n, limit), arg.text)
<1>1. Len(arg.text) = n /\ arg.text \in Seq(Chars)
  BY DEF SeqLong
<1>2. CASE arg.text = <<>>
  BY <1>2 DEF Bassign
<1>3. CASE arg.text # <<>>
  <2>1. 0 < n
    BY <1>1, <1>3, EmptySeq
  <2>2. Bassign(s, arg, limit)
          = Within(s, Balloc(s, n, limit), Stale(arg, Balloc(s, n, limit)))
    BY <1>1, <1>3 DEF Bassign
  <2>3. Stale(arg, Balloc(s, n, limit)) = arg.text
    <3>1. CASE arg.own
      BY <3>1 DEF Stale
    <3>2. CASE ~arg.own
      <4>1. n < s.mlen /\ ~(n <= 0)
        BY <2>1, <3>2
      <4>2. Balloc(s, n, limit) = Unmoved(s)
        BY <4>1 DEF Balloc
      <4>3. ~Balloc(s, n, limit).moved
        BY <4>2 DEF Unmoved
      <4> QED
        BY <4>3 DEF Stale
    <3> QED
      BY <3>1, <3>2
  <2> QED
    BY <2>1, <2>2, <2>3
<1> QED
  BY <1>2, <1>3

\* One character, repeated by bsetstr.
LEMMA RepeatedOne ==
  ASSUME NEW t, SeqLong(t, Chars, 1), NEW len \in Nat, 0 < len
  PROVE  Overlaid(t, len, <<>>, t[1]) = [i \in 1 .. len |-> t[1]]
<1>1. SeqLong(<<>>, Chars, 0) /\ t[1] \in Chars
  <2>1. t \in Seq(Chars) /\ Len(t) = 1
    BY DEF SeqLong
  <2>2. t[1] \in Chars
    BY <2>1, ElementOfSeq
  <2> QED
    BY ONLY <2>2 DEF SeqLong
<1> PICK e : e = <<>>
  OBVIOUS
<1> PICK c : c = t[1]
  OBVIOUS
<1> PICK w : w = Overlaid(t, len, e, c)
  OBVIOUS
<1>2. 1 \in Nat /\ 0 \in Nat /\ SeqLong(e, Chars, 0) /\ c \in Chars
  BY <1>1
<1>3. IsSpliced(w, Chars, t, 1, len, e, 0, len + 0, c)
  BY <1>2, Promised
<1>4. (IF len + 0 <= 1 THEN 1 - (len + 0) ELSE 0) = 0 /\ len + 0 + 0 = len
  OBVIOUS
<1>5. SeqLong(w, Chars, len) /\ \A i \in 1 .. len : w[i] = IF i <= 1 THEN t[i] ELSE c
  BY <1>3, <1>4 DEF IsSpliced
<1> DEFINE v == [i \in 1 .. len |-> c]
<1>6. SeqLong(v, Chars, len)
  BY <1>2, FunctionIsText
<1>7. \A i \in 1 .. len : w[i] = v[i]
  BY <1>5
<1> HIDE DEF v
<1>8. w = v
  BY <1>5, <1>6, <1>7, SameText
<1> QED
  BY <1>8 DEF v

LEMMA RepeatedPlaces ==
  ASSUME NEW t, NEW d \in Nat, 0 < d, SeqLong(t, Chars, d), NEW len \in Nat
  PROVE  SeqLong(Repeated(t, len), Chars, len)
<1>1. Len(t) = d /\ \A i \in 1 .. d : t[i] \in Chars
  BY DEF SeqLong
<1>2. Repeated(t, len) = [i \in 1 .. len |-> t[((i - 1) % d) + 1]]
  BY <1>1 DEF Repeated
<1>3. ASSUME NEW i \in 1 .. len
      PROVE  t[((i - 1) % d) + 1] \in Chars
  <2>1. i - 1 \in Nat
    OBVIOUS
  <2>2. (i - 1) % d \in 0 .. d - 1
    BY <2>1, Remainder
  <2> PICK k \in 0 .. d - 1 : k = (i - 1) % d
    BY <2>2
  <2>3. k + 1 \in 1 .. d
    OBVIOUS
  <2> QED
    BY <1>1, <2>3
<1>4. [i \in 1 .. len |-> t[((i - 1) % d) + 1]] \in [1 .. len -> Chars]
  BY <1>3
<1> QED
  BY <1>2, <1>4, FunctionIsText

\* bpattern fails, or it leaves the text repeated in a block that is large enough:
\* for one character, the second call of balloc has nothing to do.
LEMMA BpatternIs ==
  ASSUME NEW s, IsString(s), NEW len \in Int, NEW limit \in Nat,
         NEW l \in Nat, SeqLong(s.data, Chars, l)
  PROVE  \/ Bpattern(s, len, limit) = Failed(s)
         \/ /\ len \in Nat /\ 0 < l
            /\ \E mlen \in Nat : /\ len < mlen
                                 /\ Bpattern(s, len, limit) = Done(mlen, Repeated(s.data, len))
<1> PICK t : t = s.data
  OBVIOUS
<1> PICK room : room = Balloc(s, len + 1, limit)
  OBVIOUS
<1>1. Len(t) = l
  BY DEF SeqLong
<1>2. CASE l = 0 \/ len < 0 \/ room = NoRoom
  BY <1>1, <1>2 DEF Bpattern
<1>3. CASE ~(l = 0 \/ len < 0 \/ room = NoRoom)
  <2>1. len \in Nat /\ 0 < l /\ s.mlen \in Nat
    BY <1>3 DEF IsString
  <2>2. /\ room.mlen \in Nat /\ len + 1 <= room.mlen
        /\ (~room.moved => room = Unmoved(s) /\ len + 1 < s.mlen)
    BY <1>3, <2>1, BallocRoom
  <2>3. CASE len > 0 /\ l = 1
    <3> PICK z : z = [s EXCEPT !.mlen = room.mlen]
      OBVIOUS
    <3>1. z.data = t /\ z.mlen = room.mlen
      BY DEF IsString
    <3>2. Bpattern(s, len, limit) = Bsetstr(z, len, Own(<<>>), t[1], limit)
      BY <1>1, <1>3, <2>3 DEF Bpattern
    <3> PICK e : e = <<>>
      OBVIOUS
    <3>3. Own(<<>>).text = e /\ SeqLong(e, Chars, 0) /\ SeqLong(z.data, Chars, l)
      BY <3>1 DEF Own, SeqLong
    <3>4. t[1] \in Chars /\ 0 \in Nat
      BY <2>3 DEF SeqLong
    <3>5. Bsetstr(z, len, Own(<<>>), t[1], limit)
            = Within(z, BesideCopy(Own(<<>>), limit, Balloc(z, len + 0 + 1, limit)),
                     Overlaid(z.data, len, Own(<<>>).text, t[1]))
      <4> PICK a : a = Own(<<>>)
        OBVIOUS
      <4> PICK n \in Nat : n = 0
        OBVIOUS
      <4> PICK c : c = t[1]
        OBVIOUS
      <4>1. SeqLong(a.text, Chars, n) /\ c \in Chars /\ SeqLong(z.data, Chars, l)
        BY <3>3, <3>4
      <4>2. Bsetstr(z, len, a, c, limit)
              = Within(z, BesideCopy(a, limit, Balloc(z, len + n + 1, limit)),
                       Overlaid(z.data, len, a.text, c))
        BY ONLY <2>1, <4>1, l \in Nat, n \in Nat, BsetstrIs
      <4> QED
        BY <4>2
    <3>6. Overlaid(t, len, e, t[1]) = [i \in 1 .. len |-> t[1]]
      BY <2>1, <2>3, RepeatedOne
    <3>7. Repeated(t, len) = [i \in 1 .. len |-> t[1]]
      <4>1. \A i \in 1 .. len : (i - 1) % 1 = 0
        OBVIOUS
      <4>2. \A i \in 1 .. len : t[((i - 1) % Len(t)) + 1] = t[1]
        BY <1>1, <2>3, <4>1
      <4> QED
        BY <4>2 DEF Repeated
    <3>8. Balloc(z, len + 1, limit) # NoRoom /\ Balloc(z, len + 1, limit).mlen = room.mlen
      <4>1. CASE len + 1 < room.mlen
        BY <2>1, <2>2, <3>1, <4>1 DEF Balloc, Unmoved, NoRoom
      <4>2. CASE ~(len + 1 < room.mlen)
        <5>1. room.mlen = len + 1 /\ room.moved
          BY <2>1, <2>2, <4>2 DEF Unmoved
        <5>2. len + 1 \in Nat /\ SnapUp(len + 1) > len + 1 /\ SnapUp(len + 1) \in Nat
          BY <2>1, SnapUpAbove
        <5>3. Balloc(s, len + 1, limit)
                = IF SnapUp(len + 1) <= limit THEN [mlen |-> SnapUp(len + 1), moved |-> TRUE]
                  ELSE IF len + 1 <= limit THEN [mlen |-> len + 1, moved |-> TRUE]
                  ELSE NoRoom
          <6>1. ~(len + 1 <= 0)
            BY <2>1
          <6>2. ~(len + 1 < s.mlen)
            <7> SUFFICES ASSUME len + 1 < s.mlen
                         PROVE  FALSE
              OBVIOUS
            <7>1. Balloc(s, len + 1, limit) = Unmoved(s)
              BY <6>1 DEF Balloc
            <7> QED
              BY <5>1, <7>1 DEF Unmoved
          <6> QED
            BY <6>1, <6>2 DEF Balloc
        <5>4. ~(SnapUp(len + 1) <= limit) /\ len + 1 <= limit
          BY <1>3, <5>1, <5>2, <5>3
        <5> QED
          BY <2>1, <3>1, <5>1, <5>2, <5>4 DEF Balloc, NoRoom
      <4> QED
        BY <4>1, <4>2
    <3>9. Bpattern(s, len, limit) = Done(room.mlen, Repeated(t, len))
      <4>1. len + 0 + 1 = len + 1
        BY <2>1
      <4>2. BesideCopy(Own(<<>>), limit, Balloc(z, len + 1, limit)) = Balloc(z, len + 1, limit)
        BY CopyRoom DEF Own
      <4> QED
        BY <3>1, <3>2, <3>3, <3>5, <3>6, <3>7, <3>8, <4>1, <4>2 DEF Within
    <3> QED
      BY <2>1, <2>2, <3>9
  <2>4. CASE ~(len > 0 /\ l = 1)
    <3>1. (IF len <= l THEN l ELSE len) \in Nat
      BY <2>1
    <3> PICK m \in Nat : m = IF len <= l THEN l ELSE len
      BY <3>1
    <3>2. len \in Int /\ l \in Int
      BY <2>1
    <3>3. Max({len, l}) = m
      <4>1. Max({len, l}) = IF len <= l THEN l ELSE len
        BY ONLY <3>2, OfTwo
      <4> QED
        BY <4>1
    <3> DEFINE d == Len(s.data)
               f == CHOOSE f : f = [i \in 1 .. Max({len, d}) |->
                                      IF i <= d THEN s.data[i] ELSE f[i - d]]
    <3>4. Pattern(f, s.data, d, Max({len, d}))
      <4>1. \E g : Pattern(g, s.data, d, Max({len, d}))
        BY <1>1, <2>1, <3>3, PatternExists
      <4> QED
        BY <4>1, Zenon DEF Pattern
    <3>5. Bpattern(s, len, limit) = Done(room.mlen, [i \in 1 .. len |-> f[i]])
      <4>1. ~(d = 0 \/ len < 0 \/ room = NoRoom) /\ ~(len > 0 /\ d = 1)
        BY <1>1, <1>3, <2>4
      <4> QED
        BY <4>1 DEF Bpattern
    <3>9. Pattern(f, t, l, m)
      BY <1>1, <3>3, <3>4
    <3> HIDE DEF f
    <3>6. \A i \in 1 .. m : f[i] = t[((i - 1) % l) + 1]
      BY <2>1, <3>9, PatternGives
    <3>7. \A i \in 1 .. len : f[i] = t[((i - 1) % Len(t)) + 1]
      <4>1. \A i \in 1 .. len : i \in 1 .. m
        BY <2>1
      <4>2. Len(t) = l
        BY <1>1
      <4> QED
        BY ONLY <3>6, <4>1, <4>2
    <3>8. [i \in 1 .. len |-> f[i]] = Repeated(t, len)
      BY <3>7 DEF Repeated
    <3>10. Bpattern(s, len, limit) = Done(room.mlen, Repeated(t, len))
      BY <3>5, <3>8
    <3>11. len < room.mlen
      BY <2>1, <2>2
    <3> QED
      BY <2>1, <2>2, <3>10, <3>11
  <2> QED
    BY <2>3, <2>4
<1> QED
  BY <1>2, <1>3

-----------------------------------------------------------------------------
(* The promises are kept in every state that TypeOK describes.              *)

LEMMA EditsKept ==
  ASSUME TypeOK
  PROVE  EditsKeepPromise
<1> SUFFICES ASSUME b.ended, NEW limit \in Limits, NEW arg \in Args
             PROVE  /\ Keeps(Bconcat(b, arg, limit), b.data \o arg.text)
                    /\ Displaced(arg) \/ Keeps(Bassign(b, arg, limit), arg.text)
                    /\ \A pos \in Positions, c \in Chars :
                         /\ Keeps(Bsetstr(b, pos, arg, c, limit),
                                  Overlaid(b.data, pos, arg.text, c))
                         /\ Keeps(Binsert(b, pos, arg, c, limit),
                                  Inserted(b.data, pos, arg.text, c))
                         /\ \A len \in Positions :
                              /\ Keeps(Breplace(b, pos, len, arg, c, limit),
                                       Replaced(b.data, pos, len, arg.text, c))
                              /\ Keeps(Bdelete(b, pos, len), Without(b.data, pos, len))
                              /\ Keeps(Binsertch(b, pos, len, c, limit),
                                       IF pos <= Len(b.data)
                                         THEN Inserted(b.data, pos, Fill(len, c), c)
                                         ELSE b.data \o Fill(pos + len - Len(b.data), c))
                         /\ Keeps(Bpattern(b, pos, limit), Repeated(b.data, pos))
  BY DEF EditsKeepPromise
<1>1. IsString(b) /\ b.data \in Seq(Chars)
  BY DEF TypeOK, IsString
<1>2. limit \in Nat
  BY BstringAssumption
<1> PICK l \in Nat : l = Len(b.data)
  BY <1>1
<1>3. SeqLong(b.data, Chars, l)
  BY <1>1 DEF SeqLong
<1> PICK n \in Nat : SeqLong(arg.text, Chars, n) /\ (arg.own \/ n <= Len(b.data))
  BY ArgText
<1>4. Keeps(Bconcat(b, arg, limit), b.data \o arg.text)
  BY <1>3, BconcatIs, WithinKeeps DEF Joined
<1>5. Displaced(arg) \/ Keeps(Bassign(b, arg, limit), arg.text)
  <2> SUFFICES ASSUME ~Displaced(arg)
               PROVE  Keeps(Bassign(b, arg, limit), arg.text)
    OBVIOUS
  <2>1. arg.own \/ n < b.mlen
    BY DEF Displaced, SeqLong, TypeOK
  <2> QED
    BY <1>1, <2>1, BassignIs, WithinKeeps
<1>6. ASSUME NEW pos \in Positions, NEW c \in Chars
      PROVE  /\ Keeps(Bsetstr(b, pos, arg, c, limit), Overlaid(b.data, pos, arg.text, c))
             /\ Keeps(Binsert(b, pos, arg, c, limit), Inserted(b.data, pos, arg.text, c))
             /\ Keeps(Bpattern(b, pos, limit), Repeated(b.data, pos))
  <2>1. pos \in Int
    BY DEF Positions
  <2>2. Keeps(Bpattern(b, pos, limit), Repeated(b.data, pos))
    <3>1. \/ Bpattern(b, pos, limit) = Failed(b)
          \/ \E mlen \in Nat : Bpattern(b, pos, limit) = Done(mlen, Repeated(b.data, pos))
      BY <1>1, <1>2, <1>3, <2>1, BpatternIs
    <3> QED
      BY ONLY <3>1, WithinKeeps
  <2>3. CASE pos < 0
    <3>1. Bsetstr(b, pos, arg, c, limit) = Failed(b)
      BY <2>3 DEF Bsetstr
    <3>2. Binsert(b, pos, arg, c, limit) = Failed(b)
      BY <2>3 DEF Binsert
    <3> QED
      BY <2>2, <3>1, <3>2, WithinKeeps
  <2>4. CASE ~(pos < 0)
    <3>1. /\ pos \in Nat /\ c \in Chars /\ n \in Nat /\ SeqLong(arg.text, Chars, n)
          /\ l \in Nat /\ SeqLong(b.data, Chars, l)
      BY <1>3, <2>1, <2>4
    <3>2. Keeps(Bsetstr(b, pos, arg, c, limit), Overlaid(b.data, pos, arg.text, c))
      <4>1. Bsetstr(b, pos, arg, c, limit)
              = Within(b, BesideCopy(arg, limit, Balloc(b, pos + n + 1, limit)),
                       Overlaid(b.data, pos, arg.text, c))
        BY ONLY <3>1, BsetstrIs
      <4> QED
        BY ONLY <4>1, WithinKeeps
    <3>3. Keeps(Binsert(b, pos, arg, c, limit), Inserted(b.data, pos, arg.text, c))
      BY ONLY <3>1, BinsertIs, WithinKeeps
    <3> QED
      BY <2>2, <3>2, <3>3
  <2> QED
    BY <2>3, <2>4
<1>7. ASSUME NEW pos \in Positions, NEW c \in Chars, NEW len \in Positions
      PROVE  /\ Keeps(Breplace(b, pos, len, arg, c, limit),
                      Replaced(b.data, pos, len, arg.text, c))
             /\ Keeps(Bdelete(b, pos, len), Without(b.data, pos, len))
             /\ Keeps(Binsertch(b, pos, len, c, limit),
                      IF pos <= Len(b.data) THEN Inserted(b.data, pos, Fill(len, c), c)
                      ELSE b.data \o Fill(pos + len - Len(b.data), c))
  <2>1. pos \in Int /\ len \in Int
    BY DEF Positions
  <2>2. Keeps(Bdelete(b, pos, len), Without(b.data, pos, len))
    <3>1. Bdelete(b, pos, len) = Outcome(b, FALSE) /\ b.data = Without(b.data, pos, len)
            => Keeps(Bdelete(b, pos, len), Without(b.data, pos, len))
      BY DEF Outcome, Keeps
    <3>2. \/ Bdelete(b, pos, len) = Failed(b)
          \/ /\ Bdelete(b, pos, len) = Outcome(b, FALSE)
             /\ b.data = Without(b.data, pos, len)
          \/ Bdelete(b, pos, len) = Done(b.mlen, Without(b.data, pos, len))
      BY ONLY <1>3, <2>1, l \in Nat, BdeleteIs
    <3> QED
      BY ONLY <3>1, <3>2, WithinKeeps
  <2>3. CASE pos < 0 \/ len < 0
    <3>1. Breplace(b, pos, len, arg, c, limit) = Failed(b)
      BY <2>3 DEF Breplace
    <3>2. Binsertch(b, pos, len, c, limit) = Failed(b)
      BY <2>3 DEF Binsertch
    <3> QED
      BY <2>2, <3>1, <3>2, WithinKeeps
  <2>4. CASE ~(pos < 0 \/ len < 0)
    <3>1. /\ pos \in Nat /\ len \in Nat /\ c \in Chars /\ n \in Nat
          /\ SeqLong(arg.text, Chars, n) /\ l \in Nat /\ SeqLong(b.data, Chars, l)
      BY <1>3, <2>1, <2>4
    <3>2. Keeps(Breplace(b, pos, len, arg, c, limit),
                Replaced(b.data, pos, len, arg.text, c))
      BY ONLY <3>1, BreplaceIs, WithinKeeps
    <3>3. Keeps(Binsertch(b, pos, len, c, limit),
                IF pos <= l THEN Inserted(b.data, pos, Fill(len, c), c)
                ELSE Joined(b.data, Fill(pos + len - l, c)))
      <4>1. Binsertch(b, pos, len, c, limit)
              = Within(b, Balloc(b, (IF pos <= l THEN l + len ELSE pos + len) + 1, limit),
                       IF pos <= l THEN Inserted(b.data, pos, Fill(len, c), c)
                       ELSE Joined(b.data, Fill(pos + len - l, c)))
        <5>1. pos \in Nat /\ len \in Nat /\ c \in Chars /\ l \in Nat /\ SeqLong(b.data, Chars, l)
          BY <3>1
        <5> QED
          BY ONLY <5>1, BinsertchIs
      <4> QED
        BY ONLY <4>1, WithinKeeps
    <3>4. Joined(b.data, Fill(pos + len - l, c)) = b.data \o Fill(pos + len - Len(b.data), c)
      BY DEF Joined
    <3> QED
      BY <2>2, <3>2, <3>3, <3>4
  <2> QED
    BY <2>3, <2>4
<1> QED
  BY <1>4, <1>5, <1>6, <1>7

\* Text that begins with v.
LEMMA BeginsWith ==
  ASSUME NEW S, NEW k \in Nat, NEW m \in Nat, k <= m, NEW v, SeqLong(v, S, k),
         NEW w, SeqLong(w, S, m), \A i \in 1 .. k : v[i] = w[i]
  PROVE  IsPrefix(v, w)
<1>1. v \in Seq(S) /\ w \in Seq(S) /\ Len(v) = k /\ Len(w) = m
  BY DEF SeqLong
<1> PICK p : p = SubSeq(w, 1, k)
  OBVIOUS
<1>2. SubSeq(v, 1, k) = v
  BY <1>1, SubSeqFull
<1>3. 0 + k <= m /\ 0 \in Nat /\ 0 + 1 = 1 /\ 0 + k = k /\ (IF 0 <= k THEN k ELSE 0) = k
      /\ k \in Int
  OBVIOUS
<1>4. IsPart(SubSeq(w, 0 + 1, 0 + k), S, w, 0, IF 0 <= k THEN k ELSE 0)
  BY <1>3, PartOf
<1>5. IsPart(p, S, w, 0, k)
  BY <1>3, <1>4
<1>6. SeqLong(p, S, k) /\ \A i \in 1 .. k : p[i] = w[0 + i]
  BY <1>5 DEF IsPart
<1>7. \A i \in 1 .. k : 0 + i = i
  OBVIOUS
<1>8. \A i \in 1 .. k : p[i] = v[i]
  BY <1>6, <1>7
<1>9. p = v
  BY <1>6, <1>8, SameText
<1> QED
  BY <1>1, <1>2, <1>9 DEF IsPrefix

\* A text that is copied in two parts.
LEMMA InTwoParts ==
  ASSUME NEW S, NEW s, NEW l \in Nat, SeqLong(s, S, l),
         NEW t, NEW m \in Nat, SeqLong(t, S, m), NEW k \in Nat, k <= m
  PROVE  /\ SeqLong(Before(t, k), S, k) /\ IsPrefix(Before(t, k), t)
         /\ SeqLong(From(t, k), S, m - k)
         /\ SeqLong(Joined(s, t), S, l + m)
         /\ SeqLong(Joined(s, Before(t, k)), S, l + k)
         /\ IsPrefix(Joined(s, Before(t, k)), Joined(s, t))
         /\ Joined(Joined(s, Before(t, k)), From(t, k)) = Joined(s, t)
<1> PICK h : h = Before(t, k)
  OBVIOUS
<1> PICK f : f = From(t, k)
  OBVIOUS
<1> PICK n \in Nat : n = m - k
  OBVIOUS
<1>1. k = (IF k <= m THEN k ELSE m) /\ n = (IF k <= m THEN m - k ELSE 0)
  OBVIOUS
<1>2. IsPart(h, S, t, 0, k) /\ IsPart(f, S, t, k, n)
  BY <1>1, BeforePlaces, FromPlaces
<1>3. SeqLong(h, S, k) /\ SeqLong(f, S, n)
  BY <1>2 DEF IsPart
<1>4. \A i \in 1 .. k : h[i] = t[i]
  <2>1. \A i \in 1 .. k : h[i] = t[0 + i] /\ 0 + i = i
    BY <1>2 DEF IsPart
  <2> QED
    BY <2>1
<1>5. \A i \in 1 .. n : f[i] = t[k + i]
  BY <1>2 DEF IsPart
<1>6. IsPrefix(h, t)
  BY <1>3, <1>4, BeginsWith
<1> PICK v : v = Joined(s, h)
  OBVIOUS
<1> PICK w : w = Joined(s, t)
  OBVIOUS
<1> PICK x : x = Joined(v, f)
  OBVIOUS
<1>7. IsConcat(v, S, s, l, h, k) /\ IsConcat(w, S, s, l, t, m)
  BY <1>3, ConcatIf DEF Joined
<1>8. SeqLong(v, S, l + k) /\ SeqLong(w, S, l + m) /\ l + k \in Nat /\ l + m \in Nat
  BY <1>7 DEF IsConcat
<1>9. IsConcat(x, S, v, l + k, f, n)
  BY <1>3, <1>8, ConcatIf DEF Joined
<1>10. ASSUME NEW i \in 1 .. l + k
       PROVE  v[i] = w[i]
  <2>1. i <= l + k /\ i <= l + m /\ i \in 1 .. l + m
    OBVIOUS
  <2>2. v[i] = IF i <= l THEN s[i] ELSE h[i - l]
    BY <1>7 DEF IsConcat
  <2>3. w[i] = IF i <= l THEN s[i] ELSE t[i - l]
    BY <1>7, <2>1 DEF IsConcat
  <2>4. ~(i <= l) => h[i - l] = t[i - l]
    BY <1>4
  <2> QED
    BY <2>2, <2>3, <2>4
<1>11. l + k <= l + m
  OBVIOUS
<1>12. IsPrefix(v, w)
  BY <1>8, <1>10, <1>11, BeginsWith
<1>13. SeqLong(x, S, l + m)
  <2>1. l + k + n = l + m
    OBVIOUS
  <2> QED
    BY <1>9, <2>1 DEF IsConcat
<1>14. ASSUME NEW i \in 1 .. l + m
       PROVE  x[i] = w[i]
  <2>1. i \in 1 .. l + k + n
    OBVIOUS
  <2>2. x[i] = IF i <= l + k THEN v[i] ELSE f[i - (l + k)]
    BY <1>9, <2>1 DEF IsConcat
  <2>3. CASE i <= l + k
    BY <1>10, <2>2, <2>3
  <2>4. CASE ~(i <= l + k)
    <3>1. i - (l + k) \in 1 .. n /\ k + (i - (l + k)) = i - l /\ ~(i <= l)
      BY <2>4
    <3>2. f[i - (l + k)] = t[i - l]
      BY <1>5, <3>1
    <3>3. w[i] = t[i - l]
      BY <1>7, <3>1 DEF IsConcat
    <3> QED
      BY <2>2, <2>4, <3>2, <3>3
  <2> QED
    BY <2>3, <2>4
<1>15. x = w
  BY <1>8, <1>13, <1>14, SameText
<1> QED
  BY <1>3, <1>6, <1>8, <1>12, <1>15

\* bcatcstr: all of the string fits, or the block is filled and what is left added.
LEMMA BcatcstrIs ==
  ASSUME NEW s, IsString(s), s.ended, NEW l \in Nat, SeqLong(s.data, Chars, l),
         NEW t, NEW m \in Nat, SeqLong(t, Chars, m), NEW limit \in Nat
  PROVE  LET edit == Bcatcstr(s, t, limit)
         IN  \/ edit = Done(s.mlen, Joined(s.data, t)) /\ l + m < s.mlen
             \/ \E v : /\ SeqLong(v, Chars, s.mlen) /\ IsPrefix(v, Joined(s.data, t))
                       /\ edit = Within(Full(s, v), Balloc(Full(s, v), l + m + 1, limit),
                                        Joined(s.data, t))
<1>1. Len(s.data) = l /\ Len(t) = m /\ s.mlen \in Nat /\ l <= s.mlen
  BY DEF SeqLong, IsString
<1> PICK k \in Nat : k = s.mlen - l
  BY <1>1
<1>2. CASE m < k
  BY <1>1, <1>2 DEF Bcatcstr, Joined
<1>3. CASE ~(m < k)
  <2> PICK n \in Nat : n = m - k
    BY <1>3
  <2> PICK v : v = Joined(s.data, Before(t, k))
    OBVIOUS
  <2> PICK f : f = From(t, k)
    OBVIOUS
  <2> PICK w : w = Joined(s.data, t)
    OBVIOUS
  <2>1. l + k = s.mlen /\ k <= m /\ m - k = n
    BY <1>1, <1>3
  <2>2. SeqLong(v, Chars, s.mlen) /\ IsPrefix(v, w) /\ SeqLong(f, Chars, n)
        /\ Joined(v, f) = w
    <3>1. k \in Nat /\ SeqLong(t, Chars, m) /\ SeqLong(s.data, Chars, l)
      OBVIOUS
    <3>2. /\ SeqLong(v, Chars, l + k) /\ IsPrefix(v, w) /\ SeqLong(f, Chars, m - k)
          /\ Joined(v, f) = w
      BY ONLY <2>1, <3>1, l \in Nat, m \in Nat, v = Joined(s.data, Before(t, k)),
              f = From(t, k), w = Joined(s.data, t), InTwoParts
    <3> QED
      BY <2>1, <3>2
  <2>3. Bcatcstr(s, t, limit) = Bcatblk(Full(s, v), f, limit)
    BY <1>1, <1>3 DEF Bcatcstr, Remaining, Joined
  <2>4. Full(s, v).data = v /\ Full(s, v).mlen = s.mlen /\ Len(v) = s.mlen /\ Len(f) = n
    BY <2>2 DEF Full, SeqLong
  <2>5. s.mlen + n = l + m /\ s.mlen <= s.mlen + n
    BY ONLY <2>1, l \in Nat, m \in Nat, k \in Nat, n \in Nat
  <2>6. Bcatblk(Full(s, v), f, limit)
          = Within(Full(s, v), Balloc(Full(s, v), l + m + 1, limit), Joined(v, f))
    BY <2>4, <2>5 DEF Bcatblk, Joined
  <2> QED
    BY <2>2, <2>3, <2>6
<1> QED
  BY <1>2, <1>3

LEMMA BassigncstrIs ==
  ASSUME NEW s, IsString(s), s.ended, NEW t, NEW m \in Nat, SeqLong(t, Chars, m),
         NEW limit \in Nat
  PROVE  LET edit == Bassigncstr(s, t, limit)
         IN  \/ edit = Done(s.mlen, t) /\ m < s.mlen
             \/ \E v : /\ SeqLong(v, Chars, s.mlen) /\ IsPrefix(v, t)
                       /\ s.mlen <= m
                       /\ edit = Within(Full(s, v), Balloc(s, m + 1, limit), t)
<1>1. Len(t) = m /\ s.mlen \in Nat
  BY DEF SeqLong, IsString
<1>2. CASE m < s.mlen
  BY <1>1, <1>2 DEF Bassigncstr
<1>3. CASE ~(m < s.mlen)
  <2> PICK v : v = Before(t, s.mlen)
    OBVIOUS
  <2>1. s.mlen <= m
    BY <1>1, <1>3
  <2>2. SeqLong(v, Chars, s.mlen) /\ IsPrefix(v, t)
    BY <1>1, <2>1, InTwoParts
  <2>3. Bassigncstr(s, t, limit) = Within(Full(s, v), Balloc(s, m + 1, limit), t)
    BY <1>1, <1>3 DEF Bassigncstr, AssignRoom
  <2> QED
    BY <2>1, <2>2, <2>3
<1> QED
  BY <1>2, <1>3

\* The string that is left when the block is full.
LEMMA FullPart ==
  ASSUME NEW s, NEW v, SeqLong(v, Chars, s.mlen), NEW room, NEW w,
         NEW o, o = Within(Full(s, v), room, w)
  PROVE  IF o.failed THEN ~o.b.ended /\ Len(o.b.data) = s.mlen /\ o.b.data = v
                     ELSE o.b.ended /\ o.b.data = w
BY DEF Within, Failed, Done, Outcome, Full, SeqLong

LEMMA CopiesKept ==
  ASSUME TypeOK
  PROVE  CopiesOrFills
<1> DEFINE meets(o, meant) ==
      IF ~o.failed THEN o.b.ended /\ o.b.data = meant
      ELSE /\ ~o.b.ended /\ Len(o.b.data) = b.mlen
           /\ IsPrefix(o.b.data, meant)
<1> SUFFICES ASSUME b.ended, NEW limit \in Limits, NEW t \in Texts
             PROVE  /\ meets(Bcatcstr(b, t, limit), b.data \o t)
                    /\ meets(Bassigncstr(b, t, limit), t)
  BY DEF CopiesOrFills
<1>1. IsString(b) /\ b.data \in Seq(Chars) /\ t \in Seq(Chars) /\ limit \in Nat
  BY BstringAssumption DEF TypeOK, IsString
<1> PICK l \in Nat : l = Len(b.data)
  BY <1>1
<1> PICK m \in Nat : m = Len(t)
  BY <1>1
<1>2. SeqLong(b.data, Chars, l) /\ SeqLong(t, Chars, m)
  BY <1>1 DEF SeqLong
<1>3. \A o, meant : o = Done(b.mlen, meant) => meets(o, meant)
  BY DEF Done, Outcome
<1>4. \A v, room, w, o : SeqLong(v, Chars, b.mlen) /\ IsPrefix(v, w)
                         /\ o = Within(Full(b, v), room, w) => meets(o, w)
  BY FullPart
<1> HIDE DEF meets
<1>5. meets(Bcatcstr(b, t, limit), Joined(b.data, t))
  BY <1>1, <1>2, <1>3, <1>4, BcatcstrIs
<1>6. meets(Bassigncstr(b, t, limit), t)
  BY <1>1, <1>2, <1>3, <1>4, BassigncstrIs
<1> QED
  BY <1>5, <1>6 DEF Joined

-----------------------------------------------------------------------------
(* Where bfindreplace finds the text, and what comes of it.  t, of length l,  *)
(* has the text s, of length d, at n places, and e is the length of r.        *)

\* How far the text behind the first k places is moved: off[k] is k * delta.
Drift(off, delta) ==
  \A k \in Nat : /\ off[k] \in Int /\ off[k + 1] = off[k] + delta
                 /\ (delta >= 0 => off[k] >= 0) /\ (delta <= 0 => off[k] <= 0)

LEMMA DriftExists ==
  ASSUME NEW delta \in Int
  PROVE  \E off : off[0] = 0 /\ Drift(off, delta) /\ \A k \in Nat : off[k] = k * delta
<1> DEFINE off == [k \in Nat |-> k * delta]
<1>1. \A k \in Nat : off[k] = k * delta
  OBVIOUS
<1>2. ASSUME NEW k \in Nat
      PROVE  /\ k * delta \in Int /\ (k + 1) * delta = k * delta + delta /\ k + 1 \in Nat
             /\ delta >= 0 => k * delta >= 0
             /\ delta <= 0 => k * delta <= 0
  OBVIOUS
<1>3. 0 * delta = 0
  OBVIOUS
<1> HIDE DEF off
<1>4. off[0] = 0 /\ Drift(off, delta)
  BY <1>1, <1>2, <1>3 DEF Drift
<1> QED
  BY <1>1, <1>4

LEMMA DriftStep ==
  ASSUME NEW delta \in Int, NEW off, Drift(off, delta), NEW k \in Nat
  PROVE  off[k] \in Int /\ off[k + 1] = off[k] + delta
BY DEF Drift

\* E are the places after p and the end of the text: they do not overlap, and with
\* what comes before them moved they stay between p and the end of the result.
Layout(E, n, p, l, d, off) ==
  /\ \A k \in 1 .. n + 1 : E[k] \in Nat /\ E[k] <= l
  /\ E[n + 1] = l /\ p <= E[1]
  /\ \A k \in 1 .. n : E[k] + d <= E[k + 1] /\ p <= E[k] + off[k - 1]
  /\ \A k \in 0 .. n : E[k + 1] + off[k] <= l + off[n]

\* v is what follows p in t with the places replaced.
Spread(v, S, p, t, l, E, n, off, r, e, d) ==
  /\ SeqLong(v, S, (l - p) + off[n])
  /\ \A x \in p + 1 .. E[1] : v[x - p] = t[x]
  /\ \A k \in 1 .. n : \A x \in E[k] + d + 1 .. E[k + 1] : v[(x - p) + off[k]] = t[x]
  /\ \A k \in 1 .. n : \A y \in 1 .. e : v[(E[k] - p) + off[k - 1] + y] = r[y]

LEMMA LayoutEnd ==
  ASSUME NEW p \in Nat, NEW l \in Nat, p <= l, NEW d \in Nat, NEW off, off[0] = 0,
         NEW E, E[1] = l
  PROVE  Layout(E, 0, p, l, d, off)
BY DEF Layout

LEMMA LayoutMore ==
  ASSUME NEW p \in Nat, NEW l \in Nat, NEW d \in Nat,
         NEW delta \in Int, 0 <= d + delta, NEW off, off[0] = 0, Drift(off, delta),
         NEW i \in Nat, p <= i, NEW q \in Nat, q = i + d, NEW n \in Nat,
         NEW F, Layout(F, n, q, l, d, off),
         NEW E, E[1] = i, \A k \in 1 .. n + 1 : E[k + 1] = F[k]
  PROVE  Layout(E, n + 1, p, l, d, off)
<1>1. off[n] \in Int /\ off[n + 1] = off[n] + delta
  BY DriftStep
<1>2. /\ \A k \in 1 .. n + 1 : F[k] \in Nat /\ F[k] <= l
      /\ F[n + 1] = l /\ q <= F[1]
      /\ \A k \in 1 .. n : F[k] + d <= F[k + 1] /\ q <= F[k] + off[k - 1]
      /\ \A k \in 0 .. n : F[k + 1] + off[k] <= l + off[n]
  BY DEF Layout
<1>3. 0 \in 0 .. n /\ 0 + 1 = 1 /\ 1 \in 1 .. n + 1 /\ n + 1 \in 1 .. n + 1
  OBVIOUS
<1>4. /\ F[1] \in Nat /\ q <= F[1] /\ F[1] + 0 <= l + off[n] /\ E[2] = F[1]
      /\ F[1] <= l
  BY <1>2, <1>3
<1>5. ASSUME NEW k \in 1 .. (n + 1) + 1
      PROVE  E[k] \in Nat /\ E[k] <= l
  <2>1. CASE k = 1
    BY <1>4, <2>1
  <2>2. CASE k # 1
    <3>1. k - 1 \in 1 .. n + 1 /\ (k - 1) + 1 = k
      BY <2>2
    <3> QED
      BY <1>2, <3>1
  <2> QED
    BY <2>1, <2>2
<1>6. E[(n + 1) + 1] = l /\ p <= E[1]
  BY <1>2, <1>3
<1>7. ASSUME NEW k \in 1 .. n + 1
      PROVE  E[k] + d <= E[k + 1] /\ p <= E[k] + off[k - 1]
  <2>1. CASE k = 1
    BY <1>4, <2>1
  <2>2. CASE k # 1
    <3> PICK j \in 1 .. n : j = k - 1
      BY <2>2
    <3>1. F[j] + d <= F[j + 1] /\ q <= F[j] + off[j - 1] /\ E[j + 1] = F[j]
      BY <1>2
    <3>2. E[(j + 1) + 1] = F[j + 1] /\ j + 1 = k /\ F[j] \in Nat
      BY <1>2
    <3>3. off[(j - 1) + 1] = off[j - 1] + delta /\ off[j - 1] \in Int /\ (j - 1) + 1 = j
      <4> PICK i0 \in Nat : i0 = j - 1
        OBVIOUS
      <4>1. i0 + 1 = j
        OBVIOUS
      <4>2. off[i0] \in Int /\ off[i0 + 1] = off[i0] + delta
        BY DriftStep
      <4> QED
        BY <4>1, <4>2
    <3> PICK a \in Int : a = off[j - 1]
      BY <3>3
    <3>4. p <= F[j] + off[j]
      BY <3>1, <3>2, <3>3
    <3> QED
      BY <3>1, <3>2, <3>4
  <2> QED
    BY <2>1, <2>2
<1>8. ASSUME NEW k \in 0 .. n + 1
      PROVE  E[k + 1] + off[k] <= l + off[n + 1]
  <2>1. CASE k = 0
    BY <1>1, <1>4, <2>1
  <2>2. CASE k # 0
    <3> PICK j \in 0 .. n : j = k - 1
      BY <2>2
    <3>1. F[j + 1] + off[j] <= l + off[n] /\ j + 1 \in 1 .. n + 1
      BY <1>2
    <3>2. E[(j + 1) + 1] = F[j + 1] /\ j + 1 = k /\ F[j + 1] \in Nat
      BY <1>2, <3>1
    <3>3. off[j + 1] = off[j] + delta /\ off[j] \in Int
      BY DriftStep
    <3> QED
      BY <1>1, <3>1, <3>2, <3>3
  <2> QED
    BY <2>1, <2>2
<1> QED
  BY <1>5, <1>6, <1>7, <1>8 DEF Layout

LEMMA SpreadEnd ==
  ASSUME NEW S, NEW p \in Nat, NEW l \in Nat, p <= l, NEW t, NEW m \in Nat, m = l - p,
         NEW v, IsPart(v, S, t, p, m), NEW off, off[0] = 0, NEW E, E[1] = l,
         NEW r, NEW e \in Nat, NEW d \in Nat
  PROVE  Spread(v, S, p, t, l, E, 0, off, r, e, d)
<1>1. SeqLong(v, S, m) /\ \A i \in 1 .. m : v[i] = t[p + i]
  BY DEF IsPart
<1>2. (l - p) + off[0] = m
  OBVIOUS
<1>3. ASSUME NEW x \in p + 1 .. E[1]
      PROVE  v[x - p] = t[x]
  <2>1. x - p \in 1 .. m /\ p + (x - p) = x
    OBVIOUS
  <2> QED
    BY <1>1, <2>1
<1> QED
  BY <1>1, <1>2, <1>3 DEF Spread

LEMMA SpreadMore ==
  ASSUME NEW S, NEW p \in Nat, NEW l \in Nat, NEW d \in Nat, NEW e \in Nat,
         NEW off, off[0] = 0, Drift(off, e - d), NEW t, NEW r,
         NEW i \in Nat, p <= i, NEW q \in Nat, q = i + d, NEW n \in Nat,
         NEW F, Layout(F, n, q, l, d, off),
         NEW u, Spread(u, S, q, t, l, F, n, off, r, e, d),
         NEW E, E[1] = i, \A k \in 1 .. n + 1 : E[k + 1] = F[k],
         NEW g \in Nat, g = i - p, NEW h, IsPart(h, S, t, p, g),
         NEW m \in Nat, m = (l - q) + off[n],
         NEW v, IsThree(v, S, h, g, r, e, u, m)
  PROVE  Spread(v, S, p, t, l, E, n + 1, off, r, e, d)
<1>0. e - d \in Int
  OBVIOUS
<1>1. off[n] \in Int /\ off[n + 1] = off[n] + (e - d)
  BY <1>0, DriftStep
<1>2. (l - p) + off[n + 1] = g + e + m
  BY <1>1
<1>3. SeqLong(v, S, (l - p) + off[n + 1])
  BY <1>2 DEF IsThree
<1>4. \A z \in 1 .. g + e + m :
        v[z] = IF z <= g THEN h[z] ELSE IF z <= g + e THEN r[z - g] ELSE u[z - (g + e)]
  BY DEF IsThree
<1>5. ASSUME NEW x \in p + 1 .. E[1]
      PROVE  v[x - p] = t[x]
  <2>1. x - p \in 1 .. g + e + m /\ x - p <= g /\ x - p \in 1 .. g /\ p + (x - p) = x
    OBVIOUS
  <2> QED
    BY <1>4, <2>1 DEF IsPart
<1>6. ASSUME NEW k \in 0 .. n, NEW z \in Int,
             k # 0 => 0 <= z, z <= l - q + off[n], k = 0 => 0 <= z
      PROVE  0 < z => v[g + e + z] = u[z]
  <2> SUFFICES ASSUME 0 < z
               PROVE  v[g + e + z] = u[z]
    OBVIOUS
  <2>1. g + e + z \in 1 .. g + e + m /\ ~(g + e + z <= g) /\ ~(g + e + z <= g + e)
        /\ (g + e + z) - (g + e) = z
    BY <1>6
  <2> QED
    BY <1>4, <2>1
<1>7. ASSUME NEW k \in 1 .. n + 1, NEW x \in E[k] + d + 1 .. E[k + 1]
      PROVE  v[(x - p) + off[k]] = t[x]
  <2> PICK j \in 0 .. n : j = k - 1
    OBVIOUS
  <2>1. off[j + 1] = off[j] + (e - d) /\ off[j] \in Int /\ j + 1 = k
    BY <1>0, DriftStep
  <2>2. F[j + 1] + off[j] <= l + off[n] /\ E[k + 1] = F[j + 1] /\ F[j + 1] \in Nat
    BY DEF Layout
  <2> PICK z \in Int : z = (x - q) + off[j]
    BY <2>1
  <2>3. (x - p) + off[k] = g + e + z
    BY <2>1
  <2>4. z <= l - q + off[n]
    BY <1>1, <2>1, <2>2
  <2>5. 0 < z /\ u[z] = t[x]
    <3>1. CASE j = 0
      <4>1. k = 1 /\ x \in q + 1 .. F[1] /\ z = x - q
        BY <2>2, <3>1
      <4>2. u[x - q] = t[x]
        BY <4>1 DEF Spread
      <4> QED
        BY <4>1, <4>2
    <3>2. CASE j # 0
      <4>1. j \in 1 .. n
        BY <3>2
      <4>2. E[k] = F[j] /\ F[j] \in Nat /\ q <= F[j] + off[j - 1]
        BY <2>1, <4>1 DEF Layout
      <4>3. off[(j - 1) + 1] = off[j - 1] + (e - d) /\ off[j - 1] \in Int /\ (j - 1) + 1 = j
        <5> PICK i0 \in Nat : i0 = j - 1
          BY <4>1
        <5>1. i0 + 1 = j
          OBVIOUS
        <5>2. off[i0] \in Int /\ off[i0 + 1] = off[i0] + (e - d)
          BY <1>0, DriftStep
        <5> QED
          BY <5>1, <5>2
      <4>4. 0 < z
        BY <2>1, <4>2, <4>3
      <4>5. x \in F[j] + d + 1 .. F[j + 1]
        BY <2>2, <4>2
      <4>6. u[(x - q) + off[j]] = t[x]
        BY <4>1, <4>5 DEF Spread
      <4> QED
        BY <4>4, <4>6
    <3> QED
      BY <3>1, <3>2
  <2> QED
    BY <1>6, <2>3, <2>4, <2>5
<1>8. ASSUME NEW k \in 1 .. n + 1, NEW y \in 1 .. e
      PROVE  v[(E[k] - p) + off[k - 1] + y] = r[y]
  <2>1. CASE k = 1
    <3>1. (E[k] - p) + off[k - 1] + y = g + y
      BY <2>1
    <3>2. g + y \in 1 .. g + e + m /\ ~(g + y <= g) /\ g + y <= g + e /\ (g + y) - g = y
      OBVIOUS
    <3> QED
      BY <1>4, <3>1, <3>2
  <2>2. CASE k # 1
    <3> PICK j \in 1 .. n : j = k - 1
      BY <2>2
    <3>1. E[k] = F[j] /\ F[j] \in Nat /\ q <= F[j] + off[j - 1] /\ F[j] + d <= F[j + 1]
          /\ F[j + 1] \in Nat
      BY DEF Layout
    <3>2. off[(j - 1) + 1] = off[j - 1] + (e - d) /\ off[j - 1] \in Int /\ (j - 1) + 1 = j
      <4> PICK i0 \in Nat : i0 = j - 1
        OBVIOUS
      <4>1. i0 + 1 = j
        OBVIOUS
      <4>2. off[i0] \in Int /\ off[i0 + 1] = off[i0] + (e - d)
        BY <1>0, DriftStep
      <4> QED
        BY <4>1, <4>2
    <3>3. F[j + 1] + off[j] <= l + off[n]
      BY DEF Layout
    <3> PICK z \in Int : z = (F[j] - q) + off[j - 1] + y
      BY <3>1, <3>2
    <3>4. (E[k] - p) + off[k - 1] + y = g + e + z /\ 0 < z
      BY <3>1, <3>2
    <3>5. z <= l - q + off[n]
      BY <1>1, <3>1, <3>2, <3>3
    <3>6. u[(F[j] - q) + off[j - 1] + y] = r[y]
      BY DEF Spread
    <3> QED
      BY <1>6, <3>4, <3>5, <3>6
  <2> QED
    BY <2>1, <2>2
<1> QED
  BY <1>3, <1>5, <1>7, <1>8 DEF Spread

\* The first place where s is in t from p on, and what follows it.
First(t, s, p) == Min(FoundAt(t, s, p))
Behind(t, s, p) == First(t, s, p) + Len(s)

LEMMA FirstFound ==
  ASSUME NEW S, NEW t, NEW l \in Nat, SeqLong(t, S, l), NEW s, NEW d \in Nat, SeqLong(s, S, d),
         NEW p \in Nat, FoundAt(t, s, p) # {}
  PROVE  /\ First(t, s, p) \in Nat /\ p <= First(t, s, p) /\ Behind(t, s, p) <= l
         /\ Behind(t, s, p) = First(t, s, p) + d
<1>1. Len(t) = l /\ Len(s) = d
  BY DEF SeqLong
<1>2. FoundAt(t, s, p) \subseteq p .. l - d
  BY <1>1 DEF FoundAt
<1>3. FoundAt(t, s, p) \in SUBSET Nat
  BY <1>2
<1>4. First(t, s, p) \in FoundAt(t, s, p)
  BY <1>3, SmallestOf DEF First, Min
<1> PICK i : i = First(t, s, p)
  OBVIOUS
<1>5. i \in p .. l - d
  BY <1>2, <1>4
<1> QED
  BY <1>1, <1>5 DEF Behind

One(i) == <<i>>

\* The functions of Places and AllReplaced, from m on.
PlacesFrom(f, t, s, m) ==
  f = [p \in m .. Len(t) |->
         IF FoundAt(t, s, p) = {} THEN <<>>
         ELSE Joined(One(First(t, s, p)), f[Behind(t, s, p)])]

RestFrom(f, t, s, r, m) ==
  f = [p \in m .. Len(t) |->
         IF FoundAt(t, s, p) = {} THEN From(t, p)
         ELSE Joined(Joined(SubSeq(t, p + 1, First(t, s, p)), r), f[Behind(t, s, p)])]

LEMMA PlacesExist ==
  ASSUME NEW S, NEW t, NEW l \in Nat, SeqLong(t, S, l), NEW s, NEW d \in Nat, 0 < d,
         SeqLong(s, S, d)
  PROVE  \E f : PlacesFrom(f, t, s, 0)
<1> DEFINE A == {k \in Nat : k <= l + 1 => \E f : PlacesFrom(f, t, s, (l + 1) - k)}
           joined(p, v) == Joined(One(First(t, s, p)), v)
           none == <<>>
<1>1. Len(t) = l
  BY DEF SeqLong
<1>2. 0 \in A
  <2> DEFINE f == [p \in (l + 1) - 0 .. l |-> <<>>]
  <2>1. f = [p \in (l + 1) - 0 .. l |-> IF FoundAt(t, s, p) = {} THEN <<>>
                      ELSE joined(p, f[Behind(t, s, p)])]
    OBVIOUS
  <2> HIDE DEF f
  <2>2. PlacesFrom(f, t, s, (l + 1) - 0)
    BY <1>1, <2>1 DEF PlacesFrom
  <2> QED
    BY <2>2
<1>3. ASSUME NEW k \in Nat, k \in A
      PROVE  k + 1 \in A
  <2> SUFFICES ASSUME k + 1 <= l + 1
               PROVE  \E g : PlacesFrom(g, t, s, (l + 1) - (k + 1))
    OBVIOUS
  <2> PICK m \in Nat : m = (l + 1) - (k + 1)
    OBVIOUS
  <2>1. (l + 1) - k = m + 1 /\ k <= l + 1
    OBVIOUS
  <2>2. PICK f : PlacesFrom(f, t, s, m + 1)
    BY <1>3, <2>1
  <2> HIDE DEF joined, none
  <2> DEFINE g == [p \in m .. l |-> IF FoundAt(t, s, p) = {} THEN none
                                    ELSE joined(p, f[Behind(t, s, p)])]
  <2>3. \A p \in m + 1 .. l : g[p] = f[p]
    <3>1. f = [p \in m + 1 .. l |-> IF FoundAt(t, s, p) = {} THEN none
                                    ELSE joined(p, f[Behind(t, s, p)])]
      <4>1. f = [p \in m + 1 .. Len(t) |-> IF FoundAt(t, s, p) = {} THEN none
                                           ELSE joined(p, f[Behind(t, s, p)])]
        BY <2>2, Zenon DEF PlacesFrom, joined, none
      <4> QED
        BY <1>1, <4>1
    <3> QED
      BY <3>1
  <2>4. ASSUME NEW p \in m .. l, FoundAt(t, s, p) # {}
        PROVE  Behind(t, s, p) \in m + 1 .. l
    <3>1. p \in Nat
      OBVIOUS
    <3>2. /\ First(t, s, p) \in Nat /\ p <= First(t, s, p) /\ Behind(t, s, p) <= l
          /\ Behind(t, s, p) = First(t, s, p) + d
      BY <2>4, <3>1, FirstFound
    <3> QED
      BY <3>1, <3>2
  <2>5. \A p \in m .. l : g[p] = IF FoundAt(t, s, p) = {} THEN none
                                 ELSE joined(p, g[Behind(t, s, p)])
    BY <2>3, <2>4
  <2>6. g = [p \in m .. l |-> g[p]]
    OBVIOUS
  <2> HIDE DEF g
  <2>7. PlacesFrom(g, t, s, m)
    BY <1>1, <2>5, <2>6 DEF PlacesFrom, joined, none
  <2> QED
    BY <2>7
<1> HIDE DEF A
<1>4. \A k \in Nat : k \in A
  BY <1>2, <1>3, EveryNumber
<1>5. l + 1 \in A /\ (l + 1) - (l + 1) = 0 /\ l + 1 <= l + 1
  BY <1>4
<1> QED
  BY <1>5 DEF A

LEMMA RestExists ==
  ASSUME NEW S, NEW t, NEW l \in Nat, SeqLong(t, S, l), NEW s, NEW d \in Nat, 0 < d,
         SeqLong(s, S, d), NEW r
  PROVE  \E f : RestFrom(f, t, s, r, 0)
<1> DEFINE A == {k \in Nat : k <= l + 1 => \E f : RestFrom(f, t, s, r, (l + 1) - k)}
           joined(p, v) == Joined(Joined(SubSeq(t, p + 1, First(t, s, p)), r), v)
<1>1. Len(t) = l
  BY DEF SeqLong
<1>2. 0 \in A
  <2> DEFINE f == [p \in (l + 1) - 0 .. l |-> <<>>]
  <2>1. f = [p \in (l + 1) - 0 .. l |-> IF FoundAt(t, s, p) = {} THEN From(t, p)
                                        ELSE joined(p, f[Behind(t, s, p)])]
    OBVIOUS
  <2> HIDE DEF f
  <2>2. RestFrom(f, t, s, r, (l + 1) - 0)
    BY <1>1, <2>1 DEF RestFrom
  <2> QED
    BY <2>2
<1>3. ASSUME NEW k \in Nat, k \in A
      PROVE  k + 1 \in A
  <2> SUFFICES ASSUME k + 1 <= l + 1
               PROVE  \E g : RestFrom(g, t, s, r, (l + 1) - (k + 1))
    OBVIOUS
  <2> PICK m \in Nat : m = (l + 1) - (k + 1)
    OBVIOUS
  <2>1. (l + 1) - k = m + 1 /\ k <= l + 1
    OBVIOUS
  <2>2. PICK f : RestFrom(f, t, s, r, m + 1)
    BY <1>3, <2>1
  <2> HIDE DEF joined
  <2> DEFINE g == [p \in m .. l |-> IF FoundAt(t, s, p) = {} THEN From(t, p)
                                    ELSE joined(p, f[Behind(t, s, p)])]
  <2>3. ASSUME NEW p \in m + 1 .. l
        PROVE  g[p] = f[p]
    <3>1. f = [q \in m + 1 .. l |-> IF FoundAt(t, s, q) = {} THEN From(t, q)
                                     ELSE joined(q, f[Behind(t, s, q)])]
      BY <1>1, <2>2 DEF RestFrom, joined
    <3>2. p \in m .. l
      OBVIOUS
    <3> QED
      BY <3>1, <3>2
  <2>4. ASSUME NEW p \in m .. l, FoundAt(t, s, p) # {}
        PROVE  Behind(t, s, p) \in m + 1 .. l
    <3>1. p \in Nat
      OBVIOUS
    <3>2. /\ First(t, s, p) \in Nat /\ p <= First(t, s, p) /\ Behind(t, s, p) <= l
          /\ Behind(t, s, p) = First(t, s, p) + d
      BY <2>4, <3>1, FirstFound
    <3> QED
      BY <3>1, <3>2
  <2>5. \A p \in m .. l : g[p] = IF FoundAt(t, s, p) = {} THEN From(t, p)
                                 ELSE joined(p, g[Behind(t, s, p)])
    BY <2>3, <2>4
  <2>6. g = [p \in m .. l |-> g[p]]
    OBVIOUS
  <2> HIDE DEF g
  <2>7. RestFrom(g, t, s, r, m)
    BY <1>1, <2>5, <2>6 DEF RestFrom, joined
  <2> QED
    BY <2>7
<1> HIDE DEF A
<1>4. \A k \in Nat : k \in A
  BY <1>2, <1>3, EveryNumber
<1>5. l + 1 \in A /\ (l + 1) - (l + 1) = 0 /\ l + 1 <= l + 1
  BY <1>4
<1> QED
  BY <1>5 DEF A

\* Places and AllReplaced are values of these functions.
LEMMA PlacesIs ==
  ASSUME NEW S, NEW t, NEW l \in Nat, SeqLong(t, S, l), NEW s, NEW d \in Nat, 0 < d,
         SeqLong(s, S, d), NEW pos
  PROVE  \E f : PlacesFrom(f, t, s, 0) /\ Places(t, s, pos) = f[pos]
<1> DEFINE f == CHOOSE f : f = [p \in 0 .. Len(t) |->
                  IF FoundAt(t, s, p) = {} THEN <<>>
                  ELSE <<Min(FoundAt(t, s, p))>> \o f[Min(FoundAt(t, s, p)) + Len(s)]]
<1>1. \E g : PlacesFrom(g, t, s, 0)
  BY PlacesExist
<1>2. PlacesFrom(f, t, s, 0)
  BY <1>1, Zenon DEF PlacesFrom, Joined, First, Behind, One
<1>3. Places(t, s, pos) = f[pos]
  BY SMT DEF Places
<1> QED
  BY <1>2, <1>3

LEMMA RestIs ==
  ASSUME NEW S, NEW t, NEW l \in Nat, SeqLong(t, S, l), NEW s, NEW d \in Nat, 0 < d,
         SeqLong(s, S, d), NEW r, NEW pos \in Nat, pos <= l
  PROVE  \E f : RestFrom(f, t, s, r, 0)
                /\ AllReplaced(t, s, r, pos) = Joined(Before(t, pos), f[pos])
<1> DEFINE f == CHOOSE f : f = [p \in 0 .. Len(t) |->
                  IF FoundAt(t, s, p) = {} THEN From(t, p)
                  ELSE SubSeq(t, p + 1, Min(FoundAt(t, s, p))) \o r
                         \o f[Min(FoundAt(t, s, p)) + Len(s)]]
<1>1. \E g : RestFrom(g, t, s, r, 0)
  BY RestExists
<1>2. RestFrom(f, t, s, r, 0)
  BY <1>1, Zenon DEF RestFrom, Joined, First, Behind
<1>3. ~(pos > Len(t))
  BY DEF SeqLong
<1>4. AllReplaced(t, s, r, pos) = Joined(Before(t, pos), f[pos])
  BY <1>3, Zenon DEF AllReplaced, Joined
<1> QED
  BY <1>2, <1>4

\* The places and the end of the text after them.
Ended(q, l) == Append(q, l)

LEMMA EndAppended ==
  ASSUME NEW q, NEW n \in Nat, SeqLong(q, Nat, n), NEW l
  PROVE  Ended(q, l)[n + 1] = l /\ \A k \in 1 .. n : Ended(q, l)[k] = q[k]
<1>1. q \in Seq(Nat) /\ Len(q) = n
  BY DEF SeqLong
<1> QED
  BY <1>1, AppendAny DEF Ended

\* w is x behind one place more.
OneMore(w, x, i, n) == w[1] = i /\ \A k \in 1 .. n + 1 : w[k + 1] = x[k]

LEMMA PlaceBefore ==
  ASSUME NEW q, NEW n \in Nat, NEW i \in Nat, NEW l \in Nat, SeqLong(q, Nat, n)
  PROVE  /\ SeqLong(Joined(One(i), q), Nat, n + 1)
         /\ OneMore(Ended(Joined(One(i), q), l), Ended(q, l), i, n)
<1> PICK v : v = Joined(One(i), q)
  OBVIOUS
<1> PICK w : w = Ended(v, l)
  OBVIOUS
<1> PICK x : x = Ended(q, l)
  OBVIOUS
<1> PICK o : o = One(i)
  OBVIOUS
<1>1. SeqLong(o, Nat, 1) /\ o[1] = i
  BY DEF SeqLong, One
<1>2. IsConcat(v, Nat, o, 1, q, n)
  BY <1>1, ConcatIf DEF Joined
<1>3. 1 + n = n + 1 /\ n + 1 \in Nat /\ 1 \in 1 .. n + 1
  OBVIOUS
<1>4. SeqLong(v, Nat, n + 1)
      /\ \A k \in 1 .. n + 1 : v[k] = IF k <= 1 THEN o[k] ELSE q[k - 1]
  BY <1>2, <1>3 DEF IsConcat
<1>5. w[(n + 1) + 1] = l /\ \A k \in 1 .. n + 1 : w[k] = v[k]
  BY <1>3, <1>4, EndAppended
<1>6. x[n + 1] = l /\ \A k \in 1 .. n : x[k] = q[k]
  BY EndAppended
<1>7. w[1] = i
  BY <1>1, <1>3, <1>4, <1>5
<1>8. ASSUME NEW k \in 1 .. n + 1
      PROVE  w[k + 1] = x[k]
  <2>1. CASE k = n + 1
    BY <1>5, <1>6, <2>1
  <2>2. CASE k # n + 1
    <3>1. k \in 1 .. n /\ k + 1 \in 1 .. n + 1 /\ ~(k + 1 <= 1) /\ (k + 1) - 1 = k
      BY <2>2
    <3> QED
      BY <1>4, <1>5, <1>6, <3>1
  <2> QED
    BY <2>1, <2>2
<1> QED
  BY <1>4, <1>7, <1>8 DEF OneMore

\* From p on: the places P, and the text w with them replaced.
Follows(P, w, S, p, t, l, off, r, e, d) ==
  \E n \in Nat : /\ SeqLong(P, Nat, n)
                 /\ Layout(Ended(P, l), n, p, l, d, off)
                 /\ Spread(w, S, p, t, l, Ended(P, l), n, off, r, e, d)

LEMMA FollowsEnd ==
  ASSUME NEW S, NEW t, NEW l \in Nat, SeqLong(t, S, l), NEW p \in Nat, p <= l,
         NEW off, off[0] = 0, NEW r, NEW e \in Nat, NEW d \in Nat
  PROVE  Follows(<<>>, From(t, p), S, p, t, l, off, r, e, d)
<1> PICK q : q = <<>>
  OBVIOUS
<1>1. SeqLong(q, Nat, 0) /\ 0 \in Nat /\ 0 + 1 = 1
  BY DEF SeqLong
<1> PICK E : E = Ended(q, l)
  OBVIOUS
<1>2. E[1] = l
  BY <1>1, EndAppended
<1> PICK m \in Nat : m = l - p
  OBVIOUS
<1>3. m = IF p <= l THEN l - p ELSE 0
  OBVIOUS
<1>4. IsPart(From(t, p), S, t, p, m)
  BY <1>3, FromPlaces
<1>5. Layout(E, 0, p, l, d, off)
  BY <1>2, LayoutEnd
<1>6. Spread(From(t, p), S, p, t, l, E, 0, off, r, e, d)
  BY <1>2, <1>4, SpreadEnd
<1> QED
  BY <1>1, <1>5, <1>6 DEF Follows

LEMMA FollowsMore ==
  ASSUME NEW S, NEW t, NEW l \in Nat, SeqLong(t, S, l), NEW p \in Nat,
         NEW d \in Nat, NEW r, NEW e \in Nat, SeqLong(r, S, e),
         NEW off, off[0] = 0, Drift(off, e - d),
         NEW i \in Nat, p <= i, NEW q \in Nat, q = i + d, q <= l,
         NEW P, NEW u, Follows(P, u, S, q, t, l, off, r, e, d)
  PROVE  Follows(Joined(One(i), P), Joined(Joined(SubSeq(t, p + 1, i), r), u),
                 S, p, t, l, off, r, e, d)
<1>1. PICK n \in Nat : /\ SeqLong(P, Nat, n)
                       /\ Layout(Ended(P, l), n, q, l, d, off)
                       /\ Spread(u, S, q, t, l, Ended(P, l), n, off, r, e, d)
  BY DEF Follows
<1> PICK v : v = Joined(One(i), P)
  OBVIOUS
<1> PICK E : E = Ended(v, l)
  OBVIOUS
<1> PICK F : F = Ended(P, l)
  OBVIOUS
<1>2. SeqLong(v, Nat, n + 1) /\ E[1] = i /\ \A k \in 1 .. n + 1 : E[k + 1] = F[k]
  <2>1. SeqLong(P, Nat, n)
    BY <1>1
  <2> QED
    <3>1. SeqLong(v, Nat, n + 1) /\ OneMore(E, F, i, n)
      BY <2>1, PlaceBefore
    <3> QED
      BY <3>1 DEF OneMore
<1>12. Layout(F, n, q, l, d, off) /\ Spread(u, S, q, t, l, F, n, off, r, e, d)
  BY <1>1
<1>13. /\ p \in Nat /\ l \in Nat /\ d \in Nat /\ e \in Nat /\ i \in Nat /\ q \in Nat
       /\ n \in Nat /\ p <= i /\ q = i + d /\ off[0] = 0 /\ Drift(off, e - d)
  OBVIOUS
<1>3. Layout(E, n + 1, p, l, d, off)
  <2> PICK delta \in Int : delta = e - d
    OBVIOUS
  <2>1. 0 <= d + delta /\ Drift(off, delta)
    OBVIOUS
  <2> QED
    BY ONLY <1>2, <1>12, <1>13, <2>1, delta \in Int, LayoutMore,
       ZenonT(40)
<1> PICK g \in Nat : g = i - p
  OBVIOUS
<1> PICK h : h = SubSeq(t, p + 1, i)
  OBVIOUS
<1>4. p + g = i /\ p + g <= l /\ g \in Int /\ (IF 0 <= g THEN g ELSE 0) = g
  OBVIOUS
<1>5. IsPart(SubSeq(t, p + 1, p + g), S, t, p, IF 0 <= g THEN g ELSE 0)
  BY <1>4, PartOf
<1>6. IsPart(h, S, t, p, g)
  BY <1>4, <1>5
<1>7. SeqLong(u, S, (l - q) + off[n]) /\ (l - q) + off[n] \in Nat
  <2>1. SeqLong(u, S, (l - q) + off[n])
    BY <1>1 DEF Spread
  <2> QED
    BY <2>1 DEF SeqLong
<1> PICK m \in Nat : m = (l - q) + off[n]
  BY <1>7
<1> PICK w : w = Joined(Joined(h, r), u)
  OBVIOUS
<1>8. SeqLong(h, S, g) /\ SeqLong(u, S, m)
  BY <1>6, <1>7 DEF IsPart
<1>9. IsThree(w, S, h, g, r, e, u, m)
  BY <1>8, ThreePlaces DEF Joined
<1>10. Spread(w, S, p, t, l, E, n + 1, off, r, e, d)
  <2>1. g = i - p /\ g \in Nat /\ m = (l - q) + off[n] /\ m \in Nat
    OBVIOUS
  <2> QED
    BY ONLY <1>2, <1>6, <1>9, <1>12, <1>13, <2>1, SpreadMore, ZenonT(40)
<1>11. n + 1 \in Nat
  OBVIOUS
<1> QED
  BY <1>2, <1>3, <1>10, <1>11 DEF Follows

\* So it is from every position on.
LEMMA FollowsAll ==
  ASSUME NEW S, NEW t, NEW l \in Nat, SeqLong(t, S, l), NEW s, NEW d \in Nat, 0 < d,
         SeqLong(s, S, d), NEW r, NEW e \in Nat, SeqLong(r, S, e),
         NEW off, off[0] = 0, Drift(off, e - d),
         NEW P, PlacesFrom(P, t, s, 0), NEW R, RestFrom(R, t, s, r, 0)
  PROVE  \A p \in 0 .. l : Follows(P[p], R[p], S, p, t, l, off, r, e, d)
<1> DEFINE good(p) == Follows(P[p], R[p], S, p, t, l, off, r, e, d)
           A == {k \in Nat : \A p \in 0 .. l : p > l - k => good(p)}
<1>1. Len(t) = l
  BY DEF SeqLong
<1> HIDE DEF good
<1>2. 0 \in A
  OBVIOUS
<1>3. ASSUME NEW k \in Nat, k \in A
      PROVE  k + 1 \in A
  <2> SUFFICES ASSUME NEW p \in 0 .. l, p > l - (k + 1)
               PROVE  good(p)
    OBVIOUS
  <2>1. p \in Nat /\ p <= l /\ p \in 0 .. Len(t)
    BY <1>1
  <2>2. CASE FoundAt(t, s, p) = {}
    <3>1. P[p] = <<>>
      BY <2>1, <2>2 DEF PlacesFrom
    <3>2. R[p] = From(t, p)
      BY <2>1, <2>2 DEF RestFrom
    <3>3. Follows(<<>>, From(t, p), S, p, t, l, off, r, e, d)
      BY <2>1, FollowsEnd
    <3> QED
      BY <3>1, <3>2, <3>3 DEF good
  <2>3. CASE FoundAt(t, s, p) # {}
    <3> PICK i : i = First(t, s, p)
      OBVIOUS
    <3> PICK q : q = Behind(t, s, p)
      OBVIOUS
    <3>1. i \in Nat /\ p <= i /\ q <= l /\ q = i + d /\ q \in Nat
      <4>1. /\ First(t, s, p) \in Nat /\ p <= First(t, s, p) /\ Behind(t, s, p) <= l
            /\ Behind(t, s, p) = First(t, s, p) + d
        <5>1. p \in Nat /\ FoundAt(t, s, p) # {}
          BY <2>1, <2>3
        <5> QED
          BY ONLY <5>1, l \in Nat, SeqLong(t, S, l), d \in Nat, SeqLong(s, S, d),
             FirstFound, SMTT(30)
      <4> QED
        BY ONLY <4>1, i = First(t, s, p), q = Behind(t, s, p), d \in Nat
    <3>2. P[p] = Joined(One(i), P[q])
      BY <2>1, <2>3, Zenon DEF PlacesFrom
    <3>3. R[p] = Joined(Joined(SubSeq(t, p + 1, i), r), R[q])
      BY <2>1, <2>3, Zenon DEF RestFrom
    <3>4. q \in 0 .. l /\ q > l - k
      BY <3>1
    <3>5. Follows(P[q], R[q], S, q, t, l, off, r, e, d)
      BY <1>3, <3>4 DEF good
    <3>6. Follows(Joined(One(i), P[q]), Joined(Joined(SubSeq(t, p + 1, i), r), R[q]),
                  S, p, t, l, off, r, e, d)
      BY <2>1, <3>1, <3>5, FollowsMore
    <3> QED
      BY <3>2, <3>3, <3>6 DEF good
  <2> QED
    BY <2>2, <2>3
<1> HIDE DEF A
<1>4. \A k \in Nat : k \in A
  BY <1>2, <1>3, EveryNumber
<1>5. l + 1 \in A
  BY <1>4
<1>6. \A p \in 0 .. l : p > l - (l + 1)
  OBVIOUS
<1>7. \A p \in 0 .. l : good(p)
  BY <1>5, <1>6 DEF A
<1> QED
  BY <1>7 DEF good

\* With what comes before pos, this is the text that is meant.
LEMMA SpreadWhole ==
  ASSUME NEW S, NEW p \in Nat, NEW l \in Nat, p <= l, NEW d \in Nat, NEW e \in Nat,
         NEW delta \in Int, delta = e - d, NEW off, off[0] = 0, Drift(off, delta),
         NEW t, NEW r, NEW n \in Nat, NEW E, Layout(E, n, p, l, d, off),
         NEW u, Spread(u, S, p, t, l, E, n, off, r, e, d),
         NEW h, IsPart(h, S, t, 0, p), NEW m \in Nat, m = (l - p) + off[n],
         NEW w, IsConcat(w, S, h, p, u, m)
  PROVE  Spread(w, S, 0, t, l, E, n, off, r, e, d)
<1>1. off[n] \in Int /\ (l - 0) + off[n] = p + m
  BY DriftStep
<1>2. SeqLong(w, S, (l - 0) + off[n])
  BY <1>1 DEF IsConcat
<1>3. ASSUME NEW z \in Int, 0 < z, z <= m
      PROVE  w[p + z] = u[z]
  <2>1. p + z \in 1 .. p + m /\ ~(p + z <= p) /\ (p + z) - p = z
    BY <1>3
  <2> QED
    BY <2>1 DEF IsConcat
<1>4. ASSUME NEW k \in 1 .. n
      PROVE  /\ E[k] \in Nat /\ E[k + 1] \in Nat /\ off[k] \in Int /\ off[k - 1] \in Int
             /\ off[k] = off[k - 1] + delta /\ p <= E[k] + off[k - 1] /\ E[k] + d <= E[k + 1]
             /\ E[k + 1] + off[k] <= l + off[n]
  <2> PICK j \in Nat : j = k - 1
    OBVIOUS
  <2>1. off[j] \in Int /\ off[j + 1] = off[j] + delta /\ j + 1 = k
    BY DriftStep
  <2>2. k \in 1 .. n + 1 /\ k + 1 \in 1 .. n + 1 /\ k \in 0 .. n
    OBVIOUS
  <2> QED
    BY <2>1, <2>2 DEF Layout
<1>5. ASSUME NEW x \in 0 + 1 .. E[1]
      PROVE  w[x - 0] = t[x]
  <2>1. E[1] \in Nat /\ E[0 + 1] + off[0] <= l + off[n] /\ 0 + 1 = 1
    BY DEF Layout
  <2>2. CASE x <= p
    <3>1. x \in 1 .. p /\ x \in 1 .. p + m /\ x - 0 = x /\ 0 + x = x
      BY <2>1, <2>2
    <3>2. w[x] = h[x]
      BY <2>2, <3>1 DEF IsConcat
    <3>3. h[x] = t[x]
      BY <3>1 DEF IsPart
    <3> QED
      BY <3>1, <3>2, <3>3
  <2>3. CASE ~(x <= p)
    <3>1. x \in p + 1 .. E[1] /\ 0 < x - p /\ x - p <= m /\ p + (x - p) = x - 0
      BY <1>1, <2>1, <2>3
    <3>2. u[x - p] = t[x]
      BY <3>1 DEF Spread
    <3> QED
      BY <1>3, <3>1, <3>2
  <2> QED
    BY <2>2, <2>3
<1>6. ASSUME NEW k \in 1 .. n, NEW x \in E[k] + d + 1 .. E[k + 1]
      PROVE  w[(x - 0) + off[k]] = t[x]
  <2> PICK z \in Int : z = (x - p) + off[k]
    BY <1>4
  <2>1. 0 < z /\ z <= m /\ (x - 0) + off[k] = p + z
    BY <1>1, <1>4
  <2>2. u[(x - p) + off[k]] = t[x]
    BY DEF Spread
  <2> QED
    BY <1>3, <2>1, <2>2
<1>7. ASSUME NEW k \in 1 .. n, NEW y \in 1 .. e
      PROVE  w[(E[k] - 0) + off[k - 1] + y] = r[y]
  <2> PICK z \in Int : z = (E[k] - p) + off[k - 1] + y
    BY <1>4
  <2>1. 0 < z /\ z <= m /\ (E[k] - 0) + off[k - 1] + y = p + z
    BY <1>1, <1>4
  <2>2. u[(E[k] - p) + off[k - 1] + y] = r[y]
    BY DEF Spread
  <2> QED
    BY <1>3, <2>1, <2>2
<1> QED
  BY <1>2, <1>5, <1>6, <1>7 DEF Spread

-----------------------------------------------------------------------------
(* findreplaceengine, place by place.  Around one place a: what follows it    *)
(* ends at z, f is how far what precedes it is moved, and g what follows it.  *)

\* To the right, what is done already begins behind z + g.
Growing(l, T, a, z, d, e, f, g, k, c, h, j, o, t, w, r, m) ==
  /\ l \in Nat /\ T \in Nat /\ a \in Nat /\ z \in Nat /\ d \in Nat /\ e \in Nat
  /\ f \in Nat /\ g \in Nat /\ k \in Nat /\ c \in Nat
  /\ h = a + d /\ j = a + d + g /\ o = a + f
  /\ g = (f + e) - d /\ a + d <= z /\ z <= l /\ z + g <= T /\ z <= k
  /\ k = T \/ (k <= T /\ z + g = T)
  /\ c = z - (a + d)
  /\ \A i \in 1 .. z : m[i] = t[i]
  /\ \A i \in z + g + 1 .. T : m[i] = w[i]
  /\ \A i \in a + d + 1 .. z : w[i + g] = t[i]
  /\ \A i \in 1 .. e : w[a + f + i] = r[i]

LEMMA GrownJoined ==
  ASSUME NEW l, NEW T, NEW a, NEW z, NEW d, NEW e, NEW f, NEW g, NEW k, NEW c,
         NEW h, NEW j, NEW o, NEW M,
         NEW t, NEW w, NEW r, NEW m, NEW q, NEW v, NEW x,
         Growing(l, T, a, z, d, e, f, g, k, c, h, j, o, t, w, r, m),
         IsPart(q, M, m, h, c),
         IsOverlaid(v, M, m, k, j, q, c, Junk),
         IsOverlaid(x, M, v, T, o, r, e, Junk)
  PROVE  /\ SeqLong(v, M, T) /\ SeqLong(x, M, T)
         /\ \A i \in 1 .. a : x[i] = t[i]
         /\ \A i \in a + f + 1 .. T : x[i] = w[i]
<1> /\ l \in Nat /\ T \in Nat /\ a \in Nat /\ z \in Nat /\ d \in Nat /\ e \in Nat
    /\ f \in Nat /\ g \in Nat /\ k \in Nat /\ c \in Nat
    /\ h = a + d /\ j = a + d + g /\ o = a + f
  BY DEF Growing
<1>0. /\ g = (f + e) - d /\ a + d <= z /\ z <= l /\ z + g <= T /\ z <= k
      /\ k = T \/ (k <= T /\ z + g = T)
      /\ c = z - (a + d)
      /\ \A i \in 1 .. z : m[i] = t[i]
      /\ \A i \in z + g + 1 .. T : m[i] = w[i]
      /\ \A i \in a + d + 1 .. z : w[i + g] = t[i]
      /\ \A i \in 1 .. e : w[a + f + i] = r[i]
  BY DEF Growing
<1>1. (IF k <= (a + d + g) + c THEN (a + d + g) + c ELSE k) = T
      /\ (IF T <= (a + f) + e THEN (a + f) + e ELSE T) = T /\ (a + f) + e = a + d + g
  <2>1. (a + f) + e = a + d + g /\ (a + d + g) + c = z + g /\ z + g <= T
    BY <1>0
  <2>2. (IF k <= z + g THEN z + g ELSE k) = T
    <3>1. (k = T \/ (k <= T /\ z + g = T)) /\ z + g <= T
      BY <1>0
    <3> QED
      BY <3>1
  <2> QED
    BY <2>1, <2>2
<1>2. SeqLong(v, M, T) /\ SeqLong(x, M, T)
  BY <1>1 DEF IsOverlaid
<1>3. \A i \in 1 .. T : v[i] = IF a + d + g < i /\ i <= (a + d + g) + c
                                 THEN q[i - (a + d + g)] ELSE IF i <= k THEN m[i] ELSE Junk
  BY <1>1 DEF IsOverlaid
<1>4. \A i \in 1 .. T : x[i] = IF a + f < i /\ i <= (a + f) + e
                                 THEN r[i - (a + f)] ELSE IF i <= T THEN v[i] ELSE Junk
  BY <1>1 DEF IsOverlaid
<1>5. ASSUME NEW i \in 1 .. a
      PROVE  x[i] = t[i]
  <2>1. i \in 1 .. T /\ i \in 1 .. z /\ i <= k /\ ~(a + f < i) /\ ~(a + d + g < i)
    BY <1>0
  <2> QED
    BY <1>0, <1>3, <1>4, <2>1
<1>6. ASSUME NEW i \in a + f + 1 .. T
      PROVE  x[i] = w[i]
  <2>1. i \in 1 .. T /\ a + f < i /\ i <= T
    BY <1>0
  <2>2. CASE i <= (a + f) + e
    <3>1. i - (a + f) \in 1 .. e /\ a + f + (i - (a + f)) = i
      BY <1>0, <2>1, <2>2
    <3> QED
      BY <1>0, <1>4, <2>1, <2>2, <3>1
  <2>3. CASE ~(i <= (a + f) + e) /\ i <= z + g
    <3>1. a + d + g < i /\ i <= (a + d + g) + c
      BY <1>0, <1>1, <2>1, <2>3
    <3>2. i - (a + d + g) \in 1 .. c /\ (a + d) + (i - (a + d + g)) = i - g
      BY <1>0, <3>1
    <3>3. i - g \in a + d + 1 .. z /\ (i - g) + g = i /\ i - g \in 1 .. z
      BY <1>0, <3>1
    <3>4. q[i - (a + d + g)] = m[i - g]
      BY <1>0, <3>2 DEF IsPart
    <3> QED
      BY <1>0, <1>3, <1>4, <2>1, <2>3, <3>1, <3>3, <3>4
  <2>4. CASE ~(i <= (a + f) + e) /\ ~(i <= z + g)
    <3>1. i \in z + g + 1 .. T /\ ~(i <= (a + d + g) + c) /\ i <= k
      BY <1>0, <2>1, <2>4
    <3> QED
      BY <1>0, <1>3, <1>4, <2>1, <2>4, <3>1
  <2> QED
    BY <1>0, <2>2, <2>3, <2>4
<1> QED
  BY <1>2, <1>5, <1>6

\* To the left, or in place: z is the end of the place before, and what is done
\* already ends at z + f.
Shrinking(l, a, z, d, e, f, c, h, o, t, w, r, m) ==
  /\ l \in Nat /\ a \in Nat /\ z \in Nat /\ d \in Nat /\ e \in Nat
  /\ f \in Int /\ c \in Nat /\ h = z + f /\ o = a + f
  /\ f <= 0 /\ e <= d /\ 0 <= z + f /\ z <= a /\ a + d <= l /\ c = a - z
  /\ \A i \in 1 .. z + f : m[i] = w[i]
  /\ \A i \in z + 1 .. l : m[i] = t[i]
  /\ \A i \in z + 1 .. a : w[i + f] = t[i]
  /\ \A i \in 1 .. e : w[a + f + i] = r[i]

LEMMA ShrunkJoined ==
  ASSUME NEW l, NEW a, NEW z, NEW d, NEW e, NEW f, NEW c, NEW h, NEW o,
         NEW M, NEW t, NEW w, NEW r, NEW m, NEW q, NEW v, NEW x,
         Shrinking(l, a, z, d, e, f, c, h, o, t, w, r, m), SeqLong(m, M, l),
         IsPart(q, M, m, z, c),
         IsOverlaid(v, M, m, l, h, q, c, Junk),
         IsOverlaid(x, M, v, l, o, r, e, Junk)
  PROVE  /\ SeqLong(v, M, l) /\ SeqLong(x, M, l)
         /\ \A i \in 1 .. (a + f) + e : x[i] = w[i]
         /\ \A i \in a + d + 1 .. l : x[i] = t[i]
<1> /\ l \in Nat /\ a \in Nat /\ z \in Nat /\ d \in Nat /\ e \in Nat
    /\ f \in Int /\ c \in Nat /\ h = z + f /\ o = a + f
  BY DEF Shrinking
<1>0. /\ f <= 0 /\ e <= d /\ 0 <= z + f /\ z <= a /\ a + d <= l /\ c = a - z
      /\ \A i \in 1 .. z + f : m[i] = w[i]
      /\ \A i \in z + 1 .. l : m[i] = t[i]
      /\ \A i \in z + 1 .. a : w[i + f] = t[i]
      /\ \A i \in 1 .. e : w[a + f + i] = r[i]
  BY DEF Shrinking
<1>1. (IF l <= (z + f) + c THEN (z + f) + c ELSE l) = l
      /\ (IF l <= (a + f) + e THEN (a + f) + e ELSE l) = l /\ (z + f) + c = a + f
  <2>1. (z + f) + c = a + f
    BY <1>0
  <2>2. a + f <= l /\ (a + f) + e <= l
    BY <1>0
  <2> QED
    BY <2>1, <2>2
<1>2. SeqLong(v, M, l) /\ SeqLong(x, M, l)
  BY <1>1 DEF IsOverlaid
<1>3. \A i \in 1 .. l : v[i] = IF z + f < i /\ i <= (z + f) + c
                                 THEN q[i - (z + f)] ELSE IF i <= l THEN m[i] ELSE Junk
  BY <1>1 DEF IsOverlaid
<1>4. \A i \in 1 .. l : x[i] = IF a + f < i /\ i <= (a + f) + e
                                 THEN r[i - (a + f)] ELSE IF i <= l THEN v[i] ELSE Junk
  BY <1>1 DEF IsOverlaid
<1>5. ASSUME NEW i \in a + d + 1 .. l
      PROVE  x[i] = t[i]
  <2>1. /\ i \in 1 .. l /\ i \in z + 1 .. l /\ i <= l
        /\ ~(i <= (a + f) + e) /\ ~(i <= (z + f) + c)
    BY <1>0
  <2> QED
    BY <1>0, <1>3, <1>4, <2>1
<1>6. ASSUME NEW i \in 1 .. (a + f) + e
      PROVE  x[i] = w[i]
  <2>1. i \in 1 .. l /\ i <= l /\ i <= (a + f) + e
    BY <1>0
  <2>2. CASE a + f < i
    <3>1. i - (a + f) \in 1 .. e /\ a + f + (i - (a + f)) = i
      BY <1>0, <2>1, <2>2
    <3> QED
      BY <1>0, <1>4, <2>1, <2>2, <3>1
  <2>3. CASE ~(a + f < i) /\ z + f < i
    <3>1. i - (z + f) \in 1 .. c /\ z + (i - (z + f)) = i - f /\ i <= (z + f) + c
      BY <1>0, <2>3
    <3>2. i - f \in z + 1 .. a /\ (i - f) + f = i /\ i - f \in z + 1 .. l
      BY <1>0, <2>3
    <3>3. q[i - (z + f)] = m[i - f]
      BY <1>0, <3>1 DEF IsPart
    <3> QED
      BY <1>0, <1>3, <1>4, <2>1, <2>3, <3>1, <3>2, <3>3
  <2>4. CASE ~(a + f < i) /\ ~(z + f < i)
    <3>1. i \in 1 .. z + f
      BY <1>0, <2>4
    <3> QED
      BY <1>0, <1>3, <1>4, <2>1, <2>4, <3>1
  <2> QED
    BY <1>0, <2>2, <2>3, <2>4
<1> QED
  BY <1>2, <1>5, <1>6

\* The end of the text, moved to the left.
ShrinkingEnd(l, T, z, f, c, h, t, w, m) ==
  /\ l \in Nat /\ T \in Nat /\ z \in Nat /\ f \in Int /\ c \in Nat /\ h = z + f
  /\ f <= 0 /\ 0 <= z + f /\ z <= l /\ c = l - z /\ T = l + f
  /\ \A i \in 1 .. z + f : m[i] = w[i]
  /\ \A i \in z + 1 .. l : m[i] = t[i]
  /\ \A i \in z + 1 .. l : w[i + f] = t[i]

LEMMA ShrunkEndJoined ==
  ASSUME NEW l, NEW T, NEW z, NEW f, NEW c, NEW h,
         NEW M, NEW t, NEW w, NEW m, NEW q, NEW v, NEW x,
         ShrinkingEnd(l, T, z, f, c, h, t, w, m), SeqLong(m, M, l), SeqLong(w, M, T),
         IsPart(q, M, m, z, c),
         IsOverlaid(v, M, m, l, h, q, c, Junk),
         IsPart(x, M, v, 0, T)
  PROVE  x = w
<1> l \in Nat /\ T \in Nat /\ z \in Nat /\ f \in Int /\ c \in Nat /\ h = z + f
  BY DEF ShrinkingEnd
<1>0. /\ f <= 0 /\ 0 <= z + f /\ z <= l /\ c = l - z /\ T = l + f
      /\ \A i \in 1 .. z + f : m[i] = w[i]
      /\ \A i \in z + 1 .. l : m[i] = t[i]
      /\ \A i \in z + 1 .. l : w[i + f] = t[i]
  BY DEF ShrinkingEnd
<1>1. (IF l <= (z + f) + c THEN (z + f) + c ELSE l) = l /\ (z + f) + c = T
  BY <1>0
<1>2. \A i \in 1 .. l : v[i] = IF z + f < i /\ i <= (z + f) + c
                                 THEN q[i - (z + f)] ELSE IF i <= l THEN m[i] ELSE Junk
  BY <1>1 DEF IsOverlaid
<1>3. ASSUME NEW i \in 1 .. T
      PROVE  x[i] = w[i]
  <2>1. i \in 1 .. l /\ i <= l /\ 0 + i = i /\ i <= (z + f) + c
    BY <1>0
  <2>2. x[i] = v[i]
    BY <1>0, <2>1 DEF IsPart
  <2>3. CASE z + f < i
    <3>1. i - (z + f) \in 1 .. c /\ z + (i - (z + f)) = i - f
      BY <1>0, <2>1, <2>3
    <3>2. i - f \in z + 1 .. l /\ (i - f) + f = i
      BY <1>0, <2>3
    <3>3. q[i - (z + f)] = m[i - f]
      BY <1>0, <3>1 DEF IsPart
    <3> QED
      BY <1>0, <1>2, <2>1, <2>2, <2>3, <3>2, <3>3
  <2>4. CASE ~(z + f < i)
    <3>1. i \in 1 .. z + f
      BY <1>0, <2>4
    <3> QED
      BY <1>0, <1>2, <2>1, <2>2, <2>4, <3>1
  <2> QED
    BY <1>0, <2>3, <2>4
<1>4. SeqLong(x, M, T)
  BY DEF IsPart
<1> QED
  BY <1>3, <1>4, SameText

\* The numbers and the characters around the k-th place.
PlaceAt(w, t, E, off, r, l, T, d, e, k) ==
  /\ E[k] \in Nat /\ E[k + 1] \in Nat /\ off[k] \in Int /\ off[k - 1] \in Int
  /\ off[k] = (off[k - 1] + e) - d /\ 0 <= E[k] + off[k - 1]
  /\ E[k] + d <= E[k + 1] /\ E[k + 1] <= l /\ E[k + 1] + off[k] <= T
  /\ \A i \in E[k] + d + 1 .. E[k + 1] : w[i + off[k]] = t[i]
  /\ \A i \in 1 .. e : w[E[k] + off[k - 1] + i] = r[i]

LEMMA ResultAt ==
  ASSUME NEW S, NEW l \in Nat, NEW d \in Nat, NEW e \in Nat, NEW n \in Nat,
         NEW T, NEW delta \in Int, delta = e - d,
         NEW off, NEW t, NEW r, NEW E, NEW w, NEW k \in 1 .. n,
         Drift(off, delta), T = l + off[n], Layout(E, n, 0, l, d, off),
         Spread(w, S, 0, t, l, E, n, off, r, e, d)
  PROVE  PlaceAt(w, t, E, off, r, l, T, d, e, k)
<1> PICK j \in Nat : j = k - 1
  OBVIOUS
<1>1. off[j] \in Int /\ off[j + 1] = off[j] + delta /\ j + 1 = k
  BY DriftStep
<1>2. k \in 1 .. n + 1 /\ k + 1 \in 1 .. n + 1 /\ k \in 0 .. n
  OBVIOUS
<1>3. /\ E[k] \in Nat /\ E[k + 1] \in Nat /\ off[k] \in Int /\ off[k - 1] \in Int
      /\ off[k] = (off[k - 1] + e) - d /\ 0 <= E[k] + off[k - 1]
      /\ E[k] + d <= E[k + 1] /\ E[k + 1] <= l /\ E[k + 1] + off[k] <= T
  BY <1>1, <1>2 DEF Layout
<1>4. ASSUME NEW i \in E[k] + d + 1 .. E[k + 1]
      PROVE  w[i + off[k]] = t[i]
  <2>1. w[(i - 0) + off[k]] = t[i]
    BY DEF Spread
  <2>2. i - 0 = i
    BY <1>3
  <2> QED
    BY <2>1, <2>2
<1>5. ASSUME NEW i \in 1 .. e
      PROVE  w[E[k] + off[k - 1] + i] = r[i]
  <2>1. w[(E[k] - 0) + off[k - 1] + i] = r[i]
    BY DEF Spread
  <2>2. E[k] - 0 = E[k]
    BY <1>3
  <2> QED
    BY <2>1, <2>2
<1> QED
  BY <1>3, <1>4, <1>5 DEF PlaceAt

\* The block when the places from k on are done.
GrownTo(m, t, w, E, off, l, T, n, k) ==
  /\ SeqLong(m, Memory, IF k = n + 1 THEN l ELSE T)
  /\ \A i \in 1 .. E[k] : m[i] = t[i]
  /\ \A i \in E[k] + off[k - 1] + 1 .. T : m[i] = w[i]

Moves(off, k, delta) == off[k] = k * delta

Piece(m, a, z) == SubSeq(m, a + 1, z)

LEMMA WidenedKeeps ==
  ASSUME NEW l \in Nat, NEW T \in Nat, NEW d \in Nat, NEW e \in Nat, NEW n \in Nat,
         NEW off, NEW t, NEW r, NEW s, NEW E, NEW w, NEW m, NEW k \in 1 .. n,
         d <= e, l <= T, E[n + 1] = l, T = l + off[n],
         SeqLong(s, Chars, d), SeqLong(r, Chars, e),
         0 <= off[k - 1], Moves(off, k, e - d),
         PlaceAt(w, t, E, off, r, l, T, d, e, k),
         GrownTo(m, t, w, E, off, l, T, n, k + 1)
  PROVE  GrownTo(Widened(m, E, s, r, k), t, w, E, off, l, T, n, k)
<1>1. /\ E[k] \in Nat /\ E[k + 1] \in Nat /\ off[k] \in Int /\ off[k - 1] \in Int
      /\ off[k] = (off[k - 1] + e) - d /\ 0 <= E[k] + off[k - 1]
      /\ E[k] + d <= E[k + 1] /\ E[k + 1] <= l /\ E[k + 1] + off[k] <= T
  BY DEF PlaceAt
<1> PICK a \in Nat : a = E[k]
  BY <1>1
<1> PICK z \in Nat : z = E[k + 1]
  BY <1>1
<1> PICK f \in Nat : f = off[k - 1]
  BY <1>1
<1> PICK g \in Nat : g = off[k]
  BY <1>1
<1> PICK c \in Nat : c = z - (a + d)
  BY <1>1
<1> PICK y \in Nat : y = IF k + 1 = n + 1 THEN l ELSE T
  OBVIOUS
<1>2. /\ g = (f + e) - d /\ a + d <= z /\ z <= l /\ z + g <= T /\ z <= y
      /\ (y = T \/ (y <= T /\ z + g = T)) /\ y <= T
  <2>1. g = (f + e) - d /\ a + d <= z /\ z <= l /\ z + g <= T
    BY <1>1
  <2>2. CASE k = n
    BY <2>1, <2>2
  <2>3. CASE k # n
    BY <2>1, <2>3
  <2> QED
    BY <2>2, <2>3
<1>3. (k + 1) - 1 = k
  OBVIOUS
<1>4. /\ SeqLong(m, Memory, y)
      /\ \A i \in 1 .. z : m[i] = t[i]
      /\ \A i \in z + g + 1 .. T : m[i] = w[i]
  BY <1>3 DEF GrownTo
<1>5. /\ \A i \in a + d + 1 .. z : w[i + g] = t[i]
      /\ \A i \in 1 .. e : w[a + f + i] = r[i]
  BY DEF PlaceAt
<1>6. Junk \in Memory /\ SeqLong(r, Memory, e) /\ Len(r) = e /\ Len(s) = d
  BY InMemory DEF SeqLong
<1> PICK q : q = Piece(m, a + d, z)
  OBVIOUS
<1>7. IsPart(q, Memory, m, a + d, c)
  <2>1. a + d \in Nat /\ c \in Int /\ (a + d) + c = z /\ (a + d) + c <= y
        /\ (IF 0 <= c THEN c ELSE 0) = c
    BY <1>2
  <2>2. IsPart(SubSeq(m, (a + d) + 1, (a + d) + c), Memory, m, a + d, IF 0 <= c THEN c ELSE 0)
    BY <1>4, <2>1, PartOf
  <2> QED
    BY <2>1, <2>2 DEF Piece
<1>8. SeqLong(q, Memory, c)
  BY <1>7 DEF IsPart
<1> PICK v : v = Put(m, a + d + g, q)
  OBVIOUS
<1> PICK x : x = Put(v, a + f, r)
  OBVIOUS
<1>9. a + d + g \in Nat /\ a + f \in Nat
  OBVIOUS
<1>10. IsOverlaid(v, Memory, m, y, a + d + g, q, c, Junk)
  BY <1>4, <1>6, <1>8, <1>9, PutPlaces
<1>11. SeqLong(v, Memory, T)
  <2>1. (IF y <= (a + d + g) + c THEN (a + d + g) + c ELSE y) = T
    <3>1. (a + d + g) + c = z + g
      BY <1>2
    <3>2. z + g <= T /\ (y = T \/ (y <= T /\ z + g = T)) /\ y \in Nat /\ z + g \in Nat
      BY <1>2
    <3>3. (IF y <= z + g THEN z + g ELSE y) = T
      BY ONLY <3>2, T \in Nat
    <3> QED
      BY ONLY <3>1, <3>3
  <2> QED
    BY <1>10, <2>1 DEF IsOverlaid
<1>12. IsOverlaid(x, Memory, v, T, a + f, r, e, Junk)
  BY <1>6, <1>9, <1>11, PutPlaces
<1>13. /\ SeqLong(x, Memory, T)
       /\ \A i \in 1 .. a : x[i] = t[i]
       /\ \A i \in a + f + 1 .. T : x[i] = w[i]
  <2>1. c = z - (a + d)
    OBVIOUS
  <2>2. Growing(l, T, a, z, d, e, f, g, y, c, a + d, a + d + g, a + f, t, w, r, m)
    BY <1>2, <1>4, <1>5, <2>1 DEF Growing
  <2> QED
    BY ONLY <1>7, <1>10, <1>12, <2>2, GrownJoined
<1>14. Widened(m, E, s, r, k) = x
  <2>1. k * (e - d) = g
    BY DEF Moves
  <2>2. (a + d) + g = a + d + g /\ ((a + d) + g) - e = a + f
    BY <1>2
  <2> QED
    BY <1>6, <2>1, <2>2 DEF Widened, Piece
<1>15. (IF k = n + 1 THEN l ELSE T) = T
  OBVIOUS
<1> QED
  BY <1>13, <1>14, <1>15 DEF GrownTo

\* The function of Grown, of the first m of its steps.
Widenings(f, t, E, s, r, n, m) ==
  f = [k \in 0 .. m |-> IF k = 0 THEN t ELSE Widened(f[k - 1], E, s, r, n + 1 - k)]

LEMMA WideningsExist ==
  ASSUME NEW t, NEW E, NEW s, NEW r, NEW n
  PROVE  \A m \in Nat : \E f : Widenings(f, t, E, s, r, n, m)
<1> DEFINE A == {m \in Nat : \E f : Widenings(f, t, E, s, r, n, m)}
<1>1. 0 \in A
  <2> DEFINE f == [k \in 0 .. 0 |-> t]
  <2>1. f = [k \in 0 .. 0 |-> IF k = 0 THEN t ELSE Widened(f[k - 1], E, s, r, n + 1 - k)]
    OBVIOUS
  <2> HIDE DEF f
  <2>2. Widenings(f, t, E, s, r, n, 0)
    BY <2>1 DEF Widenings
  <2> QED
    BY <2>2
<1>2. ASSUME NEW m \in Nat, m \in A
      PROVE  m + 1 \in A
  <2>1. PICK g : Widenings(g, t, E, s, r, n, m)
    BY <1>2
  <2> DEFINE f == [k \in 0 .. m + 1 |->
                     IF k = 0 THEN t ELSE Widened(g[k - 1], E, s, r, n + 1 - k)]
  <2>2. ASSUME NEW i \in 0 .. m
        PROVE  f[i] = g[i]
    <3>1. g[i] = IF i = 0 THEN t ELSE Widened(g[i - 1], E, s, r, n + 1 - i)
      BY <2>1 DEF Widenings
    <3> QED
      BY <3>1
  <2>3. \A k \in 0 .. m + 1 : k # 0 => k - 1 \in 0 .. m
    OBVIOUS
  <2>4. \A k \in 0 .. m + 1 :
          f[k] = IF k = 0 THEN t ELSE Widened(f[k - 1], E, s, r, n + 1 - k)
    BY <2>2, <2>3
  <2>5. f = [k \in 0 .. m + 1 |-> f[k]]
    OBVIOUS
  <2> HIDE DEF f
  <2>6. Widenings(f, t, E, s, r, n, m + 1)
    BY <2>4, <2>5 DEF Widenings
  <2> QED
    BY <2>6
<1> HIDE DEF A
<1>3. \A m \in Nat : m \in A
  BY <1>1, <1>2, EveryNumber
<1> QED
  BY <1>3 DEF A

LEMMA GrownIs ==
  ASSUME NEW t, NEW P, NEW n \in Nat, SeqLong(P, Nat, n), NEW s, NEW r
  PROVE  \E f : Widenings(f, t, Ended(P, Len(t)), s, r, n, n) /\ Grown(t, P, s, r) = f[n]
<1>1. Len(P) = n
  BY DEF SeqLong
<1> DEFINE f == CHOOSE f : f = [k \in 0 .. n |->
                  IF k = 0 THEN t
                  ELSE Widened(f[k - 1], Append(P, Len(t)), s, r, n + 1 - k)]
<1>2. \E g : Widenings(g, t, Ended(P, Len(t)), s, r, n, n)
  BY WideningsExist
<1>3. Widenings(f, t, Ended(P, Len(t)), s, r, n, n)
  BY <1>2, Zenon DEF Widenings, Ended
<1>4. Grown(t, P, s, r) = f[n]
  BY <1>1, Zenon DEF Grown
<1> QED
  BY <1>3, <1>4

\* What the places, the drift and the result must be.
Result(w, t, s, r, E, off, l, T, d, e, n) ==
  /\ l \in Nat /\ T \in Nat /\ d \in Nat /\ e \in Nat /\ n \in Nat
  /\ SeqLong(t, Chars, l) /\ SeqLong(s, Chars, d) /\ SeqLong(r, Chars, e)
  /\ off[0] = 0 /\ Drift(off, e - d) /\ (\A k \in Nat : Moves(off, k, e - d))
  /\ T = l + off[n] /\ Layout(E, n, 0, l, d, off)
  /\ Spread(w, Chars, 0, t, l, E, n, off, r, e, d)

LEMMA GrowsToResult ==
  ASSUME NEW l, NEW T, NEW d, NEW e, NEW n, NEW off, NEW t, NEW s, NEW r, NEW E, NEW w,
         Result(w, t, s, r, E, off, l, T, d, e, n), d <= e,
         NEW f, Widenings(f, t, E, s, r, n, n)
  PROVE  f[n] = w
<1> /\ l \in Nat /\ T \in Nat /\ d \in Nat /\ e \in Nat /\ n \in Nat
  BY DEF Result
<1>1. /\ SeqLong(t, Chars, l) /\ SeqLong(s, Chars, d) /\ SeqLong(r, Chars, e)
      /\ off[0] = 0 /\ Drift(off, e - d) /\ T = l + off[n] /\ Layout(E, n, 0, l, d, off)
      /\ Spread(w, Chars, 0, t, l, E, n, off, r, e, d)
  BY DEF Result
<1>2. \A k \in Nat : Moves(off, k, e - d)
  BY DEF Result
<1>3. \A k \in Nat : off[k] \in Int /\ 0 <= off[k]
  BY <1>1 DEF Drift
<1>4. l <= T /\ E[n + 1] = l
  BY <1>1, <1>3 DEF Layout
<1> DEFINE A == {k \in Nat : k <= n => GrownTo(f[k], t, w, E, off, l, T, n, n + 1 - k)}
<1>5. 0 \in A
  <2>1. 0 \in 0 .. n /\ n + 1 - 0 = n + 1 /\ (n + 1) - 1 = n
    OBVIOUS
  <2>2. f[0] = t
    BY <2>1 DEF Widenings
  <2>3. SeqLong(t, Memory, l)
    BY <1>1, InMemory
  <2>4. \A i \in E[n + 1] + off[n] + 1 .. T : t[i] = w[i]
    BY <1>1, <1>3, <1>4
  <2>5. GrownTo(t, t, w, E, off, l, T, n, n + 1)
    BY <2>1, <2>3, <2>4 DEF GrownTo
  <2> QED
    BY <2>1, <2>2, <2>5
<1>6. ASSUME NEW k \in Nat, k \in A
      PROVE  k + 1 \in A
  <2> SUFFICES ASSUME k + 1 <= n
               PROVE  GrownTo(f[k + 1], t, w, E, off, l, T, n, n + 1 - (k + 1))
    OBVIOUS
  <2> PICK j \in 1 .. n : j = n - k
    OBVIOUS
  <2>1. /\ n + 1 - k = j + 1 /\ n + 1 - (k + 1) = j /\ k + 1 \in 0 .. n /\ k <= n
        /\ k + 1 # 0 /\ (k + 1) - 1 = k /\ j \in Nat /\ j - 1 \in Nat
    OBVIOUS
  <2>2. f[k + 1] = Widened(f[k], E, s, r, j)
    BY <2>1 DEF Widenings
  <2>3. GrownTo(f[k], t, w, E, off, l, T, n, j + 1)
    BY <1>6, <2>1
  <2>4. PlaceAt(w, t, E, off, r, l, T, d, e, j)
    BY <1>1, ResultAt
  <2>5. 0 <= off[j - 1] /\ Moves(off, j, e - d)
    BY <1>2, <1>3, <2>1
  <2>6. GrownTo(Widened(f[k], E, s, r, j), t, w, E, off, l, T, n, j)
    <3>1. SeqLong(s, Chars, d) /\ SeqLong(r, Chars, e) /\ T = l + off[n]
      BY <1>1
    <3> QED
      BY <1>4, <2>3, <2>4, <2>5, <3>1, WidenedKeeps
  <2> QED
    BY <2>1, <2>2, <2>6
<1> HIDE DEF A
<1>7. \A k \in Nat : k \in A
  BY <1>5, <1>6, EveryNumber
<1> PICK m : m = f[n]
  OBVIOUS
<1>8. GrownTo(m, t, w, E, off, l, T, n, 1)
  <2>1. n \in A /\ n + 1 - n = 1
    BY <1>7
  <2> QED
    BY <2>1 DEF A
<1>9. (IF 1 = n + 1 THEN l ELSE T) = T
  BY <1>1
<1>10. SeqLong(m, Memory, T)
  BY <1>8, <1>9 DEF GrownTo
<1>11. SeqLong(w, Memory, T)
  <2>1. (l - 0) + off[n] = T
    BY <1>1, <1>3
  <2>2. SeqLong(w, Chars, T)
    BY <1>1, <2>1 DEF Spread
  <2> QED
    BY <2>2, InMemory
<1>12. ASSUME NEW i \in 1 .. T
       PROVE  m[i] = w[i]
  <2>1. 0 + 1 = 1 /\ 1 - 1 = 0 /\ E[1] \in Nat /\ i - 0 = i
    BY <1>1 DEF Layout
  <2>2. CASE i <= E[1]
    <3>1. i \in 0 + 1 .. E[1] /\ i \in 1 .. E[1]
      BY <2>1, <2>2
    <3>2. m[i] = t[i]
      BY <1>8, <3>1 DEF GrownTo
    <3>3. w[i - 0] = t[i]
      BY <1>1, <3>1 DEF Spread
    <3> QED
      BY <2>1, <3>2, <3>3
  <2>3. CASE ~(i <= E[1])
    <3>1. i \in E[1] + off[1 - 1] + 1 .. T
      BY <1>1, <2>1, <2>3
    <3> QED
      BY <1>8, <3>1 DEF GrownTo
  <2> QED
    BY <2>2, <2>3
<1> QED
  BY <1>10, <1>11, <1>12, SameText

\* What lies between z and the next place has moved as far as the k places before.
Gap(w, t, E, off, k, z) ==
  /\ z \in Nat /\ z <= E[k + 1] /\ 0 <= z + off[k] /\ off[k] \in Int /\ E[k + 1] \in Nat
  /\ \A i \in z + 1 .. E[k + 1] : w[i + off[k]] = t[i]

LEMMA GapAt ==
  ASSUME NEW l, NEW T, NEW d, NEW e, NEW n, NEW off, NEW t, NEW s, NEW r, NEW E, NEW w,
         Result(w, t, s, r, E, off, l, T, d, e, n), NEW pos \in Nat, pos <= E[1],
         NEW k \in 0 .. n, NEW z, z = IF k = 0 THEN pos ELSE E[k] + d
  PROVE  Gap(w, t, E, off, k, z)
<1> /\ l \in Nat /\ T \in Nat /\ d \in Nat /\ e \in Nat /\ n \in Nat
  BY DEF Result
<1>1. /\ off[0] = 0 /\ Drift(off, e - d) /\ T = l + off[n] /\ Layout(E, n, 0, l, d, off)
      /\ Spread(w, Chars, 0, t, l, E, n, off, r, e, d)
  BY DEF Result
<1>2. CASE k = 0
  <2>1. 0 + 1 = 1 /\ E[1] \in Nat /\ z = pos
    BY <1>1, <1>2 DEF Layout
  <2>2. ASSUME NEW i \in pos + 1 .. E[1]
        PROVE  w[i + 0] = t[i]
    <3>1. i \in 0 + 1 .. E[1] /\ i - 0 = i /\ i + 0 = i
      BY <2>1
    <3> QED
      BY <1>1, <3>1 DEF Spread
  <2> QED
    BY <1>1, <1>2, <2>1, <2>2 DEF Gap
<1>3. CASE k # 0
  <2>1. k \in 1 .. n
    BY <1>3
  <2>2. PlaceAt(w, t, E, off, r, l, T, d, e, k)
    BY <1>1, <2>1, ResultAt
  <2>3. /\ E[k] \in Nat /\ E[k + 1] \in Nat /\ off[k] \in Int /\ off[k - 1] \in Int
        /\ off[k] = (off[k - 1] + e) - d /\ 0 <= E[k] + off[k - 1] /\ E[k] + d <= E[k + 1]
        /\ \A i \in E[k] + d + 1 .. E[k + 1] : w[i + off[k]] = t[i]
    BY <2>2 DEF PlaceAt
  <2>4. z = E[k] + d
    BY <1>3
  <2> QED
    BY <2>3, <2>4 DEF Gap
<1> QED
  BY <1>2, <1>3

\* The end of the k-th place, or the start.
EndOf(pos, P, s, k) == IF k = 0 THEN pos ELSE P[k] + Len(s)

\* One step of Shrunk.
Narrowed(m, pos, P, s, r, k) ==
  Put(Put(m, EndOf(pos, P, s, k - 1) - (k - 1) * (Len(s) - Len(r)),
          Piece(m, EndOf(pos, P, s, k - 1), P[k])),
      P[k] - (k - 1) * (Len(s) - Len(r)), r)

\* The block when k places are done, the last of which ends at z.
NarrowedTo(m, t, w, off, l, k, z) ==
  /\ SeqLong(m, Memory, l)
  /\ \A i \in 1 .. z + off[k] : m[i] = w[i]
  /\ \A i \in z + 1 .. l : m[i] = t[i]

LEMMA NarrowedKeeps ==
  ASSUME NEW l, NEW T, NEW d, NEW e, NEW n, NEW off, NEW t, NEW s, NEW r, NEW E, NEW w,
         Result(w, t, s, r, E, off, l, T, d, e, n), e <= d,
         NEW pos, NEW P, NEW m, NEW k \in 1 .. n, P[k] = E[k],
         Gap(w, t, E, off, k - 1, EndOf(pos, P, s, k - 1)),
         NarrowedTo(m, t, w, off, l, k - 1, EndOf(pos, P, s, k - 1))
  PROVE  NarrowedTo(Narrowed(m, pos, P, s, r, k), t, w, off, l, k, EndOf(pos, P, s, k))
<1> /\ l \in Nat /\ T \in Nat /\ d \in Nat /\ e \in Nat /\ n \in Nat
  BY DEF Result
<1>1. /\ SeqLong(s, Chars, d) /\ SeqLong(r, Chars, e) /\ Drift(off, e - d)
      /\ T = l + off[n] /\ Layout(E, n, 0, l, d, off)
      /\ Spread(w, Chars, 0, t, l, E, n, off, r, e, d)
  BY DEF Result
<1> PICK j \in Nat : j = k - 1
  OBVIOUS
<1> PICK z : z = EndOf(pos, P, s, j)
  OBVIOUS
<1>2. j + 1 = k /\ k # 0
  OBVIOUS
<1>3. Gap(w, t, E, off, j, z) /\ NarrowedTo(m, t, w, off, l, j, z)
  OBVIOUS
<1>4. PlaceAt(w, t, E, off, r, l, T, d, e, k)
  BY <1>1, ResultAt
<1>5. /\ z \in Nat /\ z <= E[k] /\ 0 <= z + off[j] /\ off[j] \in Int /\ E[k] \in Nat
      /\ E[k] + d <= l /\ off[k] \in Int /\ off[k] = (off[j] + e) - d
  BY <1>2, <1>3, <1>4 DEF Gap, PlaceAt
<1> PICK a \in Nat : a = E[k]
  BY <1>5
<1> PICK f \in Int : f = off[j]
  BY <1>5
<1> PICK c \in Nat : c = a - z
  BY <1>5
<1>6. f <= 0
  BY <1>1 DEF Drift
<1>7. Junk \in Memory /\ SeqLong(r, Memory, e) /\ Len(r) = e /\ Len(s) = d
  BY <1>1, InMemory DEF SeqLong
<1>8. /\ SeqLong(m, Memory, l)
      /\ \A i \in 1 .. z + f : m[i] = w[i]
      /\ \A i \in z + 1 .. l : m[i] = t[i]
  BY <1>3 DEF NarrowedTo
<1>9. /\ \A i \in z + 1 .. a : w[i + f] = t[i]
      /\ \A i \in 1 .. e : w[a + f + i] = r[i]
  BY <1>2, <1>3, <1>4 DEF Gap, PlaceAt
<1>10. Shrinking(l, a, z, d, e, f, c, z + f, a + f, t, w, r, m)
  BY <1>5, <1>6, <1>8, <1>9 DEF Shrinking
<1> PICK q : q = Piece(m, z, a)
  OBVIOUS
<1>11. IsPart(q, Memory, m, z, c)
  <2>1. z \in Nat /\ c \in Int /\ z + c = a /\ z + c <= l /\ (IF 0 <= c THEN c ELSE 0) = c
    BY <1>5
  <2>2. IsPart(SubSeq(m, z + 1, z + c), Memory, m, z, IF 0 <= c THEN c ELSE 0)
    BY <1>8, <2>1, PartOf
  <2> QED
    BY <2>1, <2>2 DEF Piece
<1>12. SeqLong(q, Memory, c)
  BY <1>11 DEF IsPart
<1> PICK v : v = Put(m, z + f, q)
  OBVIOUS
<1> PICK x : x = Put(v, a + f, r)
  OBVIOUS
<1>13. z + f \in Nat /\ a + f \in Nat
  BY <1>5
<1>14. IsOverlaid(v, Memory, m, l, z + f, q, c, Junk)
  BY <1>7, <1>8, <1>12, <1>13, PutPlaces
<1>15. SeqLong(v, Memory, l)
  <2>1. (IF l <= (z + f) + c THEN (z + f) + c ELSE l) = l
    <3>1. (z + f) + c = a + f /\ a + f <= l
      BY <1>5, <1>6
    <3> QED
      BY <3>1
  <2> QED
    BY <1>14, <2>1 DEF IsOverlaid
<1>16. IsOverlaid(x, Memory, v, l, a + f, r, e, Junk)
  BY <1>7, <1>13, <1>15, PutPlaces
<1>17. /\ SeqLong(x, Memory, l)
       /\ \A i \in 1 .. (a + f) + e : x[i] = w[i]
       /\ \A i \in a + d + 1 .. l : x[i] = t[i]
  BY ONLY <1>8, <1>10, <1>11, <1>14, <1>16, ShrunkJoined
<1>18. Narrowed(m, pos, P, s, r, k) = x
  <2>1. f = j * (e - d)
    BY DEF Result, Moves
  <2>2. j * (d - e) = -(j * (e - d)) /\ j * (d - e) \in Int
    OBVIOUS
  <2> PICK g \in Int : g = j * (d - e)
    BY <2>2
  <2>3. z - g = z + f /\ a - g = a + f
    <3>1. g = -f
      BY <2>1, <2>2
    <3> QED
      BY ONLY <3>1, <1>5, g \in Int, f \in Int, a \in Nat
  <2>4. k - 1 = j /\ EndOf(pos, P, s, j) = z /\ P[k] = a
    OBVIOUS
  <2> QED
    BY <1>7, <2>3, <2>4, Zenon DEF Narrowed
<1>19. EndOf(pos, P, s, k) = a + d
  BY <1>2, <1>7 DEF EndOf
<1>20. (a + d) + off[k] = (a + f) + e
  BY <1>5
<1> QED
  BY <1>17, <1>18, <1>19, <1>20 DEF NarrowedTo

\* The function of Shrunk, of the first m of its steps, and what is done at the end.
Narrowings(f, t, pos, P, s, r, m) ==
  f = [k \in 0 .. m |-> IF k = 0 THEN t ELSE Narrowed(f[k - 1], pos, P, s, r, k)]

Closed(m, pos, P, s, r, n, l) ==
  Before(Put(m, EndOf(pos, P, s, n) - n * (Len(s) - Len(r)), From(m, EndOf(pos, P, s, n))),
         l - n * (Len(s) - Len(r)))

LEMMA NarrowingsExist ==
  ASSUME NEW t, NEW pos, NEW P, NEW s, NEW r
  PROVE  \A m \in Nat : \E f : Narrowings(f, t, pos, P, s, r, m)
<1> DEFINE A == {m \in Nat : \E f : Narrowings(f, t, pos, P, s, r, m)}
<1>1. 0 \in A
  <2> DEFINE f == [k \in 0 .. 0 |-> t]
  <2>1. f = [k \in 0 .. 0 |-> IF k = 0 THEN t ELSE Narrowed(f[k - 1], pos, P, s, r, k)]
    OBVIOUS
  <2> HIDE DEF f
  <2>2. Narrowings(f, t, pos, P, s, r, 0)
    BY <2>1 DEF Narrowings
  <2> QED
    BY <2>2
<1>2. ASSUME NEW m \in Nat, m \in A
      PROVE  m + 1 \in A
  <2>1. PICK g : Narrowings(g, t, pos, P, s, r, m)
    BY <1>2
  <2> DEFINE f == [k \in 0 .. m + 1 |->
                     IF k = 0 THEN t ELSE Narrowed(g[k - 1], pos, P, s, r, k)]
  <2>2. ASSUME NEW i \in 0 .. m
        PROVE  f[i] = g[i]
    <3>1. g[i] = IF i = 0 THEN t ELSE Narrowed(g[i - 1], pos, P, s, r, i)
      BY <2>1 DEF Narrowings
    <3> QED
      BY <3>1
  <2>3. \A k \in 0 .. m + 1 : k # 0 => k - 1 \in 0 .. m
    OBVIOUS
  <2>4. \A k \in 0 .. m + 1 :
          f[k] = IF k = 0 THEN t ELSE Narrowed(f[k - 1], pos, P, s, r, k)
    BY <2>2, <2>3
  <2>5. f = [k \in 0 .. m + 1 |-> f[k]]
    OBVIOUS
  <2> HIDE DEF f
  <2>6. Narrowings(f, t, pos, P, s, r, m + 1)
    BY <2>4, <2>5 DEF Narrowings
  <2> QED
    BY <2>6
<1> HIDE DEF A
<1>3. \A m \in Nat : m \in A
  BY <1>1, <1>2, EveryNumber
<1> QED
  BY <1>3 DEF A

LEMMA ShrunkIs ==
  ASSUME NEW t, NEW P, NEW n \in Nat, SeqLong(P, Nat, n), NEW s, NEW r, NEW pos
  PROVE  \E f : /\ Narrowings(f, t, pos, P, s, r, n)
                /\ Shrunk(t, P, s, r, pos) = Closed(f[n], pos, P, s, r, n, Len(t))
<1>1. Len(P) = n
  BY DEF SeqLong
<1> DEFINE f == CHOOSE f : f = [k \in 0 .. n |->
                  IF k = 0 THEN t
                  ELSE Put(Put(f[k - 1],
                               (IF k - 1 = 0 THEN pos ELSE P[k - 1] + Len(s))
                                 - (k - 1) * (Len(s) - Len(r)),
                               SubSeq(f[k - 1],
                                      (IF k - 1 = 0 THEN pos ELSE P[k - 1] + Len(s)) + 1,
                                      P[k])),
                           P[k] - (k - 1) * (Len(s) - Len(r)), r)]
<1>2. \E g : Narrowings(g, t, pos, P, s, r, n)
  BY NarrowingsExist
<1>3. Narrowings(f, t, pos, P, s, r, n)
  BY <1>2, Zenon DEF Narrowings, Narrowed, EndOf, Piece
<1>4. Shrunk(t, P, s, r, pos) = Closed(f[n], pos, P, s, r, n, Len(t))
  BY <1>1, Zenon DEF Shrunk, Closed, EndOf
<1> QED
  BY <1>3, <1>4

LEMMA ClosedIs ==
  ASSUME NEW l, NEW T, NEW d, NEW e, NEW n, NEW off, NEW t, NEW s, NEW r, NEW E, NEW w,
         Result(w, t, s, r, E, off, l, T, d, e, n), e <= d,
         NEW pos, NEW P, NEW m,
         Gap(w, t, E, off, n, EndOf(pos, P, s, n)),
         NarrowedTo(m, t, w, off, l, n, EndOf(pos, P, s, n))
  PROVE  Closed(m, pos, P, s, r, n, l) = w
<1> /\ l \in Nat /\ T \in Nat /\ d \in Nat /\ e \in Nat /\ n \in Nat
  BY DEF Result
<1>1. /\ SeqLong(s, Chars, d) /\ SeqLong(r, Chars, e) /\ Drift(off, e - d)
      /\ T = l + off[n] /\ Layout(E, n, 0, l, d, off)
      /\ Spread(w, Chars, 0, t, l, E, n, off, r, e, d)
  BY DEF Result
<1> PICK z : z = EndOf(pos, P, s, n)
  OBVIOUS
<1>2. Gap(w, t, E, off, n, z) /\ NarrowedTo(m, t, w, off, l, n, z)
  OBVIOUS
<1>3. E[n + 1] = l
  BY <1>1 DEF Layout
<1>4. z \in Nat /\ z <= l /\ 0 <= z + off[n] /\ off[n] \in Int
  BY <1>2, <1>3 DEF Gap
<1> PICK f \in Int : f = off[n]
  BY <1>4
<1> PICK c \in Nat : c = l - z
  BY <1>4
<1>5. f <= 0
  BY <1>1 DEF Drift
<1>6. Junk \in Memory /\ Len(r) = e /\ Len(s) = d
  BY <1>1, InMemory DEF SeqLong
<1>7. /\ SeqLong(m, Memory, l)
      /\ \A i \in 1 .. z + f : m[i] = w[i]
      /\ \A i \in z + 1 .. l : m[i] = t[i]
  BY <1>2 DEF NarrowedTo
<1>8. \A i \in z + 1 .. l : w[i + f] = t[i]
  BY <1>2, <1>3 DEF Gap
<1>9. T = l + f /\ T <= l
  BY <1>1, <1>5
<1>10. ShrinkingEnd(l, T, z, f, c, z + f, t, w, m)
  BY <1>4, <1>5, <1>7, <1>8, <1>9 DEF ShrinkingEnd
<1>11. SeqLong(w, Memory, T)
  <2>1. (l - 0) + off[n] = T
    BY <1>9
  <2>2. SeqLong(w, Chars, T)
    BY <1>1, <2>1 DEF Spread
  <2> QED
    BY <2>2, InMemory
<1> PICK q : q = From(m, z)
  OBVIOUS
<1>12. IsPart(q, Memory, m, z, c)
  <2>1. (IF z <= l THEN l - z ELSE 0) = c /\ z \in Nat
    BY <1>4
  <2>2. IsPart(From(m, z), Memory, m, z, IF z <= l THEN l - z ELSE 0)
    BY <1>7, <2>1, FromPlaces
  <2> QED
    BY <2>1, <2>2
<1>13. SeqLong(q, Memory, c)
  BY <1>12 DEF IsPart
<1> PICK v : v = Put(m, z + f, q)
  OBVIOUS
<1> PICK x : x = Before(v, T)
  OBVIOUS
<1>14. z + f \in Nat
  BY <1>4
<1>15. IsOverlaid(v, Memory, m, l, z + f, q, c, Junk)
  BY <1>6, <1>7, <1>13, <1>14, PutPlaces
<1>16. SeqLong(v, Memory, l)
  <2>1. (IF l <= (z + f) + c THEN (z + f) + c ELSE l) = l
    <3>1. (z + f) + c = T
      BY <1>4, <1>9
    <3> QED
      BY <1>9, <3>1
  <2> QED
    BY <1>15, <2>1 DEF IsOverlaid
<1>17. IsPart(x, Memory, v, 0, T)
  <2>1. (IF T <= l THEN T ELSE l) = T
    BY <1>9
  <2>2. IsPart(Before(v, T), Memory, v, 0, IF T <= l THEN T ELSE l)
    BY <1>16, BeforePlaces
  <2> QED
    BY <2>1, <2>2
<1>18. x = w
  BY ONLY <1>7, <1>10, <1>11, <1>12, <1>15, <1>17, ShrunkEndJoined
<1>19. Closed(m, pos, P, s, r, n, l) = x
  <2>1. f = n * (e - d)
    BY DEF Result, Moves
  <2>2. n * (d - e) = -(n * (e - d)) /\ n * (d - e) \in Int
    OBVIOUS
  <2> PICK g \in Int : g = n * (d - e)
    BY <2>2
  <2>3. z - g = z + f /\ l - g = T
    <3>1. g = -f
      BY <2>1, <2>2
    <3> QED
      BY ONLY <3>1, <1>4, <1>9, g \in Int, f \in Int, l \in Nat
  <2> QED
    BY <1>6, <2>3, Zenon DEF Closed
<1> QED
  BY <1>18, <1>19

LEMMA ShrinksToResult ==
  ASSUME NEW l, NEW T, NEW d, NEW e, NEW n, NEW off, NEW t, NEW s, NEW r, NEW E, NEW w,
         NEW pos, NEW P, NEW f,
         Result(w, t, s, r, E, off, l, T, d, e, n), e <= d, pos \in Nat, pos <= E[1],
         \A k \in 1 .. n : P[k] = E[k], Narrowings(f, t, pos, P, s, r, n)
  PROVE  Closed(f[n], pos, P, s, r, n, l) = w
<1> /\ l \in Nat /\ T \in Nat /\ d \in Nat /\ e \in Nat /\ n \in Nat
  BY DEF Result
<1>1. /\ SeqLong(t, Chars, l) /\ SeqLong(s, Chars, d)
      /\ off[0] = 0 /\ Drift(off, e - d) /\ T = l + off[n] /\ Layout(E, n, 0, l, d, off)
      /\ Spread(w, Chars, 0, t, l, E, n, off, r, e, d)
  BY DEF Result
<1>2. ASSUME NEW k \in 0 .. n
      PROVE  Gap(w, t, E, off, k, EndOf(pos, P, s, k))
  <2>1. EndOf(pos, P, s, k) = IF k = 0 THEN pos ELSE E[k] + d
    <3>1. Len(s) = d
      BY <1>1 DEF SeqLong
    <3> QED
      BY <3>1 DEF EndOf
  <2> QED
    BY <2>1, GapAt
<1> DEFINE A == {k \in Nat : k <= n => NarrowedTo(f[k], t, w, off, l, k, EndOf(pos, P, s, k))}
<1>3. 0 \in A
  <2>1. 0 \in 0 .. n /\ 0 + 1 = 1 /\ E[1] \in Nat
    BY <1>1 DEF Layout
  <2>2. f[0] = t
    BY <2>1 DEF Narrowings
  <2>3. SeqLong(t, Memory, l)
    BY <1>1, InMemory
  <2>4. ASSUME NEW i \in 1 .. pos + off[0]
        PROVE  t[i] = w[i]
    <3>1. i \in 0 + 1 .. E[1] /\ i - 0 = i
      BY <1>1, <2>1
    <3>2. w[i - 0] = t[i]
      BY <1>1, <3>1 DEF Spread
    <3> QED
      BY <3>1, <3>2
  <2>5. EndOf(pos, P, s, 0) = pos
    BY DEF EndOf
  <2>6. NarrowedTo(t, t, w, off, l, 0, pos)
    BY <2>3, <2>4 DEF NarrowedTo
  <2> QED
    BY <2>2, <2>5, <2>6
<1>4. ASSUME NEW k \in Nat, k \in A
      PROVE  k + 1 \in A
  <2> SUFFICES ASSUME k + 1 <= n
               PROVE  NarrowedTo(f[k + 1], t, w, off, l, k + 1, EndOf(pos, P, s, k + 1))
    OBVIOUS
  <2> PICK j \in 1 .. n : j = k + 1
    OBVIOUS
  <2>1. j - 1 = k /\ j \in 0 .. n /\ k <= n /\ j # 0 /\ k \in 0 .. n
    OBVIOUS
  <2>2. f[j] = Narrowed(f[k], pos, P, s, r, j)
    BY <2>1 DEF Narrowings
  <2>3. NarrowedTo(f[k], t, w, off, l, j - 1, EndOf(pos, P, s, j - 1))
    BY <1>4, <2>1
  <2>4. Gap(w, t, E, off, j - 1, EndOf(pos, P, s, j - 1))
    BY <1>2, <2>1
  <2>5. NarrowedTo(Narrowed(f[k], pos, P, s, r, j), t, w, off, l, j, EndOf(pos, P, s, j))
    BY <2>3, <2>4, NarrowedKeeps
  <2> QED
    BY <2>2, <2>5
<1> HIDE DEF A
<1>5. \A k \in Nat : k \in A
  BY <1>3, <1>4, EveryNumber
<1>6. NarrowedTo(f[n], t, w, off, l, n, EndOf(pos, P, s, n))
  <2>1. n \in A
    BY <1>5
  <2> QED
    BY <2>1 DEF A
<1>7. n \in 0 .. n
  OBVIOUS
<1> QED
  BY <1>2, <1>6, <1>7, ClosedIs

\* Both engines give the text w that is meant: T is its length, P are the places.
Engines(n, T, P, w, t, s, r, l, d, e, pos) ==
  /\ n \in Nat /\ T \in Nat /\ P = Places(t, s, pos) /\ w = AllReplaced(t, s, r, pos)
  /\ SeqLong(P, Nat, n) /\ T = l + n * (e - d) /\ SeqLong(w, Chars, T)
  /\ d <= e => Grown(t, P, s, r) = w /\ l <= T
  /\ e <= d => Shrunk(t, P, s, r, pos) = w /\ T <= l
  /\ n = 0 => w = t

LEMMA EnginesGive ==
  ASSUME NEW t, NEW s, NEW r, NEW l, NEW d, NEW e, NEW pos,
         l \in Nat, d \in Nat, e \in Nat, pos \in Nat, SeqLong(t, Chars, l),
         SeqLong(s, Chars, d), SeqLong(r, Chars, e), 0 < d, pos <= l
  PROVE  \E n, T, P, w : Engines(n, T, P, w, t, s, r, l, d, e, pos)
<1> PICK delta \in Int : delta = e - d
  OBVIOUS
<1>0. PICK off : off[0] = 0 /\ Drift(off, delta) /\ \A k \in Nat : off[k] = k * delta
  BY DriftExists
<1>1. off[0] = 0 /\ Drift(off, e - d) /\ \A k \in Nat : Moves(off, k, e - d)
  BY <1>0 DEF Moves
<1>2. PICK PF : PlacesFrom(PF, t, s, 0) /\ Places(t, s, pos) = PF[pos]
  BY PlacesIs
<1>3. PICK RF : RestFrom(RF, t, s, r, 0) /\ AllReplaced(t, s, r, pos)
                                           = Joined(Before(t, pos), RF[pos])
  BY RestIs
<1> PICK P : P = Places(t, s, pos)
  OBVIOUS
<1> PICK u : u = RF[pos]
  OBVIOUS
<1> PICK w : w = AllReplaced(t, s, r, pos)
  OBVIOUS
<1> PICK E : E = Ended(P, l)
  OBVIOUS
<1>4. Follows(P, u, Chars, pos, t, l, off, r, e, d)
  <2>1. \A p \in 0 .. l : Follows(PF[p], RF[p], Chars, p, t, l, off, r, e, d)
    BY <1>1, <1>2, <1>3, FollowsAll
  <2> QED
    BY <1>2, <2>1
<1>5. PICK n \in Nat : /\ SeqLong(P, Nat, n) /\ Layout(E, n, pos, l, d, off)
                       /\ Spread(u, Chars, pos, t, l, E, n, off, r, e, d)
  BY <1>4 DEF Follows
<1>6. SeqLong(u, Chars, (l - pos) + off[n]) /\ (l - pos) + off[n] \in Nat
  BY <1>5 DEF Spread, SeqLong
<1>7. off[n] \in Int /\ off[n] = n * (e - d)
        /\ (d <= e => 0 <= off[n]) /\ (e <= d => off[n] <= 0)
  <2>1. off[n] = n * (e - d)
    BY <1>1 DEF Moves
  <2>2. off[n] \in Int /\ (delta >= 0 => off[n] >= 0) /\ (delta <= 0 => off[n] <= 0)
    BY <1>0 DEF Drift
  <2>3. (d <= e => delta >= 0) /\ (e <= d => delta <= 0)
    OBVIOUS
  <2> QED
    BY <2>1, <2>2, <2>3
<1> PICK m \in Nat : m = (l - pos) + off[n]
  BY <1>6
<1> PICK T \in Nat : T = l + off[n]
  BY <1>6, <1>7
<1> PICK h : h = Before(t, pos)
  OBVIOUS
<1>8. IsPart(h, Chars, t, 0, pos)
  <2>1. (IF pos <= l THEN pos ELSE l) = pos
    OBVIOUS
  <2>2. IsPart(Before(t, pos), Chars, t, 0, IF pos <= l THEN pos ELSE l)
    BY BeforePlaces
  <2> QED
    BY <2>1, <2>2
<1>9. IsConcat(w, Chars, h, pos, u, m)
  <2>1. SeqLong(h, Chars, pos) /\ SeqLong(u, Chars, m)
    BY <1>6, <1>8 DEF IsPart
  <2>2. IsConcat(h \o u, Chars, h, pos, u, m)
    BY <2>1, ConcatIf
  <2>3. w = h \o u
    BY <1>3, Zenon DEF Joined
  <2> QED
    BY <2>2, <2>3, Zenon
<1>10. Spread(w, Chars, 0, t, l, E, n, off, r, e, d)
  BY <1>1, <1>5, <1>8, <1>9, SpreadWhole
<1>11. Layout(E, n, 0, l, d, off) /\ pos <= E[1]
  <2>1. \A k \in 1 .. n : E[k] \in Nat /\ off[k - 1] \in Int
    <3>1. \A k \in 1 .. n : k \in 1 .. n + 1 /\ k - 1 \in Nat
      OBVIOUS
    <3> QED
      BY <1>1, <1>5, <3>1 DEF Layout, Drift
  <2>2. E[1] \in Nat /\ pos <= E[1]
    BY <1>5 DEF Layout
  <2>3. \A k \in 1 .. n : 0 <= E[k] + off[k - 1]
    BY <1>5, <2>1 DEF Layout
  <2> QED
    BY <1>5, <2>2, <2>3 DEF Layout
<1>12. Result(w, t, s, r, E, off, l, T, d, e, n)
  BY <1>1, <1>10, <1>11 DEF Result
<1>13. Len(t) = l
  BY DEF SeqLong
<1>14. SeqLong(w, Chars, T)
  <2>1. (l - 0) + off[n] = T
    BY <1>7
  <2> QED
    BY <1>10, <2>1 DEF Spread
<1>15. ASSUME d <= e
       PROVE  Grown(t, P, s, r) = w /\ l <= T
  <2>1. PICK f : Widenings(f, t, E, s, r, n, n) /\ Grown(t, P, s, r) = f[n]
    <3>1. SeqLong(P, Nat, n) /\ E = Ended(P, Len(t))
      BY <1>5, <1>13
    <3> QED
      BY ONLY <3>1, n \in Nat, GrownIs
  <2>2. f[n] = w
    BY <1>12, <1>15, <2>1, GrowsToResult
  <2> QED
    BY <1>7, <1>15, <2>1, <2>2
<1>16. ASSUME e <= d
       PROVE  Shrunk(t, P, s, r, pos) = w /\ T <= l
  <2>1. PICK f : /\ Narrowings(f, t, pos, P, s, r, n)
                 /\ Shrunk(t, P, s, r, pos) = Closed(f[n], pos, P, s, r, n, l)
    <3>1. SeqLong(P, Nat, n) /\ Len(t) = l
      BY <1>5, <1>13
    <3> QED
      BY ONLY <3>1, n \in Nat, ShrunkIs
  <2>2. \A k \in 1 .. n : P[k] = E[k]
    BY <1>5, EndAppended
  <2>3. Closed(f[n], pos, P, s, r, n, l) = w
    <3>1. pos <= E[1] /\ e <= d /\ pos \in Nat
      BY <1>11, <1>16
    <3> QED
      BY ONLY <1>12, <2>1, <2>2, <3>1, ShrinksToResult
  <2> QED
    BY <1>7, <1>16, <2>1, <2>3
<1>17. ASSUME n = 0
       PROVE  w = t
  <2>1. T = l /\ 0 + 1 = 1 /\ E[1] = l
    BY <1>1, <1>11, <1>17 DEF Layout
  <2>2. ASSUME NEW i \in 1 .. l
        PROVE  w[i] = t[i]
    <3>1. i \in 0 + 1 .. E[1] /\ i - 0 = i
      BY <2>1
    <3>2. w[i - 0] = t[i]
      BY <1>10, <3>1 DEF Spread
    <3> QED
      BY <3>1, <3>2
  <2>3. SeqLong(w, Chars, l) /\ SeqLong(t, Chars, l)
    BY <1>14, <2>1
  <2> QED
    BY ONLY <2>2, <2>3, l \in Nat, SameText
<1>18. T = l + n * (e - d)
  BY <1>7
<1> QED
  BY <1>5, <1>14, <1>15, <1>16, <1>17, <1>18 DEF Engines

\* A text is not found where what is left is shorter.
LEMMA NoPlace ==
  ASSUME NEW t, NEW l \in Nat, SeqLong(t, Chars, l), NEW s, NEW d \in Nat, 0 < d,
         SeqLong(s, Chars, d), NEW pos \in Nat, pos <= l, pos > l - d
  PROVE  Places(t, s, pos) = <<>>
<1>1. PICK f : PlacesFrom(f, t, s, 0) /\ Places(t, s, pos) = f[pos]
  BY PlacesIs
<1>2. Len(t) = l /\ Len(s) = d
  BY DEF SeqLong
<1>3. FoundAt(t, s, pos) = {}
  BY <1>2 DEF FoundAt
<1>4. pos \in 0 .. Len(t)
  BY <1>2
<1> QED
  BY <1>1, <1>3, <1>4 DEF PlacesFrom

\* bfindreplace: an error, nothing to do, or all places replaced, with room for a
\* string that grows.
Replaces(o, s, l, w, limit) ==
  \/ o = Failed(s)
  \/ o = Outcome(s, FALSE) /\ w = s.data
  \/ \E n \in Nat : SeqLong(w, Chars, n) /\ o = Within(s, Balloc(s, n + 1, limit), w)
  \/ \E n \in Nat : SeqLong(w, Chars, n) /\ n <= l /\ o = Done(s.mlen, w)

LEMMA BfindreplaceIs ==
  ASSUME NEW s, NEW l \in Nat, SeqLong(s.data, Chars, l),
         NEW find, NEW d \in Nat, SeqLong(find.text, Chars, d),
         NEW repl, NEW e \in Nat, SeqLong(repl.text, Chars, e), repl.left \in Nat,
         NEW pos \in Int, NEW limit, ~Overlooked(find, repl, pos)
  PROVE  Replaces(Bfindreplace(s, find, repl, pos, limit), s, l,
                  AllReplaced(s.data, find.text, repl.text, pos), limit)
<1> PICK t : t = s.data
  OBVIOUS
<1> PICK f : f = find.text
  OBVIOUS
<1> PICK r : r = repl.text
  OBVIOUS
<1> PICK w : w = AllReplaced(t, f, r, pos)
  OBVIOUS
<1> PICK o : o = Bfindreplace(s, find, repl, pos, limit)
  OBVIOUS
<1>1. Len(t) = l /\ Len(f) = d /\ Len(r) = e
  BY DEF SeqLong
<1>2. CASE pos < 0 \/ f = <<>>
  <2>1. o = Failed(s)
    BY <1>2 DEF Bfindreplace
  <2> QED
    BY <2>1 DEF Replaces
<1>3. CASE ~(pos < 0 \/ f = <<>>) /\ pos > l
  <2>1. w = t
    <3>1. pos > Len(t)
      BY <1>1, <1>3
    <3>2. AllReplaced(t, f, r, pos) = t
      BY <3>1, Zenon DEF AllReplaced
    <3> QED
      BY <3>2
  <2>2. pos > l - d
    BY <1>3
  <2>3. o = Outcome(s, FALSE)
    BY <1>1, <1>3, <2>2 DEF Bfindreplace
  <2> QED
    BY <2>1, <2>3 DEF Replaces
<1>4. CASE ~(pos < 0 \/ f = <<>>) /\ ~(pos > l)
  <2>1. pos \in Nat /\ pos <= l
    BY <1>4
  <2>2. 0 < d
    <3>1. f \in Seq(Chars)
      BY DEF SeqLong
    <3> QED
      BY <1>1, <1>4, <3>1, EmptySeq
  <2>3. PICK n, T, P, v : Engines(n, T, P, v, t, f, r, l, d, e, pos)
    <3>1. SeqLong(t, Chars, l) /\ SeqLong(f, Chars, d) /\ SeqLong(r, Chars, e)
      OBVIOUS
    <3> QED
      BY ONLY <2>1, <2>2, <3>1, l \in Nat, d \in Nat, e \in Nat, EnginesGive
  <2>4. /\ n \in Nat /\ T \in Nat /\ v = w /\ SeqLong(w, Chars, T) /\ Len(P) = n
        /\ P = Places(t, f, pos)
    BY <2>3 DEF Engines, SeqLong
  <2>5. P = <<>> => n = 0
    BY <2>4
  <2>6. CASE pos > l - d
    <3>1. P = <<>>
      BY <2>1, <2>2, <2>4, <2>6, NoPlace
    <3>2. w = t
      BY <2>3, <2>4, <2>5, <3>1 DEF Engines
    <3>3. o = Outcome(s, FALSE)
      BY <1>1, <1>4, <2>6 DEF Bfindreplace
    <3> QED
      BY <3>2, <3>3 DEF Replaces
  <2>9. CASE ~(pos > l - d) /\ CopyFails({find, repl}, pos, limit)
    <3>1. o = Failed(s)
      BY <1>1, <1>4, <2>9 DEF Bfindreplace
    <3> QED
      BY <3>1 DEF Replaces
  <2>7. CASE ~(pos > l - d) /\ ~CopyFails({find, repl}, pos, limit) /\ e - d > 0
    <3> PICK room : room = Balloc(s, T + 1, limit)
      OBVIOUS
    <3>1. CopiedBehind(repl, pos, room) = r
      <4>1. repl.own \/ repl.left + e > pos
        BY <1>1, <2>7 DEF Overlooked
      <4> QED
        BY <1>1, <4>1 DEF CopiedBehind, IsCopied, Stale
    <3>2. Grown(t, P, f, r) = w
      BY <2>3, <2>4, <2>7 DEF Engines
    <3>3. o = Within(s, room, Grown(t, P, f, CopiedBehind(repl, pos, room)))
      <4>1. T = l + n * (e - d) /\ P = Places(t, f, pos)
        BY <2>3 DEF Engines
      <4>2. Balloc(s, Len(t) + Len(P) * (Len(r) - Len(f)) + 1, limit) = room
        BY <1>1, <2>4, <4>1
      <4>3. ~(pos < 0 \/ f = <<>>) /\ ~(pos > Len(t) - Len(f)) /\ Len(r) - Len(f) > 0
        BY <1>1, <1>4, <2>7
      <4> QED
        BY <2>7, <4>1, <4>2, <4>3, Zenon DEF Bfindreplace
    <3>4. o = Within(s, Balloc(s, T + 1, limit), w)
      BY <3>1, <3>2, <3>3
    <3> QED
      BY <2>4, <3>4 DEF Replaces
  <2>8. CASE ~(pos > l - d) /\ ~CopyFails({find, repl}, pos, limit) /\ ~(e - d > 0)
    <3>1. ~(pos < 0 \/ f = <<>>) /\ ~(pos > Len(t) - Len(f)) /\ ~(Len(r) - Len(f) > 0)
      BY <1>1, <1>4, <2>8
    <3>2. Shrunk(t, P, f, r, pos) = w /\ T <= l
      BY <2>3, <2>4, <2>8 DEF Engines
    <3>3. CASE P = <<>>
      <4>1. w = t
        BY <2>3, <2>4, <2>5, <3>3 DEF Engines
      <4>2. o = Outcome(s, FALSE)
        BY <2>4, <2>8, <3>1, <3>3, Zenon DEF Bfindreplace
      <4> QED
        BY <4>1, <4>2 DEF Replaces
    <3>4. CASE P # <<>>
      <4>1. o = Done(s.mlen, Shrunk(t, P, f, r, pos))
        BY <2>4, <2>8, <3>1, <3>4, Zenon DEF Bfindreplace
      <4> QED
        BY <2>4, <3>2, <4>1 DEF Replaces
    <3> QED
      BY <3>3, <3>4
  <2> QED
    BY <2>6, <2>7, <2>8, <2>9
<1> QED
  BY <1>2, <1>3, <1>4

LEMMA ArgLeft ==
  ASSUME TypeOK, NEW arg \in Args
  PROVE  arg.left \in Nat
<1>1. Len(b.data) \in Nat
  BY DEF TypeOK
<1>2. CASE arg \in {Own(t) : t \in Texts}
  BY <1>2 DEF Own
<1>3. CASE arg \in {Part(b, left, len) : left \in 0 .. Len(b.data), len \in 0 .. Len(b.data)}
  BY <1>1, <1>3 DEF Part
<1> QED
  BY <1>2, <1>3 DEF Args

LEMMA ReplacesKept ==
  ASSUME TypeOK
  PROVE  ReplacesAll
<1> SUFFICES ASSUME b.ended, NEW limit \in Limits, NEW find \in Args, NEW repl \in Args,
                    NEW pos \in Positions, ~Overlooked(find, repl, pos)
             PROVE  ReplacesGiven(limit, find, repl, pos)
  BY DEF ReplacesAll
<1>1. b.data \in Seq(Chars) /\ pos \in Int
  BY DEF TypeOK, Positions
<1> PICK l \in Nat : l = Len(b.data)
  BY <1>1
<1>2. SeqLong(b.data, Chars, l)
  BY <1>1 DEF SeqLong
<1>3. PICK d \in Nat : SeqLong(find.text, Chars, d)
  BY ArgText
<1>4. PICK e \in Nat : SeqLong(repl.text, Chars, e)
  BY ArgText
<1> PICK w : w = AllReplaced(b.data, find.text, repl.text, pos)
  OBVIOUS
<1> PICK o : o = Bfindreplace(b, find, repl, pos, limit)
  OBVIOUS
<1>5. Replaces(o, b, l, w, limit)
  BY <1>1, <1>2, <1>3, <1>4, ArgLeft, BfindreplaceIs
<1>6. o = Outcome(b, FALSE) /\ w = b.data => Keeps(o, w)
  BY DEF Outcome, Keeps
<1>7. Keeps(o, w)
  BY <1>5, <1>6, WithinKeeps DEF Replaces
<1> QED
  BY <1>7 DEF ReplacesGiven

-----------------------------------------------------------------------------
(* What a call leaves is a string again.                                    *)

\* The models bound the length of what a call leaves.
Good(o) == Len(o.b.data) <= MaxLen => IsString(o.b)

LEMMA GoodWithin ==
  ASSUME NEW s, NEW w, NEW n, NEW room, IsString(s), SeqLong(w, Chars, n),
         n <= MaxLen => Fits(room, n)
  PROVE  Good(Within(s, room, w))
<1> n \in Nat
  BY DEF SeqLong
<1> SUFFICES ASSUME Len(Within(s, room, w).b.data) <= MaxLen
             PROVE  IsString(Within(s, room, w).b)
  BY DEF Good
<1> QED
  BY WithinIsString

LEMMA GoodDone ==
  ASSUME NEW w, NEW n, NEW mlen, SeqLong(w, Chars, n), mlen \in Nat, n <= mlen
  PROVE  Good(Done(mlen, w))
<1> n \in Nat
  BY DEF SeqLong
<1> QED
  BY DoneIsString DEF Good

LEMMA GoodSame ==
  ASSUME NEW s, IsString(s)
  PROVE  Good(Failed(s)) /\ Good(Outcome(s, FALSE))
BY DEF Good, Failed, Outcome

\* New strings get a block of the size asked for.
LEMMA GoodNew ==
  ASSUME NEW s, NEW t, NEW n, NEW size, NEW limit, IsString(s), SeqLong(t, Chars, n),
         size \in Nat, n <= size
  PROVE  Good(New(s, size, t, limit))
BY GoodDone, GoodSame DEF New

\* Room that is asked for, or that was there.
LEMMA RoomFits ==
  ASSUME NEW s, NEW olen, NEW limit, NEW n, s.mlen \in Nat, olen \in Int, limit \in Nat,
         n \in Nat, n <= olen \/ n <= s.mlen
  PROVE  Fits(Balloc(s, olen, limit), n)
<1> PICK r : r = Balloc(s, olen, limit)
  OBVIOUS
<1>1. r = NoRoom \/ (r # NoRoom /\ r.mlen \in Nat /\ olen <= r.mlen /\ s.mlen <= r.mlen)
  BY BallocRoom
<1>2. Fits(r, n)
  BY <1>1 DEF Fits
<1> QED
  BY <1>2

LEMMA RoomCopied ==
  ASSUME NEW room, NEW n, Fits(room, n), NEW arg, NEW size, NEW limit
  PROVE  Fits(Beside(arg, size, limit, room), n) /\ Fits(BesideCopy(arg, limit, room), n)
<1>1. Fits(NoRoom, n)
  BY DEF Fits
<1> QED
  BY <1>1, CopyRoom

LEMMA RoomUnmoved ==
  ASSUME NEW s, NEW n, s.mlen \in Nat, n <= s.mlen
  PROVE  Fits(Unmoved(s), n)
BY DEF Fits, Unmoved, NoRoom

\* The string before a call.
Whole(s, l) == IsString(s) /\ s.ended /\ SeqLong(s.data, Chars, l) /\ s.mlen \in Nat /\ l <= s.mlen

LEMMA WholeIs ==
  ASSUME NEW s, IsString(s), s.ended
  PROVE  \E l \in Nat : Whole(s, l) /\ l = Len(s.data)
<1>1. s.data \in Seq(Chars) /\ s.mlen \in Nat /\ Len(s.data) <= s.mlen
  BY DEF IsString
<1>2. Len(s.data) \in Nat /\ SeqLong(s.data, Chars, Len(s.data))
  BY <1>1 DEF SeqLong
<1> QED
  BY <1>1, <1>2 DEF Whole

LEMMA BfromcstrGood ==
  ASSUME NEW s, IsString(s), NEW t, NEW n \in Nat, SeqLong(t, Chars, n), NEW limit
  PROVE  Good(Bfromcstr(s, t, limit)) /\ Good(Bstrcpy(s, t, limit))
<1>1. Len(t) = n
  BY DEF SeqLong
<1>2. (n + IF t = <<>> THEN 2 ELSE 1) \in Nat /\ n < (n + IF t = <<>> THEN 2 ELSE 1)
  OBVIOUS
<1> PICK k \in Nat : k = n + IF t = <<>> THEN 2 ELSE 1
  BY <1>2
<1>3. SnapUp(k) \in Nat /\ n <= SnapUp(k) /\ SnapUp(n + 1) \in Nat /\ n <= SnapUp(n + 1)
  <2>1. n < k /\ n + 1 \in Nat
    BY <1>2
  <2>2. SnapUp(k) \in Nat /\ SnapUp(k) > k /\ SnapUp(n + 1) \in Nat /\ SnapUp(n + 1) > n + 1
    BY <2>1, SnapUpAbove
  <2> QED
    BY <2>1, <2>2
<1>4. Good(Bfromcstr(s, t, limit))
  <2>1. Bfromcstr(s, t, limit) = New(s, SnapUp(k), t, limit)
    BY <1>1 DEF Bfromcstr
  <2> QED
    BY <1>3, <2>1, GoodNew
<1>5. Good(Bstrcpy(s, t, limit))
  <2>1. n + 1 \in Nat /\ n <= n + 1
    OBVIOUS
  <2>2. Good(New(s, n + 1, t, limit)) /\ Good(Done(SnapUp(n + 1), t))
    BY <1>3, <2>1, GoodNew, GoodDone
  <2> QED
    BY <1>1, <2>2 DEF Bstrcpy
<1> QED
  BY <1>4, <1>5

LEMMA SizeGood ==
  ASSUME NEW s, NEW l \in Nat, Whole(s, l), NEW len \in Int, NEW limit \in Nat
  PROVE  Good(Ballocmin(s, len, limit)) /\ Good(Within(s, Balloc(s, len, limit), s.data))
<1>1. /\ IsString(s) /\ SeqLong(s.data, Chars, l) /\ Len(s.data) = l /\ s.mlen \in Nat
      /\ l <= s.mlen
  BY DEF Whole, SeqLong
<1>2. Good(Within(s, Balloc(s, len, limit), s.data))
  <2>1. Fits(Balloc(s, len, limit), l)
    BY <1>1, RoomFits
  <2> QED
    BY <1>1, <2>1, GoodWithin
<1>3. Max({len, l + 1}) = IF len <= l + 1 THEN l + 1 ELSE len
  <2>1. len \in Int /\ l + 1 \in Int
    OBVIOUS
  <2> QED
    BY ONLY <2>1, OfTwo
<1>4. (IF len <= l + 1 THEN l + 1 ELSE len) \in Nat
  OBVIOUS
<1> PICK size \in Nat : size = IF len <= l + 1 THEN l + 1 ELSE len
  BY <1>4
<1>5. l <= size
  OBVIOUS
<1>6. Good(New(s, size, s.data, limit)) /\ Good(Failed(s)) /\ Good(Outcome(s, FALSE))
  BY <1>1, <1>5, GoodNew, GoodSame
<1>7. Ballocmin(s, len, limit) = IF len <= 0 THEN Failed(s)
                                 ELSE IF size = s.mlen THEN Outcome(s, FALSE)
                                 ELSE New(s, size, s.data, limit)
  BY <1>1, <1>3 DEF Ballocmin
<1> QED
  BY <1>2, <1>6, <1>7

\* When the block is full, the part that fits is a string without a zero byte.
LEMMA FullGood ==
  ASSUME NEW s, NEW v, NEW w, NEW n, NEW olen, NEW limit, s.mlen \in Nat, n \in Nat,
         SeqLong(v, Chars, s.mlen), SeqLong(w, Chars, n), olen \in Int, n < olen,
         limit \in Nat
  PROVE  Good(Within(Full(s, v), Balloc(Full(s, v), olen, limit), w))
<1> DEFINE f == [data |-> v, mlen |-> s.mlen, ended |-> FALSE]
<1>1. f \in [data : Seq(Chars), mlen : Nat, ended : BOOLEAN] /\ Len(f.data) = f.mlen
  BY DEF SeqLong
<1>2. IsString(f) /\ f.mlen \in Nat
  BY <1>1 DEF IsString
<1>3. Full(s, v) = f
  BY DEF Full
<1> HIDE DEF f
<1>4. Fits(Balloc(f, olen, limit), n)
  BY <1>2, RoomFits
<1>5. Good(Within(f, Balloc(f, olen, limit), w))
  BY <1>2, <1>4, GoodWithin
<1> QED
  BY <1>3, <1>5

LEMMA BconcharGood ==
  ASSUME NEW s, NEW l \in Nat, Whole(s, l), NEW c \in Chars, NEW limit \in Nat
  PROVE  Good(Bconchar(s, c, limit))
<1>1. IsString(s) /\ SeqLong(s.data, Chars, l) /\ Len(s.data) = l /\ s.mlen \in Nat
  BY DEF Whole, SeqLong
<1>2. SeqLong(Ended(s.data, c), Chars, l + 1)
  <2>1. s.data \in Seq(Chars) /\ Len(s.data) = l
    BY <1>1 DEF SeqLong
  <2> QED
    BY <2>1, AppendProperties DEF SeqLong, Ended
<1>3. l + 1 \in Nat /\ l + 2 \in Int /\ l + 1 < l + 2
  OBVIOUS
<1>4. Fits(Balloc(s, l + 2, limit), l + 1)
  BY <1>1, <1>3, RoomFits
<1>5. Bconchar(s, c, limit) = Within(s, Balloc(s, l + 2, limit), Ended(s.data, c))
  BY <1>1, Zenon DEF Bconchar, Ended
<1> QED
  BY <1>1, <1>2, <1>4, <1>5, GoodWithin

LEMMA AppendGood ==
  ASSUME NEW s, NEW l \in Nat, Whole(s, l), NEW arg, NEW n \in Nat,
         SeqLong(arg.text, Chars, n), NEW t, NEW m \in Nat, SeqLong(t, Chars, m),
         NEW limit \in Nat
  PROVE  /\ Good(Bconcat(s, arg, limit)) /\ Good(Bcatblk(s, t, limit))
         /\ Good(Bcatcstr(s, t, limit))
<1>1. /\ IsString(s) /\ s.ended /\ SeqLong(s.data, Chars, l) /\ Len(s.data) = l
      /\ s.mlen \in Nat /\ l <= s.mlen /\ Len(t) = m
  BY DEF Whole, SeqLong
<1>2. Good(Bconcat(s, arg, limit))
  <2> PICK room : room = IF s.mlen <= l + n + 1
                           THEN BesideCopy(arg, limit, Balloc(s, l + n + 1, limit))
                           ELSE Unmoved(s)
    OBVIOUS
  <2>1. Fits(room, l + n)
    <3>1. l + n \in Nat /\ l + n + 1 \in Int /\ l + n < l + n + 1
      OBVIOUS
    <3>2. Fits(BesideCopy(arg, limit, Balloc(s, l + n + 1, limit)), l + n)
      <4>1. Fits(Balloc(s, l + n + 1, limit), l + n)
        BY <1>1, <3>1, RoomFits
      <4> QED
        BY <4>1, RoomCopied
    <3>3. ~(s.mlen <= l + n + 1) => Fits(Unmoved(s), l + n)
      BY <1>1, <3>1, RoomUnmoved
    <3> QED
      BY <3>2, <3>3
  <2>2. SeqLong(Joined(s.data, arg.text), Chars, l + n)
    BY <1>1, ConcatSeqLong, Zenon DEF Joined
  <2>3. Bconcat(s, arg, limit) = Within(s, room, Joined(s.data, arg.text))
    BY <1>1, BconcatIs
  <2> QED
    BY <1>1, <2>1, <2>2, <2>3, GoodWithin
<1>3. Good(Bcatblk(s, t, limit))
  <2> PICK room : room = IF s.mlen <= l + m THEN Balloc(s, l + m + 1, limit) ELSE Unmoved(s)
    OBVIOUS
  <2>1. Fits(room, l + m)
    <3>1. l + m \in Nat /\ l + m + 1 \in Int /\ l + m < l + m + 1
      OBVIOUS
    <3>2. Fits(Balloc(s, l + m + 1, limit), l + m)
      BY <1>1, <3>1, RoomFits
    <3>3. ~(s.mlen <= l + m) => Fits(Unmoved(s), l + m)
      BY <1>1, <3>1, RoomUnmoved
    <3> QED
      BY <3>2, <3>3
  <2>2. SeqLong(Joined(s.data, t), Chars, l + m)
    BY <1>1, ConcatSeqLong, Zenon DEF Joined
  <2>3. Bcatblk(s, t, limit) = Within(s, room, Joined(s.data, t))
    BY <1>1 DEF Bcatblk, Joined
  <2> QED
    BY <1>1, <2>1, <2>2, <2>3, GoodWithin
<1>4. Good(Bcatcstr(s, t, limit))
  <2> PICK w : w = Joined(s.data, t)
    OBVIOUS
  <2> PICK o : o = Bcatcstr(s, t, limit)
    OBVIOUS
  <2>1. SeqLong(w, Chars, l + m)
    BY <1>1, ConcatSeqLong, Zenon DEF Joined
  <2>2. \/ o = Done(s.mlen, w) /\ l + m < s.mlen
        \/ \E v : /\ SeqLong(v, Chars, s.mlen)
                  /\ o = Within(Full(s, v), Balloc(Full(s, v), l + m + 1, limit), w)
    BY <1>1, BcatcstrIs
  <2>3. l + m \in Nat /\ l + m + 1 \in Int /\ l + m < l + m + 1
    OBVIOUS
  <2>4. CASE o = Done(s.mlen, w) /\ l + m < s.mlen
    <3>1. l + m <= s.mlen
      BY <1>1, <2>3, <2>4
    <3> QED
      BY <1>1, <2>1, <2>4, <3>1, GoodDone
  <2>5. ASSUME NEW v, SeqLong(v, Chars, s.mlen),
               o = Within(Full(s, v), Balloc(Full(s, v), l + m + 1, limit), w)
        PROVE  Good(o)
    BY <1>1, <2>1, <2>3, <2>5, FullGood
  <2> QED
    BY <2>2, <2>4, <2>5
<1> QED
  BY <1>2, <1>3, <1>4

LEMMA AssignGood ==
  ASSUME NEW s, NEW l \in Nat, Whole(s, l), NEW arg, NEW n \in Nat,
         SeqLong(arg.text, Chars, n), arg.own \/ n < s.mlen,
         NEW t, NEW m \in Nat, SeqLong(t, Chars, m), NEW limit \in Nat
  PROVE  /\ Good(Bassign(s, arg, limit)) /\ Good(Bassigncstr(s, t, limit))
         /\ Good(Bassignblk(s, t, limit))
<1>1. /\ IsString(s) /\ s.ended /\ Len(s.data) = l /\ s.mlen \in Nat /\ l <= s.mlen
      /\ Len(t) = m /\ Len(arg.text) = n
  BY DEF Whole, SeqLong
<1>3. Good(Bassign(s, arg, limit))
  <2>1. \/ arg.text = <<>> /\ Bassign(s, arg, limit) = Done(s.mlen, arg.text)
        \/ 0 < n /\ Bassign(s, arg, limit) = Within(s, Balloc(s, n, limit), arg.text)
    BY <1>1, BassignIs
  <2>2. CASE arg.text = <<>> /\ Bassign(s, arg, limit) = Done(s.mlen, arg.text)
    <3>1. n <= s.mlen
      BY <1>1, <2>2
    <3> QED
      BY <1>1, <2>2, <3>1, GoodDone
  <2>3. CASE 0 < n /\ Bassign(s, arg, limit) = Within(s, Balloc(s, n, limit), arg.text)
    <3>2. Fits(Balloc(s, n, limit), n)
      BY <1>1, RoomFits
    <3> QED
      BY <1>1, <2>3, <3>2, GoodWithin
  <2> QED
    BY <2>1, <2>2, <2>3
<1>4. m + 1 \in Int /\ m < m + 1
  OBVIOUS
<1>5. Good(Bassigncstr(s, t, limit))
  <2> PICK o : o = Bassigncstr(s, t, limit)
    OBVIOUS
  <2>1. \/ o = Done(s.mlen, t) /\ m < s.mlen
        \/ \E v : /\ SeqLong(v, Chars, s.mlen)
                  /\ o = Within(Full(s, v), Balloc(s, m + 1, limit), t)
    BY <1>1, BassigncstrIs
  <2>2. CASE o = Done(s.mlen, t) /\ m < s.mlen
    <3>1. m <= s.mlen
      BY <1>1, <2>2
    <3> QED
      BY <1>1, <2>2, <3>1, GoodDone
  <2>3. ASSUME NEW v, SeqLong(v, Chars, s.mlen),
               o = Within(Full(s, v), Balloc(s, m + 1, limit), t)
        PROVE  Good(o)
    <3>1. Balloc(s, m + 1, limit) = Balloc(Full(s, v), m + 1, limit)
      BY DEF Balloc, Full, Unmoved
    <3>2. Good(Within(Full(s, v), Balloc(Full(s, v), m + 1, limit), t))
      BY <1>1, <1>4, <2>3, FullGood
    <3> QED
      BY <2>3, <3>1, <3>2
  <2> QED
    BY <2>1, <2>2, <2>3
<1>6. Good(Bassignblk(s, t, limit))
  <2> PICK room : room = IF m + 1 > s.mlen THEN Balloc(s, m + 1, limit) ELSE Unmoved(s)
    OBVIOUS
  <2>1. Fits(Balloc(s, m + 1, limit), m)
    BY <1>1, <1>4, RoomFits
  <2>2. ~(m + 1 > s.mlen) => Fits(Unmoved(s), m)
    BY <1>1, RoomUnmoved
  <2>3. Fits(room, m)
    BY <2>1, <2>2
  <2>4. Bassignblk(s, t, limit) = Within(s, room, t)
    BY <1>1 DEF Bassignblk
  <2> QED
    BY <1>1, <2>3, <2>4, GoodWithin
<1> QED
  BY <1>3, <1>5, <1>6

LEMMA CutGood ==
  ASSUME NEW s, NEW l \in Nat, Whole(s, l), NEW pos \in Int, NEW len \in Int
  PROVE  Good(Btrunc(s, pos)) /\ Good(Bdelete(s, pos, len))
<1>1. /\ IsString(s) /\ SeqLong(s.data, Chars, l) /\ Len(s.data) = l
      /\ s.mlen \in Nat /\ l <= s.mlen
  BY DEF Whole, SeqLong
<1>2. Good(Failed(s)) /\ Good(Outcome(s, FALSE))
  BY <1>1, GoodSame
<1>3. Good(Btrunc(s, pos))
  <2>1. CASE pos < 0 \/ ~(l > pos)
    BY <1>1, <1>2, <2>1 DEF Btrunc
  <2>2. CASE ~(pos < 0 \/ ~(l > pos))
    <3>1. pos \in Nat /\ pos <= s.mlen /\ (IF pos <= l THEN pos ELSE l) = pos
      BY <1>1, <2>2
    <3>2. IsPart(Before(s.data, pos), Chars, s.data, 0, IF pos <= l THEN pos ELSE l)
      BY <1>1, <3>1, BeforePlaces
    <3>3. SeqLong(Before(s.data, pos), Chars, pos)
      BY <3>1, <3>2 DEF IsPart
    <3>4. Btrunc(s, pos) = Done(s.mlen, Before(s.data, pos))
      BY <1>1, <2>2 DEF Btrunc
    <3> QED
      BY <1>1, <3>1, <3>3, <3>4, GoodDone
  <2> QED
    BY <2>1, <2>2
<1>4. Good(Bdelete(s, pos, len))
  <2> PICK w : w = Without(s.data, pos, len)
    OBVIOUS
  <2>1. \/ Bdelete(s, pos, len) = Failed(s)
        \/ Bdelete(s, pos, len) = Outcome(s, FALSE)
        \/ /\ Bdelete(s, pos, len) = Done(s.mlen, w)
           /\ \E n \in Nat : n <= l /\ SeqLong(w, Chars, n)
    BY <1>1, BdeleteIs
  <2>2. ASSUME NEW n \in Nat, n <= l, SeqLong(w, Chars, n)
        PROVE  Good(Done(s.mlen, w))
    <3>1. n <= s.mlen
      BY <1>1, <2>2
    <3> QED
      BY <1>1, <2>2, <3>1, GoodDone
  <2> QED
    BY <1>2, <2>1, <2>2
<1> QED
  BY <1>3, <1>4

LEMMA EditGood ==
  ASSUME NEW s, NEW l \in Nat, Whole(s, l), NEW arg, NEW n \in Nat,
         SeqLong(arg.text, Chars, n), NEW pos \in Nat, NEW len \in Nat, NEW c \in Chars,
         NEW limit \in Nat
  PROVE  /\ Good(Bsetstr(s, pos, arg, c, limit)) /\ Good(Binsert(s, pos, arg, c, limit))
         /\ Good(Breplace(s, pos, len, arg, c, limit))
         /\ Good(Binsertch(s, pos, len, c, limit))
<1> PICK t : t = s.data
  OBVIOUS
<1> PICK u : u = arg.text
  OBVIOUS
<1>1. IsString(s) /\ SeqLong(t, Chars, l) /\ s.mlen \in Nat /\ l <= s.mlen
      /\ SeqLong(u, Chars, n)
  BY DEF Whole
<1>3. /\ IsSpliced(Overlaid(t, pos, u, c), Chars, t, l, pos, u, n, pos + n, c)
      /\ IsSpliced(Inserted(t, pos, u, c), Chars, t, l, pos, u, n, pos, c)
      /\ IsSpliced(Replaced(t, pos, len, u, c), Chars, t, l, pos, u, n, pos + len, c)
  BY <1>1, Promised
<1>4. Good(Bsetstr(s, pos, arg, c, limit))
  <2>1. (IF pos + n <= l THEN l ELSE pos + n) \in Nat
    OBVIOUS
  <2> PICK k \in Nat : k = IF pos + n <= l THEN l ELSE pos + n
    BY <2>1
  <2>2. k = pos + n + IF pos + n <= l THEN l - (pos + n) ELSE 0
    OBVIOUS
  <2>3. SeqLong(Overlaid(t, pos, u, c), Chars, k)
    BY <1>3, <2>2 DEF IsSpliced
  <2>4. pos + n + 1 \in Int /\ (k <= pos + n + 1 \/ k <= s.mlen)
    BY <1>1
  <2>5. Fits(BesideCopy(arg, limit, Balloc(s, pos + n + 1, limit)), k)
    <3>1. Fits(Balloc(s, pos + n + 1, limit), k)
      BY <1>1, <2>4, RoomFits
    <3> QED
      BY <3>1, RoomCopied
  <2>6. Bsetstr(s, pos, arg, c, limit)
          = Within(s, BesideCopy(arg, limit, Balloc(s, pos + n + 1, limit)),
                   Overlaid(t, pos, u, c))
    BY <1>1, BsetstrIs
  <2> QED
    BY <1>1, <2>3, <2>5, <2>6, GoodWithin
<1>5. \A k : k = (IF pos <= l THEN l + n ELSE pos + n)
               => SeqLong(Inserted(t, pos, u, c), Chars, k)
  <2>1. (IF pos <= l THEN l + n ELSE pos + n) = pos + n + IF pos <= l THEN l - pos ELSE 0
    OBVIOUS
  <2> QED
    BY <1>3, <2>1 DEF IsSpliced
<1>6. Good(Binsert(s, pos, arg, c, limit))
  <2>1. (IF pos <= l THEN l + n ELSE pos + n) \in Nat
    OBVIOUS
  <2> PICK k \in Nat : k = IF pos <= l THEN l + n ELSE pos + n
    BY <2>1
  <2>2. SeqLong(Inserted(t, pos, u, c), Chars, k)
    BY <1>1, <1>5
  <2>3. k + 1 \in Int /\ k < k + 1
    OBVIOUS
  <2>4. Fits(Beside(arg, n, limit, Balloc(s, k + 1, limit)), k)
    <3>1. Fits(Balloc(s, k + 1, limit), k)
      BY <1>1, <2>3, RoomFits
    <3> QED
      BY <3>1, RoomCopied
  <2>5. Binsert(s, pos, arg, c, limit)
          = Within(s, Beside(arg, n, limit, Balloc(s, k + 1, limit)), Inserted(t, pos, u, c))
    BY <1>1, BinsertIs
  <2> QED
    BY <1>1, <2>2, <2>4, <2>5, GoodWithin
<1>7. Good(Breplace(s, pos, len, arg, c, limit))
  <2> PICK w : w = Replaced(t, pos, len, u, c)
    OBVIOUS
  <2> PICK o : o = Breplace(s, pos, len, arg, c, limit)
    OBVIOUS
  <2>1. IF pos + len < l
          THEN o = Within(s, BesideCopy(arg, limit, IF n > len
                                                      THEN Balloc(s, l + n - len, limit)
                                                      ELSE Unmoved(s)), w)
          ELSE o = Within(s, BesideCopy(arg, limit, Balloc(s, pos + n + 1, limit)), w)
    BY <1>1, BreplaceIs
  <2>2. CASE pos + len < l
    <3> PICK k \in Nat : k = l + n - len
      BY <2>2
    <3>1. k = pos + n + IF pos + len <= l THEN l - (pos + len) ELSE 0
      BY <2>2
    <3>2. SeqLong(w, Chars, k)
      BY <1>3, <3>1 DEF IsSpliced
    <3>3. CASE n > len
      <4>2. Fits(BesideCopy(arg, limit, Balloc(s, k, limit)), k)
        <5>1. Fits(Balloc(s, k, limit), k)
          BY <1>1, RoomFits
        <5> QED
          BY <5>1, RoomCopied
      <4>3. o = Within(s, BesideCopy(arg, limit, Balloc(s, k, limit)), w)
        BY <2>1, <2>2, <3>3
      <4> QED
        BY <1>1, <3>2, <4>2, <4>3, GoodWithin
    <3>4. CASE ~(n > len)
      <4>1. k <= s.mlen
        BY <1>1, <3>4
      <4>2. Fits(BesideCopy(arg, limit, Unmoved(s)), k)
        BY <1>1, <4>1, RoomUnmoved, RoomCopied
      <4>3. o = Within(s, BesideCopy(arg, limit, Unmoved(s)), w)
        BY <2>1, <2>2, <3>4
      <4> QED
        BY <1>1, <3>2, <4>2, <4>3, GoodWithin
    <3> QED
      BY <3>3, <3>4
  <2>3. CASE ~(pos + len < l)
    <3> PICK k \in Nat : k = pos + n
      OBVIOUS
    <3>1. k = pos + n + IF pos + len <= l THEN l - (pos + len) ELSE 0
      BY <2>3
    <3>2. SeqLong(w, Chars, k)
      BY <1>3, <3>1 DEF IsSpliced
    <3>3. pos + n + 1 \in Int /\ k < pos + n + 1
      OBVIOUS
    <3>4. Fits(BesideCopy(arg, limit, Balloc(s, pos + n + 1, limit)), k)
      <4>1. Fits(Balloc(s, pos + n + 1, limit), k)
        BY <1>1, <3>3, RoomFits
      <4> QED
        BY <4>1, RoomCopied
    <3> QED
      BY <1>1, <2>1, <2>3, <3>2, <3>4, GoodWithin
  <2> QED
    BY <2>2, <2>3
<1>8. Good(Binsertch(s, pos, len, c, limit))
  <2> PICK w : w = IF pos <= l THEN Inserted(t, pos, Fill(len, c), c)
                               ELSE Joined(t, Fill(pos + len - l, c))
    OBVIOUS
  <2>1. (IF pos <= l THEN l + len ELSE pos + len) \in Nat
    OBVIOUS
  <2> PICK k \in Nat : k = IF pos <= l THEN l + len ELSE pos + len
    BY <2>1
  <2>2. SeqLong(w, Chars, k)
    <3>1. CASE pos <= l
      <4>1. SeqLong(Fill(len, c), Chars, len)
        BY FillPlaces DEF IsFill
      <4>2. IsSpliced(Inserted(t, pos, Fill(len, c), c), Chars, t, l, pos, Fill(len, c),
                      len, pos, c)
        BY <1>1, <4>1, Promised
      <4>3. k = pos + len + IF pos <= l THEN l - pos ELSE 0
        BY <3>1
      <4> QED
        BY <3>1, <4>2, <4>3 DEF IsSpliced
    <3>2. CASE ~(pos <= l)
      <4> PICK j \in Nat : j = pos + len - l
        BY <3>2
      <4>1. SeqLong(Fill(j, c), Chars, j)
        BY FillPlaces DEF IsFill
      <4>2. SeqLong(Joined(t, Fill(j, c)), Chars, l + j)
        BY <1>1, <4>1, ConcatSeqLong, Zenon DEF Joined
      <4>3. l + j = k /\ w = Joined(t, Fill(j, c))
        BY <3>2
      <4> QED
        BY <4>2, <4>3
    <3> QED
      BY <3>1, <3>2
  <2>3. k + 1 \in Int /\ k < k + 1
    OBVIOUS
  <2>4. Fits(Balloc(s, k + 1, limit), k)
    BY <1>1, <2>3, RoomFits
  <2>5. Binsertch(s, pos, len, c, limit) = Within(s, Balloc(s, k + 1, limit), w)
    BY <1>1, BinsertchIs
  <2> QED
    BY <1>1, <2>2, <2>4, <2>5, GoodWithin
<1> QED
  BY <1>4, <1>6, <1>7, <1>8

LEMMA PatternGood ==
  ASSUME NEW s, NEW l \in Nat, Whole(s, l), NEW len \in Int, NEW limit \in Nat
  PROVE  Good(Bpattern(s, len, limit))
<1>1. IsString(s) /\ SeqLong(s.data, Chars, l)
  BY DEF Whole
<1> PICK o : o = Bpattern(s, len, limit)
  OBVIOUS
<1>2. \/ o = Failed(s)
      \/ /\ len \in Nat /\ 0 < l
         /\ \E mlen \in Nat : len <= mlen /\ o = Done(mlen, Repeated(s.data, len))
  <2>1. \A mlen \in Nat : len \in Nat /\ len < mlen => len <= mlen
    OBVIOUS
  <2> QED
    BY <1>1, <2>1, BpatternIs
<1>3. len \in Nat /\ 0 < l => SeqLong(Repeated(s.data, len), Chars, len)
  BY <1>1, RepeatedPlaces
<1> QED
  BY <1>1, <1>2, <1>3, GoodDone, GoodSame

LEMMA ReplacesGood ==
  ASSUME NEW s, NEW l \in Nat, Whole(s, l), NEW o, NEW w, NEW limit \in Nat,
         Replaces(o, s, l, w, limit)
  PROVE  Good(o)
<1>1. IsString(s) /\ s.mlen \in Nat /\ l <= s.mlen
  BY DEF Whole
<1>2. Good(Failed(s)) /\ Good(Outcome(s, FALSE))
  BY <1>1, GoodSame
<1>3. ASSUME NEW n \in Nat, SeqLong(w, Chars, n), o = Within(s, Balloc(s, n + 1, limit), w)
      PROVE  Good(o)
  <2>1. n + 1 \in Int /\ n < n + 1
    OBVIOUS
  <2>2. Fits(Balloc(s, n + 1, limit), n)
    BY <1>1, <2>1, RoomFits
  <2> QED
    BY <1>1, <1>3, <2>2, GoodWithin
<1>4. ASSUME NEW n \in Nat, SeqLong(w, Chars, n), n <= l, o = Done(s.mlen, w)
      PROVE  Good(o)
  <2>1. n <= s.mlen
    BY <1>1, <1>4
  <2> QED
    BY <1>1, <1>4, <2>1, GoodDone
<1> QED
  BY <1>2, <1>3, <1>4 DEF Replaces

\* The sizes bfromcstrrangealloc tries.
Halfway(i, least) == i \div 2 + least \div 2

Tries(f, s, t, least, limit, m) ==
  f = [i \in 0 .. m |-> IF i \in 1 .. limit THEN Done(i, t)
                        ELSE IF Halfway(i, least) = i \/ i < least THEN Failed(s)
                        ELSE f[Halfway(i, least)]]

LEMMA HalfwayBelow ==
  ASSUME NEW i \in Nat, NEW least \in Nat, ~(Halfway(i, least) = i \/ i < least)
  PROVE  Halfway(i, least) \in 0 .. i - 1
BY DEF Halfway

LEMMA TriesExist ==
  ASSUME NEW s, NEW t, NEW least \in Nat, NEW limit \in Nat
  PROVE  \A m \in Nat : \E f : Tries(f, s, t, least, limit, m)
<1> DEFINE A == {m \in Nat : \E f : Tries(f, s, t, least, limit, m)}
           stop(i) == Halfway(i, least) = i \/ i < least
           done(i) == Done(i, t)
<1>1. \A i \in Nat : stop(i) \/ Halfway(i, least) \in 0 .. i - 1
  BY HalfwayBelow
<1> HIDE DEF stop, done
<1>2. 0 \in A
  <2> DEFINE f == [i \in 0 .. 0 |-> Failed(s)]
  <2>1. \A i \in 0 .. 0 : stop(i) /\ i \notin 1 .. limit
    BY <1>1
  <2>2. f = [i \in 0 .. 0 |-> IF i \in 1 .. limit THEN done(i)
                              ELSE IF stop(i) THEN Failed(s) ELSE f[Halfway(i, least)]]
    BY <2>1
  <2> HIDE DEF f
  <2>3. Tries(f, s, t, least, limit, 0)
    BY <2>2 DEF Tries, stop, done
  <2> QED
    BY <2>3
<1>3. ASSUME NEW m \in Nat, m \in A
      PROVE  m + 1 \in A
  <2>1. PICK g : Tries(g, s, t, least, limit, m)
    BY <1>3
  <2> DEFINE f == [i \in 0 .. m + 1 |->
                     IF i \in 1 .. limit THEN done(i)
                     ELSE IF stop(i) THEN Failed(s) ELSE g[Halfway(i, least)]]
  <2>2. ASSUME NEW i \in 0 .. m
        PROVE  f[i] = g[i]
    <3>1. g[i] = IF i \in 1 .. limit THEN done(i)
                 ELSE IF stop(i) THEN Failed(s) ELSE g[Halfway(i, least)]
      BY <2>1 DEF Tries, stop, done
    <3> QED
      BY <3>1
  <2>3. \A i \in 0 .. m + 1 : stop(i) \/ Halfway(i, least) \in 0 .. m
    BY <1>1
  <2>4. \A i \in 0 .. m + 1 :
          f[i] = IF i \in 1 .. limit THEN done(i)
                 ELSE IF stop(i) THEN Failed(s) ELSE f[Halfway(i, least)]
    BY <2>2, <2>3
  <2>5. f = [i \in 0 .. m + 1 |-> f[i]]
    OBVIOUS
  <2> HIDE DEF f
  <2>6. Tries(f, s, t, least, limit, m + 1)
    BY <2>4, <2>5 DEF Tries, stop, done
  <2> QED
    BY <2>6
<1> HIDE DEF A
<1>4. \A m \in Nat : m \in A
  BY <1>2, <1>3, EveryNumber
<1> QED
  BY <1>4 DEF A

\* Whatever memory there is, they end in a failure or in a copy of the text, in a
\* block of at least one less than the least size.
LEMMA TriesEnd ==
  ASSUME NEW s, NEW t, NEW least \in Nat, NEW limit, NEW m \in Nat, least <= m,
         NEW f, Tries(f, s, t, least, limit, m)
  PROVE  f[m] = Failed(s) \/ \E i \in 0 .. m : least <= i + 1 /\ f[m] = Done(i, t)
<1> DEFINE done(i) == Done(i, t)
           ends(i) == \/ f[i] = Failed(s)
                      \/ \E j \in 0 .. m : least <= j + 1 /\ f[i] = done(j)
           A == {k \in Nat : \A i \in 0 .. m : i < k /\ least <= i + 1 => ends(i)}
           stop(i) == Halfway(i, least) = i \/ i < least
<1>1. \A i \in Nat : stop(i) \/ (Halfway(i, least) \in 0 .. i - 1
                                 /\ least <= Halfway(i, least) + 1)
  BY DEF Halfway
<1>2. \A i \in 0 .. m : f[i] = IF i \in 1 .. limit THEN done(i)
                               ELSE IF stop(i) THEN Failed(s) ELSE f[Halfway(i, least)]
  BY DEF Tries
<1> HIDE DEF stop, done
<1>3. 0 \in A
  OBVIOUS
<1>4. ASSUME NEW k \in Nat, k \in A
      PROVE  k + 1 \in A
  <2> SUFFICES ASSUME NEW i \in 0 .. m, i < k + 1, least <= i + 1
               PROVE  ends(i)
    OBVIOUS
  <2>1. f[i] = done(i) \/ f[i] = Failed(s) \/ (f[i] = f[Halfway(i, least)] /\ ~stop(i))
    BY <1>2
  <2>2. ASSUME ~stop(i)
        PROVE  ends(Halfway(i, least))
    <3> PICK h : h = Halfway(i, least)
      OBVIOUS
    <3>1. h \in 0 .. i - 1 /\ least <= h + 1
      BY <1>1, <2>2
    <3>2. h \in 0 .. m /\ h < k
      BY <3>1
    <3>3. ends(h)
      BY <1>4, <3>1, <3>2
    <3> QED
      BY <3>3
  <2> QED
    BY <2>1, <2>2
<1> HIDE DEF A
<1>5. \A k \in Nat : k \in A
  BY <1>3, <1>4, EveryNumber
<1>6. m + 1 \in A /\ m \in 0 .. m /\ m < m + 1 /\ least <= m + 1
  BY <1>5
<1>7. ends(m)
  BY <1>6 DEF A
<1> QED
  BY <1>7 DEF done

LEMMA RangeGood ==
  ASSUME NEW s, IsString(s), NEW minl \in 0 .. MaxLen, NEW maxl \in 0 .. MaxLen,
         NEW t, NEW n \in Nat, SeqLong(t, Chars, n), NEW limit \in Nat
  PROVE  Good(Bfromcstrrangealloc(s, minl, maxl, t, limit))
<1> PICK o : o = Bfromcstrrangealloc(s, minl, maxl, t, limit)
  OBVIOUS
<1>1. MaxLen \in Nat /\ Len(t) = n
  BY BstringAssumption DEF SeqLong
<1> DEFINE least == Max({minl, Len(t) + 1})
           first == Max({maxl, least})
           next(i) == i \div 2 + least \div 2
           f == CHOOSE f : f = [i \in 0 .. first |->
                  IF i \in 1 .. limit THEN Done(i, t)
                  ELSE IF next(i) = i \/ i < least THEN Failed(s)
                  ELSE f[next(i)]]
<1>2. o = IF maxl < minl \/ minl < 0 THEN Failed(s) ELSE f[first]
  BY Zenon DEF Bfromcstrrangealloc
<1>3. least = IF minl <= n + 1 THEN n + 1 ELSE minl
  <2>1. minl \in Int /\ n + 1 \in Int
    BY <1>1
  <2>2. Max({minl, n + 1}) = IF minl <= n + 1 THEN n + 1 ELSE minl
    BY ONLY <2>1, OfTwo
  <2> QED
    BY <1>1, <2>2
<1>4. (\E g : Tries(g, s, t, least, limit, first)) => Tries(f, s, t, least, limit, first)
  BY Zenon DEF Tries, Halfway
<1> HIDE DEF f
<1>5. least \in Nat /\ n < least
  <2> HIDE DEF least
  <2> QED
    BY <1>1, <1>3
<1>6. first = IF maxl <= least THEN least ELSE maxl
  <2> HIDE DEF least
  <2>1. maxl \in Int /\ least \in Int
    BY <1>1, <1>5
  <2> QED
    BY ONLY <2>1, OfTwo
<1> HIDE DEF first, least
<1>7. first \in Nat /\ least <= first
  BY <1>1, <1>5, <1>6
<1>8. Tries(f, s, t, least, limit, first)
  BY <1>1, <1>4, <1>5, <1>7, TriesExist
<1>9. Good(Failed(s))
  BY GoodSame
<1>10. f[first] = Failed(s) \/ \E i \in 0 .. first : least <= i + 1 /\ f[first] = Done(i, t)
  BY <1>5, <1>7, <1>8, TriesEnd
<1>11. \A i \in 0 .. first : least <= i + 1 => Good(Done(i, t))
  <2>1. \A i \in 0 .. first : i \in Nat /\ (least <= i + 1 => n <= i)
    BY <1>5, <1>7
  <2> QED
    BY <2>1, GoodDone
<1> QED
  BY <1>2, <1>9, <1>10, <1>11

-----------------------------------------------------------------------------
(* The string of Spec.                                                      *)

LEMMA Becomes ==
  ASSUME NEW o, Good(o), Become(o)
  PROVE  IsString(b')
BY DEF Good, Become

LEMMA TextLong ==
  ASSUME NEW t \in Texts
  PROVE  \E m \in Nat : SeqLong(t, Chars, m)
<1>1. t \in Seq(Chars) /\ Len(t) \in Nat
  BY BstringAssumption
<1>2. SeqLong(t, Chars, Len(t))
  BY <1>1 DEF SeqLong
<1> QED
  BY <1>1, <1>2

LEMMA LimitNat ==
  ASSUME NEW limit \in Limits
  PROVE  limit \in Nat
BY BstringAssumption

\* The first string is one that was written whole.
LEMMA InitTypeOK ==
  ASSUME Init
  PROVE  TypeOK
<1> DEFINE none == [data |-> <<>>, mlen |-> 0, ended |-> FALSE]
<1>1. PICK t \in Texts, limit \in Limits :
        ~Bfromcstr(none, t, limit).failed /\ b = Bfromcstr(none, t, limit).b
  BY DEF Init
<1>2. PICK m \in Nat : SeqLong(t, Chars, m)
  BY TextLong
<1>3. Len(t) = m
  BY <1>2 DEF SeqLong
<1>4. (m + IF t = <<>> THEN 2 ELSE 1) \in Nat /\ m < (m + IF t = <<>> THEN 2 ELSE 1)
  OBVIOUS
<1> PICK k \in Nat : k = m + IF t = <<>> THEN 2 ELSE 1
  BY <1>4
<1>5. SnapUp(k) \in Nat /\ m < SnapUp(k)
  <2>1. m < k /\ SnapUp(k) \in Nat /\ SnapUp(k) > k
    BY <1>4, SnapUpAbove
  <2> QED
    BY <2>1
<1>6. Bfromcstr(none, t, limit) = New(none, SnapUp(k), t, limit)
  BY <1>3 DEF Bfromcstr
<1>7. b = Done(SnapUp(k), t).b
  <2>1. Failed(none).failed
    BY DEF Failed, Outcome
  <2> HIDE DEF none
  <2> QED
    BY <1>1, <1>6, <2>1 DEF New
<1>8. IsString(b)
  BY <1>2, <1>5, <1>7, DoneIsString
<1> QED
  BY <1>8 DEF IsString, TypeOK

LEMMA CreateKeeps ==
  ASSUME IsString(b), NEW limit \in Limits, Create(limit)
  PROVE  IsString(b')
<1>1. PICK t \in Texts :
        \/ Become(Bfromcstr(b, t, limit))
        \/ Become(Bstrcpy(b, b.data, limit))
        \/ \E minl \in 0 .. MaxLen, maxl \in 0 .. MaxLen :
             Become(Bfromcstrrangealloc(b, minl, maxl, t, limit))
  BY DEF Create
<1>2. PICK m \in Nat : SeqLong(t, Chars, m)
  BY TextLong
<1>3. b.data \in Seq(Chars) /\ Len(b.data) \in Nat
  BY DEF IsString
<1>4. SeqLong(b.data, Chars, Len(b.data))
  BY <1>3 DEF SeqLong
<1>5. Good(Bfromcstr(b, t, limit)) /\ Good(Bstrcpy(b, b.data, limit))
  BY <1>2, <1>3, <1>4, BfromcstrGood
<1>6. \A minl \in 0 .. MaxLen, maxl \in 0 .. MaxLen :
        Good(Bfromcstrrangealloc(b, minl, maxl, t, limit))
  BY <1>2, LimitNat, RangeGood
<1> QED
  BY <1>1, <1>5, <1>6, Becomes

LEMMA SizeKeeps ==
  ASSUME IsString(b), b.ended, NEW limit \in Limits, Size(limit)
  PROVE  IsString(b')
<1>1. PICK len \in Positions :
        \/ Become(Ballocmin(b, len, limit))
        \/ Become(Within(b, Balloc(b, len, limit), b.data))
  BY DEF Size
<1>2. PICK l \in Nat : Whole(b, l)
  BY WholeIs
<1>3. len \in Int /\ limit \in Nat
  BY LimitNat DEF Positions
<1>4. Good(Ballocmin(b, len, limit)) /\ Good(Within(b, Balloc(b, len, limit), b.data))
  BY <1>2, <1>3, SizeGood
<1> QED
  BY <1>1, <1>4, Becomes

LEMMA AppendKeeps ==
  ASSUME TypeOK, IsString(b), b.ended, NEW limit \in Limits, AppendTo(limit)
  PROVE  IsString(b')
<1>1. PICK l \in Nat : Whole(b, l)
  BY WholeIs
<1>2. limit \in Nat
  BY LimitNat
<1>3. ASSUME NEW arg \in Args
      PROVE  Good(Bconcat(b, arg, limit))
  <2>1. PICK n \in Nat : SeqLong(arg.text, Chars, n)
    BY ArgText
  <2> QED
    BY <1>1, <1>2, <2>1, AppendGood
<1>4. ASSUME NEW c \in Chars
      PROVE  Good(Bconchar(b, c, limit))
  BY <1>1, <1>2, BconcharGood
<1>5. ASSUME NEW t \in Texts
      PROVE  Good(Bcatblk(b, t, limit)) /\ Good(Bcatcstr(b, t, limit))
  <2>1. PICK m \in Nat : SeqLong(t, Chars, m)
    BY TextLong
  <2>2. Own(t).text = t
    BY DEF Own
  <2> QED
    BY <1>1, <1>2, <2>1, <2>2, AppendGood
<1> QED
  BY <1>3, <1>4, <1>5, Becomes DEF AppendTo

LEMMA AssignKeeps ==
  ASSUME TypeOK, IsString(b), b.ended, NEW limit \in Limits, Assign(limit)
  PROVE  IsString(b')
<1>1. PICK l \in Nat : Whole(b, l)
  BY WholeIs
<1>4. limit \in Nat
  BY LimitNat
<1>2. ASSUME NEW arg \in Args, ~Displaced(arg)
      PROVE  Good(Bassign(b, arg, limit))
  <2>1. PICK n \in Nat : SeqLong(arg.text, Chars, n)
    BY ArgText
  <2>2. arg.own \/ n < b.mlen
    BY <1>1, <1>2, <2>1 DEF Displaced, SeqLong, Whole
  <2> QED
    BY <1>1, <1>4, <2>1, <2>2, AssignGood
<1>3. ASSUME NEW t \in Texts
      PROVE  Good(Bassigncstr(b, t, limit)) /\ Good(Bassignblk(b, t, limit))
  <2>1. PICK m \in Nat : SeqLong(t, Chars, m)
    BY TextLong
  <2>2. Own(t).text = t /\ Own(t).own
    BY DEF Own
  <2> QED
    BY <1>1, <1>4, <2>1, <2>2, AssignGood
<1> QED
  BY <1>2, <1>3, Becomes DEF Assign

LEMMA CutKeeps ==
  ASSUME IsString(b), b.ended, Cut
  PROVE  IsString(b')
<1>1. PICK l \in Nat : Whole(b, l)
  BY WholeIs
<1>2. \A pos \in Positions, len \in Positions :
        Good(Btrunc(b, pos)) /\ Good(Bdelete(b, pos, len))
  BY <1>1, CutGood DEF Positions
<1> QED
  BY <1>2, Becomes DEF Cut

\* A call that is given a negative number fails.
LEMMA NegativeFails ==
  ASSUME NEW s, NEW pos \in Int, NEW len \in Int, NEW arg, NEW c, NEW limit
  PROVE  /\ pos < 0 => Bsetstr(s, pos, arg, c, limit) = Failed(s)
         /\ pos < 0 => Binsert(s, pos, arg, c, limit) = Failed(s)
         /\ pos < 0 \/ len < 0 => Breplace(s, pos, len, arg, c, limit) = Failed(s)
         /\ pos < 0 \/ len < 0 => Binsertch(s, pos, len, c, limit) = Failed(s)
BY Zenon DEF Bsetstr, Binsert, Breplace, Binsertch

LEMMA EditKeeps ==
  ASSUME TypeOK, IsString(b), b.ended, NEW limit \in Limits, Edit(limit)
  PROVE  IsString(b')
<1>1. PICK l \in Nat : Whole(b, l)
  BY WholeIs
<1>2. limit \in Nat /\ Positions \subseteq Int
  BY LimitNat DEF Positions
<1>3. Good(Failed(b))
  BY GoodSame
<1>4. ASSUME NEW pos \in Int, NEW len \in Int, NEW c \in Chars, NEW arg \in Args
      PROVE  /\ Good(Bsetstr(b, pos, arg, c, limit)) /\ Good(Binsert(b, pos, arg, c, limit))
             /\ Good(Breplace(b, pos, len, arg, c, limit))
             /\ Good(Binsertch(b, pos, len, c, limit))
  <2>1. PICK n \in Nat : SeqLong(arg.text, Chars, n)
    BY ArgText
  <2>2. CASE pos \in Nat /\ len \in Nat
    BY <1>1, <2>1, <2>2, <1>2, EditGood
  <2>3. CASE pos \in Nat /\ len < 0
    <3>1. Good(Bsetstr(b, pos, arg, c, limit)) /\ Good(Binsert(b, pos, arg, c, limit))
      BY <1>1, <2>1, <2>3, <1>2, EditGood
    <3>2. /\ Breplace(b, pos, len, arg, c, limit) = Failed(b)
          /\ Binsertch(b, pos, len, c, limit) = Failed(b)
      BY <2>3, NegativeFails
    <3> QED
      BY <1>3, <3>1, <3>2
  <2>4. CASE pos < 0
    BY <1>3, <2>4, NegativeFails
  <2> QED
    BY <2>2, <2>3, <2>4
<1>5. Part(b, 0, 0) \in Args
  <2>1. 0 \in 0 .. Len(b.data)
    BY DEF TypeOK
  <2> QED
    BY <2>1 DEF Args
<1>6. ASSUME NEW pos \in Int
      PROVE  Good(Bpattern(b, pos, limit))
  BY <1>1, <1>2, PatternGood
<1>7. PICK pos \in Int, c \in Chars :
        \/ \E arg \in Args :
             \/ Become(Bsetstr(b, pos, arg, c, limit))
             \/ Become(Binsert(b, pos, arg, c, limit))
             \/ \E len \in Int : Become(Breplace(b, pos, len, arg, c, limit))
        \/ \E len \in Int : Become(Binsertch(b, pos, len, c, limit))
        \/ Become(Bpattern(b, pos, limit))
  BY <1>2 DEF Edit
<1> QED
  BY <1>4, <1>5, <1>6, <1>7, Becomes

LEMMA FindReplaceKeeps ==
  ASSUME TypeOK, IsString(b), b.ended, NEW limit \in Limits, FindReplace(limit)
  PROVE  IsString(b')
<1>1. PICK l \in Nat : Whole(b, l)
  BY WholeIs
<1>2. limit \in Nat /\ Positions \subseteq Int
  BY LimitNat DEF Positions
<1>3. PICK find \in Args, repl \in Args, pos \in Positions :
        ~Overlooked(find, repl, pos) /\ Become(Bfindreplace(b, find, repl, pos, limit))
  BY DEF FindReplace
<1>4. b.data \in Seq(Chars) /\ pos \in Int /\ SeqLong(b.data, Chars, l)
  BY <1>1, <1>2 DEF TypeOK, Whole
<1>5. PICK d \in Nat : SeqLong(find.text, Chars, d)
  BY ArgText
<1>6. PICK e \in Nat : SeqLong(repl.text, Chars, e)
  BY ArgText
<1> PICK w : w = AllReplaced(b.data, find.text, repl.text, pos)
  OBVIOUS
<1> PICK o : o = Bfindreplace(b, find, repl, pos, limit)
  OBVIOUS
<1>7. Replaces(o, b, l, w, limit)
  BY <1>3, <1>4, <1>5, <1>6, ArgLeft, BfindreplaceIs
<1> QED
  BY <1>1, <1>2, <1>3, <1>7, ReplacesGood, Becomes

LEMMA TypeKept ==
  ASSUME TypeOK, [Next]_vars
  PROVE  TypeOK'
<1>1. IsString(b)
  BY DEF TypeOK, IsString
<1>2. ASSUME b.ended, Cut
      PROVE  IsString(b')
  BY <1>1, <1>2, CutKeeps
<1>3. ASSUME NEW limit \in Limits, Create(limit)
      PROVE  IsString(b')
  BY <1>1, <1>3, CreateKeeps
<1>4. ASSUME NEW limit \in Limits, b.ended, Size(limit)
      PROVE  IsString(b')
  BY <1>1, <1>4, SizeKeeps
<1>5. ASSUME NEW limit \in Limits, b.ended, AppendTo(limit)
      PROVE  IsString(b')
  BY <1>1, <1>5, AppendKeeps
<1>6. ASSUME NEW limit \in Limits, b.ended, Assign(limit)
      PROVE  IsString(b')
  BY <1>1, <1>6, AssignKeeps
<1>7. ASSUME NEW limit \in Limits, b.ended, Edit(limit)
      PROVE  IsString(b')
  BY <1>1, <1>7, EditKeeps
<1>8. ASSUME NEW limit \in Limits, b.ended, FindReplace(limit)
      PROVE  IsString(b')
  BY <1>1, <1>8, FindReplaceKeeps
<1>9. ASSUME UNCHANGED vars
      PROVE  IsString(b')
  BY <1>1, <1>9 DEF vars
<1>10. IsString(b')
  BY <1>2, <1>3, <1>4, <1>5, <1>6, <1>7, <1>8, <1>9 DEF Next
<1> QED
  BY <1>10 DEF TypeOK, IsString

-----------------------------------------------------------------------------

\* However often a string is appended to, cut, edited, searched and replaced,
\* and whichever of the allocations fail: its characters are ones that were
\* written, never what a freed block held, and they lie inside its block
\* (bstrlib.c, the mlen >= slen that its functions test on entry).  Only the
\* zero byte after them may be one past it, when balloc has made do with the
\* least block that bassign, breplace or bfromcstrrangealloc ask for; and only
\* after a failed bcatcstr or bassigncstr there is none, and the block is full.
THEOREM StringsInsideTheirBlock ==
  Spec => []TypeOK
<1>1. Init => TypeOK
  BY InitTypeOK
<1>2. TypeOK /\ [Next]_vars => TypeOK'
  BY TypeKept
<1> QED
  BY <1>1, <1>2, PTL DEF Spec

\* bconcat, bassign, bsetstr, binsert, breplace, bdelete, binsertch and bpattern
\* leave the text their comments promise, or fail and leave the string as it
\* was, in every reachable state, for every text, position and length, whatever
\* the allocator grants, and also when the argument is part of the string and its
\* block is moved by the call.  Only bassign may lose a part that fills its block.
THEOREM EditsKeepTheirPromise ==
  Spec => []EditsKeepPromise
<1>1. TypeOK => EditsKeepPromise
  BY EditsKept
<1> QED
  BY <1>1, StringsInsideTheirBlock, PTL

\* bcatcstr and bassigncstr, which copy before they know the length, leave the
\* whole text, or fail and leave the part of it that fills the block.
THEOREM CopiesAreWholeOrFill ==
  Spec => []CopiesOrFills
<1>1. TypeOK => CopiesOrFills
  BY CopiesKept
<1> QED
  BY <1>1, StringsInsideTheirBlock, PTL

\* findreplaceengine moves the pieces between the places it finds, from the
\* left when the text shrinks and from the right when it grows, within one
\* block: the result is the text with each of the leftmost places replaced,
\* also if what is sought or put there is a part of the string, unless it grows
\* and repl is a part before pos.
THEOREM ReplacesEveryPlace ==
  Spec => []ReplacesAll
<1>1. TypeOK => ReplacesAll
  BY ReplacesKept
<1> QED
  BY <1>1, StringsInsideTheirBlock, PTL

-----------------------------------------------------------------------------
(* Streams.                                                                *)

\* The streams' variables have their types (see BstrStream).
StreamTypeOK == BS!TypeOK

\* The two parts a text is cut into.
IsCut(t, S, k, v, w) ==
  /\ t \in Seq(S) /\ v \in Seq(S) /\ w \in Seq(S)
  /\ k \in Nat /\ k <= Len(t) /\ Len(v) = k /\ Len(w) = Len(t) - k
  /\ t = v \o w
  /\ \A p \in 1 .. k : v[p] = t[p]

LEMMA CutParts ==
  ASSUME NEW S, NEW t \in Seq(S), NEW k \in Nat, k <= Len(t)
  PROVE  IsCut(t, S, k, SubSeq(t, 1, k), SubSeq(t, k + 1, Len(t)))
<1> PICK l \in Nat : l = Len(t)
  BY LenProperties
<1>1. /\ k \in Int /\ k + 1 \in Int /\ l \in Int /\ 1 \in Int
      /\ \A p \in 1 .. k : t[p] \in S
      /\ \A p \in k + 1 .. l : t[p] \in S
  BY ElementOfSeq
<1>2. /\ SubSeq(t, 1, k) \in Seq(S) /\ Len(SubSeq(t, 1, k)) = k
      /\ \A p \in 1 .. k : SubSeq(t, 1, k)[p] = t[p]
  BY <1>1, SubSeqProperties
<1>3. SubSeq(t, k + 1, l) \in Seq(S) /\ Len(SubSeq(t, k + 1, l)) = l - k
  BY <1>1, SubSeqProperties
<1>4. SubSeq(t, 1, k) \o SubSeq(t, k + 1, l) = t
  <2>1. 1 \in 1 .. l + 1 /\ k \in 1 - 1 .. l /\ l \in k .. l
    OBVIOUS
  <2>2. SubSeq(t, 1, k) \o SubSeq(t, k + 1, l) = SubSeq(t, 1, l)
    BY <2>1, ConcatAdjacentSubSeq
  <2> QED
    BY <2>2, SubSeqFull
<1> QED
  BY <1>2, <1>3, <1>4 DEF IsCut

\* A text that is made of two is cut into the same.
LEMMA CutOfTwo ==
  ASSUME NEW S, NEW v \in Seq(S), NEW w \in Seq(S)
  PROVE  /\ SubSeq(v \o w, 1, Len(v)) = v
         /\ SubSeq(v \o w, Len(v) + 1, Len(v \o w)) = w
<1> PICK t : t = v \o w
  OBVIOUS
<1> PICK k : k = Len(v)
  OBVIOUS
<1>1. t \in Seq(S) /\ Len(t) = k + Len(w) /\ k \in Nat /\ Len(w) \in Nat /\ k <= Len(t)
  BY ConcatProperties, LenProperties
<1> PICK x : x = SubSeq(t, 1, k)
  OBVIOUS
<1> PICK y : y = SubSeq(t, k + 1, Len(t))
  OBVIOUS
<1>2. IsCut(t, S, k, x, y)
  BY <1>1, CutParts
<1>3. x \in Seq(S) /\ y \in Seq(S) /\ Len(x) = k /\ Len(y) = Len(w) /\ t = x \o y
  BY ONLY <1>1, <1>2 DEF IsCut
<1>4. x = v
  <2>1. \A p \in 1 .. Len(v) : (v \o w)[p] = v[p]
    BY ONLY v \in Seq(S), w \in Seq(S), ConcatPlaces
  <2>2. \A p \in 1 .. Len(x) : (x \o y)[p] = x[p]
    BY ONLY <1>3, ConcatPlaces
  <2>3. \A p \in 1 .. Len(x) : x[p] = v[p]
    <3>1. Len(v) = Len(x) /\ v \o w = x \o y
      BY <1>3
    <3> QED
      BY ONLY <2>1, <2>2, <3>1, Zenon
  <2> QED
    BY <1>3, <2>3, SeqEqual
<1>5. y = w
  <2>1. v \o w = v \o y
    BY <1>3, <1>4
  <2> QED
    BY ONLY <1>3, <2>1, v \in Seq(S), w \in Seq(S), ConcatSimplifications
<1> QED
  BY <1>4, <1>5

\* Where a line ends.
LEMMA EndIs ==
  ASSUME NEW S, NEW t \in Seq(S), NEW term
  PROVE  /\ BS!End(t, term) \in Nat /\ 0 < BS!End(t, term) /\ BS!End(t, term) <= Len(t) + 1
         /\ BS!End(t, term) <= Len(t) => t[BS!End(t, term)] \in term
         /\ \A p \in 1 .. BS!End(t, term) - 1 : t[p] \notin term
<1> PICK l \in Nat : l = Len(t)
  BY LenProperties
<1> PICK I : I = {p \in 1 .. l : t[p] \in term}
  OBVIOUS
<1>1. BS!SelectInSeq(t, LAMBDA c : c \in term) = IF I # {} THEN BS!Min(I) ELSE 0
  BY DEF BS!SelectInSeq
<1>2. BS!Min(I) = Min(I)
  BY DEF BS!Min, Min
<1>3. I \in SUBSET (1 .. l)
  OBVIOUS
<1>4. CASE I = {}
  <2>1. BS!End(t, term) = l + 1
    BY <1>1, <1>4 DEF BS!End
  <2>2. \A p \in 1 .. l : t[p] \notin term
    BY <1>4
  <2> QED
    BY <2>1, <2>2
<1>5. CASE I # {}
  <2> PICK m : m = Min(I)
    OBVIOUS
  <2>1. m \in I /\ \A x \in I : m <= x
    BY <1>3, <1>5, FirstPosition
  <2>2. m \in 1 .. l /\ t[m] \in term
    BY <2>1
  <2>3. BS!End(t, term) = m
    BY <1>1, <1>2, <1>5, <2>2 DEF BS!End
  <2>4. \A p \in 1 .. m - 1 : t[p] \notin term
    BY <2>1, <2>2
  <2> QED
    BY <2>2, <2>3, <2>4
<1> QED
  BY <1>4, <1>5

\* The variables have their types; the call under way has the arguments it was
\* given, or is none.
StreamTypes ==
  /\ source \in Seq(BS!Characters) /\ buff \in Seq(BS!Characters)
  /\ read \in Seq(BS!Characters)
  /\ partial \in BOOLEAN /\ failed \in BOOLEAN /\ isEOF \in BOOLEAN
  /\ maxBuffSz \in Sizes /\ ret \in {0, -1}
  /\ call \in [kind : {"none", "line", "length"}, term : {{}} \cup Terminators,
               asked : Nat, n : Nat, rlo : Nat, direct : BOOLEAN]
  /\ Len(buff) + Len(source) <= MaxRest

\* The source has ended when isEOF says so, and everything is read when the last
\* call returned an error; or the source has failed.
EndsKnown ==
  /\ isEOF => source = <<>> \/ failed
  /\ call.kind = "none" /\ ret = -1 =>
       \/ buff = <<>> /\ source = <<>>
       \/ failed /\ isEOF

\* What was read of a line holds no terminator.
LineGoesOn ==
  call.kind = "line" =>
    /\ call.rlo <= Len(read)
    /\ \A p \in call.rlo + 1 .. Len(read) : read[p] \notin call.term

\* What was read is not more than what was asked for; nothing has been read, and
\* nothing is in the buffer, when the source is asked only once.
LengthGoesOn ==
  call.kind = "length" =>
    /\ 0 < call.asked /\ call.n = call.rlo + call.asked
    /\ call.rlo <= Len(read) /\ Len(read) <= call.n
    /\ call.direct => buff = <<>> /\ Len(read) = call.rlo

StreamInv == StreamTypes /\ EndsKnown /\ LineGoesOn /\ LengthGoesOn

\* What a step of the stream means for Stream, and for its callers.
Steps == BS!AbstractStream!Next \/ UNCHANGED BS!AbstractStream!vars

Answered == BS!LineEnds /\ BS!LengthExact /\ BS!NoReadAhead /\ BS!ErrorMeansEnd

\* A step that reads the first part of what is still to be read.
LEMMA ReadsFirst ==
  ASSUME NEW S, NEW v \in Seq(S), NEW w \in Seq(S), BS!Rest = v \o w,
         NEW base \in {read, <<>>}, read' = base \o v, BS!Rest' = w
  PROVE  Steps
<1>1. Len(v \o w) = Len(v) + Len(w) /\ Len(v) \in Nat /\ Len(w) \in Nat
  BY ConcatProperties, LenProperties
<1> PICK k : k = Len(v)
  OBVIOUS
<1>2. SubSeq(BS!Rest, 1, k) = v /\ SubSeq(BS!Rest, k + 1, Len(BS!Rest)) = w
  BY CutOfTwo
<1>3. k \in 0 .. Len(BS!Rest)
  BY <1>1
<1>4. /\ read' = base \o SubSeq(BS!Rest, 1, k)
      /\ BS!Rest' = SubSeq(BS!Rest, k + 1, Len(BS!Rest))
  BY <1>2
<1>5. BS!AbstractStream!Read
  BY <1>3, <1>4, Zenon DEF BS!AbstractStream!Read
<1> QED
  BY <1>5 DEF Steps, BS!AbstractStream!Next

\* How much the source may return.
LEMMA LengthsAre ==
  ASSUME StreamTypes, NEW n \in Nat, 0 < n, NEW k \in BS!Lengths(n)
  PROVE  /\ k \in Int /\ k <= n /\ k <= Len(source)
         /\ 0 < k /\ k < n => partial \/ k = Len(source)
<1> PICK l \in Nat : l = Len(source)
  BY LenProperties DEF StreamTypes
<1> PICK m \in Nat : m = IF n <= l THEN n ELSE l
  OBVIOUS
<1>1. BS!Min({n, Len(source)}) = m
  <2>1. BS!Min({n, l}) = Min({n, l})
    BY DEF BS!Min, Min
  <2> QED
    BY <2>1, OfTwo
<1>2. BS!Lengths(n) = {-1, 0} \cup (IF partial THEN 1 .. m ELSE {m})
  BY <1>1, Zenon DEF BS!Lengths
<1>3. k \in Int /\ k <= m /\ (0 < k /\ k < m => partial)
  BY <1>2
<1> QED
  BY <1>3

\* What a read takes from the source: k characters, or none.
Taken(k) == IF k > 0 THEN k ELSE 0

LEMMA ConsumeCuts ==
  ASSUME StreamTypes, NEW k \in Int, k <= Len(source), BS!Consume(k)
  PROVE  /\ IsCut(source, BS!Characters, Taken(k), BS!Chunk(k), source')
         /\ failed' \in BOOLEAN /\ (failed => failed')
         /\ source = <<>> => source' = <<>>
         /\ k <= 0 => source' = source /\ (source = <<>> \/ failed')
<1>1. source \in Seq(BS!Characters) /\ failed \in BOOLEAN /\ Len(source) \in Nat
  BY LenProperties DEF StreamTypes
<1>2. failed' \in BOOLEAN /\ (failed => failed')
  BY <1>1 DEF BS!Consume
<1>3. k <= 0 => source' = source /\ (source = <<>> \/ failed')
  <2>1. source' = IF k > 0 THEN SubSeq(source, k + 1, Len(source)) ELSE source
    BY DEF BS!Consume
  <2>2. failed' = (failed \/ (k <= 0 /\ source # <<>>))
    BY DEF BS!Consume
  <2>3. k <= 0 => ~(k > 0)
    OBVIOUS
  <2> QED
    BY <1>1, <2>1, <2>2, <2>3, Zenon
<1>4. IsCut(source, BS!Characters, Taken(k), BS!Chunk(k), source')
  <2>1. CASE k > 0
    <3>1. source' = SubSeq(source, k + 1, Len(source)) /\ BS!Chunk(k) = SubSeq(source, 1, k)
      BY <2>1 DEF BS!Consume, BS!Chunk
    <3>2. k \in Nat /\ Taken(k) = k
      BY <2>1 DEF Taken
    <3> QED
      BY <1>1, <3>1, <3>2, CutParts
  <2>2. CASE ~(k > 0)
    <3>1. source' = source /\ Taken(k) = 0
      BY <1>3, <2>2 DEF Taken
    <3>2. BS!Chunk(k) = <<>>
      BY <1>1, <2>2 DEF BS!Chunk
    <3>3. <<>> \in Seq(BS!Characters) /\ Len(<<>>) = 0 /\ source = <<>> \o source
      BY <1>1, EmptySeq, ConcatEmptySeq
    <3> QED
      BY <1>1, <3>1, <3>2, <3>3 DEF IsCut
  <2> QED
    BY <2>1, <2>2
<1>5. source = <<>> => source' = <<>>
  <2>1. ASSUME source = <<>>
        PROVE  source' = <<>>
    <3>1. Len(source) = 0
      BY <1>1, <2>1, EmptySeq
    <3> QED
      BY <1>3, <3>1
  <2> QED
    BY <2>1
<1> QED
  BY <1>2, <1>3, <1>4, <1>5

\* A call that has returned.
LEMMA CallReturned ==
  ASSUME source' \in Seq(BS!Characters), buff' \in Seq(BS!Characters),
         read' \in Seq(BS!Characters), partial' \in BOOLEAN, failed' \in BOOLEAN,
         isEOF' \in BOOLEAN,
         maxBuffSz' \in Sizes, ret' \in {0, -1}, call' = BS!None,
         Len(buff') + Len(source') <= MaxRest,
         isEOF' => source' = <<>> \/ failed',
         ret' = -1 => (buff' = <<>> /\ source' = <<>>) \/ (failed' /\ isEOF')
  PROVE  StreamInv'
<1>1. /\ BS!None.kind = "none"
      /\ BS!None \in [kind : {"none", "line", "length"}, term : {{}} \cup Terminators,
                      asked : Nat, n : Nat, rlo : Nat, direct : BOOLEAN]
  BY DEF BS!None
<1>2. call'.kind = "none"
  BY <1>1
<1>3. StreamTypes'
  BY <1>1 DEF StreamTypes
<1>4. EndsKnown'
  BY DEF EndsKnown
<1>5. LineGoesOn' /\ LengthGoesOn'
  BY <1>2 DEF LineGoesOn, LengthGoesOn
<1> QED
  BY <1>3, <1>4, <1>5 DEF StreamInv

\* Two texts, of which the first is cut, and read as far as the cut.
LEMMA CutBefore ==
  ASSUME NEW S, NEW t, NEW k, NEW v, NEW w, IsCut(t, S, k, v, w), NEW u \in Seq(S)
  PROVE  t \o u = v \o (w \o u) /\ w \o u \in Seq(S)
<1>1. v \in Seq(S) /\ w \in Seq(S) /\ t = v \o w
  BY DEF IsCut
<1> QED
  BY <1>1, ConcatAssociative, ConcatProperties


\* bsreadln and the like.
LEMMA BsreadlnStep ==
  ASSUME BS!BstrStreamAssumption, StreamInv, NEW term \in Terminators,
         NEW fresh \in BOOLEAN, BS!Bsreadln(term, fresh)
  PROVE  StreamInv' /\ Steps /\ Answered
<1> PICK C : C = BS!Characters
  OBVIOUS
<1> PICK base : base = IF fresh THEN <<>> ELSE read
  OBVIOUS
<1> PICK e : e = BS!End(buff, term)
  OBVIOUS
<1>1. /\ source \in Seq(C) /\ buff \in Seq(C) /\ read \in Seq(C)
      /\ partial \in BOOLEAN /\ failed \in BOOLEAN /\ isEOF \in BOOLEAN /\ maxBuffSz \in Sizes
      /\ Len(buff) + Len(source) <= MaxRest /\ (isEOF => source = <<>> \/ failed)
      /\ Len(source) \in Nat /\ Len(buff) \in Nat
  BY LenProperties DEF StreamInv, StreamTypes, EndsKnown
<1>2. base \in Seq(C) /\ base \in {read, <<>>} /\ Len(base) \in Nat
  BY <1>1, EmptySeq, LenProperties
<1>3. /\ e \in Nat /\ 0 < e /\ e <= Len(buff) + 1
      /\ \A p \in 1 .. e - 1 : buff[p] \notin term
  BY <1>1, EndIs
<1>4. /\ call.kind = "none" /\ UNCHANGED <<source, partial, failed, isEOF, maxBuffSz>>
      /\ IF e <= Len(buff)
           THEN /\ read' = base \o BS!Upto(buff, e) /\ buff' = BS!After(buff, e)
                /\ ret' = 0 /\ UNCHANGED call
           ELSE /\ read' = base \o buff
                /\ call' = [BS!None EXCEPT !.kind = "line", !.term = term,
                                           !.rlo = Len(base)]
                /\ UNCHANGED <<buff, ret>>
  BY DEF BS!Bsreadln, BS!Idle
<1>5. BS!Rest = buff \o source
  BY <1>4 DEF BS!Rest
<1>6. BS!LineEnds /\ BS!LengthExact /\ BS!NoReadAhead
  BY <1>4 DEF BS!LineEnds, BS!LengthExact, BS!NoReadAhead
<1>7. CASE e <= Len(buff)
  <2> PICK v : v = BS!Upto(buff, e)
    OBVIOUS
  <2> PICK w : w = BS!After(buff, e)
    OBVIOUS
  <2>1. read' = base \o v /\ buff' = w /\ ret' = 0 /\ UNCHANGED call
    BY <1>4, <1>7
  <2>2. IsCut(buff, C, e, v, w)
    BY <1>1, <1>3, <1>7, CutParts DEF BS!Upto, BS!After
  <2>3. v \in Seq(C) /\ w \in Seq(C) /\ Len(w) = Len(buff) - e
    BY <2>2 DEF IsCut
  <2>4. buff \o source = v \o (w \o source) /\ w \o source \in Seq(C)
    BY ONLY <1>1, <2>2, CutBefore
  <2>5. BS!Rest' = w \o source
    BY <1>4, <2>1 DEF BS!Rest
  <2>6. Steps
    BY <1>2, <1>5, <2>1, <2>3, <2>4, <2>5, ReadsFirst
  <2>7. /\ read' \in Seq(C) /\ Len(buff') + Len(source') <= MaxRest /\ call'.kind = "none"
    <3>1. read' \in Seq(C)
      BY <1>2, <2>1, <2>3, ConcatProperties
    <3>2. MaxRest \in Nat
      BY DEF BS!BstrStreamAssumption
    <3>3. Len(buff') + Len(source') <= MaxRest
      BY <1>1, <1>3, <1>4, <2>1, <2>3, <3>2
    <3> QED
      BY <1>4, <2>1, <3>1, <3>3
  <2>8. StreamInv'
    <3>1. StreamTypes'
      BY <1>1, <1>4, <2>1, <2>3, <2>7 DEF StreamInv, StreamTypes
    <3>2. EndsKnown'
      BY <1>1, <1>4, <2>1 DEF EndsKnown
    <3>3. LineGoesOn' /\ LengthGoesOn'
      BY <2>7 DEF LineGoesOn, LengthGoesOn
    <3> QED
      BY <3>1, <3>2, <3>3 DEF StreamInv
  <2>9. BS!ErrorMeansEnd
    BY <1>1, <1>4, <2>1 DEF BS!ErrorMeansEnd
  <2> QED
    BY <1>6, <2>6, <2>8, <2>9 DEF Answered
<1>8. CASE ~(e <= Len(buff))
  <2>1. /\ read' = base \o buff /\ UNCHANGED <<buff, ret>>
        /\ call' = [BS!None EXCEPT !.kind = "line", !.term = term, !.rlo = Len(base)]
    BY <1>4, <1>8
  <2>2. /\ call'.kind = "line" /\ call'.term = term /\ call'.rlo = Len(base)
        /\ call' \in [kind : {"none", "line", "length"}, term : {{}} \cup Terminators,
                      asked : Nat, n : Nat, rlo : Nat, direct : BOOLEAN]
    BY <1>2, <2>1 DEF BS!None
  <2>3. BS!Rest' = source
    BY <1>4, <2>2 DEF BS!Rest
  <2>4. Steps
    BY <1>1, <1>2, <1>5, <2>1, <2>3, ReadsFirst
  <2>5. /\ read' \in Seq(C) /\ Len(read') = Len(base) + Len(buff)
        /\ \A p \in 1 .. Len(buff) : read'[Len(base) + p] = buff[p]
    BY <1>1, <1>2, <2>1, ConcatPlaces
  <2>6. StreamTypes'
    BY <1>1, <1>4, <2>1, <2>2, <2>5 DEF StreamInv, StreamTypes
  <2>7. LineGoesOn'
    <3>1. \A p \in 1 .. Len(buff) : buff[p] \notin term
      BY <1>1, <1>3, <1>8
    <3>2. ASSUME NEW p \in Len(base) + 1 .. Len(read')
          PROVE  read'[p] \notin term
      <4> PICK q : q = p - Len(base)
        OBVIOUS
      <4>1. q \in 1 .. Len(buff) /\ Len(base) + q = p
        BY <1>1, <1>2, <2>5, <3>2
      <4> QED
        BY <2>5, <3>1, <4>1
    <3>3. Len(base) <= Len(read')
      BY <1>1, <1>2, <2>5
    <3> QED
      BY <2>2, <3>2, <3>3 DEF LineGoesOn
  <2>8. StreamInv'
    <3>1. EndsKnown' /\ LengthGoesOn'
      BY <1>1, <1>4, <2>2 DEF EndsKnown, LengthGoesOn
    <3> QED
      BY <2>6, <2>7, <3>1 DEF StreamInv
  <2>9. BS!ErrorMeansEnd
    BY <2>2 DEF BS!ErrorMeansEnd, BS!Idle
  <2> QED
    BY <1>6, <2>4, <2>8, <2>9 DEF Answered
<1> QED
  BY <1>7, <1>8

\* What was read of a line.
LEMMA LineIs ==
  ASSUME NEW S, NEW t \in Seq(S), NEW lo \in Nat, lo <= Len(t), NEW line,
         line = BS!After(t, lo)
  PROVE  /\ line \in Seq(S) /\ Len(line) \in Nat /\ Len(line) = Len(t) - lo
         /\ \A p \in 1 .. Len(line) : line[p] = t[lo + p]
<1> PICK l \in Nat : l = Len(t)
  BY LenProperties
<1>1. \A p \in lo + 1 .. l : t[p] \in S
  BY ElementOfSeq
<1>2. line = SubSeq(t, lo + 1, l)
  BY DEF BS!After
<1>3. /\ line \in Seq(S) /\ Len(line) = IF lo + 1 <= l THEN l - (lo + 1) + 1 ELSE 0
      /\ \A p \in 1 .. l - (lo + 1) + 1 : line[p] = t[lo + 1 + p - 1]
  <2>1. lo + 1 \in Int /\ l \in Int
    OBVIOUS
  <2> QED
    BY ONLY <1>1, <1>2, <2>1, SubSeqProperties
<1>4. Len(line) = l - lo /\ l - lo \in Nat /\ l - (lo + 1) + 1 = l - lo
  BY ONLY <1>3, l \in Nat, lo \in Nat, lo <= l
<1>5. \A p \in 1 .. l - lo : lo + 1 + p - 1 = lo + p
  BY ONLY l \in Nat, lo \in Nat
<1>6. \A p \in 1 .. l - lo : line[p] = t[lo + p]
  BY ONLY <1>3, <1>4, <1>5
<1> QED
  BY <1>3, <1>4, <1>6

\* No terminator is added to it, but perhaps one that ends it.
LEMMA LineLonger ==
  ASSUME NEW S, NEW term, NEW t \in Seq(S), NEW lo \in Nat, lo <= Len(t),
         \A p \in lo + 1 .. Len(t) : t[p] \notin term,
         NEW v \in Seq(S), NEW n \in Int, n <= Len(v),
         \A p \in 1 .. n : v[p] \notin term
  PROVE  \A p \in lo + 1 .. Len(t) + n : (t \o v)[p] \notin term
<1> PICK u : u = t \o v
  OBVIOUS
<1> PICK l \in Nat : l = Len(t)
  BY LenProperties
<1> PICK m \in Nat : m = Len(v)
  BY LenProperties
<1>1. /\ \A p \in 1 .. l : u[p] = t[p]
      /\ \A p \in 1 .. m : u[l + p] = v[p]
  BY ConcatPlaces
<1>2. ASSUME NEW p \in lo + 1 .. l + n
      PROVE  u[p] \notin term
  <2>1. CASE p <= l
    <3>1. p \in lo + 1 .. l /\ p \in 1 .. l
      BY <2>1
    <3> QED
      BY <1>1, <3>1
  <2>2. CASE p > l
    <3> PICK q : q = p - l
      OBVIOUS
    <3>1. q \in 1 .. n /\ q \in 1 .. m /\ l + q = p
      <4>1. p \in Int /\ p <= l + n /\ p > l /\ l \in Nat /\ n \in Int /\ n <= m /\ m \in Nat
        BY <2>2
      <4> QED
        BY ONLY <4>1, q = p - l
    <3>2. u[p] = v[q] /\ v[q] \notin term
      BY <1>1, <3>1
    <3> QED
      BY <3>2
  <2> QED
    BY <2>1, <2>2
<1> QED
  BY <1>2

\* All of a line but its last character.
LEMMA AllButLast ==
  ASSUME NEW S, NEW term, NEW t \in Seq(S), NEW lo \in Nat, lo <= Len(t),
         NEW n \in Int, Len(t) - 1 <= n,
         \A p \in lo + 1 .. n : t[p] \notin term,
         NEW line, line = BS!After(t, lo)
  PROVE  \A p \in 1 .. Len(line) - 1 : line[p] \notin term
<1> PICK l \in Nat : l = Len(t)
  BY LenProperties
<1>1. Len(line) \in Nat /\ Len(line) = l - lo /\ \A p \in 1 .. Len(line) : line[p] = t[lo + p]
  BY LineIs
<1>2. ASSUME NEW p \in 1 .. Len(line) - 1
      PROVE  line[p] \notin term
  <2>1. p \in 1 .. Len(line) /\ lo + p \in lo + 1 .. n
    BY ONLY <1>1, p \in 1 .. Len(line) - 1, lo \in Nat, l \in Nat, n \in Int, l - 1 <= n
  <2> QED
    BY <1>1, <2>1
<1> QED
  BY <1>2

\* A round of a line.
LEMMA LineChunkStep ==
  ASSUME BS!BstrStreamAssumption, StreamInv, NEW k, BS!LineChunk(k)
  PROVE  StreamInv' /\ Steps /\ Answered
<1> PICK C : C = BS!Characters
  OBVIOUS
<1> PICK chunk : chunk = BS!Chunk(k)
  OBVIOUS
<1> PICK e : e = BS!End(chunk, call.term)
  OBVIOUS
<1>1. /\ source \in Seq(C) /\ buff \in Seq(C) /\ read \in Seq(C)
      /\ partial \in BOOLEAN /\ failed \in BOOLEAN /\ isEOF \in BOOLEAN
      /\ maxBuffSz \in Sizes /\ ret \in {0, -1}
      /\ Len(buff) + Len(source) <= MaxRest /\ (isEOF => source = <<>> \/ failed)
      /\ Len(source) \in Nat /\ Len(buff) \in Nat /\ Len(read) \in Nat
      /\ maxBuffSz \in Nat /\ 0 < maxBuffSz /\ MaxRest \in Nat /\ call.rlo \in Nat
  BY LenProperties DEF StreamInv, StreamTypes, EndsKnown, BS!BstrStreamAssumption
<1>2. /\ call.kind = "line" /\ k \in BS!Lengths(maxBuffSz) /\ BS!Consume(k)
      /\ UNCHANGED <<partial, maxBuffSz>>
      /\ k <= 0 => /\ buff' = <<>> /\ isEOF' = TRUE /\ UNCHANGED read
                   /\ ret' = BS!Result(call.rlo, read) /\ call' = BS!None
      /\ k > 0 /\ e <= k =>
           /\ read' = read \o BS!Upto(chunk, e) /\ buff' = BS!After(chunk, e)
           /\ ret' = 0 /\ call' = BS!None /\ UNCHANGED isEOF
      /\ k > 0 /\ e > k => read' = read \o chunk /\ UNCHANGED <<buff, isEOF, ret, call>>
  <2>1. e \in Nat
    <3>1. k \in Int /\ k <= Len(source)
      BY <1>1, LengthsAre DEF BS!LineChunk, StreamInv
    <3>2. IsCut(source, C, Taken(k), chunk, source')
      BY <3>1, ConsumeCuts DEF BS!LineChunk, StreamInv
    <3> QED
      BY <3>2, EndIs DEF IsCut
  <2>2. k \in Int
    BY <1>1, LengthsAre DEF BS!LineChunk, StreamInv
  <2>3. /\ k <= 0 <=> BS!AtEnd(k)
        /\ BS!Overread(chunk, e) = BS!After(chunk, e)
    BY DEF BS!AtEnd, BS!Overread
  <2>4. /\ call.kind = "line" /\ k \in BS!Lengths(maxBuffSz) /\ BS!Consume(k)
        /\ UNCHANGED <<partial, maxBuffSz>>
    BY DEF BS!LineChunk
  <2>5. \/ /\ k <= 0
           /\ buff' = <<>> /\ isEOF' = TRUE
           /\ ret' = BS!Result(call.rlo, read) /\ call' = BS!None
           /\ UNCHANGED read
        \/ /\ ~(k <= 0) /\ e <= k
           /\ read' = read \o BS!Upto(chunk, e) /\ buff' = BS!After(chunk, e)
           /\ ret' = 0 /\ call' = BS!None /\ UNCHANGED isEOF
        \/ /\ ~(k <= 0) /\ e > k
           /\ read' = read \o chunk /\ UNCHANGED <<buff, isEOF, ret, call>>
    BY <2>3 DEF BS!LineChunk
  <2> QED
    BY <2>1, <2>2, <2>4, <2>5
<1>3. k \in Int /\ k <= Len(source)
  BY <1>1, <1>2, LengthsAre DEF StreamInv
<1>4. /\ IsCut(source, C, Taken(k), chunk, source')
      /\ failed' \in BOOLEAN /\ (failed => failed') /\ (source = <<>> => source' = <<>>)
      /\ k <= 0 => source' = source /\ (source = <<>> \/ failed')
  BY <1>2, <1>3, ConsumeCuts DEF StreamInv
<1>14. Taken(k) = IF k > 0 THEN k ELSE 0
  BY DEF Taken
<1>15. /\ chunk \in Seq(C) /\ source' \in Seq(C) /\ source = chunk \o source'
       /\ Len(chunk) = Taken(k) /\ Len(source') = Len(source) - Taken(k)
  BY <1>4 DEF IsCut
<1>5. /\ chunk \in Seq(C) /\ source' \in Seq(C) /\ source = chunk \o source'
      /\ k > 0 => Len(chunk) = k /\ Len(source') = Len(source) - k
  BY <1>14, <1>15
<1>6. /\ e \in Nat /\ 0 < e /\ e <= Taken(k) + 1
      /\ e <= Taken(k) => chunk[e] \in call.term
      /\ \A p \in 1 .. e - 1 : chunk[p] \notin call.term
  BY <1>3, <1>14, <1>15, EndIs
<1>7. BS!Rest = source
  BY <1>2 DEF BS!Rest
<1>8. BS!LengthExact /\ BS!NoReadAhead
  BY <1>2 DEF BS!LengthExact, BS!NoReadAhead
<1>9. /\ call.rlo <= Len(read)
      /\ \A p \in call.rlo + 1 .. Len(read) : read[p] \notin call.term
  BY <1>2 DEF StreamInv, LineGoesOn
<1>10. BS!None.kind = "none" /\ call.kind # "length"
  BY <1>2 DEF BS!None
<1>16. isEOF => source' = <<>> \/ failed'
  BY <1>1, <1>4
<1>11. CASE k <= 0
  <2>1. /\ buff' = <<>> /\ isEOF' = TRUE /\ read' = read
        /\ ret' = BS!Result(call.rlo, read) /\ call' = BS!None
    BY <1>2, <1>11
  <2>2. source' = source /\ (source' = <<>> \/ failed') /\ buff' \in Seq(C)
    BY <1>4, <1>11, <2>1, EmptySeq
  <2>3. ret' \in {0, -1}
    BY <2>1 DEF BS!Result
  <2>4. StreamInv'
    <3>1. Len(buff') + Len(source') <= MaxRest
      <4>1. Len(buff') = 0
        BY <2>1, EmptySeq
      <4> QED
        BY <1>1, <2>2, <4>1
    <3>2. partial' \in BOOLEAN /\ maxBuffSz' \in Sizes /\ read' \in Seq(C) /\ isEOF' \in BOOLEAN
      BY <1>1, <1>2, <2>1
    <3> QED
      BY <1>4, <1>5, <2>1, <2>2, <2>3, <3>1, <3>2, CallReturned
  <2>8. BS!Rest' = source'
    BY <1>5, <1>10, <2>1, ConcatEmptySeq DEF BS!Rest
  <2>5. Steps
    BY <1>7, <2>1, <2>2, <2>8 DEF Steps, BS!AbstractStream!vars
  <2>9. BS!Short /\ isEOF'
    BY <2>1, <2>2, <2>8 DEF BS!Short
  <2>6. BS!LineEnds
    <3> PICK line : line = BS!After(read', call.rlo)
      OBVIOUS
    <3>1. line = BS!After(read, call.rlo) /\ Len(read) - 1 <= Len(read) /\ Len(read) \in Int
      BY <1>1, <2>1
    <3>2. \A p \in 1 .. Len(line) - 1 : line[p] \notin call.term
      BY ONLY <1>1, <1>9, <3>1, AllButLast
    <3> QED
      BY <2>9, <3>2 DEF BS!LineEnds
  <2>7. BS!ErrorMeansEnd
    BY <2>2, <2>9 DEF BS!ErrorMeansEnd
  <2> QED
    BY <1>8, <2>4, <2>5, <2>6, <2>7 DEF Answered
<1>12. CASE k > 0 /\ e <= k
  <2> PICK v : v = BS!Upto(chunk, e)
    OBVIOUS
  <2> PICK w : w = BS!After(chunk, e)
    OBVIOUS
  <2>1. /\ read' = read \o v /\ buff' = w /\ isEOF' = isEOF
        /\ ret' = 0 /\ call' = BS!None
    BY <1>2, <1>12
  <2>2. IsCut(chunk, C, e, v, w)
    BY <1>3, <1>5, <1>6, <1>12, CutParts DEF BS!Upto, BS!After
  <2>3. /\ v \in Seq(C) /\ w \in Seq(C) /\ Len(v) = e /\ Len(w) = k - e
        /\ \A p \in 1 .. e : v[p] = chunk[p]
    BY <1>5, <1>12, <2>2 DEF IsCut
  <2>4. source = v \o (w \o source') /\ w \o source' \in Seq(C)
    <3>1. chunk \o source' = v \o (w \o source') /\ w \o source' \in Seq(C)
      BY ONLY <1>5, <2>2, CutBefore
    <3> QED
      BY <1>5, <3>1
  <2>5. BS!Rest' = w \o source'
    BY <1>10, <2>1 DEF BS!Rest
  <2>6. Steps
    BY <1>7, <2>1, <2>3, <2>4, <2>5, ReadsFirst
  <2>7. isEOF' => source' = <<>> \/ failed'
    BY <1>16, <2>1
  <2>8. /\ read' \in Seq(C) /\ Len(read') = Len(read) + e
        /\ \A p \in 1 .. Len(read) : read'[p] = read[p]
        /\ \A p \in 1 .. e : read'[Len(read) + p] = v[p]
    BY <1>1, <2>1, <2>3, ConcatPlaces
  <2>9. StreamInv'
    <3>1. Len(buff') + Len(source') <= MaxRest
      <4>1. Len(source) \in Nat /\ Len(buff) \in Nat /\ MaxRest \in Nat /\ e \in Nat
        BY <1>1, <1>6
      <4>2. Len(buff') = k - e /\ Len(source') = Len(source) - k /\ k \in Int
        BY <1>3, <1>5, <1>12, <2>1, <2>3
      <4>3. Len(buff) + Len(source) <= MaxRest
        BY <1>1
      <4> QED
        BY ONLY <4>1, <4>2, <4>3
    <3>2. partial' \in BOOLEAN /\ maxBuffSz' \in Sizes /\ isEOF' \in BOOLEAN /\ buff' \in Seq(C)
      BY <1>1, <1>2, <2>1, <2>3
    <3> QED
      BY <1>4, <1>5, <2>1, <2>7, <2>8, <3>1, <3>2, CallReturned
  <2>10. BS!LineEnds
    <3> PICK line : line = BS!After(read', call.rlo)
      OBVIOUS
    <3>1. /\ call.rlo <= Len(read') /\ Len(read') - 1 <= Len(read) + (e - 1)
          /\ e - 1 \in Int /\ e - 1 <= Len(v) /\ Len(read) + (e - 1) \in Int
      BY ONLY <1>1, <1>6, <1>9, <2>3, <2>8
    <3>2. \A p \in 1 .. Len(line) - 1 : line[p] \notin call.term
      <4>1. \A p \in 1 .. e - 1 : v[p] \notin call.term
        BY ONLY <1>6, <2>3
      <4>2. \A p \in call.rlo + 1 .. Len(read) + (e - 1) : read'[p] \notin call.term
        BY ONLY <1>1, <1>9, <2>1, <2>3, <3>1, <4>1, LineLonger
      <4> QED
        BY ONLY <1>1, <2>8, <3>1, <4>2, line = BS!After(read', call.rlo), AllButLast
    <3>3. /\ line \in Seq(C) /\ Len(line) \in Nat /\ Len(line) = Len(read') - call.rlo
          /\ \A p \in 1 .. Len(line) : line[p] = read'[call.rlo + p]
      <4>1. read' \in Seq(C) /\ call.rlo \in Nat /\ call.rlo <= Len(read')
        BY ONLY <1>1, <2>8, <3>1
      <4> QED
        BY ONLY <4>1, line = BS!After(read', call.rlo), LineIs
    <3>4. line # <<>> /\ BS!Last(line) \in call.term
      <4>1. Len(line) \in 1 .. Len(line) /\ call.rlo + Len(line) = Len(read) + e
        <5>1. /\ Len(line) \in Nat /\ Len(line) = Len(read') - call.rlo
              /\ Len(read') = Len(read) + e /\ Len(read) \in Nat /\ call.rlo \in Nat
              /\ call.rlo <= Len(read) /\ e \in Nat /\ 0 < e
          BY <1>1, <1>6, <1>9, <2>8, <3>3
        <5> QED
          BY ONLY <5>1
      <4>2. e \in 1 .. e
        BY <1>6
      <4>3. line[Len(line)] = chunk[e]
        BY ONLY <2>3, <2>8, <3>3, <4>1, <4>2
      <4>4. line # <<>>
        BY <3>3, <4>1, EmptySeq
      <4> QED
        BY <1>6, <1>12, <1>14, <4>3, <4>4 DEF BS!Last
    <3> QED
      BY <3>2, <3>4 DEF BS!LineEnds
  <2>11. BS!ErrorMeansEnd
    BY <2>1, <2>7 DEF BS!ErrorMeansEnd
  <2> QED
    BY <1>8, <2>6, <2>9, <2>10, <2>11 DEF Answered
<1>13. CASE k > 0 /\ e > k
  <2>1. read' = read \o chunk /\ UNCHANGED <<buff, isEOF, ret, call>>
    BY <1>2, <1>13
  <2>2. BS!Rest' = source'
    BY <1>2, <2>1 DEF BS!Rest
  <2>3. Steps
    BY <1>1, <1>5, <1>7, <2>1, <2>2, ReadsFirst
  <2>4. /\ read' \in Seq(C) /\ Len(read') = Len(read) + k
        /\ \A p \in 1 .. Len(read) : read'[p] = read[p]
        /\ \A p \in 1 .. k : read'[Len(read) + p] = chunk[p]
    BY <1>1, <1>5, <1>13, <2>1, ConcatPlaces
  <2>5. \A p \in call.rlo + 1 .. Len(read') : read'[p] \notin call.term
    <3>1. \A p \in 1 .. k : chunk[p] \notin call.term
      <4>1. 1 .. k \subseteq 1 .. e - 1
        BY ONLY <1>3, <1>6, <1>13
      <4> QED
        BY ONLY <1>6, <4>1
    <3>2. k \in Int /\ k <= Len(chunk)
      BY ONLY <1>3, <1>5, <1>13
    <3>3. \A p \in call.rlo + 1 .. Len(read) + k : read'[p] \notin call.term
      BY ONLY <1>1, <1>5, <1>9, <2>1, <3>1, <3>2, LineLonger
    <3> QED
      BY <2>4, <3>3
  <2>6. isEOF' => source' = <<>> \/ failed'
    BY <1>16, <2>1
  <2>7. StreamInv'
    <3>1. Len(buff') + Len(source') <= MaxRest
      BY <1>1, <1>3, <1>5, <1>13, <2>1
    <3>2. StreamTypes'
      BY <1>1, <1>2, <1>4, <1>5, <2>1, <2>4, <3>1 DEF StreamInv, StreamTypes
    <3>3. EndsKnown' /\ LengthGoesOn'
      BY <1>2, <1>10, <2>1, <2>6 DEF EndsKnown, LengthGoesOn
    <3>4. LineGoesOn'
      <4>1. call.rlo <= Len(read')
        BY <1>1, <1>3, <1>9, <1>13, <2>4
      <4> QED
        BY <2>1, <2>5, <4>1 DEF LineGoesOn
    <3> QED
      BY <3>2, <3>3, <3>4 DEF StreamInv
  <2>8. BS!LineEnds
    <3> PICK line : line = BS!After(read', call.rlo)
      OBVIOUS
    <3>1. /\ call.rlo <= Len(read') /\ Len(read') - 1 <= Len(read') /\ Len(read') \in Int
      BY ONLY <1>1, <1>3, <1>9, <1>13, <2>4
    <3>2. \A p \in 1 .. Len(line) - 1 : line[p] \notin call.term
      BY ONLY <1>1, <2>4, <2>5, <3>1, line = BS!After(read', call.rlo), AllButLast
    <3>3. call'.kind # "none"
      BY <1>2, <2>1
    <3> QED
      BY <3>2, <3>3 DEF BS!LineEnds
  <2>9. BS!ErrorMeansEnd
    BY <1>2, <2>1 DEF BS!ErrorMeansEnd, BS!Idle
  <2> QED
    BY <1>8, <2>3, <2>7, <2>8, <2>9 DEF Answered
<1> QED
  BY <1>3, <1>6, <1>11, <1>12, <1>13

\* The variables of a stream between steps, and what the proofs below need of them.
LEMMA StreamHas ==
  ASSUME BS!BstrStreamAssumption, StreamInv
  PROVE  /\ source \in Seq(BS!Characters) /\ buff \in Seq(BS!Characters)
         /\ read \in Seq(BS!Characters)
         /\ partial \in BOOLEAN /\ failed \in BOOLEAN /\ isEOF \in BOOLEAN
         /\ maxBuffSz \in Sizes /\ ret \in {0, -1}
         /\ Len(source) \in Nat /\ Len(buff) \in Nat /\ Len(read) \in Nat
         /\ MaxRest \in Nat /\ MaxRead \in Nat /\ maxBuffSz \in Nat /\ 0 < maxBuffSz
         /\ Len(buff) + Len(source) <= MaxRest
         /\ isEOF => source = <<>> \/ failed
         /\ call.rlo \in Nat /\ call.n \in Nat /\ call.asked \in Nat
         /\ call.direct \in BOOLEAN
BY LenProperties DEF StreamInv, StreamTypes, EndsKnown, BS!BstrStreamAssumption

\* bsread and bsreada.
LEMMA BsreadStep ==
  ASSUME BS!BstrStreamAssumption, StreamInv, NEW n \in 1 .. MaxRead,
         NEW fresh \in BOOLEAN, NEW roomy \in BOOLEAN, BS!Bsread(n, fresh, roomy)
  PROVE  StreamInv' /\ Steps /\ Answered
<1> PICK C : C = BS!Characters
  OBVIOUS
<1> PICK base : base = IF fresh THEN <<>> ELSE read
  OBVIOUS
<1>1. /\ source \in Seq(C) /\ buff \in Seq(C) /\ read \in Seq(C)
      /\ partial \in BOOLEAN /\ failed \in BOOLEAN /\ isEOF \in BOOLEAN
      /\ maxBuffSz \in Sizes /\ ret \in {0, -1}
      /\ Len(buff) + Len(source) <= MaxRest /\ (isEOF => source = <<>> \/ failed)
      /\ MaxRead \in Nat /\ n \in Nat /\ 0 < n
  BY StreamHas
<1>2. base \in Seq(C) /\ base \in {read, <<>>} /\ Len(base) \in Nat
  BY <1>1, EmptySeq, LenProperties
<1>3. /\ call.kind = "none" /\ read' = base
      /\ UNCHANGED <<source, partial, failed, buff, isEOF, maxBuffSz>>
      /\ IF BS!Exhausted
           THEN ret' = -1 /\ UNCHANGED call
           ELSE /\ call' = [BS!None EXCEPT !.kind = "length", !.asked = n,
                                           !.n = BS!Target(n, base), !.rlo = Len(base),
                                           !.direct = buff = <<>> /\ roomy]
                /\ UNCHANGED ret
  BY DEF BS!Bsread, BS!Idle
<1>4. BS!LineEnds /\ BS!LengthExact /\ BS!NoReadAhead
  BY <1>3 DEF BS!LineEnds, BS!LengthExact, BS!NoReadAhead
<1>5. BS!Rest = buff \o source /\ (call'.kind # "line" => BS!Rest' = buff \o source)
  BY <1>3 DEF BS!Rest
<1>6. ASSUME call'.kind # "line"
      PROVE  Steps
  <2>1. <<>> \in Seq(C) /\ buff \o source \in Seq(C)
    BY <1>1, EmptySeq, ConcatProperties
  <2>2. buff \o source = <<>> \o (buff \o source) /\ base = base \o <<>>
    BY <1>2, <2>1, ConcatEmptySeq
  <2>3. BS!Rest = <<>> \o (buff \o source) /\ BS!Rest' = buff \o source
    BY <1>5, <1>6, <2>2
  <2>4. read' = base \o <<>>
    BY <1>3, <2>2
  <2> QED
    BY <1>2, <2>1, <2>3, <2>4, ReadsFirst
<1>7. CASE BS!Exhausted
  <2>1. ret' = -1 /\ UNCHANGED call /\ buff = <<>> /\ isEOF /\ (source = <<>> \/ failed)
    BY <1>1, <1>3, <1>7 DEF BS!Exhausted
  <2>2. StreamTypes'
    BY <1>1, <1>2, <1>3, <2>1 DEF StreamInv, StreamTypes
  <2>3. EndsKnown' /\ LineGoesOn' /\ LengthGoesOn'
    BY <1>3, <2>1 DEF EndsKnown, LineGoesOn, LengthGoesOn
  <2>4. buff \o source = source
    BY ONLY <1>1, <2>1, ConcatEmptySeq
  <2>5. BS!ErrorMeansEnd
    BY <1>3, <1>5, <2>1, <2>4 DEF BS!ErrorMeansEnd, BS!Short
  <2> QED
    BY <1>3, <1>4, <1>6, <2>1, <2>2, <2>3, <2>5 DEF StreamInv, Answered
<1>8. CASE ~BS!Exhausted
  <2>1. /\ call' = [BS!None EXCEPT !.kind = "length", !.asked = n,
                                   !.n = BS!Target(n, base), !.rlo = Len(base),
                                   !.direct = buff = <<>> /\ roomy]
        /\ UNCHANGED ret
    BY <1>3, <1>8
  <2> PICK l \in Nat : l = Len(base)
    BY <1>2
  <2>2. BS!Target(n, base) = n + l /\ n + l \in Nat
    BY <1>1 DEF BS!Target
  <2> PICK d \in BOOLEAN : d = (buff = <<>> /\ roomy)
    OBVIOUS
  <2>3. /\ call'.kind = "length" /\ call'.asked = n /\ call'.n = n + l /\ call'.rlo = l
        /\ call'.direct = d
        /\ call' \in [kind : {"none", "line", "length"}, term : {{}} \cup Terminators,
                      asked : Nat, n : Nat, rlo : Nat, direct : BOOLEAN]
    <3>1. call' = [BS!None EXCEPT !.kind = "length", !.asked = n, !.n = n + l,
                                  !.rlo = l, !.direct = d]
      BY <2>1, <2>2
    <3> QED
      BY ONLY <1>1, <2>2, <3>1, l \in Nat, d \in BOOLEAN DEF BS!None
  <2>4. StreamTypes'
    BY <1>1, <1>2, <1>3, <2>1, <2>3 DEF StreamInv, StreamTypes
  <2>5. LengthGoesOn'
    <3>1. Len(read') = l /\ l <= n + l
      BY <1>1, <1>3
    <3>2. d => buff' = <<>>
      BY <1>3
    <3> QED
      BY <1>1, <2>3, <3>1, <3>2 DEF LengthGoesOn
  <2>6. EndsKnown' /\ LineGoesOn'
    BY <1>1, <1>3, <2>3 DEF EndsKnown, LineGoesOn
  <2>7. BS!ErrorMeansEnd
    BY <2>3 DEF BS!ErrorMeansEnd, BS!Idle
  <2> QED
    BY <1>4, <1>6, <2>3, <2>4, <2>5, <2>6, <2>7 DEF StreamInv, Answered
<1> QED
  BY <1>7, <1>8

\* What is known while a length is read.
LEMMA LengthHas ==
  ASSUME BS!BstrStreamAssumption, StreamInv, call.kind = "length"
  PROVE  /\ 0 < call.asked /\ call.n = call.rlo + call.asked
         /\ call.rlo <= Len(read) /\ Len(read) <= call.n
         /\ call.direct => buff = <<>> /\ Len(read) = call.rlo
         /\ BS!Rest = buff \o source
BY DEF StreamInv, LengthGoesOn, BS!Rest

\* The source is read into the string itself.
LEMMA DirectStep ==
  ASSUME BS!BstrStreamAssumption, StreamInv, NEW k, BS!Direct(k)
  PROVE  StreamInv' /\ Steps /\ Answered
<1> PICK C : C = BS!Characters
  OBVIOUS
<1> PICK chunk : chunk = BS!Chunk(k)
  OBVIOUS
<1>1. /\ source \in Seq(C) /\ buff \in Seq(C) /\ read \in Seq(C)
      /\ partial \in BOOLEAN /\ failed \in BOOLEAN /\ isEOF \in BOOLEAN /\ maxBuffSz \in Sizes
      /\ Len(source) \in Nat /\ Len(read) \in Nat /\ MaxRest \in Nat
      /\ Len(buff) + Len(source) <= MaxRest /\ (isEOF => source = <<>> \/ failed)
      /\ call.rlo \in Nat /\ call.n \in Nat /\ call.asked \in Nat
  BY StreamHas
<1>2. /\ call.kind = "length" /\ call.direct /\ k \in BS!Lengths(call.n - Len(read))
      /\ BS!Consume(k) /\ read' = read \o chunk /\ isEOF' = (isEOF \/ k <= 0)
      /\ ret' = (IF k <= 0 THEN -1 ELSE 0) /\ call' = BS!None
      /\ UNCHANGED <<partial, buff, maxBuffSz>>
  BY DEF BS!Direct
<1>3. /\ 0 < call.asked /\ call.n = call.rlo + call.asked
      /\ buff = <<>> /\ Len(read) = call.rlo /\ BS!Rest = buff \o source
  BY <1>2, LengthHas
<1>4. call.n - Len(read) = call.asked
  BY <1>1, <1>3
<1>5. /\ k \in Int /\ k <= call.asked /\ k <= Len(source)
      /\ 0 < k /\ k < call.asked => partial \/ k = Len(source)
  BY <1>1, <1>2, <1>3, <1>4, LengthsAre DEF StreamInv
<1>18. /\ IsCut(source, C, Taken(k), chunk, source')
       /\ failed' \in BOOLEAN /\ (failed => failed') /\ (source = <<>> => source' = <<>>)
       /\ k <= 0 => source' = source /\ (source = <<>> \/ failed')
  BY <1>2, <1>5, ConsumeCuts DEF StreamInv
<1> PICK m \in Nat : m = IF k > 0 THEN k ELSE 0
  BY <1>5
<1>19. m = Taken(k) /\ m <= call.asked /\ m <= Len(source)
  BY <1>1, <1>5 DEF Taken
<1>6. /\ chunk \in Seq(C) /\ source' \in Seq(C) /\ Len(chunk) = m
      /\ Len(source') = Len(source) - m /\ source = chunk \o source'
  BY <1>18, <1>19 DEF IsCut
<1>7. BS!None.kind = "none" /\ call'.kind = "none"
  BY <1>2 DEF BS!None
<1>8. BS!Rest = chunk \o source' /\ BS!Rest' = source'
  BY <1>1, <1>2, <1>3, <1>6, <1>7, ConcatEmptySeq DEF BS!Rest
<1>9. Steps
  BY <1>1, <1>2, <1>6, <1>8, ReadsFirst
<1>10. read' \in Seq(C) /\ Len(read') = Len(read) + m
  BY <1>1, <1>2, <1>6, ConcatProperties
<1>11. Len(source) = m => source' = <<>>
  <2>1. ASSUME Len(source) = m
        PROVE  Len(source') = 0
    BY <1>1, <1>6, <2>1
  <2> QED
    BY <1>6, <2>1, EmptySeq
<1>12. /\ isEOF' => source' = <<>> \/ failed'
       /\ ret' = -1 => isEOF'
       /\ k <= 0 => (source' = <<>> \/ failed') /\ isEOF'
  <2>1. k <= 0 => source' = <<>> \/ failed'
    BY <1>18
  <2>2. isEOF => source' = <<>> \/ failed'
    BY <1>1, <1>18
  <2>3. isEOF' = (isEOF \/ k <= 0) /\ (ret' = -1 => k <= 0)
    BY <1>2
  <2> QED
    BY <2>1, <2>2, <2>3
<1>13. StreamInv'
  <2>1. buff' = <<>> /\ buff' \in Seq(C) /\ Len(buff') + Len(source') <= MaxRest
    BY <1>1, <1>2, <1>3, <1>19, <1>6
  <2>2. /\ partial' \in BOOLEAN /\ isEOF' \in BOOLEAN /\ maxBuffSz' \in Sizes
        /\ ret' \in {0, -1}
    BY <1>1, <1>2
  <2> QED
    BY <1>2, <1>6, <1>10, <1>12, <1>18, <2>1, <2>2, CallReturned
<1>14. BS!LineEnds
  BY <1>2 DEF BS!LineEnds
<1>15. BS!LengthExact
  <2>1. Len(read') - call.rlo = m
    BY <1>1, <1>3, <1>10
  <2>2. \/ m = call.asked
        \/ m < call.asked /\ BS!Short
        \/ m < call.asked /\ partial
    <3>1. m = call.asked \/ m < call.asked
      BY <1>1, <1>19
    <3>2. m = Len(source) => BS!Short
      BY <1>8, <1>11 DEF BS!Short
    <3>3. k <= 0 => BS!Short
      BY <1>8, <1>12 DEF BS!Short
    <3>4. 0 < k => m = k
      OBVIOUS
    <3> QED
      BY <1>5, <3>1, <3>2, <3>3, <3>4
  <2> QED
    BY <1>2, <2>1, <2>2 DEF BS!LengthExact
<1>16. BS!NoReadAhead
  <2>1. buff' = <<>> /\ read' \o buff' = read'
    BY <1>2, <1>3, <1>10, ConcatEmptySeq
  <2>2. Len(read') <= call.rlo + call.asked
    BY <1>1, <1>3, <1>19, <1>10
  <2> QED
    BY <2>1, <2>2 DEF BS!NoReadAhead
<1>17. BS!ErrorMeansEnd
  <2>1. ret' = -1 => BS!Short
    BY <1>8, <1>12 DEF BS!Short
  <2> QED
    BY <1>12, <2>1 DEF BS!ErrorMeansEnd
<1> QED
  BY <1>9, <1>13, <1>14, <1>15, <1>16, <1>17 DEF Answered

\* The buffer holds enough.
LEMMA LengthEnoughStep ==
  ASSUME BS!BstrStreamAssumption, StreamInv, BS!LengthEnough
  PROVE  StreamInv' /\ Steps /\ Answered
<1> PICK C : C = BS!Characters
  OBVIOUS
<1>1. /\ source \in Seq(C) /\ buff \in Seq(C) /\ read \in Seq(C)
      /\ partial \in BOOLEAN /\ failed \in BOOLEAN /\ isEOF \in BOOLEAN /\ maxBuffSz \in Sizes
      /\ Len(source) \in Nat /\ Len(buff) \in Nat /\ Len(read) \in Nat /\ MaxRest \in Nat
      /\ Len(buff) + Len(source) <= MaxRest /\ (isEOF => source = <<>> \/ failed)
      /\ call.rlo \in Nat /\ call.n \in Nat /\ call.asked \in Nat
  BY StreamHas
<1>2. /\ call.kind = "length" /\ Len(buff) >= call.n - Len(read)
      /\ read' = read \o BS!Upto(buff, call.n - Len(read))
      /\ buff' = BS!After(buff, call.n - Len(read))
      /\ ret' = BS!Result(call.rlo, read') /\ call' = BS!None
      /\ UNCHANGED <<source, partial, failed, isEOF, maxBuffSz>>
  BY DEF BS!LengthEnough
<1>3. /\ 0 < call.asked /\ call.n = call.rlo + call.asked
      /\ call.rlo <= Len(read) /\ Len(read) <= call.n /\ BS!Rest = buff \o source
  BY <1>2, LengthHas
<1> PICK n \in Nat : n = call.n - Len(read)
  BY <1>1, <1>3
<1> PICK v : v = BS!Upto(buff, n)
  OBVIOUS
<1> PICK w : w = BS!After(buff, n)
  OBVIOUS
<1>4. n <= Len(buff) /\ read' = read \o v /\ buff' = w
  BY <1>1, <1>2
<1>5. IsCut(buff, C, n, v, w)
  BY <1>1, <1>4, CutParts DEF BS!Upto, BS!After
<1>6. v \in Seq(C) /\ w \in Seq(C) /\ Len(v) = n /\ Len(w) = Len(buff) - n
  BY <1>5 DEF IsCut
<1>7. buff \o source = v \o (w \o source) /\ w \o source \in Seq(C)
  BY ONLY <1>1, <1>5, CutBefore
<1>8. BS!None.kind = "none" /\ call'.kind = "none"
  BY <1>2 DEF BS!None
<1>9. BS!Rest' = w \o source
  BY <1>2, <1>4, <1>8 DEF BS!Rest
<1>10. Steps
  BY <1>1, <1>3, <1>4, <1>6, <1>7, <1>9, ReadsFirst
<1>11. read' \in Seq(C) /\ Len(read') = call.n
  <2>1. read' \in Seq(C) /\ Len(read') = Len(read) + n
    <3>1. read \in Seq(C) /\ v \in Seq(C) /\ Len(v) = n
      BY <1>1, <1>6
    <3>2. read \o v \in Seq(C) /\ Len(read \o v) = Len(read) + Len(v)
      BY ONLY <3>1, ConcatProperties
    <3> QED
      BY <1>4, <3>1, <3>2
  <2> QED
    BY <1>1, <2>1
<1>12. ret' = 0
  <2>1. Len(read') # call.rlo
    BY <1>1, <1>3, <1>11
  <2> QED
    BY <1>2, <2>1 DEF BS!Result
<1>13. StreamInv'
  <2>1. Len(buff') + Len(source') <= MaxRest /\ buff' \in Seq(C) /\ source' \in Seq(C)
    <3>1. Len(buff) \in Nat /\ n \in Nat /\ n <= Len(buff) /\ Len(source) \in Nat
      BY <1>1, <1>4
    <3>2. buff' = w /\ source' = source /\ w \in Seq(C)
      BY <1>2, <1>4, <1>6
    <3> QED
      BY ONLY <1>1, <1>6, <3>1, <3>2
  <2>2. /\ partial' \in BOOLEAN /\ failed' \in BOOLEAN /\ isEOF' \in BOOLEAN
        /\ maxBuffSz' \in Sizes /\ (isEOF' => source' = <<>> \/ failed')
    BY <1>1, <1>2
  <2> QED
    BY <1>2, <1>11, <1>12, <2>1, <2>2, CallReturned
<1>14. BS!LineEnds /\ BS!NoReadAhead
  BY <1>2 DEF BS!LineEnds, BS!NoReadAhead
<1>15. BS!LengthExact
  <2>1. Len(read') - call.rlo = call.asked
    BY <1>1, <1>3, <1>11
  <2> QED
    BY <2>1 DEF BS!LengthExact
<1>16. BS!ErrorMeansEnd
  BY <1>1, <1>2, <1>12 DEF BS!ErrorMeansEnd
<1> QED
  BY <1>10, <1>13, <1>14, <1>15, <1>16 DEF Answered

\* The buffer is copied and read again.
LEMMA LengthChunkStep ==
  ASSUME BS!BstrStreamAssumption, StreamInv, NEW k, BS!LengthChunk(k)
  PROVE  StreamInv' /\ Steps /\ Answered
<1> PICK C : C = BS!Characters
  OBVIOUS
<1> PICK chunk : chunk = BS!Chunk(k)
  OBVIOUS
<1>1. /\ source \in Seq(C) /\ buff \in Seq(C) /\ read \in Seq(C)
      /\ partial \in BOOLEAN /\ failed \in BOOLEAN /\ isEOF \in BOOLEAN
      /\ maxBuffSz \in Sizes /\ ret \in {0, -1}
      /\ Len(source) \in Nat /\ Len(buff) \in Nat /\ Len(read) \in Nat /\ MaxRest \in Nat
      /\ maxBuffSz \in Nat /\ 0 < maxBuffSz
      /\ Len(buff) + Len(source) <= MaxRest /\ (isEOF => source = <<>> \/ failed)
      /\ call.rlo \in Nat /\ call.n \in Nat /\ call.asked \in Nat /\ call.direct \in BOOLEAN
  BY StreamHas
<1> PICK n : n = call.n - Len(read) - Len(buff)
  OBVIOUS
<1>2. /\ call.kind = "length" /\ ~call.direct /\ 0 < n /\ n \in Int
      /\ k \in BS!Lengths(BS!Asked(n)) /\ BS!Consume(k)
      /\ read' = read \o buff /\ buff' = chunk
      /\ \/ k > 0 /\ UNCHANGED <<isEOF, ret, call>>
         \/ /\ ~(k > 0) /\ isEOF' = TRUE
            /\ ret' = BS!Result(call.rlo, read') /\ call' = BS!None
      /\ UNCHANGED <<partial, maxBuffSz>>
  BY <1>1 DEF BS!LengthChunk
<1>3. /\ 0 < call.asked /\ call.n = call.rlo + call.asked
      /\ call.rlo <= Len(read) /\ Len(read) <= call.n /\ BS!Rest = buff \o source
  BY <1>2, LengthHas
<1>4. BS!Asked(n) \in Nat /\ 0 < BS!Asked(n) /\ BS!Asked(n) <= n
  <2>1. BS!Min({n, maxBuffSz}) = Min({n, maxBuffSz})
    BY DEF BS!Min, Min
  <2>2. Min({n, maxBuffSz}) = IF n <= maxBuffSz THEN n ELSE maxBuffSz
    <3>1. n \in Int /\ maxBuffSz \in Int
      BY <1>1, <1>2
    <3> QED
      BY ONLY <3>1, OfTwo
  <2>3. BS!Asked(n) = IF n <= maxBuffSz THEN n ELSE maxBuffSz
    BY <2>1, <2>2, Zenon DEF BS!Asked
  <2> QED
    <3>1. maxBuffSz \in Nat /\ 0 < maxBuffSz /\ 0 < n /\ n \in Int
      BY <1>1, <1>2
    <3> QED
      BY ONLY <2>3, <3>1
<1>5. k \in Int /\ k <= BS!Asked(n) /\ k <= Len(source)
  BY <1>2, <1>4, LengthsAre DEF StreamInv
<1>17. /\ IsCut(source, C, Taken(k), chunk, source')
       /\ failed' \in BOOLEAN /\ (failed => failed') /\ (source = <<>> => source' = <<>>)
       /\ k <= 0 => source' = source /\ (source = <<>> \/ failed')
  BY <1>2, <1>5, ConsumeCuts DEF StreamInv
<1> PICK m \in Nat : m = IF k > 0 THEN k ELSE 0
  BY <1>5
<1>18. m = Taken(k) /\ m <= BS!Asked(n) /\ m <= Len(source)
  BY <1>1, <1>4, <1>5 DEF Taken
<1>6. /\ chunk \in Seq(C) /\ source' \in Seq(C) /\ Len(chunk) = m
      /\ Len(source') = Len(source) - m /\ source = chunk \o source'
  BY <1>17, <1>18 DEF IsCut
<1>19. isEOF => source' = <<>> \/ failed'
  BY <1>1, <1>17
<1>7. BS!None.kind = "none" /\ call'.kind # "line"
  BY <1>2 DEF BS!None
<1>8. BS!Rest' = source
  BY <1>2, <1>6, <1>7 DEF BS!Rest
<1>9. Steps
  BY <1>1, <1>2, <1>3, <1>8, ReadsFirst
<1>10. read' \in Seq(C) /\ Len(read') = Len(read) + Len(buff)
  BY <1>1, <1>2, ConcatProperties
<1>11. Len(buff') + Len(source') <= MaxRest
  BY <1>1, <1>2, <1>18, <1>6
<1>12. /\ call.rlo <= Len(read') /\ Len(read') < call.n
       /\ Len(read') + m <= call.rlo + call.asked
  <2>1. Len(read') = call.n - n
    <3>1. /\ Len(read) \in Nat /\ Len(buff) \in Nat /\ call.n \in Nat
          /\ Len(read') = Len(read) + Len(buff)
      BY <1>1, <1>10
    <3> QED
      BY ONLY <3>1, n = call.n - Len(read) - Len(buff)
  <2> QED
    <3>1. /\ call.n \in Nat /\ n \in Int /\ 0 < n /\ m \in Nat /\ Len(read) \in Nat
          /\ Len(buff) \in Nat /\ BS!Asked(n) \in Nat /\ m <= BS!Asked(n) /\ BS!Asked(n) <= n
      BY <1>1, <1>2, <1>4, <1>18
    <3>2. m <= n
      BY ONLY <3>1
    <3>3. Len(read') < call.n /\ Len(read') + m <= call.n
      BY ONLY <2>1, <3>1, <3>2
    <3>4. call.rlo <= Len(read')
      BY ONLY <1>1, <1>3, <1>10
    <3> QED
      BY <1>3, <3>3, <3>4
<1>13. BS!LineEnds
  BY <1>2 DEF BS!LineEnds
<1>14. BS!NoReadAhead
  <2>1. Len(read' \o buff') = Len(read') + m
    <3>1. read' \in Seq(C) /\ buff' \in Seq(C) /\ Len(buff') = m
      BY <1>2, <1>6, <1>10
    <3> QED
      BY ONLY <3>1, ConcatProperties
  <2>2. Len(read' \o buff') <= call.rlo + call.asked
    BY ONLY <1>12, <2>1
  <2> QED
    BY <1>2, <2>2 DEF BS!NoReadAhead
<1>15. CASE k > 0
  <2>1. UNCHANGED <<isEOF, ret, call>>
    BY <1>2, <1>15
  <2>3. StreamTypes'
    BY <1>1, <1>2, <1>6, <1>10, <1>11, <1>17, <2>1 DEF StreamInv, StreamTypes
  <2>4. EndsKnown' /\ LineGoesOn'
    BY <1>2, <1>19, <2>1 DEF EndsKnown, LineGoesOn
  <2>5. LengthGoesOn'
    <3>1. Len(read') <= call.n
      BY ONLY <1>1, <1>10, <1>12
    <3>2. call' = call /\ ~call.direct
      BY <1>2, <2>1
    <3> QED
      BY ONLY <1>3, <1>12, <3>1, <3>2 DEF LengthGoesOn
  <2>6. BS!LengthExact /\ BS!ErrorMeansEnd
    BY <1>2, <2>1 DEF BS!LengthExact, BS!ErrorMeansEnd, BS!Idle
  <2> QED
    BY <1>9, <1>13, <1>14, <2>3, <2>4, <2>5, <2>6 DEF StreamInv, Answered
<1>16. CASE ~(k > 0)
  <2>1. /\ isEOF' = TRUE /\ ret' = BS!Result(call.rlo, read') /\ call' = BS!None
        /\ call'.kind = "none"
    BY <1>2, <1>7, <1>16
  <2>3. source' = source /\ (source' = <<>> \/ failed')
    BY <1>5, <1>16, <1>17
  <2>4. StreamInv'
    <3>1. ret' \in {0, -1}
      BY <2>1 DEF BS!Result
    <3>2. partial' \in BOOLEAN /\ isEOF' \in BOOLEAN /\ maxBuffSz' \in Sizes /\ buff' \in Seq(C)
      BY <1>1, <1>2, <1>6, <2>1
    <3>3. buff' = <<>>
      <4>1. chunk \in Seq(C) /\ Len(chunk) = 0 /\ buff' = chunk
        BY <1>2, <1>6, <1>16
      <4> QED
        BY ONLY <4>1, EmptySeq
    <3>4. ret' = -1 => (buff' = <<>> /\ source' = <<>>) \/ (failed' /\ isEOF')
      BY <2>1, <2>3, <3>3
    <3>5. isEOF' => source' = <<>> \/ failed'
      BY <2>3
    <3>6. /\ source' \in Seq(BS!Characters) /\ buff' \in Seq(BS!Characters)
          /\ read' \in Seq(BS!Characters)
      BY <1>6, <1>10, <3>2
    <3>7. failed' \in BOOLEAN /\ call' = BS!None /\ Len(buff') + Len(source') <= MaxRest
      BY <1>11, <1>17, <2>1
    <3> QED
      BY <3>1, <3>2, <3>4, <3>5, <3>6, <3>7, CallReturned
  <2>7. BS!Short /\ isEOF'
    BY <1>8, <2>1, <2>3 DEF BS!Short
  <2>5. BS!LengthExact
    <3>1. Len(read') - call.rlo < call.asked
      BY ONLY <1>1, <1>3, <1>10, <1>12
    <3> QED
      BY <2>7, <3>1 DEF BS!LengthExact
  <2>6. BS!ErrorMeansEnd
    BY <2>3, <2>7 DEF BS!ErrorMeansEnd
  <2> QED
    BY <1>9, <1>13, <1>14, <2>4, <2>5, <2>6 DEF Answered
<1> QED
  BY <1>5, <1>15, <1>16

\* Something is put back.
LEMMA BsunreadStep ==
  ASSUME BS!BstrStreamAssumption, StreamInv, NEW t \in Returned, BS!Bsunread(t)
  PROVE  StreamInv' /\ Steps /\ Answered
<1> PICK C : C = BS!Characters
  OBVIOUS
<1>1. /\ source \in Seq(C) /\ buff \in Seq(C) /\ read \in Seq(C)
      /\ partial \in BOOLEAN /\ failed \in BOOLEAN /\ isEOF \in BOOLEAN /\ maxBuffSz \in Sizes
      /\ Len(source) \in Nat /\ Len(buff) \in Nat /\ MaxRest \in Nat
      /\ isEOF => source = <<>> \/ failed
  BY StreamHas
<1>2. t \in Seq(C) /\ Len(t) \in Nat
  BY LenProperties DEF BS!BstrStreamAssumption
<1>3. /\ call.kind = "none" /\ Len(t) + Len(buff) + Len(source) <= MaxRest
      /\ buff' = t \o buff /\ ret' = 0
      /\ UNCHANGED <<source, partial, failed, isEOF, maxBuffSz, read, call>>
  BY DEF BS!Bsunread, BS!Idle
<1>4. BS!Rest = buff \o source /\ BS!Rest' = (t \o buff) \o source
  BY <1>3 DEF BS!Rest
<1>5. BS!Rest' = t \o BS!Rest
  <2>1. t \in Seq(C) /\ buff \in Seq(C) /\ source \in Seq(C)
    BY <1>1, <1>2
  <2>2. (t \o buff) \o source = t \o (buff \o source)
    BY ONLY <2>1, ConcatAssociative
  <2> QED
    BY <1>4, <2>2
<1>6. Steps
  BY <1>3, <1>5 DEF Steps, BS!AbstractStream!Next, BS!AbstractStream!PutBack
<1>7. buff' \in Seq(C) /\ Len(buff') = Len(t) + Len(buff)
  BY <1>1, <1>2, <1>3, ConcatProperties
<1>8. StreamTypes'
  BY <1>1, <1>3, <1>7 DEF StreamInv, StreamTypes
<1>9. EndsKnown' /\ LineGoesOn' /\ LengthGoesOn'
  BY <1>1, <1>3 DEF EndsKnown, LineGoesOn, LengthGoesOn
<1>10. BS!LineEnds /\ BS!LengthExact /\ BS!NoReadAhead
  BY <1>3 DEF BS!LineEnds, BS!LengthExact, BS!NoReadAhead
<1>11. BS!ErrorMeansEnd
  BY <1>1, <1>3 DEF BS!ErrorMeansEnd
<1> QED
  BY <1>6, <1>8, <1>9, <1>10, <1>11 DEF StreamInv, Answered

\* The size of the buffer is set.
LEMMA BsbufflengthStep ==
  ASSUME BS!BstrStreamAssumption, StreamInv, NEW sz \in Sizes, BS!Bsbufflength(sz)
  PROVE  StreamInv' /\ Steps /\ Answered
<1>1. /\ call.kind = "none" /\ maxBuffSz' = sz
      /\ UNCHANGED <<source, partial, failed, buff, isEOF, read, call, ret>>
  BY DEF BS!Bsbufflength, BS!Idle
<1>2. StreamTypes'
  BY <1>1 DEF StreamInv, StreamTypes
<1>3. EndsKnown' /\ LineGoesOn' /\ LengthGoesOn'
  BY <1>1 DEF StreamInv, EndsKnown, LineGoesOn, LengthGoesOn
<1>4. BS!Rest' = BS!Rest
  BY <1>1 DEF BS!Rest
<1>5. Steps
  BY <1>1, <1>4 DEF Steps, BS!AbstractStream!vars
<1>6. BS!LineEnds /\ BS!LengthExact /\ BS!NoReadAhead
  BY <1>1 DEF BS!LineEnds, BS!LengthExact, BS!NoReadAhead
<1>7. BS!ErrorMeansEnd
  <2>1. ret = -1 => BS!Rest = <<>> \/ (failed /\ isEOF)
    <3>1. ASSUME ret = -1
          PROVE  (buff = <<>> /\ source = <<>>) \/ (failed /\ isEOF)
      BY <1>1, <3>1 DEF StreamInv, EndsKnown
    <3>2. BS!Rest = buff \o source /\ source \in Seq(BS!Characters)
      BY <1>1 DEF BS!Rest, StreamInv, StreamTypes
    <3> QED
      BY <3>1, <3>2, ConcatEmptySeq
  <2> QED
    BY <1>1, <1>4, <2>1 DEF BS!ErrorMeansEnd, BS!Short, StreamInv, EndsKnown
<1> QED
  BY <1>2, <1>3, <1>5, <1>6, <1>7 DEF StreamInv, Answered

LEMMA StreamInit ==
  ASSUME BS!BstrStreamAssumption, BS!Init
  PROVE  StreamInv /\ BS!AbstractStream!Init
<1>1. /\ source \in Sources /\ partial \in BOOLEAN /\ failed = FALSE
      /\ buff = <<>> /\ isEOF = FALSE /\ maxBuffSz \in Sizes
      /\ read = <<>> /\ call = BS!None /\ ret = 0
  BY DEF BS!Init
<1>2. /\ source \in Seq(BS!Characters) /\ Len(source) <= MaxRest /\ Len(source) \in Nat
      /\ MaxRest \in Nat
  BY <1>1, LenProperties DEF BS!BstrStreamAssumption
<1>3. <<>> \in Seq(BS!Characters) /\ Len(<<>>) = 0
  BY EmptySeq
<1>4. /\ call.kind = "none"
      /\ call \in [kind : {"none", "line", "length"}, term : {{}} \cup Terminators,
                   asked : Nat, n : Nat, rlo : Nat, direct : BOOLEAN]
  BY <1>1 DEF BS!None
<1>5. Len(buff) + Len(source) <= MaxRest
  BY <1>1, <1>2, <1>3
<1>6. StreamTypes
  BY <1>1, <1>2, <1>3, <1>4, <1>5 DEF StreamTypes
<1>7. EndsKnown /\ LineGoesOn /\ LengthGoesOn
  BY <1>1, <1>4 DEF EndsKnown, LineGoesOn, LengthGoesOn
<1> QED
  BY <1>1, <1>6, <1>7 DEF StreamInv, BS!AbstractStream!Init

LEMMA StreamStep ==
  ASSUME BS!BstrStreamAssumption, StreamInv, BS!Next
  PROVE  StreamInv' /\ Steps /\ Answered
<1>1. ASSUME NEW term \in Terminators, NEW fresh \in BOOLEAN, BS!Bsreadln(term, fresh)
      PROVE  StreamInv' /\ Steps /\ Answered
  BY <1>1, BsreadlnStep
<1>2. ASSUME NEW n \in 1 .. MaxRead, NEW fresh \in BOOLEAN, NEW roomy \in BOOLEAN,
             BS!Bsread(n, fresh, roomy)
      PROVE  StreamInv' /\ Steps /\ Answered
  BY <1>2, BsreadStep
<1>3. ASSUME NEW t \in Returned, BS!Bsunread(t)
      PROVE  StreamInv' /\ Steps /\ Answered
  BY <1>3, BsunreadStep
<1>4. ASSUME NEW sz \in Sizes, BS!Bsbufflength(sz)
      PROVE  StreamInv' /\ Steps /\ Answered
  BY <1>4, BsbufflengthStep
<1>5. CASE BS!LengthEnough
  BY <1>5, LengthEnoughStep
<1>6. ASSUME NEW k \in -1 .. Len(source),
             BS!LineChunk(k) \/ BS!Direct(k) \/ BS!LengthChunk(k)
      PROVE  StreamInv' /\ Steps /\ Answered
  BY <1>6, LineChunkStep, DirectStep, LengthChunkStep
<1> QED
  BY <1>1, <1>2, <1>3, <1>4, <1>5, <1>6 DEF BS!Next, BS!Call, BS!Round

\* Nothing is changed.
LEMMA StreamRests ==
  ASSUME StreamInv, UNCHANGED BS!vars
  PROVE  StreamInv' /\ UNCHANGED BS!AbstractStream!vars
<1>1. UNCHANGED <<source, partial, failed, buff, isEOF, maxBuffSz, read, call, ret>>
  BY DEF BS!vars
<1>2. StreamTypes' /\ EndsKnown' /\ LineGoesOn' /\ LengthGoesOn'
  BY <1>1 DEF StreamInv, StreamTypes, EndsKnown, LineGoesOn, LengthGoesOn
<1>3. BS!Rest' = BS!Rest
  BY <1>1 DEF BS!Rest
<1> QED
  BY <1>1, <1>2, <1>3 DEF StreamInv, BS!AbstractStream!vars

LEMMA StreamTypesFollow ==
  ASSUME BS!BstrStreamAssumption, StreamInv
  PROVE  StreamTypeOK
<1>1. /\ Len(source) \in Nat /\ Len(buff) \in Nat /\ Len(read) \in Nat /\ MaxRest \in Nat
      /\ Len(buff) + Len(source) <= MaxRest
      /\ call.rlo \in Nat /\ call.n \in Nat /\ call.asked \in Nat
  BY StreamHas
<1>2. Len(buff) <= MaxRest
  BY <1>1
<1>3. call.kind = "length" =>
        call.n = call.rlo + call.asked /\ Len(read) \in call.rlo .. call.n
  <2>1. SUFFICES ASSUME call.kind = "length"
                 PROVE  call.n = call.rlo + call.asked /\ Len(read) \in call.rlo .. call.n
    OBVIOUS
  <2>2. /\ call.n = call.rlo + call.asked /\ call.rlo <= Len(read) /\ Len(read) <= call.n
    BY <2>1 DEF StreamInv, LengthGoesOn
  <2> QED
    BY <1>1, <2>2
<1> QED
  BY <1>2, <1>3 DEF StreamTypeOK, BS!TypeOK, StreamInv, StreamTypes

\* Whatever may be in the source and however it is read: the variables of a stream
\* have their types, the string that is read to never holds more than was asked for
\* and the buffer never more than is left.
THEOREM StreamsKeepTheirTypes ==
  ASSUME BS!BstrStreamAssumption
  PROVE  BS!Spec => []StreamTypeOK
<1>1. BS!Init => StreamInv
  BY StreamInit
<1>2. StreamInv /\ [BS!Next]_(BS!vars) => StreamInv'
  BY StreamStep, StreamRests
<1>3. StreamInv => StreamTypeOK
  BY StreamTypesFollow
<1> QED
  BY <1>1, <1>2, <1>3, PTL DEF BS!Spec

\* A stream of any size, whatever its source returns at a time and whatever is put
\* back, is a Stream: no character is lost, read twice or out of order.
THEOREM StreamsReadEverything ==
  ASSUME BS!BstrStreamAssumption
  PROVE  BS!Spec => ImplementsStream
<1>1. BS!Init => StreamInv /\ BS!AbstractStream!Init
  BY StreamInit
<1>2. StreamInv /\ [BS!Next]_(BS!vars) =>
        StreamInv' /\ [BS!AbstractStream!Next]_(BS!AbstractStream!vars)
  BY StreamStep, StreamRests DEF Steps
<1> QED
  BY <1>1, <1>2, PTL
     DEF BS!Spec, ImplementsStream, BS!ImplementsStream, BS!AbstractStream!Spec

\* And its calls return what they were asked for: lines end behind their
\* terminators and nowhere else, lengths are exact until the source ends or
\* fails, nothing is taken from the source that is not returned, and an error means
\* that nothing is left or that the source has failed.
THEOREM StreamsReadAsAsked ==
  ASSUME BS!BstrStreamAssumption
  PROVE  BS!Spec => ReadsAsAsked
<1>1. BS!Init => StreamInv
  BY StreamInit
<1>2. StreamInv /\ [BS!Next]_(BS!vars) =>
        StreamInv' /\ [BS!LineEnds /\ BS!LengthExact /\ BS!NoReadAhead
                       /\ BS!ErrorMeansEnd]_(BS!vars)
  BY StreamStep, StreamRests DEF Answered
<1> QED
  BY <1>1, <1>2, PTL DEF BS!Spec, ReadsAsAsked, BS!ReadsAsAsked

\* Of a string and of a stream that are used side by side, each keeps its types: the
\* string has room for its characters whatever is called, and a read under way has
\* at most what it was asked for.
THEOREM TypesKept ==
  ASSUME BS!BstrStreamAssumption
  PROVE  Spec /\ BS!Spec => []TypesOK
<1>1. Spec => []TypeOK
  BY StringsInsideTheirBlock
<1>2. BS!Spec => []StreamTypeOK
  BY StreamsKeepTheirTypes
<1>3. TypeOK /\ StreamTypeOK => TypesOK
  BY DEF TypesOK, StreamTypeOK
<1> QED
  BY <1>1, <1>2, <1>3, PTL

=============================================================================
