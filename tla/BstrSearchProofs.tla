-------------------------- MODULE BstrSearchProofs --------------------------
(***************************************************************************)
(* What the searches of BstrSearch find, for strings of any length over any *)
(* characters; and, at the end, that the comparisons of BstrCompare are the  *)
(* order of their texts.                                                   *)
(***************************************************************************)
EXTENDS Searches, SequenceLemmas

-----------------------------------------------------------------------------
(* The invariant.                                                          *)

Plain == kind # "binstr"

\* The first n characters of b2 are at k.
BeginsAt(k, n) == \A m \in 1 .. n : Same(b2[m], b1[k + m])

SearchTypes ==
  /\ b1 \in Seq(Chars) /\ b2 \in Seq(Chars) /\ pos \in Int
  /\ kind \in {"binstr", "binstrr", "binstrcaseless", "binstrrcaseless"}
  /\ pc \in {"start", "loop", "done"}
  /\ i \in Int /\ j \in Nat /\ ii \in Int /\ result \in Int

\* A search begins with the first character of b2, and its loop is only entered
\* where b2 fits.
Fits ==
  /\ pc = "start" => j = 0
  /\ pc = "loop" =>
    /\ pos \in 0 .. Len(b1) /\ Len(b2) > 0 /\ LastFit >= 0 /\ j < Len(b2)
    /\ Forward => pos <= LastFit

\* The loop of binstr takes the characters of b2 wherever each comes first, and
\* so never passes one that a place of b2 as a whole would need.
NothingPassed ==
  pc = "loop" /\ kind = "binstr" =>
    /\ i >= pos
    /\ Len(b2) = 1 => j = 0
    /\ \A k \in Places : k >= pos => k + j >= i

\* Unless a character was left out, what was taken is a beginning of b2.
Taken ==
  pc = "loop" /\ kind = "binstr" /\ j > 0 =>
    /\ ii >= pos /\ i >= ii + j
    /\ i = ii + j => ii + j <= Len(b1) /\ BeginsAt(ii, j)

\* The plain searches try one place after the other.
Tried ==
  pc = "loop" /\ Plain =>
    /\ i \in 0 .. LastFit /\ BeginsAt(i, j)
    /\ IF Forward THEN i >= pos /\ \A k \in Places : k >= pos => k >= i
                  ELSE i <= pos /\ \A k \in Places : k <= pos => k <= i

\* What a search may return: no place where there is none, and otherwise the
\* nearest to pos.
Answers(r) ==
  IF pos \notin 0 .. Len(b1) THEN r = -1
  ELSE IF b2 = <<>> THEN r = pos
  ELSE IF Forward
    THEN \/ r = -1 /\ \A k \in Places : k < pos
         \/ r \in Places /\ r >= pos /\ \A k \in Places : k >= pos => k >= r
    ELSE \/ r = -1 /\ \A k \in Places : k > pos
         \/ r \in Places /\ r <= pos /\ \A k \in Places : k <= pos => k <= r

Nearest == pc = "done" => Answers(result)

SearchInv == SearchTypes /\ Fits /\ NothingPassed /\ Taken /\ Tried /\ Nearest

-----------------------------------------------------------------------------
(* What a place is.                                                        *)

\* binstr takes no two characters for the same.
LEMMA SameIsEqual ==
  ASSUME kind = "binstr"
  PROVE  \A c, d : Same(c, d) <=> c = d
BY DEF Same

\* At a place, which is not beyond the end of b1, is every character of b2.
LEMMA PlaceHas ==
  ASSUME SearchTypes
  PROVE  \A k \in Places :
           /\ k \in Int /\ 0 <= k /\ k <= LastFit
           /\ \A n \in 0 .. Len(b2) - 1 : Same(d0(n), d1(k + n))
<1> SUFFICES ASSUME NEW k \in Places
             PROVE  /\ k \in Int /\ 0 <= k /\ k <= LastFit
                    /\ \A n \in 0 .. Len(b2) - 1 : Same(d0(n), d1(k + n))
  OBVIOUS
<1>1. /\ Len(b1) \in Nat /\ Len(b2) \in Nat /\ LastFit \in Int
      /\ DOMAIN b2 = 1 .. Len(b2)
  BY DEF SearchTypes, LastFit
<1>2. k \in 0 .. LastFit /\ \A m \in DOMAIN b2 : Same(b2[m], b1[k + m])
  BY DEF Places
<1>3. ASSUME NEW n \in 0 .. Len(b2) - 1
      PROVE  Same(d0(n), d1(k + n))
  <2>1. n + 1 \in DOMAIN b2 /\ k + (n + 1) = (k + n) + 1
    BY <1>1, <1>2
  <2> QED
    BY <1>2, <2>1 DEF d0, d1
<1> QED
  BY <1>1, <1>2, <1>3

\* Where b2 begins in full there is a place.
LEMMA IsPlace ==
  ASSUME SearchTypes, NEW k \in 0 .. LastFit, BeginsAt(k, Len(b2))
  PROVE  k \in Places
BY DEF SearchTypes, BeginsAt, Places

\* A beginning is longer by a character that is the same.
LEMMA BeginsLonger ==
  ASSUME SearchTypes, NEW k \in Int, NEW n \in Nat,
         BeginsAt(k, n), Same(d0(n), d1(k + n))
  PROVE  BeginsAt(k, n + 1)
<1> SUFFICES ASSUME NEW m \in 1 .. n + 1
             PROVE  Same(b2[m], b1[k + m])
  BY DEF BeginsAt
<1>1. CASE m = n + 1
  BY <1>1 DEF d0, d1
<1>2. CASE m # n + 1
  BY <1>2 DEF BeginsAt
<1> QED
  BY <1>1, <1>2

\* A search does not change what it is asked.
LEMMA ArgsKept ==
  ASSUME UNCHANGED args
  PROVE  /\ b1' = b1 /\ b2' = b2 /\ pos' = pos /\ kind' = kind
         /\ Places' = Places /\ LastFit' = LastFit
         /\ Forward' <=> Forward
         /\ \A k, n : BeginsAt(k, n)' <=> BeginsAt(k, n)
BY DEF args, Places, LastFit, Forward, BeginsAt, Same

-----------------------------------------------------------------------------
(* The steps.                                                              *)

LEMMA SearchInit == Init => SearchInv
<1> SUFFICES ASSUME Init
             PROVE  SearchInv
  OBVIOUS
<1>1. b1 \in Seq(Chars) /\ b2 \in Seq(Chars) /\ pos \in Int
  BY BoundedSeqIsSeq, BstrSearchAssumption DEF Init
<1> QED
  BY <1>1 DEF Init, SearchInv, SearchTypes, Fits, NothingPassed, Taken, Tried,
              Nearest

\* A step that returns has to return the answer.
LEMMA ReturnStep ==
  ASSUME SearchTypes, UNCHANGED args, NEW r \in Int, Answers(r), Return(r),
         i' \in Int, j' \in Nat, ii' \in Int
  PROVE  SearchInv'
<1>1. pc' = "done" /\ result' = r /\ b1' = b1 /\ b2' = b2 /\ pos' = pos
      /\ kind' = kind
  BY ArgsKept DEF Return
<1>2. SearchTypes' /\ Fits' /\ NothingPassed' /\ Taken' /\ Tried'
  BY <1>1 DEF SearchTypes, Fits, NothingPassed, Taken, Tried
<1>3. Answers(result)'
  BY <1>1, ArgsKept DEF Answers
<1> QED
  BY <1>2, <1>3 DEF SearchInv, Nearest

\* An empty b2 is at pos; a longer one is not looked for where it cannot be.
LEMMA StartStep ==
  ASSUME SearchInv, Start
  PROVE  SearchInv'
<1>1. /\ UNCHANGED args /\ j' = j /\ ii' = ii
      /\ SearchTypes /\ pc = "start"
  BY DEF Start, SearchInv
<1>2. /\ Len(b1) \in Nat /\ Len(b2) \in Nat /\ LastFit \in Int /\ pos \in Int
      /\ b2 = <<>> <=> Len(b2) = 0
      /\ LastFit = Len(b1) - Len(b2)
      /\ i \in Int /\ j \in Nat /\ ii \in Int
  BY <1>1 DEF SearchTypes, LastFit
<1>3. \A k \in Places : k \in Int /\ 0 <= k /\ k <= LastFit
  BY <1>1, PlaceHas
<1>4. CASE pos < 0 \/ pos > Len(b1)
  <2>1. Return(-1) /\ i' = i
    BY <1>4 DEF Start
  <2>2. Answers(-1)
    BY <1>2, <1>4 DEF Answers
  <2> QED
    BY <1>1, <1>2, <2>1, <2>2, ReturnStep
<1>5. CASE ~(pos < 0 \/ pos > Len(b1)) /\ b2 = <<>>
  <2>1. Return(pos) /\ i' = i
    BY <1>5 DEF Start
  <2>2. Answers(pos)
    BY <1>2, <1>5 DEF Answers
  <2> QED
    BY <1>1, <1>2, <2>1, <2>2, ReturnStep
<1>6. CASE /\ ~(pos < 0 \/ pos > Len(b1)) /\ b2 # <<>>
           /\ LastFit < (IF Forward THEN pos ELSE 0)
  <2>1. Return(-1) /\ i' = i
    BY <1>6 DEF Start
  <2>2. Answers(-1)
    BY <1>2, <1>3, <1>6 DEF Answers
  <2> QED
    BY <1>1, <1>2, <2>1, <2>2, ReturnStep
<1>7. CASE /\ ~(pos < 0 \/ pos > Len(b1)) /\ b2 # <<>>
           /\ ~(LastFit < (IF Forward THEN pos ELSE 0))
  <2> DEFINE least == IF pos <= LastFit THEN pos ELSE LastFit
  <2>1. /\ pc' = "loop" /\ result' = result
        /\ i' = IF Forward THEN pos ELSE least
    BY <1>2, <1>7, OfTwo DEF Start
  <2>2. i' \in Int /\ pos' = pos /\ b1' = b1 /\ b2' = b2 /\ kind' = kind
    BY <1>1, <1>2, <2>1, ArgsKept
  <2>3. SearchTypes'
    BY <1>1, <2>1, <2>2 DEF SearchTypes
  <2>4. j = 0 /\ j' = 0
    BY <1>1 DEF SearchInv, Fits
  <2>5. Fits'
    BY <1>2, <1>7, <2>1, <2>2, <2>4, ArgsKept, <1>1 DEF Fits
  <2>6. NothingPassed' /\ Taken'
    BY <1>1, <1>2, <1>3, <2>1, <2>2, <2>4, ArgsKept
      DEF NothingPassed, Taken, Forward
  <2>7. Tried'
    <3>1. BeginsAt(i, j)'
      BY <2>4 DEF BeginsAt
    <3>2. i' \in 0 .. LastFit
      BY <1>2, <1>7, <2>1
    <3>3. IF Forward THEN i' >= pos /\ \A k \in Places : k >= pos => k >= i'
                     ELSE i' <= pos /\ \A k \in Places : k <= pos => k <= i'
      BY <1>2, <1>3, <1>7, <2>1
    <3> QED
      BY <1>1, <2>2, <3>1, <3>2, <3>3, ArgsKept DEF Tried
  <2>8. Nearest'
    BY <2>1 DEF Nearest
  <2> QED
    BY <2>3, <2>5, <2>6, <2>7, <2>8 DEF SearchInv
<1> QED
  BY <1>4, <1>5, <1>6, <1>7

\* In a loop an answer is sought from pos on, or up to pos.
LEMMA LoopMeans ==
  ASSUME SearchInv, pc = "loop"
  PROVE  /\ Len(b1) \in Nat /\ Len(b2) \in Nat /\ LastFit \in Int /\ pos \in Int
         /\ LastFit = Len(b1) - Len(b2)
         /\ i \in Int /\ j \in Nat /\ ii \in Int
         /\ pos \in 0 .. Len(b1) /\ b2 # <<>> /\ Len(b2) > 0
         /\ LastFit >= 0 /\ j < Len(b2)
         /\ Forward => pos <= LastFit
         /\ \A k \in Places : k \in Int /\ 0 <= k /\ k <= LastFit
         /\ \A k \in Places, n \in 0 .. Len(b2) - 1 : Same(d0(n), d1(k + n))
         /\ kind = "binstr" => Forward
<1>1. SearchTypes /\ Fits
  BY DEF SearchInv
<1> QED
  BY <1>1, PlaceHas DEF SearchTypes, Fits, LastFit, Forward

\* The numbers of a loop.
LEMMA LoopNumbers ==
  ASSUME SearchInv, pc = "loop"
  PROVE  /\ i \in Int /\ j \in Int /\ ii \in Int /\ pos \in Int
         /\ Len(b1) \in Int /\ Len(b2) \in Int
         /\ 0 <= pos /\ 0 <= j /\ j < Len(b2)
         /\ LastFit = Len(b1) - Len(b2)
         /\ \A k \in Places : k \in Int /\ k <= LastFit
BY LoopMeans

\* A step of binstr goes on, no place passed, with what was taken a beginning.
LEMMA GoOn ==
  ASSUME SearchInv, pc = "loop", kind = "binstr", UNCHANGED <<args, pc, result>>,
         i' \in Int, j' \in 0 .. Len(b2) - 1, ii' \in Int, i' >= pos,
         \A k \in Places : k >= pos => k + j' >= i',
         j' > 0 => /\ ii' >= pos /\ i' >= ii' + j'
                   /\ i' = ii' + j' => ii' + j' <= Len(b1) /\ BeginsAt(ii', j')
  PROVE  SearchInv'
<1>1. /\ b1' = b1 /\ b2' = b2 /\ pos' = pos /\ kind' = kind /\ pc' = pc
      /\ result' = result /\ Places' = Places /\ SearchTypes /\ Fits
  BY ArgsKept DEF SearchInv
<1>2. SearchTypes'
  BY <1>1, LoopMeans DEF SearchTypes
<1>3. Fits'
  BY <1>1, LoopMeans, ArgsKept DEF Fits
<1>4. NothingPassed'
  <2>1. Len(b2) = 1 => j' = 0
    BY LoopMeans
  <2> QED
    BY <1>1, <2>1 DEF NothingPassed
<1>5. Taken'
  BY <1>1, ArgsKept DEF Taken, BeginsAt, Same
<1>6. Tried' /\ Nearest'
  BY <1>1 DEF Tried, Plain, Nearest
<1> QED
  BY <1>2, <1>3, <1>4, <1>5, <1>6 DEF SearchInv

\* A single character: every place is compared.
LEMMA SingleStep ==
  ASSUME SearchInv, LoopSingle
  PROVE  SearchInv'
<1>1. /\ UNCHANGED args /\ j' = j /\ ii' = ii /\ SearchTypes
      /\ pc = "loop" /\ kind = "binstr" /\ Len(b2) = 1 /\ j = 0
      /\ i >= pos /\ \A k \in Places : k >= pos => k >= i
  BY LoopMeans DEF LoopSingle, SearchInv, NothingPassed
<1>2. CASE i >= Len(b1)
  <2>. ~(i < Len(b1))
    BY <1>1, <1>2, LoopMeans
  <2>1. Return(-1) /\ i' = i
    BY <1>2 DEF LoopSingle
  <2>2. Answers(-1)
    BY <1>1, <1>2, LoopMeans DEF Answers
  <2> QED
    BY <1>1, LoopMeans, <2>1, <2>2, ReturnStep
<1>3. CASE i < Len(b1) /\ d1(i) = d0(0)
  <2>1. Return(i) /\ i' = i
    BY <1>1, <1>3, LoopMeans DEF LoopSingle
  <2>2. BeginsAt(i, Len(b2)) /\ i \in 0 .. LastFit
    <3>1. i \in 0 .. LastFit
      BY <1>1, <1>3, LoopMeans
    <3>2. \A m \in 1 .. 1 : Same(b2[m], b1[i + m])
      BY <1>1, <1>3, SameIsEqual DEF d0, d1
    <3> QED
      BY <1>1, <3>1, <3>2 DEF BeginsAt
  <2>3. i \in Places
    BY <1>1, <2>2, IsPlace
  <2>4. Answers(i)
    BY <1>1, <2>3, LoopMeans DEF Answers
  <2> QED
    BY <1>1, LoopMeans, <2>1, <2>4, ReturnStep
<1>4. CASE i < Len(b1) /\ d1(i) # d0(0)
  <2>1. i' = i + 1 /\ UNCHANGED <<pc, result>>
    BY <1>1, <1>4, LoopMeans DEF LoopSingle
  <2>2. ASSUME NEW k \in Places, k >= pos
        PROVE  k # i
    <3>1. Same(d0(0), d1(k + 0)) /\ k \in Int
      BY <1>1, LoopMeans
    <3> QED
      BY <1>1, <1>4, <3>1, SameIsEqual
  <2>3. \A k \in Places : k >= pos => k + j' >= i'
    BY <1>1, <2>1, <2>2, LoopMeans
  <2> QED
    BY <1>1, <2>1, <2>3, LoopMeans, GoOn
<1> QED
  BY <1>1, LoopMeans, <1>2, <1>3, <1>4


\* binstr at a character n of b1 that is the next one of b2: the beginning taken
\* is longer by one, and all of b2 is at first if none was left out.
LEMMA TakeOne ==
  ASSUME SearchInv, pc = "loop", kind = "binstr", Len(b2) > 1,
         NEW n \in Int, n < Len(b1), n >= i, d1(n) = d0(j),
         \A k \in Places : k >= pos => k + j >= n,
         NEW first, first = (IF j = 0 THEN n ELSE ii)
  PROVE  /\ first \in Int /\ first >= pos /\ n + 1 >= first + (j + 1)
         /\ n = first + j => BeginsAt(first, j + 1)
<1>1. /\ SearchTypes /\ i >= pos
      /\ j > 0 => ii >= pos /\ i >= ii + j /\ (i = ii + j => BeginsAt(ii, j))
  BY DEF SearchInv, NothingPassed, Taken
<1>2. first \in Int /\ first >= pos /\ n >= first + j
  BY <1>1, LoopMeans
<1>3. ASSUME n = first + j
      PROVE  BeginsAt(first, j + 1)
  <2>1. BeginsAt(first, j)
    <3>1. CASE j = 0
      BY <3>1 DEF BeginsAt
    <3>2. CASE j > 0
      <4>1. i = ii + j /\ first = ii
        BY <1>1, <1>3, <3>2, LoopMeans
      <4> QED
        BY <1>1, <3>2, <4>1
    <3> QED
      BY <3>1, <3>2, LoopMeans
  <2>2. Same(d0(j), d1(first + j))
    BY <1>3, SameIsEqual
  <2> QED
    BY <1>1, <1>2, <2>1, <2>2, LoopMeans, BeginsLonger
<1> QED
  BY <1>2, <1>3, LoopMeans

\* The last character of b2 was taken: if none was left out this is the answer,
\* and otherwise no place before the one that ends here is left.
LEMMA TakeLast ==
  ASSUME SearchInv, pc = "loop", kind = "binstr", Len(b2) > 1, j + 1 = Len(b2),
         NEW n \in Int, n < Len(b1), \A k \in Places : k >= pos => k + j >= n,
         NEW first \in Int, first >= pos, n >= first + j,
         n = first + j => BeginsAt(first, j + 1)
  PROVE  /\ n = first + j => Answers(first)
         /\ n # first + j =>
              n - j >= pos /\ \A k \in Places : k >= pos => k >= n - j
<1>1. SearchTypes
  BY DEF SearchInv
<1>2. ASSUME n = first + j
      PROVE  Answers(first)
  <2>1. first \in 0 .. LastFit /\ BeginsAt(first, Len(b2))
    BY <1>2, LoopMeans
  <2>2. first \in Places
    BY <1>1, <2>1, IsPlace
  <2>3. \A k \in Places : k >= pos => k >= first
    BY <1>2, LoopMeans
  <2> QED
    BY <2>2, <2>3, LoopMeans DEF Answers
<1>3. ASSUME n # first + j
      PROVE  n - j >= pos /\ \A k \in Places : k >= pos => k >= n - j
  BY <1>3, LoopMeans
<1> QED
  BY <1>2, <1>3

\* A round of binstr.
LEMMA UnrolledStep ==
  ASSUME SearchInv, LoopUnrolled
  PROVE  SearchInv'
<1> DEFINE n == IF d1(i) = d0(j) THEN i ELSE i + 1
           first == IF j = 0 THEN n ELSE ii
<1>1. /\ UNCHANGED args /\ SearchTypes /\ pc = "loop" /\ kind = "binstr"
      /\ Len(b2) > 1 /\ i < Len(b1) - 1 /\ Round
      /\ i >= pos /\ \A k \in Places : k >= pos => k + j >= i
      /\ j > 0 => ii >= pos /\ i >= ii + j
  BY DEF LoopUnrolled, SearchInv, NothingPassed, Taken
<1>2. \A k \in Places : k \in Int /\ d1(k + j) = d0(j)
  BY <1>1, LoopMeans, SameIsEqual
<1>3. CASE d1(i) # d0(j) /\ d1(i + 1) # d0(j)
  <2>1. i' = i + 2 /\ UNCHANGED <<j, ii, pc, result>>
    BY <1>1, <1>3 DEF Round
  <2>2. ASSUME NEW k \in Places, k >= pos
        PROVE  k + j >= i + 2
    <3>1. k + j # i /\ k + j # i + 1
      BY <1>2, <1>3
    <3> QED
      BY <1>1, <2>2, <3>1, LoopNumbers
  <2>3. i' \in Int /\ i' >= pos /\ j' \in 0 .. Len(b2) - 1 /\ ii' \in Int
        /\ (j' > 0 => ii' >= pos /\ i' >= ii' + j' /\ i' # ii' + j')
    BY <1>1, <2>1, LoopMeans
  <2>4. \A k \in Places : k >= pos => k + j' >= i'
    BY <2>1, <2>2
  <2> QED
    BY <1>1, <2>1, <2>3, <2>4, GoOn
<1>4. CASE ~(d1(i) # d0(j) /\ d1(i + 1) # d0(j))
  <2>1. n \in Int /\ n >= i /\ n < Len(b1) /\ d1(n) = d0(j)
    BY <1>1, <1>4, LoopMeans
  <2>2. ASSUME NEW k \in Places, k >= pos
        PROVE  k + j >= n
    <3>1. d1(i) # d0(j) => k + j # i
      BY <1>2
    <3> QED
      BY <1>1, <1>2, <2>2, <3>1, LoopMeans
  <2>3. /\ ii' = first
        /\ IF j + 1 < Len(b2)
             THEN i' = n + 1 /\ j' = j + 1 /\ UNCHANGED <<pc, result>>
             ELSE Matched(n + 1, first)
    BY <1>1, <1>4 DEF Round
  <2>4. first = IF j = 0 THEN n ELSE ii
    OBVIOUS
  <2> HIDE DEF n, first
  <2>5. /\ first \in Int /\ first >= pos /\ n + 1 >= first + (j + 1)
        /\ n = first + j => BeginsAt(first, j + 1)
    BY <1>1, <2>1, <2>2, <2>4, TakeOne
  <2>6. CASE j + 1 < Len(b2)
    <3>1. /\ i' = n + 1 /\ j' = j + 1 /\ ii' = first /\ UNCHANGED <<pc, result>>
      BY <2>3, <2>6
    <3>2. /\ i' \in Int /\ i' >= pos /\ j' \in 0 .. Len(b2) - 1 /\ ii' \in Int
          /\ ii' >= pos /\ i' >= ii' + j'
          /\ i' = ii' + j' => n = first + j /\ ii' + j' <= Len(b1)
      <4>1. /\ pos \in Int /\ i \in Int /\ j \in Int /\ j >= 0 /\ Len(b1) \in Int
            /\ Len(b2) \in Int /\ i >= pos
        BY <1>1, LoopNumbers
      <4>2. i' \in Int /\ i' >= pos /\ j' \in 0 .. Len(b2) - 1
        BY <2>1, <2>6, <3>1, <4>1
      <4>3. ii' \in Int /\ ii' >= pos /\ i' >= ii' + j'
        BY <2>5, <3>1
      <4>4. i' = ii' + j' => n = first + j /\ ii' + j' <= Len(b1)
        BY <2>1, <2>5, <3>1, <4>1
      <4> QED
        BY <4>2, <4>3, <4>4
    <3>3. \A k \in Places : k >= pos => k + j' >= i'
      BY <1>1, <2>1, <2>2, <3>1, LoopNumbers
    <3>4. i' = ii' + j' => BeginsAt(ii', j')
      BY <2>5, <3>1, <3>2
    <3> QED
      BY <1>1, <3>1, <3>2, <3>3, <3>4, GoOn
  <2>7. CASE ~(j + 1 < Len(b2))
    <3>1. j + 1 = Len(b2) /\ Matched(n + 1, first)
      BY <1>1, <2>3, <2>7, LoopMeans
    <3>2. /\ n >= first + j
          /\ n = first + j => Answers(first)
          /\ n # first + j =>
               n - j >= pos /\ \A k \in Places : k >= pos => k >= n - j
      <4>1. n >= first + j
        BY <1>1, <2>1, <2>5, LoopNumbers
      <4> QED
        BY <1>1, <2>1, <2>2, <2>5, <3>1, <4>1, TakeLast
    <3>3. CASE n = first + j
      <4>. j + 1 = Len(b2) /\ j \in Int /\ n \in Int /\ first \in Int
        BY <1>1, <2>1, <2>5, <3>1, LoopNumbers
      <4>1. n + 1 = first + Len(b2)
        BY <3>3
      <4>2. Return(first) /\ i' = i /\ j' = j
        BY <3>1, <4>1 DEF Matched
      <4> QED
        BY <1>1, <2>3, <2>5, <3>2, <3>3, <4>2, LoopMeans, ReturnStep
    <3>4. CASE n # first + j
      <4>. j + 1 = Len(b2) /\ j \in Int /\ n \in Int /\ first \in Int
        BY <1>1, <2>1, <2>5, <3>1, LoopNumbers
      <4>1. n + 1 # first + Len(b2)
        BY <3>4
      <4>2. i' = (n + 1) - Len(b2) /\ j' = 0 /\ UNCHANGED <<pc, result>>
        BY <3>1, <4>1 DEF Matched
      <4>3. i' = n - j /\ i' \in Int
        BY <4>2
      <4>4. i' >= pos /\ \A k \in Places : k >= pos => k >= i'
        BY <3>2, <3>4, <4>3
      <4>5. \A k \in Places : k >= pos => k + j' >= i'
        <5>. j' = 0
          BY <4>2
        <5>1. \A k \in Places : k + j' = k
          BY <1>2
        <5> QED
          BY <4>4, <5>1
      <4>6. j' \in 0 .. Len(b2) - 1 /\ ii' \in Int
        BY <1>1, <2>3, <2>5, <4>2
      <4> QED
        BY <1>1, <4>2, <4>3, <4>4, <4>5, <4>6, GoOn
    <3> QED
      BY <3>3, <3>4
  <2> QED
    BY <2>6, <2>7
<1> QED
  BY <1>3, <1>4

\* The last character of b1.
LEMMA EndStep ==
  ASSUME SearchInv, LoopEnd
  PROVE  SearchInv'
<1>1. /\ UNCHANGED args /\ ii' = ii /\ SearchTypes /\ pc = "loop"
      /\ kind = "binstr" /\ Len(b2) > 1 /\ i >= Len(b1) - 1
      /\ i >= pos /\ \A k \in Places : k >= pos => k + j >= i
      /\ j > 0 => ii >= pos /\ i >= ii + j /\ (i = ii + j => BeginsAt(ii, j))
  BY DEF LoopEnd, SearchInv, NothingPassed, Taken
<1>2. \A k \in Places : k \in Int /\ d1(k + j) = d0(j)
  BY <1>1, LoopMeans, SameIsEqual
<1>3. CASE i = Len(b1) - 1 /\ Len(b2) = j + 1 /\ d1(i) = d0(j)
  <2>1. j > 0 /\ ii >= pos /\ i >= ii + j /\ i < Len(b1) /\ i >= i
    BY <1>1, <1>3, LoopMeans
  <2>2. /\ ii \in Int /\ ii >= pos
        /\ i = ii + j => BeginsAt(ii, j + 1)
    BY <1>1, <1>3, <2>1, TakeOne, LoopMeans
  <2>3. /\ i = ii + j => Answers(ii)
        /\ i # ii + j =>
             i - j >= pos /\ \A k \in Places : k >= pos => k >= i - j
    <3>1. j + 1 = Len(b2) /\ i \in Int
      BY <1>3, LoopMeans, <1>1
    <3> QED
      BY <1>1, <2>1, <2>2, <3>1, TakeLast
  <2>4. IF i = ii + j THEN Return(ii) /\ UNCHANGED <<i, j>>
        ELSE i' = i - j /\ j' = 0 /\ UNCHANGED <<pc, result>>
    BY <1>3 DEF LoopEnd
  <2>5. CASE i = ii + j
    BY <1>1, <2>3, <2>4, <2>5, LoopMeans, ReturnStep
  <2>6. CASE i # ii + j
    <3>1. i' = i - j /\ j' = 0 /\ i' \in Int /\ j' \in 0 .. Len(b2) - 1
      BY <1>1, <2>4, <2>6, LoopMeans
    <3>2. \A k \in Places : k >= pos => k + j' >= i'
      BY <1>2, <2>3, <2>6, <3>1
    <3> QED
      BY <1>1, <2>3, <2>4, <2>6, <3>1, <3>2, LoopMeans, GoOn
  <2> QED
    BY <2>5, <2>6
<1>4. CASE ~(i = Len(b1) - 1 /\ Len(b2) = j + 1 /\ d1(i) = d0(j))
  <2>1. Return(-1) /\ i' = i /\ j' = j
    BY <1>4 DEF LoopEnd
  <2>2. ASSUME NEW k \in Places, k >= pos
        PROVE  FALSE
    <3>1. k + j <= Len(b1) - 1 /\ k + j >= i
      BY <1>1, <2>2, LoopMeans
    <3>2. k + j = i /\ i = Len(b1) - 1 /\ Len(b2) = j + 1
      BY <1>1, <2>2, <3>1, LoopNumbers
    <3> QED
      BY <1>2, <1>4, <3>2
  <2>3. Answers(-1)
    BY <1>1, <2>2, LoopMeans DEF Answers
  <2> QED
    BY <1>1, <2>1, <2>3, LoopMeans, ReturnStep
<1> QED
  BY <1>3, <1>4

\* A comparison of the plain searches, whose every place is tried in its turn.
LEMMA PlainStep ==
  ASSUME SearchInv, LoopPlain
  PROVE  SearchInv'
<1>1. /\ UNCHANGED args /\ ii' = ii /\ SearchTypes /\ pc = "loop"
      /\ kind # "binstr" /\ i \in 0 .. LastFit /\ BeginsAt(i, j)
      /\ IF Forward
           THEN i >= pos /\ \A k \in Places : k >= pos => k >= i
           ELSE i <= pos /\ \A k \in Places : k <= pos => k <= i
  BY DEF LoopPlain, SearchInv, Tried, Plain
<1>2. \A k \in Places : k \in Int /\ Same(d0(j), d1(k + j))
  BY <1>1, LoopMeans
\* The search goes on at a place n, as far as m.
<1>3. ASSUME NEW n \in 0 .. LastFit, NEW m \in 0 .. Len(b2) - 1,
             i' = n, j' = m, UNCHANGED <<pc, result>>, BeginsAt(n, m),
             IF Forward THEN n >= pos /\ \A k \in Places : k >= pos => k >= n
                        ELSE n <= pos /\ \A k \in Places : k <= pos => k <= n
      PROVE  SearchInv'
  <2>1. /\ b1' = b1 /\ b2' = b2 /\ pos' = pos /\ kind' = kind /\ pc' = pc
        /\ result' = result /\ SearchTypes /\ Fits
    BY <1>1, <1>3, ArgsKept DEF SearchInv
  <2>2. SearchTypes'
    BY <1>1, <1>3, <2>1, LoopNumbers DEF SearchTypes
  <2>3. Fits'
    BY <1>1, <1>3, <2>1, LoopNumbers, LoopMeans, ArgsKept DEF Fits
  <2>4. NothingPassed' /\ Taken' /\ Nearest'
    BY <1>1, <2>1 DEF NothingPassed, Taken, Nearest
  <2>5. BeginsAt(i, j)'
    BY <1>3, <2>1 DEF BeginsAt, Same
  <2>6. Tried'
    BY <1>1, <1>3, <2>1, <2>5, ArgsKept DEF Tried
  <2> QED
    BY <2>2, <2>3, <2>4, <2>6 DEF SearchInv
<1>4. CASE Same(d0(j), d1(i + j)) /\ j + 1 >= Len(b2)
  <2>1. Return(i) /\ i' = i /\ j' = j
    BY <1>4 DEF LoopPlain
  <2>2. j + 1 = Len(b2)
    BY <1>1, <1>4, LoopNumbers
  <2>3. BeginsAt(i, j + 1)
    BY <1>1, <1>4, LoopMeans, BeginsLonger
  <2>4. i \in Places
    BY <1>1, <2>2, <2>3, IsPlace
  <2>5. Answers(i)
    BY <1>1, <2>4, LoopMeans DEF Answers
  <2> QED
    BY <1>1, <2>1, <2>5, LoopMeans, ReturnStep
<1>5. CASE Same(d0(j), d1(i + j)) /\ ~(j + 1 >= Len(b2))
  <2>1. i' = i /\ j' = j + 1 /\ UNCHANGED <<pc, result>>
    BY <1>5 DEF LoopPlain
  <2>2. j + 1 \in 0 .. Len(b2) - 1
    BY <1>1, <1>5, LoopNumbers
  <2>3. BeginsAt(i, j + 1)
    BY <1>1, <1>5, LoopMeans, BeginsLonger
  <2> QED
    BY <1>1, <1>3, <2>1, <2>2, <2>3
<1>6. CASE ~Same(d0(j), d1(i + j))
  <2> DEFINE n == NextPlace
  <2>1. i \notin Places
    BY <1>2, <1>6
  <2>2. n = IF Forward THEN i + 1 ELSE i - 1
    BY DEF NextPlace
  <2>3. IF Beyond(n) THEN Return(-1) /\ UNCHANGED <<i, j>>
        ELSE i' = n /\ j' = 0 /\ UNCHANGED <<pc, result>>
    BY <1>6 DEF LoopPlain
  <2> HIDE DEF n
  <2>4. IF Forward
          THEN n >= pos /\ \A k \in Places : k >= pos => k >= n
          ELSE n < pos /\ \A k \in Places : k <= pos => k <= n
    BY <1>1, <2>1, <2>2, LoopNumbers
  <2>5. CASE Beyond(n)
    <3>1. Return(-1) /\ i' = i /\ j' = j
      BY <2>3, <2>5
    <3>2. IF Forward THEN n > LastFit ELSE n < 0
      BY <2>5 DEF Beyond
    <3>3. IF Forward THEN \A k \in Places : k < pos ELSE \A k \in Places : k > pos
      BY <1>1, <2>2, <2>4, <3>2, LoopMeans
    <3>4. Answers(-1)
      BY <1>1, <3>3, LoopMeans DEF Answers
    <3> QED
      BY <1>1, <3>1, <3>4, LoopMeans, ReturnStep
  <2>6. CASE ~Beyond(n)
    <3>1. i' = n /\ j' = 0 /\ UNCHANGED <<pc, result>>
      BY <2>3, <2>6
    <3>2. n \in 0 .. LastFit
      BY <1>1, <2>2, <2>4, <2>6, LoopMeans DEF Beyond
    <3>3. BeginsAt(n, 0) /\ 0 \in 0 .. Len(b2) - 1
      BY <1>1, LoopNumbers DEF BeginsAt
    <3>4. IF Forward
            THEN n >= pos /\ \A k \in Places : k >= pos => k >= n
            ELSE n <= pos /\ \A k \in Places : k <= pos => k <= n
      BY <1>1, <2>2, <2>4, LoopNumbers
    <3> QED
      BY <1>3, <3>1, <3>2, <3>3, <3>4
  <2> QED
    BY <2>5, <2>6
<1> QED
  BY <1>4, <1>5, <1>6

LEMMA SearchStep ==
  ASSUME SearchInv, [Next]_vars
  PROVE  SearchInv'
<1>1. CASE UNCHANGED vars
  <2>1. UNCHANGED args /\ pc' = pc /\ i' = i /\ j' = j /\ ii' = ii
        /\ result' = result
    BY <1>1 DEF vars, args
  <2> QED
    BY <2>1, ArgsKept
      DEF SearchInv, SearchTypes, Fits, NothingPassed, Taken, Tried, Plain,
          Nearest, Answers, BeginsAt, Same
<1> QED
  BY <1>1, StartStep, SingleStep, UnrolledStep, EndStep, PlainStep DEF Next

-----------------------------------------------------------------------------
(* What is found.                                                          *)

\* The answer, told by the first or the last of the places: binstr and its like
\* find the first place from pos on, and binstrr and its like the last one up to
\* pos, although binstr compares two characters in a round, leaves characters
\* out in the middle of a match and goes back to where it could have been.
THEOREM SearchFinds == Spec => []FindsNearest
<1>1. ASSUME SearchInv
      PROVE  FindsNearest
  <2> SUFFICES ASSUME pc = "done"
               PROVE  FindsNearest
    BY DEF FindsNearest
  <2> DEFINE candidates ==
               {k \in Places : IF Forward THEN k >= pos ELSE k <= pos}
  <2>1. Answers(result) /\ SearchTypes
    BY <1>1 DEF SearchInv, Nearest
  <2>2. Places \in SUBSET Int /\ pos \in Int /\ result \in Int
    BY <2>1, PlaceHas DEF SearchTypes
  <2>3. candidates \in SUBSET Int
    BY <2>2
  <2>4. FindsNearest <=>
          result = IF b2 = <<>> /\ pos \in 0 .. Len(b1) THEN pos
                   ELSE IF candidates = {} \/ pos \notin 0 .. Len(b1) THEN -1
                   ELSE IF Forward THEN Min(candidates) ELSE Max(candidates)
    BY DEF FindsNearest
  <2>5. CASE pos \notin 0 .. Len(b1) \/ b2 = <<>>
    BY <2>1, <2>4, <2>5 DEF Answers
  <2>6. CASE pos \in 0 .. Len(b1) /\ b2 # <<>> /\ Forward
    <3>1. CASE result = -1 /\ \A k \in Places : k < pos
      <4>1. ASSUME NEW k \in candidates
            PROVE  FALSE
        <5>1. k \in Places /\ k >= pos
          BY <2>6
        <5> QED
          BY <2>2, <3>1, <5>1
      <4>2. candidates = {}
        BY <4>1
      <4> QED
        BY <2>4, <2>6, <3>1, <4>2
    <3>2. CASE /\ result \in Places /\ result >= pos
               /\ \A k \in Places : k >= pos => k >= result
      <4>0. \A k : k \in candidates <=> k \in Places /\ k >= pos
        BY <2>6
      <4>. HIDE DEF candidates
      <4>1. result \in candidates /\ \A k \in candidates : result <= k
        <5>1. result \in candidates
          BY <3>2, <4>0
        <5>2. \A k \in candidates : k \in Int /\ k >= result
          BY <2>2, <3>2, <4>0
        <5> QED
          BY <2>2, <5>1, <5>2
      <4>2. Min(candidates) = result
        BY <2>3, <4>1, IsSmallest
      <4> QED
        BY <2>4, <2>6, <4>1, <4>2
    <3> QED
      BY <2>1, <2>6, <3>1, <3>2 DEF Answers
  <2>7. CASE pos \in 0 .. Len(b1) /\ b2 # <<>> /\ ~Forward
    <3>1. CASE result = -1 /\ \A k \in Places : k > pos
      <4>1. ASSUME NEW k \in candidates
            PROVE  FALSE
        <5>1. k \in Places /\ k <= pos
          BY <2>7
        <5> QED
          BY <2>2, <3>1, <5>1
      <4>2. candidates = {}
        BY <4>1
      <4> QED
        BY <2>4, <2>7, <3>1, <4>2
    <3>2. CASE /\ result \in Places /\ result <= pos
               /\ \A k \in Places : k <= pos => k <= result
      <4>0. \A k : k \in candidates <=> k \in Places /\ k <= pos
        BY <2>7
      <4>. HIDE DEF candidates
      <4>1. result \in candidates /\ \A k \in candidates : result >= k
        <5>1. result \in candidates
          BY <3>2, <4>0
        <5>2. \A k \in candidates : k \in Int /\ k <= result
          BY <2>2, <3>2, <4>0
        <5> QED
          BY <2>2, <5>1, <5>2
      <4>2. Max(candidates) = result
        BY <2>3, <4>1, IsLargest
      <4> QED
        BY <2>4, <2>7, <4>1, <4>2
    <3> QED
      BY <2>1, <2>7, <3>1, <3>2 DEF Answers
  <2> QED
    BY <2>5, <2>6, <2>7
<1> QED
  BY <1>1, SearchInit, SearchStep, PTL DEF Spec

\* A loop reads b2 at j, and b1 from i on: at i + j if it is a plain one.
ReadsWithin ==
  pc = "loop" =>
    /\ i >= 0 /\ j \in 0 .. Len(b2) - 1
    /\ kind # "binstr" => i + j < Len(b1)

\* No search reads outside of the strings: where binstr goes back to is not before
\* b1, and the plain searches never compare beyond its end.
THEOREM SearchesStayWithin == Spec => []ReadsWithin
<1>1. ASSUME SearchInv
      PROVE  ReadsWithin
  <2> SUFFICES ASSUME pc = "loop"
               PROVE  ReadsWithin
    BY DEF ReadsWithin
  <2>1. CASE kind = "binstr"
    BY <1>1, <2>1, LoopNumbers DEF SearchInv, NothingPassed, ReadsWithin
  <2>2. CASE kind # "binstr"
    BY <1>1, <2>2, LoopNumbers DEF SearchInv, Tried, Plain, ReadsWithin
  <2> QED
    BY <2>1, <2>2
<1> QED
  BY <1>1, SearchInit, SearchStep, PTL DEF Spec

-----------------------------------------------------------------------------
(* The comparisons.  Each will be found to compare the strings as they     *)
(* were sequences of numbers without end, by the first that differs.        *)

Numbers == [Nat -> Int]

Less(k, l) == \E d \in Nat : k[d] < l[d] /\ \A e \in 0 .. d - 1 : k[e] = l[e]

\* v tells how k and l compare.
Compares(v, k, l) == v \in Int /\ (v < 0 <=> Less(k, l)) /\ (v > 0 <=> Less(l, k))

LEMMA LessThrough ==
  ASSUME NEW k \in Numbers, NEW l \in Numbers, NEW m \in Numbers, Less(k, l), Less(l, m)
  PROVE  Less(k, m)
<1>1. PICK d \in Nat : k[d] < l[d] /\ \A e \in 0 .. d - 1 : k[e] = l[e]
  BY DEF Less
<1>2. PICK f \in Nat : l[f] < m[f] /\ \A e \in 0 .. f - 1 : l[e] = m[e]
  BY DEF Less
<1>3. \A e \in Nat : k[e] \in Int /\ l[e] \in Int /\ m[e] \in Int
  BY DEF Numbers
<1>4. CASE d < f
  <2>1. k[d] < m[d] /\ \A e \in 0 .. d - 1 : k[e] = m[e]
    BY <1>1, <1>2, <1>3, <1>4
  <2> QED
    BY <2>1 DEF Less
<1>5. CASE f < d
  <2>1. k[f] < m[f] /\ \A e \in 0 .. f - 1 : k[e] = m[e]
    BY <1>1, <1>2, <1>3, <1>5
  <2> QED
    BY <2>1 DEF Less
<1>6. CASE d = f
  <2>1. k[d] < m[d] /\ \A e \in 0 .. d - 1 : k[e] = m[e]
    BY <1>1, <1>2, <1>3, <1>6
  <2> QED
    BY <2>1 DEF Less
<1> QED
  BY <1>4, <1>5, <1>6

LEMMA NotLessThanItself ==
  ASSUME NEW k \in Numbers
  PROVE  ~Less(k, k)
BY DEF Less, Numbers

LEMMA LessOneWay ==
  ASSUME NEW k \in Numbers, NEW l \in Numbers, Less(k, l)
  PROVE  ~Less(l, k)
BY LessThrough, NotLessThanItself

LEMMA LessOrSame ==
  ASSUME NEW k \in Numbers, NEW l \in Numbers, ~Less(k, l), ~Less(l, k)
  PROVE  k = l
<1> DEFINE D == {d \in Nat : k[d] # l[d]}
<1>1. ASSUME D # {}
      PROVE  FALSE
  <2>1. PICK d \in D : \A e \in D : d <= e
    <3>1. D \in SUBSET Nat
      OBVIOUS
    <3> QED
      BY <1>1, <3>1, SmallestOf
  <2>2. d \in Nat /\ k[d] # l[d] /\ k[d] \in Int /\ l[d] \in Int
    BY DEF Numbers
  <2>3. \A e \in 0 .. d - 1 : k[e] = l[e]
    BY <2>1, <2>2
  <2>4. k[d] < l[d] \/ l[d] < k[d]
    BY <2>2
  <2> QED
    BY <2>2, <2>3, <2>4 DEF Less
<1>2. \A d \in Nat : k[d] = l[d]
  BY <1>1
<1> QED
  BY <1>2 DEF Numbers

\* What the first number that differs decides.
LEMMA Decided ==
  ASSUME NEW k \in Numbers, NEW l \in Numbers, NEW d \in Nat, k[d] # l[d],
         \A e \in 0 .. d - 1 : k[e] = l[e],
         NEW v \in Int, v < 0 <=> k[d] < l[d], v > 0 <=> l[d] < k[d]
  PROVE  Compares(v, k, l)
<1>1. k[d] \in Int /\ l[d] \in Int
  BY DEF Numbers
<1>2. CASE k[d] < l[d]
  <2>1. Less(k, l)
    BY <1>2 DEF Less
  <2>2. v < 0 /\ ~(v > 0)
    BY <1>1, <1>2
  <2> QED
    BY <2>1, <2>2, LessOneWay DEF Compares
<1>3. CASE l[d] < k[d]
  <2>1. Less(l, k)
    BY <1>3 DEF Less
  <2>2. v > 0 /\ ~(v < 0)
    BY <1>1, <1>3
  <2> QED
    BY <2>1, <2>2, LessOneWay DEF Compares
<1> QED
  BY <1>1, <1>2, <1>3

LEMMA NothingDiffers ==
  ASSUME NEW k \in Numbers, NEW l \in Numbers, k = l, NEW v, v = 0
  PROVE  Compares(v, k, l)
BY NotLessThanItself DEF Compares

\* Comparisons of that kind agree with each other.
LEMMA OtherWayRound ==
  ASSUME NEW k \in Numbers, NEW l \in Numbers, NEW v, NEW w,
         Compares(v, k, l), Compares(w, l, k)
  PROVE  BC!Sign(v) = -BC!Sign(w)
<1>1. v \in Int /\ w \in Int /\ (v < 0 <=> w > 0) /\ (v > 0 <=> w < 0)
  BY DEF Compares
<1> QED
  BY <1>1 DEF BC!Sign

LEMMA NoCircle ==
  ASSUME NEW k \in Numbers, NEW l \in Numbers, NEW m \in Numbers, NEW v, NEW w, NEW x,
         Compares(v, k, l), Compares(w, l, m), Compares(x, k, m)
  PROVE  /\ v < 0 /\ w < 0 => x < 0
         /\ v <= 0 /\ w <= 0 => x <= 0
<1>1. v < 0 /\ w < 0 => x < 0
  BY LessThrough DEF Compares
<1>2. ASSUME v <= 0, w <= 0
      PROVE  x <= 0
  <2>1. ~Less(l, k) /\ ~Less(m, l)
    BY <1>2 DEF Compares
  <2>2. ASSUME Less(m, k)
        PROVE  FALSE
    <3>1. CASE Less(l, m)
      BY <2>1, <2>2, <3>1, LessThrough
    <3>2. CASE ~Less(l, m)
      BY <2>1, <2>2, <3>2, LessOrSame
    <3> QED
      BY <3>1, <3>2
  <2> QED
    BY <2>2 DEF Compares
<1> QED
  BY <1>1, <1>2

-----------------------------------------------------------------------------
(* bstrcmp and bstricmp.                                                    *)

\* What SequencesExt calls Min and Range, BstrCompare does.
LEMMA MinAgrees ==
  ASSUME NEW S
  PROVE  BC!Min(S) = Min(S)
BY DEF BC!Min, Min

\* Strings of n and m bytes.
Pair(s, n, t, m) ==
  /\ s \in Seq(Bytes) /\ t \in Seq(Bytes) /\ Bytes \subseteq 0 .. 255
  /\ n \in Nat /\ m \in Nat /\ Len(s) = n /\ Len(t) = m

\* The first place where a comparison of n characters is decided, if any.
FirstOf(D, n, d) == d \in D /\ d \in 1 .. n /\ \A e \in 1 .. d - 1 : e \notin D

LEMMA FirstOrNone ==
  ASSUME NEW n \in Int, NEW D \in SUBSET (1 .. n), D # {}
  PROVE  FirstOf(D, n, BC!Min(D))
<1>1. n \in Nat
  <2>1. PICK e \in D : TRUE
    OBVIOUS
  <2>2. e \in 1 .. n
    BY <2>1
  <2> QED
    BY <2>2
<1> PICK d : d = BC!Min(D)
  OBVIOUS
<1>2. d = Min(D)
  BY MinAgrees
<1>3. d \in D /\ \A x \in D : d <= x
  BY <1>1, <1>2, FirstPosition
<1>4. d \in 1 .. n
  BY <1>3
<1>5. \A e \in 1 .. d - 1 : e \notin D
  BY <1>3, <1>4
<1> QED
  BY <1>3, <1>4, <1>5 DEF FirstOf

LEMMA CommonIs ==
  ASSUME NEW s, NEW n, NEW t, NEW m, Pair(s, n, t, m)
  PROVE  BC!Common(s, t) = IF n <= m THEN n ELSE m
<1>1. n \in Int /\ m \in Int /\ Len(s) = n /\ Len(t) = m
  BY DEF Pair
<1>2. BC!Common(s, t) = BC!Min({n, m})
  BY <1>1 DEF BC!Common
<1>3. BC!Min({n, m}) = Min({n, m})
  BY MinAgrees
<1>4. Min({n, m}) = IF n <= m THEN n ELSE m
  BY ONLY <1>1, OfTwo
<1> QED
  BY <1>2, <1>3, <1>4

LEMMA PairBytes ==
  ASSUME NEW s, NEW n, NEW t, NEW m, Pair(s, n, t, m)
  PROVE  /\ n \in Nat /\ m \in Nat
         /\ \A p \in 1 .. n : s[p] \in 0 .. 255
         /\ \A p \in 1 .. m : t[p] \in 0 .. 255
<1>1. /\ s \in Seq(Bytes) /\ t \in Seq(Bytes) /\ Bytes \subseteq 0 .. 255
      /\ n \in Nat /\ m \in Nat /\ Len(s) = n /\ Len(t) = m
  BY DEF Pair
<1>2. \A p \in 1 .. n : s[p] \in Bytes
  BY <1>1, ElementOfSeq
<1>3. \A p \in 1 .. m : t[p] \in Bytes
  BY <1>1, ElementOfSeq
<1> QED
  BY <1>1, <1>2, <1>3

LEMMA SignedInt ==
  ASSUME NEW a \in 0 .. 255
  PROVE  BC!Signed(a) \in Int /\ BC!Signed(a) \in -128 .. 127
BY DEF BC!Signed

LEMMA SignedIs ==
  ASSUME NEW a \in 0 .. 255, NEW c \in 0 .. 255
  PROVE  /\ BC!Signed(a) \in Int /\ BC!Signed(c) \in Int
         /\ BC!Signed(a) = BC!Signed(c) <=> a = c
BY DEF BC!Signed

\* The numbers bstrcmp compares: characters up to a zero byte; the end of a
\* string is below any of them.
Ended(s, p) == \E q \in 1 .. p - 1 : q <= Len(s) /\ s[q] = 0

CharNumbers(s) ==
  [p \in Nat |-> IF p = 0 \/ Ended(s, p) THEN 0
                 ELSE IF p > Len(s) THEN -1000 ELSE BC!Signed(s[p])]

LEMMA CharNumbersAre ==
  ASSUME NEW s, NEW n, NEW t, NEW m, Pair(s, n, t, m)
  PROVE  CharNumbers(s) \in Numbers
<1>1. \A p \in 1 .. n : s[p] \in 0 .. 255
  BY ONLY Pair(s, n, t, m), PairBytes
<1>2. \A p \in 1 .. n : BC!Signed(s[p]) \in Int
  BY ONLY <1>1, SignedInt
<1>3. n = Len(s) /\ n \in Nat
  BY DEF Pair
<1>4. \A p \in Nat : p = 0 \/ p > n \/ p \in 1 .. n
  BY <1>3
<1>5. \A p \in Nat : (IF p = 0 \/ Ended(s, p) THEN 0
                      ELSE IF p > Len(s) THEN -1000 ELSE BC!Signed(s[p])) \in Int
  BY <1>2, <1>3, <1>4
<1> QED
  BY <1>5 DEF CharNumbers, Numbers

LEMMA PairSwapped ==
  ASSUME NEW s, NEW n, NEW t, NEW m, Pair(s, n, t, m)
  PROVE  Pair(t, m, s, n)
BY DEF Pair

LEMMA CharNumberAt ==
  ASSUME NEW s, NEW n, NEW t, NEW m, Pair(s, n, t, m), NEW p \in Nat, 0 < p,
         \A q \in 1 .. p - 1 : q <= n => s[q] # 0
  PROVE  CharNumbers(s)[p] = IF p > n THEN -1000 ELSE BC!Signed(s[p])
<1>1. ~Ended(s, p) /\ n = Len(s)
  BY DEF Ended, Pair
<1> QED
  BY <1>1 DEF CharNumbers

\* Strings that have the first n characters in common, none of them zero, have the
\* first n numbers in common.
Alike(s, t, n) == \A p \in 1 .. n : s[p] = t[p] /\ s[p] # 0

LEMMA AlikeNumbers ==
  ASSUME NEW s, NEW n, NEW t, NEW m, Pair(s, n, t, m), NEW d \in Nat, d <= n, d <= m,
         Alike(s, t, d)
  PROVE  /\ \A e \in 0 .. d : CharNumbers(s)[e] = CharNumbers(t)[e]
         /\ CharNumbers(s)[d + 1] = IF d + 1 > n THEN -1000 ELSE BC!Signed(s[d + 1])
         /\ CharNumbers(t)[d + 1] = IF d + 1 > m THEN -1000 ELSE BC!Signed(t[d + 1])
<1>1. n \in Nat /\ m \in Nat
  BY DEF Pair
<1>2. Pair(t, m, s, n)
  BY PairSwapped
<1>3. \A p \in 1 .. d : s[p] = t[p] /\ s[p] # 0
  BY DEF Alike
<1>4. ASSUME NEW p \in Nat, 0 < p, p <= d + 1
      PROVE  /\ CharNumbers(s)[p] = IF p > n THEN -1000 ELSE BC!Signed(s[p])
             /\ CharNumbers(t)[p] = IF p > m THEN -1000 ELSE BC!Signed(t[p])
  <2>1. \A q \in 1 .. p - 1 : s[q] # 0 /\ t[q] # 0
    BY <1>3, <1>4
  <2> QED
    BY <1>2, <1>4, <2>1, CharNumberAt
<1>5. CharNumbers(s)[0] = 0 /\ CharNumbers(t)[0] = 0
  BY DEF CharNumbers
<1>6. ASSUME NEW e \in 0 .. d
      PROVE  CharNumbers(s)[e] = CharNumbers(t)[e]
  <2>1. CASE e = 0
    BY <1>5, <2>1
  <2>2. CASE e # 0
    <3>1. e \in Nat /\ 0 < e /\ e <= d + 1 /\ ~(e > n) /\ ~(e > m) /\ e \in 1 .. d
      BY <1>1, <2>2
    <3> QED
      BY <1>3, <1>4, <3>1
  <2> QED
    BY <2>1, <2>2
<1>7. d + 1 \in Nat /\ 0 < d + 1 /\ d + 1 <= d + 1
  OBVIOUS
<1> QED
  BY <1>4, <1>6, <1>7

LEMMA SameBehindZero ==
  ASSUME NEW s, NEW n, NEW t, NEW m, Pair(s, n, t, m), NEW d \in Nat, d + 1 <= n,
         d + 1 <= m, Alike(s, t, d), s[d + 1] = 0, t[d + 1] = 0
  PROVE  CharNumbers(s) = CharNumbers(t)
<1>1. n \in Nat /\ m \in Nat /\ Len(s) = n /\ Len(t) = m
  BY DEF Pair
<1>2. \A e \in 0 .. d : CharNumbers(s)[e] = CharNumbers(t)[e]
  BY <1>1, AlikeNumbers
<1>3. CharNumbers(s)[d + 1] = CharNumbers(t)[d + 1]
  BY <1>1, AlikeNumbers
<1>4. ASSUME NEW e \in Nat, e > d + 1
      PROVE  CharNumbers(s)[e] = CharNumbers(t)[e]
  <2>1. d + 1 \in 1 .. e - 1
    BY <1>4
  <2>2. Ended(s, e) /\ Ended(t, e)
    BY <1>1, <2>1 DEF Ended
  <2> QED
    BY <2>2 DEF CharNumbers
<1>5. \A e \in Nat : e \in 0 .. d \/ e = d + 1 \/ e > d + 1
  OBVIOUS
<1>6. \A e \in Nat : CharNumbers(s)[e] = CharNumbers(t)[e]
  BY <1>2, <1>3, <1>4, <1>5
<1> QED
  BY <1>6, CharNumbersAre, PairSwapped DEF Numbers

\* bstrcmp compares these numbers.
LEMMA BstrcmpCompares ==
  ASSUME NEW s, NEW n, NEW t, NEW m, Pair(s, n, t, m)
  PROVE  Compares(BC!bstrcmp(s, t), CharNumbers(s), CharNumbers(t))
<1>1. n \in Nat /\ m \in Nat /\ Len(s) = n /\ Len(t) = m
  BY DEF Pair
<1> PICK c \in Nat : c = IF n <= m THEN n ELSE m
  BY <1>1
<1>2. BC!Common(s, t) = c /\ c <= n /\ c <= m
  BY <1>1, CommonIs
<1> PICK D : D = BC!Differ(s, t, c)
  OBVIOUS
<1>3. D = {p \in 1 .. c : s[p] # t[p] \/ s[p] = 0}
  BY DEF BC!Differ
<1> PICK v : v = BC!bstrcmp(s, t)
  OBVIOUS
<1>4. CharNumbers(s) \in Numbers /\ CharNumbers(t) \in Numbers
  BY CharNumbersAre, PairSwapped
<1>5. CASE D # {}
  <2> PICK f : f = BC!Min(D)
    OBVIOUS
  <2>1. FirstOf(D, c, f)
    BY <1>3, <1>5, FirstOrNone
  <2> PICK d \in Nat : d + 1 = f
    BY <2>1 DEF FirstOf
  <2>2. v = BC!Signed(s[f]) - BC!Signed(t[f])
    <3>1. BC!Differ(s, t, BC!Common(s, t)) = D
      BY <1>2
    <3>2. v = IF D # {} THEN BC!Difference(s, t, D) ELSE BC!Sign(Len(s) - Len(t))
      BY <3>1, Zenon DEF BC!bstrcmp
    <3>3. BC!Difference(s, t, D) = BC!Signed(s[f]) - BC!Signed(t[f])
      BY Zenon DEF BC!Difference
    <3> QED
      BY <1>5, <3>2, <3>3, Zenon
  <2>3. f \in 1 .. c /\ (s[f] # t[f] \/ s[f] = 0) /\ d <= n /\ d <= m /\ f <= n /\ f <= m
    <3>1. f \in D /\ f \in 1 .. c
      BY ONLY <2>1 DEF FirstOf
    <3>2. s[f] # t[f] \/ s[f] = 0
      BY ONLY <1>3, <3>1
    <3> QED
      BY <1>1, <1>2, <3>1, <3>2
  <2>4. Alike(s, t, d)
    <3> SUFFICES ASSUME NEW p \in 1 .. d
                 PROVE  s[p] = t[p] /\ s[p] # 0
      BY DEF Alike
    <3>1. p \in 1 .. c /\ p \in 1 .. f - 1
      BY <2>3
    <3> QED
      BY <1>3, <2>1, <3>1 DEF FirstOf
  <2>5. /\ \A e \in 0 .. f - 1 : CharNumbers(s)[e] = CharNumbers(t)[e]
        /\ CharNumbers(s)[f] = BC!Signed(s[f]) /\ CharNumbers(t)[f] = BC!Signed(t[f])
    <3>1. ~(d + 1 > n) /\ ~(d + 1 > m) /\ f - 1 = d /\ d + 1 = f
      BY ONLY <1>1, <2>3, d \in Nat, d + 1 = f
    <3>2. /\ \A e \in 0 .. d : CharNumbers(s)[e] = CharNumbers(t)[e]
          /\ CharNumbers(s)[d + 1] = IF d + 1 > n THEN -1000 ELSE BC!Signed(s[d + 1])
          /\ CharNumbers(t)[d + 1] = IF d + 1 > m THEN -1000 ELSE BC!Signed(t[d + 1])
      BY <2>3, <2>4, AlikeNumbers
    <3> QED
      BY ONLY <3>1, <3>2
  <2>6. s[f] \in 0 .. 255 /\ t[f] \in 0 .. 255
    <3>1. f \in 1 .. n /\ f \in 1 .. m
      BY <1>1, <2>3
    <3> QED
      BY ONLY Pair(s, n, t, m), <3>1, PairBytes
  <2>7. /\ BC!Signed(s[f]) \in Int /\ BC!Signed(t[f]) \in Int
        /\ BC!Signed(s[f]) = BC!Signed(t[f]) <=> s[f] = t[f]
    BY ONLY <2>6, SignedIs
  <2>8. CASE s[f] = t[f]
    <3>1. s[d + 1] = 0 /\ t[d + 1] = 0 /\ d + 1 <= n /\ d + 1 <= m
      BY <2>3, <2>8
    <3>2. CharNumbers(s) = CharNumbers(t)
      BY <2>4, <3>1, SameBehindZero
    <3>3. v = 0
      BY <2>2, <2>7, <2>8
    <3> QED
      BY <1>4, <3>2, <3>3, NothingDiffers
  <2>9. CASE s[f] # t[f]
    <3>1. f \in Nat /\ v \in Int /\ CharNumbers(s)[f] # CharNumbers(t)[f]
      BY <2>2, <2>5, <2>7, <2>9
    <3>2. /\ v < 0 <=> CharNumbers(s)[f] < CharNumbers(t)[f]
          /\ v > 0 <=> CharNumbers(t)[f] < CharNumbers(s)[f]
      BY <2>2, <2>5, <2>7
    <3> QED
      BY <1>4, <2>5, <3>1, <3>2, Decided
  <2> QED
    BY <2>8, <2>9
<1>6. CASE D = {}
  <2>1. Alike(s, t, c)
    BY <1>3, <1>6 DEF Alike
  <2>2. v = BC!Sign(n - m)
    BY <1>1, <1>2, <1>6 DEF BC!bstrcmp
  <2>3. /\ \A e \in 0 .. c : CharNumbers(s)[e] = CharNumbers(t)[e]
        /\ CharNumbers(s)[c + 1] = IF c + 1 > n THEN -1000 ELSE BC!Signed(s[c + 1])
        /\ CharNumbers(t)[c + 1] = IF c + 1 > m THEN -1000 ELSE BC!Signed(t[c + 1])
    BY <1>2, <2>1, AlikeNumbers
  <2>4. CASE n = m
    <3>1. v = 0
      BY <1>1, <2>2, <2>4 DEF BC!Sign
    <3>2. s = t
      <4>1. /\ s \in Seq(Bytes) /\ t \in Seq(Bytes) /\ Len(s) = Len(t)
            /\ \A p \in 1 .. Len(s) : s[p] = t[p]
        BY <1>1, <2>1, <2>4 DEF Pair, Alike
      <4> QED
        BY ONLY <4>1, SeqEqual
    <3> QED
      BY <1>4, <3>1, <3>2, NothingDiffers
  <2>5. CASE n < m
    <3>1. c = n /\ c + 1 <= m /\ c + 1 > n /\ c + 1 \in Nat /\ c + 1 \in 1 .. m
      BY ONLY <1>1, <2>5, c = IF n <= m THEN n ELSE m
    <3>2. BC!Signed(t[c + 1]) \in -128 .. 127
      <4>1. \A p \in 1 .. m : t[p] \in 0 .. 255
        BY ONLY Pair(s, n, t, m), PairBytes
      <4>2. t[c + 1] \in 0 .. 255
        BY <3>1, <4>1
      <4> QED
        BY ONLY <4>2, SignedInt
    <3>3. CharNumbers(s)[c + 1] < CharNumbers(t)[c + 1]
      <4>1. CharNumbers(s)[c + 1] = -1000 /\ CharNumbers(t)[c + 1] = BC!Signed(t[c + 1])
        BY <1>1, <2>3, <3>1
      <4> QED
        BY ONLY <3>2, <4>1
    <3>4. v = -1
      BY <1>1, <2>2, <2>5 DEF BC!Sign
    <3> PICK g \in Nat : g = c + 1
      OBVIOUS
    <3>5. \A e \in 0 .. g - 1 : CharNumbers(s)[e] = CharNumbers(t)[e]
      BY <2>3
    <3>6. /\ CharNumbers(s)[g] < CharNumbers(t)[g] /\ CharNumbers(s)[g] \in Int
          /\ CharNumbers(t)[g] \in Int
      BY <1>4, <3>3 DEF Numbers
    <3> QED
      BY <1>4, <3>4, <3>5, <3>6, Decided
  <2>6. CASE m < n
    <3>1. c = m /\ c + 1 <= n /\ c + 1 > m /\ c + 1 \in Nat /\ c + 1 \in 1 .. n
      BY <1>1, <2>6
    <3>2. BC!Signed(s[c + 1]) \in -128 .. 127
      <4>1. \A p \in 1 .. n : s[p] \in 0 .. 255
        BY ONLY Pair(s, n, t, m), PairBytes
      <4>2. s[c + 1] \in 0 .. 255
        BY <3>1, <4>1
      <4> QED
        BY ONLY <4>2, SignedInt
    <3>3. CharNumbers(t)[c + 1] < CharNumbers(s)[c + 1]
      <4>1. CharNumbers(t)[c + 1] = -1000 /\ CharNumbers(s)[c + 1] = BC!Signed(s[c + 1])
        BY <1>1, <2>3, <3>1
      <4> QED
        BY ONLY <3>2, <4>1
    <3>4. v = 1
      BY <1>1, <2>2, <2>6 DEF BC!Sign
    <3> PICK g \in Nat : g = c + 1
      OBVIOUS
    <3>5. \A e \in 0 .. g - 1 : CharNumbers(s)[e] = CharNumbers(t)[e]
      BY <2>3
    <3>6. /\ CharNumbers(t)[g] < CharNumbers(s)[g] /\ CharNumbers(s)[g] \in Int
          /\ CharNumbers(t)[g] \in Int
      BY <1>4, <3>3 DEF Numbers
    <3> QED
      BY <1>4, <3>4, <3>5, <3>6, Decided
  <2> QED
    BY <1>1, <2>4, <2>5, <2>6
<1> QED
  BY <1>5, <1>6

\* The numbers bstricmp compares: characters in lower case; the end of a string is
\* below a zero byte and above the negative characters.
FoldNumber(c) == IF BC!Folded(c) < 0 THEN BC!Folded(c) ELSE BC!Folded(c) + 1

FoldNumbers(s) == [p \in Nat |-> IF p \in 1 .. Len(s) THEN FoldNumber(s[p]) ELSE 0]

LEMMA FoldedInt ==
  ASSUME NEW a \in 0 .. 255
  PROVE  BC!Folded(a) \in Int
BY DEF BC!Folded, BC!downcase, BC!Signed

LEMMA FoldNumberIs ==
  ASSUME NEW a \in 0 .. 255
  PROVE  /\ BC!Folded(a) \in Int /\ FoldNumber(a) \in Int /\ FoldNumber(a) # 0
         /\ BC!Folded(a) < 0 <=> FoldNumber(a) < 0
BY FoldedInt DEF FoldNumber

LEMMA FoldNumbersOrder ==
  ASSUME NEW a \in 0 .. 255, NEW c \in 0 .. 255
  PROVE  /\ BC!Folded(a) < BC!Folded(c) <=> FoldNumber(a) < FoldNumber(c)
         /\ BC!Folded(a) = BC!Folded(c) <=> FoldNumber(a) = FoldNumber(c)
<1>1. BC!Folded(a) \in Int /\ BC!Folded(c) \in Int
  BY FoldedInt
<1> QED
  BY ONLY <1>1 DEF FoldNumber

LEMMA FoldNumbersAre ==
  ASSUME NEW s, NEW n, NEW t, NEW m, Pair(s, n, t, m)
  PROVE  FoldNumbers(s) \in Numbers
<1>1. \A p \in 1 .. n : s[p] \in 0 .. 255
  BY ONLY Pair(s, n, t, m), PairBytes
<1>2. \A p \in 1 .. n : FoldNumber(s[p]) \in Int
  BY ONLY <1>1, FoldNumberIs
<1>3. n = Len(s)
  BY DEF Pair
<1>4. \A p \in Nat : (IF p \in 1 .. Len(s) THEN FoldNumber(s[p]) ELSE 0) \in Int
  BY ONLY <1>2, <1>3
<1> QED
  BY <1>4 DEF FoldNumbers, Numbers

LEMMA FoldNumberAt ==
  ASSUME NEW s, NEW n, NEW t, NEW m, Pair(s, n, t, m), NEW p \in Nat
  PROVE  FoldNumbers(s)[p] = IF p \in 1 .. n THEN FoldNumber(s[p]) ELSE 0
BY DEF FoldNumbers, Pair

\* The character behind the end of the other string.
LEMMA ExtraIs ==
  ASSUME NEW s, NEW n \in Nat, s[n + 1] \in 0 .. 255
  PROVE  /\ BC!Extra(s, n) \in Int /\ BC!Extra(s, n) # 0
         /\ BC!Extra(s, n) < 0 <=> FoldNumber(s[n + 1]) < 0
<1> PICK a : a = BC!Folded(s[n + 1])
  OBVIOUS
<1>1. a \in Int
  BY FoldedInt
<1>2. BC!Extra(s, n) = IF a # 0 THEN a ELSE 256
  BY DEF BC!Extra
<1>3. FoldNumber(s[n + 1]) = IF a < 0 THEN a ELSE a + 1
  BY DEF FoldNumber
<1> QED
  BY ONLY <1>1, <1>2, <1>3

\* bstricmp compares these numbers.
LEMMA BstricmpCompares ==
  ASSUME NEW s, NEW n, NEW t, NEW m, Pair(s, n, t, m)
  PROVE  Compares(BC!bstricmp(s, t), FoldNumbers(s), FoldNumbers(t))
<1>1. n \in Nat /\ m \in Nat /\ Len(s) = n /\ Len(t) = m
  BY DEF Pair
<1> PICK c \in Nat : c = IF n <= m THEN n ELSE m
  BY <1>1
<1>2. BC!Common(s, t) = c /\ c <= n /\ c <= m
  BY <1>1, CommonIs
<1> PICK D : D = BC!FoldedDiffer(s, t, c)
  OBVIOUS
<1>3. D = {p \in 1 .. c : BC!Folded(s[p]) # BC!Folded(t[p])}
  BY DEF BC!FoldedDiffer
<1> PICK v : v = BC!bstricmp(s, t)
  OBVIOUS
<1> PICK k : k = FoldNumbers(s)
  OBVIOUS
<1> PICK l : l = FoldNumbers(t)
  OBVIOUS
<1>4. Pair(t, m, s, n)
  BY PairSwapped
<1>5. k \in Numbers /\ l \in Numbers
  BY <1>4, FoldNumbersAre
<1>6. /\ \A p \in Nat : k[p] = IF p \in 1 .. n THEN FoldNumber(s[p]) ELSE 0
      /\ \A p \in Nat : l[p] = IF p \in 1 .. m THEN FoldNumber(t[p]) ELSE 0
  BY <1>4, FoldNumberAt
<1>7. /\ \A p \in 1 .. n : s[p] \in 0 .. 255
      /\ \A p \in 1 .. m : t[p] \in 0 .. 255
  BY ONLY Pair(s, n, t, m), PairBytes
<1>8. v = IF D # {} THEN BC!Folded(s[BC!Min(D)]) - BC!Folded(t[BC!Min(D)])
                    ELSE BC!Longer(s, t, c)
  <2>1. BC!FoldedDiffer(s, t, BC!Common(s, t)) = D
    BY <1>2
  <2> QED
    BY <1>2, <2>1, Zenon DEF BC!bstricmp
<1>9. ASSUME NEW e \in Nat, e <= c, e \in 1 .. c => e \notin D
      PROVE  k[e] = l[e]
  <2>1. CASE e = 0
    <3>1. e \notin 1 .. n /\ e \notin 1 .. m
      BY <1>1, <2>1
    <3> QED
      BY <1>6, <3>1
  <2>2. CASE e # 0
    <3>1. e \in 1 .. c /\ e \in 1 .. n /\ e \in 1 .. m
      BY <1>1, <1>2, <1>9, <2>2
    <3>2. BC!Folded(s[e]) = BC!Folded(t[e])
      BY ONLY <1>3, <1>9, <3>1
    <3>3. s[e] \in 0 .. 255 /\ t[e] \in 0 .. 255
      BY ONLY <1>7, <3>1
    <3>4. FoldNumber(s[e]) = FoldNumber(t[e])
      BY ONLY <3>2, <3>3, FoldNumbersOrder
    <3> QED
      BY <1>6, <3>1, <3>4
  <2> QED
    BY <2>1, <2>2
<1>10. CASE D # {}
  <2> PICK f : f = BC!Min(D)
    OBVIOUS
  <2>1. FirstOf(D, c, f)
    BY <1>3, <1>10, FirstOrNone
  <2>2. f \in D /\ f \in 1 .. c /\ \A e \in 1 .. f - 1 : e \notin D
    BY ONLY <2>1 DEF FirstOf
  <2>3. f \in Nat /\ f \in 1 .. n /\ f \in 1 .. m
    BY <1>1, <1>2, <2>2
  <2>4. BC!Folded(s[f]) # BC!Folded(t[f])
    BY ONLY <1>3, <2>2
  <2>5. s[f] \in 0 .. 255 /\ t[f] \in 0 .. 255
    BY ONLY <1>7, <2>3
  <2> PICK a : a = BC!Folded(s[f])
    OBVIOUS
  <2> PICK g : g = BC!Folded(t[f])
    OBVIOUS
  <2>6. k[f] = FoldNumber(s[f]) /\ l[f] = FoldNumber(t[f])
    BY ONLY <1>6, <2>3
  <2>7. /\ a \in Int /\ g \in Int /\ a # g
        /\ a < g <=> k[f] < l[f]
        /\ g < a <=> l[f] < k[f]
    <3> PICK x : x = s[f]
      OBVIOUS
    <3> PICK y : y = t[f]
      OBVIOUS
    <3>1. x \in 0 .. 255 /\ y \in 0 .. 255
      BY <2>5, Zenon
    <3>2. /\ BC!Folded(x) < BC!Folded(y) <=> FoldNumber(x) < FoldNumber(y)
          /\ BC!Folded(y) < BC!Folded(x) <=> FoldNumber(y) < FoldNumber(x)
      <4>1. BC!Folded(x) < BC!Folded(y) <=> FoldNumber(x) < FoldNumber(y)
        BY ONLY <3>1, FoldNumbersOrder, Zenon
      <4>2. BC!Folded(y) < BC!Folded(x) <=> FoldNumber(y) < FoldNumber(x)
        BY ONLY <3>1, FoldNumbersOrder, Zenon
      <4> QED
        BY ONLY <4>1, <4>2, Zenon
    <3>3. BC!Folded(x) \in Int /\ BC!Folded(y) \in Int
      BY ONLY <3>1, FoldedInt
    <3>4. a = BC!Folded(x) /\ g = BC!Folded(y) /\ k[f] = FoldNumber(x) /\ l[f] = FoldNumber(y)
      BY <2>6
    <3>5. a # g
      BY <2>4
    <3> QED
      BY ONLY <3>2, <3>3, <3>4, <3>5
  <2>8. v = a - g
    BY <1>8, <1>10, Zenon
  <2>9. k[f] \in Int /\ l[f] \in Int
    BY <1>5, <2>3 DEF Numbers
  <2>10. v \in Int /\ (v < 0 <=> k[f] < l[f]) /\ (v > 0 <=> l[f] < k[f]) /\ k[f] # l[f]
    BY ONLY <2>7, <2>8, <2>9
  <2>11. \A e \in 0 .. f - 1 : k[e] = l[e]
    <3> SUFFICES ASSUME NEW e \in 0 .. f - 1
                 PROVE  k[e] = l[e]
      OBVIOUS
    <3>1. e \in Nat /\ e <= c /\ (e \in 1 .. c => e \in 1 .. f - 1)
      BY <2>2, <2>3
    <3> QED
      BY <1>9, <2>2, <3>1
  <2> QED
    BY <1>5, <2>3, <2>10, <2>11, Decided
<1>11. CASE D = {}
  <2>1. \A e \in 0 .. c : k[e] = l[e]
    BY <1>9, <1>11
  <2>2. v = BC!Longer(s, t, c)
    BY <1>8, <1>11
  <2>3. CASE n = m
    <3>1. c = n /\ ~(n > c) /\ ~(m > c)
      BY <1>1, <2>3
    <3>2. v = 0
      BY <1>1, <2>2, <3>1 DEF BC!Longer
    <3>3. \A p \in Nat : k[p] = l[p]
      <4>1. \A p \in Nat : p \in 0 .. c \/ p \notin 1 .. n
        BY <3>1
      <4> QED
        BY ONLY <1>6, <2>1, <2>3, <4>1
    <3>4. k = l
      BY ONLY <1>5, <3>3 DEF Numbers
    <3> QED
      BY <1>5, <3>2, <3>4, NothingDiffers
  <2> PICK g \in Nat : g = c + 1
    OBVIOUS
  <2>4. CASE n < m
    <3>1. c = n /\ g \in 1 .. m /\ g \notin 1 .. n /\ ~(n > c) /\ m > c
      BY <1>1, <2>4
    <3>2. t[g] \in 0 .. 255
      BY ONLY <1>7, <3>1
    <3>3. v = -BC!Extra(t, c)
      BY <1>1, <2>2, <3>1 DEF BC!Longer
    <3>4. k[g] = 0 /\ l[g] = FoldNumber(t[g])
      BY <1>6, <3>1
    <3>5. /\ BC!Extra(t, c) \in Int /\ BC!Extra(t, c) # 0
          /\ BC!Extra(t, c) < 0 <=> FoldNumber(t[g]) < 0
      BY <3>2, ExtraIs
    <3>6. FoldNumber(t[g]) \in Int /\ FoldNumber(t[g]) # 0
      BY <3>2, FoldNumberIs
    <3>7. v \in Int /\ k[g] # l[g] /\ (v < 0 <=> k[g] < l[g]) /\ (v > 0 <=> l[g] < k[g])
      BY ONLY <3>3, <3>4, <3>5, <3>6
    <3>8. \A e \in 0 .. g - 1 : k[e] = l[e]
      BY <2>1
    <3> QED
      BY <1>5, <3>7, <3>8, Decided
  <2>5. CASE m < n
    <3>1. c = m /\ g \in 1 .. n /\ g \notin 1 .. m /\ n > c
      BY <1>1, <2>5
    <3>2. s[g] \in 0 .. 255
      BY ONLY <1>7, <3>1
    <3>3. v = BC!Extra(s, c)
      BY <1>1, <2>2, <3>1 DEF BC!Longer
    <3>4. l[g] = 0 /\ k[g] = FoldNumber(s[g])
      BY <1>6, <3>1
    <3>5. /\ BC!Extra(s, c) \in Int /\ BC!Extra(s, c) # 0
          /\ BC!Extra(s, c) < 0 <=> FoldNumber(s[g]) < 0
      BY <3>2, ExtraIs
    <3>6. FoldNumber(s[g]) \in Int /\ FoldNumber(s[g]) # 0
      BY <3>2, FoldNumberIs
    <3>7. v \in Int /\ k[g] # l[g] /\ (v < 0 <=> k[g] < l[g]) /\ (v > 0 <=> l[g] < k[g])
      BY ONLY <3>3, <3>4, <3>5, <3>6
    <3>8. \A e \in 0 .. g - 1 : k[e] = l[e]
      BY <2>1
    <3> QED
      BY <1>5, <3>7, <3>8, Decided
  <2> QED
    BY <1>1, <2>3, <2>4, <2>5
<1> QED
  BY <1>10, <1>11

-----------------------------------------------------------------------------
(* Equality.                                                               *)

\* u is the first k characters of s.
IsStart(u, s, k) ==
  u \in Seq(Bytes) /\ k \in Nat /\ Len(u) = k /\ \A p \in 1 .. k : u[p] = s[p]

\* As a C string, s of n characters ends before z.
Closes(s, n, z) ==
  z \in 1 .. n + 1 /\ (z <= n => s[z] = 0) /\ \A q \in 1 .. z - 1 : s[q] # 0

LEMMA SomewhereCloses ==
  ASSUME NEW s, NEW n \in Nat
  PROVE  \E z \in 1 .. n + 1 : Closes(s, n, z)
<1> DEFINE Z == {z \in 1 .. n : s[z] = 0}
<1>1. CASE Z = {}
  <2>1. \A q \in 1 .. n : s[q] # 0
    BY <1>1
  <2>2. n + 1 \in 1 .. n + 1 /\ ~(n + 1 <= n) /\ (n + 1) - 1 = n
    OBVIOUS
  <2> QED
    BY <2>1, <2>2 DEF Closes
<1>2. CASE Z # {}
  <2> PICK z : z = BC!Min(Z)
    OBVIOUS
  <2>1. FirstOf(Z, n, z)
    BY <1>2, FirstOrNone
  <2>2. z \in Z /\ z \in 1 .. n /\ \A e \in 1 .. z - 1 : e \notin Z
    BY ONLY <2>1 DEF FirstOf
  <2>3. s[z] = 0 /\ z \in 1 .. n + 1
    BY <2>2
  <2>4. \A q \in 1 .. z - 1 : s[q] # 0
    <3> SUFFICES ASSUME NEW q \in 1 .. z - 1
                 PROVE  s[q] # 0
      OBVIOUS
    <3>1. q \in 1 .. n /\ q \notin Z
      BY <2>2
    <3> QED
      BY <3>1
  <2> QED
    BY <2>3, <2>4 DEF Closes
<1> QED
  BY <1>1, <1>2

LEMMA StartIs ==
  ASSUME NEW s, NEW n, NEW t, NEW m, Pair(s, n, t, m), NEW k \in 0 .. n
  PROVE  IsStart(SubSeq(s, 1, k), s, k)
<1>1. s \in Seq(Bytes) /\ n \in Nat /\ Len(s) = n
  BY DEF Pair
<1>2. 1 \in 1 .. Len(s) + 1 /\ k \in 1 - 1 .. Len(s)
  BY <1>1
<1>3. /\ SubSeq(s, 1, k) \in Seq(Bytes)
      /\ Len(SubSeq(s, 1, k)) = IF 1 <= k THEN k - 1 + 1 ELSE 0
      /\ \A p \in 1 .. k - 1 + 1 : SubSeq(s, 1, k)[p] = s[1 + p - 1]
  BY <1>1, <1>2, SubSeqProperties
<1> QED
  BY <1>1, <1>3 DEF IsStart

LEMMA TruncatedIs ==
  ASSUME NEW s, NEW n, NEW t, NEW m, Pair(s, n, t, m), NEW k \in Int
  PROVE  IsStart(BC!Truncated(s, k), s, IF k < 0 THEN 0 ELSE IF k <= n THEN k ELSE n)
<1>1. s \in Seq(Bytes) /\ n \in Nat /\ Len(s) = n
  BY DEF Pair
<1>2. BC!Truncated(s, k) = SubSeq(s, 1, IF k <= n THEN k ELSE n)
  <2>1. n \in Int /\ BC!Min({k, n}) = Min({k, n})
    BY <1>1, MinAgrees
  <2>2. Min({k, n}) = IF k <= n THEN k ELSE n
    BY ONLY <2>1, k \in Int, OfTwo
  <2> QED
    BY <1>1, <2>1, <2>2 DEF BC!Truncated
<1>3. CASE k < 0
  <2>1. SubSeq(s, 1, k) = <<>>
    BY <1>3 DEF SubSeq
  <2>2. k <= n
    BY <1>1, <1>3
  <2> QED
    BY <1>2, <1>3, <2>1, <2>2 DEF IsStart
<1>4. CASE ~(k < 0)
  <2>1. (IF k <= n THEN k ELSE n) \in 0 .. n
    BY <1>1, <1>4
  <2> QED
    BY <1>2, <1>4, <2>1, StartIs
<1> QED
  BY <1>3, <1>4

LEMMA CStringIs ==
  ASSUME NEW s, NEW n, NEW t, NEW m, Pair(s, n, t, m), NEW z \in Nat, Closes(s, n, z)
  PROVE  IsStart(BC!CString(s), s, z - 1)
<1>1. s \in Seq(Bytes) /\ n \in Nat /\ Len(s) = n
  BY DEF Pair
<1>2. z \in 1 .. n + 1 /\ (z <= n => s[z] = 0) /\ \A q \in 1 .. z - 1 : s[q] # 0
  BY ONLY Closes(s, n, z) DEF Closes
<1> PICK Z : Z = {p \in 1 .. Len(s) : s[p] = 0}
  OBVIOUS
<1>3. BC!CString(s) = LET x == IF Z # {} THEN BC!Min(Z) ELSE 0
                      IN  IF x = 0 THEN s ELSE BC!Truncated(s, x - 1)
  BY DEF BC!CString, BC!SelectInSeq
<1>4. CASE z = n + 1
  <2>1. Z = {}
    BY <1>1, <1>2, <1>4
  <2>2. BC!CString(s) = s
    BY <1>3, <2>1
  <2> QED
    BY <1>1, <1>4, <2>2 DEF IsStart
<1>5. CASE z # n + 1
  <2>1. z \in 1 .. n /\ z \in Z
    BY <1>1, <1>2, <1>5
  <2> PICK f : f = BC!Min(Z)
    OBVIOUS
  <2>2. FirstOf(Z, n, f)
    <3>1. Z \in SUBSET (1 .. n) /\ Z # {} /\ n \in Int
      BY <1>1, <2>1
    <3> QED
      BY <3>1, FirstOrNone
  <2>3. f \in Z /\ f \in 1 .. n /\ \A e \in 1 .. f - 1 : e \notin Z
    BY ONLY <2>2 DEF FirstOf
  <2>4. f = z
    <3>1. ~(f < z)
      <4>1. s[f] = 0
        BY <1>1, <2>3
      <4> QED
        BY <1>2, <2>3, <4>1
    <3>2. ~(z < f)
      BY <2>1, <2>3
    <3> QED
      BY <2>1, <2>3, <3>1, <3>2
  <2>5. BC!CString(s) = BC!Truncated(s, z - 1)
    BY <1>3, <2>1, <2>4
  <2>6. z - 1 \in Int /\ ~(z - 1 < 0) /\ z - 1 <= n
    BY <1>1, <2>1
  <2> QED
    BY <2>5, <2>6, TruncatedIs
<1> QED
  BY <1>4, <1>5

\* Where the numbers of a string end.
LEMMA NumbersClose ==
  ASSUME NEW s, NEW n, NEW t, NEW m, Pair(s, n, t, m), NEW z \in Nat, Closes(s, n, z)
  PROVE  /\ CharNumbers(s)[z] = IF z > n THEN -1000 ELSE 0
         /\ \A p \in 1 .. z - 1 : /\ CharNumbers(s)[p] = BC!Signed(s[p])
                                  /\ s[p] \in 0 .. 255 /\ s[p] # 0
<1>1. n \in Nat
  BY DEF Pair
<1>2. z \in 1 .. n + 1 /\ (z <= n => s[z] = 0) /\ \A q \in 1 .. z - 1 : s[q] # 0
  BY ONLY Closes(s, n, z) DEF Closes
<1>3. ASSUME NEW p \in Nat, 0 < p, p <= z
      PROVE  CharNumbers(s)[p] = IF p > n THEN -1000 ELSE BC!Signed(s[p])
  <2>1. \A q \in 1 .. p - 1 : q <= n => s[q] # 0
    BY <1>2, <1>3
  <2> QED
    BY <1>3, <2>1, CharNumberAt
<1>4. BC!Signed(0) = 0
  BY DEF BC!Signed
<1>5. 0 < z /\ z <= z
  BY <1>2
<1>6. \A p \in 1 .. n : s[p] \in 0 .. 255
  BY ONLY Pair(s, n, t, m), PairBytes
<1>7. \A p \in 1 .. z - 1 : p \in Nat /\ 0 < p /\ p <= z /\ ~(p > n) /\ p \in 1 .. n
  BY <1>1, <1>2
<1>8. CharNumbers(s)[z] = IF z > n THEN -1000 ELSE 0
  <2>1. CASE z > n
    BY <1>3, <1>5, <2>1
  <2>2. CASE ~(z > n)
    <3>1. s[z] = 0
      BY <1>1, <1>2, <2>2
    <3> QED
      BY <1>3, <1>4, <1>5, <2>2, <3>1
  <2> QED
    BY <2>1, <2>2
<1> QED
  BY <1>2, <1>3, <1>6, <1>7, <1>8

\* Strings with the same numbers do not end one before the other.
LEMMA ClosesTogether ==
  ASSUME NEW s, NEW n, NEW t, NEW m, Pair(s, n, t, m), CharNumbers(s) = CharNumbers(t),
         NEW z \in Nat, Closes(s, n, z), NEW w \in Nat, Closes(t, m, w)
  PROVE  ~(z < w)
<1>1. Pair(t, m, s, n)
  BY PairSwapped
<1>2. CharNumbers(s)[z] = -1000 \/ CharNumbers(s)[z] = 0
  BY NumbersClose
<1>3. \A p \in 1 .. w - 1 : /\ CharNumbers(t)[p] = BC!Signed(t[p])
                            /\ t[p] \in 0 .. 255 /\ t[p] # 0
  BY <1>1, NumbersClose
<1>4. ASSUME z < w
      PROVE  FALSE
  <2>1. z \in 1 .. w - 1
    BY <1>4 DEF Closes
  <2> PICK a : a = t[z]
    OBVIOUS
  <2>2. CharNumbers(s)[z] = BC!Signed(a) /\ a \in 0 .. 255 /\ a # 0
    BY <1>3, <2>1
  <2>3. BC!Signed(a) # 0 /\ BC!Signed(a) # -1000
    BY ONLY <2>2 DEF BC!Signed
  <2> QED
    BY <1>2, <2>2, <2>3
<1> QED
  BY <1>4

\* Strings that bstrcmp takes for equal.
LEMMA SameNumbers ==
  ASSUME NEW s, NEW n, NEW t, NEW m, Pair(s, n, t, m), CharNumbers(s) = CharNumbers(t)
  PROVE  s = t \/ (/\ BC!CString(s) = BC!CString(t)
                   /\ 0 \in BC!Range(s) /\ 0 \in BC!Range(t))
<1>1. Pair(t, m, s, n)
  BY PairSwapped
<1>2. /\ s \in Seq(Bytes) /\ t \in Seq(Bytes) /\ n \in Nat /\ m \in Nat
      /\ Len(s) = n /\ Len(t) = m
  BY DEF Pair
<1>3. PICK z \in 1 .. n + 1 : Closes(s, n, z)
  BY <1>2, SomewhereCloses
<1>4. PICK w \in 1 .. m + 1 : Closes(t, m, w)
  BY <1>2, SomewhereCloses
<1>5. z \in Nat /\ w \in Nat
  OBVIOUS
<1>6. z = w
  <2>1. ~(z < w) /\ ~(w < z)
    BY <1>1, <1>3, <1>4, <1>5, ClosesTogether
  <2> QED
    BY <1>5, <2>1
<1>7. /\ CharNumbers(s)[z] = IF z > n THEN -1000 ELSE 0
      /\ \A p \in 1 .. z - 1 : CharNumbers(s)[p] = BC!Signed(s[p]) /\ s[p] \in 0 .. 255
  BY <1>3, <1>5, NumbersClose
<1>8. /\ CharNumbers(t)[w] = IF w > m THEN -1000 ELSE 0
      /\ \A p \in 1 .. w - 1 : CharNumbers(t)[p] = BC!Signed(t[p]) /\ t[p] \in 0 .. 255
  BY <1>1, <1>4, <1>5, NumbersClose
<1>9. \A p \in 1 .. z - 1 : s[p] = t[p]
  <2> SUFFICES ASSUME NEW p \in 1 .. z - 1
               PROVE  s[p] = t[p]
    OBVIOUS
  <2> PICK x : x = s[p]
    OBVIOUS
  <2> PICK y : y = t[p]
    OBVIOUS
  <2>1. x \in 0 .. 255 /\ y \in 0 .. 255 /\ BC!Signed(x) = BC!Signed(y)
    <3>1. CharNumbers(s)[p] = BC!Signed(x) /\ x \in 0 .. 255
      BY <1>7, Zenon
    <3>2. CharNumbers(t)[p] = BC!Signed(y) /\ y \in 0 .. 255
      BY ONLY <1>6, <1>8, p \in 1 .. z - 1, y = t[p]
    <3> QED
      BY <3>1, <3>2, Zenon
  <2>2. x = y
    BY ONLY <2>1, SignedIs
  <2> QED
    BY <2>2
<1>10. z > n <=> w > m
  BY <1>6, <1>7, <1>8
<1>11. CASE z > n
  <2>1. n = m /\ z - 1 = n
    BY <1>2, <1>3, <1>4, <1>6, <1>10, <1>11
  <2>2. \A p \in 1 .. Len(s) : s[p] = t[p]
    BY <1>2, <1>9, <2>1
  <2> QED
    BY <1>2, <2>1, <2>2, SeqEqual
<1>12. CASE ~(z > n)
  <2>1. z \in 1 .. n /\ z \in 1 .. m /\ z <= n /\ w <= m
    BY <1>2, <1>3, <1>4, <1>6, <1>10, <1>12
  <2>2. s[z] = 0 /\ t[z] = 0
    BY <1>3, <1>4, <1>6, <2>1 DEF Closes
  <2>3. 0 \in BC!Range(s) /\ 0 \in BC!Range(t)
    <3>1. z \in DOMAIN s /\ z \in DOMAIN t
      BY <1>2, <2>1
    <3> QED
      BY <2>2, <3>1 DEF BC!Range
  <2>4. IsStart(BC!CString(s), s, z - 1) /\ IsStart(BC!CString(t), t, z - 1)
    BY <1>1, <1>3, <1>4, <1>5, <1>6, CStringIs
  <2>5. BC!CString(s) = BC!CString(t)
    BY <1>9, <2>4, SeqEqual DEF IsStart
  <2> QED
    BY <2>3, <2>5
<1> QED
  BY <1>11, <1>12

\* And the other way round.
LEMMA SameCString ==
  ASSUME NEW s, NEW n, NEW t, NEW m, Pair(s, n, t, m), BC!CString(s) = BC!CString(t),
         0 \in BC!Range(s), 0 \in BC!Range(t)
  PROVE  CharNumbers(s) = CharNumbers(t)
<1>1. Pair(t, m, s, n)
  BY PairSwapped
<1>2. /\ s \in Seq(Bytes) /\ t \in Seq(Bytes) /\ n \in Nat /\ m \in Nat
      /\ Len(s) = n /\ Len(t) = m
  BY DEF Pair
<1>3. PICK z \in 1 .. n + 1 : Closes(s, n, z)
  BY <1>2, SomewhereCloses
<1>4. PICK w \in 1 .. m + 1 : Closes(t, m, w)
  BY <1>2, SomewhereCloses
<1>5. z \in Nat /\ w \in Nat
  OBVIOUS
<1>6. IsStart(BC!CString(s), s, z - 1) /\ IsStart(BC!CString(t), t, w - 1)
  BY <1>1, <1>3, <1>4, <1>5, CStringIs
<1>7. z = w /\ \A p \in 1 .. z - 1 : s[p] = t[p]
  BY <1>5, <1>6 DEF IsStart
<1>8. z <= n /\ w <= m
  <2>1. PICK p \in 1 .. n : s[p] = 0
    BY <1>2 DEF BC!Range
  <2>2. PICK q \in 1 .. m : t[q] = 0
    BY <1>2 DEF BC!Range
  <2>3. p \notin 1 .. z - 1 /\ q \notin 1 .. w - 1
    BY <1>3, <1>4, <2>1, <2>2 DEF Closes
  <2> QED
    BY <1>2, <1>5, <2>3
<1> PICK d \in Nat : d + 1 = z
  BY <1>3
<1>9. Alike(s, t, d)
  <2>1. \A p \in 1 .. z - 1 : s[p] # 0
    BY <1>3 DEF Closes
  <2>2. d = z - 1
    BY <1>5
  <2> QED
    BY <1>7, <2>1, <2>2 DEF Alike
<1>10. s[d + 1] = 0 /\ t[d + 1] = 0 /\ d + 1 <= n /\ d + 1 <= m
  BY <1>3, <1>4, <1>7, <1>8 DEF Closes
<1> QED
  BY <1>9, <1>10, SameBehindZero

LEMMA BstrcmpEquals ==
  ASSUME NEW s, NEW n, NEW t, NEW m, Pair(s, n, t, m)
  PROVE  BC!bstrcmp(s, t) = 0 <=>
           \/ s = t
           \/ BC!CString(s) = BC!CString(t) /\ 0 \in BC!Range(s) /\ 0 \in BC!Range(t)
<1> PICK v : v = BC!bstrcmp(s, t)
  OBVIOUS
<1>1. Compares(v, CharNumbers(s), CharNumbers(t))
  BY BstrcmpCompares
<1>2. CharNumbers(s) \in Numbers /\ CharNumbers(t) \in Numbers
  BY CharNumbersAre, PairSwapped
<1>3. v = 0 => CharNumbers(s) = CharNumbers(t)
  BY <1>1, <1>2, LessOrSame DEF Compares
<1>4. CharNumbers(s) = CharNumbers(t) => v = 0
  BY <1>1, <1>2, NotLessThanItself DEF Compares
<1> QED
  BY <1>3, <1>4, SameNumbers, SameCString

\* biseqcstr compares all of the string with all of the C string.
LEMMA BiseqcstrEquals ==
  ASSUME NEW s, NEW n, NEW t, NEW m, Pair(s, n, t, m)
  PROVE  BC!biseqcstr(s, t) <=> s = BC!CString(t)
<1>1. Pair(t, m, s, n)
  BY PairSwapped
<1>2. /\ s \in Seq(Bytes) /\ t \in Seq(Bytes) /\ n \in Nat /\ m \in Nat
      /\ Len(s) = n /\ Len(t) = m
  BY DEF Pair
<1>3. PICK z \in 1 .. m + 1 : Closes(t, m, z)
  BY <1>2, SomewhereCloses
<1>4. z \in Nat
  OBVIOUS
<1>5. (z <= m => t[z] = 0) /\ \A q \in 1 .. z - 1 : t[q] # 0
  BY <1>3 DEF Closes
<1> PICK u : u = BC!CString(t)
  OBVIOUS
<1>6. IsStart(u, t, z - 1)
  BY <1>1, <1>3, <1>4, CStringIs
<1>7. u \in Seq(Bytes) /\ Len(u) = z - 1 /\ \A p \in 1 .. z - 1 : u[p] = t[p]
  BY <1>6 DEF IsStart
<1> DEFINE byte(p) == IF p <= m THEN t[p] ELSE 0
<1>8. /\ \A p \in 1 .. z - 1 : byte(p) = t[p] /\ byte(p) # 0
      /\ byte(z) = 0
  BY <1>2, <1>5
<1>9. BC!biseqcstr(s, t) <=> /\ \A p \in 1 .. n : byte(p) # 0 /\ s[p] = byte(p)
                             /\ byte(n + 1) = 0
  BY <1>2 DEF BC!biseqcstr
<1> HIDE DEF byte
<1>10. ASSUME BC!biseqcstr(s, t)
       PROVE  s = u
  <2>1. z \notin 1 .. n /\ n + 1 \notin 1 .. z - 1
    BY <1>8, <1>9, <1>10
  <2>2. n = z - 1
    BY <1>2, <1>4, <2>1
  <2>3. \A p \in 1 .. n : s[p] = u[p]
    BY <1>7, <1>8, <1>9, <1>10, <2>2
  <2> QED
    BY <1>2, <1>7, <2>2, <2>3, SeqEqual
<1>11. ASSUME s = u
       PROVE  BC!biseqcstr(s, t)
  <2>1. n = z - 1 /\ n + 1 = z
    BY <1>2, <1>4, <1>7, <1>11
  <2>2. \A p \in 1 .. n : s[p] = t[p]
    BY <1>7, <1>11, <2>1
  <2> QED
    BY <1>8, <1>9, <2>1, <2>2
<1> QED
  BY <1>10, <1>11

-----------------------------------------------------------------------------
(* bstrncmp.                                                               *)

\* The characters both of two beginnings have.
LEMMA BstrncmpIs ==
  ASSUME NEW s, NEW n, NEW t, NEW m, Pair(s, n, t, m), NEW k \in Int
  PROVE  BC!Sign(BC!bstrncmp(s, t, k))
           = BC!Sign(BC!bstrcmp(BC!Truncated(s, k), BC!Truncated(t, k)))
<1>1. /\ n \in Nat /\ m \in Nat /\ Len(s) = n /\ Len(t) = m /\ Bytes \subseteq 0 .. 255
  BY DEF Pair
<1>2. Pair(t, m, s, n)
  BY PairSwapped
<1> PICK c \in Nat : c = IF n <= m THEN n ELSE m
  BY <1>1
<1>3. BC!Common(s, t) = c /\ c <= n /\ c <= m
  BY <1>1, CommonIs
<1> PICK e \in Int : e = IF k <= c THEN k ELSE c
  OBVIOUS
<1>4. BC!Min({k, c}) = e
  <2>1. c \in Int /\ BC!Min({k, c}) = Min({k, c})
    BY MinAgrees
  <2> QED
    BY ONLY <2>1, k \in Int, e = IF k <= c THEN k ELSE c, OfTwo
<1> PICK x : x = BC!Truncated(s, k)
  OBVIOUS
<1> PICK y : y = BC!Truncated(t, k)
  OBVIOUS
<1> PICK a \in Nat : a = IF k < 0 THEN 0 ELSE IF k <= n THEN k ELSE n
  BY <1>1
<1> PICK g \in Nat : g = IF k < 0 THEN 0 ELSE IF k <= m THEN k ELSE m
  BY <1>1
<1>5. IsStart(x, s, a) /\ IsStart(y, t, g)
  BY <1>2, TruncatedIs
<1>6. /\ x \in Seq(Bytes) /\ y \in Seq(Bytes) /\ Len(x) = a /\ Len(y) = g
      /\ \A p \in 1 .. a : x[p] = s[p]
      /\ \A p \in 1 .. g : y[p] = t[p]
  BY <1>5 DEF IsStart
<1>7. Pair(x, a, y, g)
  BY <1>1, <1>6 DEF Pair
<1> PICK f \in Nat : f = IF a <= g THEN a ELSE g
  OBVIOUS
<1>8. BC!Common(x, y) = f
  <2>1. BC!Common(x, y) = IF a <= g THEN a ELSE g
    BY ONLY <1>7, CommonIs
  <2> QED
    BY <2>1
<1>9. 1 .. e = 1 .. f /\ f <= a /\ f <= g
  <2>1. /\ n \in Nat /\ m \in Nat /\ k \in Int /\ c = IF n <= m THEN n ELSE m
        /\ e = IF k <= c THEN k ELSE c
        /\ a = IF k < 0 THEN 0 ELSE IF k <= n THEN k ELSE n
        /\ g = IF k < 0 THEN 0 ELSE IF k <= m THEN k ELSE m
        /\ f = IF a <= g THEN a ELSE g
    BY <1>1
  <2>2. f = IF e < 0 THEN 0 ELSE e
    BY ONLY <2>1
  <2>3. e \in Int /\ f \in Nat /\ a \in Nat /\ g \in Nat
    OBVIOUS
  <2>4. 1 .. e = 1 .. f
    BY ONLY <2>2, <2>3
  <2>5. f <= a /\ f <= g
    BY ONLY <2>1, <2>3
  <2> QED
    BY <2>4, <2>5
<1>9a. /\ a \in Nat /\ g \in Nat /\ f \in Nat
       /\ \A p \in 1 .. f : p \in 1 .. a /\ p \in 1 .. g
  <2>1. a \in Nat /\ g \in Nat /\ f \in Nat /\ f <= a /\ f <= g
    BY <1>9
  <2> QED
    BY ONLY <2>1
<1> PICK D : D = BC!Differ(s, t, e)
  OBVIOUS
<1>10. D = {p \in 1 .. f : s[p] # t[p] \/ s[p] = 0}
  BY <1>9 DEF BC!Differ
<1>11. D = BC!Differ(x, y, f)
  <2>1. \A p \in 1 .. f : x[p] = s[p] /\ y[p] = t[p]
    BY ONLY <1>6, <1>9a
  <2> QED
    BY <1>10, <2>1 DEF BC!Differ
<1>12. BC!bstrncmp(s, t, k) = IF D # {} THEN BC!Difference(s, t, D) ELSE BC!Rest(s, t, k)
  <2>1. BC!Differ(s, t, BC!Min({k, BC!Common(s, t)})) = D
    BY <1>3, <1>4
  <2> QED
    BY <2>1, Zenon DEF BC!bstrncmp
<1>13. BC!bstrcmp(x, y) = IF D # {} THEN BC!Difference(x, y, D) ELSE BC!Sign(a - g)
  <2>1. BC!Differ(x, y, BC!Common(x, y)) = D
    BY <1>8, <1>11
  <2> QED
    BY <1>6, <2>1, Zenon DEF BC!bstrcmp
<1>14. CASE D # {}
  <2> PICK d : d = BC!Min(D)
    OBVIOUS
  <2>1. FirstOf(D, f, d)
    <3>1. D \in SUBSET (1 .. f) /\ f \in Int
      BY ONLY <1>10, <1>9a
    <3> QED
      BY <1>14, <3>1, FirstOrNone
  <2>2. d \in 1 .. f
    BY ONLY <2>1 DEF FirstOf
  <2>3. x[d] = s[d] /\ y[d] = t[d]
    <3>1. d \in 1 .. a /\ d \in 1 .. g
      BY ONLY <1>9a, <2>2
    <3> QED
      BY ONLY <1>6, <3>1
  <2>4. BC!Difference(x, y, D) = BC!Difference(s, t, D)
    BY <2>3, Zenon DEF BC!Difference
  <2> QED
    BY <1>12, <1>13, <1>14, <2>4
<1>15. CASE D = {}
  <2>1. /\ BC!bstrncmp(s, t, k) = BC!Rest(s, t, k)
        /\ BC!bstrcmp(x, y) = BC!Sign(a - g)
    BY <1>12, <1>13, <1>15
  <2>2. BC!Rest(s, t, k) = IF k <= c \/ n = m THEN 0 ELSE IF n > c THEN 1 ELSE -1
    BY <1>1, <1>3 DEF BC!Rest
  <2>3. CASE k <= c \/ n = m
    <3>1. a = g
      BY <1>1, <2>3
    <3> QED
      BY <2>1, <2>2, <2>3, <3>1 DEF BC!Sign
  <2>4. CASE ~(k <= c \/ n = m) /\ n > c
    <3>1. g = m /\ a > g
      BY <1>1, <2>4
    <3> QED
      BY <2>1, <2>2, <2>4, <3>1 DEF BC!Sign
  <2>5. CASE ~(k <= c \/ n = m) /\ ~(n > c)
    <3>1. a = n /\ a < g
      BY <1>1, <2>5
    <3> QED
      BY <2>1, <2>2, <2>5, <3>1 DEF BC!Sign
  <2> QED
    BY <2>3, <2>4, <2>5
<1> QED
  BY <1>14, <1>15

-----------------------------------------------------------------------------
(* The strings of Spec.                                                     *)

Compared == c0 \in Seq(Bytes) /\ c1 \in Seq(Bytes) /\ c2 \in Seq(Bytes)

LEMMA ComparedInit ==
  ASSUME BC!Init
  PROVE  Compared
BY DEF BC!Init, Compared

LEMMA ComparedStep ==
  ASSUME BC!BstrCompareAssumption, Compared, [BC!Next]_(BC!vars)
  PROVE  Compared'
<1>1. CASE BC!Next
  <2>1. PICK s \in BC!Strings : BC!Compare(s)
    BY <1>1 DEF BC!Next
  <2>2. s \in Seq(Bytes)
    BY DEF BC!BstrCompareAssumption, BC!Strings, BC!BoundedSeq, BC!SeqOf
  <2> QED
    BY <2>1, <2>2 DEF BC!Compare, Compared
<1>2. CASE UNCHANGED BC!vars
  BY <1>2 DEF BC!vars, Compared
<1> QED
  BY <1>1, <1>2

LEMMA PairOf ==
  ASSUME BC!BstrCompareAssumption, NEW s \in Seq(Bytes), NEW t \in Seq(Bytes)
  PROVE  \E n, m : Pair(s, n, t, m)
<1>1. Len(s) \in Nat /\ Len(t) \in Nat /\ Bytes \subseteq 0 .. 255
  BY DEF BC!BstrCompareAssumption
<1> QED
  BY <1>1 DEF Pair

LEMMA EqualityHolds ==
  ASSUME BC!BstrCompareAssumption, Compared
  PROVE  EqualityAgrees
<1>1. PICK n, m : Pair(c0, n, c1, m)
  BY PairOf DEF Compared
<1> QED
  BY <1>1, BstrcmpEquals, BiseqcstrEquals DEF EqualityAgrees, BC!EqualityAgrees

LEMMA OrderHolds ==
  ASSUME BC!BstrCompareAssumption, Compared
  PROVE  Ordered
<1>1. PICK n, m : Pair(c0, n, c1, m)
  BY PairOf DEF Compared
<1>2. PICK k, l : Pair(c1, k, c2, l)
  BY PairOf DEF Compared
<1>3. PICK d, e : Pair(c0, d, c2, e)
  BY PairOf DEF Compared
<1>4. Pair(c1, m, c0, n) /\ Pair(c2, l, c1, k)
  BY <1>1, <1>2, PairSwapped
<1>5. /\ CharNumbers(c0) \in Numbers /\ CharNumbers(c1) \in Numbers
      /\ CharNumbers(c2) \in Numbers
  BY <1>1, <1>4, CharNumbersAre
<1>6. /\ Compares(BC!bstrcmp(c0, c1), CharNumbers(c0), CharNumbers(c1))
      /\ Compares(BC!bstrcmp(c1, c0), CharNumbers(c1), CharNumbers(c0))
      /\ Compares(BC!bstrcmp(c1, c2), CharNumbers(c1), CharNumbers(c2))
      /\ Compares(BC!bstrcmp(c0, c2), CharNumbers(c0), CharNumbers(c2))
  BY <1>1, <1>2, <1>3, <1>4, BstrcmpCompares
<1>7. /\ FoldNumbers(c0) \in Numbers /\ FoldNumbers(c1) \in Numbers
      /\ FoldNumbers(c2) \in Numbers
  BY <1>1, <1>4, FoldNumbersAre
<1>8. /\ Compares(BC!bstricmp(c0, c1), FoldNumbers(c0), FoldNumbers(c1))
      /\ Compares(BC!bstricmp(c1, c0), FoldNumbers(c1), FoldNumbers(c0))
      /\ Compares(BC!bstricmp(c1, c2), FoldNumbers(c1), FoldNumbers(c2))
      /\ Compares(BC!bstricmp(c0, c2), FoldNumbers(c0), FoldNumbers(c2))
  BY <1>1, <1>2, <1>3, <1>4, BstricmpCompares
<1>9. BC!Sign(BC!bstrcmp(c0, c1)) = -BC!Sign(BC!bstrcmp(c1, c0))
  BY <1>5, <1>6, OtherWayRound
<1>10. BC!Sign(BC!bstricmp(c0, c1)) = -BC!Sign(BC!bstricmp(c1, c0))
  BY <1>7, <1>8, OtherWayRound
<1>11. BC!bstrcmp(c0, c1) < 0 /\ BC!bstrcmp(c1, c2) < 0 => BC!bstrcmp(c0, c2) < 0
  BY <1>5, <1>6, NoCircle
<1>12. BC!bstricmp(c0, c1) <= 0 /\ BC!bstricmp(c1, c2) <= 0 => BC!bstricmp(c0, c2) <= 0
  BY <1>7, <1>8, NoCircle
<1>13. ASSUME NEW x \in -1 .. MaxCompared + 1
       PROVE  BC!Sign(BC!bstrncmp(c0, c1, x))
                = BC!Sign(BC!bstrcmp(BC!Truncated(c0, x), BC!Truncated(c1, x)))
  <2>1. x \in Int
    OBVIOUS
  <2> QED
    BY <1>1, <2>1, BstrncmpIs
<1> QED
  BY <1>9, <1>10, <1>11, <1>12, <1>13 DEF Ordered, BC!Ordered

\* Any two keys of the hash map are the same for bstrcmp exactly if their bytes
\* are, up to a zero byte in both, so that a header is found under its name and
\* under no other; and biseqcstr takes for "close" only all of it.
THEOREM ComparisonsAgree ==
  ASSUME BC!BstrCompareAssumption
  PROVE  BC!Spec => []EqualityAgrees
<1>1. BC!Init => Compared
  BY ComparedInit
<1>2. Compared /\ [BC!Next]_(BC!vars) => Compared'
  BY ComparedStep
<1>3. Compared => EqualityAgrees
  BY EqualityHolds
<1> QED
  BY <1>1, <1>2, <1>3, PTL DEF BC!Spec

\* bstrcmp and bstricmp are orders of all strings of bytes, whatever their signs
\* as char and wherever zero bytes are in them, and bstrncmp is the order of the
\* beginnings, for any length.
THEOREM ComparisonsOrder ==
  ASSUME BC!BstrCompareAssumption
  PROVE  BC!Spec => []Ordered
<1>1. BC!Init => Compared
  BY ComparedInit
<1>2. Compared /\ [BC!Next]_(BC!vars) => Compared'
  BY ComparedStep
<1>3. Compared => Ordered
  BY OrderHolds
<1> QED
  BY <1>1, <1>2, <1>3, PTL DEF BC!Spec

=============================================================================
