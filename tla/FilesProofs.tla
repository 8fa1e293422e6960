----------------------------- MODULE FilesProofs -----------------------------
(***************************************************************************)
(* What Files keeps true for any number of requests on one file, any bodies *)
(* and any size of the blocks stdio moves.                                 *)
(***************************************************************************)
EXTENDS Files, SequenceLemmas

-----------------------------------------------------------------------------
(* Operators.                                                              *)

Cell == Byte \cup {Hole}

\* A part of a sequence of cells.
LEMMA SubSeqOf ==
  ASSUME NEW f \in Seq(Cell), NEW m \in Int, NEW n \in Int,
         \A i \in m .. n : f[i] \in Cell
  PROVE  /\ SubSeq(f, m, n) \in Seq(Cell)
         /\ Len(SubSeq(f, m, n)) = IF m <= n THEN n - m + 1 ELSE 0
         /\ \A i \in 1 .. n - m + 1 : SubSeq(f, m, n)[i] = f[m + i - 1]
  BY SubSeqProperties

\* A body is a sequence of its own bytes, none of which is a hole.
LEMMA BodyIs ==
  ASSUME NEW p \in Posts \cup {Old}
  PROVE  /\ Body(p) \in Seq(Cell) /\ Hole \notin Byte
         /\ Len(Body(p)) = IF p = Old THEN OldLength ELSE Length[p]
         /\ \A i \in 1 .. Len(Body(p)) : Body(p)[i] = <<p, i>> /\ <<p, i>> \in Byte
<1> DEFINE n == IF p = Old THEN OldLength ELSE Length[p]
<1>1. n \in Nat
  BY FilesAssumption
<1>2. \A i \in 1 .. n : <<p, i>> \in Byte
  BY <1>1 DEF Byte
<1>3. Body(p) = [i \in 1 .. n |-> <<p, i>>]
  BY DEF Body
<1>4. Body(p) \in Seq(Cell) /\ Len(Body(p)) = n
  BY <1>1, <1>2, <1>3 DEF Cell
<1> QED
  BY <1>2, <1>3, <1>4, FilesAssumption

\* What is written at an offset lies there, what was there before lies around it,
\* and a gap between them is a hole.
LEMMA WrittenIs ==
  ASSUME NEW f \in Seq(Cell), NEW o \in Nat, NEW data \in Seq(Cell)
  PROVE  LET n == IF Len(f) <= o + Len(data) THEN o + Len(data) ELSE Len(f)
         IN  /\ Written(f, o, data) \in Seq(Cell)
             /\ Len(Written(f, o, data)) = n
             /\ \A i \in 1 .. n :
                  Written(f, o, data)[i] =
                    IF o < i /\ i <= o + Len(data) THEN data[i - o]
                    ELSE IF i <= Len(f) THEN f[i] ELSE Hole
<1> DEFINE n == IF Len(f) <= o + Len(data) THEN o + Len(data) ELSE Len(f)
           cell(i) == IF o < i /\ i <= o + Len(data) THEN data[i - o]
                      ELSE IF i <= Len(f) THEN f[i] ELSE Hole
<1>1. /\ Len(f) \in Nat /\ Len(data) \in Nat /\ n \in Nat
      /\ Max({Len(f), o + Len(data)}) = n /\ DOMAIN data = 1 .. Len(data)
  <2>1. Len(f) \in Nat /\ Len(data) \in Nat /\ DOMAIN data = 1 .. Len(data)
    BY LenProperties
  <2>2. \A a, b \in Int : Max({a, b}) = IF a <= b THEN b ELSE a
    BY OfTwo
  <2> QED
    BY <2>1, <2>2
<1>2. \A i \in 1 .. n : (i - o \in DOMAIN data) <=> (o < i /\ i <= o + Len(data))
  BY <1>1
<1>3. Written(f, o, data) = [i \in 1 .. n |-> cell(i)]
  <2>1. Written(f, o, data) =
          [i \in 1 .. n |-> IF i - o \in DOMAIN data THEN data[i - o]
                            ELSE IF i <= Len(f) THEN f[i] ELSE Hole]
    BY <1>1 DEF Written
  <2> HIDE DEF n
  <2> QED
    BY <1>2, <2>1, Zenon
<1>4. \A i \in 1 .. n : cell(i) \in Cell
  <2> SUFFICES ASSUME NEW i \in 1 .. n PROVE cell(i) \in Cell
    OBVIOUS
  <2>1. CASE o < i /\ i <= o + Len(data)
    <3>1. i - o \in 1 .. Len(data)
      BY <1>1, <2>1
    <3> QED
      BY <2>1, <3>1, ElementOfSeq
  <2>2. CASE ~(o < i /\ i <= o + Len(data)) /\ i <= Len(f)
    <3>1. i \in 1 .. Len(f)
      BY <1>1, <2>2
    <3> QED
      BY <2>2, <3>1, ElementOfSeq
  <2>3. CASE ~(o < i /\ i <= o + Len(data)) /\ ~(i <= Len(f))
    BY <2>3 DEF Cell
  <2> QED
    BY <2>1, <2>2, <2>3
<1>5. [i \in 1 .. n |-> cell(i)] \in Seq(Cell) /\ Len([i \in 1 .. n |-> cell(i)]) = n
  <2> DEFINE s == [i \in 1 .. n |-> cell(i)]
  <2> HIDE DEF n, cell
  <2>1. s \in [1 .. n -> Cell]
    BY <1>4
  <2> HIDE DEF s
  <2>2. s \in Seq(Cell) /\ DOMAIN s = 1 .. n
    BY <1>1, <2>1
  <2>3. Len(s) = n
    BY <1>1, <2>2, LenProperties
  <2> QED
    BY <2>2, <2>3 DEF s
<1> QED
  BY <1>3, <1>5

-----------------------------------------------------------------------------
(* The variables, and who overlaps whom.                                   *)

Types ==
  /\ file \in Seq(Cell) \cup {NULL}
  /\ pc \in [Requests -> {"start", "write", "size", "read", "done", "killed"}]
  /\ \A p \in Posts : pc[p] \in {"start", "write", "done"}
  /\ \A g \in Gets : pc[g] \in {"start", "size", "read", "done", "killed"}
  /\ offset \in [Posts -> Nat] /\ \A p \in Posts : offset[p] <= Length[p]
  /\ length \in [Gets -> Nat]
  /\ got \in [Gets -> Seq(Cell)]
  /\ answer = [r \in Requests |-> answer[r]]
  /\ last \in Posts \cup {Old, NULL}
  /\ before \in [Requests -> Posts \cup {Old, NULL}]
  /\ overlap \in [Requests -> SUBSET Requests]
  /\ cut \in SUBSET Gets

\* Of two requests under way each knows that it overlaps the other.
Meeting ==
  /\ \A r \in Requests : pc[r] = "start" => overlap[r] = {}
  /\ \A r, q \in UnderWay : r # q => q \in overlap[r]

\* The history of a request that begins has the right type.
LEMMA BeganTypes ==
  ASSUME Types, NEW r \in Requests, Began(r)
  PROVE  /\ overlap' \in [Requests -> SUBSET Requests]
         /\ before' \in [Requests -> Posts \cup {Old, NULL}]
<1>1. UnderWay \subseteq Requests
  BY DEF UnderWay
<1> QED
  BY <1>1 DEF Began, Types

\* The parts of fread, from where the last one ended to where the file or the
\* length ends, or the block.
LEMMA PartIs ==
  ASSUME NEW g \in Gets, file \in Seq(Cell), got[g] \in Seq(Cell), length[g] \in Nat
  PROVE  /\ Part(g) \in Seq(Cell)
         /\ \A j \in 1 .. Len(Part(g)) :
              /\ Len(got[g]) + j \in 1 .. Len(file)
              /\ Part(g)[j] = file[Len(got[g]) + j]
         /\ Part(g) # <<>> => /\ Len(got[g]) + Len(Part(g)) <= Len(file)
                              /\ Len(got[g]) + Len(Part(g)) <= length[g]
         /\ Part(g) = <<>> => Len(file) <= Len(got[g]) \/ length[g] <= Len(got[g])
<1> DEFINE a == Len(file)
           b == length[g]
           k == Len(got[g])
           m == Min({a, b, k + Block})
<1>1. a \in Nat /\ b \in Nat /\ k \in Nat /\ Block \in Nat \ {0}
  BY LenProperties, FilesAssumption
<1>2. m \in {a, b, k + Block} /\ m <= a /\ m <= b
  <2>1. \A x, y, z \in Int :
          /\ Min({x, y, z}) \in {x, y, z}
          /\ Min({x, y, z}) <= x /\ Min({x, y, z}) <= y
    BY OfThree
  <2>2. a \in Int /\ b \in Int /\ k + Block \in Int
    BY <1>1
  <2> HIDE DEF a, b, k
  <2> QED
    BY <2>1, <2>2, Zenon
<1>3. m \in Int /\ k + 1 \in Int
  BY <1>1, <1>2
<1> HIDE DEF m
<1>4. Part(g) = SubSeq(file, k + 1, m)
  BY DEF Part, m
<1>5. \A i \in k + 1 .. m : i \in 1 .. Len(file) /\ file[i] \in Cell
  BY <1>1, <1>2, <1>3, ElementOfSeq
<1>6. /\ Part(g) \in Seq(Cell)
      /\ Len(Part(g)) = IF k + 1 <= m THEN m - (k + 1) + 1 ELSE 0
      /\ \A j \in 1 .. m - (k + 1) + 1 : Part(g)[j] = file[(k + 1) + j - 1]
  <2> HIDE DEF a, b, k
  <2>1. \A i \in k + 1 .. m : file[i] \in Cell
    BY <1>5
  <2> QED
    BY <1>3, <1>4, <2>1, SubSeqOf
<1>7. Part(g) = <<>> <=> Len(Part(g)) = 0
  BY <1>6, EmptySeq
<1>8. \A j \in 1 .. Len(Part(g)) : /\ k + j \in 1 .. Len(file)
                                   /\ Part(g)[j] = file[k + j]
  <2> SUFFICES ASSUME NEW j \in 1 .. Len(Part(g))
               PROVE  k + j \in 1 .. Len(file) /\ Part(g)[j] = file[k + j]
    OBVIOUS
  <2>1. k + 1 <= m /\ j \in 1 .. m - (k + 1) + 1 /\ (k + 1) + j - 1 = k + j
    BY <1>1, <1>3, <1>6
  <2> QED
    BY <1>1, <1>2, <1>3, <1>6, <2>1
<1>9. Part(g) # <<>> => k + Len(Part(g)) <= a /\ k + Len(Part(g)) <= b
  <2> HIDE DEF a, b, k
  <2> QED
    BY <1>1, <1>2, <1>3, <1>6, <1>7
<1>10. Part(g) = <<>> => a <= k \/ b <= k
  <2> HIDE DEF a, b, k
  <2> QED
    BY <1>1, <1>2, <1>3, <1>6, <1>7
<1> QED
  BY <1>6, <1>8, <1>9, <1>10

\* What a POST hands to the kernel at once: the bytes of its body from the offset
\* on, which go to their places in the file.
LEMMA WriteIs ==
  ASSUME Types, NEW p \in Posts, Write(p), file # NULL
  PROVE  /\ file \in Seq(Cell) /\ file' \in Seq(Cell)
         /\ offset' = [offset EXCEPT ![p] = offset'[p]]
         /\ offset[p] \in Nat /\ offset'[p] \in Nat
         /\ offset[p] < offset'[p] /\ offset'[p] <= Length[p]
         /\ Len(file') = IF Len(file) <= offset'[p] THEN offset'[p] ELSE Len(file)
         /\ \A i \in 1 .. Len(file') :
              file'[i] = IF offset[p] < i /\ i <= offset'[p] THEN <<p, i>>
                         ELSE IF i <= Len(file) THEN file[i] ELSE Hole
<1> DEFINE o == offset[p]
           n == Length[p]
           e == Min({o + Block, n})
           data == SubSeq(Body(p), o + 1, e)
<1>1. o \in Nat /\ n \in Nat /\ o < n /\ Block \in Nat \ {0}
      /\ file \in Seq(Cell) /\ p # Old
  <2>1. o \in Nat /\ file \in Seq(Cell)
    BY DEF Types
  <2>2. n \in Nat /\ Block \in Nat \ {0} /\ p # Old
    BY FilesAssumption
  <2>3. o < n
    BY DEF Write
  <2> QED
    BY <2>1, <2>2, <2>3
<1>2. e \in Nat /\ o < e /\ e <= n
  <2> HIDE DEF o, n
  <2>1. e = IF o + Block <= n THEN o + Block ELSE n
    BY <1>1, OfTwo
  <2> QED
    BY <1>1, <2>1
<1>3. file' = Written(file, o, data) /\ offset' = [offset EXCEPT ![p] = e]
      /\ offset'[p] = e
  BY DEF Write, Types
<1>4. /\ Body(p) \in Seq(Cell) /\ Len(Body(p)) = n
      /\ \A i \in 1 .. n : Body(p)[i] = <<p, i>> /\ <<p, i>> \in Cell
  BY <1>1, BodyIs DEF Cell
<1> HIDE DEF e, o, n
<1>5. /\ data \in Seq(Cell) /\ Len(data) = e - o
      /\ \A j \in 1 .. e - o : data[j] = <<p, o + j>>
  <2>0. \A i \in o + 1 .. e : i \in 1 .. n
    BY <1>1, <1>2
  <2>1. \A i \in o + 1 .. e : Body(p)[i] = <<p, i>> /\ Body(p)[i] \in Cell
    BY <1>4, <2>0
  <2>2. /\ data \in Seq(Cell)
        /\ Len(data) = IF o + 1 <= e THEN e - (o + 1) + 1 ELSE 0
        /\ \A j \in 1 .. e - (o + 1) + 1 : data[j] = Body(p)[(o + 1) + j - 1]
    BY <1>1, <1>2, <1>4, <2>1, SubSeqOf DEF data
  <2>3. e - (o + 1) + 1 = e - o /\ o + 1 <= e
    BY <1>1, <1>2
  <2>4. \A j \in 1 .. e - o : (o + 1) + j - 1 = o + j /\ o + j \in o + 1 .. e
    BY <1>1, <1>2
  <2> QED
    BY <2>1, <2>2, <2>3, <2>4
<1> HIDE DEF data
<1>6. o + Len(data) = e
  BY <1>1, <1>2, <1>5
<1>7. /\ file' \in Seq(Cell)
      /\ Len(file') = IF Len(file) <= e THEN e ELSE Len(file)
      /\ \A i \in 1 .. Len(file') :
           file'[i] = IF o < i /\ i <= e THEN data[i - o]
                      ELSE IF i <= Len(file) THEN file[i] ELSE Hole
  BY <1>1, <1>3, <1>5, <1>6, WrittenIs
<1>8. Len(file) \in Nat /\ Len(file') \in Nat
  BY <1>1, <1>7, LenProperties
<1>9. \A i \in 1 .. Len(file') : o < i /\ i <= e =>
        i - o \in 1 .. e - o /\ o + (i - o) = i
  BY <1>1, <1>2, <1>8
<1>10. \A i \in 1 .. Len(file') :
         file'[i] = IF o < i /\ i <= e THEN <<p, i>>
                    ELSE IF i <= Len(file) THEN file[i] ELSE Hole
  BY <1>5, <1>7, <1>9
<1> QED
  BY <1>1, <1>2, <1>3, <1>7, <1>10 DEF o, n

\* While a request is under way the file exists.
Present == UnderWay # {} => file # NULL

\* A sequence of cells is not NULL.
LEMMA SeqNotNull == NULL \notin Seq(Cell)
  BY FilesAssumption DEF Cell

\* What an answer leaves of the types of pc and answer.
Answered ==
  /\ pc' \in [Requests -> {"start", "write", "size", "read", "done", "killed"}]
  /\ \A p \in Posts : pc'[p] \in {"start", "write", "done"}
  /\ \A g \in Gets : pc'[g] \in {"start", "size", "read", "done", "killed"}
  /\ answer' = [r \in Requests |-> answer'[r]]

LEMMA AnswerTypes ==
  ASSUME Types, NEW r \in Requests, NEW status, NEW body, Answer(r, status, body)
  PROVE  Answered
<1>1. /\ pc' = [pc EXCEPT ![r] = "done"]
      /\ pc' \in [Requests -> {"start", "write", "size", "read", "done", "killed"}]
  BY DEF Answer, Types
<1>2. \A q \in Requests : pc'[q] = "done" \/ pc'[q] = pc[q]
  BY <1>1 DEF Types
<1>3. answer' = [q \in Requests |-> answer'[q]]
  BY DEF Answer, Types
<1> QED
  BY <1>1, <1>2, <1>3 DEF Answered, Types, Requests

\* Every step keeps the types.
LEMMA TypesStep == Types /\ Present /\ [Next]_vars => Types'
<1> SUFFICES ASSUME Types, Present, [Next]_vars PROVE Types'
  OBVIOUS
<1> USE DEF vars, history, Requests
<1>0. Gets \cap Posts = {}
  BY FilesAssumption
<1>1. ASSUME NEW p \in Posts, OpenWrite(p) PROVE Types'
  <2>1. file' \in Seq(Cell)
    BY <1>1 DEF OpenWrite, Opened
  <2>2. /\ overlap' \in [Requests -> SUBSET Requests]
        /\ before' \in [Requests -> Posts \cup {Old, NULL}]
    BY <1>1, BeganTypes DEF OpenWrite
  <2>3. cut' \in SUBSET Gets
    BY <1>1 DEF OpenWrite, Types
  <2> QED
    BY <1>0, <1>1, <2>1, <2>2, <2>3 DEF OpenWrite, Types
<1>2. ASSUME NEW p \in Posts, OpenWriteFails(p) PROVE Types'
  <2>1. Answered
    BY <1>0, <1>2, AnswerTypes DEF OpenWriteFails
  <2>2. UNCHANGED <<file, offset, length, got, last, before, overlap, cut>>
    BY <1>2 DEF OpenWriteFails
  <2> QED
    BY <2>1, <2>2 DEF Answered, Types
<1>3. ASSUME NEW p \in Posts, Write(p) PROVE Types'
  <2>1. file # NULL
    BY <1>3 DEF Present, UnderWay, Write
  <2>2. /\ file' \in Seq(Cell) /\ offset' = [offset EXCEPT ![p] = offset'[p]]
        /\ offset'[p] \in Nat /\ offset'[p] <= Length[p]
    BY <1>3, <2>1, WriteIs
  <2>3. offset' \in [Posts -> Nat] /\ \A q \in Posts : offset'[q] <= Length[q]
    BY <2>2 DEF Types
  <2> QED
    BY <1>3, <2>2, <2>3 DEF Write, Types
<1>4. ASSUME NEW p \in Posts, CloseWritten(p) PROVE Types'
  <2>1. Answered
    BY <1>0, <1>4, AnswerTypes DEF CloseWritten
  <2>2. UNCHANGED <<file, offset, length, got, before, overlap, cut>> /\ last' = p
    BY <1>4 DEF CloseWritten
  <2> QED
    BY <2>1, <2>2 DEF Answered, Types
<1>5. ASSUME NEW g \in Gets, OpenRead(g) PROVE Types'
  <2>1. /\ overlap' \in [Requests -> SUBSET Requests]
        /\ before' \in [Requests -> Posts \cup {Old, NULL}]
    BY <1>5, BeganTypes DEF OpenRead
  <2> QED
    BY <1>0, <1>5, <2>1 DEF OpenRead, Types
<1>6. ASSUME NEW g \in Gets, NotFound(g) PROVE Types'
  <2>1. /\ overlap' \in [Requests -> SUBSET Requests]
        /\ before' \in [Requests -> Posts \cup {Old, NULL}]
    BY <1>6, BeganTypes DEF NotFound
  <2>2. Answered
    BY <1>0, <1>6, AnswerTypes DEF NotFound
  <2>3. UNCHANGED <<file, offset, length, got, last, cut>>
    BY <1>6 DEF NotFound
  <2> QED
    BY <2>1, <2>2, <2>3 DEF Answered, Types
<1>7. ASSUME NEW g \in Gets, TakeLength(g) PROVE Types'
  <2>1. file \in Seq(Cell)
    BY <1>7 DEF Present, UnderWay, TakeLength, Types
  <2>2. Len(file) \in Nat
    BY <2>1, LenProperties
  <2> QED
    BY <1>0, <1>7, <2>2 DEF TakeLength, LengthOf, Types
<1>8. ASSUME NEW g \in Gets, Read(g) PROVE Types'
  <2>1. file \in Seq(Cell)
    BY <1>8 DEF Present, UnderWay, Read, Types
  <2>2. Part(g) \in Seq(Cell)
    BY <2>1, PartIs DEF Types
  <2>3. got[g] \o Part(g) \in Seq(Cell)
    BY <2>2, ConcatProperties DEF Types
  <2> QED
    BY <1>8, <2>3 DEF Read, Types
<1>9. ASSUME NEW g \in Gets, FinishRead(g) PROVE Types'
  <2>1. Answered
    BY <1>0, <1>9, AnswerTypes DEF FinishRead
  <2>2. UNCHANGED <<file, offset, length, got, last, before, overlap, cut>>
    BY <1>9 DEF FinishRead
  <2> QED
    BY <2>1, <2>2 DEF Answered, Types
<1>10. ASSUME NEW g \in Gets, ReadFault(g) PROVE Types'
  BY <1>0, <1>10 DEF ReadFault, Types
<1>11. CASE UNCHANGED vars
  BY <1>11 DEF Types
<1> QED
  BY <1>1, <1>2, <1>3, <1>4, <1>5, <1>6, <1>7, <1>8, <1>9, <1>10, <1>11 DEF Next

\* A file is never removed.
LEMMA PresentStep == Types /\ Present /\ [Next]_vars => Present'
<1> SUFFICES ASSUME Types, Present, [Next]_vars PROVE Present'
  OBVIOUS
<1> USE DEF vars, history, Present, UnderWay, Requests
<1>1. ASSUME NEW p \in Posts, OpenWrite(p) PROVE Present'
  <2>1. file' \in Seq(Cell)
    BY <1>1 DEF OpenWrite, Opened
  <2> QED
    BY <2>1, SeqNotNull
<1>2. ASSUME NEW p \in Posts, Write(p) PROVE Present'
  <2>1. file' \in Seq(Cell)
    BY <1>2, WriteIs DEF Write
  <2> QED
    BY <2>1, SeqNotNull
<1>3. ASSUME NEW p \in Posts, OpenWriteFails(p) \/ CloseWritten(p) PROVE Present'
  BY <1>3 DEF OpenWriteFails, CloseWritten, Answer, Types
<1>4. ASSUME NEW g \in Gets,
             NotFound(g) \/ TakeLength(g) \/ Read(g) \/ FinishRead(g) \/ ReadFault(g)
      PROVE  Present'
  BY <1>4 DEF NotFound, TakeLength, Read, FinishRead, ReadFault, Answer, Types
<1>5. ASSUME NEW g \in Gets, OpenRead(g) PROVE Present'
  BY <1>5 DEF OpenRead
<1>6. CASE UNCHANGED vars
  BY <1>6
<1> QED
  BY <1>1, <1>2, <1>3, <1>4, <1>5, <1>6 DEF Next

\* How a step changes who overlaps whom: a request that begins overlaps those under
\* way, and they it; what a request that is done has overlapped stays as it is.
LEMMA OverlapGrows ==
  ASSUME Types, Meeting, [Next]_vars
  PROVE  /\ \A r \in Requests : overlap[r] \subseteq overlap'[r]
         /\ \A r \in Requests : pc[r] = "done" => /\ pc'[r] = "done"
                                                  /\ overlap'[r] = overlap[r]
                                                  /\ before'[r] = before[r]
                                                  /\ answer'[r] = answer[r]
         /\ \A p \in Posts : pc[p] = "done" => offset'[p] = offset[p]
<1> DEFINE Goal ==
      /\ \A r \in Requests : overlap[r] \subseteq overlap'[r]
      /\ \A r \in Requests : pc[r] = "done" => /\ pc'[r] = "done"
                                               /\ overlap'[r] = overlap[r]
                                               /\ before'[r] = before[r]
                                               /\ answer'[r] = answer[r]
      /\ \A p \in Posts : pc[p] = "done" => offset'[p] = offset[p]
<1> USE DEF vars, history, Requests
<1>1. ASSUME NEW r \in Requests, pc[r] = "start", Began(r)
      PROVE  /\ \A q \in Requests : overlap[q] \subseteq overlap'[q]
             /\ \A q \in Requests : pc[q] = "done" => /\ overlap'[q] = overlap[q]
                                                      /\ before'[q] = before[q]
  BY <1>1 DEF Began, UnderWay, Types, Meeting
<1>2. ASSUME NEW p \in Posts, OpenWrite(p) PROVE Goal
  BY <1>1, <1>2 DEF OpenWrite, Types
<1>3. ASSUME NEW p \in Posts, OpenWriteFails(p) \/ Write(p) \/ CloseWritten(p)
      PROVE  Goal
  BY <1>3 DEF OpenWriteFails, Write, CloseWritten, Answer, Types
<1>4. ASSUME NEW g \in Gets, OpenRead(g) PROVE Goal
  BY <1>1, <1>4 DEF OpenRead, Types
<1>5. ASSUME NEW g \in Gets, NotFound(g) PROVE Goal
  BY <1>1, <1>5 DEF NotFound, Answer, Types
<1>6. ASSUME NEW g \in Gets, TakeLength(g) \/ Read(g) \/ FinishRead(g) \/ ReadFault(g)
      PROVE  Goal
  BY <1>6 DEF TakeLength, Read, FinishRead, ReadFault, Answer, Types
<1>7. CASE UNCHANGED vars
  BY <1>7
<1> QED
  BY <1>2, <1>3, <1>4, <1>5, <1>6, <1>7 DEF Next

\* Meeting is inductive.
LEMMA MeetingStep == Types /\ Meeting /\ [Next]_vars => Meeting'
<1> SUFFICES ASSUME Types, Meeting, [Next]_vars PROVE Meeting'
  OBVIOUS
<1> USE DEF vars, history, Requests
<1>0. \A r \in Requests : overlap[r] \subseteq overlap'[r]
  BY OverlapGrows
<1>1. ASSUME NEW r \in Requests, pc[r] = "start", Began(r),
             NEW v, v # "start", pc' = [pc EXCEPT ![r] = v]
      PROVE  Meeting'
  <2>1. /\ overlap'[r] = UnderWay
        /\ \A q \in UnderWay : r \in overlap'[q]
        /\ \A q \in Requests : q # r /\ q \notin UnderWay => overlap'[q] = overlap[q]
    BY <1>1 DEF Began, UnderWay
  <2>2. \A q \in Requests : q # r => pc'[q] = pc[q]
    BY <1>1 DEF Types
  <2>3. pc'[r] = v
    BY <1>1 DEF Types
  <2>4. \A q \in Requests : pc'[q] = "start" => overlap'[q] = {}
    BY <1>1, <2>1, <2>2, <2>3 DEF Meeting, UnderWay
  <2>5. \A q \in UnderWay' : q \in Requests /\ (q # r => q \in UnderWay)
    BY <2>2 DEF UnderWay
  <2>6. \A q, s \in UnderWay' : q # s => s \in overlap'[q]
    BY <1>0, <2>1, <2>5 DEF Meeting
  <2> QED
    BY <2>4, <2>6 DEF Meeting
<1>2. ASSUME UNCHANGED overlap,
             \A q \in Requests : pc'[q] = "start" => pc[q] = "start",
             \A q \in UnderWay' : q \in UnderWay
      PROVE  Meeting'
  BY <1>2 DEF Meeting
<1>3. ASSUME NEW p \in Posts, OpenWrite(p) PROVE Meeting'
  BY <1>1, <1>3 DEF OpenWrite
<1>4. ASSUME NEW p \in Posts, OpenWriteFails(p) \/ Write(p) \/ CloseWritten(p)
      PROVE  Meeting'
  BY <1>2, <1>4 DEF OpenWriteFails, Write, CloseWritten, Answer, Types, UnderWay
<1>5. ASSUME NEW g \in Gets, OpenRead(g) \/ NotFound(g) PROVE Meeting'
  BY <1>1, <1>5 DEF OpenRead, NotFound, Answer
<1>6. ASSUME NEW g \in Gets, TakeLength(g) \/ Read(g) \/ FinishRead(g) \/ ReadFault(g)
      PROVE  Meeting'
  BY <1>2, <1>6 DEF TakeLength, Read, FinishRead, ReadFault, Answer, Types, UnderWay
<1>7. CASE UNCHANGED vars
  BY <1>2, <1>7 DEF UnderWay
<1> QED
  BY <1>3, <1>4, <1>5, <1>6, <1>7 DEF Next

-----------------------------------------------------------------------------
(* The bytes of the file.                                                  *)

\* Two POSTs were under way at the same time.
Overlapped == \E p \in Posts : overlap[p] \cap Posts # {}

\* What BytesKeepTheirPlace needs: a POST that no other overlaps has so far written
\* the beginning of its body, up to where its offset is, and nothing else is there.
Places ==
  /\ BytesKeepTheirPlace
  /\ \A p \in Posts : pc[p] = "start" => offset[p] = 0
  /\ \A p \in Posts :
       pc[p] = "write" /\ overlap[p] \cap Posts = {} =>
         /\ Len(file) = offset[p]
         /\ \A i \in 1 .. Len(file) : file[i] = <<p, i>>

\* Overlaps are not forgotten.
LEMMA OverlappedStays ==
  Types /\ Meeting /\ [Next]_vars /\ Overlapped => Overlapped'
<1> SUFFICES ASSUME Types, Meeting, [Next]_vars, NEW p \in Posts,
                    overlap[p] \cap Posts # {}
             PROVE  Overlapped'
  BY DEF Overlapped
<1>1. overlap[p] \subseteq overlap'[p]
  BY OverlapGrows DEF Requests
<1> QED
  BY <1>1 DEF Overlapped

\* Part of Places that no step but OpenWrite and Write touches.
LEMMA PlacesKept ==
  ASSUME Types, Meeting, Places, [Next]_vars, UNCHANGED <<file, offset>>,
         \A p \in Posts : pc'[p] \in {"start", "write"} => pc'[p] = pc[p]
  PROVE  Places'
<1>1. Overlapped => Overlapped'
  BY OverlappedStays
<1>2. \A r \in Requests : overlap[r] \subseteq overlap'[r]
  BY OverlapGrows
<1>3. BytesKeepTheirPlace'
  BY <1>1 DEF Places, BytesKeepTheirPlace, Overlapped
<1> QED
  BY <1>2, <1>3 DEF Places, Requests

\* Places is inductive.
LEMMA PlacesStep ==
  Types /\ Meeting /\ Present /\ Places /\ [Next]_vars => Places'
<1> SUFFICES ASSUME Types, Meeting, Present, Places, [Next]_vars PROVE Places'
  OBVIOUS
<1> USE DEF vars, history, Requests
<1>0. /\ Overlapped => Overlapped'
      /\ \A r \in Requests : overlap[r] \subseteq overlap'[r]
      /\ Gets \cap Posts = {}
  BY OverlappedStays, OverlapGrows, FilesAssumption
<1>1. ASSUME NEW p \in Posts, OpenWrite(p) PROVE Places'
  <2>1. file' = <<>> /\ offset' = offset /\ pc' = [pc EXCEPT ![p] = "write"]
        /\ offset[p] = 0 /\ pc[p] = "start"
    BY <1>1 DEF OpenWrite, Opened, Places
  <2>2. BytesKeepTheirPlace'
    BY <2>1 DEF BytesKeepTheirPlace
  <2>3. \A q \in Posts : pc'[q] = "write" /\ overlap'[q] \cap Posts = {} => q = p
    <3>1. \A q \in UnderWay : p \in overlap'[q]
      BY <1>1 DEF OpenWrite, Began, UnderWay
    <3> QED
      BY <2>1, <3>1 DEF UnderWay, Types
  <2> QED
    BY <2>1, <2>2, <2>3 DEF Places, Types
<1>2. ASSUME NEW p \in Posts, Write(p) PROVE Places'
  <2>1. file # NULL /\ pc[p] = "write" /\ pc' = pc /\ overlap' = overlap
    BY <1>2 DEF Present, UnderWay, Write
  <2>2. /\ file \in Seq(Cell) /\ file' \in Seq(Cell)
        /\ offset' = [offset EXCEPT ![p] = offset'[p]]
        /\ offset[p] \in Nat /\ offset'[p] \in Nat /\ offset[p] < offset'[p]
        /\ Len(file') = IF Len(file) <= offset'[p] THEN offset'[p] ELSE Len(file)
        /\ \A i \in 1 .. Len(file') :
             file'[i] = IF offset[p] < i /\ i <= offset'[p] THEN <<p, i>>
                        ELSE IF i <= Len(file) THEN file[i] ELSE Hole
    BY <1>2, <2>1, WriteIs
  <2>3. /\ Len(file) \in Nat /\ Len(file') \in Nat
        /\ DOMAIN file = 1 .. Len(file) /\ DOMAIN file' = 1 .. Len(file')
    BY <2>2, LenProperties
  <2>4. \A q \in Posts : q # p /\ pc[q] = "write" => overlap[q] \cap Posts # {}
    BY <2>1 DEF Meeting, UnderWay
  <2>5. ASSUME overlap[p] \cap Posts = {}
        PROVE  /\ Len(file') = offset'[p]
               /\ \A i \in 1 .. Len(file') : file'[i] = <<p, i>>
    <3>1. /\ Len(file) = offset[p]
          /\ \A i \in 1 .. Len(file) : file[i] = <<p, i>>
      BY <2>1, <2>5 DEF Places
    <3>2. Len(file') = offset'[p]
      BY <2>2, <3>1
    <3>3. \A i \in 1 .. Len(file') : \/ offset[p] < i /\ i <= offset'[p]
                                     \/ i \in 1 .. Len(file)
      BY <2>2, <2>3, <3>1, <3>2
    <3>4. ASSUME NEW i \in 1 .. Len(file') PROVE file'[i] = <<p, i>>
      <4>1. CASE offset[p] < i /\ i <= offset'[p]
        BY <2>2, <4>1
      <4>2. CASE ~(offset[p] < i /\ i <= offset'[p])
        <5>1. i \in 1 .. Len(file) /\ i <= Len(file)
          BY <2>3, <3>3, <4>2
        <5> QED
          BY <2>2, <3>1, <4>2, <5>1
      <4> QED
        BY <4>1, <4>2
    <3> QED
      BY <3>2, <3>4
  <2>6. BytesKeepTheirPlace'
    <3> SUFFICES ASSUME NEW i \in DOMAIN file'
                 PROVE  IF file'[i] = Hole THEN Overlapped' ELSE file'[i][2] = i
      BY DEF BytesKeepTheirPlace, Overlapped
    <3>1. i \in Nat /\ i \in 1 .. Len(file')
      BY <2>3
    <3>2. CASE offset[p] < i /\ i <= offset'[p]
      <4>1. file'[i] = <<p, i>> /\ <<p, i>> \in Byte
        BY <2>2, <3>1, <3>2 DEF Byte
      <4>2. file'[i] # Hole
        BY <4>1, FilesAssumption
      <4>3. file'[i][2] = i
        BY <4>1
      <4> QED
        BY <4>2, <4>3
    <3>3. CASE ~(offset[p] < i /\ i <= offset'[p]) /\ i <= Len(file)
      <4>0. i \in 1 .. Len(file) /\ i \in DOMAIN file
        BY <2>3, <3>1, <3>3
      <4>1. file'[i] = file[i] /\ i \in DOMAIN file
        BY <2>2, <3>1, <3>3, <4>0
      <4>2. IF file[i] = Hole THEN Overlapped ELSE file[i][2] = i
        BY <2>1, <4>1 DEF Places, BytesKeepTheirPlace, Overlapped
      <4> QED
        BY <1>0, <4>1, <4>2
    <3>4. CASE ~(offset[p] < i /\ i <= offset'[p]) /\ ~(i <= Len(file))
      <4>1. Len(file) # offset[p]
        BY <2>2, <2>3, <3>1, <3>4
      <4>2. overlap[p] \cap Posts # {}
        BY <2>1, <4>1 DEF Places
      <4>3. Overlapped'
        BY <1>0, <4>2 DEF Overlapped
      <4>4. file'[i] = Hole
        BY <2>2, <3>1, <3>4
      <4> QED
        BY <4>3, <4>4
    <3> QED
      BY <3>2, <3>3, <3>4
  <2>7. \A q \in Posts : pc'[q] = "start" => offset'[q] = 0
    BY <2>1, <2>2 DEF Places, Types
  <2>8. \A q \in Posts : pc'[q] = "write" /\ overlap'[q] \cap Posts = {} => q = p
    BY <2>1, <2>4
  <2> QED
    BY <2>1, <2>5, <2>6, <2>7, <2>8 DEF Places
<1>3. ASSUME NEW p \in Posts, OpenWriteFails(p) \/ CloseWritten(p) PROVE Places'
  BY <1>3, PlacesKept DEF OpenWriteFails, CloseWritten, Answer, Types
<1>4. ASSUME NEW g \in Gets,
             OpenRead(g) \/ NotFound(g) \/ TakeLength(g) \/ Read(g)
               \/ FinishRead(g) \/ ReadFault(g)
      PROVE  Places'
  BY <1>0, <1>4, PlacesKept
     DEF OpenRead, NotFound, TakeLength, Read, FinishRead, ReadFault, Answer, Types
<1>5. CASE UNCHANGED vars
  BY <1>5, PlacesKept
<1> QED
  BY <1>1, <1>2, <1>3, <1>4, <1>5 DEF Next

-----------------------------------------------------------------------------
(* What a GET reads.                                                       *)

\* What JunkNeedsATruncation needs: unless it was truncated since, the file is still
\* as long as ftell said; a hole that was read was in the file.
Reading ==
  \A g \in Gets :
    /\ pc[g] \in {"start", "size"} => got[g] = <<>>
    /\ pc[g] = "read" => Len(got[g]) <= length[g]
    /\ pc[g] = "read" /\ g \notin cut => length[g] <= Len(file)
    /\ \A i \in 1 .. Len(got[g]) : got[g][i] = Hole => Overlapped

\* A text is what comes before the first zero byte: everything if there is none.
LEMMA TextIs ==
  ASSUME NEW s \in Seq(Cell)
  PROVE  /\ Len(Text(s)) \in Nat
         /\ \A i \in 1 .. Len(s) :
              (\A j \in 1 .. i : s[j] \notin Zeros \cup {Hole}) =>
                i <= Len(Text(s)) /\ Text(s)[i] = s[i]
<1> DEFINE zeros == {i \in DOMAIN s : s[i] \in Zeros \cup {Hole}}
           m == Min(zeros)
           n == Len(s)
<1>1. n \in Nat /\ DOMAIN s = 1 .. n /\ \A i \in 1 .. n : s[i] \in Cell
  BY LenProperties, ElementOfSeq
<1>2. CASE zeros = {}
  <2>1. Text(s) = s
    BY <1>2 DEF Text
  <2> QED
    BY <1>1, <2>1
<1>3. CASE zeros # {}
  <2>1. m \in zeros
    <3>1. zeros \in SUBSET (1 .. n)
      BY <1>1
    <3> HIDE DEF zeros, n
    <3> QED
      BY <1>1, <1>3, <3>1, FirstPosition
  <2>2. m \in 1 .. n /\ s[m] \in Zeros \cup {Hole}
    BY <1>1, <2>1
  <2>3. Text(s) = SubSeq(s, 1, m - 1)
    BY <1>3 DEF Text
  <2> HIDE DEF m, n, zeros
  <2> DEFINE k == m - 1
  <2>4. k \in Nat /\ k <= n /\ m = k + 1
    BY <1>1, <2>2
  <2>5. /\ Len(SubSeq(s, 1, k)) = k
        /\ \A i \in 1 .. k : SubSeq(s, 1, k)[i] = s[i]
    <3> HIDE DEF k
    <3>1. \A i \in 1 .. k : s[i] \in Cell
      BY <1>1, <2>4
    <3>2. /\ Len(SubSeq(s, 1, k)) = IF 1 <= k THEN k - 1 + 1 ELSE 0
          /\ \A i \in 1 .. k - 1 + 1 : SubSeq(s, 1, k)[i] = s[1 + i - 1]
      BY <2>4, <3>1, SubSeqProperties
    <3> QED
      BY <2>4, <3>2
  <2>6. ASSUME NEW i \in 1 .. n, \A j \in 1 .. i : s[j] \notin Zeros \cup {Hole}
        PROVE  i \in 1 .. k
    BY <1>1, <2>2, <2>4, <2>6
  <2> HIDE DEF k
  <2>7. Text(s) = SubSeq(s, 1, k)
    BY <2>3 DEF k
  <2> QED
    BY <2>4, <2>5, <2>6, <2>7 DEF n
<1> QED
  BY <1>2, <1>3

\* When fread is done, nobody truncated the file and nobody left a gap in it, it has
\* read as much as ftell said, and all of it is text unless it has a zero byte.
LEMMA ReadToTheEnd ==
  ASSUME Types, Present, Reading, NEW g \in Gets, pc[g] = "read", Part(g) = <<>>,
         g \notin cut, ~Overlapped, \A i \in DOMAIN got[g] : got[g][i] \notin Zeros
  PROVE  Text(got[g]) = got[g] /\ Len(got[g]) = length[g]
<1>1. file \in Seq(Cell)
  BY DEF Types, Present, UnderWay, Requests
<1>2. /\ got[g] \in Seq(Cell) /\ Len(got[g]) \in Nat /\ length[g] \in Nat
      /\ Len(file) \in Nat /\ DOMAIN got[g] = 1 .. Len(got[g])
  BY <1>1, LenProperties DEF Types
<1>3. Len(file) <= Len(got[g]) \/ length[g] <= Len(got[g])
  BY <1>1, <1>2, PartIs
<1>4. Len(got[g]) = length[g]
  BY <1>2, <1>3 DEF Reading
<1>5. {i \in DOMAIN got[g] : got[g][i] \in Zeros \cup {Hole}} = {}
  BY <1>2 DEF Reading
<1> QED
  BY <1>4, <1>5 DEF Text

\* A GET that has read all of a text sends it as it is.
LEMMA WholeText ==
  ASSUME Types, NEW g \in Gets, FinishRead(g),
         Text(got[g]) = got[g], Len(got[g]) = length[g]
  PROVE  answer' = [answer EXCEPT ![g] = [status |-> 200, body |-> got[g]]]
<1>1. /\ got[g] \in Seq(Cell) /\ length[g] \in Nat
      /\ got[g] = [i \in 1 .. length[g] |-> got[g][i]]
  BY LenProperties DEF Types
<1>2. [i \in 1 .. length[g] |-> IF i <= Len(got[g]) THEN got[g][i]
                                ELSE IF i = Len(got[g]) + 1 THEN Hole ELSE Junk]
      = [i \in 1 .. length[g] |-> got[g][i]]
  BY <1>1
<1> QED
  BY <1>1, <1>2 DEF FinishRead, Answer

\* Part of Reading that holds while the file grows or stays.
LEMMA ReadingKept ==
  ASSUME Types, Meeting, Present, Reading, [Next]_vars,
         UNCHANGED <<got, length>>, cut \subseteq cut',
         \A g \in Gets : /\ pc'[g] \in {"start", "size"} => pc[g] \in {"start", "size"}
                         /\ pc'[g] = "read" => pc[g] = "read",
         \A g \in Gets : pc'[g] = "read" /\ g \notin cut' => Len(file) <= Len(file')
  PROVE  Reading'
<1>1. Overlapped => Overlapped'
  BY OverlappedStays
<1>2. ASSUME NEW g \in Gets, pc'[g] = "read", g \notin cut'
      PROVE  length'[g] <= Len(file')
  <2>1. pc[g] = "read" /\ g \notin cut /\ Len(file) <= Len(file')
    BY <1>2
  <2>2. file \in Seq(Cell) /\ length[g] \in Nat /\ length[g] <= Len(file)
    BY <2>1 DEF Types, Present, UnderWay, Requests, Reading
  <2>3. file' \in Seq(Cell)
    BY <1>2, TypesStep, PresentStep DEF Types, Present, UnderWay, Requests
  <2> QED
    BY <2>1, <2>2, <2>3, LenProperties
<1> QED
  BY <1>1, <1>2 DEF Reading

\* Reading is inductive.
LEMMA ReadingStep ==
  Types /\ Meeting /\ Present /\ Places /\ Reading /\ [Next]_vars => Reading'
<1> SUFFICES ASSUME Types, Meeting, Present, Places, Reading, [Next]_vars
             PROVE  Reading'
  OBVIOUS
<1> USE DEF vars, history, Requests
<1>0. Gets \cap Posts = {}
  BY FilesAssumption
<1>1. ASSUME NEW p \in Posts, OpenWrite(p) PROVE Reading'
  <2>1. /\ UNCHANGED <<got, length>> /\ pc' = [pc EXCEPT ![p] = "write"]
        /\ cut' = cut \cup {g \in Gets : pc[g] = "read"}
    BY <1>1 DEF OpenWrite
  <2>2. \A g \in Gets : pc'[g] = pc[g]
    BY <1>0, <2>1 DEF Types
  <2> QED
    BY <2>1, <2>2, ReadingKept
<1>2. ASSUME NEW p \in Posts, Write(p) PROVE Reading'
  <2>1. UNCHANGED <<got, length, pc, cut>> /\ file # NULL
    BY <1>2 DEF Write, Present, UnderWay
  <2>2. /\ file \in Seq(Cell) /\ file' \in Seq(Cell)
        /\ Len(file') = IF Len(file) <= offset'[p] THEN offset'[p] ELSE Len(file)
    BY <1>2, <2>1, WriteIs
  <2>3. Len(file) <= Len(file')
    BY <2>2, LenProperties
  <2> QED
    BY <2>1, <2>3, ReadingKept
<1>3. ASSUME NEW p \in Posts, OpenWriteFails(p) \/ CloseWritten(p) PROVE Reading'
  <2>1. /\ UNCHANGED <<got, length, file, cut>>
        /\ \A g \in Gets : pc'[g] = pc[g]
    BY <1>0, <1>3 DEF OpenWriteFails, CloseWritten, Answer, Types
  <2>2. \A g \in Gets : pc[g] = "read" => Len(file) \in Nat
    BY LenProperties DEF Types, Present, UnderWay
  <2> QED
    BY <2>1, <2>2, ReadingKept
<1>4. ASSUME NEW g \in Gets,
             OpenRead(g) \/ NotFound(g) \/ FinishRead(g) \/ ReadFault(g)
      PROVE  Reading'
  <2>1. /\ UNCHANGED <<got, length, file, cut>>
        /\ pc[g] \in {"start", "read"}
        /\ \E v \in {"size", "done", "killed"} :
             (v = "size" => pc[g] = "start") /\ pc' = [pc EXCEPT ![g] = v]
    BY <1>4 DEF OpenRead, NotFound, FinishRead, ReadFault, Answer
  <2>2. \A h \in Gets : pc[h] = "read" => Len(file) \in Nat
    BY LenProperties DEF Types, Present, UnderWay
  <2>3. \A h \in Gets : /\ pc'[h] \in {"start", "size"} => pc[h] \in {"start", "size"}
                        /\ pc'[h] = "read" => pc[h] = "read"
    BY <2>1 DEF Types
  <2>4. \A h \in Gets : pc'[h] = "read" /\ h \notin cut' => Len(file) <= Len(file')
    BY <2>1, <2>2, <2>3
  <2> QED
    BY <2>1, <2>3, <2>4, ReadingKept
<1>5. ASSUME NEW g \in Gets, TakeLength(g) PROVE Reading'
  <2>1. /\ UNCHANGED <<file, got, cut, overlap>> /\ pc[g] = "size"
        /\ length' = [length EXCEPT ![g] = Len(file)]
        /\ pc' = [pc EXCEPT ![g] = "read"]
    BY <1>5 DEF TakeLength, LengthOf
  <2>2. got[g] = <<>> /\ Len(got[g]) = 0 /\ Len(file) \in Nat
    BY <2>1, LenProperties DEF Reading, Types, Present, UnderWay
  <2>3. Overlapped' <=> Overlapped
    BY <2>1 DEF Overlapped
  <2> QED
    BY <2>1, <2>2, <2>3 DEF Reading, Types
<1>6. ASSUME NEW g \in Gets, Read(g) PROVE Reading'
  <2>1. /\ UNCHANGED <<file, pc, length, cut, overlap>> /\ pc[g] = "read"
        /\ got' = [got EXCEPT ![g] = got[g] \o Part(g)] /\ Part(g) # <<>>
        /\ file \in Seq(Cell) /\ file # NULL
    BY <1>6 DEF Read, Present, UnderWay, Types
  <2>2. /\ Part(g) \in Seq(Cell)
        /\ \A j \in 1 .. Len(Part(g)) : /\ Len(got[g]) + j \in 1 .. Len(file)
                                        /\ Part(g)[j] = file[Len(got[g]) + j]
        /\ Len(got[g]) + Len(Part(g)) <= length[g]
    BY <2>1, PartIs DEF Types
  <2>3. /\ got[g] \in Seq(Cell) /\ Len(got[g]) \in Nat /\ Len(Part(g)) \in Nat
        /\ Len(got[g] \o Part(g)) = Len(got[g]) + Len(Part(g))
        /\ \A i \in 1 .. Len(got[g]) + Len(Part(g)) :
             (got[g] \o Part(g))[i] = IF i <= Len(got[g]) THEN got[g][i]
                                      ELSE Part(g)[i - Len(got[g])]
    BY <2>2, LenProperties, ConcatProperties DEF Types
  <2>4. \A j \in 1 .. Len(Part(g)) : Part(g)[j] = Hole => Overlapped
    <3>1. \A i \in 1 .. Len(file) : file[i] = Hole => Overlapped
      BY <2>1, LenProperties DEF Places, BytesKeepTheirPlace, Overlapped
    <3> QED
      BY <2>2, <3>1
  <2>5. ASSUME NEW i \in 1 .. Len(got[g] \o Part(g)), (got[g] \o Part(g))[i] = Hole
        PROVE  Overlapped
    <3>1. CASE i <= Len(got[g])
      <4>1. i \in 1 .. Len(got[g]) /\ got[g][i] = Hole
        BY <2>3, <2>5, <3>1
      <4> QED
        BY <4>1 DEF Reading
    <3>2. CASE ~(i <= Len(got[g]))
      <4>1. i - Len(got[g]) \in 1 .. Len(Part(g))
        BY <2>3, <3>2
      <4>2. Part(g)[i - Len(got[g])] = Hole
        BY <2>3, <2>5, <3>2
      <4> QED
        BY <2>4, <4>1, <4>2
    <3> QED
      BY <3>1, <3>2
  <2>6. Overlapped' <=> Overlapped
    BY <2>1 DEF Overlapped
  <2> QED
    BY <2>1, <2>2, <2>3, <2>5, <2>6 DEF Reading, Types
<1>7. CASE UNCHANGED vars
  <2>1. \A g \in Gets : pc[g] = "read" => Len(file) \in Nat
    BY LenProperties DEF Types, Present, UnderWay
  <2> QED
    BY <1>7, <2>1, ReadingKept
<1> QED
  BY <1>1, <1>2, <1>3, <1>4, <1>5, <1>6, <1>7 DEF Next

\* Part of JunkNeedsATruncation for the answers a step leaves alone.
LEMMA JunkKept ==
  ASSUME Types, Meeting, JunkNeedsATruncation, [Next]_vars, cut \subseteq cut',
         \A g \in Gets :
           \/ pc'[g] \notin {"done", "killed"}
           \/ pc'[g] = pc[g] /\ answer'[g] = answer[g] /\ got'[g] = got[g]
           \/ pc'[g] = "done" /\ answer'[g].status # 200
  PROVE  JunkNeedsATruncation'
<1>1. Overlapped => Overlapped'
  BY OverlappedStays
<1> QED
  BY <1>1 DEF JunkNeedsATruncation, Overlapped

\* A GET that reads past its copy has read a zero byte, or has found the file
\* truncated or with a gap.
LEMMA JunkStep ==
  Types /\ Meeting /\ Present /\ Reading /\ JunkNeedsATruncation /\ [Next]_vars
    => JunkNeedsATruncation'
<1> SUFFICES ASSUME Types, Meeting, Present, Reading, JunkNeedsATruncation,
                    [Next]_vars
             PROVE  JunkNeedsATruncation'
  OBVIOUS
<1> USE DEF vars, history, Requests
<1>0. Gets \cap Posts = {}
  BY FilesAssumption
<1>1. ASSUME NEW p \in Posts,
             OpenWrite(p) \/ OpenWriteFails(p) \/ Write(p) \/ CloseWritten(p)
      PROVE  JunkNeedsATruncation'
  <2>0. got' = got
    BY <1>1 DEF OpenWrite, OpenWriteFails, Write, CloseWritten
  <2>1. \A g \in Gets : pc'[g] = pc[g] /\ answer'[g] = answer[g]
    <3>1. CASE OpenWrite(p) \/ Write(p)
      BY <1>0, <3>1 DEF OpenWrite, Write, Types
    <3>2. CASE OpenWriteFails(p) \/ CloseWritten(p)
      <4>1. \E a : answer' = [answer EXCEPT ![p] = a]
        BY <3>2 DEF OpenWriteFails, CloseWritten, Answer
      <4>2. pc' = [pc EXCEPT ![p] = "done"]
        BY <3>2 DEF OpenWriteFails, CloseWritten, Answer
      <4> QED
        BY <1>0, <4>1, <4>2 DEF Types
    <3> QED
      BY <1>1, <3>1, <3>2
  <2>2. cut \subseteq cut'
    BY <1>1 DEF OpenWrite, OpenWriteFails, Write, CloseWritten
  <2> QED
    BY <2>0, <2>1, <2>2, JunkKept
<1>2. ASSUME NEW g \in Gets, OpenRead(g) \/ TakeLength(g) \/ Read(g)
      PROVE  JunkNeedsATruncation'
  BY <1>2, JunkKept DEF OpenRead, TakeLength, Read, Types
<1>3. ASSUME NEW g \in Gets, NotFound(g) PROVE JunkNeedsATruncation'
  BY <1>3, JunkKept DEF NotFound, Answer, Types
<1>4. ASSUME NEW g \in Gets, FinishRead(g) PROVE JunkNeedsATruncation'
  <2>1. /\ cut' = cut /\ overlap' = overlap /\ pc[g] = "read" /\ Part(g) = <<>>
        /\ pc' = [pc EXCEPT ![g] = "done"] /\ got' = got
        /\ \A h \in Gets \ {g} : answer'[h] = answer[h]
    BY <1>4 DEF FinishRead, Answer, Types
  <2>2. ASSUME g \notin cut, ~Overlapped, \A i \in DOMAIN got[g] : got[g][i] \notin Zeros
        PROVE  Junk \notin {answer'[g].body[i] : i \in DOMAIN answer'[g].body}
    <3>1. answer' = [answer EXCEPT ![g] = [status |-> 200, body |-> got[g]]]
      BY <1>4, <2>1, <2>2, ReadToTheEnd, WholeText
    <3>2. answer'[g].body = got[g]
      BY <3>1 DEF Types
    <3>3. \A i \in DOMAIN got[g] : got[g][i] \in Cell
      BY LenProperties DEF Types
    <3>4. Junk \notin Cell
      BY FilesAssumption DEF Cell
    <3> QED
      BY <3>2, <3>3, <3>4
  <2>3. \A h \in Gets \ {g} : pc'[h] = pc[h]
    BY <2>1 DEF Types
  <2>4. pc'[g] # "killed"
    BY <2>1 DEF Types
  <2>5. ASSUME NEW h \in Gets,
               \/ pc'[h] = "killed"
               \/ /\ pc'[h] = "done" /\ answer'[h].status = 200
                  /\ Junk \in {answer'[h].body[i] : i \in DOMAIN answer'[h].body}
        PROVE  \/ \E i \in DOMAIN got'[h] : got'[h][i] \in Zeros
               \/ h \in cut' \/ \E p \in Posts : overlap'[p] \cap Posts # {}
    <3>1. CASE h = g
      BY <2>1, <2>2, <2>4, <2>5, <3>1 DEF Overlapped
    <3>2. CASE h # g
      <4>1. pc'[h] = pc[h] /\ answer'[h] = answer[h] /\ got'[h] = got[h]
        BY <2>1, <2>3, <3>2
      <4>2. \/ pc[h] = "killed"
            \/ /\ pc[h] = "done" /\ answer[h].status = 200
               /\ Junk \in {answer[h].body[i] : i \in DOMAIN answer[h].body}
        BY <2>5, <4>1
      <4>3. \/ \E i \in DOMAIN got[h] : got[h][i] \in Zeros
            \/ h \in cut \/ \E p \in Posts : overlap[p] \cap Posts # {}
        BY <4>2, Zenon DEF JunkNeedsATruncation
      <4> QED
        BY <2>1, <4>1, <4>3
    <3> QED
      BY <3>1, <3>2
  <2> QED
    BY <2>5 DEF JunkNeedsATruncation
<1>5. ASSUME NEW g \in Gets, ReadFault(g) PROVE JunkNeedsATruncation'
  <2>1. /\ cut' = cut /\ overlap' = overlap /\ pc[g] = "read" /\ Part(g) = <<>>
        /\ pc' = [pc EXCEPT ![g] = "killed"] /\ answer' = answer /\ got' = got
        /\ Len(Text(got[g])) < length[g]
    BY <1>5 DEF ReadFault
  <2>2. g \in cut \/ Overlapped \/ \E i \in DOMAIN got[g] : got[g][i] \in Zeros
    <3> SUFFICES ASSUME g \notin cut, ~Overlapped,
                        \A i \in DOMAIN got[g] : got[g][i] \notin Zeros
                 PROVE  FALSE
      OBVIOUS
    <3>1. Text(got[g]) = got[g] /\ Len(got[g]) = length[g] /\ length[g] \in Nat
      BY <2>1, ReadToTheEnd DEF Types
    <3> QED
      BY <2>1, <3>1
  <2>3. \/ g \in cut' \/ \E p \in Posts : overlap'[p] \cap Posts # {}
        \/ \E i \in DOMAIN got'[g] : got'[g][i] \in Zeros
    BY <2>1, <2>2 DEF Overlapped
  <2>4. \A h \in Gets \ {g} : pc'[h] = pc[h]
    BY <2>1 DEF Types
  <2> QED
    BY <2>1, <2>3, <2>4 DEF JunkNeedsATruncation
<1>6. CASE UNCHANGED vars
  BY <1>6, JunkKept
<1> QED
  BY <1>1, <1>2, <1>3, <1>4, <1>5, <1>6 DEF Next

-----------------------------------------------------------------------------
(* The file as a register.                                                 *)

\* What QuietGetIsExact needs: while nobody writes, the file is what the POST that
\* was done last stored, if that one was not disturbed; and a GET that no POST
\* overlaps sees that file from its fopen to its last fread.
Quiet ==
  /\ last \in Posts => pc[last] = "done"
  /\ \A r \in Requests : before[r] \in Posts => pc[before[r]] = "done"
  /\ UnderWay \cap Posts = {} /\ Stored(last) =>
       file = IF last = NULL THEN NULL ELSE Body(last)
  /\ \A g \in Gets : pc[g] \in {"size", "read"} /\ overlap[g] \cap Posts = {} =>
       before[g] = last
  /\ \A g \in Gets : pc[g] = "read" /\ overlap[g] \cap Posts = {} =>
       length[g] = Len(file) /\ \A i \in 1 .. Len(got[g]) : got[g][i] = file[i]

\* Whether a POST that is done was disturbed does not change any more.
LEMMA StoredStays ==
  ASSUME Types, Meeting, [Next]_vars, NEW p, p \in Posts => pc[p] = "done"
  PROVE  Stored(p)' <=> Stored(p)
<1>1. CASE p \in Posts
  <2>1. offset'[p] = offset[p] /\ overlap'[p] = overlap[p]
    BY <1>1, OverlapGrows DEF Requests
  <2> QED
    BY <2>1 DEF Stored
<1>2. CASE p \notin Posts
  BY <1>2 DEF Stored
<1> QED
  BY <1>1, <1>2

\* While a GET is under way that no POST overlaps, no POST is.
LEMMA NobodyWrites ==
  ASSUME Types, Meeting, NEW g \in Gets, pc[g] \in {"size", "read"},
         overlap[g] \cap Posts = {}
  PROVE  UnderWay \cap Posts = {}
<1>1. g \in UnderWay /\ g \notin Posts
  BY FilesAssumption DEF UnderWay, Requests
<1> QED
  BY <1>1 DEF Meeting

\* Part of Quiet while nobody writes and what a GET has read stays as it is.
LEMMA QuietKept ==
  ASSUME Types, Meeting, Quiet, [Next]_vars, UNCHANGED <<file, last, before>>,
         UnderWay' \cap Posts = UnderWay \cap Posts,
         \A g \in Gets : /\ pc'[g] \in {"size", "read"} => pc[g] \in {"size", "read"}
                         /\ pc'[g] = "read" /\ overlap'[g] \cap Posts = {} =>
                              /\ length'[g] = Len(file)
                              /\ \A i \in 1 .. Len(got'[g]) : got'[g][i] = file[i]
  PROVE  Quiet'
<1>1. /\ \A r \in Requests : overlap[r] \subseteq overlap'[r]
      /\ \A r \in Requests : pc[r] = "done" => pc'[r] = "done"
  BY OverlapGrows
<1>2. Stored(last)' <=> Stored(last)
  <2>1. last \in Posts => pc[last] = "done"
    BY DEF Quiet
  <2> QED
    BY <2>1, StoredStays DEF Stored
<1>3. last' \in Posts => pc'[last'] = "done"
  BY <1>1 DEF Quiet, Requests
<1>4. \A r \in Requests : before'[r] \in Posts => pc'[before'[r]] = "done"
  BY <1>1 DEF Quiet, Requests
<1>5. UnderWay' \cap Posts = {} /\ Stored(last)' =>
        file' = IF last' = NULL THEN NULL ELSE Body(last)'
  BY <1>2 DEF Quiet, Body
<1>6. \A g \in Gets : pc'[g] \in {"size", "read"} /\ overlap'[g] \cap Posts = {} =>
        before'[g] = last'
  BY <1>1 DEF Quiet, Requests
<1>7. \A g \in Gets : pc'[g] = "read" /\ overlap'[g] \cap Posts = {} =>
        length'[g] = Len(file') /\ \A i \in 1 .. Len(got'[g]) : got'[g][i] = file'[i]
  OBVIOUS
<1> QED
  BY <1>3, <1>4, <1>5, <1>6, <1>7 DEF Quiet

\* Quiet is inductive.
LEMMA QuietStep ==
  Types /\ Meeting /\ Present /\ Places /\ Reading /\ Quiet /\ [Next]_vars => Quiet'
<1> SUFFICES ASSUME Types, Meeting, Present, Places, Reading, Quiet, [Next]_vars
             PROVE  Quiet'
  OBVIOUS
<1> USE DEF vars, history, Requests
<1>0. /\ \A r \in Requests : overlap[r] \subseteq overlap'[r]
      /\ \A r \in Requests : pc[r] = "done" => pc'[r] = "done"
      /\ Gets \cap Posts = {}
  BY OverlapGrows, FilesAssumption
<1>1. ASSUME NEW p \in Posts, OpenWrite(p) PROVE Quiet'
  <2>1. /\ pc[p] = "start" /\ pc' = [pc EXCEPT ![p] = "write"] /\ last' = last
        /\ before' = [before EXCEPT ![p] = last]
        /\ \A q \in UnderWay : p \in overlap'[q]
    BY <1>1 DEF OpenWrite, Began, UnderWay
  <2>2. \A g \in Gets : pc'[g] \in {"size", "read"} => overlap'[g] \cap Posts # {}
    BY <1>0, <2>1 DEF UnderWay, Types
  <2>3. p \in UnderWay'
    BY <2>1 DEF UnderWay, Types
  <2>4. /\ last' \in Posts => pc'[last'] = "done"
        /\ \A r \in Requests : before'[r] \in Posts => pc'[before'[r]] = "done"
    BY <1>0, <2>1 DEF Quiet, Types
  <2> QED
    BY <2>2, <2>3, <2>4 DEF Quiet
<1>2. ASSUME NEW p \in Posts, OpenWriteFails(p) PROVE Quiet'
  <2>1. /\ pc[p] = "start" /\ pc' = [pc EXCEPT ![p] = "done"]
        /\ UNCHANGED <<file, last, before, overlap, got, length>>
    BY <1>2 DEF OpenWriteFails, Answer
  <2>2. \A g \in Gets : pc'[g] = pc[g]
    BY <1>0, <2>1 DEF Types
  <2>3. UnderWay' = UnderWay
    BY <2>1 DEF UnderWay, Types
  <2> QED
    BY <2>1, <2>2, <2>3, QuietKept DEF Quiet
<1>3. ASSUME NEW p \in Posts, Write(p) PROVE Quiet'
  <2>1. /\ pc[p] = "write" /\ UNCHANGED <<pc, last, before, overlap>>
    BY <1>3 DEF Write
  <2>2. p \in UnderWay /\ p \in UnderWay'
    BY <2>1 DEF UnderWay
  <2>3. \A g \in Gets : pc[g] \in {"size", "read"} => overlap[g] \cap Posts # {}
    BY <2>2, NobodyWrites
  <2> QED
    BY <2>1, <2>2, <2>3 DEF Quiet
<1>4. ASSUME NEW p \in Posts, CloseWritten(p) PROVE Quiet'
  <2>1. /\ pc[p] = "write" /\ pc' = [pc EXCEPT ![p] = "done"] /\ last' = p
        /\ UNCHANGED <<file, offset, before, overlap>>
    BY <1>4 DEF CloseWritten, Answer
  <2>2. p \in UnderWay /\ file # NULL /\ file \in Seq(Cell)
    BY <2>1 DEF UnderWay, Present, Types
  <2>3. \A g \in Gets : pc'[g] \in {"size", "read"} => overlap[g] \cap Posts # {}
    <3>1. \A g \in Gets : pc'[g] = pc[g]
      BY <1>0, <2>1 DEF Types
    <3> QED
      BY <2>2, <3>1, NobodyWrites
  <2>4. pc'[p] = "done" /\ p \notin {Old, NULL}
    BY <2>1, FilesAssumption DEF Types
  <2>5. ASSUME Stored(last)' PROVE file' = Body(p)
    <3>1. offset[p] = Length[p] /\ overlap[p] \cap Posts = {}
      BY <2>1, <2>5 DEF Stored
    <3>2. Len(file) = Length[p] /\ \A i \in 1 .. Len(file) : file[i] = <<p, i>>
      BY <2>1, <3>1 DEF Places
    <3>3. /\ Body(p) \in Seq(Cell) /\ Len(Body(p)) = Length[p]
          /\ \A i \in 1 .. Len(Body(p)) : Body(p)[i] = <<p, i>>
      BY <2>4, BodyIs
    <3>4. file = Body(p)
      BY <2>2, <3>2, <3>3, SeqEqual
    <3> QED
      BY <2>1, <3>4
  <2>6. \A r \in Requests : before'[r] \in Posts => pc'[before'[r]] = "done"
    BY <1>0, <2>1 DEF Quiet
  <2>7. UnderWay' \cap Posts = {} /\ Stored(last)' =>
          file' = IF last' = NULL THEN NULL ELSE Body(last)'
    BY <2>1, <2>4, <2>5 DEF Body
  <2> QED
    BY <2>1, <2>3, <2>4, <2>6, <2>7 DEF Quiet
<1>5. ASSUME NEW g \in Gets, OpenRead(g) PROVE Quiet'
  <2>1. /\ pc[g] = "start" /\ pc' = [pc EXCEPT ![g] = "size"] /\ last' = last
        /\ before' = [before EXCEPT ![g] = last]
        /\ UNCHANGED <<file, got, length, offset>>
    BY <1>5 DEF OpenRead, Began
  <2>2. /\ pc'[g] = "size" /\ before'[g] = last
        /\ \A r \in Requests \ {g} : pc'[r] = pc[r] /\ before'[r] = before[r]
    BY <2>1 DEF Types
  <2>3. UnderWay' \cap Posts = UnderWay \cap Posts
    BY <1>0, <2>2 DEF UnderWay
  <2>4. last \in Posts => pc[last] = "done"
    BY DEF Quiet
  <2>5. Stored(last)' <=> Stored(last)
    BY <2>1, <2>4, StoredStays DEF Stored
  <2>6. UnderWay' \cap Posts = {} /\ Stored(last)' =>
          file' = IF last' = NULL THEN NULL ELSE Body(last)'
    BY <2>1, <2>3, <2>5 DEF Quiet, Body
  <2>7. \A r \in Requests : before'[r] \in Posts => pc'[before'[r]] = "done"
    BY <1>0, <2>2, <2>4 DEF Quiet
  <2>8. \A h \in Gets : pc'[h] \in {"size", "read"} /\ overlap'[h] \cap Posts = {} =>
          before'[h] = last'
    BY <1>0, <2>1, <2>2 DEF Quiet
  <2>9. \A h \in Gets : pc'[h] = "read" /\ overlap'[h] \cap Posts = {} =>
          length'[h] = Len(file') /\ \A i \in 1 .. Len(got'[h]) : got'[h][i] = file'[i]
    BY <1>0, <2>1, <2>2 DEF Quiet
  <2> QED
    BY <1>0, <2>1, <2>4, <2>6, <2>7, <2>8, <2>9 DEF Quiet
<1>6. ASSUME NEW g \in Gets, NotFound(g) PROVE Quiet'
  <2>1. /\ pc[g] = "start" /\ pc' = [pc EXCEPT ![g] = "done"] /\ last' = last
        /\ before' = [before EXCEPT ![g] = last]
        /\ UNCHANGED <<file, got, length, offset>>
    BY <1>6 DEF NotFound, Answer, Began
  <2>2. /\ pc'[g] = "done" /\ before'[g] = last
        /\ \A r \in Requests \ {g} : pc'[r] = pc[r] /\ before'[r] = before[r]
    BY <2>1 DEF Types
  <2>3. UnderWay' \cap Posts = UnderWay \cap Posts
    BY <1>0, <2>2 DEF UnderWay
  <2>4. last \in Posts => pc[last] = "done"
    BY DEF Quiet
  <2>5. Stored(last)' <=> Stored(last)
    BY <2>1, <2>4, StoredStays DEF Stored
  <2>6. UnderWay' \cap Posts = {} /\ Stored(last)' =>
          file' = IF last' = NULL THEN NULL ELSE Body(last)'
    BY <2>1, <2>3, <2>5 DEF Quiet, Body
  <2>7. \A r \in Requests : before'[r] \in Posts => pc'[before'[r]] = "done"
    BY <1>0, <2>2, <2>4 DEF Quiet
  <2>8. \A h \in Gets : pc'[h] \in {"size", "read"} => h # g
    BY <2>2
  <2>9. \A h \in Gets : pc'[h] \in {"size", "read"} /\ overlap'[h] \cap Posts = {} =>
          before'[h] = last'
    BY <1>0, <2>1, <2>2, <2>8 DEF Quiet
  <2>10. \A h \in Gets : pc'[h] = "read" /\ overlap'[h] \cap Posts = {} =>
          length'[h] = Len(file') /\ \A i \in 1 .. Len(got'[h]) : got'[h][i] = file'[i]
    BY <1>0, <2>1, <2>2, <2>8 DEF Quiet
  <2> QED
    BY <1>0, <2>1, <2>4, <2>6, <2>7, <2>9, <2>10 DEF Quiet
<1>7. ASSUME NEW g \in Gets, TakeLength(g) PROVE Quiet'
  <2>1. /\ UNCHANGED <<file, got, overlap, last, before>> /\ pc[g] = "size"
        /\ length' = [length EXCEPT ![g] = Len(file)]
        /\ pc' = [pc EXCEPT ![g] = "read"]
    BY <1>7 DEF TakeLength, LengthOf
  <2>2. got[g] = <<>> /\ 1 .. Len(got[g]) = {} /\ length'[g] = Len(file)
    BY <2>1 DEF Reading, Types
  <2>3. \A h \in Gets \ {g} : pc'[h] = pc[h] /\ length'[h] = length[h]
    BY <2>1 DEF Types
  <2>4. UnderWay' \cap Posts = UnderWay \cap Posts
    BY <1>0, <2>1 DEF UnderWay, Types
  <2>5. \A h \in Gets :
          /\ pc'[h] \in {"size", "read"} => pc[h] \in {"size", "read"}
          /\ pc'[h] = "read" /\ overlap'[h] \cap Posts = {} =>
               /\ length'[h] = Len(file)
               /\ \A i \in 1 .. Len(got'[h]) : got'[h][i] = file[i]
    BY <2>1, <2>2, <2>3 DEF Quiet
  <2> QED
    BY <2>1, <2>4, <2>5, QuietKept
<1>8. ASSUME NEW g \in Gets, Read(g) PROVE Quiet'
  <2>1. /\ UNCHANGED <<file, pc, length, overlap, last, before>> /\ pc[g] = "read"
        /\ got' = [got EXCEPT ![g] = got[g] \o Part(g)]
        /\ file \in Seq(Cell)
    BY <1>8 DEF Read, Present, UnderWay, Types
  <2>2. /\ Part(g) \in Seq(Cell)
        /\ \A j \in 1 .. Len(Part(g)) : Part(g)[j] = file[Len(got[g]) + j]
    BY <2>1, PartIs DEF Types
  <2>3. /\ got[g] \in Seq(Cell) /\ Len(got[g]) \in Nat /\ Len(Part(g)) \in Nat
        /\ Len(got[g] \o Part(g)) = Len(got[g]) + Len(Part(g))
        /\ \A i \in 1 .. Len(got[g]) + Len(Part(g)) :
             (got[g] \o Part(g))[i] = IF i <= Len(got[g]) THEN got[g][i]
                                      ELSE Part(g)[i - Len(got[g])]
    BY <2>2, LenProperties, ConcatProperties DEF Types
  <2>4. ASSUME overlap[g] \cap Posts = {}, NEW i \in 1 .. Len(got[g] \o Part(g))
        PROVE  (got[g] \o Part(g))[i] = file[i]
    <3>1. CASE i <= Len(got[g])
      <4>1. i \in 1 .. Len(got[g]) /\ (got[g] \o Part(g))[i] = got[g][i]
        BY <2>3, <3>1
      <4> QED
        BY <2>1, <2>4, <4>1 DEF Quiet
    <3>2. CASE ~(i <= Len(got[g]))
      <4>1. /\ i - Len(got[g]) \in 1 .. Len(Part(g))
            /\ Len(got[g]) + (i - Len(got[g])) = i
        BY <2>3, <3>2
      <4>2. (got[g] \o Part(g))[i] = Part(g)[i - Len(got[g])]
        BY <2>3, <3>2
      <4> QED
        BY <2>2, <4>1, <4>2
    <3> QED
      BY <3>1, <3>2
  <2>5. /\ got'[g] = got[g] \o Part(g)
        /\ \A h \in Gets \ {g} : got'[h] = got[h]
    BY <2>1 DEF Types
  <2>6. \A h \in Gets :
          /\ pc'[h] \in {"size", "read"} => pc[h] \in {"size", "read"}
          /\ pc'[h] = "read" /\ overlap'[h] \cap Posts = {} =>
               /\ length'[h] = Len(file)
               /\ \A i \in 1 .. Len(got'[h]) : got'[h][i] = file[i]
    BY <2>1, <2>4, <2>5 DEF Quiet
  <2>7. UnderWay' \cap Posts = UnderWay \cap Posts
    BY <2>1 DEF UnderWay
  <2> QED
    BY <2>1, <2>6, <2>7, QuietKept
<1>9. ASSUME NEW g \in Gets, FinishRead(g) \/ ReadFault(g) PROVE Quiet'
  <2>1. /\ UNCHANGED <<file, got, length, overlap, last, before>>
        /\ \E v \in {"done", "killed"} : pc' = [pc EXCEPT ![g] = v]
    BY <1>9 DEF FinishRead, ReadFault, Answer
  <2>2. \A h \in Gets :
          /\ pc'[h] \in {"size", "read"} => pc[h] \in {"size", "read"}
          /\ pc'[h] = "read" => pc[h] = "read"
    BY <2>1 DEF Types
  <2>3. UnderWay' \cap Posts = UnderWay \cap Posts
    BY <1>0, <2>1 DEF UnderWay, Types
  <2> QED
    BY <2>1, <2>2, <2>3, QuietKept DEF Quiet
<1>10. CASE UNCHANGED vars
  BY <1>10, QuietKept DEF UnderWay, Quiet
<1> QED
  BY <1>1, <1>2, <1>3, <1>4, <1>5, <1>6, <1>7, <1>8, <1>9, <1>10 DEF Next

\* Part of QuietGetIsExact for the answers a step leaves alone.
LEMMA ExactKept ==
  ASSUME Types, Meeting, Quiet, QuietGetIsExact, [Next]_vars, NEW g \in Gets,
         pc'[g] = "done" => pc[g] = "done",
         pc'[g] = "done", overlap'[g] \cap Posts = {}, Stored(before[g])'
  PROVE  IF before'[g] = NULL THEN answer'[g] = [status |-> 404, body |-> <<>>]
         ELSE answer'[g].status = 200 /\ Agrees(answer'[g].body, Body(before'[g]))
<1>1. pc[g] = "done" /\ g \in Requests
  BY DEF Requests
<1>2. overlap'[g] = overlap[g] /\ before'[g] = before[g] /\ answer'[g] = answer[g]
  BY <1>1, OverlapGrows
<1>3. before[g] \in Posts => pc[before[g]] = "done"
  BY <1>1 DEF Quiet
<1>4. Stored(before[g])' <=> Stored(before[g])
  BY <1>2, <1>3, StoredStays DEF Stored
<1> QED
  BY <1>1, <1>2, <1>4 DEF QuietGetIsExact

\* A GET that no POST overlaps answers with what was stored before it, as far as
\* it is text.
LEMMA ExactStep ==
  Types /\ Meeting /\ Present /\ Reading /\ Quiet /\ QuietGetIsExact /\ [Next]_vars
    => QuietGetIsExact'
<1> SUFFICES ASSUME Types, Meeting, Present, Reading, Quiet, QuietGetIsExact,
                    [Next]_vars,
                    NEW g \in Gets, pc'[g] = "done", overlap'[g] \cap Posts = {},
                    Stored(before[g])'
             PROVE  IF before'[g] = NULL
                      THEN answer'[g] = [status |-> 404, body |-> <<>>]
                      ELSE /\ answer'[g].status = 200
                           /\ Agrees(answer'[g].body, Body(before'[g]))
  BY DEF QuietGetIsExact, Body, Agrees
<1> USE DEF vars, history, Requests
<1>0. last \in Posts => pc[last] = "done"
  BY DEF Quiet
<1>1. CASE NotFound(g)
  <2>1. /\ file = NULL /\ overlap'[g] = UnderWay /\ before'[g] = last /\ last' = last
        /\ answer'[g] = [status |-> 404, body |-> <<>>]
    BY <1>1 DEF NotFound, Answer, Began, Types
  <2>2. Stored(last)'
    BY <2>1 DEF Stored
  <2>3. Stored(last)
    BY <1>0, <2>1, <2>2, StoredStays DEF Stored
  <2>4. file = IF last = NULL THEN NULL ELSE Body(last)
    BY <2>1, <2>3 DEF Quiet
  <2>5. last # NULL => Body(last) \in Seq(Cell)
    BY BodyIs DEF Types
  <2>6. last = NULL
    BY <2>1, <2>4, <2>5, SeqNotNull
  <2> QED
    BY <2>1, <2>6
<1>2. CASE FinishRead(g)
  <2>1. /\ pc[g] = "read" /\ Part(g) = <<>>
        /\ UNCHANGED <<file, got, length, offset, overlap, before, last>>
    BY <1>2 DEF FinishRead
  <2>2. /\ file # NULL /\ file \in Seq(Cell) /\ before[g] = last
        /\ UnderWay \cap Posts = {}
        /\ length[g] = Len(file) /\ \A i \in 1 .. Len(got[g]) : got[g][i] = file[i]
    BY <2>1, NobodyWrites DEF Quiet, Present, UnderWay, Types
  <2>3. file = Body(last) /\ last # NULL
    BY <2>1, <2>2 DEF Quiet, Stored
  <2>4. /\ got[g] \in Seq(Cell) /\ Len(got[g]) \in Nat /\ Len(file) \in Nat
        /\ DOMAIN got[g] = 1 .. Len(got[g])
    BY <2>2, LenProperties DEF Types
  <2>5. Len(got[g]) = length[g]
    <3>1. Len(file) <= Len(got[g]) \/ length[g] <= Len(got[g])
      BY <2>1, <2>2, <2>4, PartIs DEF Types
    <3>2. Len(got[g]) <= length[g]
      BY <2>1 DEF Reading
    <3> QED
      BY <2>2, <2>4, <3>1, <3>2
  <2>6. got[g] = file
    BY <2>2, <2>4, <2>5, SeqEqual
  <2>7. /\ Len(Text(file)) \in Nat
        /\ \A i \in 1 .. Len(file) :
             (\A j \in 1 .. i : file[j] \notin Zeros) =>
               i <= Len(Text(file)) /\ Text(file)[i] = file[i]
    <3>1. last \in Posts \cup {Old}
      BY <2>3 DEF Types
    <3>2. Hole \notin Byte /\ \A i \in 1 .. Len(file) : file[i] \in Byte
      BY <2>3, <3>1, BodyIs
    <3>3. ASSUME NEW i \in 1 .. Len(file), \A j \in 1 .. i : file[j] \notin Zeros
          PROVE  \A j \in 1 .. i : file[j] \notin Zeros \cup {Hole}
      <4>1. \A j \in 1 .. i : j \in 1 .. Len(file)
        BY <2>4
      <4> QED
        BY <3>2, <3>3, <4>1
    <3> QED
      BY <2>2, <3>3, TextIs
  <2> DEFINE text == Text(file)
             n == Len(file)
             body == [i \in 1 .. n |-> IF i <= Len(text) THEN text[i]
                                       ELSE IF i = Len(text) + 1 THEN Hole ELSE Junk]
  <2>8. answer'[g] = [status |-> 200, body |-> body]
    BY <1>2, <2>2, <2>6 DEF FinishRead, Answer, Types
  <2>9. Agrees(body, file)
    <3>1. Len(body) = n
      BY <2>4
    <3>2. DOMAIN file = 1 .. n
      BY <2>2, LenProperties
    <3> HIDE DEF text
    <3>3. \A i \in 1 .. n : (\A j \in 1 .. i : file[j] \notin Zeros) => body[i] = file[i]
      BY <2>7 DEF text
    <3> QED
      BY <3>1, <3>2, <3>3 DEF Agrees
  <2> HIDE DEF body
  <2>10. answer'[g].status = 200 /\ answer'[g].body = body
    BY <2>8
  <2> QED
    BY <2>1, <2>2, <2>3, <2>9, <2>10
<1>3. CASE ~NotFound(g) /\ ~FinishRead(g)
  <2>0. g \notin Posts /\ pc'[g] = "done"
    BY FilesAssumption
  <2>1. ASSUME NEW p \in Posts,
               OpenWrite(p) \/ OpenWriteFails(p) \/ Write(p) \/ CloseWritten(p)
        PROVE  pc'[g] = pc[g]
    <3>1. \E v : pc' = [pc EXCEPT ![p] = v] \/ pc' = pc
      BY <2>1 DEF OpenWrite, OpenWriteFails, Write, CloseWritten, Answer
    <3> QED
      BY <2>0, <3>1 DEF Types
  <2>2. ASSUME NEW h \in Gets, OpenRead(h) \/ TakeLength(h) \/ Read(h) \/ ReadFault(h)
        PROVE  pc[g] = "done"
    <3>1. \E v \in {"size", "read", "killed"} : pc' = [pc EXCEPT ![h] = v] \/ pc' = pc
      BY <2>2 DEF OpenRead, TakeLength, Read, ReadFault
    <3> QED
      BY <2>0, <3>1 DEF Types
  <2>3. ASSUME NEW h \in Gets, NotFound(h) \/ FinishRead(h)
        PROVE  pc[g] = "done"
    <3>1. h # g /\ pc' = [pc EXCEPT ![h] = "done"]
      BY <1>3, <2>3 DEF NotFound, FinishRead, Answer
    <3> QED
      BY <2>0, <3>1 DEF Types
  <2>4. pc[g] = "done"
    BY <2>0, <2>1, <2>2, <2>3 DEF Next
  <2> QED
    BY <2>4, ExactKept
<1> QED
  BY <1>1, <1>2, <1>3

-----------------------------------------------------------------------------
(* The theorems.                                                           *)

FilesInv ==
  Types /\ Meeting /\ Present /\ Places /\ Reading /\ JunkNeedsATruncation
    /\ Quiet /\ QuietGetIsExact

\* The invariant holds before any request.
LEMMA FilesInit == Init => FilesInv
<1> SUFFICES ASSUME Init PROVE FilesInv
  OBVIOUS
<1> USE DEF Init, Requests
<1>1. UnderWay = {}
  BY DEF UnderWay
<1>2. /\ Body(Old) \in Seq(Cell) /\ Hole \notin Byte
      /\ \A i \in 1 .. Len(Body(Old)) : Body(Old)[i] = <<Old, i>> /\ <<Old, i>> \in Byte
  BY BodyIs
<1>3. Types
  <2>1. <<>> \in Seq(Cell)
    OBVIOUS
  <2>2. file \in Seq(Cell) \cup {NULL} /\ last \in {Old, NULL}
    BY <1>2
  <2>3. offset \in [Posts -> Nat] /\ \A p \in Posts : offset[p] <= Length[p]
    BY FilesAssumption
  <2> QED
    BY <2>1, <2>2, <2>3 DEF Types
<1>4. Meeting /\ Present
  BY <1>1 DEF Meeting, Present
<1>5. Places
  <2>1. BytesKeepTheirPlace
    <3> SUFFICES ASSUME file # NULL, NEW i \in DOMAIN file
                 PROVE  file[i] # Hole /\ file[i][2] = i
      BY DEF BytesKeepTheirPlace
    <3>1. i \in 1 .. Len(Body(Old)) /\ file[i] = Body(Old)[i]
      BY <1>2, LenProperties
    <3>2. file[i] = <<Old, i>> /\ <<Old, i>> \in Byte
      BY <1>2, <3>1
    <3> QED
      BY <1>2, <3>2
  <2> QED
    BY <2>1 DEF Places
<1>6. Reading /\ JunkNeedsATruncation
  BY DEF Reading, JunkNeedsATruncation
<1>7. Quiet /\ QuietGetIsExact
  BY FilesAssumption DEF Quiet, QuietGetIsExact
<1> QED
  BY <1>3, <1>4, <1>5, <1>6, <1>7 DEF FilesInv

\* The invariant holds in every state.
LEMMA FilesInvariant == Spec => []FilesInv
<1>1. FilesInv /\ [Next]_vars => FilesInv'
  BY TypesStep, MeetingStep, PresentStep, PlacesStep, ReadingStep, JunkStep,
     QuietStep, ExactStep
     DEF FilesInv
<1> QED
  BY <1>1, FilesInit, PTL DEF Spec

\* Whatever overlaps, and whatever part of a body reaches the kernel at a time, a byte
\* of the file is that of some posted body at the same place, and a gap is the work
\* of two POSTs.
THEOREM BytesKept == Spec => []BytesKeepTheirPlace
<1>1. FilesInv => BytesKeepTheirPlace
  BY DEF FilesInv, Places
<1> QED
  BY <1>1, FilesInvariant, PTL

\* get_files reads past its copy of a file only if what it read has a zero byte of
\* its own, if a POST truncated the file after its ftell, or if two POSTs left a gap
\* in it.
THEOREM JunkExplained == Spec => []JunkNeedsATruncation
<1>1. FilesInv => JunkNeedsATruncation
  BY DEF FilesInv
<1> QED
  BY <1>1, FilesInvariant, PTL

\* get_files and post_files make of the file a safe register: a GET that no POST
\* overlaps returns, byte for byte, what the POST before it stored; of what has a
\* zero byte, what comes before the first one, in a body of the right length.
THEOREM QuietGetsExact == Spec => []QuietGetIsExact
<1>1. FilesInv => QuietGetIsExact
  BY DEF FilesInv
<1> QED
  BY <1>1, FilesInvariant, PTL

=============================================================================
