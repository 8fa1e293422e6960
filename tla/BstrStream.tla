----------------------------- MODULE BstrStream -----------------------------
(***************************************************************************)
(* The buffered streams of src/src/bstrlib.c: bsopen to bsunread.  The       *)
(* function that reads the source is external: like fread it returns what    *)
(* was asked for, or less before the end; or, like recv, less at any time;    *)
(* or it fails, and may do better the next time.  Allocations succeed; each   *)
(* call of that function is a step.                                         *)
(***************************************************************************)
EXTENDS Integers, SequencesExt

CONSTANTS
  Sources,       \* what the source may hold
  Terminators,   \* the sets of characters a line may end at
  Returned,      \* what may be put back
  Sizes,         \* what maxBuffSz may be set to
  MaxRead,       \* bound on the length asked of bsreada
  MaxRest,       \* bound on what is still to be read
  MaxText        \* bound on the length of r when a call begins

VARIABLES
  source,     \* what the source still holds
  partial,    \* whether it may return less than was asked for
  failed,     \* whether a read has failed that had something to return
  buff,       \* the content of s->buff
  isEOF,
  maxBuffSz,
  r,          \* the string that is read to
  call,       \* the call under way
  ret         \* what the last call returned: 0 or -1

vars == <<source, partial, failed, buff, isEOF, maxBuffSz, r, call, ret>>

None == [kind |-> "none", term |-> {}, asked |-> 0, n |-> 0, rlo |-> 0,
         direct |-> FALSE]

\* The characters there are.
Characters == UNION {Range(t) : t \in Sources \cup Returned}

\* What is assumed of the constants.
BstrStreamAssumption ==
  /\ Sources \cup Returned \subseteq Seq(Characters)
  /\ \A t \in Sources : Len(t) <= MaxRest
  /\ Sizes \subseteq Nat \ {0} /\ MaxRead \in Nat /\ MaxRest \in Nat /\ MaxText \in Nat

\* bsopen
Init ==
  /\ source \in Sources /\ partial \in BOOLEAN /\ failed = FALSE
  /\ buff = <<>> /\ isEOF = FALSE /\ maxBuffSz \in Sizes
  /\ r = <<>> /\ call = None /\ ret = 0

Idle == call.kind = "none"

\* readFnPtr, asked for n characters: how many it may return, 0 or -1 if it fails.
Lengths(n) ==
  LET most == Min({n, Len(source)})
  IN  {-1, 0} \cup (IF partial THEN 1 .. most ELSE {most})

Chunk(k) == SubSeq(source, 1, k)

\* The first k characters are read, or none.
Consume(k) ==
  /\ source' = IF k > 0 THEN SubSeq(source, k + 1, Len(source)) ELSE source
  /\ failed' = (failed \/ (k <= 0 /\ source # <<>>))

\* Where the first terminator is, Len(t) + 1 being the sentinel.
End(t, term) ==
  LET i == SelectInSeq(t, LAMBDA c : c \in term)
  IN  IF i = 0 THEN Len(t) + 1 ELSE i

Upto(t, i) == SubSeq(t, 1, i)
After(t, i) == SubSeq(t, i + 1, Len(t))

\* BSTR_ERR & -(nothing was read)
Result(before, text) == IF Len(text) = before THEN -1 ELSE 0

-----------------------------------------------------------------------------
(* Lines: bsreadlna and bsreadlnsa, and bsreadln and bsreadlns, which begin    *)
(* with an empty string.                                                    *)

Bsreadln(term, fresh) ==
  LET base == IF fresh THEN <<>> ELSE r
      end == End(buff, term)
  IN  /\ Idle /\ Len(base) <= MaxText
      /\ IF end <= Len(buff)
           THEN /\ r' = base \o Upto(buff, end) /\ buff' = After(buff, end)
                /\ ret' = 0 /\ UNCHANGED call
           ELSE \* The buffer is all of it copied, and not yet emptied.
                /\ r' = base \o buff
                /\ call' = [None EXCEPT !.kind = "line", !.term = term,
                                        !.rlo = Len(base)]
                /\ UNCHANGED <<buff, ret>>
      /\ UNCHANGED <<source, partial, failed, isEOF, maxBuffSz>>

\* Mutant: the over-read is put behind what the buffer held.
OverreadAppended(chunk, end) == buff \o After(chunk, end)

\* What is kept of a chunk in which the line ends.
Overread(chunk, end) == After(chunk, end)

\* Mutant: the length is kept unsigned and tested for being negative.
AtEndUnsigned(k) == FALSE

\* l <= 0
AtEnd(k) == k <= 0

\* A round of the loop.
LineChunk(k) ==
  LET chunk == Chunk(k)
      end == End(chunk, call.term)
  IN  /\ call.kind = "line"
      /\ k \in Lengths(maxBuffSz)
      /\ Consume(k)
      /\ \/ /\ AtEnd(k)
            /\ buff' = <<>> /\ isEOF' = TRUE
            /\ ret' = Result(call.rlo, r) /\ call' = None
            /\ UNCHANGED r
         \/ /\ ~AtEnd(k) /\ end <= k
            /\ r' = r \o Upto(chunk, end) /\ buff' = Overread(chunk, end)
            /\ ret' = 0 /\ call' = None
            /\ UNCHANGED isEOF
         \/ /\ ~AtEnd(k) /\ end > k
            /\ r' = r \o chunk
            /\ UNCHANGED <<buff, isEOF, ret, call>>
      /\ UNCHANGED <<partial, maxBuffSz>>

-----------------------------------------------------------------------------
(* Lengths: bsreada, and bsread, which begins with an empty string.         *)

\* The length r is to have.
Target(n, base) == n + Len(base)

\* Whether bsreada gives up at once.
Exhausted == buff = <<>> /\ isEOF

\* Whether r has room for all of n (roomy) makes a difference: then an empty
\* buffer is left out, and the source asked only once.
Bsread(n, fresh, roomy) ==
  LET base == IF fresh THEN <<>> ELSE r
  IN  /\ Idle /\ Len(base) <= MaxText
      /\ r' = base
      /\ IF Exhausted
           THEN ret' = -1 /\ UNCHANGED call
           ELSE /\ call' = [None EXCEPT !.kind = "length", !.asked = n,
                                        !.n = Target(n, base), !.rlo = Len(base),
                                        !.direct = buff = <<>> /\ roomy]
                /\ UNCHANGED ret
      /\ UNCHANGED <<source, partial, failed, buff, isEOF, maxBuffSz>>

\* The one read into r itself.
Direct(k) ==
  /\ call.kind = "length" /\ call.direct
  /\ k \in Lengths(call.n - Len(r))
  /\ Consume(k)
  /\ r' = r \o Chunk(k)
  /\ isEOF' = (isEOF \/ k <= 0)
  /\ ret' = IF k <= 0 THEN -1 ELSE 0
  /\ call' = None
  /\ UNCHANGED <<partial, buff, maxBuffSz>>

\* Mutant: the buffer is asked to be filled, whatever is missing.
AskedFull(n) == maxBuffSz

\* How much of what is missing is asked for.
Asked(n) == Min({n, maxBuffSz})

\* A round of the loop: the buffer holds enough, or is copied and read again.
LengthEnough ==
  LET n == call.n - Len(r)
  IN  /\ call.kind = "length" /\ ~call.direct
      /\ Len(buff) >= n
      /\ r' = r \o Upto(buff, n) /\ buff' = After(buff, n)
      /\ ret' = Result(call.rlo, r') /\ call' = None
      /\ UNCHANGED <<source, partial, failed, isEOF, maxBuffSz>>

LengthChunk(k) ==
  LET n == call.n - Len(r) - Len(buff)
  IN  /\ call.kind = "length" /\ ~call.direct
      /\ n > 0
      /\ k \in Lengths(Asked(n))
      /\ Consume(k)
      /\ r' = r \o buff /\ buff' = Chunk(k)
      /\ IF k > 0 THEN UNCHANGED <<isEOF, ret, call>>
         ELSE isEOF' = TRUE /\ ret' = Result(call.rlo, r') /\ call' = None
      /\ UNCHANGED <<partial, maxBuffSz>>

-----------------------------------------------------------------------------

Bsunread(t) ==
  /\ Idle
  /\ Len(t) + Len(buff) + Len(source) <= MaxRest
  /\ buff' = t \o buff /\ ret' = 0
  /\ UNCHANGED <<source, partial, failed, isEOF, maxBuffSz, r, call>>

Bsbufflength(sz) ==
  /\ Idle
  /\ maxBuffSz' = sz
  /\ UNCHANGED <<source, partial, failed, buff, isEOF, r, call, ret>>

Call ==
  \/ \E term \in Terminators, fresh \in BOOLEAN : Bsreadln(term, fresh)
  \/ \E n \in 1 .. MaxRead, fresh, roomy \in BOOLEAN : Bsread(n, fresh, roomy)
  \/ \E t \in Returned : Bsunread(t)
  \/ \E sz \in Sizes : Bsbufflength(sz)

Round ==
  \/ LengthEnough
  \/ \E k \in -1 .. Len(source) : LineChunk(k) \/ Direct(k) \/ LengthChunk(k)

Next == Call \/ Round

Spec == Init /\ [][Next]_vars

\* The caller may stop calling; a call that was begun goes on.
FairSpec == Spec /\ WF_vars(Round)

-----------------------------------------------------------------------------
(* Properties.                                                             *)

TypeOK ==
  /\ partial \in BOOLEAN /\ failed \in BOOLEAN /\ isEOF \in BOOLEAN /\ maxBuffSz \in Sizes
  /\ call.kind \in {"none", "line", "length"} /\ ret \in {0, -1}
  /\ Len(buff) <= MaxRest
  /\ call.kind = "length" =>
       /\ call.n = call.rlo + call.asked
       /\ Len(r) \in call.rlo .. call.n

\* What is still to be read: while a line is read the buffer holds what was
\* copied already.
Rest == IF call.kind = "line" THEN source ELSE buff \o source

AbstractStream == INSTANCE Stream WITH rest <- Rest, text <- r

\* Whatever pieces the source is read in, whatever was put back and however the
\* reading calls are mixed: no character is lost, read twice or out of order.
ImplementsStream == AbstractStream!Spec

\* A read that comes short: the source is at its end, or has failed.
Short == Rest' = <<>> \/ (failed' /\ isEOF')

LineEnds ==
  call.kind = "line" =>
    LET line == After(r', call.rlo)
    IN  /\ \A i \in 1 .. Len(line) - 1 : line[i] \notin call.term
        /\ call'.kind = "none" =>
             \/ line # <<>> /\ Last(line) \in call.term
             \/ Short /\ isEOF'

LengthExact ==
  call.kind = "length" /\ call'.kind = "none" =>
    LET got == Len(r') - call.rlo
    IN  \/ got = call.asked
        \/ got < call.asked /\ Short
        \/ got < call.asked /\ call.direct /\ partial

NoReadAhead ==
  call.kind = "length" /\ source' # source =>
    Len(r' \o buff') <= call.rlo + call.asked

ErrorMeansEnd ==
  Idle' => /\ ret' = -1 => Short
           /\ isEOF' => source' = <<>> \/ failed'

\* What the caller may rely on, in whatever pieces the source is read and whatever
\* was put back: bsreadln stops behind the first terminator and nowhere else,
\* unless the source ends or fails; bsread returns as many characters as were
\* asked for, unless the source ends or fails (or it reads past the buffer, when
\* one piece will do), and takes none from the source that it does not return, as
\* its comment says; and an error means that nothing is left or the source has
\* failed, as isEOF means that it ended or failed.
ReadsAsAsked ==
  [][LineEnds /\ LengthExact /\ NoReadAhead /\ ErrorMeansEnd]_vars

\* Every call returns.
CallsReturn == []<>Idle

=============================================================================
