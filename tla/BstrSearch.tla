----------------------------- MODULE BstrSearch -----------------------------
(***************************************************************************)
(* The searches of src/src/bstrlib.c, a comparison at a time: binstr, whose *)
(* loop tests two characters in a round, and binstrr, which goes backwards, *)
(* with and without regard to case.  Positions count from 0.                *)
(***************************************************************************)
EXTENDS Text

CONSTANTS
  Chars,
  Lower,     \* tolower() of each
  MaxLen,    \* bound on the length of the string that is searched
  MaxFind    \* and on that of the one that is looked for

ASSUME BstrSearchAssumption ==
  Lower \in [Chars -> Chars] /\ MaxLen \in Nat /\ MaxFind \in Nat

VARIABLES
  b1, b2,    \* the strings: b2 is looked for in b1
  pos,
  kind,      \* the function
  pc,        \* "start", "loop" or "done"
  i, j,      \* as in the code
  ii,        \* where the match under way may begin
  result     \* -1 is BSTR_ERR

vars == <<b1, b2, pos, kind, pc, i, j, ii, result>>
args == <<b1, b2, pos, kind>>

Forward == kind \in {"binstr", "binstrcaseless"}

\* Characters that count as equal.
Same(c, d) == c = d \/ (kind \in {"binstrcaseless", "binstrrcaseless"}
                         /\ Lower[c] = Lower[d])

d0(k) == b2[k + 1]
d1(k) == b1[k + 1]

Init ==
  /\ b1 \in BoundedSeq(Chars, MaxLen) /\ b2 \in BoundedSeq(Chars, MaxFind)
  /\ pos \in -1 .. MaxLen + 1
  /\ kind \in {"binstr", "binstrr", "binstrcaseless", "binstrrcaseless"}
  /\ pc = "start" /\ i = 0 /\ j = 0 /\ ii = -1 /\ result = -1

Return(r) == result' = r /\ pc' = "done"

\* The last position at which b2 would fit.
LastFit == Len(b1) - Len(b2)

\* The checks at the beginning.
Start ==
  /\ pc = "start"
  /\ IF pos < 0 \/ pos > Len(b1) THEN Return(-1) /\ UNCHANGED i
     ELSE IF b2 = <<>> THEN Return(pos) /\ UNCHANGED i
     ELSE IF LastFit < (IF Forward THEN pos ELSE 0) THEN Return(-1) /\ UNCHANGED i
     ELSE /\ pc' = "loop" /\ UNCHANGED result
          /\ i' = IF Forward THEN pos ELSE Min({pos, LastFit})
  /\ UNCHANGED <<args, j, ii>>

\* binstr for a single character
LoopSingle ==
  /\ pc = "loop" /\ kind = "binstr" /\ Len(b2) = 1
  /\ CASE i >= Len(b1)                       -> Return(-1) /\ UNCHANGED i
       [] i < Len(b1) /\ d1(i) = d0(0)       -> Return(i) /\ UNCHANGED i
       [] i < Len(b1) /\ d1(i) # d0(0)       -> i' = i + 1 /\ UNCHANGED <<pc, result>>
  /\ UNCHANGED <<args, j, ii>>

\* Mutant: the search goes on from where the match that is left off began.
MatchedFromFirst(k, first) ==
  IF k = first + Len(b2) THEN Return(first) /\ UNCHANGED <<i, j>>
  ELSE i' = first /\ j' = 0 /\ UNCHANGED <<pc, result>>

\* The label N0: all of b2 was found, from k - ll on unless a character was
\* left out; then the search goes on from there.
Matched(k, first) ==
  IF k = first + Len(b2) THEN Return(first) /\ UNCHANGED <<i, j>>
  ELSE i' = k - Len(b2) /\ j' = 0 /\ UNCHANGED <<pc, result>>

\* Mutant: a match that is left off goes on after the character left out.
RoundKeepsMatch ==
  LET k == IF d1(i) = d0(j) THEN i ELSE i + 1
      first == IF j = 0 THEN k ELSE ii
  IN  IF d1(i) # d0(j) /\ d1(i + 1) # d0(j)
        THEN i' = i + 2 /\ UNCHANGED <<j, ii, pc, result>>
        ELSE /\ ii' = first
             /\ IF j + 1 < Len(b2)
                  THEN i' = k + 1 /\ j' = j + 1 /\ UNCHANGED <<pc, result>>
                  ELSE Return(first) /\ UNCHANGED <<i, j>>

\* A round of binstr's loop: the character is there, or it is the next one, or
\* both are left out.
Round ==
  LET k == IF d1(i) = d0(j) THEN i ELSE i + 1
      first == IF j = 0 THEN k ELSE ii
  IN  IF d1(i) # d0(j) /\ d1(i + 1) # d0(j)
        THEN i' = i + 2 /\ UNCHANGED <<j, ii, pc, result>>
        ELSE /\ ii' = first
             /\ IF j + 1 < Len(b2)
                  THEN i' = k + 1 /\ j' = j + 1 /\ UNCHANGED <<pc, result>>
                  ELSE Matched(k + 1, first)

LoopUnrolled ==
  /\ pc = "loop" /\ kind = "binstr" /\ Len(b2) > 1
  /\ i < Len(b1) - 1
  /\ Round
  /\ UNCHANGED args

\* After the loop: the last character of b1 may end a match.  At N0 i and j are
\* those of the character before.
LoopEnd ==
  /\ pc = "loop" /\ kind = "binstr" /\ Len(b2) > 1
  /\ i >= Len(b1) - 1
  /\ IF i = Len(b1) - 1 /\ Len(b2) = j + 1 /\ d1(i) = d0(j)
       THEN IF i = ii + j THEN Return(ii) /\ UNCHANGED <<i, j>>
            ELSE i' = i - j /\ j' = 0 /\ UNCHANGED <<pc, result>>
       ELSE Return(-1) /\ UNCHANGED <<i, j>>
  /\ UNCHANGED <<args, ii>>

\* Where the plain searches stop.
Beyond(k) == IF Forward THEN k > LastFit ELSE k < 0

\* Where they go on after a character that differs.
NextPlace == IF Forward THEN i + 1 ELSE i - 1

\* A comparison of binstrr and the caseless searches.
LoopPlain ==
  /\ pc = "loop" /\ kind # "binstr"
  /\ IF Same(d0(j), d1(i + j))
       THEN /\ UNCHANGED i
            /\ IF j + 1 >= Len(b2) THEN Return(i) /\ UNCHANGED j
                                   ELSE j' = j + 1 /\ UNCHANGED <<pc, result>>
       ELSE IF Beyond(NextPlace) THEN Return(-1) /\ UNCHANGED <<i, j>>
       ELSE i' = NextPlace /\ j' = 0 /\ UNCHANGED <<pc, result>>
  /\ UNCHANGED <<args, ii>>

Next == Start \/ LoopSingle \/ LoopUnrolled \/ LoopEnd \/ LoopPlain

Spec == Init /\ [][Next]_vars

\* The caller is scheduled.
FairSpec == Spec /\ WF_vars(Next)

-----------------------------------------------------------------------------
(* Properties.                                                             *)

\* Where b2 is, comparing as the function does.
Places ==
  {k \in 0 .. LastFit : \A m \in DOMAIN b2 : Same(b2[m], b1[k + m])}

\* binstr and its like return the first place from pos on, binstrr and its like
\* the last one up to pos, and -1 only if there is none: whatever was compared
\* and given up before, b2's own prefixes within it included.
FindsNearest ==
  pc = "done" =>
    LET candidates == {k \in Places : IF Forward THEN k >= pos ELSE k <= pos}
        sought == IF b2 = <<>> /\ pos \in 0 .. Len(b1) THEN pos
                  ELSE IF candidates = {} \/ pos \notin 0 .. Len(b1) THEN -1
                  ELSE IF Forward THEN Min(candidates) ELSE Max(candidates)
    IN  result = sought

\* Every search ends, although binstr's goes back.
Ends == <>(pc = "done")

=============================================================================
