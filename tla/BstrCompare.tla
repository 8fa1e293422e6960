---------------------------- MODULE BstrCompare ----------------------------
(***************************************************************************)
(* The comparisons of src/src/bstrlib.c: bstrcmp tells the hash map whether *)
(* two keys are the same, biseqcstr tells the server whether Connection is  *)
(* "close".  A character is the byte it is, and char is signed.             *)
(***************************************************************************)
EXTENDS Integers, SequencesExt

CONSTANTS
  Chars,    \* bytes
  MaxLen    \* bound on the length of a string

\* What is assumed of the constants.
BstrCompareAssumption == Chars \subseteq 0 .. 255 /\ MaxLen \in Nat

VARIABLES b0, b1, b2   \* the strings that are compared

vars == <<b0, b1, b2>>

Strings == BoundedSeq(Chars, MaxLen)

\* (char) of a byte
Signed(c) == IF c > 127 THEN c - 256 ELSE c

downcase(c) == IF c \in 65 .. 90 THEN c + 32 ELSE c

Sign(v) == CASE v < 0 -> -1 [] v = 0 -> 0 [] v > 0 -> 1

Common(s, t) == Min({Len(s), Len(t)})

\* Mutant: the comparison goes on behind a zero byte.
DifferPastEnd(s, t, n) == {i \in 1 .. n : s[i] # t[i]}

\* Where the loop of bstrcmp and bstrncmp may return: the strings differ, or end.
Differ(s, t, n) == {i \in 1 .. n : s[i] # t[i] \/ s[i] = 0}

\* Mutant: the characters are subtracted as bytes in the one and as chars in the
\* other direction.
DifferenceMixed(s, t, at) == Signed(s[Min(at)]) - t[Min(at)]

Difference(s, t, at) == Signed(s[Min(at)]) - Signed(t[Min(at)])

bstrcmp(s, t) ==
  LET at == Differ(s, t, Common(s, t))
  IN  IF at # {} THEN Difference(s, t, at) ELSE Sign(Len(s) - Len(t))

\* What bstrncmp returns when nothing differed up to the n-th character.
Rest(s, t, n) ==
  IF n <= Common(s, t) \/ Len(s) = Len(t) THEN 0
  ELSE IF Len(s) > Common(s, t) THEN 1 ELSE -1

bstrncmp(s, t, n) ==
  LET at == Differ(s, t, Min({n, Common(s, t)}))
  IN  IF at # {} THEN Difference(s, t, at) ELSE Rest(s, t, n)

Folded(c) == Signed(downcase(c))

FoldedDiffer(s, t, n) == {i \in 1 .. n : Folded(s[i]) # Folded(t[i])}

\* The first character that only one of the strings has.
Extra(s, n) == IF Folded(s[n + 1]) # 0 THEN Folded(s[n + 1]) ELSE 256

Longer(s, t, n) == CASE Len(s) > n -> Extra(s, n)
                     [] Len(s) = n /\ Len(t) > n -> -Extra(t, n)
                     [] OTHER -> 0

bstricmp(s, t) ==
  LET n == Common(s, t)
      at == FoldedDiffer(s, t, n)
  IN  IF at # {} THEN Folded(s[Min(at)]) - Folded(t[Min(at)]) ELSE Longer(s, t, n)

\* biseqcstr, of a C string that is at the beginning of a block
biseqcstr(s, block) ==
  LET byte(i) == IF i <= Len(block) THEN block[i] ELSE 0
  IN  /\ \A i \in 1 .. Len(s) : byte(i) # 0 /\ s[i] = byte(i)
      /\ byte(Len(s) + 1) = 0

Init == b0 = <<>> /\ b1 = <<>> /\ b2 = <<>>

\* Another string is compared with the last two.
Compare(s) == b0' = s /\ b1' = b0 /\ b2' = b1

Next == \E s \in Strings : Compare(s)

Spec == Init /\ [][Next]_vars

-----------------------------------------------------------------------------
(* Properties.                                                             *)

Truncated(s, n) == SubSeq(s, 1, Min({n, Len(s)}))

\* A block as a C string.
CString(s) == LET i == SelectInSeq(s, LAMBDA c : c = 0)
              IN  IF i = 0 THEN s ELSE Truncated(s, i - 1)

\* The keys of the hash map are the same for bstrcmp if they are the same up to
\* a zero byte that both have, and a header is "close" for biseqcstr if and only
\* if all of it is.
EqualityAgrees ==
  /\ bstrcmp(b0, b1) = 0 <=>
       \/ b0 = b1
       \/ CString(b0) = CString(b1) /\ 0 \in Range(b0) /\ 0 \in Range(b1)
  /\ biseqcstr(b0, b1) <=> b0 = CString(b1)

\* bstrcmp and bstricmp order the strings: neither the signs of characters, nor
\* where strings end, nor zero bytes within them make a circle of three, and a
\* comparison the other way round has the other sign.  bstrncmp is bstrcmp of the
\* first n characters, wherever n is.
Ordered ==
  /\ Sign(bstrcmp(b0, b1)) = -Sign(bstrcmp(b1, b0))
  /\ Sign(bstricmp(b0, b1)) = -Sign(bstricmp(b1, b0))
  /\ bstrcmp(b0, b1) < 0 /\ bstrcmp(b1, b2) < 0 => bstrcmp(b0, b2) < 0
  /\ bstricmp(b0, b1) <= 0 /\ bstricmp(b1, b2) <= 0 => bstricmp(b0, b2) <= 0
  /\ \A n \in -1 .. MaxLen + 1 :
       Sign(bstrncmp(b0, b1, n)) =
         Sign(bstrcmp(Truncated(b0, n), Truncated(b1, n)))

=============================================================================
