-------------------------------- MODULE Text --------------------------------
(***************************************************************************)
(* What the operations of a bstring promise: operations on sequences of      *)
(* characters.  Positions count from 0, as in C.  Bstring carries them out   *)
(* in blocks of memory.                                                     *)
(***************************************************************************)
EXTENDS Integers, SequencesExt

Fill(n, c) == [i \in 1 .. n |-> c]

Before(t, pos) == SubSeq(t, 1, Min({pos, Len(t)}))
From(t, pos) == SubSeq(t, pos + 1, Len(t))

\* len characters of t from left on, as many of them as there are.
Middle(t, left, len) ==
  SubSeq(t, Max({left, 0}) + 1, Min({left + len, Len(t)}))

Without(t, pos, len) ==
  Before(t, Max({pos, 0})) \o From(t, Max({pos + len, 0}))

\* t made at least as long as pos.
Reaching(t, pos, c) == t \o Fill(Max({pos - Len(t), 0}), c)

Inserted(t, pos, s, c) ==
  Before(Reaching(t, pos, c), pos) \o s \o From(Reaching(t, pos, c), pos)

Overlaid(t, pos, s, c) ==
  Before(Reaching(t, pos, c), pos) \o s \o From(t, pos + Len(s))

Replaced(t, pos, len, s, c) ==
  Before(Reaching(t, pos, c), pos) \o s \o From(t, pos + len)

Repeated(t, len) == [i \in 1 .. len |-> t[((i - 1) % Len(t)) + 1]]

\* Where s is in t, from pos on.
FoundAt(t, s, pos) ==
  {i \in pos .. Len(t) - Len(s) : SubSeq(t, i + 1, i + Len(s)) = s}

\* Every s in t from pos on replaced by r, the leftmost first.
AllReplaced(t, s, r, pos) ==
  LET rest[p \in 0 .. Len(t)] ==
        IF FoundAt(t, s, p) = {} THEN From(t, p)
        ELSE LET i == Min(FoundAt(t, s, p))
             IN  SubSeq(t, p + 1, i) \o r \o rest[i + Len(s)]
  IN  IF pos > Len(t) THEN t ELSE Before(t, pos) \o rest[pos]

=============================================================================
