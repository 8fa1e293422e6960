------------------------------ MODULE Bstring ------------------------------
(***************************************************************************)
(* A string of src/src/bstrlib.c: a block of memory that is replaced by a   *)
(* larger one when a call needs it, and calls whose argument may be a part  *)
(* of the very string they change.  A call is a set of outcomes, one for    *)
(* each behaviour of the allocator.  Sizes are too small to overflow.       *)
(***************************************************************************)
EXTENDS Text

CONSTANTS
  Chars,
  Junk,      \* what is read from memory that was freed or never written
  MinBlock,  \* the least size snapUpSize returns, 8
  Limits,    \* the largest block an allocation may get during a call
  Texts,     \* the arguments of the calls that are not part of the string
  MaxLen     \* bound on the length of the string

VARIABLE b   \* the string: its slen characters, mlen, and whether a zero byte was
             \* written after them

vars == b

ASSUME BstringAssumption ==
  /\ Junk \notin Chars /\ MinBlock \in Nat \ {0, 1} /\ Limits \subseteq Nat
  /\ Texts \subseteq Seq(Chars) /\ MaxLen \in Nat

-----------------------------------------------------------------------------
(* Memory.                                                                 *)

\* snapUpSize: the least power of two above i.
SnapUp(i) ==
  LET doubled[n \in 1 .. 2 * i] == IF n > i THEN n ELSE doubled[2 * n]
  IN  IF i < MinBlock THEN MinBlock ELSE doubled[1]

\* What a call leaves and whether it returned an error.
Outcome(s, failed) == [b |-> s, failed |-> failed]
Failed(s) == Outcome(s, TRUE)
Done(mlen, data) ==
  Outcome([data |-> data, mlen |-> mlen, ended |-> TRUE], FALSE)

NoRoom == [mlen |-> 0, moved |-> TRUE]

Unmoved(s) == [mlen |-> s.mlen, moved |-> FALSE]

\* balloc: the size it leaves, and whether the block has moved.  A block of the
\* size asked for will do when there is none of the size wanted.
Balloc(s, olen, limit) ==
  IF olen <= 0 THEN NoRoom
  ELSE IF olen < s.mlen THEN Unmoved(s)
  ELSE IF SnapUp(olen) <= limit THEN [mlen |-> SnapUp(olen), moved |-> TRUE]
  ELSE IF olen <= limit THEN [mlen |-> olen, moved |-> TRUE]
  ELSE NoRoom

\* The end of most calls: what the string becomes if there is room for it.
Within(s, room, data) == IF room = NoRoom THEN Failed(s) ELSE Done(room.mlen, data)

\* memmove to position pos of the block.
Put(data, pos, bytes) ==
  [i \in 1 .. Max({Len(data), pos + Len(bytes)}) |->
     CASE i \in pos + 1 .. pos + Len(bytes) -> bytes[i - pos]
       [] i \notin pos + 1 .. pos + Len(bytes) /\ i <= Len(data) -> data[i]
       [] OTHER -> Junk]

\* The arguments: texts of their own, and parts of the string.
Own(t) == [own |-> TRUE, text |-> t, left |-> 0]
Part(s, left, len) ==
  [own |-> FALSE, text |-> Middle(s.data, left, len), left |-> left]

\* An argument read after balloc: part of a block that has moved is gone.
Stale(arg, room) ==
  IF arg.own \/ ~room.moved THEN arg.text ELSE Fill(Len(arg.text), Junk)

\* Mutant: it is not copied.
CopiedNot(arg, room) == Stale(arg, room)

\* An argument that is copied before balloc if it is part of the string.
Copied(arg, room) == arg.text

\* The room there is if a copy of the argument, should it need one, gets a block
\* of this size.
Beside(arg, size, limit, room) == IF arg.own \/ size <= limit THEN room ELSE NoRoom

\* bstrcpy gets one, of the size it wants or the least that will do.
BesideCopy(arg, limit, room) == Beside(arg, Len(arg.text) + 1, limit, room)

-----------------------------------------------------------------------------
(* New strings.                                                            *)

New(s, size, t, limit) == IF size <= limit THEN Done(size, t) ELSE Failed(s)

\* bfromcstr and blk2bstr, and bmidstr by means of them
Bfromcstr(s, t, limit) ==
  New(s, SnapUp(Len(t) + (IF t = <<>> THEN 2 ELSE 1)), t, limit)

\* bstrcpy
Bstrcpy(s, t, limit) ==
  IF SnapUp(Len(t) + 1) <= limit THEN Done(SnapUp(Len(t) + 1), t)
                                 ELSE New(s, Len(t) + 1, t, limit)

\* bfromcstrrangealloc: sizes from maxl down towards minl are tried.
Bfromcstrrangealloc(s, minl, maxl, t, limit) ==
  LET least == Max({minl, Len(t) + 1})
      first == Max({maxl, least})
      next(i) == i \div 2 + least \div 2
      try[i \in 0 .. first] ==
        IF i \in 1 .. limit THEN Done(i, t)
        ELSE IF next(i) = i \/ i < least THEN Failed(s)
        ELSE try[next(i)]
  IN  IF maxl < minl \/ minl < 0 THEN Failed(s) ELSE try[first]

-----------------------------------------------------------------------------
(* Calls that change a string.                                             *)

\* ballocmin
Ballocmin(s, len, limit) ==
  LET size == Max({len, Len(s.data) + 1})
  IN  IF len <= 0 THEN Failed(s)
      ELSE IF size = s.mlen THEN Outcome(s, FALSE)
      ELSE New(s, size, s.data, limit)

\* bconcat
Bconcat(s, arg, limit) ==
  LET size == Len(s.data) + Len(arg.text) + 1
      room == IF s.mlen <= size THEN BesideCopy(arg, limit, Balloc(s, size, limit))
                                ELSE Unmoved(s)
  IN  Within(s, room, s.data \o Copied(arg, room))

\* bconchar
Bconchar(s, c, limit) ==
  Within(s, Balloc(s, Len(s.data) + 2, limit), Append(s.data, c))

\* bcatblk, of a block outside the string
Bcatblk(s, t, limit) ==
  LET size == Len(s.data) + Len(t)
      room == IF s.mlen <= size THEN Balloc(s, size + 1, limit) ELSE Unmoved(s)
  IN  Within(s, room, s.data \o t)

\* Filled to the last byte, without a zero byte.
Full(s, data) == [data |-> data, mlen |-> s.mlen, ended |-> FALSE]

\* Mutant: the rest begins with the last character that was copied.
RemainingWithLast(t, fits) == From(t, Max({fits - 1, 0}))

\* Where bcatcstr stops when the block is full.
Remaining(t, fits) == From(t, fits)

\* bcatcstr: what fits is copied at once, and the rest by bcatblk.
Bcatcstr(s, t, limit) ==
  LET fits == s.mlen - Len(s.data)
  IN  IF Len(t) < fits THEN Done(s.mlen, s.data \o t)
      ELSE Bcatblk(Full(s, s.data \o Before(t, fits)), Remaining(t, fits), limit)

\* Mutant: room for the characters copied last only.
AssignRoomOfRest(s, t, limit) == Balloc(s, Len(t) - s.mlen + 1, limit)

AssignRoom(s, t, limit) == Balloc(s, Len(t) + 1, limit)

\* bassigncstr
Bassigncstr(s, t, limit) ==
  IF Len(t) < s.mlen THEN Done(s.mlen, t)
  ELSE Within(Full(s, Before(t, s.mlen)), AssignRoom(s, t, limit), t)

\* bassignblk
Bassignblk(s, t, limit) ==
  Within(s, IF Len(t) + 1 > s.mlen THEN Balloc(s, Len(t) + 1, limit)
                                   ELSE Unmoved(s), t)

\* bassign and bassignmidstr: no room is asked for the zero byte.
Bassign(s, arg, limit) ==
  IF arg.text = <<>> THEN Done(s.mlen, <<>>)
  ELSE LET room == Balloc(s, Len(arg.text), limit)
       IN  Within(s, room, Stale(arg, room))

\* btrunc
Btrunc(s, n) ==
  IF n < 0 THEN Failed(s)
  ELSE IF Len(s.data) > n THEN Done(s.mlen, Before(s.data, n))
  ELSE Outcome(s, FALSE)

\* bdelete
Bdelete(s, pos, len) ==
  LET from == Max({pos, 0})
      count == len + Min({pos, 0})
      end == from + count
  IN  IF count < 0 THEN Failed(s)
      ELSE IF count = 0 \/ from >= Len(s.data) THEN Outcome(s, FALSE)
      ELSE IF end >= Len(s.data) THEN Done(s.mlen, Before(s.data, from))
      ELSE Done(s.mlen, Before(Put(s.data, from, From(s.data, end)),
                               Len(s.data) - count))

\* bsetstr, which takes a NULL for an empty string
Bsetstr(s, pos, arg, c, limit) ==
  LET room == BesideCopy(arg, limit, Balloc(s, pos + Len(arg.text) + 1, limit))
      filled == Put(s.data, Len(s.data), Fill(Max({pos - Len(s.data), 0}), c))
  IN  IF pos < 0 THEN Failed(s)
      ELSE Within(s, room, Put(filled, pos, Copied(arg, room)))

\* binsertblk and binsert, which copies the characters without a zero byte
Binsert(s, pos, arg, c, limit) ==
  LET d == Len(s.data) + Len(arg.text)
      l == pos + Len(arg.text)
      room == Beside(arg, Len(arg.text), limit, Balloc(s, Max({d, l}) + 1, limit))
      parted == IF l > d
                  THEN Put(s.data, Len(s.data), Fill(pos - Len(s.data), c))
                  ELSE Put(s.data, l, From(s.data, pos))
  IN  IF pos < 0 THEN Failed(s)
      ELSE Within(s, room, Put(parted, pos, Copied(arg, room)))

\* breplace: no room is asked for the zero byte.
Breplace(s, pos, len, arg, c, limit) ==
  LET n == Len(arg.text)
      slen == Len(s.data) + n - len
      set == Bsetstr(s, pos, arg, c, limit)
      grown == IF n > len THEN Balloc(s, slen, limit) ELSE Unmoved(s)
      room == BesideCopy(arg, limit, grown)
      moved == IF n = len THEN s.data
                          ELSE Put(s.data, pos + n, From(s.data, pos + len))
  IN  IF pos < 0 \/ len < 0 THEN Failed(s)
      ELSE IF pos + len < Len(s.data)
        THEN Within(s, room, Before(Put(moved, pos, Copied(arg, room)), slen))
      ELSE IF ~set.failed /\ pos + n < Len(set.b.data)
        THEN Done(set.b.mlen, Before(set.b.data, pos + n))
      ELSE set

\* binsertch
Binsertch(s, pos, len, c, limit) ==
  LET d == Len(s.data) + len
      l == pos + len
      room == Balloc(s, Max({d, l}) + 1, limit)
      moved == [i \in 1 .. d |-> IF i > l THEN s.data[i - len]
                                 ELSE IF i <= Len(s.data) THEN s.data[i] ELSE Junk]
  IN  IF pos < 0 \/ len < 0 THEN Failed(s)
      ELSE Within(s, room,
                  IF l > d THEN Put(s.data, Len(s.data), Fill(l - Len(s.data), c))
                           ELSE Put(moved, pos, Fill(len, c)))

\* bpattern
Bpattern(s, len, limit) ==
  LET d == Len(s.data)
      room == Balloc(s, len + 1, limit)
      data[i \in 1 .. Max({len, d})] == IF i <= d THEN s.data[i] ELSE data[i - d]
  IN  IF d = 0 \/ len < 0 \/ room = NoRoom THEN Failed(s)
      ELSE IF len > 0 /\ d = 1
        THEN Bsetstr([s EXCEPT !.mlen = room.mlen], len, Own(<<>>), s.data[1], limit)
      ELSE Done(room.mlen, [i \in 1 .. len |-> data[i]])

-----------------------------------------------------------------------------
(* bfindreplace, by findreplaceengine.                                     *)

\* The places binstr finds, one after another.
Places(t, find, pos) ==
  LET places[p \in 0 .. Len(t)] ==
        IF FoundAt(t, find, p) = {} THEN <<>>
        ELSE LET i == Min(FoundAt(t, find, p))
             IN  <<i>> \o places[i + Len(find)]
  IN  places[pos]

\* In place, or to the left: after k places, what follows has moved by k * delta.
Shrunk(t, places, find, repl, pos) ==
  LET n == Len(places)
      delta == Len(find) - Len(repl)
      end(k) == IF k = 0 THEN pos ELSE places[k] + Len(find)
      moved[k \in 0 .. n] ==
        IF k = 0 THEN t
        ELSE LET acc == (k - 1) * delta
                 piece == SubSeq(moved[k - 1], end(k - 1) + 1, places[k])
             IN  Put(Put(moved[k - 1], end(k - 1) - acc, piece), places[k] - acc, repl)
  IN  Before(Put(moved[n], end(n) - n * delta, From(moved[n], end(n))), Len(t) - n * delta)

\* The piece between the k-th place and the next, or the end, is moved by k times
\* the difference, and the place replaced.
Widened(m, ends, find, repl, k) ==
  LET acc == k * (Len(repl) - Len(find))
      s == ends[k] + Len(find)
  IN  Put(Put(m, s + acc, SubSeq(m, s + 1, ends[k + 1])), s + acc - Len(repl), repl)

\* Mutant: from the left, over what is still to be moved.
GrownFromLeft(t, places, find, repl) ==
  LET moved[k \in 0 .. Len(places)] ==
        IF k = 0 THEN t
        ELSE Widened(moved[k - 1], Append(places, Len(t)), find, repl, k)
  IN  moved[Len(places)]

\* From the right: first the piece after the last place.
Grown(t, places, find, repl) ==
  LET n == Len(places)
      moved[k \in 0 .. n] ==
        IF k = 0 THEN t
        ELSE Widened(moved[k - 1], Append(places, Len(t)), find, repl, n + 1 - k)
  IN  moved[n]

\* The arguments are copied if they are parts of the string that end behind pos;
\* a part before pos is left where it is.
IsCopied(arg, pos) == ~arg.own /\ arg.left + Len(arg.text) > pos

CopiedBehind(arg, pos, room) ==
  IF IsCopied(arg, pos) THEN arg.text ELSE Stale(arg, room)

\* One of the copies is not to be had.
CopyFails(args, pos, limit) ==
  \E arg \in args : IsCopied(arg, pos) /\ Len(arg.text) + 1 > limit

Bfindreplace(s, find, repl, pos, limit) ==
  LET places == Places(s.data, find.text, pos)
      delta == Len(repl.text) - Len(find.text)
      room == Balloc(s, Len(s.data) + Len(places) * delta + 1, limit)
  IN  IF pos < 0 \/ find.text = <<>> THEN Failed(s)
      ELSE IF pos > Len(s.data) - Len(find.text) THEN Outcome(s, FALSE)
      ELSE IF CopyFails({find, repl}, pos, limit) THEN Failed(s)
      ELSE IF delta > 0
        THEN Within(s, room, Grown(s.data, places, find.text, CopiedBehind(repl, pos, room)))
      ELSE IF places = <<>> THEN Outcome(s, FALSE)
      ELSE Done(s.mlen, Shrunk(s.data, places, find.text, repl.text, pos))

-----------------------------------------------------------------------------

Become(outcome) == Len(outcome.b.data) <= MaxLen /\ b' = outcome.b

Positions == -1 .. MaxLen

\* Other strings, and the parts of this one.
Args == {Own(t) : t \in Texts}
        \cup {Part(b, left, len) : left \in 0 .. Len(b.data), len \in 0 .. Len(b.data)}

Init == \E t \in Texts, limit \in Limits :
          LET none == [data |-> <<>>, mlen |-> 0, ended |-> FALSE]
              new == Bfromcstr(none, t, limit)
          IN  ~new.failed /\ b = new.b

Create(limit) ==
  \E t \in Texts :
    \/ Become(Bfromcstr(b, t, limit))
    \/ Become(Bstrcpy(b, b.data, limit))
    \/ \E minl, maxl \in 0 .. MaxLen :
         Become(Bfromcstrrangealloc(b, minl, maxl, t, limit))

Size(limit) ==
  \E len \in Positions :
    \/ Become(Ballocmin(b, len, limit))
    \/ Become(Within(b, Balloc(b, len, limit), b.data))

AppendTo(limit) ==
  \/ \E arg \in Args : Become(Bconcat(b, arg, limit))
  \/ \E c \in Chars : Become(Bconchar(b, c, limit))
  \/ \E t \in Texts :
       Become(Bcatblk(b, t, limit)) \/ Become(Bcatcstr(b, t, limit))

\* A part that is all of a string that fills its block: bassign may move the block
\* before it reads the part, and the callers of Next do without it.
Displaced(arg) == ~arg.own /\ Len(arg.text) >= b.mlen

Assign(limit) ==
  \/ \E arg \in Args : ~Displaced(arg) /\ Become(Bassign(b, arg, limit))
  \/ \E t \in Texts :
       Become(Bassigncstr(b, t, limit)) \/ Become(Bassignblk(b, t, limit))

Cut ==
  \E pos \in Positions :
    Become(Btrunc(b, pos)) \/ \E len \in Positions : Become(Bdelete(b, pos, len))

Edit(limit) ==
  \E pos \in Positions, c \in Chars :
    \/ \E arg \in Args :
         \/ Become(Bsetstr(b, pos, arg, c, limit))
         \/ Become(Binsert(b, pos, arg, c, limit))
         \/ \E len \in Positions : Become(Breplace(b, pos, len, arg, c, limit))
    \/ \E len \in Positions : Become(Binsertch(b, pos, len, c, limit))
    \/ Become(Bpattern(b, pos, limit))

\* A longer text that is a part of the string before pos: it is not copied (see
\* ReplacesByAnyPart), and the callers of Next do without it.
Overlooked(find, repl, pos) ==
  /\ ~repl.own /\ repl.left + Len(repl.text) <= pos
  /\ Len(repl.text) > Len(find.text)

FindReplace(limit) ==
  \E find, repl \in Args, pos \in Positions :
    /\ ~Overlooked(find, repl, pos)
    /\ Become(Bfindreplace(b, find, repl, pos, limit))

\* A string that a failed call has left without its zero byte is not used again; one
\* whose zero byte was written one past its block is.
Next ==
  \/ b.ended /\ Cut
  \/ \E limit \in Limits :
       \/ Create(limit)
       \/ b.ended /\ (Size(limit) \/ AppendTo(limit) \/ Assign(limit))
       \/ b.ended /\ (Edit(limit) \/ FindReplace(limit))

Spec == Init /\ [][Next]_vars

-----------------------------------------------------------------------------
(* Properties.                                                             *)

\* The characters are written ones and inside the block: nothing but the zero
\* byte after them is ever past it, and by one place.
\* After a call that failed half-way there may be none, and the block is full.
TypeOK ==
  /\ b \in [data : Seq(Chars), mlen : Nat, ended : BOOLEAN]
  /\ IF b.ended THEN Len(b.data) <= b.mlen ELSE Len(b.data) = b.mlen

\* A call does what its comment says, or it fails and changes nothing.
Keeps(outcome, meant) ==
  IF outcome.failed THEN outcome.b = b ELSE outcome.b.data = meant

\* Whatever the sizes of block and string, and whether its argument is another
\* string or part of the one it changes: each call that edits the string leaves
\* the characters its comment promises, or, when there is no memory, the string
\* as it was.  Only bassign may lose a part that fills its block.
EditsKeepPromise ==
  b.ended => \A limit \in Limits, arg \in Args :
    /\ Keeps(Bconcat(b, arg, limit), b.data \o arg.text)
    /\ Displaced(arg) \/ Keeps(Bassign(b, arg, limit), arg.text)
    /\ \A pos \in Positions, c \in Chars :
         /\ Keeps(Bsetstr(b, pos, arg, c, limit), Overlaid(b.data, pos, arg.text, c))
         /\ Keeps(Binsert(b, pos, arg, c, limit), Inserted(b.data, pos, arg.text, c))
         /\ \A len \in Positions :
              /\ Keeps(Breplace(b, pos, len, arg, c, limit),
                       Replaced(b.data, pos, len, arg.text, c))
              /\ Keeps(Bdelete(b, pos, len), Without(b.data, pos, len))
              /\ Keeps(Binsertch(b, pos, len, c, limit),
                       IF pos <= Len(b.data)
                         THEN Inserted(b.data, pos, Fill(len, c), c)
                         ELSE b.data \o Fill(pos + len - Len(b.data), c))
         /\ Keeps(Bpattern(b, pos, limit), Repeated(b.data, pos))

\* bfindreplace gives the text with each of the leftmost places replaced.
ReplacesGiven(limit, find, repl, pos) ==
  Keeps(Bfindreplace(b, find, repl, pos, limit),
        AllReplaced(b.data, find.text, repl.text, pos))

\* Replacing in place, to the left and to the right all give that text, also by
\* or of a part of the string itself, unless the string has to grow and repl is
\* a part of it before pos.
ReplacesAll ==
  b.ended => \A limit \in Limits, find, repl \in Args, pos \in Positions :
    Overlooked(find, repl, pos) \/ ReplacesGiven(limit, find, repl, pos)

\* The comment of bfindreplace makes no exception.
ReplacesByAnyPart ==
  b.ended => \A limit \in Limits, find, repl \in Args, pos \in Positions :
    ReplacesGiven(limit, find, repl, pos)

\* The calls that copy a C string before they know how long it is give the whole
\* string, or, when there is no memory for it, the part that fits.
CopiesOrFills ==
  b.ended => \A limit \in Limits, t \in Texts :
    LET meets(outcome, meant) ==
          IF ~outcome.failed THEN outcome.b.ended /\ outcome.b.data = meant
          ELSE /\ ~outcome.b.ended /\ Len(outcome.b.data) = b.mlen
               /\ IsPrefix(outcome.b.data, meant)
    IN  /\ meets(Bcatcstr(b, t, limit), b.data \o t)
        /\ meets(Bassigncstr(b, t, limit), t)

=============================================================================
