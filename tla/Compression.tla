----------------------------- MODULE Compression -----------------------------
(***************************************************************************)
(* gzip_compress of src/src/compression.c.  zlib is external: deflate() has *)
(* Total bytes to write, the i-th of which is called i, and writes as many  *)
(* as there is room for.  Allocations succeed.                             *)
(***************************************************************************)
EXTENDS Integers

CONSTANTS
  Totals,      \* what the length of the compressed form may be
  Capacity0    \* the first size of the output

ASSUME CompressionAssumption == Totals \subseteq Nat /\ Capacity0 \in Nat \ {0}

VARIABLES
  Total,       \* the length of the compressed form
  total_out,   \* what zs.total_out counts
  next_out,    \* where in the output zs.next_out points, counted from 0
  avail_out,   \* zs.avail_out
  capacity,
  output,      \* the bytes that are written of *output, which begins at 1
  zs,          \* "none", "open" or "ended"
  owned,       \* whether *output is allocated
  ret          \* of deflate or, at the end, gzip_compress

vars == <<Total, total_out, next_out, avail_out, capacity, output, zs, owned, ret>>

Rets == {"start", "called", "Z_OK", "Z_STREAM_END", "Z_ERROR", "0", "-1"}

Init ==
  /\ Total = 0 /\ total_out = 0 /\ next_out = 0 /\ avail_out = 0
  /\ capacity = Capacity0 /\ output = [i \in {} |-> 0]
  /\ zs = "none" /\ owned = FALSE /\ ret = "start"

\* deflateInit2 fails, or the output gets its first size.  The compressed form
\* will have length bytes.
Begin(length) ==
  /\ ret = "start"
  /\ Total' = length
  /\ \/ ret' = "-1" /\ UNCHANGED <<zs, owned, avail_out>>
     \/ ret' = "called" /\ zs' = "open" /\ owned' = TRUE /\ avail_out' = capacity
  /\ UNCHANGED <<total_out, next_out, capacity, output>>

\* deflate(Z_FINISH): Z_OK when the room is used up, perhaps just by the last
\* byte; it may fail instead.
Deflate(n) ==
  LET new == (next_out + 1) .. (next_out + n)
  IN  /\ ret = "called"
      /\ n <= avail_out /\ n <= Total - total_out
      /\ \/ n = avail_out /\ ret' = "Z_OK"
         \/ n = Total - total_out /\ ret' = "Z_STREAM_END"
         \/ n = 0 /\ ret' = "Z_ERROR"
      /\ output' = [i \in DOMAIN output \cup new |->
                      IF i \in new THEN total_out + (i - next_out) ELSE output[i]]
      /\ total_out' = total_out + n /\ next_out' = next_out + n
      /\ avail_out' = avail_out - n
      /\ UNCHANGED <<Total, capacity, zs, owned>>

\* Mutant: the size stays as it is.
LargerNot(size) == size

Larger(size) == 2 * size

\* zs.avail_out
Room(size, used) == size - used

\* zs.next_out
Continue(used) == used

\* The body of the loop; realloc keeps what is written.
Grow ==
  /\ ret = "Z_OK"
  /\ capacity' = Larger(capacity)
  /\ next_out' = Continue(total_out)
  /\ avail_out' = Room(Larger(capacity), total_out)
  /\ ret' = "called"
  /\ UNCHANGED <<Total, total_out, output, zs, owned>>

\* Mutant: the output is not freed.
KeepOutput == TRUE

\* Whether the output is allocated after an error.
OwnedAfterError == FALSE

Fail ==
  /\ ret = "Z_ERROR"
  /\ ret' = "-1" /\ zs' = "ended" /\ owned' = OwnedAfterError
  /\ UNCHANGED <<Total, total_out, next_out, avail_out, capacity, output>>

Succeed ==
  /\ ret = "Z_STREAM_END"
  /\ ret' = "0" /\ zs' = "ended"
  /\ UNCHANGED <<Total, total_out, next_out, avail_out, capacity, output, owned>>

\* After Begin.
Compress ==
  \/ Grow \/ Fail \/ Succeed
  \/ \E n \in 0 .. avail_out : Deflate(n)

Next == Compress \/ \E length \in Totals : Begin(length)

Spec == Init /\ [][Next]_vars

\* The child is scheduled, and deflate returns.
FairSpec == Spec /\ WF_vars(Compress)

-----------------------------------------------------------------------------
(* Properties.                                                             *)

\* The variables have their types; every byte that is written is inside the
\* output, whatever that has grown to; and the room deflate is told of ends where
\* the output does: none of it is wasted, and none is past it.
TypeOK ==
  /\ Total \in Totals \cup {0} /\ total_out \in 0 .. Total
  /\ next_out \in Nat /\ avail_out \in Nat /\ capacity \in Nat
  /\ zs \in {"none", "open", "ended"} /\ owned \in BOOLEAN /\ ret \in Rets
  /\ DOMAIN output \subseteq 1 .. capacity
  /\ zs = "open" => next_out + avail_out = capacity

\* The compressed form is returned whole and in order, however often the output
\* was resized; after a failure nothing stays allocated, in zlib or here.
WholeOrNothing ==
  /\ ret = "0" => /\ zs = "ended" /\ owned
                  /\ total_out = Total
                  /\ output = [i \in 1 .. Total |-> i]
  /\ ret = "-1" => zs # "open" /\ ~owned

\* It returns: resizing makes room for more.
Returns == ret = "called" ~> ret \in {"0", "-1"}

=============================================================================
