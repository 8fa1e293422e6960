-------------------------- MODULE CompressionProofs --------------------------
(***************************************************************************)
(* gzip_compress for any first size of its output and any length of the     *)
(* compressed form, alone and as the builder of a response calls it: it     *)
(* never writes outside its output, and returns the whole form or nothing.  *)
(***************************************************************************)
EXTENDS Responses, SequenceLemmas

-----------------------------------------------------------------------------
(* gzip_compress alone.                                                    *)

\* The states of ret in which zlib's stream and the output are held.
Working == {"called", "Z_OK", "Z_STREAM_END", "Z_ERROR"}

\* What WholeOrNothing needs: the output holds the bytes written so far, in order
\* and without a gap, and next_out points behind them, although realloc moves the
\* output and next_out is computed anew; nothing is held before the first call or
\* after the last.
Progress ==
  /\ next_out = total_out
  /\ output = [i \in 1 .. total_out |-> i]
  /\ ret = "start" => total_out = 0 /\ capacity = Capacity0
  /\ ret = "Z_STREAM_END" => total_out = Total
  /\ ret = "0" => total_out = Total /\ zs = "ended" /\ owned
  /\ ret = "-1" => zs # "open" /\ ~owned
  /\ ret = "start" => zs = "none" /\ ~owned
  /\ ret \in Working => zs = "open" /\ owned

CInv == TypeOK /\ Progress

\* gzip_compress begins with nothing written and nothing held.
LEMMA CInvInit == Init => CInv
<1> SUFFICES ASSUME Init PROVE CInv
  OBVIOUS
<1>1. output = [i \in 1 .. total_out |-> i] /\ DOMAIN output \subseteq 1 .. capacity
  <2>1. 1 .. 0 = {}
    OBVIOUS
  <2>2. [i \in {} |-> 0] = [i \in {} |-> i]
    OBVIOUS
  <2> QED
    BY <2>1, <2>2 DEF Init
<1>2. owned = FALSE /\ owned \in BOOLEAN
  BY DEF Init
<1>3. TypeOK
  BY <1>1, <1>2, CompressionAssumption DEF Init, TypeOK, Rets
<1> QED
  BY <1>1, <1>2, <1>3 DEF Init, CInv, Progress, Working

\* deflate appends to the output and stays inside it.
LEMMA DeflateStep ==
  ASSUME CInv, NEW n \in 0 .. avail_out, Deflate(n)
  PROVE  CInv'
<1>1. /\ total_out \in Nat /\ total_out + n \in 0 .. Total /\ total_out' = total_out + n
      /\ next_out' = total_out' /\ avail_out' = avail_out - n /\ avail_out' \in Nat
      /\ total_out + avail_out = capacity /\ capacity \in Nat /\ avail_out \in Nat
      /\ zs = "open" /\ owned /\ Total \in Nat
  BY CompressionAssumption DEF Deflate, CInv, TypeOK, Progress, Working
<1>2. output' = [i \in 1 .. total_out' |-> i]
  <2>1. (1 .. total_out) \cup ((total_out + 1) .. (total_out + n)) = 1 .. total_out'
    BY <1>1
  <2>2. output' = [i \in 1 .. total_out' |->
                     IF i \in (total_out + 1) .. (total_out + n)
                       THEN total_out + (i - total_out) ELSE output[i]]
    BY <2>1 DEF Deflate, CInv, Progress
  <2>3. ASSUME NEW i \in 1 .. total_out'
        PROVE  (IF i \in (total_out + 1) .. (total_out + n)
                  THEN total_out + (i - total_out) ELSE output[i]) = i
    BY <1>1 DEF CInv, Progress
  <2> QED
    BY <2>2, <2>3
<1>3. DOMAIN output' \subseteq 1 .. capacity
  <2>1. total_out' <= capacity
    BY <1>1
  <2>2. 1 .. total_out' \subseteq 1 .. capacity
    BY <1>1, <2>1
  <2> QED
    BY <1>2, <2>2
<1>4. /\ UNCHANGED <<Total, capacity, zs, owned>>
      /\ ret' \in {"Z_OK", "Z_STREAM_END", "Z_ERROR"}
      /\ ret' = "Z_STREAM_END" => n = Total - total_out
  BY DEF Deflate
<1>5. TypeOK'
  BY <1>1, <1>3, <1>4 DEF CInv, TypeOK, Progress, Rets
<1>6. Progress'
  BY <1>1, <1>2, <1>4 DEF CInv, TypeOK, Progress, Working
<1> QED
  BY <1>5, <1>6 DEF CInv

\* The first call of deflate finds an output of the first size, all of it free.
LEMMA BeginStep ==
  ASSUME CInv, NEW length \in Totals, Begin(length)
  PROVE  CInv'
<1>1. length \in Nat /\ zs = "none" /\ ~owned /\ total_out = 0
  BY CompressionAssumption DEF Begin, CInv, Progress
<1>2. /\ UNCHANGED <<total_out, next_out, capacity, output>> /\ Total' = length
      /\ \/ ret' = "-1" /\ UNCHANGED <<zs, owned, avail_out>>
         \/ ret' = "called" /\ zs' = "open" /\ owned' /\ avail_out' = capacity
  BY DEF Begin
<1>3. owned' \in BOOLEAN
  BY <1>2, Zenon DEF CInv, TypeOK
<1>4. next_out = 0
  BY <1>1 DEF CInv, Progress
<1>5. TypeOK'
  BY <1>1, <1>2, <1>3, <1>4 DEF CInv, TypeOK, Rets
<1>6. Progress'
  BY <1>1, <1>2, <1>4 DEF CInv, Progress, Working
<1> QED
  BY <1>5, <1>6 DEF CInv

\* Growing adds room behind what is written, and only there.
LEMMA GrowStep ==
  ASSUME CInv, Grow
  PROVE  CInv'
<1>1. /\ UNCHANGED <<Total, total_out, output, zs, owned>> /\ ret' = "called"
      /\ capacity' = 2 * capacity /\ next_out' = total_out
      /\ avail_out' = 2 * capacity - total_out
      /\ zs = "open" /\ owned
      /\ total_out \in Nat /\ avail_out \in Nat /\ total_out + avail_out = capacity
      /\ Total \in Nat /\ capacity \in Nat
  BY CompressionAssumption
     DEF Grow, Larger, Room, Continue, CInv, TypeOK, Progress, Working
<1>2. 1 .. capacity \subseteq 1 .. capacity'
  BY <1>1
<1>3. TypeOK'
  BY <1>1, <1>2 DEF CInv, TypeOK, Rets
<1>4. Progress'
  BY <1>1 DEF CInv, Progress, Working
<1> QED
  BY <1>3, <1>4 DEF CInv

\* Every step of gzip_compress keeps the invariant.
LEMMA CInvStep == CInv /\ [Next]_vars => CInv'
<1> SUFFICES ASSUME CInv, [Next]_vars PROVE CInv'
  OBVIOUS
<1>1. ASSUME NEW length \in Totals, Begin(length) PROVE CInv'
  BY <1>1, BeginStep
<1>2. ASSUME NEW n \in 0 .. avail_out, Deflate(n) PROVE CInv'
  BY <1>2, DeflateStep
<1>3. CASE Grow
  BY <1>3, GrowStep
<1>4. CASE Fail
  <2>1. /\ UNCHANGED <<Total, total_out, next_out, avail_out, capacity, output>>
        /\ ret' = "-1" /\ zs' = "ended" /\ owned' = FALSE
    BY <1>4 DEF Fail, OwnedAfterError
  <2>2. TypeOK'
    BY <2>1 DEF CInv, TypeOK, Rets
  <2>3. Progress'
    BY <2>1 DEF CInv, Progress, Working
  <2> QED
    BY <2>2, <2>3 DEF CInv
<1>5. CASE Succeed
  <2>1. /\ UNCHANGED <<Total, total_out, next_out, avail_out, capacity, output, owned>>
        /\ ret' = "0" /\ zs' = "ended" /\ owned /\ total_out = Total
    BY <1>5 DEF Succeed, CInv, Progress, Working
  <2>2. TypeOK'
    BY <2>1 DEF CInv, TypeOK, Rets
  <2>3. Progress'
    BY <2>1 DEF CInv, Progress, Working
  <2> QED
    BY <2>2, <2>3 DEF CInv
<1>6. CASE UNCHANGED vars
  BY <1>6 DEF vars, CInv, TypeOK, Progress
<1> QED
  BY <1>1, <1>2, <1>3, <1>4, <1>5, <1>6 DEF Next, Compress

\* gzip_compress writes no byte outside its output and leaves none out, for any
\* first size and any length: it returns the whole form in order, or keeps nothing
\* allocated.
THEOREM CompressedWhole == Spec => [](TypeOK /\ WholeOrNothing)
<1>1. CInv => TypeOK /\ WholeOrNothing
  BY DEF CInv, Progress, WholeOrNothing
<1> QED
  BY <1>1, CInvInit, CInvStep, PTL DEF Spec

-----------------------------------------------------------------------------
(* gzip_compress as the option COMPRESSION_GZIP calls it.                   *)

\* What the option needs: only a builder with a body compresses, and the body does
\* not change before gzip_compress has returned, so that what it returns is the
\* form of that body.
Asked ==
  /\ {"body", "gzip"} \subseteq DOMAIN asked
  /\ builder # NULL => /\ "data" \in DOMAIN builder
                       /\ builder.data # NULL => asked.body \in Messages
  /\ Calling => asked.body \in Messages /\ Total = Len(Gzip[asked.body])

\* Nothing is asked before the first step.
LEMMA AskedInit == GInit => Asked
  BY DEF GInit, Init, R!Init, Asked, Calling

\* The builder's other calls are not made while gzip_compress runs.
LEMMA AskedBuilder ==
  ASSUME Asked, Builder
  PROVE  Asked'
<1>1. ~Calling /\ UNCHANGED vars /\ R!Call
  BY DEF Builder
<1>2. ASSUME NEW status \in R!Statuses, NEW exact \in BOOLEAN,
             R!Create(status, exact)
      PROVE  Asked'
  BY <1>1, <1>2 DEF R!Create, Asked, Calling, vars
<1>3. ASSUME NEW type \in {"text/plain", "application/octet-stream"},
             NEW m \in Messages, R!PlainMessage(type, m)
      PROVE  Asked'
  <2>1. builder # NULL /\ asked' = [asked EXCEPT !.body = m]
    BY <1>3 DEF R!PlainMessage, R!Building
  <2>2. /\ asked'.body = m /\ asked'.gzip = asked.gzip
        /\ {"body", "gzip"} \subseteq DOMAIN asked'
    BY <2>1 DEF Asked
  <2>3. DOMAIN builder' = DOMAIN builder
    BY <1>3 DEF R!PlainMessage
  <2> QED
    BY <1>1, <2>1, <2>2, <2>3 DEF Asked, Calling, vars
<1>4. CASE R!Close
  <2>1. /\ {"body", "gzip"} \subseteq DOMAIN asked'
        /\ asked'.body = asked.body /\ asked'.gzip = asked.gzip
        /\ builder # NULL
    BY <1>4 DEF R!Close, R!Building, Asked
  <2>2. "data" \in DOMAIN builder' /\ builder'.data = builder.data
    BY <1>4, <2>1 DEF R!Close, Asked
  <2> QED
    BY <1>1, <2>1, <2>2 DEF Asked, Calling, vars
<1>5. CASE R!Construct
  BY <1>1, <1>5 DEF R!Construct, R!Building, Asked, Calling, vars
<1>6. CASE R!ToBuffer \/ R!Send
  BY <1>1, <1>6 DEF R!ToBuffer, R!Send, Asked, Calling, vars
<1> QED
  BY <1>1, <1>2, <1>3, <1>4, <1>5, <1>6 DEF R!Call

\* gzip_compress is begun on a body, and keeps to its length until the builder has
\* taken the result.
LEMMA AskedStep == Asked /\ [GNext]_<<vars, responseVars>> => Asked'
<1> SUFFICES ASSUME Asked, [GNext]_<<vars, responseVars>> PROVE Asked'
  OBVIOUS
<1>1. CASE Builder
  BY <1>1, AskedBuilder
<1>2. CASE CallGzip
  <2>1. /\ builder # NULL /\ builder.data # NULL /\ UNCHANGED responseVars
        /\ Total' = Len(Gzip[asked.body])
    BY <1>2 DEF CallGzip, R!MayCompress, R!Building, Begin
  <2> QED
    BY <2>1 DEF Asked, responseVars
<1>3. CASE InGzip
  <2>1. Total' = Total /\ UNCHANGED responseVars /\ Calling
    BY <1>3 DEF InGzip, Compress, Grow, Fail, Succeed, Deflate
  <2> QED
    BY <2>1 DEF Asked, responseVars
<1>4. CASE Returned
  <2>1. /\ UNCHANGED vars /\ Calling
        /\ builder # NULL /\ builder.data # NULL
        /\ \E result : R!Compress(result)
    BY <1>4 DEF Returned, R!Compress, R!MayCompress, R!Building
  <2>2. PICK result : R!Compress(result)
    BY <2>1
  <2>3. /\ asked' = [asked EXCEPT !.gzip = result # NULL]
        /\ asked'.body = asked.body /\ {"body", "gzip"} \subseteq DOMAIN asked'
    BY <2>2 DEF R!Compress, Asked
  <2>4. builder' = builder \/ "data" \in DOMAIN builder'
    BY <2>1, <2>2 DEF R!Compress, Asked
  <2>5. builder # NULL /\ asked.body \in Messages /\ Total' = Total
        /\ Total = Len(Gzip[asked.body])
    BY <2>1 DEF Asked, vars
  <2> QED
    BY <2>1, <2>3, <2>4, <2>5 DEF Asked
<1>5. CASE UNCHANGED <<vars, responseVars>>
  BY <1>5 DEF Asked, Calling, vars, responseVars
<1> QED
  BY <1>1, <1>2, <1>3, <1>4, <1>5 DEF GNext

\* Whatever the builder does around it, gzip_compress is called as the module
\* Compression says, so that what is proved of it alone holds inside a response.
THEOREM GzipIsCompression == GSpec => Spec
<1>1. GInit => Init /\ Asked
  BY AskedInit DEF GInit
<1>2. Asked /\ [GNext]_<<vars, responseVars>> => [Next]_vars
  <2> SUFFICES ASSUME Asked, [GNext]_<<vars, responseVars>> PROVE [Next]_vars
    OBVIOUS
  <2>1. CASE CallGzip
    <3>1. builder # NULL /\ builder.data # NULL /\ Begin(Len(Gzip[asked.body]))
      BY <2>1 DEF CallGzip, R!MayCompress, R!Building
    <3>2. Len(Gzip[asked.body]) \in Totals
      BY <3>1, GzipResponseAssumption DEF Asked
    <3> QED
      BY <3>1, <3>2 DEF Next
  <2> QED
    BY <2>1 DEF GNext, Builder, InGzip, Returned, Next
<1> QED
  BY <1>1, <1>2, AskedStep, PTL DEF GSpec, Spec

\* So its output is whole, or there is none, in every response that asks for it.
COROLLARY GzipWhole == GSpec => [](TypeOK /\ WholeOrNothing)
  BY GzipIsCompression, CompressedWhole, PTL

\* The bytes the option copies, from the start of the output and as many as
\* gzip_compress counted, are the compressed form: none is missing, and none is
\* past the output.
LEMMA CopiedIsWhole ==
  ASSUME CInv, Asked, Calling, ret = "0"
  PROVE  Copied = R!Bytes(Gzip[asked.body])
<1>1. /\ total_out = Len(Gzip[asked.body])
      /\ output = [i \in 1 .. total_out |-> i]
  BY DEF CInv, Progress, Asked
<1>2. \A i \in 1 .. total_out : i \in DOMAIN output /\ output[i] = i
  BY <1>1
<1> QED
  BY <1>1, <1>2 DEF Copied, R!Bytes

\* A response whose option calls gzip_compress step by step is one whose option
\* compresses at once or fails: the module Response, which takes it so, leaves out
\* nothing that the headers or the body could show.
THEOREM GzipImplementsResponse == GSpec => R!Spec
<1>1. GInit => CInv /\ Asked /\ R!Init
  BY AskedInit, CInvInit DEF GInit
<1>2. CInv /\ Asked /\ [GNext]_<<vars, responseVars>> => [R!Next]_R!vars
  <2> SUFFICES ASSUME CInv, Asked, [GNext]_<<vars, responseVars>>
               PROVE  [R!Next]_R!vars
    OBVIOUS
  <2>1. CASE Returned
    <3>1. R!Compress(IF ret = "0" THEN Copied ELSE NULL) /\ Calling
      BY <2>1 DEF Returned
    <3>2. R!MayCompress
      BY <3>1 DEF R!Compress
    <3>3. (IF ret = "0" THEN Copied ELSE NULL) \in {NULL, R!Bytes(Gzip[asked.body])}
      BY <3>1, CopiedIsWhole
    <3> QED
      BY <3>1, <3>2, <3>3 DEF R!Next
  <2>2. CASE Builder
    BY <2>2 DEF Builder, R!Next
  <2>3. CASE CallGzip \/ InGzip \/ UNCHANGED <<vars, responseVars>>
    BY <2>3 DEF CallGzip, InGzip, responseVars, R!vars
  <2> QED
    BY <2>1, <2>2, <2>3 DEF GNext
<1>3. GSpec => []CInv
  <2>1. Spec => []CInv
    BY CInvInit, CInvStep, PTL DEF Spec
  <2> QED
    BY <2>1, GzipIsCompression, PTL
<1> QED
  BY <1>1, <1>2, <1>3, AskedStep, PTL DEF GSpec, R!Spec

-----------------------------------------------------------------------------
(* The headers of a response.                                              *)

\* One header of this name is there, with this value; none is.
Once(h, key, value) ==
  \E i \in 1 .. Len(h) : /\ h[i] = R!Header(key, value)
                         /\ \A j \in 1 .. Len(h) : h[j].key = key => j = i

Never(h, key) == \A i \in 1 .. Len(h) : h[i].key # key

\* A header more, of another name.
LEMMA AddOther ==
  ASSUME NEW S, NEW h \in Seq(S), NEW f, NEW key, f.key # key
  PROVE  /\ Never(h, key) => Never(Append(h, f), key)
         /\ \A value : Once(h, key, value) => Once(Append(h, f), key, value)
<1> DEFINE g == Append(h, f)
           n == Len(h)
<1>1. /\ n \in Nat /\ Len(g) = n + 1 /\ g[n + 1] = f
      /\ \A i \in 1 .. n : g[i] = h[i]
  BY AppendAny
<1> HIDE DEF g
<1>2. \A i \in 1 .. n + 1 : i \in 1 .. n \/ i = n + 1
  BY <1>1
<1>3. \A i \in 1 .. n : i \in 1 .. n + 1
  BY <1>1
<1>4. Never(h, key) => Never(g, key)
  BY <1>1, <1>2 DEF Never
<1>5. ASSUME NEW value, Once(h, key, value)
      PROVE  Once(g, key, value)
  <2>1. PICK i \in 1 .. n : /\ h[i] = R!Header(key, value)
                            /\ \A j \in 1 .. n : h[j].key = key => j = i
    BY <1>5 DEF Once
  <2>2. g[i] = R!Header(key, value) /\ i \in 1 .. Len(g)
    BY <1>1, <1>3, <2>1
  <2>3. \A j \in 1 .. Len(g) : g[j].key = key => j = i
    BY <1>1, <1>2, <2>1
  <2> QED
    BY <2>2, <2>3 DEF Once
<1> QED
  BY <1>4, <1>5 DEF g

\* The first of its name.
LEMMA AddFirst ==
  ASSUME NEW S, NEW h \in Seq(S), NEW key, NEW value, Never(h, key)
  PROVE  Once(Append(h, R!Header(key, value)), key, value)
<1> DEFINE f == R!Header(key, value)
           g == Append(h, f)
           n == Len(h)
<1>1. /\ n \in Nat /\ Len(g) = n + 1 /\ g[n + 1] = f
      /\ \A i \in 1 .. n : g[i] = h[i]
  BY AppendAny
<1> HIDE DEF g
<1>2. \A i \in 1 .. n + 1 : i \in 1 .. n \/ i = n + 1
  BY <1>1
<1>3. \A i \in 1 .. Len(g) : g[i].key = key => i = n + 1
  BY <1>1, <1>2 DEF Never
<1>4. n + 1 \in 1 .. Len(g)
  BY <1>1
<1> QED
  BY <1>1, <1>3, <1>4 DEF Once, g

\* Without the only header of its name.
LEMMA DeleteOnce ==
  ASSUME NEW S, NEW h \in Seq(S), NEW key, NEW i \in 1 .. Len(h), h[i].key = key,
         \A j \in 1 .. Len(h) : h[j].key = key => j = i,
         NEW g, g = RemoveAt(h, i)
  PROVE  /\ g \in Seq(S) /\ Never(g, key)
         /\ \A other : other # key => /\ Never(h, other) => Never(g, other)
                                      /\ \A v : Once(h, other, v) => Once(g, other, v)
<1> DEFINE n == Len(h)
<1>1. \A j \in 1 .. n : h[j].key = key => j = i
  OBVIOUS
<1>2. n \in Nat /\ i \in 1 .. n /\ h[i].key = key
  BY LenProperties
<1>4. /\ g \in Seq(S) /\ Len(g) = n - 1
      /\ \A m \in 1 .. i - 1 : g[m] = h[m]
      /\ \A m \in i .. n - 1 : g[m] = h[m + 1]
  BY RemoveOne
<1>5. \A m \in 1 .. n - 1 : \E j \in 1 .. n : /\ j # i /\ g[m] = h[j]
                                              /\ j = IF m < i THEN m ELSE m + 1
  <2>1. ASSUME NEW m \in 1 .. n - 1
        PROVE  \E j \in 1 .. n : /\ j # i /\ g[m] = h[j]
                                 /\ j = IF m < i THEN m ELSE m + 1
    <3>1. CASE m < i
      <4>1. m \in 1 .. i - 1 /\ m \in 1 .. n /\ m # i
        BY <1>2, <3>1
      <4> QED
        BY <1>4, <3>1, <4>1
    <3>2. CASE ~(m < i)
      <4>1. m \in i .. n - 1 /\ m + 1 \in 1 .. n /\ m + 1 # i
        BY <1>2, <3>2
      <4> QED
        BY <1>4, <3>2, <4>1
    <3> QED
      BY <3>1, <3>2
  <2> QED
    BY <2>1
<1>6. Never(g, key)
  <2>1. ASSUME NEW m \in 1 .. Len(g)
        PROVE  g[m].key # key
    <3>1. PICK j \in 1 .. n : j # i /\ g[m] = h[j]
      BY <1>4, <1>5
    <3> QED
      BY <1>1, <3>1
  <2> QED
    BY <2>1 DEF Never
<1>7. ASSUME NEW other, other # key
      PROVE  /\ Never(h, other) => Never(g, other)
             /\ \A v : Once(h, other, v) => Once(g, other, v)
  <2>1. Never(h, other) => Never(g, other)
    BY <1>4, <1>5 DEF Never
  <2>2. ASSUME NEW v, Once(h, other, v)
        PROVE  Once(g, other, v)
    <3>1. PICK k \in 1 .. n : /\ h[k] = R!Header(other, v)
                              /\ \A j \in 1 .. n : h[j].key = other => j = k
      BY <2>2 DEF Once
    <3>2. k # i
      BY <1>2, <1>7, <3>1 DEF R!Header
    <3>3. PICK m \in 1 .. n - 1 : k = IF m < i THEN m ELSE m + 1
      <4>1. CASE k < i
        <5>1. k \in 1 .. n - 1
          BY <1>2, <4>1
        <5> QED
          BY <4>1, <5>1
      <4>2. CASE k > i
        <5>1. k - 1 \in 1 .. n - 1 /\ ~(k - 1 < i) /\ (k - 1) + 1 = k
          BY <1>2, <4>2
        <5> QED
          BY <5>1
      <4> QED
        BY <1>2, <3>2, <4>1, <4>2
    <3>4. g[m] = h[k]
      BY <1>5, <3>3
    <3>5. ASSUME NEW p \in 1 .. n - 1, g[p].key = other
          PROVE  p = m
      <4>1. PICK j \in 1 .. n : g[p] = h[j] /\ j = IF p < i THEN p ELSE p + 1
        BY <1>5
      <4>2. j = k
        BY <3>1, <3>5, <4>1
      <4> QED
        BY <1>2, <3>3, <4>1, <4>2
    <3> QED
      BY <1>4, <3>1, <3>4, <3>5 DEF Once
  <2> QED
    BY <2>1, <2>2
<1> QED
  BY <1>4, <1>6, <1>7

\* What was asked of the builder so far.
Askeds == [status : Nat, body : {NULL} \cup Messages, gzip : {NULL} \cup BOOLEAN,
           close : BOOLEAN, exact : BOOLEAN]

BodySent(a) == IF a.gzip = TRUE THEN Gzip[a.body] ELSE a.body

\* These headers say it.
Says(h, a) ==
  /\ IF a.body = NULL THEN Never(h, "Content-Length")
     ELSE Once(h, "Content-Length", ToString(Len(BodySent(a))))
  /\ IF a.gzip = TRUE THEN Once(h, "Content-Encoding", "gzip")
     ELSE Never(h, "Content-Encoding")
  /\ IF a.close THEN Once(h, "Connection", "close") ELSE Never(h, "Connection")

\* What HeadersAsAsked needs before there is a response: the headers say at every
\* step what was asked so far; while there are none, nothing was asked that needs
\* one but a close, which construct makes up for; only a body is compressed.
Announces(b, a, r) ==
  /\ a \in Askeds
  /\ a.gzip = TRUE => a.body # NULL
  /\ b = NULL => a.body = NULL /\ a.gzip = NULL /\ a.close = FALSE /\ r = NULL
  /\ b # NULL => b \in R!Builders /\ b.close = a.close
  /\ b # NULL /\ b.data # NULL => a.body # NULL
  /\ b # NULL /\ b.headers = NULL => a.body = NULL /\ (r # NULL => a.close = FALSE)
  /\ b # NULL /\ b.headers # NULL => Says(b.headers, a)

HeadersInv == Announces(builder, asked, response)

\* None of the constants' values is taken for the absence of one.
LEMMA NullIsApart ==
  /\ NULL \notin Messages /\ NULL \notin BOOLEAN /\ NULL \notin R!Bodies
  /\ NULL \notin Seq(R!HeaderFields) /\ NULL \notin R!Builders
BY GzipResponseAssumption DEF R!ResponseAssumption, R!ConstantsAssumption

\* The bodies and their compressed forms have a length.
LEMMA SizesOfBodies ==
  ASSUME NEW m \in Messages
  PROVE  /\ Len(m) \in R!Sizes /\ Len(m) \in Nat
         /\ Len(Gzip[m]) \in R!Sizes /\ Len(Gzip[m]) \in Nat
<1>1. Len(m) \in R!Sizes /\ Len(Gzip[m]) \in R!Sizes
  BY GzipResponseAssumption DEF R!ResponseAssumption, R!ConstantsAssumption
<1>2. \A n \in R!Sizes : n \in Nat
  BY GzipResponseAssumption DEF R!ResponseAssumption, R!ConstantsAssumption, R!Sizes
<1> QED
  BY <1>1, <1>2

\* A name and a value of these lists make a header.
LEMMA HeaderIsField ==
  ASSUME NEW key \in R!Names,
         NEW value,
         \/ value \in {"text/plain", "application/octet-stream", "gzip", "close"}
         \/ \E n \in R!Sizes : value = ToString(n)
  PROVE  R!Header(key, value) \in R!HeaderFields
<1>1. value \in R!Values
  BY DEF R!Values
<1> QED
  BY <1>1 DEF R!Header, R!HeaderFields

\* The option CLOSE, or construct for a builder that has no headers, adds the
\* header Connection to headers that did not have it.
LEMMA AddConnection ==
  ASSUME NEW h \in Seq(R!HeaderFields), NEW a \in Askeds, NEW c \in Askeds,
         Says(h, a), a.close = FALSE, c = [a EXCEPT !.close = TRUE]
  PROVE  /\ Append(h, R!Connection) \in Seq(R!HeaderFields)
         /\ Says(Append(h, R!Connection), c)
<1> DEFINE g == Append(h, R!Connection)
<1>1. R!Connection = R!Header("Connection", "close") /\ R!Connection.key = "Connection"
  BY DEF R!Connection, R!Header
<1>2. R!Connection \in R!HeaderFields
  BY <1>1, HeaderIsField DEF R!Names
<1>3. g \in Seq(R!HeaderFields)
  BY <1>2, AppendProperties
<1>4. c.body = a.body /\ c.gzip = a.gzip /\ c.close = TRUE
  BY DEF Askeds
<1>5. Never(h, "Connection")
  BY DEF Says
<1>6. Once(g, "Connection", "close")
  BY <1>1, <1>5, AddFirst
<1>7. ASSUME NEW key, key # "Connection"
      PROVE  /\ Never(h, key) => Never(g, key)
             /\ \A value : Once(h, key, value) => Once(g, key, value)
  BY <1>1, <1>7, AddOther
<1>8. BodySent(c) = BodySent(a)
  BY <1>4 DEF BodySent
<1> HIDE DEF g
<1>9. Says(g, c)
  BY <1>4, <1>6, <1>7, <1>8 DEF Says
<1> QED
  BY <1>3, <1>9 DEF g

\* A text is a sequence of its bytes.
LEMMA OneByteMany ==
  ASSUME NEW S, NEW e \in S, NEW n \in Nat
  PROVE  /\ [i \in 1 .. n |-> e] \in Seq(S)
         /\ Len([i \in 1 .. n |-> e]) = n
<1>1. [i \in 1 .. n |-> e] \in [1 .. n -> S]
  OBVIOUS
<1> QED
  BY <1>1

\* What is copied of a body.
LEMMA Duplicates ==
  ASSUME NEW m \in Messages
  PROVE  /\ R!Duplicate(m) \in R!Bodies
         /\ R!Duplicate(m).terminated = TRUE
         /\ R!Duplicate(m).bytes = [i \in 1 .. Upto[m] |-> m]
         /\ Len(R!Duplicate(m).bytes) = Upto[m]
         /\ Upto[m] \in Nat /\ Upto[m] <= Len(m)
<1>1. PICK S : S = Messages \cup {Gzip[n] : n \in Messages}
  OBVIOUS
<1>2. Upto[m] \in Nat /\ Upto[m] <= Len(m) /\ m \in S
  BY <1>1, GzipResponseAssumption DEF R!ResponseAssumption, R!ConstantsAssumption
<1>3. PICK bytes : bytes = [i \in 1 .. Upto[m] |-> m]
  OBVIOUS
<1>4. bytes \in Seq(S) /\ Len(bytes) = Upto[m]
  BY <1>2, <1>3, OneByteMany
<1>5. R!Duplicate(m) = [bytes |-> bytes, terminated |-> TRUE]
  BY <1>3 DEF R!Duplicate
<1>6. R!Duplicate(m) \in R!Bodies
  BY <1>1, <1>4, <1>5 DEF R!Bodies
<1> QED
  BY <1>2, <1>3, <1>4, <1>5, <1>6

\* The headers of a message of this type, before those of the builder.
LEMMA MessageHeaders ==
  ASSUME NEW type \in {"text/plain", "application/octet-stream"},
         NEW m \in Messages, NEW h,
         h = << R!Header("Content-Type", type),
                R!Header("Content-Length", ToString(Len(m))) >>
  PROVE  /\ h \in Seq(R!HeaderFields)
         /\ Once(h, "Content-Length", ToString(Len(m)))
         /\ Never(h, "Content-Encoding") /\ Never(h, "Connection")
<1>1. R!Header("Content-Type", type) \in R!HeaderFields
  BY HeaderIsField DEF R!Names
<1>2. R!Header("Content-Length", ToString(Len(m))) \in R!HeaderFields
  <2>1. Len(m) \in R!Sizes
    BY SizesOfBodies
  <2> QED
    BY <2>1, HeaderIsField DEF R!Names
<1>3. /\ Len(h) = 2 /\ 1 .. Len(h) = {1, 2}
      /\ h[1] = R!Header("Content-Type", type) /\ h[1].key = "Content-Type"
      /\ h[2] = R!Header("Content-Length", ToString(Len(m)))
      /\ h[2].key = "Content-Length"
  BY DEF R!Header
<1>4. h \in Seq(R!HeaderFields)
  BY <1>1, <1>2
<1>5. Once(h, "Content-Length", ToString(Len(m)))
  BY <1>3 DEF Once
<1>6. Never(h, "Content-Encoding") /\ Never(h, "Connection")
  BY <1>3 DEF Never
<1> QED
  BY <1>4, <1>5, <1>6

\* The options HEADERS and BODY: the headers of the message, and Connection if the
\* option CLOSE was set before.
LEMMA MessageStep ==
  ASSUME NEW a, NEW b, NEW r, Announces(b, a, r), b # NULL, r = NULL, a.body = NULL,
         NEW type \in {"text/plain", "application/octet-stream"}, NEW m \in Messages,
         NEW h, h = R!WithHeaders(b, << R!Header("Content-Type", type),
                       R!Header("Content-Length", ToString(Len(m))) >>),
         NEW b2, b2 = [b EXCEPT !.headers = h,
                         !.data = R!Duplicate(m)],
         NEW a2, a2 = [a EXCEPT !.body = m]
  PROVE  Announces(b2, a2, r)
<1>1. /\ a \in Askeds /\ b \in R!Builders /\ b.close = a.close /\ a.gzip # TRUE
      /\ b.close \in BOOLEAN
  BY DEF Announces, R!Builders
<1>2. /\ a2 \in Askeds /\ a2.body = m /\ a2.gzip = a.gzip /\ a2.close = a.close
      /\ m # NULL
  BY <1>1, NullIsApart DEF Askeds
<1>3. BodySent(a2) = m
  BY <1>1, <1>2 DEF BodySent
<1>4. PICK g : g = << R!Header("Content-Type", type),
                      R!Header("Content-Length", ToString(Len(m))) >>
  OBVIOUS
<1>5. /\ g \in Seq(R!HeaderFields)
      /\ Once(g, "Content-Length", ToString(Len(m)))
      /\ Never(g, "Content-Encoding") /\ Never(g, "Connection")
  BY <1>4, MessageHeaders
<1>6. h = IF b.close THEN Append(g, R!Connection) ELSE g
  BY <1>4 DEF R!WithHeaders
<1>7. h \in Seq(R!HeaderFields) /\ Says(h, a2)
  <2>1. CASE b.close = FALSE
    BY <1>1, <1>2, <1>3, <1>5, <1>6, <2>1 DEF Says
  <2>2. CASE b.close = TRUE
    <3>1. PICK c : c = [a2 EXCEPT !.close = FALSE]
      OBVIOUS
    <3>2. /\ c \in Askeds /\ c.body = m /\ c.gzip = a.gzip /\ c.close = FALSE
          /\ a2 = [c EXCEPT !.close = TRUE]
      BY <1>1, <1>2, <2>2, <3>1 DEF Askeds
    <3>3. BodySent(c) = m
      BY <1>1, <3>2 DEF BodySent
    <3>4. Says(g, c)
      BY <1>1, <1>2, <1>5, <3>2, <3>3 DEF Says
    <3>5. h = Append(g, R!Connection)
      BY <1>6, <2>2
    <3>6. /\ Append(g, R!Connection) \in Seq(R!HeaderFields)
          /\ Says(Append(g, R!Connection), a2)
      BY <1>2, <1>5, <3>2, <3>4, AddConnection
    <3> QED
      BY <3>5, <3>6
  <2> QED
    BY <1>1, <2>1, <2>2
<1>8. R!Duplicate(m) \in R!Bodies
  BY Duplicates
<1>9. /\ b2 \in R!Builders /\ b2.close = a2.close /\ b2.headers = h
  BY <1>1, <1>2, <1>7, <1>8 DEF R!Builders
<1>10. h # NULL
  BY <1>7, NullIsApart
<1>11. b2 # NULL
  BY <1>9, NullIsApart
<1> QED
  BY <1>1, <1>2, <1>7, <1>9, <1>10, <1>11 DEF Announces

\* The option CLOSE.
LEMMA CloseStep ==
  ASSUME NEW a, NEW b, NEW r, Announces(b, a, r), b # NULL, r = NULL,
         b.close = FALSE,
         NEW b2, b2 = [b EXCEPT !.close = TRUE,
                         !.headers = IF @ = NULL THEN NULL ELSE Append(@, R!Connection)],
         NEW a2, a2 = [a EXCEPT !.close = TRUE]
  PROVE  Announces(b2, a2, r)
<1>1. a \in Askeds /\ b \in R!Builders /\ a.close = FALSE
  BY DEF Announces
<1>2. /\ a2 \in Askeds /\ a2.body = a.body /\ a2.gzip = a.gzip /\ a2.close = TRUE
  BY <1>1 DEF Askeds
<1>3. PICK h : h = b.headers
  OBVIOUS
<1>4. /\ b2 = [b EXCEPT !.close = TRUE,
                 !.headers = IF h = NULL THEN NULL ELSE Append(h, R!Connection)]
      /\ b2.data = b.data /\ b2.close = TRUE
      /\ b2.headers = IF h = NULL THEN NULL ELSE Append(h, R!Connection)
  BY <1>1, <1>3 DEF R!Builders
<1>5. h # NULL => /\ Append(h, R!Connection) \in Seq(R!HeaderFields)
                  /\ Says(Append(h, R!Connection), a2)
  <2> SUFFICES ASSUME h # NULL
               PROVE  /\ Append(h, R!Connection) \in Seq(R!HeaderFields)
                      /\ Says(Append(h, R!Connection), a2)
    OBVIOUS
  <2>1. h \in Seq(R!HeaderFields) /\ Says(h, a)
    BY <1>1, <1>3 DEF Announces, R!Builders
  <2> QED
    BY <1>1, <1>2, <2>1, AddConnection
<1>6. b2 \in R!Builders
  BY <1>1, <1>4, <1>5 DEF R!Builders
<1>7. b2 # NULL
  BY <1>6, NullIsApart
<1>8. h # NULL => b2.headers = Append(h, R!Connection) /\ Says(b2.headers, a2)
  BY <1>4, <1>5
<1>9. a.gzip = TRUE => a.body # NULL
  BY DEF Announces
<1>10. b.data # NULL => a.body # NULL
  BY DEF Announces
<1>11. h = NULL => a.body = NULL
  BY <1>3 DEF Announces
<1>12. h = NULL \/ b2.headers # NULL
  BY <1>4, <1>5, NullIsApart
<1> QED
  BY <1>2, <1>4, <1>6, <1>7, <1>8, <1>9, <1>10, <1>11, <1>12 DEF Announces

\* The option COMPRESSION_GZIP takes out the only Content-Length and adds two headers.
LEMMA RelabelledAt ==
  ASSUME NEW S, NEW h \in Seq(S), NEW i \in 1 .. Len(h), h[i].key = "Content-Length",
         \A j \in 1 .. Len(h) : h[j].key = "Content-Length" => j = i,
         NEW n
  PROVE  R!Relabelled(h, n) =
           Append(Append(RemoveAt(h, i), R!Header("Content-Length", ToString(n))),
                  R!Header("Content-Encoding", "gzip"))
<1> DEFINE I == {j \in 1 .. Len(h) : h[j].key = "Content-Length"}
           others == IF \E j \in 1 .. Len(h) : h[j].key = "Content-Length"
                       THEN R!RemoveAt(h, IF I # {} THEN R!Min(I) ELSE 0) ELSE h
<1>1. I = {i}
  OBVIOUS
<1>2. R!Min({i}) = i
  BY DEF R!Min
<1>3. R!RemoveAt(h, i) = RemoveAt(h, i)
  BY DEF R!RemoveAt, RemoveAt
<1>4. others = RemoveAt(h, i)
  BY <1>1, <1>2, <1>3
<1>5. R!Relabelled(h, n) =
        Append(Append(others, R!Header("Content-Length", ToString(n))),
               R!Header("Content-Encoding", "gzip"))
  BY DEF R!Relabelled, R!RemoveFirstMatch, R!SelectInSeq
<1> HIDE DEF others
<1> QED
  BY <1>4, <1>5

\* The bytes of a compressed form are as many as it is long.
LEMMA GzipBytes ==
  ASSUME NEW m \in Messages
  PROVE  /\ Len(Gzip[m]) \in R!Sizes
         /\ R!Bytes(Gzip[m]) \in Seq(Messages \cup {Gzip[k] : k \in Messages})
         /\ Len(R!Bytes(Gzip[m])) = Len(Gzip[m])
<1>1. PICK S : S = Messages \cup {Gzip[k] : k \in Messages}
  OBVIOUS
<1>2. Len(Gzip[m]) \in R!Sizes /\ Len(Gzip[m]) \in Nat
  BY SizesOfBodies
<1>3. Gzip[m] \in S
  BY <1>1
<1>4. R!Bytes(Gzip[m]) = [i \in 1 .. Len(Gzip[m]) |-> Gzip[m]]
  BY DEF R!Bytes
<1>5. R!Bytes(Gzip[m]) \in Seq(S) /\ Len(R!Bytes(Gzip[m])) = Len(Gzip[m])
  BY <1>2, <1>3, <1>4, OneByteMany
<1> QED
  BY <1>1, <1>2, <1>5

\* The headers after the option COMPRESSION_GZIP: the old Content-Length has made
\* way for the new one and for Content-Encoding.
LEMMA RelabelledSays ==
  ASSUME NEW a \in Askeds, NEW h \in Seq(R!HeaderFields), Says(h, a),
         a.body \in Messages, a.body # NULL, a.gzip # TRUE,
         NEW n \in R!Sizes, n = Len(Gzip[a.body]),
         NEW c \in Askeds, c = [a EXCEPT !.gzip = TRUE],
         NEW g2, g2 = R!Relabelled(h, n)
  PROVE  g2 \in Seq(R!HeaderFields) /\ Says(g2, c)
<1>1. c.body = a.body /\ c.gzip = TRUE /\ c.close = a.close
  BY DEF Askeds
<1>2. PICK v : Once(h, "Content-Length", v)
  BY DEF Says
<1>3. PICK i \in 1 .. Len(h) :
        /\ h[i].key = "Content-Length"
        /\ \A j \in 1 .. Len(h) : h[j].key = "Content-Length" => j = i
  BY <1>2 DEF Once, R!Header
<1>4. PICK length : length = R!Header("Content-Length", ToString(n))
  OBVIOUS
<1>5. PICK coding : coding = R!Header("Content-Encoding", "gzip")
  OBVIOUS
<1>6. /\ length \in R!HeaderFields /\ length.key = "Content-Length"
      /\ coding \in R!HeaderFields /\ coding.key = "Content-Encoding"
  BY <1>4, <1>5, HeaderIsField DEF R!Header, R!Names
<1>7. PICK g : g = RemoveAt(h, i)
  OBVIOUS
<1>8. PICK g1 : g1 = Append(g, length)
  OBVIOUS
<1>9. g2 = Append(g1, coding)
  BY <1>3, <1>4, <1>5, <1>7, <1>8, RelabelledAt
<1>10. /\ g \in Seq(R!HeaderFields) /\ Never(g, "Content-Length")
       /\ \A other : other # "Content-Length" =>
            /\ Never(h, other) => Never(g, other)
            /\ \A w : Once(h, other, w) => Once(g, other, w)
  BY <1>3, <1>7, DeleteOnce
<1>11. g1 \in Seq(R!HeaderFields)
  BY <1>6, <1>8, <1>10, AppendProperties
<1>12. Once(g1, "Content-Length", ToString(n))
  BY <1>4, <1>8, <1>10, AddFirst
<1>13. ASSUME NEW key, key # "Content-Length"
       PROVE  /\ Never(h, key) => Never(g1, key)
              /\ \A w : Once(h, key, w) => Once(g1, key, w)
  <2>1. /\ Never(g, key) => Never(g1, key)
        /\ \A w : Once(g, key, w) => Once(g1, key, w)
    BY <1>6, <1>8, <1>10, <1>13, AddOther
  <2> QED
    BY <1>10, <1>13, <2>1
<1>14. g2 \in Seq(R!HeaderFields)
  BY <1>6, <1>9, <1>11, AppendProperties
<1>15. Once(g2, "Content-Length", ToString(n))
  BY <1>6, <1>9, <1>11, <1>12, AddOther
<1>16. Once(g2, "Content-Encoding", "gzip")
  <2>1. Never(g1, "Content-Encoding")
    BY <1>13 DEF Says
  <2> QED
    BY <1>5, <1>9, <1>11, <2>1, AddFirst
<1>17. /\ Never(h, "Connection") => Never(g2, "Connection")
       /\ Once(h, "Connection", "close") => Once(g2, "Connection", "close")
  <2>1. /\ Never(g1, "Connection") => Never(g2, "Connection")
        /\ Once(g1, "Connection", "close") => Once(g2, "Connection", "close")
    BY <1>6, <1>9, <1>11, AddOther
  <2> QED
    BY <1>13, <2>1
<1>18. BodySent(c) = Gzip[a.body]
  BY <1>1 DEF BodySent
<1>19. Says(g2, c)
  BY <1>1, <1>15, <1>16, <1>17, <1>18 DEF Says
<1> QED
  BY <1>14, <1>19

\* The option COMPRESSION_GZIP, when gzip_compress returned these bytes.
LEMMA CompressStep ==
  ASSUME NEW a, NEW b, NEW r, Announces(b, a, r), b # NULL,
         b.headers # NULL, b.data # NULL, a.gzip = NULL,
         NEW text, text = R!Bytes(Gzip[a.body]),
         NEW h, h = R!Relabelled(b.headers, Len(text)),
         NEW b2, b2 = [b EXCEPT !.headers = h,
                         !.data = [bytes |-> text, terminated |-> FALSE]],
         NEW a2, a2 = [a EXCEPT !.gzip = TRUE]
  PROVE  Announces(b2, a2, r)
<1>1. /\ a \in Askeds /\ b \in R!Builders /\ b.close = a.close
      /\ a.body # NULL /\ Says(b.headers, a)
  BY DEF Announces
<1>2. a.body \in Messages /\ a.gzip # TRUE /\ b.headers \in Seq(R!HeaderFields)
  BY <1>1, NullIsApart DEF Askeds, R!Builders
<1>3. /\ a2 \in Askeds /\ a2.body = a.body /\ a2.gzip = TRUE /\ a2.close = a.close
  BY <1>1 DEF Askeds
<1>4. PICK n : n = Len(Gzip[a.body])
  OBVIOUS
<1>5. /\ n \in R!Sizes /\ Len(text) = n
      /\ text \in Seq(Messages \cup {Gzip[k] : k \in Messages})
  BY <1>2, <1>4, GzipBytes
<1>6. h = R!Relabelled(b.headers, n)
  BY <1>5
<1>7. h \in Seq(R!HeaderFields) /\ Says(h, a2)
  BY <1>1, <1>2, <1>3, <1>4, <1>5, <1>6, RelabelledSays
<1>8. [bytes |-> text, terminated |-> FALSE] \in R!Bodies
  BY <1>5 DEF R!Bodies
<1>9. b2 \in R!Builders /\ b2.close = a2.close /\ b2.headers = h
  BY <1>1, <1>3, <1>7, <1>8 DEF R!Builders
<1>10. b2 # NULL /\ h # NULL
  BY <1>7, <1>9, NullIsApart
<1> QED
  BY <1>1, <1>3, <1>7, <1>9, <1>10 DEF Announces

\* Connection alone.
LEMMA OnlyConnection ==
  ASSUME NEW f, f = R!Connection
  PROVE  /\ <<f>> \in Seq(R!HeaderFields) /\ Once(<<f>>, "Connection", "close")
         /\ Never(<<f>>, "Content-Length") /\ Never(<<f>>, "Content-Encoding")
<1>1. f = R!Header("Connection", "close") /\ f.key = "Connection"
  BY DEF R!Connection, R!Header
<1>2. f \in R!HeaderFields
  BY <1>1, HeaderIsField DEF R!Names
<1>3. PICK h : h = <<f>>
  OBVIOUS
<1>4. Len(h) = 1 /\ 1 .. Len(h) = {1} /\ h[1] = f
  BY <1>3
<1>5. h \in Seq(R!HeaderFields)
  BY <1>2, <1>3
<1>6. Once(h, "Connection", "close")
  BY <1>1, <1>4 DEF Once
<1>7. Never(h, "Content-Length") /\ Never(h, "Content-Encoding")
  BY <1>1, <1>4 DEF Never
<1> QED
  BY <1>3, <1>5, <1>6, <1>7

\* http_response_builder_construct: headers for a builder that is to close and has
\* none.
LEMMA ConstructStep ==
  ASSUME NEW a, NEW b, NEW r, Announces(b, a, r), b # NULL,
         NEW h, h = IF b.close /\ b.headers = NULL
                      THEN <<R!Connection>> ELSE b.headers,
         NEW b2, b2 = [b EXCEPT !.headers = h], NEW r2
  PROVE  Announces(b2, a, r2)
<1>1. a \in Askeds /\ b \in R!Builders /\ b.close = a.close
  BY DEF Announces
<1>2. /\ b.close \in BOOLEAN /\ b2.headers = h /\ b2.data = b.data
      /\ b2.close = b.close
  BY <1>1 DEF R!Builders
<1>3. CASE b.close = TRUE /\ b.headers = NULL
  <2>1. PICK f : f = R!Connection
    OBVIOUS
  <2>2. h = <<f>>
    BY <1>3, <2>1
  <2>3. h \in Seq(R!HeaderFields)
    BY <2>1, <2>2, OnlyConnection
  <2>4. Once(h, "Connection", "close")
    BY <2>1, <2>2, OnlyConnection
  <2>5. Never(h, "Content-Length") /\ Never(h, "Content-Encoding")
    BY <2>1, <2>2, OnlyConnection
  <2>6. a.body = NULL /\ a.gzip # TRUE /\ a.close = TRUE
    BY <1>1, <1>3 DEF Announces
  <2>7. Says(h, a)
    BY <2>4, <2>5, <2>6 DEF Says
  <2>8. b2 \in R!Builders
    BY <1>1, <2>3 DEF R!Builders
  <2>9. b2 # NULL /\ h # NULL
    BY <2>3, <2>8, NullIsApart
  <2> QED
    BY <1>1, <1>2, <2>7, <2>8, <2>9 DEF Announces
<1>4. CASE ~(b.close = TRUE /\ b.headers = NULL)
  <2>1. h = b.headers
    BY <1>2, <1>4
  <2>2. b2 = b
    BY <1>1, <2>1 DEF R!Builders
  <2>3. b.headers = NULL => a.close = FALSE
    BY <1>1, <1>2, <1>4
  <2> QED
    BY <2>2, <2>3 DEF Announces
<1> QED
  BY <1>3, <1>4

\* create_http_response_builder.
LEMMA CreateStep ==
  ASSUME NEW a, NEW r, Announces(NULL, a, r),
         NEW status \in R!Statuses, NEW exact \in BOOLEAN,
         NEW b2, b2 = [status |-> status, headers |-> NULL, data |-> NULL,
                       close |-> FALSE],
         NEW a2, a2 = [a EXCEPT !.status = status, !.exact = exact]
  PROVE  Announces(b2, a2, r)
<1>1. /\ a \in Askeds /\ a.body = NULL /\ a.gzip = NULL /\ a.close = FALSE /\ r = NULL
  BY DEF Announces
<1>2. status \in Nat
  BY DEF R!Statuses
<1>3. /\ a2 \in Askeds /\ a2.body = NULL /\ a2.gzip = NULL /\ a2.close = FALSE
  BY <1>1, <1>2 DEF Askeds
<1>4. b2 \in R!Builders /\ b2.close = FALSE /\ b2.headers = NULL /\ b2.data = NULL
  BY DEF R!Builders
<1> QED
  BY <1>1, <1>3, <1>4, NullIsApart DEF Announces

\* Nothing is asked before a builder is created.
LEMMA HeadersInit == R!Init => HeadersInv
<1> SUFFICES ASSUME R!Init PROVE HeadersInv
  OBVIOUS
<1>1. /\ asked = [status |-> 0, body |-> NULL, gzip |-> NULL, close |-> FALSE,
                  exact |-> TRUE]
      /\ builder = NULL /\ response = NULL
  BY DEF R!Init
<1>2. asked \in Askeds
  BY <1>1 DEF Askeds
<1>3. asked.body = NULL /\ asked.gzip = NULL /\ asked.close = FALSE
  BY <1>1
<1> QED
  BY <1>1, <1>2, <1>3, NullIsApart DEF HeadersInv, Announces

\* Every call keeps what the headers say in step with what was asked.
LEMMA HeadersStep == HeadersInv /\ [R!Next]_R!vars => HeadersInv'
<1> SUFFICES ASSUME HeadersInv, [R!Next]_R!vars PROVE HeadersInv'
  OBVIOUS
<1>1. Announces(builder, asked, response)
  BY DEF HeadersInv
<1>2. SUFFICES Announces(builder', asked', response')
  BY DEF HeadersInv
<1>3. ASSUME NEW status \in R!Statuses, NEW exact \in BOOLEAN,
             R!Create(status, exact)
      PROVE  Announces(builder', asked', response')
  <2>1. /\ builder = NULL /\ response' = response
        /\ builder' = [status |-> status, headers |-> NULL, data |-> NULL,
                       close |-> FALSE]
        /\ asked' = [asked EXCEPT !.status = status, !.exact = exact]
    BY <1>3 DEF R!Create
  <2> QED
    BY <1>1, <2>1, CreateStep
<1>4. ASSUME NEW type \in {"text/plain", "application/octet-stream"},
             NEW m \in Messages, R!PlainMessage(type, m)
      PROVE  Announces(builder', asked', response')
  <2>1. /\ builder # NULL /\ response = NULL /\ asked.body = NULL
        /\ response' = response /\ asked' = [asked EXCEPT !.body = m]
    BY <1>4 DEF R!PlainMessage, R!Building
  <2>2. PICK h : h = R!WithHeaders(builder, << R!Header("Content-Type", type),
                         R!Header("Content-Length", ToString(Len(m))) >>)
    OBVIOUS
  <2>3. builder' = [builder EXCEPT !.headers = h,
                      !.data = R!Duplicate(m)]
    BY <1>4, <2>2 DEF R!PlainMessage
  <2> QED
    BY <1>1, <2>1, <2>2, <2>3, MessageStep
<1>5. CASE R!Close
  <2>1. /\ builder # NULL /\ response = NULL /\ response' = response
        /\ asked' = [asked EXCEPT !.close = TRUE]
        /\ builder' = [builder EXCEPT !.close = TRUE,
                         !.headers = IF @ = NULL THEN NULL
                                                 ELSE Append(@, R!Connection)]
    BY <1>5 DEF R!Close, R!Building
  <2>2. builder.close = FALSE
    BY <1>1, <1>5 DEF R!Close, Announces, R!Builders
  <2> QED
    BY <1>1, <2>1, <2>2, CloseStep
<1>6. CASE R!Construct
  <2>1. builder # NULL /\ asked' = asked
    BY <1>6 DEF R!Construct, R!Building
  <2>2. PICK h : h = IF builder.close /\ builder.headers = NULL
                       THEN <<R!Connection>> ELSE builder.headers
    OBVIOUS
  <2>3. builder' = [builder EXCEPT !.headers = h]
    BY <1>6, <2>2 DEF R!Construct
  <2> QED
    BY <1>1, <2>1, <2>2, <2>3, ConstructStep
<1>7. ASSUME R!MayCompress,
             NEW result \in {NULL, R!Bytes(Gzip[asked.body])}, R!Compress(result)
      PROVE  Announces(builder', asked', response')
  <2>1. /\ builder # NULL /\ response' = response
        /\ builder.data # NULL /\ builder.headers # NULL /\ asked.gzip = NULL
        /\ asked' = [asked EXCEPT !.gzip = result # NULL]
    BY <1>7 DEF R!Compress, R!MayCompress, R!Building
  <2>2. CASE result = NULL
    <3>1. builder' = builder /\ asked' = [asked EXCEPT !.gzip = FALSE]
      BY <1>7, <2>1, <2>2 DEF R!Compress
    <3>2. asked \in Askeds
      BY <1>1 DEF Announces
    <3>3. /\ asked' \in Askeds /\ asked'.body = asked.body /\ asked'.gzip = FALSE
          /\ asked'.close = asked.close /\ asked.gzip # TRUE
      BY <2>1, <3>1, <3>2, NullIsApart DEF Askeds
    <3>4. BodySent(asked') = BodySent(asked)
      BY <3>3 DEF BodySent
    <3>5. Says(builder.headers, asked) => Says(builder.headers, asked')
      BY <3>3, <3>4 DEF Says
    <3> QED
      BY <1>1, <2>1, <3>1, <3>3, <3>5 DEF Announces
  <2>3. CASE result # NULL
    <3>1. result = R!Bytes(Gzip[asked.body])
      BY <2>3
    <3>2. PICK h : h = R!Relabelled(builder.headers, Len(result))
      OBVIOUS
    <3>3. builder' = [builder EXCEPT !.headers = h,
                        !.data = [bytes |-> result, terminated |-> FALSE]]
      BY <1>7, <2>3, <3>2 DEF R!Compress
    <3>4. asked' = [asked EXCEPT !.gzip = TRUE]
      BY <2>1, <2>3
    <3> QED
      BY <1>1, <2>1, <3>1, <3>2, <3>3, <3>4, CompressStep
  <2> QED
    BY <2>2, <2>3
<1>8. CASE R!ToBuffer \/ R!Send \/ UNCHANGED R!vars
  BY <1>1, <1>8 DEF R!ToBuffer, R!Send, R!vars
<1> QED
  BY <1>3, <1>4, <1>5, <1>6, <1>7, <1>8 DEF R!Next, R!Call

\* Once there is a response, its headers say what was asked for.
LEMMA HeadersInvSays == HeadersInv => HeadersAsAsked
<1> SUFFICES ASSUME HeadersInv, response # NULL PROVE R!HeadersAsAsked
  BY DEF HeadersAsAsked, R!HeadersAsAsked
<1>1. builder # NULL /\ builder \in R!Builders /\ asked \in Askeds
  BY DEF HeadersInv, Announces
<1>2. PICK h : h = IF builder.headers = NULL THEN <<>> ELSE builder.headers
  OBVIOUS
<1>3. h \in Seq(R!HeaderFields)
  BY <1>1, <1>2 DEF R!Builders
<1>4. DOMAIN h = 1 .. Len(h)
  BY <1>3
<1>5. Says(h, asked)
  <2>1. CASE builder.headers # NULL
    BY <1>1, <1>2, <2>1 DEF HeadersInv, Announces
  <2>2. CASE builder.headers = NULL
    <3>1. asked.body = NULL /\ asked.gzip # TRUE /\ asked.close = FALSE
      BY <1>1, <2>2 DEF HeadersInv, Announces
    <3>2. \A key : Never(h, key)
      BY <1>2, <2>2 DEF Never
    <3> QED
      BY <3>1, <3>2 DEF Says
  <2> QED
    BY <2>1, <2>2
<1>6. \A key : Never(h, key) <=> \A i \in DOMAIN h : h[i].key # key
  BY <1>4 DEF Never
<1>7. \A key, value : Once(h, key, value) <=>
        \E i \in DOMAIN h : /\ h[i] = R!Header(key, value)
                            /\ \A j \in DOMAIN h : h[j].key = key => j = i
  BY <1>4 DEF Once
<1> QED
  BY <1>2, <1>5, <1>6, <1>7 DEF R!HeadersAsAsked, Says, BodySent

\* Whatever order the callers set the options in, and whether gzip_compress, called
\* step by step, succeeds or fails, the response has one Content-Length, that of
\* the body as it is sent, Content-Encoding if and only if that was compressed, and
\* Connection if and only if it is to be closed, for any bodies and any forms.
THEOREM HeadersSayIt == GSpec => []HeadersAsAsked
<1>1. R!Spec => []HeadersInv
  BY HeadersInit, HeadersStep, PTL DEF R!Spec
<1> QED
  BY <1>1, GzipImplementsResponse, HeadersInvSays, PTL

-----------------------------------------------------------------------------
(* The bytes of a response.                                                *)

\* What is so of the texts.
LEMMA TextsHold == R!TextsAssumption /\ R!ReasonsAssumption /\ R!NumbersAssumption
BY GzipResponseAssumption DEF R!ResponseAssumption

\* What a response without a body is made of: neither a zero byte nor one past a
\* block.
Plain == R!Texts \cup {"CR", "LF"}

LEMMA PlainHasNoMark == R!NUL \notin Plain /\ R!STRAY \notin Plain
BY TextsHold
   DEF R!TextsAssumption, Plain, R!NUL, R!STRAY

\* A text is as many bytes as it is long.
LEMMA TextBytes ==
  ASSUME NEW t \in R!Texts
  PROVE  SeqLong(R!Bytes(t), Plain, Len(t))
<1>1. Len(t) \in Nat
  BY TextsHold DEF R!TextsAssumption
<1>2. t \in Plain
  BY DEF Plain
<1>3. R!Bytes(t) = [i \in 1 .. Len(t) |-> t]
  BY DEF R!Bytes
<1> QED
  BY <1>1, <1>2, <1>3, OneByteMany DEF SeqLong

LEMMA LineEnd == SeqLong(R!CRLF, Plain, 2)
<1>1. "CR" \in Plain /\ "LF" \in Plain
  BY DEF Plain
<1> QED
  BY <1>1 DEF R!CRLF, SeqLong

\* The status line, and its size: StatusLineSize counts it right.
StatusLine(status) ==
  R!Bytes("HTTP/1.1") \o R!Bytes(" ") \o R!Bytes(ToString(status))
  \o R!Bytes(" ") \o R!Bytes(R!Reason(status)) \o R!CRLF

LEMMA StatusLineCounted ==
  ASSUME NEW status \in R!Statuses
  PROVE  SeqLong(StatusLine(status), Plain, R!StatusLineSize(status))
<1>1. PICK version : version = "HTTP/1.1"
  OBVIOUS
<1>2. PICK space : space = " "
  OBVIOUS
<1>3. PICK number : number = ToString(status)
  OBVIOUS
<1>4. PICK reason : reason = R!Reason(status)
  OBVIOUS
<1>5. /\ version \in R!Texts /\ space \in R!Texts /\ number \in R!Texts
      /\ reason \in R!Texts
  BY <1>1, <1>2, <1>3, <1>4 DEF R!Texts
<1>6. Len(space) = 1 /\ Len(number) = 3
  <2>1. Len(space) = 1
    BY <1>2, TextsHold DEF R!TextsAssumption
  <2>2. Len(number) = 3
    BY <1>3, TextsHold, Zenon DEF R!NumbersAssumption
  <2> QED
    BY <2>1, <2>2
<1>7. PICK v, n, r : v = Len(version) /\ n = Len(number) /\ r = Len(reason)
  OBVIOUS
<1>8. /\ SeqLong(R!Bytes(version), Plain, v) /\ SeqLong(R!Bytes(space), Plain, 1)
      /\ SeqLong(R!Bytes(number), Plain, 3) /\ SeqLong(R!Bytes(reason), Plain, r)
  <2>1. SeqLong(R!Bytes(version), Plain, v)
    BY <1>5, <1>7, TextBytes
  <2>2. SeqLong(R!Bytes(space), Plain, 1)
    BY <1>5, <1>6, TextBytes
  <2>3. SeqLong(R!Bytes(number), Plain, 3)
    BY <1>5, <1>6, TextBytes
  <2>4. SeqLong(R!Bytes(reason), Plain, r)
    BY <1>5, <1>7, TextBytes
  <2> QED
    BY <2>1, <2>2, <2>3, <2>4
<1>9. PICK V, B, N, T, E :
        /\ V = R!Bytes(version) /\ B = R!Bytes(space) /\ N = R!Bytes(number)
        /\ T = R!Bytes(reason) /\ E = R!CRLF
  OBVIOUS
<1>10. /\ SeqLong(V, Plain, v) /\ SeqLong(B, Plain, 1) /\ SeqLong(N, Plain, 3)
       /\ SeqLong(T, Plain, r) /\ SeqLong(E, Plain, 2)
  BY <1>8, <1>9, LineEnd
<1>11. SeqLong(V \o B, Plain, v + 1)
  BY <1>10, ConcatSeqLong
<1>12. SeqLong(V \o B \o N, Plain, v + 1 + 3)
  BY <1>10, <1>11, ConcatSeqLong
<1>13. SeqLong(V \o B \o N \o B, Plain, v + 1 + 3 + 1)
  BY <1>10, <1>12, ConcatSeqLong
<1>14. SeqLong(V \o B \o N \o B \o T, Plain, v + 1 + 3 + 1 + r)
  BY <1>10, <1>13, ConcatSeqLong
<1>15. SeqLong(V \o B \o N \o B \o T \o E, Plain, v + 1 + 3 + 1 + r + 2)
  BY <1>10, <1>14, ConcatSeqLong
<1>16. StatusLine(status) = V \o B \o N \o B \o T \o E
  BY <1>1, <1>2, <1>3, <1>4, <1>9 DEF StatusLine
<1>17. R!StatusLineSize(status) = v + 1 + 4 + r + 2
  BY <1>1, <1>4, <1>7 DEF R!StatusLineSize
<1>18. v + 1 + 4 + r + 2 = v + 1 + 3 + 1 + r + 2
  BY <1>10 DEF SeqLong
<1> QED
  BY <1>15, <1>16, <1>17, <1>18

\* The sizes of the status lines that are sent up to the first zero byte.
LEMMA StatusLineSizes ==
  ASSUME NEW status \in R!Statuses
  PROVE  /\ status = 400 => R!StatusLineSize(status) = 26
         /\ status = 404 => R!StatusLineSize(status) = 24
<1>1. PICK version : version = "HTTP/1.1"
  OBVIOUS
<1>2. PICK v \in Nat : v = Len(version) /\ v = 8
  BY <1>1, TextsHold DEF R!TextsAssumption
<1>3. /\ status = 400 => Len(R!Reason(status)) = 11
      /\ status = 404 => Len(R!Reason(status)) = 9
  BY TextsHold DEF R!ReasonsAssumption
<1>4. R!StatusLineSize(status) = v + 1 + 4 + Len(R!Reason(status)) + 2
  BY <1>1, <1>2 DEF R!StatusLineSize
<1>5. PICK n : n = Len(R!Reason(status))
  OBVIOUS
<1>6. n = 11 => v + 1 + 4 + n + 2 = 26
  BY <1>2
<1>7. n = 9 => v + 1 + 4 + n + 2 = 24
  BY <1>2
<1> QED
  BY <1>3, <1>4, <1>5, <1>6, <1>7

\* The line of a header.
Line(f) == R!Bytes(f.key) \o R!Bytes(": ") \o R!Bytes(f.value) \o R!CRLF

LEMMA LineIs ==
  ASSUME NEW f \in R!HeaderFields
  PROVE  SeqLong(Line(f), Plain, Len(f.key) + 2 + Len(f.value) + 2)
<1>1. PICK key, colon, value : key = f.key /\ colon = ": " /\ value = f.value
  OBVIOUS
<1>2. key \in R!Texts /\ colon \in R!Texts /\ value \in R!Texts
  BY <1>1 DEF R!Texts, R!HeaderFields
<1>3. Len(colon) = 2
  BY <1>1, TextsHold DEF R!TextsAssumption
<1>4. PICK k, v : k = Len(key) /\ v = Len(value)
  OBVIOUS
<1>5. SeqLong(R!Bytes(key), Plain, k)
  BY <1>2, <1>4, TextBytes
<1>6. SeqLong(R!Bytes(colon), Plain, 2)
  BY <1>2, <1>3, TextBytes
<1>7. SeqLong(R!Bytes(value), Plain, v)
  BY <1>2, <1>4, TextBytes
<1>8. PICK K, C, V, E : /\ K = R!Bytes(key) /\ C = R!Bytes(colon)
                        /\ V = R!Bytes(value) /\ E = R!CRLF
  OBVIOUS
<1>9. /\ SeqLong(K, Plain, k) /\ SeqLong(C, Plain, 2)
      /\ SeqLong(V, Plain, v) /\ SeqLong(E, Plain, 2)
  BY <1>5, <1>6, <1>7, <1>8, LineEnd
<1>10. SeqLong(K \o C, Plain, k + 2)
  BY <1>9, ConcatSeqLong
<1>11. SeqLong(K \o C \o V, Plain, k + 2 + v)
  BY <1>9, <1>10, ConcatSeqLong
<1>12. SeqLong(K \o C \o V \o E, Plain, k + 2 + v + 2)
  BY <1>9, <1>11, ConcatSeqLong
<1>13. Line(f) = K \o C \o V \o E
  BY <1>1, <1>8 DEF Line
<1> QED
  BY <1>1, <1>4, <1>12, <1>13

\* traverse_hashmap writes the lines of all headers; that of Connection alone has 19
\* bytes.
LEMMA LinesPlain ==
  ASSUME NEW h \in Seq(R!HeaderFields)
  PROVE  R!Lines(h) \in Seq(Plain)
<1>1. PICK n \in Nat : n = Len(h) /\ DOMAIN h = 1 .. n
  BY LenProperties
<1>2. PICK q : q = [i \in 1 .. n |-> Line(h[i])]
  OBVIOUS
<1>3. \A i \in 1 .. n : h[i] \in R!HeaderFields
  BY <1>1, ElementOfSeq
<1>4. \A i \in 1 .. n : Line(h[i]) \in Seq(Plain)
  BY <1>3, LineIs DEF SeqLong
<1>5. q \in [1 .. n -> Seq(Plain)]
  BY <1>2, <1>4
<1>6. FlattenSeq(q) \in Seq(Plain)
  <2>1. PICK start : Laid(start, Plain, q, n)
    BY <1>5, FlattenedLaid
  <2> QED
    BY <2>1 DEF Laid
<1>7. R!Lines(h) = R!FlattenSeq(q)
  BY <1>1, <1>2 DEF R!Lines, Line
<1>8. R!FlattenSeq(q) = FlattenSeq(q)
  BY DEF R!FlattenSeq, FlattenSeq
<1> QED
  BY <1>6, <1>7, <1>8

LEMMA LinesOfConnection == SeqLong(R!Lines(<<R!Connection>>), Plain, 19)
<1>1. PICK f : f = R!Connection
  OBVIOUS
<1>2. f = R!Header("Connection", "close") /\ f.key = "Connection" /\ f.value = "close"
  BY <1>1 DEF R!Connection, R!Header
<1>3. f \in R!HeaderFields
  BY <1>2, HeaderIsField DEF R!Names
<1>4. SeqLong(Line(f), Plain, 19)
  <2>1. Len(f.key) = 10 /\ Len(f.value) = 5
    BY <1>2, TextsHold DEF R!TextsAssumption
  <2>2. Len(f.key) + 2 + Len(f.value) + 2 = 19
    BY <2>1
  <2> QED
    BY <1>3, <2>2, LineIs
<1>5. PICK q : q = [i \in 1 .. 1 |-> Line(f)]
  OBVIOUS
<1>6. q \in [1 .. 1 -> Seq(Plain)] /\ q[1] = Line(f)
  BY <1>4, <1>5 DEF SeqLong
<1>7. FlattenSeq(q) = Line(f)
  <2>1. PICK n \in Nat \ {0} : n = 1
    OBVIOUS
  <2>2. q \in [1 .. n -> Seq(Plain)]
    BY <1>6, <2>1
  <2>3. PICK g : Flattens(g, Plain, q, n)
    BY <2>2, Flattened
  <2>4. g[1] = q[1] /\ FlattenSeq(q) = g[n]
    BY <2>3 DEF Flattens
  <2> QED
    BY <1>6, <2>1, <2>4
<1>8. PICK h : h = <<f>>
  OBVIOUS
<1>9. DOMAIN h = 1 .. 1 /\ h[1] = f
  BY <1>8
<1>10. q = [i \in DOMAIN h |-> Line(h[i])]
  BY <1>5, <1>9
<1>11. R!Lines(h) = R!FlattenSeq(q)
  BY <1>10 DEF R!Lines, Line
<1>12. R!FlattenSeq(q) = FlattenSeq(q)
  BY DEF R!FlattenSeq, FlattenSeq
<1> QED
  BY <1>1, <1>4, <1>7, <1>8, <1>11, <1>12

\* construct reads back the number that was written.
LEMMA NumberIs ==
  ASSUME NEW h \in Seq(R!HeaderFields), NEW n \in R!Sizes,
         Once(h, "Content-Length", ToString(n))
  PROVE  R!Number(h, "Content-Length") = n
<1>1. PICK i \in 1 .. Len(h) :
        /\ h[i] = R!Header("Content-Length", ToString(n))
        /\ \A j \in 1 .. Len(h) : h[j].key = "Content-Length" => j = i
  BY DEF Once
<1>2. h[i].key = "Content-Length" /\ h[i].value = ToString(n)
  BY <1>1 DEF R!Header
<1>3. Len(h) \in Nat /\ i \in Nat /\ i # 0
  BY LenProperties
<1> DEFINE I == {j \in 1 .. Len(h) : h[j].key = "Content-Length"}
           first == IF I # {} THEN R!Min(I) ELSE 0
<1>4. I = {i}
  BY <1>1, <1>2
<1>5. R!Min({i}) = i
  BY <1>3 DEF R!Min
<1>6. first = i
  BY <1>4, <1>5
<1>7. R!Number(h, "Content-Length") =
        IF first = 0 THEN NULL
        ELSE CHOOSE m \in R!Sizes : ToString(m) = h[first].value
  BY DEF R!Number, R!SelectInSeq
<1> HIDE DEF first
<1>8. R!Number(h, "Content-Length") = CHOOSE m \in R!Sizes : ToString(m) = ToString(n)
  BY <1>2, <1>3, <1>6, <1>7
<1>9. \A m \in R!Sizes : ToString(m) = ToString(n) => m = n
  BY TextsHold, Zenon DEF R!NumbersAssumption
<1> QED
  BY <1>8, <1>9

\* All that is written and read: of a response, and what is past its end.
All == Plain \cup Messages \cup {Gzip[m] : m \in Messages} \cup {R!NUL, R!STRAY}

LEMMA PlainIsAll ==
  ASSUME NEW s, NEW n, SeqLong(s, Plain, n)
  PROVE  SeqLong(s, All, n)
<1>1. Plain \subseteq All
  BY DEF All
<1>2. \A t \in Seq(Plain) : t \in Seq(All)
  BY <1>1, SeqMonotonic
<1> QED
  BY <1>2 DEF SeqLong

\* The body as it is sent, the lines of the headers, and all of it.
Body(a) ==
  IF a.body = NULL THEN <<>>
  ELSE IF a.gzip = TRUE THEN R!Bytes(Gzip[a.body]) ELSE R!Delivered(a.body)

HeadLines(b) == IF b.headers = NULL THEN <<>> ELSE R!Lines(b.headers)

Message(a, b) == StatusLine(a.status) \o HeadLines(b) \o R!CRLF \o Body(a)

\* A body of a response is as long as its Content-Length says.
LEMMA BodyIs ==
  ASSUME NEW a \in Askeds, a.body # NULL
  PROVE  /\ Len(BodySent(a)) \in R!Sizes
         /\ SeqLong(Body(a), All, Len(BodySent(a)))
<1>1. a.body \in Messages
  BY DEF Askeds
<1>2. PICK text : text = BodySent(a)
  OBVIOUS
<1>3. Len(text) \in R!Sizes /\ Len(text) \in Nat /\ text \in All
  <2>1. CASE a.gzip = TRUE
    <3>1. text = Gzip[a.body]
      BY <1>2, <2>1 DEF BodySent
    <3> QED
      BY <1>1, <3>1, SizesOfBodies DEF All
  <2>2. CASE a.gzip # TRUE
    <3>1. text = a.body
      BY <1>2, <2>2 DEF BodySent
    <3> QED
      BY <1>1, <3>1, SizesOfBodies DEF All
  <2> QED
    BY <2>1, <2>2
<1>4. CASE a.gzip = TRUE
  <2>1. Body(a) = [i \in 1 .. Len(text) |-> text]
    BY <1>2, <1>4 DEF Body, BodySent, R!Bytes
  <2> QED
    BY <1>2, <1>3, <2>1, OneByteMany DEF SeqLong
<1>5. CASE a.gzip # TRUE
  <2>1. text = a.body
    BY <1>2, <1>5 DEF BodySent
  <2>2. PICK s : s = R!Delivered(text)
    OBVIOUS
  <2>3. Body(a) = s
    BY <1>5, <2>1, <2>2 DEF Body
  <2>4. text \in All /\ R!NUL \in All /\ R!STRAY \in All
    BY <1>3 DEF All
  <2>5. s \in [1 .. Len(text) -> All]
    BY <2>2, <2>4 DEF R!Delivered
  <2>6. SeqLong(s, All, Len(text))
    BY <1>3, <2>5 DEF SeqLong
  <2> QED
    BY <1>2, <1>3, <2>3, <2>6
<1> QED
  BY <1>2, <1>3, <1>4, <1>5

\* The first bytes from where the data are on are these.
HasBytes(data, bytes) == \A i \in 1 .. Len(bytes) : R!ByteAt(data, i) = bytes[i]

\* What construct copies of the data behind the field lines, up to what the
\* serialiser reads of it, is the body: the byte more is left out.
LEMMA FieldsRead ==
  ASSUME NEW h \in Seq(R!HeaderFields), NEW data, NEW n, NEW u,
         SeqLong(u, All, n), HasBytes(data, u), R!ByteAt(data, n + 1) \in All
  PROVE  /\ CutTo(R!Fields(h, data, n), R!FieldSize(h) + n,
                  R!Lines(h) \o R!CRLF \o u)
         /\ R!FieldSize(h) + n <= Len(R!Fields(h, data, n))
<1>1. PICK lines, l : lines = R!Lines(h) /\ l = Len(lines)
  OBVIOUS
<1>2. SeqLong(lines, Plain, l)
  <2>1. lines \in Seq(Plain)
    BY <1>1, LinesPlain
  <2>2. l \in Nat
    BY <1>1, <2>1, LenProperties
  <2> QED
    BY <1>1, <2>1, <2>2 DEF SeqLong
<1>3. PICK p : p = lines \o R!CRLF
  OBVIOUS
<1>4. SeqLong(p, All, l + 2)
  BY <1>2, <1>3, LineEnd, ConcatSeqLong, PlainIsAll
<1>5. R!FieldSize(h) = l + 2
  BY <1>1 DEF R!FieldSize
<1>7. u \in Seq(All) /\ n \in Nat /\ Len(u) = n
  BY DEF SeqLong
<1>8. PICK t : t = [i \in 1 .. n + 1 |-> R!ByteAt(data, i)]
  OBVIOUS
<1>9. SameUpTo(t, u, n)
  BY <1>7, <1>8 DEF HasBytes, SameUpTo
<1>10. \A i \in 1 .. n : u[i] \in All
  BY <1>7, ElementOfSeq
<1>11. \A i \in 1 .. n + 1 : R!ByteAt(data, i) \in All
  <2> SUFFICES ASSUME NEW i \in 1 .. n + 1 PROVE R!ByteAt(data, i) \in All
    OBVIOUS
  <2>1. i \in 1 .. n \/ i = n + 1
    BY <1>7
  <2> QED
    BY <1>7, <1>10, <2>1 DEF HasBytes
<1>12. SeqLong(t, All, n + 1)
  <2>1. t \in [1 .. n + 1 -> All]
    BY <1>8, <1>11
  <2>2. n + 1 \in Nat
    BY <1>7
  <2> QED
    BY <2>1, <2>2 DEF SeqLong
<1>13. CutTo(p \o t, (l + 2) + n, p \o u)
  <2>1. n <= n + 1
    BY <1>7
  <2>2. SeqLong(u, All, n)
    OBVIOUS
  <2>3. PICK m, k : m = l + 2 /\ k = n + 1
    OBVIOUS
  <2>4. CutTo(p \o t, m + n, p \o u)
    <3>1. SeqLong(p, All, m) /\ SeqLong(t, All, k) /\ n <= k
      BY <1>4, <1>12, <2>1, <2>3
    <3> QED
      BY <1>9, <2>2, <3>1, FirstOfTwo
  <2> QED
    BY <2>3, <2>4
<1>14. R!Fields(h, data, n) = p \o t
  BY <1>1, <1>3, <1>8 DEF R!Fields
<1>15. (l + 2) + n <= Len(p \o t)
  <2>1. SeqLong(p \o t, All, (l + 2) + (n + 1))
    BY <1>4, <1>12, ConcatSeqLong
  <2>2. l \in Nat
    BY <1>2 DEF SeqLong
  <2> QED
    BY <1>7, <2>1, <2>2 DEF SeqLong
<1> QED
  BY <1>1, <1>3, <1>5, <1>13, <1>14, <1>15

\* From the copy of a body on there is what is sent of it.
LEMMA DuplicateHolds ==
  ASSUME NEW m \in Messages
  PROVE  /\ HasBytes(R!Duplicate(m), R!Delivered(m))
         /\ Len(R!Delivered(m)) = Len(m) /\ Len(m) \in Nat
         /\ R!ByteAt(R!Duplicate(m), Len(m) + 1) \in All
<1>1. PICK u, d : u = Upto[m] /\ d = R!Duplicate(m)
  OBVIOUS
<1>2. /\ d.terminated = TRUE /\ d.bytes = [i \in 1 .. u |-> m]
      /\ Len(d.bytes) = u /\ u \in Nat /\ u <= Len(m)
  BY <1>1, Duplicates
<1>3. Len(m) \in Nat /\ m \in All /\ R!NUL \in All /\ R!STRAY \in All
  BY SizesOfBodies DEF All
<1>4. \A i \in 1 .. Len(m) + 1 :
        R!ByteAt(d, i) = CASE i <= u -> m [] i = u + 1 -> R!NUL [] OTHER -> R!STRAY
  BY <1>2, <1>3 DEF R!ByteAt
<1>5. Len(R!Delivered(m)) = Len(m)
  BY <1>3 DEF R!Delivered
<1>6. HasBytes(d, R!Delivered(m))
  <2>1. \A i \in 1 .. Len(m) : i \in 1 .. Len(m) + 1
    BY <1>3
  <2> QED
    BY <1>1, <1>4, <1>5, <2>1 DEF HasBytes, R!Delivered
<1>7. R!ByteAt(d, Len(m) + 1) \in All
  <2>1. Len(m) + 1 \in 1 .. Len(m) + 1
    BY <1>3
  <2> QED
    BY <1>3, <1>4, <2>1
<1> QED
  BY <1>1, <1>3, <1>5, <1>6, <1>7

\* The builder's fields are those that were asked for; without a body it has no
\* headers but, when construct adds it, Connection; what is sent up to its first
\* zero byte has no body.
Built(b, a) ==
  /\ a.status \in R!Statuses /\ b.status = a.status
  /\ a.exact = TRUE \/ a.status \in {400, 404}
  /\ b.data = NULL <=> a.body = NULL
  /\ b.data # NULL => /\ a.exact = TRUE /\ b.headers # NULL
                      /\ HasBytes(b.data, Body(a))
                      /\ R!ByteAt(b.data, Len(Body(a)) + 1) \in All
  /\ b.headers # NULL /\ b.data = NULL =>
       b.headers = <<R!Connection>> /\ a.close = TRUE

\* construct has the serialiser read no more than it wrote.  It counts what it
\* writes, but for a response without headers the empty line, for one with headers
\* only an empty line more, and for one with a body not the line end the serialiser
\* adds.
Made(b, a, r) ==
  LET fields == SubSeq(r.field_line, 1, r.field_line_len)
      lines == R!Lines(b.headers)
      size == R!StatusLineSize(a.status)
  IN  /\ r.status = a.status
      /\ r.field_line_len <= Len(r.field_line)
      /\ b.headers = NULL => fields = <<>> /\ r.total_size = size + 2
      /\ b.headers # NULL /\ b.data = NULL =>
           fields = lines \o R!CRLF /\ r.total_size = size + (Len(lines) + 2 + 2)
      /\ b.headers # NULL /\ b.data # NULL =>
           /\ fields = lines \o R!CRLF \o Body(a)
           /\ r.total_size = size + (Len(lines) + 2 + Len(Body(a)))

\* The options HEADERS and BODY.
LEMMA BuiltMessage ==
  ASSUME NEW a \in Askeds, NEW b \in R!Builders, Built(b, a),
         a.exact = TRUE, a.gzip # TRUE, NEW m \in Messages,
         NEW h, h # NULL,
         NEW b2, b2 = [b EXCEPT !.headers = h,
                         !.data = R!Duplicate(m)],
         b2 \in R!Builders,
         NEW a2, a2 = [a EXCEPT !.body = m]
  PROVE  Built(b2, a2)
<1>1. /\ a2.status = a.status /\ a2.exact = TRUE /\ a2.body = m /\ a2.gzip = a.gzip
      /\ m # NULL
  BY NullIsApart DEF Askeds
<1>2. Body(a2) = R!Delivered(m)
  BY <1>1 DEF Body
<1>3. PICK data : data = R!Duplicate(m)
  OBVIOUS
<1>4. b2.status = b.status /\ b2.headers = h /\ b2.data = data
  BY <1>3 DEF R!Builders
<1>5. data # NULL
  BY <1>3, Duplicates, NullIsApart
<1>6. HasBytes(data, Body(a2)) /\ R!ByteAt(data, Len(Body(a2)) + 1) \in All
  BY <1>2, <1>3, DuplicateHolds
<1> QED
  BY <1>1, <1>4, <1>5, <1>6 DEF Built

\* The option CLOSE.
LEMMA BuiltClose ==
  ASSUME NEW a \in Askeds, NEW b \in R!Builders, Built(b, a), a.close = FALSE,
         NEW b2, b2 = [b EXCEPT !.close = TRUE,
                         !.headers = IF @ = NULL THEN NULL ELSE Append(@, R!Connection)],
         b2 \in R!Builders, b.headers # NULL => b2.headers # NULL,
         NEW a2, a2 = [a EXCEPT !.close = TRUE]
  PROVE  Built(b2, a2)
<1>1. /\ a2.status = a.status /\ a2.exact = a.exact /\ a2.body = a.body
      /\ a2.gzip = a.gzip
  BY DEF Askeds
<1>2. Body(a2) = Body(a)
  BY <1>1 DEF Body, BodySent
<1>3. PICK h : h = b2.headers
  OBVIOUS
<1>4. b2.status = b.status /\ b2.data = b.data /\ (b.headers = NULL => b2.headers = NULL)
  BY DEF R!Builders
<1>5. b.headers # NULL => b.data # NULL
  BY DEF Built
<1> QED
  BY <1>1, <1>2, <1>4, <1>5 DEF Built

\* The option COMPRESSION_GZIP.
LEMMA BuiltCompressed ==
  ASSUME NEW a \in Askeds, NEW b \in R!Builders, Built(b, a),
         b.data # NULL, NEW text, text = R!Bytes(Gzip[a.body]),
         NEW h, h # NULL,
         NEW b2, b2 = [b EXCEPT !.headers = h,
                         !.data = [bytes |-> text, terminated |-> FALSE]],
         NEW a2, a2 = [a EXCEPT !.gzip = TRUE]
  PROVE  Built(b2, a2)
<1>1. /\ a2.status = a.status /\ a2.exact = a.exact /\ a2.body = a.body
      /\ a2.gzip = TRUE /\ a.body # NULL /\ a.body \in Messages
  BY DEF Askeds, Built
<1>2. Body(a2) = text
  BY <1>1 DEF Body
<1>3. PICK data : data = [bytes |-> text, terminated |-> FALSE]
  OBVIOUS
<1>4. /\ b2.status = b.status /\ b2.headers = h /\ b2.data = data
      /\ data.bytes = text
  BY <1>3 DEF R!Builders
<1>5. data # NULL
  <2>1. text \in Seq(Messages \cup {Gzip[k] : k \in Messages})
    BY <1>1, GzipBytes
  <2>2. data \in R!Bodies
    BY <1>3, <2>1 DEF R!Bodies
  <2> QED
    BY <2>2, NullIsApart
<1>6. a.exact = TRUE
  BY DEF Built
<1>7. HasBytes(data, text) /\ R!ByteAt(data, Len(text) + 1) \in All
  <2>1. data.terminated = FALSE
    BY <1>3
  <2>2. Len(text) \in Nat
    BY <1>1, GzipBytes, LenProperties
  <2>3. \A i \in 1 .. Len(text) : R!ByteAt(data, i) = text[i]
    BY <1>4, <2>2 DEF R!ByteAt
  <2>4. R!ByteAt(data, Len(text) + 1) = R!STRAY
    BY <1>4, <2>1, <2>2 DEF R!ByteAt
  <2> QED
    BY <2>3, <2>4 DEF HasBytes, All
<1> QED
  BY <1>1, <1>2, <1>4, <1>5, <1>6, <1>7 DEF Built

\* What http_response_builder_construct makes of a builder and its headers.
Construction(b, h, r) ==
  LET size == R!StatusLineSize(b.status)
      n == R!Number(h, "Content-Length")
  IN  /\ r.status = b.status
      /\ h = NULL =>
           /\ r.field_line = <<>> /\ r.field_line_len = 0
           /\ r.total_size = size + 2
      /\ h # NULL /\ b.data = NULL =>
           /\ r.field_line = R!Lines(h) \o R!CRLF
           /\ r.field_line_len = R!FieldSize(h)
           /\ r.total_size = size + (R!FieldSize(h) + 2)
      /\ h # NULL /\ b.data # NULL =>
           /\ r.field_line = R!Fields(h, b.data, n)
           /\ r.field_line_len = R!FieldSize(h) + n
           /\ r.total_size = size + (R!FieldSize(h) + n)

LEMMA Constructed ==
  ASSUME NEW a, NEW b, NEW r, Announces(b, a, r), b # NULL, Built(b, a),
         NEW h, h = IF b.close /\ b.headers = NULL
                      THEN <<R!Connection>> ELSE b.headers,
         NEW b2, b2 = [b EXCEPT !.headers = h], Announces(b2, a, r), b2 # NULL,
         NEW r2, Construction(b, h, r2)
  PROVE  Built(b2, a) /\ Made(b2, a, r2)
<1> PICK n, size : n = R!Number(h, "Content-Length") /\ size = R!StatusLineSize(b.status)
  OBVIOUS
<1>0. /\ r2.status = b.status
      /\ h = NULL =>
           /\ r2.field_line = <<>> /\ r2.field_line_len = 0
           /\ r2.total_size = size + 2
      /\ h # NULL /\ b.data = NULL =>
           /\ r2.field_line = R!Lines(h) \o R!CRLF
           /\ r2.field_line_len = R!FieldSize(h)
           /\ r2.total_size = size + (R!FieldSize(h) + 2)
      /\ h # NULL /\ b.data # NULL =>
           /\ r2.field_line = R!Fields(h, b.data, n)
           /\ r2.field_line_len = R!FieldSize(h) + n
           /\ r2.total_size = size + (R!FieldSize(h) + n)
  BY DEF Construction
<1>1. /\ a \in Askeds /\ b \in R!Builders /\ b2 \in R!Builders /\ b.close = a.close
      /\ b.close \in BOOLEAN
  BY DEF Announces, R!Builders
<1>2. b2.headers = h /\ b2.data = b.data /\ b2.status = b.status
  BY <1>1 DEF R!Builders
<1>3. b.headers = NULL => b.data = NULL
  BY DEF Built
<1>4. /\ b.headers # NULL => h = b.headers
      /\ b.headers = NULL => h = NULL \/ (h = <<R!Connection>> /\ a.close = TRUE)
  BY <1>1
<1>5. Built(b2, a)
  BY <1>2, <1>3, <1>4 DEF Built
<1>6. size = R!StatusLineSize(a.status) /\ r2.status = a.status
  BY <1>0 DEF Built
<1>7. CASE h = NULL
  <2>1. SubSeq(<<>>, 1, 0) = <<>>
    BY SubSeqEmpty
  <2>2. r2.field_line_len <= Len(r2.field_line)
    BY <1>0, <1>7
  <2> QED
    BY <1>0, <1>2, <1>5, <1>6, <1>7, <2>1, <2>2 DEF Made
<1>8. CASE h # NULL
  <2>1. h \in Seq(R!HeaderFields)
    BY <1>1, <1>2, <1>8 DEF R!Builders
  <2>2. PICK lines, l : lines = R!Lines(h) /\ l = Len(lines)
    OBVIOUS
  <2>3. R!FieldSize(h) = l + 2
    BY <2>2 DEF R!FieldSize
  <2>4. SeqLong(lines, Plain, l)
    <3>1. lines \in Seq(Plain)
      BY <2>1, <2>2, LinesPlain
    <3>2. l \in Nat
      BY <2>2, <3>1, LenProperties
    <3> QED
      BY <2>2, <3>1, <3>2 DEF SeqLong
  <2>5. CASE b.data = NULL
    <3>1. PICK p : p = lines \o R!CRLF
      OBVIOUS
    <3>2. SeqLong(p, Plain, l + 2)
      BY <2>4, <3>1, LineEnd, ConcatSeqLong
    <3>3. SubSeq(p, 1, l + 2) = p
      BY <3>2, SubSeqFull DEF SeqLong
    <3>4. r2.field_line = p /\ r2.field_line_len = l + 2 /\ r2.total_size = size + (l + 2 + 2)
      BY <1>0, <1>8, <2>2, <2>3, <2>5, <3>1
    <3>5. SubSeq(r2.field_line, 1, r2.field_line_len) = p
      BY <3>3, <3>4
    <3>6. r2.field_line_len <= Len(r2.field_line)
      BY <3>2, <3>4 DEF SeqLong
    <3> QED
      BY <1>2, <1>5, <1>6, <1>8, <2>2, <2>5, <3>1, <3>4, <3>5, <3>6 DEF Made
  <2>6. CASE b.data # NULL
    <3>1. a.body # NULL /\ HasBytes(b.data, Body(a))
      BY <2>6 DEF Built
    <3>2. PICK k : k = Len(BodySent(a))
      OBVIOUS
    <3>3. k \in R!Sizes /\ SeqLong(Body(a), All, k)
      BY <1>1, <3>1, <3>2, BodyIs
    <3>4. Says(h, a)
      BY <1>2, <1>8 DEF Announces
    <3>5. Once(h, "Content-Length", ToString(k))
      BY <3>1, <3>2, <3>4 DEF Says
    <3>6. n = k
      BY <2>1, <3>3, <3>5, NumberIs
    <3>7. Len(Body(a)) = n
      BY <3>3, <3>6 DEF SeqLong
    <3>8. SeqLong(Body(a), All, n) /\ R!ByteAt(b.data, n + 1) \in All
      BY <2>6, <3>3, <3>6, <3>7 DEF Built
    <3>9. /\ CutTo(R!Fields(h, b.data, n), R!FieldSize(h) + n,
                   R!Lines(h) \o R!CRLF \o Body(a))
          /\ R!FieldSize(h) + n <= Len(R!Fields(h, b.data, n))
      <4>1. PICK data, u : data = b.data /\ u = Body(a)
        OBVIOUS
      <4>2. SeqLong(u, All, n) /\ HasBytes(data, u) /\ R!ByteAt(data, n + 1) \in All
        BY <3>1, <3>8, <4>1
      <4>3. /\ CutTo(R!Fields(h, data, n), R!FieldSize(h) + n,
                     R!Lines(h) \o R!CRLF \o u)
            /\ R!FieldSize(h) + n <= Len(R!Fields(h, data, n))
        BY <2>1, <4>2, FieldsRead
      <4> QED
        BY <4>1, <4>3
    <3>10. SubSeq(r2.field_line, 1, r2.field_line_len) = lines \o R!CRLF \o Body(a)
      <4>1. r2.field_line = R!Fields(h, b.data, n) /\ r2.field_line_len = R!FieldSize(h) + n
        BY <1>0, <1>8, <2>6
      <4>2. CutTo(r2.field_line, r2.field_line_len, lines \o R!CRLF \o Body(a))
        BY <2>2, <3>1, <3>9, <4>1
      <4> QED
        BY <4>2 DEF CutTo
    <3>11. r2.total_size = size + (l + 2 + Len(Body(a)))
      BY <1>0, <1>8, <2>3, <2>6, <3>7
    <3>12. r2.field_line_len <= Len(r2.field_line)
      BY <1>0, <1>8, <2>6, <3>9
    <3> QED
      BY <1>2, <1>5, <1>6, <1>8, <2>2, <2>6, <3>10, <3>11, <3>12 DEF Made
  <2> QED
    BY <2>5, <2>6
<1> QED
  BY <1>7, <1>8

\* The memory that send() reads from: the buffer, zero bytes to the end of its
\* chunk, and what is past it.
Held(M, f, end) ==
  M = [i \in 1 .. end + 1 |-> CASE i <= Len(f) -> f[i]
                                [] i \in Len(f) + 1 .. end -> R!NUL
                                [] OTHER -> R!STRAY]

LEMMA MemoryIs ==
  ASSUME NEW f, NEW n, SeqLong(f, All, n), NEW end \in Nat, n <= end,
         NEW M, Held(M, f, end)
  PROVE  /\ SeqLong(M, All, end + 1) /\ SameUpTo(M, f, n)
         /\ \A i \in n + 1 .. end : M[i] = R!NUL
<1>1. f \in Seq(All) /\ Len(f) = n /\ n \in Nat
  BY DEF SeqLong
<1>2. DOMAIN M = 1 .. end + 1
  BY DEF Held
<1>3. ASSUME NEW i \in 1 .. end + 1
      PROVE  /\ i <= n => M[i] = f[i]
             /\ i \in n + 1 .. end => M[i] = R!NUL
             /\ ~(i <= n) /\ i \notin n + 1 .. end => M[i] = R!STRAY
  <2>1. M[i] = CASE i <= n -> f[i]
                 [] i \in n + 1 .. end -> R!NUL
                 [] OTHER -> R!STRAY
    BY <1>1 DEF Held
  <2>2. ~(i <= n /\ i \in n + 1 .. end)
    BY <1>1
  <2> QED
    BY <2>1, <2>2
<1>4. \A i \in 1 .. n : f[i] \in All
  BY <1>1, ElementOfSeq
<1>5. R!NUL \in All /\ R!STRAY \in All
  BY DEF All
<1>6. \A i \in 1 .. end + 1 : M[i] \in All
  <2> SUFFICES ASSUME NEW i \in 1 .. end + 1 PROVE M[i] \in All
    OBVIOUS
  <2>1. CASE i <= n
    BY <1>1, <1>3, <1>4, <2>1
  <2>2. CASE ~(i <= n)
    BY <1>3, <1>5, <2>2
  <2> QED
    BY <2>1, <2>2
<1>7. SeqLong(M, All, end + 1)
  <2>1. M = [i \in 1 .. end + 1 |-> M[i]]
    BY <1>2 DEF Held
  <2>2. M \in [1 .. end + 1 -> All] /\ end + 1 \in Nat
    BY <1>6, <2>1
  <2> QED
    BY <2>2 DEF SeqLong
<1>8. SameUpTo(M, f, n)
  <2>1. \A i \in 1 .. n : i \in 1 .. end + 1 /\ i <= n
    BY <1>1
  <2> QED
    BY <1>3, <2>1 DEF SameUpTo
<1>9. \A i \in n + 1 .. end : i \in 1 .. end + 1
  BY <1>1
<1> QED
  BY <1>3, <1>7, <1>8, <1>9

\* strlen() of a response without a body that ends before its chunk does.
LEMMA StrlenIs ==
  ASSUME NEW f, NEW n, SeqLong(f, Plain, n), NEW end \in Nat, n < end,
         NEW M, Held(M, f, end)
  PROVE  R!Min({i \in DOMAIN M : M[i] \in {R!NUL, R!STRAY}})
           - (IF R!NUL \in R!Range(M) THEN 1 ELSE 0) = n
<1>1. f \in Seq(Plain) /\ Len(f) = n /\ n \in Nat /\ n <= end
  BY DEF SeqLong
<1>2. SeqLong(f, All, n)
  BY PlainIsAll
<1>3. /\ SeqLong(M, All, end + 1) /\ SameUpTo(M, f, n)
      /\ \A i \in n + 1 .. end : M[i] = R!NUL
  BY <1>1, <1>2, MemoryIs
<1>4. DOMAIN M = 1 .. end + 1
  BY DEF Held
<1> DEFINE I == {i \in DOMAIN M : M[i] \in {R!NUL, R!STRAY}}
<1>5. n + 1 \in n + 1 .. end /\ n + 1 \in DOMAIN M
  BY <1>1, <1>4
<1>6. M[n + 1] = R!NUL
  BY <1>3, <1>5
<1>7. n + 1 \in I
  BY <1>5, <1>6
<1>8. ASSUME NEW i \in I
      PROVE  i \in Int /\ n + 1 <= i
  <2>1. i \in 1 .. end + 1
    BY <1>4
  <2>2. CASE i <= n
    <3>1. i \in 1 .. n
      BY <1>1, <2>1, <2>2
    <3>2. M[i] = f[i]
      BY <1>3, <3>1 DEF SameUpTo
    <3>3. f[i] \in Plain
      BY <1>1, <3>1, ElementOfSeq
    <3>4. M[i] \in {R!NUL, R!STRAY}
      OBVIOUS
    <3> QED
      BY <3>2, <3>3, <3>4, PlainHasNoMark
  <2>3. CASE ~(i <= n)
    BY <1>1, <2>1, <2>3
  <2> QED
    BY <2>2, <2>3
<1>9. R!Range(M) = {M[i] : i \in DOMAIN M}
  BY DEF R!Range
<1>10. R!NUL \in R!Range(M)
  BY <1>5, <1>6, <1>9
<1> HIDE DEF I
<1>11. \A x \in I : (\A y \in I : x <= y) => x = n + 1
  BY <1>1, <1>7, <1>8
<1>12. R!Min(I) = n + 1
  BY <1>7, <1>8, <1>11 DEF R!Min
<1>13. (n + 1) - 1 = n
  BY <1>1
<1> QED
  BY <1>10, <1>12, <1>13 DEF I

\* http_response_to_buffer: the status line, what it reads of the field lines and
\* an empty line.
Written(r) ==
  StatusLine(r.status) \o SubSeq(r.field_line, 1, r.field_line_len) \o R!CRLF

\* How that is the message: it is as long as total_size, or it has the line end of
\* the serialiser more, which is counted only if there is no body.
Fits(m, f, total, a, b) ==
  /\ b.data = NULL => SeqLong(f, Plain, total)
  /\ b.data = NULL => f = m \/ (a.close = TRUE /\ f = m \o R!CRLF)
  /\ b.data # NULL =>
       SeqLong(m, All, total) /\ SeqLong(f, All, total + 2) /\ f = m \o R!CRLF

\* Four parts that are put together in two ways.
Rejoins(s, t, u, v) == s \o ((t \o u) \o v) = ((s \o t) \o u) \o v

LEMMA ConcatFour ==
  \A S : \A s, t, u, v \in Seq(S) : Rejoins(s, t, u, v)
<1> SUFFICES ASSUME NEW S, NEW s \in Seq(S), NEW t \in Seq(S), NEW u \in Seq(S),
                    NEW v \in Seq(S)
             PROVE  Rejoins(s, t, u, v)
  OBVIOUS
<1>1. PICK tu : tu = t \o u
  OBVIOUS
<1>2. tu \in Seq(S)
  BY <1>1, ConcatProperties
<1>3. Joins(s, t, u) /\ Joins(s, tu, v)
  BY <1>2, ConcatThree
<1> QED
  BY <1>1, <1>3 DEF Joins, Rejoins

LEMMA WrittenFits ==
  ASSUME NEW a \in Askeds, NEW b \in R!Builders, NEW r, Built(b, a), Made(b, a, r)
  PROVE  Fits(Message(a, b), Written(r), r.total_size, a, b)
<1>1. PICK H, E, B, size :
        /\ H = StatusLine(a.status) /\ E = R!CRLF /\ B = Body(a)
        /\ size = R!StatusLineSize(a.status)
  OBVIOUS
<1>2. SeqLong(H, Plain, size) /\ SeqLong(E, Plain, 2)
  BY <1>1, StatusLineCounted, LineEnd DEF Built
<1>3. PICK F, total, f, m :
        /\ F = SubSeq(r.field_line, 1, r.field_line_len)
        /\ total = r.total_size /\ f = Written(r) /\ m = Message(a, b)
  OBVIOUS
<1>4. f = (H \o F) \o E
  BY <1>1, <1>3 DEF Written, Made
<1>5. H \in Seq(Plain) /\ E \in Seq(Plain) /\ size \in Nat
  BY <1>2 DEF SeqLong
<1>6. CASE b.headers = NULL
  <2>1. b.data = NULL /\ a.body = NULL
    BY <1>6 DEF Built
  <2>2. F = <<>> /\ total = size + 2
    BY <1>1, <1>3, <1>6 DEF Made
  <2>3. m = ((H \o <<>>) \o E) \o <<>>
    BY <1>1, <1>3, <1>6, <2>1 DEF Message, HeadLines, Body
  <2>4. H \o <<>> = H
    BY <1>5, ConcatEmptySeq
  <2>5. SeqLong(H \o E, Plain, size + 2)
    BY <1>2, ConcatSeqLong
  <2>6. (H \o E) \o <<>> = H \o E
    BY <2>5, ConcatEmptySeq DEF SeqLong
  <2>7. f = m /\ f = H \o E
    BY <1>4, <2>2, <2>3, <2>4, <2>6
  <2>8. SeqLong(f, Plain, total)
    BY <2>2, <2>5, <2>7
  <2> QED
    BY <1>3, <2>1, <2>7, <2>8 DEF Fits
<1>7. CASE b.headers # NULL
  <2>1. b.headers \in Seq(R!HeaderFields)
    BY <1>7 DEF R!Builders
  <2>2. PICK L, l : L = R!Lines(b.headers) /\ l = Len(L)
    OBVIOUS
  <2>3. SeqLong(L, Plain, l)
    <3>1. L \in Seq(Plain)
      BY <2>1, <2>2, LinesPlain
    <3>2. l \in Nat
      BY <2>2, <3>1, LenProperties
    <3> QED
      BY <2>2, <3>1, <3>2 DEF SeqLong
  <2>4. L \in Seq(Plain) /\ l \in Nat
    BY <2>3 DEF SeqLong
  <2>5. m = ((H \o L) \o E) \o B
    BY <1>1, <1>3, <1>7, <2>2 DEF Message, HeadLines
  <2>6. SeqLong((H \o L) \o E, Plain, size + l + 2)
    <3>1. SeqLong(H \o L, Plain, size + l)
      BY <1>2, <2>3, ConcatSeqLong
    <3> QED
      BY <1>2, <3>1, ConcatSeqLong
  <2>7. CASE b.data = NULL
    <3>1. a.body = NULL /\ a.close = TRUE
      BY <1>7, <2>7 DEF Built
    <3>2. F = L \o E /\ total = size + (l + 2 + 2)
      BY <1>1, <1>3, <1>7, <2>2, <2>7 DEF Made
    <3>3. B = <<>>
      BY <1>1, <3>1 DEF Body
    <3>4. PICK p : p = (H \o L) \o E
      OBVIOUS
    <3>5. p \o <<>> = p
      BY <2>6, <3>4, ConcatEmptySeq DEF SeqLong
    <3>6. m = p
      BY <2>5, <3>3, <3>4, <3>5
    <3>7. Joins(H, L, E)
      BY <1>5, <2>4, ConcatThree
    <3>8. H \o F = p
      BY <3>2, <3>4, <3>7 DEF Joins
    <3>9. f = p \o E
      BY <1>4, <3>8
    <3>10. SeqLong(f, Plain, (size + l + 2) + 2)
      BY <1>2, <2>6, <3>4, <3>9, ConcatSeqLong
    <3>11. total = (size + l + 2) + 2
      BY <1>5, <2>4, <3>2
    <3> QED
      BY <1>1, <1>3, <2>7, <3>1, <3>6, <3>9, <3>10, <3>11 DEF Fits
  <2>8. CASE b.data # NULL
    <3>1. a.body # NULL
      BY <2>8 DEF Built
    <3>2. PICK n : n = Len(BodySent(a))
      OBVIOUS
    <3>3. SeqLong(B, All, n)
      BY <1>1, <3>1, <3>2, BodyIs
    <3>4. n = Len(B) /\ n \in Nat /\ B \in Seq(All)
      BY <3>3 DEF SeqLong
    <3>5. F = (L \o E) \o B /\ total = size + (l + 2 + n)
      BY <1>1, <1>3, <1>7, <2>2, <2>8, <3>4 DEF Made
    <3>6. H \in Seq(All) /\ E \in Seq(All) /\ L \in Seq(All)
      BY <1>2, <2>3, PlainIsAll DEF SeqLong
    <3>7. Rejoins(H, L, E, B)
      BY <3>4, <3>6, ConcatFour
    <3>8. H \o F = m
      BY <2>5, <3>5, <3>7 DEF Rejoins
    <3>9. SeqLong(m, All, size + l + 2 + n)
      <4>1. PICK p : p = (H \o L) \o E
        OBVIOUS
      <4>2. SeqLong(p, All, size + l + 2)
        BY <2>6, <4>1, PlainIsAll
      <4> QED
        BY <2>5, <3>3, <4>1, <4>2, ConcatSeqLong
    <3>10. total = size + l + 2 + n
      BY <1>5, <2>4, <3>4, <3>5
    <3>11. SeqLong(E, All, 2)
      BY <1>2, PlainIsAll
    <3>12. f = m \o E
      BY <1>4, <3>8
    <3>13. SeqLong(f, All, total + 2)
      BY <3>9, <3>10, <3>11, <3>12, ConcatSeqLong
    <3> QED
      BY <1>1, <1>3, <2>8, <3>9, <3>10, <3>12, <3>13 DEF Fits
  <2> QED
    BY <2>7, <2>8
<1> QED
  BY <1>6, <1>7

\* What is sent of the memory it is in is the message, or, of a response that
\* closes the connection and has no body, an empty line more.
Sent(b, a, x) ==
  \/ x = Message(a, b)
  \/ a.close = TRUE /\ a.body = NULL /\ x = Message(a, b) \o R!CRLF

\* A response without a body does not fill its chunk.
LEMMA ChunkIsLonger ==
  ASSUME NEW a \in Askeds, NEW b \in R!Builders, NEW r, Built(b, a), Made(b, a, r),
         b.data = NULL, a.exact # TRUE
  PROVE  r.total_size \in Nat /\ r.total_size < R!Usable(r.total_size)
<1>1. PICK size, total : size = R!StatusLineSize(a.status) /\ total = r.total_size
  OBVIOUS
<1>2. size \in {24, 26}
  BY <1>1, StatusLineSizes DEF Built
<1>3. total \in {size + 2, size + (19 + 2 + 2)}
  <2>1. CASE b.headers = NULL
    BY <1>1, <2>1 DEF Made
  <2>2. CASE b.headers # NULL
    <3>1. b.headers = <<R!Connection>>
      BY <2>2 DEF Built
    <3>2. PICK l : l = Len(R!Lines(b.headers))
      OBVIOUS
    <3>3. l = 19
      BY <3>1, <3>2, LinesOfConnection DEF SeqLong
    <3>4. total = size + (l + 2 + 2)
      BY <1>1, <2>2, <3>2 DEF Made
    <3> QED
      BY <3>3, <3>4
  <2> QED
    BY <2>1, <2>2
<1>4. total \in {26, 28, 47, 49}
  BY <1>2, <1>3
<1>5. R!Usable(total) = ((total + 23) \div 16) * 16 - 8
  BY DEF R!Usable
<1> QED
  BY <1>1, <1>4, <1>5

\* send() of total_size bytes, or of strlen() bytes.
LEMMA Sends ==
  ASSUME NEW a \in Askeds, NEW b \in R!Builders, NEW r, Built(b, a), Made(b, a, r),
         NEW f, f = Written(r), NEW M,
         Held(M, f, R!Max({R!Usable(r.total_size), Len(f)})),
         NEW length,
         length = IF a.exact THEN r.total_size
                  ELSE R!Min({i \in DOMAIN M : M[i] \in {R!NUL, R!STRAY}})
                       - (IF R!NUL \in R!Range(M) THEN 1 ELSE 0)
  PROVE  Sent(b, a, SubSeq(M, 1, length))
<1>1. PICK total, m, end, usable, k :
        /\ total = r.total_size /\ m = Message(a, b) /\ usable = R!Usable(total)
        /\ end = R!Max({R!Usable(r.total_size), Len(f)}) /\ k = Len(f)
  OBVIOUS
<1>2. Fits(m, f, total, a, b)
  BY <1>1, WrittenFits
<1>3. PICK n : n = (IF b.data = NULL THEN total ELSE total + 2) /\ SeqLong(f, All, n)
  BY <1>2, PlainIsAll DEF Fits
<1>4. k = n /\ k \in Nat
  BY <1>1, <1>3 DEF SeqLong
<1>5. total \in Nat
  BY <1>2 DEF Fits, SeqLong
<1>6. usable \in Int
  BY <1>1, <1>5 DEF R!Usable
<1>7. /\ end \in Nat /\ n <= end
      /\ usable > k => n < end
  <2>1. end = IF usable <= k THEN k ELSE usable
    <3>1. end = R!Max({usable, k})
      BY <1>1
    <3>2. PICK S : S = {usable, k}
      OBVIOUS
    <3>3. PICK g : g = IF usable <= k THEN k ELSE usable
      OBVIOUS
    <3>4. g \in S /\ \A y \in S : g >= y
      BY <1>4, <1>6, <3>2, <3>3
    <3>5. \A x \in S : (\A y \in S : x >= y) => x = g
      BY <1>4, <1>6, <3>2, <3>3
    <3>6. R!Max(S) = g
      BY <3>4, <3>5 DEF R!Max
    <3> QED
      BY <3>1, <3>2, <3>3, <3>6
  <2> QED
    BY <1>4, <1>6, <2>1
<1>8. Held(M, f, end)
  BY <1>1
<1>9. SeqLong(M, All, end + 1) /\ SameUpTo(M, f, n)
  BY <1>3, <1>7, <1>8, MemoryIs
<1>10. length = total
  <2>1. CASE a.exact = TRUE
    BY <1>1, <2>1
  <2>2. CASE a.exact # TRUE
    <3>1. b.data = NULL
      BY <2>2 DEF Built
    <3>2. SeqLong(f, Plain, n)
      BY <1>2, <1>3, <3>1 DEF Fits
    <3>3. total < usable
      BY <1>1, <2>2, <3>1, ChunkIsLonger
    <3>4. n < end
      BY <1>3, <1>4, <1>7, <3>1, <3>3
    <3>5. R!Min({i \in DOMAIN M : M[i] \in {R!NUL, R!STRAY}})
            - (IF R!NUL \in R!Range(M) THEN 1 ELSE 0) = n
      BY <1>7, <1>8, <3>2, <3>4, StrlenIs
    <3> QED
      BY <1>3, <2>2, <3>1, <3>5 DEF Askeds
  <2> QED
    BY <2>1, <2>2
<1>11. PICK s : s = SubSeq(M, 1, total)
  OBVIOUS
<1>12. CASE b.data = NULL
  <2>1. s = f
    <3>1. n = total
      BY <1>3, <1>12
    <3>2. n <= end + 1
      BY <1>4, <1>7
    <3>3. SubSeq(M, 1, n) = f
      BY <1>3, <1>9, <3>2, FirstPart
    <3> QED
      BY <1>11, <3>1, <3>3
  <2>2. a.body = NULL
    BY <1>12 DEF Built
  <2> QED
    BY <1>1, <1>2, <1>10, <1>11, <1>12, <2>1, <2>2 DEF Fits, Sent
<1>13. CASE b.data # NULL
  <2>1. SeqLong(m, All, total) /\ f = m \o R!CRLF /\ n = total + 2
    BY <1>2, <1>3, <1>13 DEF Fits
  <2>2. SameUpTo(f, m, total)
    <3>1. PICK e : e = R!CRLF /\ e \in Seq(All)
      BY LineEnd, PlainIsAll DEF SeqLong
    <3>2. m \in Seq(All) /\ Len(m) = total
      BY <2>1 DEF SeqLong
    <3>3. \A i \in 1 .. total : (m \o e)[i] = m[i]
      BY <3>1, <3>2, ConcatPlaces
    <3> QED
      BY <2>1, <3>1, <3>3 DEF SameUpTo
  <2>3. SameUpTo(M, m, total)
    <3>1. \A i \in 1 .. total : i \in 1 .. n
      BY <1>5, <2>1
    <3> QED
      BY <1>9, <2>2, <3>1 DEF SameUpTo
  <2>4. total <= end + 1
    BY <1>5, <1>7, <2>1
  <2>5. s = m
    BY <1>9, <1>11, <2>1, <2>3, <2>4, FirstPart
  <2> QED
    BY <1>1, <1>10, <1>11, <2>5 DEF Sent
<1> QED
  BY <1>12, <1>13

\* What SentAsMeant needs before anything is sent: at every step of the response
\* what was made so far is what the one after it counts on.
Sound(b, a, r, f, x) ==
  /\ b # NULL => Built(b, a)
  /\ r # NULL => b # NULL /\ Made(b, a, r)
  /\ f # NULL => r # NULL /\ f = Written(r)
  /\ x # NULL => f # NULL /\ Sent(b, a, x)

BytesInv == HeadersInv /\ Sound(builder, asked, response, buffer, sent)

LEMMA BytesInit == R!Init => BytesInv
BY HeadersInit DEF BytesInv, Sound, R!Init

\* Every call keeps it so.
LEMMA BytesStep == BytesInv /\ [R!Next]_R!vars => BytesInv'
<1> SUFFICES ASSUME BytesInv, [R!Next]_R!vars
             PROVE  Sound(builder', asked', response', buffer', sent')
  BY HeadersStep DEF BytesInv
<1>1. /\ Announces(builder, asked, response)
      /\ Announces(builder', asked', response')
      /\ Sound(builder, asked, response, buffer, sent)
  BY HeadersStep DEF BytesInv, HeadersInv
<1>2. /\ asked \in Askeds /\ asked' \in Askeds
      /\ builder # NULL => builder \in R!Builders
      /\ builder' # NULL => builder' \in R!Builders
      /\ builder # NULL => Built(builder, asked)
      /\ builder = NULL => response = NULL /\ asked.body = NULL
      /\ response = NULL => buffer = NULL /\ sent = NULL
  BY <1>1 DEF Announces, Sound
\* An option changes no response, for there is none.
<1>3. ASSUME response = NULL,
             UNCHANGED <<response, buffer, sent>>, Built(builder', asked')
      PROVE  Sound(builder', asked', response', buffer', sent')
  BY <1>2, <1>3 DEF Sound
<1>4. ASSUME NEW status \in R!Statuses, NEW exact \in BOOLEAN,
             R!Create(status, exact)
      PROVE  Sound(builder', asked', response', buffer', sent')
  <2>1. /\ builder = NULL /\ UNCHANGED <<response, buffer, sent>>
        /\ exact = TRUE \/ status \in {400, 404}
        /\ builder' = [status |-> status, headers |-> NULL, data |-> NULL,
                       close |-> FALSE]
        /\ asked' = [asked EXCEPT !.status = status, !.exact = exact]
    BY <1>4 DEF R!Create
  <2>2. asked'.status = status /\ asked'.exact = exact /\ asked'.body = NULL
    BY <1>2, <2>1 DEF Askeds
  <2>3. builder'.status = status /\ builder'.headers = NULL /\ builder'.data = NULL
    BY <2>1
  <2>4. Built(builder', asked')
    BY <2>1, <2>2, <2>3 DEF Built
  <2> QED
    BY <1>2, <1>3, <2>1, <2>4
<1>5. ASSUME NEW type \in {"text/plain", "application/octet-stream"},
             NEW m \in Messages, R!PlainMessage(type, m)
      PROVE  Sound(builder', asked', response', buffer', sent')
  <2>1. /\ builder # NULL /\ response = NULL /\ asked.body = NULL
        /\ asked.exact = TRUE
        /\ UNCHANGED <<response, buffer, sent>> /\ asked' = [asked EXCEPT !.body = m]
    BY <1>2, <1>5 DEF R!PlainMessage, R!Building, Askeds
  <2>2. PICK h : h = R!WithHeaders(builder, << R!Header("Content-Type", type),
                         R!Header("Content-Length", ToString(Len(m))) >>)
    OBVIOUS
  <2>3. builder' = [builder EXCEPT !.headers = h,
                      !.data = R!Duplicate(m)]
    BY <1>5, <2>2 DEF R!PlainMessage
  <2>4. asked.gzip # TRUE
    BY <1>1, <2>1 DEF Announces
  <2>5. h # NULL
    <3>1. PICK g : g = << R!Header("Content-Type", type),
                          R!Header("Content-Length", ToString(Len(m))) >>
      OBVIOUS
    <3>2. g \in Seq(R!HeaderFields)
      BY <3>1, MessageHeaders
    <3>3. h \in Seq(R!HeaderFields)
      <4>1. R!Connection \in R!HeaderFields
        BY HeaderIsField DEF R!Connection, R!Names, R!Values
      <4>2. Append(g, R!Connection) \in Seq(R!HeaderFields)
        BY <3>2, <4>1, AppendProperties
      <4> QED
        BY <2>2, <3>1, <3>2, <4>2 DEF R!WithHeaders
    <3> QED
      BY <3>3, NullIsApart
  <2>6. builder \in R!Builders /\ Built(builder, asked)
    BY <1>2, <2>1
  <2>7. builder' # NULL /\ builder' \in R!Builders
    <3>1. asked'.body # NULL
      BY <1>2, <2>1, NullIsApart DEF Askeds
    <3> QED
      BY <1>1, <1>2, <3>1 DEF Announces
  <2>8. Built(builder', asked')
    BY <1>2, <2>1, <2>3, <2>4, <2>5, <2>6, <2>7, BuiltMessage
  <2> QED
    BY <1>3, <2>1, <2>8
<1>6. CASE R!Close
  <2>1. /\ builder # NULL /\ response = NULL /\ UNCHANGED <<response, buffer, sent>>
        /\ asked' = [asked EXCEPT !.close = TRUE]
        /\ builder' = [builder EXCEPT !.close = TRUE,
                         !.headers = IF @ = NULL THEN NULL
                                                 ELSE Append(@, R!Connection)]
    BY <1>6 DEF R!Close, R!Building
  <2>2. builder \in R!Builders /\ Built(builder, asked) /\ asked.close = FALSE
    <3>1. builder.close = FALSE
      BY <1>2, <1>6, <2>1 DEF R!Close, R!Builders
    <3> QED
      BY <1>1, <1>2, <2>1, <3>1 DEF Announces
  <2>3. builder' # NULL /\ builder' \in R!Builders
    <3>1. asked'.close = TRUE
      BY <1>2, <2>1 DEF Askeds
    <3> QED
      BY <1>1, <1>2, <3>1 DEF Announces
  <2>4. builder.headers # NULL => builder'.headers # NULL
    <3>1. ASSUME builder.headers # NULL
          PROVE  builder'.headers # NULL
      <4>1. builder.headers \in Seq(R!HeaderFields)
        BY <2>2, <3>1 DEF R!Builders
      <4>2. builder'.headers = Append(builder.headers, R!Connection)
        BY <2>1, <2>2, <3>1 DEF R!Builders
      <4>3. R!Connection \in R!HeaderFields
        BY HeaderIsField DEF R!Connection, R!Names, R!Values
      <4>4. builder'.headers \in Seq(R!HeaderFields)
        BY <4>1, <4>2, <4>3, AppendProperties
      <4> QED
        BY <4>4, NullIsApart
    <3> QED
      BY <3>1
  <2>5. Built(builder', asked')
    BY <1>2, <2>1, <2>2, <2>3, <2>4, BuiltClose
  <2> QED
    BY <1>3, <2>1, <2>5
<1>7. CASE R!Construct
  <2>1. /\ builder # NULL /\ response = NULL
        /\ asked' = asked /\ buffer' = buffer /\ sent' = sent
    BY <1>7 DEF R!Construct, R!Building
  <2>2. PICK h : h = IF builder.close /\ builder.headers = NULL
                       THEN <<R!Connection>> ELSE builder.headers
    OBVIOUS
  <2>3. builder' = [builder EXCEPT !.headers = h]
    BY <1>7, <2>2 DEF R!Construct
  <2>4. PICK n : n = R!Number(h, "Content-Length")
    OBVIOUS
  <2>5. PICK size : size = R!StatusLineSize(builder.status)
    OBVIOUS
  <2>6. PICK r2 : r2 = response'
    OBVIOUS
  <2>7. Construction(builder, h, r2)
    <3> DEFINE made(fields, length, total) ==
                 [status |-> builder.status, field_line |-> fields,
                  field_line_len |-> length, total_size |-> size + total]
    <3>1. r2 = CASE h = NULL -> made(<<>>, 0, 2)
                 [] h # NULL /\ builder.data = NULL ->
                      made(R!Lines(h) \o R!CRLF, R!FieldSize(h), R!FieldSize(h) + 2)
                 [] OTHER ->
                      made(R!Fields(h, builder.data, n),
                           R!FieldSize(h) + n, R!FieldSize(h) + n)
      BY <1>7, <2>2, <2>4, <2>5, <2>6 DEF R!Construct
    <3>2. CASE h = NULL
      <4>1. r2 = made(<<>>, 0, 2)
        BY <3>1, <3>2
      <4> QED
        BY <2>5, <3>2, <4>1 DEF Construction
    <3>3. CASE h # NULL /\ builder.data = NULL
      <4>1. r2 = made(R!Lines(h) \o R!CRLF, R!FieldSize(h), R!FieldSize(h) + 2)
        BY <3>1, <3>3
      <4> QED
        BY <2>5, <3>3, <4>1 DEF Construction
    <3>4. CASE h # NULL /\ builder.data # NULL
      <4>1. r2 = made(R!Fields(h, builder.data, n), R!FieldSize(h) + n,
                      R!FieldSize(h) + n)
        BY <3>1, <3>4
      <4> QED
        BY <2>4, <2>5, <3>4, <4>1 DEF Construction
    <3> QED
      BY <3>2, <3>3, <3>4
  <2>8. Announces(builder', asked, response)
    BY <1>1, <2>1, <2>2, <2>3, ConstructStep
  <2>9. builder' # NULL
    <3>1. builder \in R!Builders
      BY <1>2, <2>1
    <3>2. <<R!Connection>> \in Seq(R!HeaderFields)
      <4>1. R!Connection \in R!HeaderFields
        BY HeaderIsField DEF R!Connection, R!Names, R!Values
      <4> QED
        BY <4>1
    <3>3. h \in {NULL} \cup Seq(R!HeaderFields)
      BY <2>2, <3>1, <3>2 DEF R!Builders
    <3>4. builder' \in R!Builders
      BY <2>3, <3>1, <3>3 DEF R!Builders
    <3> QED
      BY <3>4, NullIsApart
  <2>10. Built(builder', asked) /\ Made(builder', asked, r2)
    <3>1. Announces(builder, asked, response) /\ Built(builder, asked)
      BY <1>1, <1>2, <2>1
    <3> QED
      BY <2>1, <2>2, <2>3, <2>7, <2>8, <2>9, <3>1, Constructed
  <2> QED
    BY <1>2, <2>1, <2>6, <2>9, <2>10 DEF Sound
<1>8. ASSUME R!MayCompress,
             NEW result \in {NULL, R!Bytes(Gzip[asked.body])}, R!Compress(result)
      PROVE  Sound(builder', asked', response', buffer', sent')
  <2>1. /\ builder # NULL /\ response = NULL /\ UNCHANGED <<response, buffer, sent>>
        /\ builder.data # NULL /\ builder.headers # NULL /\ asked.gzip = NULL
        /\ asked' = [asked EXCEPT !.gzip = result # NULL]
    BY <1>8 DEF R!Compress, R!MayCompress, R!Building
  <2>2. builder \in R!Builders /\ Built(builder, asked)
    BY <1>2, <2>1
  <2>3. CASE result = NULL
    <3>1. builder' = builder /\ asked' = [asked EXCEPT !.gzip = FALSE]
      BY <1>8, <2>1, <2>3 DEF R!Compress
    <3>2. /\ asked'.body = asked.body /\ asked'.gzip = FALSE /\ asked.gzip # TRUE
          /\ asked'.status = asked.status /\ asked'.exact = asked.exact
          /\ asked'.close = asked.close
      BY <1>2, <2>1, <3>1, NullIsApart DEF Askeds
    <3>3. Body(asked') = Body(asked)
      BY <3>2 DEF Body, BodySent
    <3>4. Built(builder', asked')
      BY <2>2, <3>1, <3>2, <3>3 DEF Built
    <3> QED
      BY <1>3, <2>1, <3>4
  <2>4. CASE result # NULL
    <3>1. result = R!Bytes(Gzip[asked.body])
      BY <2>4
    <3>2. PICK h : h = R!Relabelled(builder.headers, Len(result))
      OBVIOUS
    <3>3. builder' = [builder EXCEPT !.headers = h,
                        !.data = [bytes |-> result, terminated |-> FALSE]]
      BY <1>8, <2>4, <3>2 DEF R!Compress
    <3>4. asked' = [asked EXCEPT !.gzip = TRUE]
      BY <2>1, <2>4
    <3>5. h # NULL
      <4>1. asked'.gzip = TRUE
        BY <1>2, <3>4 DEF Askeds
      <4>2. asked'.body # NULL
        BY <1>1, <4>1 DEF Announces
      <4>3. builder'.headers = h
        BY <2>2, <3>3 DEF R!Builders
      <4>4. builder' # NULL
        BY <1>1, <4>2 DEF Announces
      <4> QED
        BY <1>1, <4>2, <4>3, <4>4 DEF Announces
    <3>6. Built(builder', asked')
      BY <1>2, <2>1, <2>2, <3>1, <3>3, <3>4, <3>5, BuiltCompressed
    <3> QED
      BY <1>3, <2>1, <3>6
  <2> QED
    BY <2>3, <2>4
<1>9. CASE R!ToBuffer
  <2>1. /\ response # NULL /\ UNCHANGED <<builder, response, sent, asked>>
        /\ buffer = NULL
    BY <1>9 DEF R!ToBuffer
  <2>2. buffer' = Written(response)
    BY <1>9 DEF R!ToBuffer, Written, StatusLine
  <2> QED
    BY <1>1, <2>1, <2>2 DEF Sound
<1>10. CASE R!Send
  <2>1. /\ buffer # NULL /\ sent = NULL
        /\ UNCHANGED <<builder, response, buffer, asked>>
        /\ sent' = SubSeq(R!Memory, 1, R!Length)
    BY <1>10 DEF R!Send
  <2>2. /\ response # NULL /\ buffer = Written(response)
        /\ builder # NULL /\ Made(builder, asked, response)
    BY <1>1, <2>1 DEF Sound
  <2>3. PICK M, f, r : M = R!Memory /\ f = buffer /\ r = response
    OBVIOUS
  <2>4. Held(M, f, R!Max({R!Usable(r.total_size), Len(f)}))
    BY <2>3 DEF Held, R!Memory
  <2>5. PICK length : length = R!Length
    OBVIOUS
  <2>6. length = IF asked.exact THEN r.total_size
                 ELSE R!Min({i \in DOMAIN M : M[i] \in {R!NUL, R!STRAY}})
                      - (IF R!NUL \in R!Range(M) THEN 1 ELSE 0)
    BY <2>3, <2>5 DEF R!Length, R!Strlen
  <2>7. Sent(builder, asked, SubSeq(M, 1, length))
    BY <1>2, <2>2, <2>3, <2>4, <2>6, Sends
  <2>8. Sent(builder', asked', sent')
    BY <2>1, <2>3, <2>5, <2>7
  <2> QED
    BY <1>1, <2>1, <2>8 DEF Sound
<1>11. CASE UNCHANGED R!vars
  BY <1>1, <1>11 DEF R!vars
<1> QED
  BY <1>4, <1>5, <1>6, <1>7, <1>8, <1>9, <1>10, <1>11 DEF R!Next, R!Call

\* What was sent is what was meant.
LEMMA BytesInvSays == BytesInv => SentAsMeant
<1> SUFFICES ASSUME BytesInv, sent # NULL PROVE R!SentAsMeant
  BY DEF SentAsMeant, R!SentAsMeant
<1>1. Sent(builder, asked, sent) /\ asked \in Askeds
  BY DEF BytesInv, Sound, HeadersInv, Announces
<1>2. PICK lines, body, status :
        /\ lines = IF builder.headers = NULL THEN <<>> ELSE R!Lines(builder.headers)
        /\ body = CASE asked.body = NULL -> <<>>
                    [] asked.body # NULL /\ asked.gzip = TRUE ->
                         R!Bytes(Gzip[asked.body])
                    [] OTHER -> R!Delivered(asked.body)
        /\ status = R!Bytes("HTTP/1.1") \o R!Bytes(" ")
                    \o R!Bytes(ToString(asked.status)) \o R!Bytes(" ")
                    \o R!Bytes(R!Reason(asked.status)) \o R!CRLF
  OBVIOUS
<1>3. lines = HeadLines(builder)
  BY <1>2 DEF HeadLines
<1>4. status = StatusLine(asked.status)
  BY <1>2 DEF StatusLine
<1>5. body = Body(asked)
  <2>1. CASE asked.body = NULL
    BY <1>2, <2>1 DEF Body
  <2>2. CASE asked.body # NULL /\ asked.gzip = TRUE
    BY <1>2, <2>2 DEF Body, BodySent
  <2>3. CASE asked.body # NULL /\ asked.gzip # TRUE
    BY <1>2, <2>3 DEF Body, BodySent
  <2> QED
    BY <2>1, <2>2, <2>3
<1>6. PICK message : message = status \o lines \o R!CRLF \o body
  OBVIOUS
<1>7. message = Message(asked, builder)
  BY <1>3, <1>4, <1>5, <1>6 DEF Message
<1>8. sent = message \/ (asked.close = TRUE /\ asked.body = NULL /\ sent = message \o R!CRLF)
  BY <1>1, <1>7 DEF Sent
<1> QED
  BY <1>2, <1>6, <1>8, ZenonT(60) DEF R!SentAsMeant

\* A client gets the status line, the headers, the empty line and as many bytes of
\* the body as were announced, and nothing else but an empty line after a response
\* that closes the connection and has no body: of the byte that construct copies
\* past the body, the two that the serialiser writes past its block and what
\* strlen() may run into, none is sent, for any bodies and any forms.  The body of
\* a text, of its compressed form and of a file without a zero byte is theirs; of
\* another file what follows its first zero byte is replaced by as much of what is
\* behind the copy of what precedes it.
THEOREM BytesSent == GSpec => []SentAsMeant
<1>1. R!Spec => []BytesInv
  BY BytesInit, BytesStep, PTL DEF R!Spec
<1> QED
  BY <1>1, GzipImplementsResponse, BytesInvSays, PTL

-----------------------------------------------------------------------------
(* The types.                                                              *)

\* A byte is named by a text.
LEMMA AllAreTexts == \A s : s \in Seq(All) => s \in Seq(STRING)
<1>1. PICK S : S = STRING
  OBVIOUS
<1>2. Plain \cup {R!NUL, R!STRAY} \subseteq S
  BY <1>1, TextsHold, Zenon DEF R!TextsAssumption, Plain
<1>3. Messages \subseteq S /\ \A m \in Messages : Gzip[m] \in S
  BY <1>1, GzipResponseAssumption DEF R!ResponseAssumption, R!ConstantsAssumption
<1>4. All \subseteq S
  BY <1>2, <1>3 DEF All
<1> QED
  BY <1>1, <1>4, SeqMonotonic

\* A message is made of the bytes of texts.
LEMMA MessageIsText ==
  ASSUME NEW a \in Askeds, NEW b \in R!Builders, Built(b, a)
  PROVE  Message(a, b) \in Seq(All) /\ Message(a, b) \o R!CRLF \in Seq(All)
<1>1. PICK H, L, E, B :
        H = StatusLine(a.status) /\ L = HeadLines(b) /\ E = R!CRLF /\ B = Body(a)
  OBVIOUS
<1>2. \A s : s \in Seq(Plain) => s \in Seq(All)
  <2>1. Plain \subseteq All
    BY DEF All
  <2> QED
    BY <2>1, SeqMonotonic
<1>3. H \in Seq(All) /\ E \in Seq(All)
  BY <1>1, <1>2, StatusLineCounted, LineEnd DEF Built, SeqLong
<1>4. L \in Seq(All)
  <2>1. CASE b.headers = NULL
    BY <1>1, <2>1 DEF HeadLines
  <2>2. CASE b.headers # NULL
    <3>1. b.headers \in Seq(R!HeaderFields)
      BY <2>2 DEF R!Builders
    <3>2. R!Lines(b.headers) \in Seq(Plain)
      BY <3>1, LinesPlain
    <3> QED
      BY <1>1, <1>2, <2>2, <3>2 DEF HeadLines
  <2> QED
    BY <2>1, <2>2
<1>5. B \in Seq(All)
  <2>1. CASE a.body = NULL
    BY <1>1, <2>1 DEF Body
  <2>2. CASE a.body # NULL
    BY <1>1, <2>2, BodyIs DEF SeqLong
  <2> QED
    BY <2>1, <2>2
<1>6. H \o L \o E \o B \in Seq(All) /\ (H \o L \o E \o B) \o E \in Seq(All)
  BY <1>3, <1>4, <1>5, ConcatProperties
<1> QED
  BY <1>1, <1>6 DEF Message

\* The invariants of the headers and the bytes give the response its types.
LEMMA ResponseTypes == BytesInv => R!TypeOK
<1> SUFFICES ASSUME BytesInv PROVE R!TypeOK
  OBVIOUS
<1>1. /\ Announces(builder, asked, response)
      /\ Sound(builder, asked, response, buffer, sent)
  BY DEF BytesInv, HeadersInv
<1>2. asked \in Askeds /\ (builder # NULL => builder \in R!Builders)
  BY <1>1 DEF Announces
<1>3. ASSUME response # NULL
      PROVE  /\ response.total_size \in Nat
             /\ response.field_line_len <= Len(response.field_line)
             /\ Written(response) \in Seq(All)
  <2>1. /\ builder \in R!Builders /\ Built(builder, asked)
        /\ Made(builder, asked, response)
    BY <1>1, <1>2, <1>3 DEF Sound
  <2>2. PICK m, f, total :
          m = Message(asked, builder) /\ f = Written(response)
          /\ total = response.total_size
    OBVIOUS
  <2>3. Fits(m, f, total, asked, builder)
    BY <1>2, <2>1, <2>2, WrittenFits
  <2>4. f \in Seq(All) /\ total \in Nat
    BY <2>3, PlainIsAll DEF Fits, SeqLong
  <2> QED
    BY <2>1, <2>2, <2>4 DEF Made
<1>4. buffer # NULL => buffer \in Seq(STRING)
  BY <1>1, <1>3, AllAreTexts DEF Sound
<1>5. ASSUME sent # NULL
      PROVE  sent \in Seq(STRING)
  <2>1. builder \in R!Builders /\ Built(builder, asked) /\ Sent(builder, asked, sent)
    BY <1>1, <1>2, <1>5 DEF Sound
  <2>2. PICK m : m = Message(asked, builder)
    OBVIOUS
  <2>3. m \in Seq(All) /\ m \o R!CRLF \in Seq(All)
    BY <1>2, <2>1, <2>2, MessageIsText
  <2> QED
    BY <2>1, <2>2, <2>3, AllAreTexts DEF Sent
<1> QED
  BY <1>2, <1>3, <1>4, <1>5 DEF R!TypeOK

\* The round of the loop that the heap is checked in.
LEMMA RoundInit == Own!Init => Own!TypeOK
<1>1. PICK r : r = [method |-> "GET", path |-> "/", headers |-> {}, close |-> FALSE,
                    number |-> FALSE, gzip |-> FALSE]
  OBVIOUS
<1>2. r \in Own!Requests /\ r.headers = {}
  BY <1>1 DEF Own!Requests, Own!Paths
<1>3. (CHOOSE q \in Own!Requests : q.headers = {}) \in Own!Requests
  BY <1>2
<1> QED
  BY <1>3 DEF Own!Init, Own!TypeOK

LEMMA RoundStep == Own!TypeOK /\ [Own!Next]_(Own!vars) => Own!TypeOK'
BY DEF Own!TypeOK, Own!Next, Own!vars, Own!Parse, Own!BadRequest, Own!HangUp, Own!Route,
       Own!NoRoute, Own!Sent, Own!NotFound, Own!Release, Own!ReadOn

\* Of a response that is compressed as it is built, and of a round of the loop, the
\* variables keep their types, for any bodies and any forms: the room deflate is
\* told of ends where the output does, construct leaves at least as many bytes of
\* field lines as the serialiser reads, and all that is written and sent are bytes
\* of texts.
THEOREM TypesKept == GSpec /\ Own!Spec => []TypesOK
<1>1. R!Spec => []R!TypeOK
  BY BytesInit, BytesStep, ResponseTypes, PTL DEF R!Spec
<1>2. Own!Spec => []Own!TypeOK
  BY RoundInit, RoundStep, PTL DEF Own!Spec
<1> QED
  BY <1>1, <1>2, GzipWhole, GzipImplementsResponse, PTL DEF TypesOK

=============================================================================
