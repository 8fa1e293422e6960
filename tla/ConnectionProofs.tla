-------------------------- MODULE ConnectionProofs --------------------------
(***************************************************************************)
(* What is proved of one connection: that a request that arrives whole is    *)
(* read as it was meant, whatever its headers and its body, and what follows *)
(* for the answers, the files and the end of the connection.                *)
(***************************************************************************)
EXTENDS Connection, SequenceLemmas

-----------------------------------------------------------------------------
(* The answers.                                                            *)

\* The routes that take a request.
Takers(req, fs) == {k \in DOMAIN routes : /\ Matches(routes[k], req.target)
                                          /\ Handle(routes[k], req, fs) # NULL}

\* There are four routes.
LEMMA RoutesAre ==
  /\ DOMAIN routes = 1 .. 4
  /\ routes[1] = "/" /\ routes[2] = "/echo/" /\ routes[3] = "/user-agent"
  /\ routes[4] = "/files/"
BY DEF routes

\* An answer is that of the first route that takes the request.
LEMMA AnswerIs ==
  ASSUME NEW req, NEW fs
  PROVE  \/ Takers(req, fs) = {} /\ Answer(req, fs) = Plain(req, 404, <<>>)
         \/ \E k \in Takers(req, fs) :
              /\ \A m \in Takers(req, fs) : k <= m
              /\ Answer(req, fs) = Handle(routes[k], req, fs)
<1> DEFINE T == Takers(req, fs)
<1>1. T \in SUBSET (1 .. 4)
  BY RoutesAre DEF Takers
<1>2. Answer(req, fs) = IF T = {} THEN Plain(req, 404, <<>>)
                                  ELSE Handle(routes[Min(T)], req, fs)
  BY DEF Answer, Takers
<1> HIDE DEF T
<1>3. T # {} => Min(T) \in T /\ \A m \in T : Min(T) <= m
  BY <1>1, FirstPosition
<1>4. \/ T = {} /\ Answer(req, fs) = Plain(req, 404, <<>>)
      \/ \E k \in T : /\ \A m \in T : k <= m
                      /\ Answer(req, fs) = Handle(routes[k], req, fs)
  BY <1>2, <1>3
<1> QED
  BY <1>4 DEF T

\* A handler that answers announces the close if the request asks for it, unless
\* it refuses the request, and never otherwise.
LEMMA HandlerCloses ==
  ASSUME NEW req, NEW fs, NEW k \in Takers(req, fs),
         NEW answer, answer = Handle(routes[k], req, fs)
  PROVE  /\ answer.close => WantsClose(req)
         /\ WantsClose(req) => answer.close \/ answer.status = 400
<1>1. answer # NULL /\ k \in 1 .. 4
  BY RoutesAre DEF Takers
<1>2. CASE k = 1
  <2>1. answer = RouteRoot(req)
    BY <1>2, RoutesAre DEF Handle
  <2> QED
    BY <1>1, <2>1 DEF RouteRoot, Plain, Response
<1>3. CASE k = 2
  <2>1. answer = RouteEcho(req)
    BY <1>3, RoutesAre DEF Handle
  <2> QED
    BY <2>1 DEF RouteEcho, Response
<1>4. CASE k = 3
  <2>1. answer = RouteUserAgent(req)
    BY <1>4, RoutesAre DEF Handle
  <2> QED
    BY <1>1, <2>1 DEF RouteUserAgent, Plain, Response
<1>5. CASE k = 4
  <2>1. answer = RouteFiles(req, fs)
    BY <1>5, RoutesAre DEF Handle
  <2>2. answer = GetFiles(req, fs) \/ answer = PostFiles(req, fs)
    BY <1>1, <2>1 DEF RouteFiles
  <2>3. CASE answer = GetFiles(req, fs)
    BY <2>3 DEF GetFiles, Plain, Response
  <2>4. CASE answer = PostFiles(req, fs)
    BY <2>4 DEF PostFiles, Plain, Response
  <2> QED
    BY <2>2, <2>3, <2>4
<1> QED
  BY <1>1, <1>2, <1>3, <1>4, <1>5

LEMMA AnswerCloses ==
  ASSUME NEW req, NEW fs
  PROVE  /\ Answer(req, fs).close => WantsClose(req)
         /\ WantsClose(req) => \/ Answer(req, fs).close
                               \/ Answer(req, fs).status = 400
<1>1. CASE Answer(req, fs) = Plain(req, 404, <<>>)
  BY <1>1 DEF Plain, Response
<1>2. CASE \E k \in Takers(req, fs) : Answer(req, fs) = Handle(routes[k], req, fs)
  BY <1>2, HandlerCloses
<1> QED
  BY <1>1, <1>2, AnswerIs

-----------------------------------------------------------------------------
(* The end of the connection.                                              *)

\* While the child reads, no answer has announced the close.
CloseInv ==
  /\ \E S : replies \in Seq(S)
  /\ state = "reading" => \A i \in DOMAIN replies : ~replies[i].close
  /\ CloseIsAnnounced

\* What one more answer does to the invariant.
LEMMA OneMoreAnswer ==
  ASSUME CloseInv, state = "reading", NEW answer,
         replies' = Append(replies, answer), state' \in {"reading", "closed"},
         answer.close => state' = "closed",
         state' = "closed" => answer.close \/ answer.status = 400
  PROVE  CloseInv'
<1>1. PICK S : replies \in Seq(S)
  BY DEF CloseInv
<1>2. /\ \E T : replies' \in Seq(T)
      /\ Len(replies) \in Nat /\ DOMAIN replies = 1 .. Len(replies)
      /\ Len(replies') = Len(replies) + 1
      /\ DOMAIN replies' = 1 .. Len(replies) + 1
      /\ \A i \in 1 .. Len(replies) : replies'[i] = replies[i]
      /\ replies'[Len(replies) + 1] = answer
  <2>1. \E T : Append(replies, answer) \in Seq(T)
    <3>1. replies \in Seq(S \cup {answer}) /\ answer \in S \cup {answer}
      BY <1>1, SeqMonotonic
    <3> QED
      BY <3>1
  <2>2. /\ Len(replies) \in Nat /\ DOMAIN replies = 1 .. Len(replies)
        /\ Len(Append(replies, answer)) = Len(replies) + 1
        /\ DOMAIN Append(replies, answer) = 1 .. Len(replies) + 1
    BY <1>1, AppendAny
  <2>3. /\ \A i \in 1 .. Len(replies) : Append(replies, answer)[i] = replies[i]
        /\ Append(replies, answer)[Len(replies) + 1] = answer
    BY <1>1, AppendAny
  <2> QED
    BY <2>1, <2>2, <2>3
<1>3. \A i \in DOMAIN replies' : i = Len(replies') \/ ~replies'[i].close
  <2>1. \A i \in DOMAIN replies : ~replies[i].close
    BY DEF CloseInv
  <2>2. \A i \in 1 .. Len(replies) + 1 :
          i = Len(replies) + 1 \/ i \in 1 .. Len(replies)
    BY <1>2
  <2> QED
    BY <1>2, <2>1, <2>2
<1>4. Last(replies') = answer /\ replies' # <<>>
  BY <1>2 DEF Last
<1>5. CloseIsAnnounced'
  BY <1>2, <1>3, <1>4 DEF CloseIsAnnounced
<1>6. state' = "reading" => \A i \in DOMAIN replies' : ~replies'[i].close
  BY <1>2, <1>3
<1> QED
  BY <1>2, <1>5, <1>6 DEF CloseInv

LEMMA CloseStep == CloseInv /\ [Next]_vars => CloseInv'
<1> SUFFICES ASSUME CloseInv, [Next]_vars PROVE CloseInv'
  OBVIOUS
<1>1. CASE ServeBad
  <2>1. PICK answer : /\ answer = Response(400, FALSE, FALSE, <<>>)
                      /\ replies' = Append(replies, answer)
    BY <1>1 DEF ServeBad
  <2>2. state = "reading" /\ state' = "closed"
    BY <1>1 DEF ServeBad, Recv
  <2> QED
    BY <2>1, <2>2, OneMoreAnswer DEF Response
<1>2. CASE ServeRequest
  <2>1. PICK req, answer :
          /\ answer = Answer(req, files) /\ replies' = Append(replies, answer)
          /\ state' = IF WantsClose(req) THEN "closed" ELSE "reading"
    BY <1>2 DEF ServeRequest
  <2>2. state = "reading"
    BY <1>2 DEF ServeRequest, Recv
  <2>3. /\ answer.close => WantsClose(req)
        /\ WantsClose(req) => answer.close \/ answer.status = 400
    BY <2>1, AnswerCloses
  <2> QED
    BY <2>1, <2>2, <2>3, OneMoreAnswer
<1>3. CASE ServeFault \/ SendKilled
  BY <1>3 DEF ServeFault, SendKilled, Recv, CloseInv, CloseIsAnnounced
<1>4. CASE RecvHangUp
  BY <1>4 DEF RecvHangUp, CloseInv, CloseIsAnnounced
<1>5. CASE Network \/ HangUp \/ \E r \in Requests[network] : SendRequest(r)
  BY <1>5 DEF Network, Deliver, HangUp, SendRequest, CloseInv, CloseIsAnnounced
<1>6. CASE UNCHANGED vars
  BY <1>6 DEF vars, CloseInv, CloseIsAnnounced
<1> QED
  BY <1>1, <1>2, <1>3, <1>4, <1>5, <1>6 DEF Next, Child

\* The server closes a connection its client keeps open only after an answer
\* that says so, or after a 400, however TCP cuts the requests, whatever they are
\* and however large the buffer; and an answer that says so is the last one.
THEOREM CloseAnnounced == Spec => []CloseIsAnnounced
<1>1. Init => CloseInv
  <2>1. <<>> \in Seq({})
    BY EmptySeq
  <2> QED
    BY <2>1 DEF Init, CloseInv, CloseIsAnnounced
<1>2. CloseInv => CloseIsAnnounced
  BY DEF CloseInv
<1> QED
  BY <1>1, <1>2, CloseStep, PTL DEF Spec

-----------------------------------------------------------------------------
(* What arrives of a request.                                              *)

Header == [name : HeaderNames, value : Seq(Word \cup {SP})]

Line(h) == <<h.name, SP>> \o h.value \o <<NL>>

\* The header lines, the empty line and the body.
Rest(r) ==
  FlattenSeq([k \in DOMAIN r.headers |-> Line(r.headers[k])]) \o <<NL>> \o r.body

\* A request with a target.
Whole(r) == WellFormed(r) /\ r.target # NULL

\* The constants of a sequence of bytes.
LEMMA Symbols ==
  /\ SP \in Symbol /\ NL \in Symbol /\ SP # NL /\ Word \subseteq Symbol
  /\ HeaderNames \subseteq Word /\ SP \notin Word /\ NL \notin Word
  /\ "HTTP/1.1" \in Word
  /\ ZERO \notin Symbol /\ Symbol \subseteq Byte
BY RequestAssumption, ConnectionAssumption DEF Symbol, Byte, SP, NL, ZERO

\* The parts of a request with a target.
LEMMA WholeHas ==
  ASSUME NEW r, Whole(r)
  PROVE  /\ r.method \in Word /\ r.target \in Word
         /\ r.headers \in Seq(Header) /\ Len(r.headers) \in Nat
         /\ DOMAIN r.headers = 1 .. Len(r.headers)
         /\ \A k \in 1 .. Len(r.headers) :
              /\ r.headers[k] \in Header
              /\ r.headers[k].value # <<>> => Head(r.headers[k].value) # SP
         /\ r.body \in Seq(Symbol) /\ Len(r.body) \in Nat
         /\ ParseLong(Meant(r).headers["Content-Length:"]) \in {NULL, Len(r.body)}
<1>1. /\ r.method \in Word /\ r.target \in Word
      /\ r.headers \in Seq(Header) /\ r.body \in Seq(Symbol)
      /\ \A k \in DOMAIN r.headers :
           r.headers[k].value # <<>> => Head(r.headers[k].value) # SP
      /\ ParseLong(Meant(r).headers["Content-Length:"]) \in {NULL, Len(r.body)}
  BY DEF Whole, WellFormed, Header
<1>2. /\ Len(r.headers) \in Nat /\ DOMAIN r.headers = 1 .. Len(r.headers)
      /\ Len(r.body) \in Nat
  BY <1>1, LenProperties
<1>3. \A k \in 1 .. Len(r.headers) : r.headers[k] \in Header
  BY <1>1, ElementOfSeq
<1> QED
  BY <1>1, <1>2, <1>3

\* A header line has its line end at its end, and nowhere else.
LEMMA LineIs ==
  ASSUME NEW h \in Header
  PROVE  /\ h.name \in HeaderNames /\ h.value \in Seq(Symbol) /\ Len(h.value) \in Nat
         /\ Line(h) \in Seq(Symbol) /\ Len(Line(h)) = Len(h.value) + 3
         /\ Line(h)[1] = h.name /\ Line(h)[2] = SP
         /\ \A m \in 1 .. Len(h.value) : Line(h)[m + 2] = h.value[m]
         /\ Line(h)[Len(h.value) + 3] = NL
         /\ \A m \in 1 .. Len(h.value) + 2 : Line(h)[m] # NL
<1> DEFINE v == h.value
           s == <<h.name, SP>>
           e == <<NL>>
<1>1. h.name \in HeaderNames /\ v \in Seq(Word \cup {SP})
  BY DEF Header
<1>2. s \in Seq(Symbol) /\ Len(s) = 2 /\ s[1] = h.name /\ s[2] = SP
  <2>1. h.name \in Symbol /\ SP \in Symbol
    BY <1>1, Symbols
  <2> QED
    BY <2>1
<1>3. e \in Seq(Symbol) /\ Len(e) = 1 /\ e[1] = NL
  BY Symbols
<1>4. /\ v \in Seq(Symbol) /\ Len(v) \in Nat
      /\ \A m \in 1 .. Len(v) : v[m] # NL
  <2>1. Word \cup {SP} \subseteq Symbol /\ NL \notin Word \cup {SP}
    BY Symbols
  <2>2. v \in Seq(Symbol)
    BY <1>1, <2>1, SeqMonotonic
  <2>3. \A m \in 1 .. Len(v) : v[m] \in Word \cup {SP}
    BY <1>1, ElementOfSeq
  <2> QED
    BY <2>1, <2>2, <2>3, LenProperties
<1>5. Line(h) = (s \o v) \o e
  BY DEF Line
<1>6. h.name # NL /\ SP # NL
  BY <1>1, Symbols
<1> HIDE DEF s, v, e
<1>7. /\ s \o v \in Seq(Symbol) /\ Len(s \o v) = 2 + Len(v)
      /\ (s \o v)[1] = h.name /\ (s \o v)[2] = SP
      /\ \A m \in 1 .. Len(v) : (s \o v)[m + 2] = v[m]
  <2>1. /\ s \o v \in Seq(Symbol) /\ Len(s \o v) = Len(s) + Len(v)
        /\ \A m \in 1 .. Len(s) : (s \o v)[m] = s[m]
        /\ \A m \in 1 .. Len(v) : (s \o v)[Len(s) + m] = v[m]
    <3>1. s \in Seq(Symbol) /\ v \in Seq(Symbol)
      BY <1>2, <1>4
    <3> QED
      BY <3>1, ConcatPlaces
  <2>2. \A m \in 1 .. Len(v) : 2 + m = m + 2
    OBVIOUS
  <2> QED
    BY <1>2, <2>1, <2>2
<1> DEFINE t == s \o v
<1>8. /\ Line(h) \in Seq(Symbol) /\ Len(Line(h)) = Len(v) + 3
      /\ \A m \in 1 .. Len(v) + 2 : Line(h)[m] = t[m]
      /\ Line(h)[Len(v) + 3] = NL
  <2> DEFINE n == Len(v) + 2
  <2>1. t \in Seq(Symbol) /\ Len(t) = n /\ Line(h) = t \o e /\ n \in Nat
    BY <1>4, <1>5, <1>7
  <2>2. n + 1 = Len(v) + 3 /\ 1 \in 1 .. 1
    BY <1>4
  <2> HIDE DEF t, n
  <2>3. /\ t \o e \in Seq(Symbol) /\ Len(t \o e) = Len(t) + Len(e)
        /\ \A m \in 1 .. Len(t) : (t \o e)[m] = t[m]
        /\ \A m \in 1 .. Len(e) : (t \o e)[Len(t) + m] = e[m]
    <3>1. t \in Seq(Symbol) /\ e \in Seq(Symbol)
      BY <1>3, <2>1
    <3> QED
      BY <3>1, ConcatPlaces
  <2>4. (t \o e)[n + 1] = NL
    BY <1>3, <2>1, <2>2, <2>3
  <2> QED
    BY <1>3, <2>1, <2>2, <2>3, <2>4 DEF n
<1>9. /\ Line(h)[1] = h.name /\ Line(h)[2] = SP
      /\ \A m \in 1 .. Len(v) : Line(h)[m + 2] = v[m]
  <2>1. /\ 1 \in 1 .. Len(v) + 2 /\ 2 \in 1 .. Len(v) + 2
        /\ \A m \in 1 .. Len(v) : m + 2 \in 1 .. Len(v) + 2
    BY <1>4
  <2> QED
    BY <1>7, <1>8, <2>1
<1>10. \A m \in 1 .. Len(v) + 2 : Line(h)[m] # NL
  <2>1. ASSUME NEW m \in 1 .. Len(v) + 2
        PROVE  Line(h)[m] # NL
    <3>1. CASE m \in {1, 2}
      BY <1>6, <1>9, <3>1
    <3>2. CASE m \notin {1, 2}
      <4>1. m - 2 \in 1 .. Len(v) /\ (m - 2) + 2 = m
        BY <1>4, <3>2
      <4> QED
        BY <1>4, <1>9, <4>1
    <3> QED
      BY <3>1, <3>2
  <2> QED
    BY <2>1
<1> QED
  BY <1>1, <1>4, <1>8, <1>9, <1>10 DEF v

\* How the bytes after the first line lie: the k-th header line from start[k] on,
\* then the empty line, then the body.
Lined(text, r, start, n) ==
  /\ text \in Seq(Symbol) /\ n = Len(r.headers)
  /\ start \in [1 .. n + 1 -> Nat \ {0}] /\ start[1] = 1
  /\ \A k \in 1 .. n :
       /\ start[k + 1] = start[k] + Len(r.headers[k].value) + 3
       /\ \A m \in 1 .. Len(r.headers[k].value) + 3 :
            text[start[k] + m - 1] = Line(r.headers[k])[m]
  /\ \A k \in 1 .. n : \A l \in 1 .. n + 1 : k < l => start[k] < start[l]
  /\ \A p \in 1 .. start[n + 1] - 1 :
       \E k \in 1 .. n : \E m \in 1 .. Len(r.headers[k].value) + 3 :
         p = start[k] + m - 1
  /\ Len(text) = start[n + 1] + Len(r.body) /\ text[start[n + 1]] = NL
  /\ \A m \in 1 .. Len(r.body) : text[start[n + 1] + m] = r.body[m]

LEMMA RestIsLined ==
  ASSUME NEW r, Whole(r)
  PROVE  \E start : Lined(Rest(r), r, start, Len(r.headers))
<1> DEFINE n == Len(r.headers)
           q == [k \in 1 .. n |-> Line(r.headers[k])]
           F == FlattenSeq(q)
           e == <<NL>>
<1>1. /\ n \in Nat /\ DOMAIN r.headers = 1 .. n
      /\ r.body \in Seq(Symbol) /\ Len(r.body) \in Nat
      /\ \A k \in 1 .. n : r.headers[k] \in Header
  BY WholeHas
<1>2. \A k \in 1 .. n :
        /\ Line(r.headers[k]) \in Seq(Symbol)
        /\ Len(Line(r.headers[k])) = Len(r.headers[k].value) + 3
        /\ Len(r.headers[k].value) \in Nat
  BY <1>1, LineIs
<1>3. /\ q \in [1 .. n -> Seq(Symbol)]
      /\ \A k \in 1 .. n : q[k] = Line(r.headers[k])
  BY <1>2
<1>4. Rest(r) = (F \o e) \o r.body
  BY <1>1 DEF Rest
<1>5. e \in Seq(Symbol) /\ Len(e) = 1 /\ e[1] = NL
  BY Symbols
<1> HIDE DEF q, F, e, n
<1>6. PICK start : Laid(start, Symbol, q, n)
  BY <1>1, <1>3, FlattenedLaid
<1>7. /\ start \in [1 .. n + 1 -> Nat \ {0}] /\ start[1] = 1
      /\ \A k \in 1 .. n : start[k + 1] = start[k] + Len(r.headers[k].value) + 3
      /\ F \in Seq(Symbol) /\ Len(F) = start[n + 1] - 1
      /\ \A k \in 1 .. n : \A m \in 1 .. Len(r.headers[k].value) + 3 :
           F[start[k] + m - 1] = Line(r.headers[k])[m]
  <2>1. \A k \in 1 .. n : start[k] \in Nat
    BY <1>1, <1>6 DEF Laid
  <2>2. \A k \in 1 .. n : start[k + 1] = start[k] + Len(q[k])
    BY <1>6 DEF Laid
  <2>3. \A k \in 1 .. n : Len(q[k]) = Len(r.headers[k].value) + 3
    BY <1>2, <1>3
  <2>4. ASSUME NEW k \in 1 .. n
        PROVE  start[k + 1] = start[k] + Len(r.headers[k].value) + 3
    <3>1. PICK a \in Nat, v \in Nat : a = start[k] /\ v = Len(r.headers[k].value)
      BY <1>2, <2>1
    <3>2. start[k + 1] = a + (v + 3)
      BY <2>2, <2>3, <3>1
    <3> QED
      BY <3>1, <3>2
  <2>5. \A k \in 1 .. n : \A m \in 1 .. Len(r.headers[k].value) + 3 :
           F[start[k] + m - 1] = Line(r.headers[k])[m]
    BY <1>3, <1>6, <2>3 DEF Laid, F
  <2> QED
    BY <1>6, <2>4, <2>5 DEF Laid, F
<1>8. ASSUME NEW k \in 1 .. n, NEW l \in 1 .. n + 1, k < l
      PROVE  start[k] < start[l]
  <2>1. PICK j \in Nat : l = k + 1 + j /\ k + j <= n
    <3>1. l - (k + 1) \in Nat /\ l = k + 1 + (l - (k + 1)) /\ k + (l - (k + 1)) <= n
      BY <1>1, <1>8
    <3> QED
      BY <3>1
  <2>2. start[k + 1] <= start[k + 1 + j]
    BY <1>1, <1>3, <1>6, <2>1, LaidInOrder
  <2>3. /\ start[k + 1] = start[k] + Len(r.headers[k].value) + 3
        /\ start[k] \in Nat /\ start[l] \in Nat /\ Len(r.headers[k].value) \in Nat
    <3>1. k \in 1 .. n + 1
      BY <1>1
    <3> QED
      BY <1>2, <1>7, <3>1
  <2>4. PICK a \in Nat, b \in Nat, v \in Nat :
          a = start[k] /\ b = start[l] /\ v = Len(r.headers[k].value)
    BY <2>3
  <2>5. a + v + 3 <= b
    BY <2>1, <2>2, <2>3, <2>4
  <2>6. a < b
    BY <2>5
  <2> QED
    BY <2>4, <2>6
<1>9. ASSUME NEW p \in 1 .. start[n + 1] - 1
      PROVE  \E k \in 1 .. n : \E m \in 1 .. Len(r.headers[k].value) + 3 :
               p = start[k] + m - 1
  <2>1. PICK k \in 1 .. n : \E m \in 1 .. Len(q[k]) : p = start[k] + m - 1
    <3>1. Covers(start, q, n)
      BY <1>1, <1>3, <1>6, LaidEverywhere
    <3> QED
      BY <3>1 DEF Covers
  <2>2. Len(q[k]) = Len(r.headers[k].value) + 3
    BY <1>2, <1>3
  <2> QED
    BY <2>1, <2>2
<1>10. /\ F \o e \in Seq(Symbol) /\ Len(F \o e) = start[n + 1]
       /\ \A m \in 1 .. start[n + 1] - 1 : (F \o e)[m] = F[m]
       /\ (F \o e)[start[n + 1]] = NL
       /\ start[n + 1] \in Nat \ {0}
  <2>1. F \in Seq(Symbol) /\ e \in Seq(Symbol)
    BY <1>5, <1>7
  <2>2. /\ F \o e \in Seq(Symbol) /\ Len(F \o e) = Len(F) + Len(e)
        /\ \A m \in 1 .. Len(F) : (F \o e)[m] = F[m]
        /\ \A m \in 1 .. Len(e) : (F \o e)[Len(F) + m] = e[m]
    BY <2>1, ConcatPlaces
  <2>3. start[n + 1] \in Nat \ {0}
    BY <1>1, <1>7
  <2>4. Len(F) + 1 = start[n + 1] /\ 1 \in 1 .. Len(e)
    BY <1>5, <1>7, <2>3
  <2> QED
    BY <1>5, <1>7, <2>2, <2>3, <2>4
<1> DEFINE t == F \o e
           last == start[n + 1]
<1>11. /\ Rest(r) \in Seq(Symbol) /\ Len(Rest(r)) = last + Len(r.body)
       /\ \A m \in 1 .. last : Rest(r)[m] = t[m]
       /\ \A m \in 1 .. Len(r.body) : Rest(r)[last + m] = r.body[m]
  <2>1. t \in Seq(Symbol) /\ Len(t) = last /\ Rest(r) = t \o r.body
    BY <1>4, <1>10
  <2> HIDE DEF t, last
  <2>2. /\ t \o r.body \in Seq(Symbol) /\ Len(t \o r.body) = Len(t) + Len(r.body)
        /\ \A m \in 1 .. Len(t) : (t \o r.body)[m] = t[m]
        /\ \A m \in 1 .. Len(r.body) : (t \o r.body)[Len(t) + m] = r.body[m]
    <3>1. t \in Seq(Symbol) /\ r.body \in Seq(Symbol)
      BY <1>1, <2>1
    <3> QED
      BY <3>1, ConcatPlaces
  <2> QED
    BY <2>1, <2>2
<1>12. Rest(r)[last] = NL /\ \A m \in 1 .. last - 1 : Rest(r)[m] = F[m]
  <2>1. last \in 1 .. last /\ \A m \in 1 .. last - 1 : m \in 1 .. last
    BY <1>10
  <2> QED
    BY <1>10, <1>11, <2>1
<1>13. ASSUME NEW k \in 1 .. n, NEW m \in 1 .. Len(r.headers[k].value) + 3
       PROVE  Rest(r)[start[k] + m - 1] = Line(r.headers[k])[m]
  <2>1. /\ start[k] \in Nat \ {0} /\ start[k + 1] \in Nat /\ last \in Nat
        /\ Len(r.headers[k].value) \in Nat
        /\ start[k + 1] = start[k] + Len(r.headers[k].value) + 3
    <3>1. k \in 1 .. n + 1 /\ k + 1 \in 1 .. n + 1 /\ n + 1 \in 1 .. n + 1
      BY <1>1
    <3> QED
      BY <1>2, <1>7, <3>1
  <2>2. start[k + 1] <= last
    <3>1. CASE k = n
      BY <2>1, <3>1
    <3>2. CASE k # n
      <4>1. k + 1 \in 1 .. n /\ n + 1 \in 1 .. n + 1 /\ k + 1 < n + 1
        BY <1>1, <3>2
      <4> QED
        BY <1>8, <2>1, <4>1
    <3> QED
      BY <3>1, <3>2
  <2>3. start[k] + m - 1 \in 1 .. last - 1
    <3>1. PICK a \in Nat \ {0}, b \in Nat, c \in Nat, v \in Nat :
            /\ a = start[k] /\ b = start[k + 1] /\ c = last
            /\ v = Len(r.headers[k].value)
      BY <2>1
    <3>2. m \in 1 .. v + 3
      BY <3>1
    <3>3. b = a + v + 3 /\ b <= c
      BY <2>1, <2>2, <3>1
    <3>4. a + m - 1 \in 1 .. c - 1
      BY <3>2, <3>3
    <3> QED
      BY <3>1, <3>4
  <2> QED
    BY <1>7, <1>12, <2>3
<1>14. Lined(Rest(r), r, start, n)
  BY <1>7, <1>8, <1>9, <1>11, <1>12, <1>13 DEF Lined, n
<1> QED
  BY <1>14 DEF n

-----------------------------------------------------------------------------
(* Looking for the next space, line end or colon.                          *)

\* A place that holds x, when none between i and it does.
LEMMA NextIs ==
  ASSUME NEW s \in Seq(Symbol), NEW i \in Nat, NEW x, NEW p \in 1 .. Len(s),
         p >= i, s[p] = x, \A m \in i .. p - 1 : s[m] # x
  PROVE  NextAt(s, i, x) = p
<1> DEFINE I == {m \in Occurrences(x, s) : m >= i} \cup {Len(s) + 1}
<1>1. Len(s) \in Nat /\ DOMAIN s = 1 .. Len(s)
  BY LenProperties
<1>2. I \in SUBSET Int /\ p \in I
  BY <1>1 DEF Occurrences
<1>3. ASSUME NEW m \in I
      PROVE  p <= m
  <2>1. CASE m = Len(s) + 1
    BY <1>1, <2>1
  <2>2. CASE m # Len(s) + 1
    <3>1. m \in 1 .. Len(s) /\ s[m] = x /\ m >= i
      BY <1>1, <2>2 DEF Occurrences
    <3>2. m \notin i .. p - 1
      BY <3>1
    <3> QED
      BY <1>1, <3>1, <3>2
  <2> QED
    BY <2>1, <2>2
<1> HIDE DEF I
<1>4. Min(I) = p
  BY <1>2, <1>3, IsSmallest
<1> QED
  BY <1>4 DEF NextAt, I

\* There is none from i on.
LEMMA NextNone ==
  ASSUME NEW s \in Seq(Symbol), NEW i \in Nat, NEW x,
         \A m \in 1 .. Len(s) : m >= i => s[m] # x
  PROVE  NextAt(s, i, x) = Len(s) + 1
<1> DEFINE I == {m \in Occurrences(x, s) : m >= i} \cup {Len(s) + 1}
<1>1. Len(s) \in Nat /\ DOMAIN s = 1 .. Len(s)
  BY LenProperties
<1>2. I = {Len(s) + 1} /\ Len(s) + 1 \in Int
  BY <1>1 DEF Occurrences
<1> HIDE DEF I
<1>3. Min(I) = Len(s) + 1
  BY <1>2, IsSmallest
<1> QED
  BY <1>3 DEF NextAt, I

\* A place without a space is where the spaces end that begin at it.
LEMMA SkipNone ==
  ASSUME NEW s \in Seq(Symbol), NEW p \in 1 .. Len(s), s[p] # SP
  PROVE  SkipSpaces(s, p) = p
<1> DEFINE I == {m \in DOMAIN s : m >= p /\ s[m] # SP} \cup {Len(s) + 1}
<1>1. Len(s) \in Nat /\ DOMAIN s = 1 .. Len(s)
  BY LenProperties
<1>2. I \in SUBSET Int /\ p \in I /\ \A m \in I : p <= m
  BY <1>1
<1> HIDE DEF I
<1>3. Min(I) = p
  BY <1>2, IsSmallest
<1> QED
  BY <1>3 DEF SkipSpaces, I

\* One space.
LEMMA SkipOne ==
  ASSUME NEW s \in Seq(Symbol), NEW p \in 1 .. Len(s), s[p] = SP,
         p + 1 <= Len(s), s[p + 1] # SP
  PROVE  SkipSpaces(s, p) = p + 1
<1> DEFINE I == {m \in DOMAIN s : m >= p /\ s[m] # SP} \cup {Len(s) + 1}
<1>1. Len(s) \in Nat /\ DOMAIN s = 1 .. Len(s)
  BY LenProperties
<1>2. I \in SUBSET Int /\ p + 1 \in I
  BY <1>1
<1>3. ASSUME NEW m \in I
      PROVE  p + 1 <= m
  <2>1. m >= p /\ m # p /\ m \in Int
    BY <1>1
  <2> QED
    BY <2>1
<1> HIDE DEF I
<1>4. Min(I) = p + 1
  BY <1>2, <1>3, IsSmallest
<1> QED
  BY <1>4 DEF SkipSpaces, I

-----------------------------------------------------------------------------
(* The header lines.                                                       *)

\* What is at the k-th line.
LineAt(text, r, start, n, k) ==
  LET v == r.headers[k].value
  IN  /\ start[k] \in Nat \ {0} /\ start[k + 1] \in Nat \ {0} /\ start[n + 1] \in Nat
      /\ v \in Seq(Symbol) /\ Len(v) \in Nat /\ Len(text) \in Nat
      /\ start[k + 1] = start[k] + Len(v) + 3
      /\ start[k + 1] <= start[n + 1] /\ start[n + 1] <= Len(text)
      /\ text[start[k]] = r.headers[k].name /\ r.headers[k].name \in HeaderNames
      /\ text[start[k] + 1] = SP
      /\ \A m \in 1 .. Len(v) : text[start[k] + 1 + m] = v[m]
      /\ text[start[k + 1] - 1] = NL
      /\ \A p \in start[k] .. start[k + 1] - 2 : text[p] # NL

\* Its numbers.
LEMMA LineNumbers ==
  ASSUME NEW r, NEW text, NEW start, NEW n, NEW k, LineAt(text, r, start, n, k)
  PROVE  /\ start[k] \in Nat \ {0} /\ start[k + 1] \in Nat \ {0}
         /\ Len(r.headers[k].value) \in Nat
         /\ start[k + 1] = start[k] + Len(r.headers[k].value) + 3
         /\ start[k] + 3 <= start[k + 1] /\ start[k + 1] <= Len(text)
         /\ Len(text) \in Nat
<1> DEFINE long == Len(r.headers[k].value)
           a == start[k]
           b == start[k + 1]
           c == start[n + 1]
           d == Len(text)
<1>1. /\ a \in Nat \ {0} /\ b \in Nat \ {0} /\ c \in Nat /\ d \in Nat
      /\ long \in Nat /\ b = a + long + 3 /\ b <= c /\ c <= d
  BY DEF LineAt
<1> HIDE DEF long, a, b, c, d
<1>2. a + 3 <= b /\ b <= d
  BY <1>1
<1> QED
  BY <1>1, <1>2 DEF long, a, b, c, d

\* The numbers of what is laid out in lines.
LEMMA LinedNumbers ==
  ASSUME NEW r, Whole(r), NEW text, NEW start, NEW n, Lined(text, r, start, n)
  PROVE  /\ n \in Nat /\ \A k \in 1 .. n + 1 : start[k] \in Nat \ {0}
         /\ start[1] = 1 /\ start[n + 1] \in Nat \ {0}
         /\ text \in Seq(Symbol) /\ Len(text) \in Nat /\ DOMAIN text = 1 .. Len(text)
         /\ Len(r.body) \in Nat /\ Len(text) = start[n + 1] + Len(r.body)
         /\ start[n + 1] <= Len(text) /\ text[start[n + 1]] = NL
<1>1. n \in Nat /\ Len(r.body) \in Nat
  BY WholeHas DEF Lined
<1>2. \A k \in 1 .. n + 1 : start[k] \in Nat \ {0}
  BY DEF Lined
<1>3. n + 1 \in 1 .. n + 1
  BY <1>1
<1>4. text \in Seq(Symbol) /\ Len(text) \in Nat /\ DOMAIN text = 1 .. Len(text)
  BY LenProperties DEF Lined
<1>5. start[1] = 1 /\ Len(text) = start[n + 1] + Len(r.body) /\ text[start[n + 1]] = NL
  BY DEF Lined
<1>6. start[n + 1] \in Nat \ {0}
  BY <1>2, <1>3
<1> QED
  BY <1>1, <1>2, <1>4, <1>5, <1>6

LEMMA LinesAre ==
  ASSUME NEW r, Whole(r), NEW text, NEW start, NEW n, Lined(text, r, start, n),
         NEW k \in 1 .. n
  PROVE  LineAt(text, r, start, n, k)
<1> DEFINE h == r.headers[k]
           v == h.value
           a == start[k]
           b == start[k + 1]
           c == start[n + 1]
<1>1. /\ h \in Header /\ n \in Nat
      /\ a \in Nat \ {0} /\ b \in Nat \ {0} /\ c \in Nat \ {0}
      /\ Len(text) \in Nat /\ c <= Len(text)
  <2>1. n \in Nat /\ k \in 1 .. n + 1 /\ k + 1 \in 1 .. n + 1
    BY LinedNumbers
  <2>2. h \in Header
    BY WholeHas DEF Lined
  <2> QED
    BY <2>1, <2>2, LinedNumbers
<1>2. /\ b = a + Len(v) + 3
      /\ \A m \in 1 .. Len(v) + 3 : text[a + m - 1] = Line(h)[m]
  BY DEF Lined
<1>3. /\ h.name \in HeaderNames /\ v \in Seq(Symbol) /\ Len(v) \in Nat
      /\ Line(h)[1] = h.name /\ Line(h)[2] = SP
      /\ \A m \in 1 .. Len(v) : Line(h)[m + 2] = v[m]
      /\ Line(h)[Len(v) + 3] = NL
      /\ \A m \in 1 .. Len(v) + 2 : Line(h)[m] # NL
  BY <1>1, LineIs
<1>4. b <= c
  <2>1. CASE k = n
    BY <1>1, <2>1
  <2>2. CASE k # n
    <3>1. k + 1 \in 1 .. n /\ n + 1 \in 1 .. n + 1 /\ k + 1 < n + 1
      BY <1>1, <2>2
    <3>2. b < c
      BY <3>1 DEF Lined
    <3> QED
      BY <1>1, <3>2
  <2> QED
    BY <2>1, <2>2
<1> HIDE DEF v, a, b, c, h
<1>5. ASSUME NEW m \in 1 .. Len(v) + 3, NEW p, p = a + m - 1
      PROVE  text[p] = Line(h)[m]
  BY <1>2, <1>5
<1>6. text[a] = h.name /\ text[a + 1] = SP /\ text[b - 1] = NL
  <2>1. /\ 1 \in 1 .. Len(v) + 3 /\ 2 \in 1 .. Len(v) + 3
        /\ Len(v) + 3 \in 1 .. Len(v) + 3
        /\ a = a + 1 - 1 /\ a + 1 = a + 2 - 1 /\ b - 1 = a + (Len(v) + 3) - 1
    BY <1>1, <1>2, <1>3
  <2> QED
    BY <1>3, <1>5, <2>1
<1>7. ASSUME NEW m \in 1 .. Len(v)
      PROVE  text[a + 1 + m] = v[m]
  <2>1. m + 2 \in 1 .. Len(v) + 3 /\ a + 1 + m = a + (m + 2) - 1
    BY <1>1, <1>3
  <2> QED
    BY <1>3, <1>5, <2>1
<1>8. ASSUME NEW p \in a .. b - 2
      PROVE  text[p] # NL
  <2>1. p - a + 1 \in 1 .. Len(v) + 2 /\ p = a + (p - a + 1) - 1
    BY <1>1, <1>2, <1>3
  <2>2. p - a + 1 \in 1 .. Len(v) + 3
    BY <1>3, <2>1
  <2> QED
    BY <1>3, <1>5, <2>1, <2>2
<1> QED
  BY <1>1, <1>2, <1>3, <1>4, <1>6, <1>7, <1>8 DEF LineAt, a, b, c, v, h

\* The lines begin where they are laid, as far as the empty line.
LEMMA StartsAre ==
  ASSUME NEW r, Whole(r), NEW text, NEW start, NEW n, Lined(text, r, start, n)
  PROVE  /\ \A k \in 1 .. n + 1 : start[k] \in LineStarts(text)
         /\ \A i \in LineStarts(text) :
              i <= start[n + 1] => \E k \in 1 .. n + 1 : i = start[k]
<1>1. /\ n \in Nat /\ \A k \in 1 .. n + 1 : start[k] \in Nat \ {0}
      /\ start[1] = 1 /\ start[n + 1] \in Nat \ {0}
      /\ text \in Seq(Symbol) /\ Len(text) \in Nat /\ DOMAIN text = 1 .. Len(text)
  BY LinedNumbers
<1>2. ASSUME NEW k \in 1 .. n + 1
      PROVE  start[k] \in LineStarts(text)
  <2>1. CASE k = 1
    BY <1>1, <2>1 DEF LineStarts
  <2>2. CASE k # 1
    <3>1. PICK l \in 1 .. n : k = l + 1
      <4>1. k - 1 \in 1 .. n /\ k = (k - 1) + 1
        BY <1>1, <2>2
      <4> QED
        BY <4>1
    <3>2. LineAt(text, r, start, n, l)
      BY LinesAre
    <3>3. start[k] - 1 \in 1 .. Len(text) /\ text[start[k] - 1] = NL
      <4>1. text[start[l + 1] - 1] = NL
        BY <3>2 DEF LineAt
      <4>2. start[l + 1] - 1 \in 1 .. Len(text)
        BY <3>2, LineNumbers
      <4> QED
        BY <3>1, <4>1, <4>2
    <3>4. start[k] = (start[k] - 1) + 1 /\ start[k] - 1 \in Occurrences(NL, text)
      BY <1>1, <3>3 DEF Occurrences
    <3> QED
      BY <3>4 DEF LineStarts
  <2> QED
    BY <2>1, <2>2
<1>3. ASSUME NEW i \in LineStarts(text), i <= start[n + 1]
      PROVE  \E k \in 1 .. n + 1 : i = start[k]
  <2>1. CASE i = 1
    <3>1. 1 \in 1 .. n + 1
      BY <1>1
    <3> QED
      BY <1>1, <2>1, <3>1
  <2>2. CASE i # 1
    <3>1. PICK p \in Occurrences(NL, text) : i = p + 1
      BY <2>2 DEF LineStarts
    <3>2. p \in 1 .. Len(text) /\ text[p] = NL /\ p \in 1 .. start[n + 1] - 1
      BY <1>1, <1>3, <3>1 DEF Occurrences
    <3>3. PICK k \in 1 .. n : \E m \in 1 .. Len(r.headers[k].value) + 3 :
                                p = start[k] + m - 1
      BY <3>2 DEF Lined
    <3>4. LineAt(text, r, start, n, k)
      BY LinesAre
    <3>5. p = start[k + 1] - 1
      <4>1. p \in start[k] .. start[k + 1] - 1
        <5> DEFINE long == Len(r.headers[k].value)
                   a == start[k]
                   b == start[k + 1]
        <5>1. PICK m \in 1 .. long + 3 : p = a + m - 1
          BY <3>3
        <5>2. a \in Nat /\ b \in Nat /\ long \in Nat /\ b = a + long + 3
          BY <3>4, LineNumbers
        <5> HIDE DEF long, a, b
        <5>3. p \in a .. b - 1
          BY <5>1, <5>2
        <5> QED
          BY <5>3 DEF a, b
      <4>2. p \notin start[k] .. start[k + 1] - 2
        <5>1. \A m \in start[k] .. start[k + 1] - 2 : text[m] # NL
          BY <3>4 DEF LineAt
        <5> QED
          BY <3>2, <5>1
      <4>3. start[k] \in Int /\ start[k + 1] \in Int
        BY <3>4, LineNumbers
      <4> QED
        BY <4>1, <4>2, <4>3
    <3>6. i = start[k + 1] /\ k + 1 \in 1 .. n + 1
      BY <1>1, <3>1, <3>4, <3>5 DEF LineAt
    <3> QED
      BY <3>6
  <2> QED
    BY <2>1, <2>2
<1> QED
  BY <1>2, <1>3

\* Where they end.
LEMMA EndsAre ==
  ASSUME NEW r, Whole(r), NEW text, NEW start, NEW n, Lined(text, r, start, n)
  PROVE  /\ \A k \in 1 .. n : LineEnd(text, start[k]) = start[k + 1] - 1
         /\ LineEnd(text, start[n + 1]) = start[n + 1]
<1>1. text \in Seq(Symbol) /\ Len(text) \in Nat
  BY LinedNumbers
<1>2. ASSUME NEW k \in 1 .. n
      PROVE  LineEnd(text, start[k]) = start[k + 1] - 1
  <2> DEFINE a == start[k]
             p == start[k + 1] - 1
  <2>1. LineAt(text, r, start, n, k)
    BY LinesAre
  <2>2. /\ a \in Nat /\ p \in 1 .. Len(text) /\ p >= a /\ text[p] = NL
        /\ \A m \in a .. p - 1 : text[m] # NL
    <3>1. p - 1 = start[k + 1] - 2 /\ a \in Nat /\ p \in 1 .. Len(text) /\ p >= a
      BY <2>1, LineNumbers
    <3>2. text[p] = NL /\ \A m \in a .. start[k + 1] - 2 : text[m] # NL
      BY <2>1 DEF LineAt
    <3> QED
      BY <3>1, <3>2
  <2> HIDE DEF a, p
  <2>3. NextAt(text, a, NL) = p
    BY <1>1, <2>2, NextIs
  <2> QED
    BY <2>3 DEF LineEnd, a, p
<1>3. LineEnd(text, start[n + 1]) = start[n + 1]
  <2> DEFINE p == start[n + 1]
  <2>1. p \in 1 .. Len(text) /\ p \in Nat /\ text[p] = NL
    BY LinedNumbers
  <2>2. \A m \in p .. p - 1 : text[m] # NL
    BY <2>1
  <2> HIDE DEF p
  <2>3. NextAt(text, p, NL) = p
    BY <1>1, <2>1, <2>2, NextIs
  <2> QED
    BY <2>3 DEF LineEnd, p
<1> QED
  BY <1>2, <1>3

\* The headers end at the empty line, whatever follows it.
LEMMA HeadersEndIs ==
  ASSUME NEW r, Whole(r), NEW text, NEW start, NEW n, Lined(text, r, start, n)
  PROVE  HeadersEnd(text) = start[n + 1]
<1> DEFINE I == {i \in LineStarts(text) : LineEnd(text, i) \in {i, Len(text) + 1}}
           p == start[n + 1]
<1>1. /\ n \in Nat /\ p \in Nat \ {0} /\ Len(text) \in Nat /\ p <= Len(text)
      /\ DOMAIN text = 1 .. Len(text) /\ n + 1 \in 1 .. n + 1
  BY LinedNumbers
<1>2. p \in I
  BY <1>1, StartsAre, EndsAre
<1>3. I \in SUBSET Int
  BY <1>1 DEF LineStarts, Occurrences
<1>4. ASSUME NEW i \in I, i < p
      PROVE  FALSE
  <2>1. i \in LineStarts(text) /\ i <= p /\ i \in Int
    BY <1>1, <1>3, <1>4
  <2>2. PICK k \in 1 .. n + 1 : i = start[k]
    BY <2>1, StartsAre
  <2>3. k \in 1 .. n
    BY <1>1, <1>4, <2>2
  <2>4. LineAt(text, r, start, n, k)
    BY <2>3, LinesAre
  <2>5. LineEnd(text, i) = start[k + 1] - 1
    BY <2>2, <2>3, EndsAre
  <2>6. start[k + 1] - 1 # i /\ start[k + 1] - 1 # Len(text) + 1
    BY <2>2, <2>4, LineNumbers
  <2> QED
    BY <2>5, <2>6
<1>5. \A i \in I : p <= i
  BY <1>1, <1>3, <1>4
<1> HIDE DEF I, p
<1>6. Min(I) = p
  BY <1>2, <1>3, <1>5, IsSmallest
<1> QED
  BY <1>6 DEF HeadersEnd, I, p

\* What is cut is a string still, and a single word is not cut.
LEMMA CutIs ==
  ASSUME NEW s \in Seq(Symbol)
  PROVE  Cut(s) \in Seq(Symbol) /\ (Len(s) = 1 => Cut(s) = s)
<1>1. Len(s) \in Nat /\ FieldSize \in Nat /\ 1 <= FieldSize
  BY LenProperties, RequestAssumption
<1>2. CASE Len(s) <= FieldSize
  BY <1>2 DEF Cut
<1>3. CASE ~(Len(s) <= FieldSize)
  <2>1. \A m \in 1 .. FieldSize : s[m] \in Symbol
    <3>1. \A m \in 1 .. FieldSize : m \in 1 .. Len(s)
      BY <1>1, <1>3
    <3> QED
      BY <3>1, ElementOfSeq
  <2>2. SubSeq(s, 1, FieldSize) \in Seq(Symbol)
    BY <1>1, <2>1, SubSeqProperties
  <2> QED
    BY <1>1, <1>3, <2>2 DEF Cut
<1> QED
  BY <1>2, <1>3

\* The k-th line is read as the header it is, whatever is in its value.
LEMMA FieldIs ==
  ASSUME NEW r, Whole(r), NEW text, NEW start, NEW n, Lined(text, r, start, n),
         NEW k \in 1 .. n
  PROVE  /\ Field(text, start[k]) # NULL
         /\ Field(text, start[k]).key = <<r.headers[k].name>>
         /\ Field(text, start[k]).value = Cut(r.headers[k].value)
<1> DEFINE v == r.headers[k].value
           a == start[k]
           b == start[k + 1]
           name == r.headers[k].name
           colons == {m \in a .. b - 1 - 1 : text[m] \in HeaderNames}
<1>1. /\ a \in Nat \ {0} /\ b \in Nat \ {0} /\ Len(v) \in Nat
      /\ b = a + Len(v) + 3 /\ a + 3 <= b /\ b <= Len(text) /\ Len(text) \in Nat
  BY LinesAre, LineNumbers
<1>2. /\ text[a] = name /\ name \in HeaderNames /\ text[a + 1] = SP
      /\ v \in Seq(Symbol) /\ text[b - 1] = NL
      /\ \A m \in 1 .. Len(v) : text[a + 1 + m] = v[m]
  BY LinesAre DEF LineAt
<1>3. text \in Seq(Symbol) /\ DOMAIN text = 1 .. Len(text)
  BY LinedNumbers
<1>4. LineEnd(text, a) = b - 1
  BY EndsAre
<1>5. v # <<>> => Head(v) # SP
  BY WholeHas DEF Lined
<1>6. Field(text, a) = IF colons = {} THEN NULL
                       ELSE [key   |-> Cut(SubSeq(text, a, Min(colons))),
                             value |-> Cut(SubSeq(text, SkipSpaces(text, Min(colons) + 1),
                                                  b - 1 - 1))]
  BY <1>4 DEF Field
<1> HIDE DEF v, a, b, name
<1>7. colons # {} /\ Min(colons) = a
  <2>1. a \in colons /\ colons \in SUBSET Int /\ \A m \in colons : a <= m
    <3>1. a \in a .. b - 1 - 1
      BY <1>1
    <3> QED
      BY <1>2, <3>1
  <2> HIDE DEF colons
  <2> QED
    BY <2>1, IsSmallest
<1>8. SubSeq(text, a, a) = <<name>>
  <2>1. a \in 1 .. Len(text)
    BY <1>1
  <2>2. SubSeq(text, a, a) = <<text[a]>> \o SubSeq(text, a + 1, a)
    BY <1>3, <2>1, SubSeqRecursiveFirst
  <2>3. SubSeq(text, a + 1, a) = <<>>
    BY <1>1, SubSeqEmpty
  <2>4. <<text[a]>> \in Seq(Symbol)
    <3>1. text[a] \in Symbol
      BY <1>3, <2>1, ElementOfSeq
    <3> QED
      BY <3>1
  <2> QED
    BY <1>2, <2>2, <2>3, <2>4, ConcatEmptySeq
<1>9. SkipSpaces(text, a + 1) = a + 2
  <2>1. text[a + 2] # SP
    <3>1. CASE v = <<>>
      <4>1. Len(v) = 0
        BY <3>1
      <4>2. a + 2 = b - 1
        BY <1>1, <4>1
      <4> QED
        BY <1>2, <4>2, Symbols
    <3>2. CASE v # <<>>
      <4>1. Len(v) > 0 /\ v[1] # SP
        BY <1>2, <1>5, <3>2
      <4>2. 1 \in 1 .. Len(v) /\ a + 1 + 1 = a + 2
        BY <1>1, <4>1
      <4> QED
        BY <1>2, <4>1, <4>2
    <3> QED
      BY <3>1, <3>2
  <2> DEFINE p == a + 1
  <2>2. p \in 1 .. Len(text) /\ p + 1 <= Len(text) /\ p + 1 = a + 2
    BY <1>1
  <2>3. text[p] = SP
    BY <1>2
  <2> HIDE DEF p
  <2>4. SkipSpaces(text, p) = p + 1
    BY <1>3, <2>1, <2>2, <2>3, SkipOne
  <2> QED
    BY <2>2, <2>4 DEF p
<1>10. SubSeq(text, a + 2, b - 1 - 1) = v
  <2> DEFINE lo == a + 2
             hi == b - 1 - 1
             sub == SubSeq(text, lo, hi)
             long == Len(v)
  <2>1. /\ lo \in Int /\ hi \in Int /\ hi - lo + 1 = long /\ lo >= 1 /\ hi <= Len(text)
        /\ long \in Nat
    <3>1. long \in Nat /\ b = a + long + 3
      BY <1>1
    <3> HIDE DEF long
    <3> QED
      BY <1>1, <3>1
  <2>2. \A m \in 1 .. long : text[lo + m - 1] = v[m]
    <3>1. \A m \in 1 .. long : lo + m - 1 = a + 1 + m
      BY <1>1
    <3> QED
      BY <1>2, <3>1
  <2> HIDE DEF lo, hi
  <2>3. \A m \in lo .. hi : text[m] \in Symbol
    <3>1. \A m \in lo .. hi : m \in 1 .. Len(text)
      BY <1>1, <2>1
    <3> QED
      BY <1>3, <3>1, ElementOfSeq
  <2>4. /\ sub \in Seq(Symbol) /\ Len(sub) = IF lo <= hi THEN hi - lo + 1 ELSE 0
        /\ \A i \in 1 .. hi - lo + 1 : sub[i] = text[lo + i - 1]
    BY <2>1, <2>3, SubSeqProperties
  <2> HIDE DEF sub, long
  <2>5. Len(sub) = long /\ \A i \in 1 .. long : sub[i] = v[i]
    <3>1. Len(sub) = long
      BY <2>1, <2>4
    <3> QED
      BY <2>1, <2>2, <2>4, <3>1
  <2>6. sub = v
    BY <1>2, <2>4, <2>5, SeqEqual DEF long
  <2> QED
    BY <2>6 DEF sub, lo, hi
<1> HIDE DEF colons
<1>11. Field(text, a) = [key |-> <<name>>, value |-> Cut(v)]
  <2>1. name \in Symbol
    BY <1>2, Symbols
  <2>2. <<name>> \in Seq(Symbol) /\ Len(<<name>>) = 1
    BY <2>1
  <2>3. Cut(<<name>>) = <<name>>
    BY <2>2, CutIs
  <2>4. Field(text, a) = [key |-> Cut(<<name>>), value |-> Cut(v)]
    BY <1>6, <1>7, <1>8, <1>9, <1>10
  <2> QED
    BY <2>3, <2>4
<1>12. [key |-> <<name>>, value |-> Cut(v)] # NULL
  <2>1. name \in Symbol /\ Cut(v) \in Seq(Symbol)
    BY <1>2, Symbols, CutIs
  <2>2. [key |-> <<name>>, value |-> Cut(v)]
          \in [key : Seq(Symbol), value : Seq(Symbol)]
    BY <2>1
  <2> QED
    BY <2>2, RequestAssumption
<1> QED
  BY <1>11, <1>12 DEF a, v, name

\* The headers of a name that a request has.
Named(r, name) == {k \in DOMAIN r.headers : r.headers[k].name = name}

\* The lines that are headers of that name.
LinesNamed(text, name) ==
  {i \in LineStarts(text) : /\ i < HeadersEnd(text)
                            /\ Field(text, i) # NULL
                            /\ Field(text, i).key = <<name>>}

LEMMA LinesNamedAre ==
  ASSUME NEW r, Whole(r), NEW text, NEW start, NEW n, Lined(text, r, start, n),
         NEW name
  PROVE  /\ \A i \in LinesNamed(text, name) : \E k \in Named(r, name) : i = start[k]
         /\ \A k \in Named(r, name) : start[k] \in LinesNamed(text, name)
<1>1. /\ n \in Nat /\ DOMAIN r.headers = 1 .. n
      /\ \A k \in 1 .. n + 1 : start[k] \in Nat
  BY LinedNumbers, WholeHas DEF Lined
<1>2. ASSUME NEW i \in LinesNamed(text, name)
      PROVE  \E k \in Named(r, name) : i = start[k]
  <2>1. /\ i \in LineStarts(text) /\ i < start[n + 1] /\ Field(text, i).key = <<name>>
    BY HeadersEndIs DEF LinesNamed
  <2>2. i \in Int
    <3>1. DOMAIN text \subseteq Int
      BY LinedNumbers
    <3> QED
      BY <2>1, <3>1 DEF LineStarts, Occurrences
  <2>3. i <= start[n + 1]
    <3>1. start[n + 1] \in Nat
      BY <1>1
    <3> QED
      BY <2>1, <2>2, <3>1
  <2>4. PICK k \in 1 .. n + 1 : i = start[k]
    BY <2>1, <2>3, StartsAre
  <2>5. k \in 1 .. n
    BY <1>1, <2>1, <2>4
  <2>6. <<r.headers[k].name>> = <<name>>
    BY <2>1, <2>4, <2>5, FieldIs
  <2>7. k \in Named(r, name)
    BY <1>1, <2>5, <2>6 DEF Named
  <2> QED
    BY <2>4, <2>7
<1>3. ASSUME NEW k \in Named(r, name)
      PROVE  start[k] \in LinesNamed(text, name)
  <2>1. k \in 1 .. n /\ r.headers[k].name = name
    BY <1>1 DEF Named
  <2>2. k \in 1 .. n + 1 /\ n + 1 \in 1 .. n + 1 /\ k < n + 1
    BY <1>1, <2>1
  <2>3. start[k] \in LineStarts(text)
    BY <2>2, StartsAre
  <2>4. start[k] < HeadersEnd(text)
    <3>1. start[k] < start[n + 1]
      BY <2>1, <2>2 DEF Lined
    <3> QED
      BY <3>1, HeadersEndIs
  <2>5. Field(text, start[k]) # NULL /\ Field(text, start[k]).key = <<name>>
    BY <2>1, FieldIs
  <2> QED
    BY <2>3, <2>4, <2>5 DEF LinesNamed
<1> QED
  BY <1>2, <1>3

\* What is found for each name is the value of the first header of that name, as
\* much of it as there is room for, NULL if there is none.
LEMMA HeadersAre ==
  ASSUME NEW r, Whole(r), NEW text, NEW start, NEW n, Lined(text, r, start, n)
  PROVE  Headers(text) = Meant(r).headers
<1>1. Headers(text) = [name \in HeaderNames |->
                         IF LinesNamed(text, name) = {} THEN NULL
                         ELSE Field(text, Min(LinesNamed(text, name))).value]
  BY DEF Headers, LinesNamed
<1>2. Meant(r).headers = [name \in HeaderNames |->
                            IF Named(r, name) = {} THEN NULL
                            ELSE Cut(r.headers[Min(Named(r, name))].value)]
  BY DEF Meant, Named
<1>3. ASSUME NEW name
      PROVE  /\ LinesNamed(text, name) = {} <=> Named(r, name) = {}
             /\ Named(r, name) # {} =>
                  Field(text, Min(LinesNamed(text, name))).value
                    = Cut(r.headers[Min(Named(r, name))].value)
  <2> DEFINE L == LinesNamed(text, name)
             N == Named(r, name)
             first == Min(N)
  <2>1. /\ n \in Nat /\ N \in SUBSET (1 .. n)
        /\ \A k \in 1 .. n + 1 : start[k] \in Nat
    BY LinedNumbers, WholeHas DEF Lined, Named
  <2>2. /\ \A i \in L : \E k \in N : i = start[k]
        /\ \A k \in N : start[k] \in L
    BY LinesNamedAre
  <2> HIDE DEF L, N
  <2>3. L = {} <=> N = {}
    BY <2>2
  <2>4. ASSUME N # {}
        PROVE  Min(L) = start[first] /\ first \in 1 .. n
    <3>1. first \in N /\ \A k \in N : first <= k
      BY <2>1, <2>4, FirstPosition
    <3> HIDE DEF first
    <3>2. \A k \in N : start[first] <= start[k]
      <4>1. ASSUME NEW k \in N
            PROVE  start[first] <= start[k]
        <5>1. /\ first \in 1 .. n /\ k \in 1 .. n + 1 /\ first \in 1 .. n + 1
              /\ first <= k
          BY <2>1, <3>1
        <5>2. first < k => start[first] < start[k]
          BY <5>1 DEF Lined
        <5>3. start[first] \in Nat /\ start[k] \in Nat
          BY <2>1, <5>1
        <5> QED
          BY <5>1, <5>2, <5>3
      <4> QED
        BY <4>1
    <3>3. L \in SUBSET Int
      <4>1. \A k \in N : start[k] \in Int
        BY <2>1
      <4> QED
        BY <2>2, <4>1
    <3> DEFINE p == start[first]
    <3>4. p \in L /\ \A i \in L : p <= i
      BY <2>2, <3>1, <3>2
    <3> HIDE DEF p
    <3>5. Min(L) = p
      BY <3>3, <3>4, IsSmallest
    <3> QED
      BY <2>1, <3>1, <3>5 DEF p
  <2>5. ASSUME N # {}
        PROVE  Field(text, Min(L)).value = Cut(r.headers[first].value)
    BY <2>4, <2>5, FieldIs
  <2> QED
    BY <2>3, <2>5 DEF L, N
<1> QED
  BY <1>1, <1>2, <1>3

\* The body is found behind the empty line, all of it.
LEMMA DataIs ==
  ASSUME NEW r, Whole(r), NEW text, NEW start, NEW n, Lined(text, r, start, n)
  PROVE  Data(text, Len(r.body)) = {r.body}
<1> DEFINE last == start[n + 1]
           body == SubSeq(text, last + 1, Len(text))
           long == Len(r.body)
<1>1. /\ last \in Nat \ {0} /\ long \in Nat /\ Len(text) = last + long
      /\ Len(text) \in Nat /\ text \in Seq(Symbol)
  BY LinedNumbers
<1>2. r.body \in Seq(Symbol) /\ \A m \in 1 .. long : text[last + m] = r.body[m]
  BY WholeHas DEF Lined
<1>3. HeadersEnd(text) = last /\ LineEnd(text, last) = last
  BY HeadersEndIs, EndsAre
<1> HIDE DEF last
<1>4. body = r.body
  <2> DEFINE lo == last + 1
             hi == Len(text)
  <2>1. lo \in Int /\ hi \in Int /\ hi - lo + 1 = long /\ lo >= 1
    BY <1>1
  <2>2. \A m \in 1 .. long : text[lo + m - 1] = r.body[m]
    <3>1. \A m \in 1 .. long : lo + m - 1 = last + m
      BY <1>1
    <3> QED
      BY <1>2, <3>1
  <2>3. \A m \in lo .. hi : text[m] \in Symbol
    <3>1. \A m \in lo .. hi : m \in 1 .. Len(text)
      BY <1>1, <2>1
    <3> QED
      BY <1>1, <3>1, ElementOfSeq
  <2> HIDE DEF lo, hi
  <2>4. /\ SubSeq(text, lo, hi) \in Seq(Symbol)
        /\ Len(SubSeq(text, lo, hi)) = IF lo <= hi THEN hi - lo + 1 ELSE 0
        /\ \A i \in 1 .. hi - lo + 1 : SubSeq(text, lo, hi)[i] = text[lo + i - 1]
    BY <2>1, <2>3, SubSeqProperties
  <2> DEFINE sub == SubSeq(text, lo, hi)
  <2> HIDE DEF sub, long
  <2>5. sub \in Seq(Symbol) /\ Len(sub) = long
    BY <1>1, <2>1, <2>4 DEF sub
  <2>6. \A i \in 1 .. long : sub[i] = r.body[i]
    BY <2>1, <2>2, <2>4 DEF sub
  <2>7. sub = r.body
    BY <1>2, <2>5, <2>6, SeqEqual DEF long
  <2> QED
    BY <2>7 DEF sub, lo, hi
<1>5. CASE long = 0
  <2>1. r.body = <<>>
    BY <1>2, <1>5, EmptySeq
  <2> QED
    BY <1>5, <2>1 DEF Data
<1>6. CASE long > 0
  <2>1. r.body # <<>> /\ SubSeq(r.body, 1, long) = r.body
    BY <1>2, <1>6, SubSeqFull, EmptySeq
  <2> HIDE DEF body
  <2>2. Data(text, long) = IF body = <<>> THEN {FAULT}
                           ELSE IF Len(body) >= long THEN {SubSeq(body, 1, long)}
                           ELSE {body \o [i \in 1 .. long - Len(body) |-> Junk], FAULT}
    BY <1>1, <1>3, <1>6 DEF Data, body
  <2>3. body # <<>> /\ Len(body) >= long
    BY <1>1, <1>4, <2>1
  <2>4. Data(text, long) = {SubSeq(body, 1, long)}
    BY <2>2, <2>3
  <2> QED
    BY <1>4, <2>1, <2>4
<1> QED
  BY <1>1, <1>5, <1>6

-----------------------------------------------------------------------------
(* The first line.                                                         *)

\* A word between spaces is a token.
LEMMA TokenIs ==
  ASSUME NEW s \in Seq(Symbol), NEW p \in 1 .. Len(s), p + 1 <= Len(s),
         s[p] # SP, s[p + 1] = SP
  PROVE  Token(s, p).text = <<s[p]>> /\ Token(s, p).next = p + 2
<1>1. SkipSpaces(s, p) = p
  BY SkipNone
<1>2. Len(s) \in Nat /\ p \in Nat
  BY LenProperties
<1>3. NextAt(s, p, SP) = p + 1
  <2> DEFINE e == p + 1
  <2>1. e \in 1 .. Len(s) /\ e >= p /\ s[e] = SP /\ \A m \in p .. e - 1 : s[m] # SP
    BY <1>2
  <2> HIDE DEF e
  <2>2. NextAt(s, p, SP) = e
    BY <1>2, <2>1, NextIs
  <2> QED
    BY <2>2 DEF e
<1>4. SubSeq(s, p, p) = <<s[p]>>
  <2>1. SubSeq(s, p, p) = <<s[p]>> \o SubSeq(s, p + 1, p)
    BY <1>2, SubSeqRecursiveFirst
  <2>2. SubSeq(s, p + 1, p) = <<>>
    BY <1>2, SubSeqEmpty
  <2>3. <<s[p]>> \in Seq(Symbol)
    <3>1. s[p] \in Symbol
      BY ElementOfSeq
    <3> QED
      BY <3>1
  <2> QED
    BY <2>1, <2>2, <2>3, ConcatEmptySeq
<1>5. p + 1 - 1 = p /\ (p + 1) + 1 = p + 2
  BY <1>2
<1> QED
  BY <1>1, <1>3, <1>4, <1>5 DEF Token

\* The bytes of a request with a target.
LEMMA BytesAre ==
  ASSUME NEW r, Whole(r)
  PROVE  /\ Bytes(r) \in Seq(Symbol) /\ Len(Bytes(r)) \in Nat /\ Len(Bytes(r)) > 6
         /\ Bytes(r)[1] = r.method /\ Bytes(r)[2] = SP /\ Bytes(r)[3] = r.target
         /\ Bytes(r)[4] = SP /\ Bytes(r)[5] = "HTTP/1.1" /\ Bytes(r)[6] = NL
         /\ SubSeq(Bytes(r), 7, Len(Bytes(r))) = Rest(r)
<1> DEFINE P == <<r.method, SP, r.target, SP, "HTTP/1.1", NL>>
           F == FlattenSeq([k \in DOMAIN r.headers |-> Line(r.headers[k])])
           E == <<NL>>
           R == Rest(r)
<1>1. /\ r.method \in Symbol /\ r.target \in Symbol /\ "HTTP/1.1" \in Symbol
      /\ SP \in Symbol /\ NL \in Symbol
  BY WholeHas, Symbols
<1>2. P \in Seq(Symbol) /\ E \in Seq(Symbol)
  BY <1>1
<1>3. /\ Len(P) = 6 /\ P[1] = r.method /\ P[2] = SP /\ P[3] = r.target /\ P[4] = SP
      /\ P[5] = "HTTP/1.1" /\ P[6] = NL
  OBVIOUS
<1>4. F \in Seq(Symbol) /\ r.body \in Seq(Symbol)
  <2> DEFINE n == Len(r.headers)
             q == [k \in 1 .. n |-> Line(r.headers[k])]
  <2>1. /\ n \in Nat /\ DOMAIN r.headers = 1 .. n /\ r.body \in Seq(Symbol)
        /\ \A k \in 1 .. n : Line(r.headers[k]) \in Seq(Symbol)
    BY WholeHas, LineIs
  <2>2. q \in [1 .. n -> Seq(Symbol)] /\ F = FlattenSeq(q)
    BY <2>1
  <2> HIDE DEF q, n
  <2>3. FlattenSeq(q) \in Seq(Symbol)
    BY <2>1, <2>2, FlattenedLaid DEF Laid
  <2> QED
    BY <2>1, <2>2, <2>3
<1>5. Bytes(r) = ((P \o F) \o E) \o r.body /\ R = (F \o E) \o r.body
  BY DEF Bytes, Rest, Whole, Line
<1>6. R \in Seq(Symbol) /\ Len(R) \in Nat \ {0}
  <2>1. PICK start : Lined(R, r, start, Len(r.headers))
    BY RestIsLined
  <2> HIDE DEF R
  <2>2. R \in Seq(Symbol) /\ Len(R) \in Nat /\ R # <<>>
    <3>1. /\ R \in Seq(Symbol) /\ Len(R) \in Nat
          /\ \E m \in Nat \ {0} : m <= Len(R)
      BY <2>1, LinedNumbers
    <3> QED
      BY <3>1
  <2> QED
    BY <2>2, EmptySeq
<1> HIDE DEF P, F, E, R
<1>7. Bytes(r) = P \o R
  <2> DEFINE b == r.body
             FE == F \o E
  <2>1. F \in Seq(Symbol) /\ E \in Seq(Symbol) /\ P \in Seq(Symbol) /\ b \in Seq(Symbol)
    BY <1>2, <1>4
  <2>2. FE \in Seq(Symbol)
    BY <2>1, ConcatProperties
  <2>3. (P \o F) \o E = P \o FE
    <3>1. Joins(P, F, E)
      BY <2>1, ConcatThree
    <3> QED
      BY <3>1 DEF Joins
  <2> HIDE DEF FE, b
  <2>4. (P \o FE) \o b = P \o (FE \o b)
    <3>1. Joins(P, FE, b)
      BY <2>1, <2>2, ConcatThree
    <3> QED
      BY <3>1 DEF Joins
  <2> QED
    BY <1>5, <2>3, <2>4 DEF FE, b
<1> DEFINE B == P \o R
<1>8. /\ B \in Seq(Symbol) /\ Len(B) = Len(P) + Len(R)
      /\ \A m \in 1 .. Len(P) : B[m] = P[m]
      /\ \A m \in 1 .. Len(R) : B[Len(P) + m] = R[m]
  <2>1. P \in Seq(Symbol) /\ R \in Seq(Symbol)
    BY <1>2, <1>6
  <2> QED
    BY <2>1, ConcatPlaces
<1>9. SubSeq(B, Len(P) + 1, Len(P) + Len(R)) = R
  <2> DEFINE k == Len(P)
             m == Len(R)
  <2>1. /\ P \in Seq(Symbol) /\ R \in Seq(Symbol) /\ k \in Nat /\ m \in Nat \ {0}
    BY <1>2, <1>6, LenProperties
  <2>2. /\ k + 1 \in k + 1 .. k + m /\ k + m \in k + 1 .. k + m
        /\ (k + 1) - k = 1 /\ (k + m) - k = m
    BY <2>1
  <2>3. SubSeq(P \o R, k + 1, k + m) = SubSeq(R, (k + 1) - k, (k + m) - k)
    BY <2>1, <2>2, SubSeqOfConcat2
  <2>4. SubSeq(R, 1, m) = R
    BY <2>1, SubSeqFull
  <2> QED
    BY <2>2, <2>3, <2>4
<1> HIDE DEF B
<1>10. /\ B[1] = r.method /\ B[2] = SP /\ B[3] = r.target /\ B[4] = SP
       /\ B[5] = "HTTP/1.1" /\ B[6] = NL
  BY <1>3, <1>8
<1>11. Len(P) + 1 = 7 /\ Len(B) = Len(P) + Len(R) /\ Len(B) \in Nat /\ Len(B) > 6
  BY <1>3, <1>6, <1>8
<1> QED
  BY <1>7, <1>8, <1>9, <1>10, <1>11 DEF B, R

\* Bytes without a zero byte are read to their end.
LEMMA ReadToItsEnd ==
  ASSUME NEW s \in Seq(Symbol), s # <<>>
  PROVE  RequestFromBuffer(s) = RequestFromString(s)
<1> DEFINE n == Len(s)
<1>1. n \in Nat \ {0} /\ \A m \in 1 .. n : s[m] # ZERO
  <2>1. \A m \in 1 .. n : s[m] \in Symbol
    BY ElementOfSeq
  <2> QED
    BY <2>1, Symbols, LenProperties, EmptySeq
<1>2. NextAt(s, 1, ZERO) = n + 1
  BY <1>1, NextNone
<1> HIDE DEF n
<1>3. NextAt(s, 1, ZERO) - 1 = n
  BY <1>1, <1>2
<1>4. SubSeq(s, 1, n) = s
  BY SubSeqFull DEF n
<1>5. CString(s) = s
  BY <1>3, <1>4, Zenon DEF CString
<1> QED
  BY <1>5 DEF RequestFromBuffer

\* A request that arrives in one piece is understood as it was meant: the method,
\* the target, of the first header of each name as much as the server has room
\* for, and the whole body, whatever they are as long as no byte is zero.
THEOREM WholeIsUnderstood ==
  ASSUME NEW r, Whole(r)
  PROVE  RequestFromBuffer(Bytes(r)) = {Meant(r)}
<1> DEFINE B == Bytes(r)
           R == Rest(r)
           headers == Meant(r).headers
           length == ParseLong(headers["Content-Length:"])
           request(d) == [method |-> <<r.method>>, target |-> <<r.target>>,
                          headers |-> headers, data |-> d]
<1>1. PICK start : Lined(R, r, start, Len(r.headers))
  BY RestIsLined
<1>2. /\ B \in Seq(Symbol) /\ Len(B) \in Nat /\ Len(B) > 6
      /\ B[1] = r.method /\ B[2] = SP /\ B[3] = r.target /\ B[4] = SP
      /\ B[5] = "HTTP/1.1" /\ B[6] = NL /\ SubSeq(B, 7, Len(B)) = R
  BY BytesAre
<1>3. /\ r.method # SP /\ r.target # SP /\ "HTTP/1.1" # NL
      /\ r.body \in Seq(Symbol) /\ length \in {NULL, Len(r.body)}
  BY WholeHas, Symbols
<1>4. Headers(R) = headers /\ Data(R, Len(r.body)) = {r.body}
  BY <1>1, HeadersAre, DataIs
<1>5. Meant(r) = request(IF length = NULL THEN NULL ELSE r.body)
  BY DEF Meant
<1> HIDE DEF B, R, headers
<1>6. Token(B, 1).text = <<r.method>> /\ Token(B, 1).next = 3
  <2>1. PICK p \in 1 .. Len(B) : p = 1
    BY <1>2
  <2>2. /\ p + 1 <= Len(B) /\ B[p] = r.method /\ B[p + 1] = SP /\ p + 2 = 3
    BY <1>2, <2>1
  <2>3. Token(B, p).text = <<B[p]>> /\ Token(B, p).next = p + 2
    BY <1>2, <1>3, <2>2, TokenIs
  <2> QED
    BY <2>1, <2>2, <2>3
<1>7. Token(B, 3).text = <<r.target>> /\ Token(B, 3).next = 5
  <2>1. PICK p \in 1 .. Len(B) : p = 3
    BY <1>2
  <2>2. /\ p + 1 <= Len(B) /\ B[p] = r.target /\ B[p + 1] = SP /\ p + 2 = 5
    BY <1>2, <2>1
  <2>3. Token(B, p).text = <<B[p]>> /\ Token(B, p).next = p + 2
    BY <1>2, <1>3, <2>2, TokenIs
  <2> QED
    BY <2>1, <2>2, <2>3
<1>8. LineEnd(B, 5) = 6
  <2>1. NextAt(B, 5, NL) = 6
    <3>1. 6 \in 1 .. Len(B) /\ 6 >= 5 /\ \A m \in 5 .. 6 - 1 : B[m] # NL
      BY <1>2, <1>3
    <3> QED
      BY <1>2, <3>1, NextIs
  <2> QED
    BY <2>1 DEF LineEnd
<1>9. RequestFromString(B) =
        IF length = NULL THEN {request(NULL)}
        ELSE {IF d = FAULT THEN FAULT ELSE request(d) : d \in Data(R, length)}
  <2>1. <<r.method>> # <<>> /\ <<r.target>> # <<>> /\ ~(5 > Len(B)) /\ 6 + 1 = 7
    BY <1>2
  <2>2. PICK method, target, text :
          /\ method = Token(B, 1) /\ target = Token(B, method.next)
          /\ text = SubSeq(B, LineEnd(B, target.next) + 1, Len(B))
    OBVIOUS
  <2>3. /\ method.text = <<r.method>> /\ target.text = <<r.target>>
        /\ target.next = 5 /\ text = R
    BY <1>2, <1>6, <1>7, <1>8, <2>1, <2>2
  <2>4. ~(method.text = <<>> \/ target.text = <<>> \/ target.next > Len(B))
    BY <2>1, <2>3
  <2>5. RequestFromString(B) =
          IF ParseLong(Headers(text)["Content-Length:"]) = NULL
            THEN {[method |-> method.text, target |-> target.text,
                   headers |-> Headers(text), data |-> NULL]}
          ELSE {IF d = FAULT THEN FAULT
                  ELSE [method |-> method.text, target |-> target.text,
                        headers |-> Headers(text), data |-> d] :
                  d \in Data(text, ParseLong(Headers(text)["Content-Length:"]))}
    BY <2>2, <2>4, Zenon DEF RequestFromString
  <2> QED
    BY <1>4, <2>3, <2>5
<1>10. r.body # FAULT
  BY <1>3, RequestAssumption
<1>11. RequestFromString(B) = {request(IF length = NULL THEN NULL ELSE r.body)}
  <2>1. CASE length = NULL
    BY <1>9, <2>1
  <2>2. CASE length # NULL
    <3>1. length = Len(r.body) /\ Data(R, length) = {r.body}
      BY <1>3, <1>4, <2>2
    <3> QED
      BY <1>9, <1>10, <2>2, <3>1
  <2> QED
    BY <2>1, <2>2
<1>12. RequestFromBuffer(B) = RequestFromString(B)
  <2>1. B # <<>>
    BY <1>2
  <2> QED
    BY <1>2, <2>1, ReadToItsEnd
<1> QED
  BY <1>5, <1>11, <1>12 DEF B

\* One without a target is refused.
LEMMA BadIsRefused ==
  ASSUME NEW r, WellFormed(r), r.target = NULL
  PROVE  /\ RequestFromBuffer(Bytes(r)) = {NULL}
         /\ Bytes(r) \in Seq(Symbol) /\ Bytes(r) # <<>>
<1> DEFINE B == Bytes(r)
<1>1. B = <<r.method, NL, NL>>
  BY DEF Bytes
<1>2. r.method \in Symbol /\ r.method # SP /\ NL # SP /\ NL \in Symbol
  BY Symbols DEF WellFormed
<1>3. /\ B \in Seq(Symbol) /\ B # <<>> /\ Len(B) = 3
      /\ B[1] = r.method /\ B[2] = NL /\ B[3] = NL
  BY <1>1, <1>2
<1> HIDE DEF B
<1>4. \A m \in 1 .. Len(B) : B[m] # SP
  BY <1>2, <1>3
<1>5. SkipSpaces(B, 1) = 1
  BY <1>2, <1>3, SkipNone
<1>6. NextAt(B, 1, SP) = Len(B) + 1
  BY <1>3, <1>4, NextNone
<1>7. Token(B, 1).next = 5
  BY <1>3, <1>5, <1>6 DEF Token
<1>8. SkipSpaces(B, 5) = 4
  <2>1. {m \in DOMAIN B : m >= 5 /\ B[m] # SP} \cup {Len(B) + 1} = {4}
    <3>1. DOMAIN B = 1 .. 3
      BY <1>3, LenProperties
    <3> QED
      BY <1>3, <3>1
  <2>2. Min({4}) = 4
    BY IsSmallest
  <2> QED
    BY <2>1, <2>2 DEF SkipSpaces
<1>9. NextAt(B, 4, SP) = 4
  <2>1. NextAt(B, 4, SP) = Len(B) + 1
    BY <1>3, <1>4, NextNone
  <2> QED
    BY <1>3, <2>1
<1>10. Token(B, 5).text = <<>>
  <2>1. Token(B, 5).text = SubSeq(B, 4, 4 - 1)
    BY <1>8, <1>9 DEF Token
  <2>2. PICK m \in Int, e \in Int : m = 4 /\ e = 4 - 1 /\ e < m
    OBVIOUS
  <2>3. SubSeq(B, m, e) = <<>>
    BY <2>2, SubSeqEmpty
  <2> QED
    BY <2>1, <2>2, <2>3
<1>11. RequestFromBuffer(B) = {NULL}
  BY <1>3, <1>7, <1>10, ReadToItsEnd DEF RequestFromString
<1> QED
  BY <1>3, <1>11 DEF B

\* What a request means is a request.
LEMMA MeantIs ==
  ASSUME NEW r, Whole(r)
  PROVE  Meant(r) \in HttpRequest /\ Meant(r) # NULL /\ Meant(r) # FAULT
<1> DEFINE named(n) == {k \in DOMAIN r.headers : r.headers[k].name = n}
           headers == [n \in HeaderNames |->
                         IF named(n) = {} THEN NULL
                                          ELSE Cut(r.headers[Min(named(n))].value)]
           data == IF ParseLong(headers["Content-Length:"]) = NULL
                     THEN NULL ELSE r.body
<1>1. Meant(r) = [method |-> <<r.method>>, target |-> <<r.target>>,
                  headers |-> headers, data |-> data]
  BY DEF Meant
<1>2. /\ r.method \in Symbol /\ r.target \in Symbol /\ Len(r.headers) \in Nat
      /\ DOMAIN r.headers = 1 .. Len(r.headers) /\ r.body \in Seq(Symbol)
  BY WholeHas, Symbols
<1>3. \A k \in 1 .. Len(r.headers) : r.headers[k].value \in Seq(Symbol)
  BY WholeHas, LineIs
<1>4. headers \in [HeaderNames -> Seq(Symbol) \cup {NULL}]
  <2>1. ASSUME NEW n \in HeaderNames, named(n) # {}
        PROVE  Cut(r.headers[Min(named(n))].value) \in Seq(Symbol)
    <3>1. named(n) \in SUBSET (1 .. Len(r.headers))
      BY <1>2
    <3> HIDE DEF named
    <3>2. Min(named(n)) \in 1 .. Len(r.headers)
      BY <1>2, <2>1, <3>1, FirstPosition
    <3> QED
      BY <1>3, <3>2, CutIs
  <2> HIDE DEF named
  <2> QED
    BY <2>1
<1> HIDE DEF headers
<1>5. data \in Seq(Symbol) \cup {NULL}
  BY <1>2
<1> HIDE DEF data
<1>6. <<r.method>> \in Seq(Symbol) /\ <<r.target>> \in Seq(Symbol)
  BY <1>2
<1>7. Meant(r) \in HttpRequest
  BY <1>1, <1>4, <1>5, <1>6 DEF HttpRequest
<1> QED
  BY <1>7, RequestAssumption

-----------------------------------------------------------------------------
(* Requests that arrive whole.                                             *)

\* The client waits for each answer: while the child reads, no request is left
\* or the last one is, in one piece, and the child dies of nothing else than the
\* loss of its client and a request for what get_files cannot serve.
Turn ==
  /\ network \in Networks
  /\ network = "whole" =>
       /\ sent \in Seq(Requests["whole"])
       /\ (\E S : replies \in Seq(S)) /\ Len(replies) <= Len(sent)
       /\ (\E S : written \in Seq(S)) /\ Len(written) = Len(replies)
       /\ state = "killed" => peer = "closed" \/ Unservable(sent[Len(sent)])
       /\ state = "reading" =>
            \/ Len(sent) = Len(replies) /\ transit = <<>> /\ arrived = <<>>
            \/ /\ Len(sent) = Len(replies) + 1
               /\ \/ transit = Bytes(sent[Len(sent)]) /\ arrived = <<>>
                  \/ transit = <<>> /\ arrived = Bytes(sent[Len(sent)])

\* What the child has read when it has read something: the request whose turn
\* it is, and nothing is left of it.
ReadsOne(r) ==
  /\ r \in Requests["whole"] /\ WellFormed(r)
  /\ Len(sent) = Len(replies) + 1 /\ r = sent[Len(sent)]
  /\ state = "reading" /\ transit = <<>> /\ arrived' = <<>>
  /\ RequestFromBuffer(Chunk) = {IF r.target = NULL THEN NULL ELSE Meant(r)}

LEMMA RecvReadsOne ==
  ASSUME Turn, network = "whole", Recv
  PROVE  \E r : ReadsOne(r)
<1> DEFINE r == sent[Len(sent)]
<1>1. /\ sent \in Seq(Requests["whole"]) /\ state = "reading" /\ arrived # <<>>
      /\ Len(sent) = Len(replies) + 1 /\ transit = <<>> /\ arrived = Bytes(r)
  BY DEF Turn, Recv
<1>2. Len(replies) \in Nat
  BY LenProperties DEF Turn
<1>3. r \in Requests["whole"]
  <2>1. Len(sent) \in 1 .. Len(sent)
    BY <1>1, <1>2
  <2> QED
    BY <1>1, <2>1, ElementOfSeq
<1>4. /\ WellFormed(r) /\ Len(Bytes(r)) <= BufferSize["whole"]
      /\ BufferSize["whole"] \in Nat
  BY <1>3, ConnectionAssumption DEF Turn
<1> HIDE DEF r
<1>5. Bytes(r) \in Seq(Symbol)
  <2>1. CASE r.target = NULL
    BY <1>4, <2>1, BadIsRefused
  <2>2. CASE r.target # NULL
    BY <1>4, <2>2, BytesAre DEF Whole
  <2> QED
    BY <2>1, <2>2
<1> DEFINE B == Bytes(r)
           n == Len(B)
<1>6. n \in Nat /\ n <= BufferSize["whole"] /\ arrived = B /\ B \in Seq(Symbol)
  BY <1>1, <1>4, <1>5, LenProperties
<1> HIDE DEF B
<1>7. Chunk = B
  <2>1. Min({n, BufferSize["whole"]}) = n
    BY <1>4, <1>6, OfTwo
  <2>2. Chunk = SubSeq(B, 1, n)
    BY <1>6, <2>1 DEF Chunk
  <2>3. SubSeq(B, 1, n) = B
    BY <1>6, SubSeqFull
  <2> QED
    BY <2>2, <2>3
<1>8. arrived' = <<>>
  <2>1. arrived' = SubSeq(B, n + 1, n)
    BY <1>6, <1>7 DEF Recv
  <2>2. SubSeq(B, n + 1, n) = <<>>
    BY <1>6, SubSeqEmpty
  <2> QED
    BY <2>1, <2>2
<1>9. RequestFromBuffer(Chunk) = {IF r.target = NULL THEN NULL ELSE Meant(r)}
  <2>1. CASE r.target = NULL
    BY <1>4, <1>7, <2>1, BadIsRefused DEF B
  <2>2. CASE r.target # NULL
    BY <1>4, <1>7, <2>2, WholeIsUnderstood DEF B, Whole
  <2> QED
    BY <2>1, <2>2
<1> QED
  BY <1>1, <1>3, <1>4, <1>8, <1>9 DEF ReadsOne, r

\* What a round of the child does to a request that arrives whole: it refuses
\* one without a target, answers any other, or dies.
Refuses(r) ==
  /\ r.target = NULL /\ state' = "closed"
  /\ replies' = Append(replies, Response(400, FALSE, FALSE, <<>>))
  /\ files' = files /\ written' = Append(written, 0)

Answers(r, n) ==
  /\ r.target # NULL /\ state' \in {"reading", "closed"}
  /\ replies' = Append(replies, Answer(Meant(r), files))
  /\ n \in Writable(Meant(r), files)
  /\ files' = FilesAfter(Meant(r), files, n) /\ written' = Append(written, n)

Answered(r) == Refuses(r) \/ \E n : Answers(r, n)

Dies(r) ==
  /\ state' = "killed" /\ replies' = replies /\ written' = written
  /\ \/ peer = "closed"
     \/ Unservable(r) /\ files' = files

\* The handler is killed by nothing else than what get_files cannot serve.
LEMMA CrashIs ==
  ASSUME NEW r, Whole(r), Crashes(Meant(r), files)
  PROVE  Unservable(r)
<1> DEFINE name == Param(<<r.target>>)
           content == files[name]
<1>1. /\ Meant(r).target = <<r.target>> /\ Meant(r).method = <<r.method>>
      /\ r.target # NULL
  BY DEF Meant, Whole
<1>2. /\ Matches("/files/", <<r.target>>) /\ <<r.method>> = <<"GET">> /\ files # NULL
      /\ \/ name \in Directories
         \/ name \in DOMAIN files /\ ZERO \in ToSet(content)
  BY <1>1 DEF Crashes, Gets
<1>3. r.method = "GET"
  BY <1>2
<1> HIDE DEF content
<1>4. ZERO \in ToSet(content) => \E i \in DOMAIN content : content[i] = ZERO
  BY DEF ToSet
<1> QED
  BY <1>1, <1>2, <1>3, <1>4 DEF Unservable, content

LEMMA RoundIs ==
  ASSUME Turn, network = "whole",
         ServeBad \/ ServeRequest \/ ServeFault \/ SendKilled
  PROVE  \E r : ReadsOne(r) /\ (Answered(r) \/ Dies(r))
<1>1. Recv
  BY DEF ServeBad, ServeRequest, ServeFault, SendKilled
<1>2. PICK r : ReadsOne(r)
  BY <1>1, RecvReadsOne
<1>3. RequestFromBuffer(Chunk) = {IF r.target = NULL THEN NULL ELSE Meant(r)}
  BY <1>2 DEF ReadsOne
<1>4. r.target # NULL => Whole(r) /\ Meant(r) # NULL /\ Meant(r) # FAULT
  BY <1>2, MeantIs DEF ReadsOne, Whole
<1>5. NULL # FAULT
  BY RequestAssumption
<1>6. CASE ServeBad
  BY <1>2, <1>3, <1>4, <1>6 DEF ServeBad, Refuses, Answered
<1>7. CASE ServeRequest
  <2>1. PICK req \in RequestFromBuffer(Chunk) \ {NULL, FAULT} :
          /\ replies' = Append(replies, Answer(req, files))
          /\ \E n \in Writable(req, files) :
               files' = FilesAfter(req, files, n) /\ written' = Append(written, n)
          /\ state' = IF WantsClose(req) THEN "closed" ELSE "reading"
    BY <1>7 DEF ServeRequest
  <2>2. r.target # NULL /\ req = Meant(r)
    BY <1>3, <2>1
  <2> QED
    BY <1>2, <2>1, <2>2 DEF Answers, Answered
<1>8. CASE ServeFault
  <2>1. /\ state' = "killed" /\ replies' = replies /\ written' = written
        /\ files' = files
    BY <1>8 DEF ServeFault
  <2>2. r.target # NULL /\ Crashes(Meant(r), files)
    BY <1>3, <1>4, <1>5, <1>8 DEF ServeFault
  <2>3. Unservable(r)
    BY <1>4, <2>2, CrashIs
  <2> QED
    BY <1>2, <2>1, <2>3 DEF Dies
<1>9. CASE SendKilled
  BY <1>2, <1>9 DEF SendKilled, Dies
<1> QED
  BY <1>6, <1>7, <1>8, <1>9

\* One more answer, in sequence, and one more count of what was written.
OneMore(answer, n) ==
  /\ (\E T : replies' \in Seq(T)) /\ Len(replies) \in Nat
  /\ Len(replies') = Len(replies) + 1
  /\ \A i \in 1 .. Len(replies) : replies'[i] = replies[i]
  /\ replies'[Len(replies) + 1] = answer /\ Last(replies') = answer
  /\ (\E T : written' \in Seq(T)) /\ Len(written') = Len(replies) + 1
  /\ \A i \in 1 .. Len(replies) : written'[i] = written[i]
  /\ written'[Len(replies) + 1] = n /\ Last(written') = n

LEMMA AppendIsOneMore ==
  ASSUME NEW S, NEW s \in Seq(S), NEW x
  PROVE  /\ (\E T : Append(s, x) \in Seq(T)) /\ Len(s) \in Nat
         /\ Len(Append(s, x)) = Len(s) + 1
         /\ \A i \in 1 .. Len(s) : Append(s, x)[i] = s[i]
         /\ Append(s, x)[Len(s) + 1] = x /\ Last(Append(s, x)) = x
<1>1. \E T : Append(s, x) \in Seq(T)
  <2>1. s \in Seq(S \cup {x}) /\ x \in S \cup {x}
    BY SeqMonotonic
  <2> QED
    BY <2>1
<1>2. /\ Len(s) \in Nat
      /\ Len(Append(s, x)) = Len(s) + 1
      /\ \A i \in 1 .. Len(s) : Append(s, x)[i] = s[i]
      /\ Append(s, x)[Len(s) + 1] = x
  BY AppendAny
<1>3. Last(Append(s, x)) = x
  BY <1>2 DEF Last
<1> QED
  BY <1>1, <1>2, <1>3

LEMMA RoundIsOneMore ==
  ASSUME Turn, network = "whole", NEW r
  PROVE  /\ Refuses(r) => OneMore(Response(400, FALSE, FALSE, <<>>), 0)
         /\ \A n : Answers(r, n) => OneMore(Answer(Meant(r), files), n)
<1>1. PICK S : replies \in Seq(S)
  BY DEF Turn
<1>2. PICK W : written \in Seq(W)
  BY DEF Turn
<1>3. Len(written) = Len(replies)
  BY DEF Turn
<1>4. ASSUME NEW answer, NEW n, replies' = Append(replies, answer),
             written' = Append(written, n)
      PROVE  OneMore(answer, n)
  <2>1. /\ (\E T : replies' \in Seq(T)) /\ Len(replies) \in Nat
        /\ Len(replies') = Len(replies) + 1
        /\ \A i \in 1 .. Len(replies) : replies'[i] = replies[i]
        /\ replies'[Len(replies) + 1] = answer /\ Last(replies') = answer
    <3>1. /\ (\E T : Append(replies, answer) \in Seq(T)) /\ Len(replies) \in Nat
          /\ Len(Append(replies, answer)) = Len(replies) + 1
          /\ \A i \in 1 .. Len(replies) : Append(replies, answer)[i] = replies[i]
          /\ Append(replies, answer)[Len(replies) + 1] = answer
          /\ Last(Append(replies, answer)) = answer
      BY <1>1, AppendIsOneMore
    <3> QED
      BY <1>4, <3>1
  <2>2. /\ (\E T : written' \in Seq(T))
        /\ Len(written') = Len(written) + 1
        /\ \A i \in 1 .. Len(written) : written'[i] = written[i]
        /\ written'[Len(written) + 1] = n /\ Last(written') = n
    <3>1. /\ (\E T : Append(written, n) \in Seq(T))
          /\ Len(Append(written, n)) = Len(written) + 1
          /\ \A i \in 1 .. Len(written) : Append(written, n)[i] = written[i]
          /\ Append(written, n)[Len(written) + 1] = n
          /\ Last(Append(written, n)) = n
      BY <1>2, AppendIsOneMore
    <3> QED
      BY <1>4, <3>1
  <2> QED
    BY <1>3, <2>1, <2>2 DEF OneMore
<1> QED
  BY <1>4 DEF Refuses, Answers

LEMMA TurnStep == Turn /\ [Next]_vars => Turn'
<1> SUFFICES ASSUME Turn, [Next]_vars PROVE Turn'
  OBVIOUS
<1>1. network' = network
  BY DEF Next, Child, ServeBad, ServeRequest, ServeFault, SendKilled, Recv,
         RecvHangUp, Network, Deliver, HangUp, SendRequest, vars
<1>2. CASE network # "whole"
  BY <1>1, <1>2 DEF Turn
<1>3. CASE network = "whole" /\ UNCHANGED vars
  BY <1>3 DEF Turn, vars, Unservable
<1>4. CASE network = "whole" /\ (ServeBad \/ ServeRequest \/ ServeFault \/ SendKilled)
  <2>1. PICK r : ReadsOne(r) /\ (Answered(r) \/ Dies(r))
    BY <1>4, RoundIs
  <2>2. UNCHANGED <<network, peer, sent, transit>>
    BY <1>4 DEF ServeBad, ServeRequest, ServeFault, SendKilled, Recv
  <2>3. CASE Dies(r)
    <3>1. state' = "killed" /\ replies' = replies /\ written' = written
      BY <2>3 DEF Dies
    <3>2. peer = "closed" \/ Unservable(sent[Len(sent)])'
      <4>1. CASE Unservable(r) /\ files' = files
        <5>1. r = sent[Len(sent)] /\ sent' = sent
          BY <2>1, <2>2 DEF ReadsOne
        <5>2. Unservable(sent[Len(sent)])
          BY <4>1, <5>1
        <5> QED
          BY <4>1, <5>1, <5>2 DEF Unservable
      <4> QED
        BY <2>3, <4>1 DEF Dies
    <3> QED
      BY <1>4, <2>2, <3>1, <3>2 DEF Turn
  <2>4. CASE Answered(r)
    <3>1. /\ (\E T : replies' \in Seq(T)) /\ Len(replies) \in Nat
          /\ Len(replies') = Len(replies) + 1
          /\ (\E T : written' \in Seq(T)) /\ Len(written') = Len(replies')
      BY <1>4, <2>4, RoundIsOneMore DEF OneMore, Answered
    <3>2. state' \in {"reading", "closed"}
      BY <2>4 DEF Refuses, Answers, Answered
    <3>3. Len(sent) = Len(replies) + 1 /\ transit = <<>> /\ arrived' = <<>>
      BY <2>1 DEF ReadsOne
    <3> QED
      BY <1>4, <2>2, <3>1, <3>2, <3>3 DEF Turn
  <2> QED
    BY <2>1, <2>3, <2>4
<1>5. CASE network = "whole" /\ (RecvHangUp \/ HangUp)
  BY <1>5 DEF Turn, RecvHangUp, HangUp, Unservable
<1>6. ASSUME network = "whole", NEW r \in Requests[network], SendRequest(r)
      PROVE  Turn'
  <2>1. /\ state = "reading" /\ Len(replies) = Len(sent) /\ sent' = Append(sent, r)
        /\ transit' = transit \o Bytes(r)
        /\ UNCHANGED <<network, peer, arrived, state, replies, files, written>>
    BY <1>6 DEF SendRequest
  <2>2. sent \in Seq(Requests["whole"]) /\ Len(sent) \in Nat
    BY <1>6, LenProperties DEF Turn
  <2>3. transit = <<>> /\ arrived = <<>>
    BY <1>6, <2>1, <2>2 DEF Turn
  <2>4. /\ Append(sent, r) \in Seq(Requests["whole"])
        /\ Len(Append(sent, r)) = Len(sent) + 1
        /\ Append(sent, r)[Len(sent) + 1] = r
    BY <1>6, <2>2, AppendProperties
  <2>5. <<>> \o Bytes(r) = Bytes(r)
    <3>1. Bytes(r) \in Seq(Symbol)
      <4>1. WellFormed(r)
        BY <1>6, ConnectionAssumption
      <4>2. CASE r.target = NULL
        BY <4>1, <4>2, BadIsRefused
      <4>3. CASE r.target # NULL
        BY <4>1, <4>3, BytesAre DEF Whole
      <4> QED
        BY <4>2, <4>3
    <3> QED
      BY <3>1, ConcatEmptySeq
  <2>6. /\ sent' \in Seq(Requests["whole"]) /\ Len(sent') = Len(replies) + 1
        /\ transit' = Bytes(sent'[Len(sent')]) /\ arrived' = <<>>
    BY <2>1, <2>2, <2>3, <2>4, <2>5
  <2> QED
    BY <1>6, <2>1, <2>2, <2>6 DEF Turn
<1>7. ASSUME network = "whole", NEW n \in 1 .. Len(transit), Deliver(n)
      PROVE  Turn'
  <2>1. /\ arrived' = arrived \o SubSeq(transit, 1, Len(transit))
        /\ transit' = SubSeq(transit, Len(transit) + 1, Len(transit))
        /\ UNCHANGED <<network, peer, sent, state, replies, files, written>>
    BY <1>7 DEF Deliver
  <2>2. CASE state # "reading"
    BY <1>7, <2>1, <2>2 DEF Turn, Unservable
  <2>3. CASE state = "reading"
    <3> DEFINE r == sent[Len(sent)]
    <3>1. Len(transit) # 0
      BY <1>7
    <3>2. transit # <<>>
      BY <3>1
    <3>3. Len(sent) = Len(replies) + 1 /\ transit = Bytes(r) /\ arrived = <<>>
      BY <1>7, <2>3, <3>2 DEF Turn
    <3>4. r \in Requests["whole"]
      <4>1. sent \in Seq(Requests["whole"]) /\ Len(replies) \in Nat
        BY <1>7, LenProperties DEF Turn
      <4>2. Len(sent) \in 1 .. Len(sent)
        BY <3>3, <4>1
      <4> QED
        BY <4>1, <4>2, ElementOfSeq
    <3>5. Bytes(r) \in Seq(Symbol)
      <4>1. WellFormed(r)
        BY <3>4, ConnectionAssumption
      <4> HIDE DEF r
      <4>2. CASE r.target = NULL
        BY <4>1, <4>2, BadIsRefused
      <4>3. CASE r.target # NULL
        BY <4>1, <4>3, BytesAre DEF Whole
      <4> QED
        BY <4>2, <4>3
    <3> DEFINE B == Bytes(r)
               len == Len(B)
    <3>6. B \in Seq(Symbol) /\ len \in Nat
      BY <3>5, LenProperties
    <3> HIDE DEF B
    <3>7. /\ SubSeq(B, 1, len) = B /\ SubSeq(B, len + 1, len) = <<>>
          /\ <<>> \o B = B
      BY <3>6, SubSeqFull, SubSeqEmpty, ConcatEmptySeq
    <3>8. arrived' = Bytes(r) /\ transit' = <<>>
      BY <2>1, <3>3, <3>7 DEF B
    <3> QED
      BY <1>7, <2>1, <2>3, <3>3, <3>8 DEF Turn
  <2> QED
    BY <2>2, <2>3
<1> QED
  BY <1>2, <1>3, <1>4, <1>5, <1>6, <1>7 DEF Next, Child, Network

LEMMA TurnInit == Init => Turn
<1>1. \A S : <<>> \in Seq(S) /\ Len(<<>>) = 0
  BY EmptySeq
<1> QED
  BY <1>1 DEF Init, Turn

\* The child that reads a request that arrives whole is killed only when its
\* client is gone, or by a GET of a directory or of a file with a zero byte.
THEOREM WholeSurvived == Spec => []SurvivesWholeRequests
<1>1. Turn => SurvivesWholeRequests
  BY DEF Turn, SurvivesWholeRequests, Last
<1> QED
  BY <1>1, TurnInit, TurnStep, PTL DEF Spec

\* Each answer, and the files after it, is that of the request whose turn it is,
\* as it was meant, whatever bodies and headers came before it; a body that is
\* stored may lose its end when the file cannot be written.
THEOREM AnsweredInTurn == Spec => AnsweredAsMeant
<1> DEFINE Right ==
      /\ Len(replies') <= Len(sent)
      /\ LET r == sent[Len(replies')]
         IN  IF r.target = NULL
               THEN Last(replies').status = 400 /\ files' = files
               ELSE /\ Last(replies') = Answer(Meant(r), files)
                    /\ files' = FilesAfter(Meant(r), files, Last(written'))
<1>1. Turn /\ [Next]_vars => [network = "whole" /\ replies' # replies => Right]_vars
  <2> SUFFICES ASSUME Turn, Next, network = "whole", replies' # replies
               PROVE  Right
    BY DEF vars
  <2>1. ServeBad \/ ServeRequest \/ ServeFault \/ SendKilled
    BY DEF Next, Child, RecvHangUp, Network, Deliver, HangUp, SendRequest
  <2>2. PICK r : ReadsOne(r) /\ Answered(r)
    BY <2>1, RoundIs DEF Dies
  <2>3. Len(sent) = Len(replies) + 1 /\ r = sent[Len(sent)]
    BY <2>2 DEF ReadsOne
  <2>4. CASE Refuses(r)
    <3>1. Len(replies') = Len(replies) + 1 /\ Last(replies').status = 400
      BY <2>4, RoundIsOneMore DEF OneMore, Response
    <3>2. Len(replies') <= Len(sent) /\ sent[Len(replies')] = r
      BY <2>3, <2>4, <3>1, RoundIsOneMore DEF OneMore
    <3> QED
      BY <2>4, <3>1, <3>2 DEF Refuses
  <2>5. ASSUME NEW n, Answers(r, n)
        PROVE  Right
    <3>0. OneMore(Answer(Meant(r), files), n)
      BY <2>5, RoundIsOneMore
    <3>1. /\ Len(replies') = Len(replies) + 1
          /\ Last(replies') = Answer(Meant(r), files)
          /\ Last(written') = n /\ Len(replies) \in Nat
      BY <3>0 DEF OneMore
    <3>2. Len(replies') <= Len(sent) /\ sent[Len(replies')] = r
      BY <2>3, <3>1
    <3>3. r.target # NULL /\ files' = FilesAfter(Meant(r), files, n)
      BY <2>5 DEF Answers
    <3>4. files' = FilesAfter(Meant(r), files, Last(written'))
      BY <3>1, <3>3
    <3> QED
      BY <3>1, <3>2, <3>3, <3>4
  <2> QED
    BY <2>2, <2>4, <2>5 DEF Answered
<1>2. Turn /\ [Next]_vars =>
        [network = "whole" /\ replies' # replies =>
           /\ Len(replies') <= Len(sent)
           /\ LET r == sent[Len(replies')]
              IN  IF r.target = NULL
                    THEN Last(replies').status = 400 /\ files' = files
                    ELSE /\ Last(replies') = Answer(Meant(r), files)
                         /\ files' = FilesAfter(Meant(r), files, Last(written'))]_vars
  BY <1>1
<1> QED
  BY <1>2, TurnInit, TurnStep, PTL DEF Spec, AnsweredAsMeant

-----------------------------------------------------------------------------
(* The files.                                                              *)

\* The file a target names, which no other target names.
LEMMA ParamIs ==
  ASSUME NEW t \in Word
  PROVE  /\ Matches("/files/", <<t>>) <=> t \in DOMAIN Path /\ Path[t].prefix = "/files/"
         /\ t \in DOMAIN Path =>
              Param(<<t>>) = <<Path[t].rest>> /\ Param(<<t>>) \in FileNames
<1>1. Head(<<t>>) = t /\ Tail(<<t>>) = <<>>
  OBVIOUS
<1>2. "/files/" \notin ExactPaths
  BY DEF ExactPaths
<1>3. ASSUME t \in DOMAIN Path
      PROVE  Param(<<t>>) = <<Path[t].rest>> /\ Param(<<t>>) \in FileNames
  <2>1. Path[t].rest \in Word
    BY <1>3, RoutesAssumption
  <2>2. <<Path[t].rest>> \in Seq(Word)
    BY <2>1
  <2>3. <<Path[t].rest>> \o <<>> = <<Path[t].rest>>
    BY <2>2, ConcatEmptySeq
  <2> QED
    BY <1>1, <1>3, <2>3 DEF Param, FileNames
<1> QED
  BY <1>1, <1>2, <1>3 DEF Matches

LEMMA ParamOneToOne ==
  ASSUME NEW t \in Word, NEW u \in Word, Matches("/files/", <<t>>),
         Matches("/files/", <<u>>), Param(<<t>>) = Param(<<u>>)
  PROVE  t = u
<1>1. /\ t \in DOMAIN Path /\ Path[t].prefix = "/files/"
      /\ u \in DOMAIN Path /\ Path[u].prefix = "/files/"
  BY ParamIs
<1>2. <<Path[t].rest>> = <<Path[u].rest>>
  BY <1>1, ParamIs
<1>3. Path[t].rest = Path[u].rest
  BY <1>2
<1>4. /\ Path[t] \in [prefix : Word, rest : Word]
      /\ Path[u] \in [prefix : Word, rest : Word]
  BY <1>1, RoutesAssumption
<1>5. Path[t] = Path[u]
  BY <1>1, <1>3, <1>4
<1> QED
  BY <1>1, <1>5, RoutesAssumption

\* Only the route of the files takes a target it matches.
LEMMA FilesAnswer ==
  ASSUME NEW req, NEW fs, Matches("/files/", req.target), RouteFiles(req, fs) # NULL
  PROVE  Answer(req, fs) = RouteFiles(req, fs)
<1> DEFINE t == Head(req.target)
<1>1. t \in DOMAIN Path /\ Path[t].prefix = "/files/"
  BY DEF Matches, ExactPaths
<1>2. t \notin ExactPaths
  BY <1>1, RoutesAssumption DEF ParamPaths
<1>3. ~Matches("/", req.target) /\ ~Matches("/user-agent", req.target)
  BY <1>2 DEF Matches, ExactPaths
<1>4. ~Matches("/echo/", req.target)
  BY <1>1 DEF Matches, ExactPaths
<1>5. \A k \in Takers(req, fs) : k = 4
  BY <1>3, <1>4, RoutesAre DEF Takers
<1>6. 4 \in Takers(req, fs) /\ Handle(routes[4], req, fs) = RouteFiles(req, fs)
  BY RoutesAre DEF Takers, Handle
<1> QED
  BY <1>5, <1>6, AnswerIs

\* A request that is answered with 201, and no other, stores its data.
LEMMA WritesIs ==
  ASSUME NEW req, NEW fs
  PROVE  Answer(req, fs).status = 201 <=> Writes(req, fs)
<1>1. ASSUME Answer(req, fs).status = 201
      PROVE  Writes(req, fs)
  <2>1. Answer(req, fs) # Plain(req, 404, <<>>)
    BY <1>1 DEF Plain, Response
  <2>2. PICK k \in Takers(req, fs) : Answer(req, fs) = Handle(routes[k], req, fs)
    BY <2>1, AnswerIs
  <2> DEFINE answer == Answer(req, fs)
  <2>3. /\ k \in 1 .. 4 /\ answer # NULL /\ answer = Handle(routes[k], req, fs)
        /\ answer.status = 201 /\ Matches(routes[k], req.target)
    BY <1>1, <2>2, RoutesAre DEF Takers
  <2> HIDE DEF answer
  <2>4. CASE k = 1
    <3>1. answer = RouteRoot(req)
      BY <2>3, <2>4, RoutesAre DEF Handle
    <3> QED
      BY <2>3, <3>1 DEF RouteRoot, Plain, Response
  <2>5. CASE k = 2
    <3>1. answer = RouteEcho(req)
      BY <2>3, <2>5, RoutesAre DEF Handle
    <3> QED
      BY <2>3, <3>1 DEF RouteEcho, Response
  <2>6. CASE k = 3
    <3>1. answer = RouteUserAgent(req)
      BY <2>3, <2>6, RoutesAre DEF Handle
    <3> QED
      BY <2>3, <3>1 DEF RouteUserAgent, Plain, Response
  <2>7. CASE k = 4
    <3>1. answer = RouteFiles(req, fs) /\ Matches("/files/", req.target)
      BY <2>3, <2>7, RoutesAre DEF Handle
    <3>2. req.method = <<"GET">> \/ req.method = <<"POST">>
      BY <2>3, <3>1 DEF RouteFiles
    <3>3. CASE req.method = <<"GET">>
      <4>1. answer = GetFiles(req, fs)
        BY <3>1, <3>3 DEF RouteFiles
      <4> QED
        BY <2>3, <4>1 DEF GetFiles, Plain, Response
    <3>4. CASE req.method = <<"POST">>
      <4>1. <<"GET">> # <<"POST">>
        OBVIOUS
      <4>2. answer = PostFiles(req, fs)
        BY <3>1, <3>4, <4>1 DEF RouteFiles
      <4> QED
        BY <2>3, <3>1, <3>4, <4>2 DEF Writes, Posts
    <3> QED
      BY <3>2, <3>3, <3>4
  <2> QED
    BY <2>3, <2>4, <2>5, <2>6, <2>7
<1>2. ASSUME Writes(req, fs)
      PROVE  Answer(req, fs).status = 201
  <2>1. /\ Matches("/files/", req.target) /\ req.method = <<"POST">>
        /\ PostFiles(req, fs).status = 201
    BY <1>2 DEF Writes, Posts
  <2>2. <<"GET">> # <<"POST">>
    OBVIOUS
  <2>3. RouteFiles(req, fs) = PostFiles(req, fs)
    BY <2>1, <2>2 DEF RouteFiles
  <2>4. PostFiles(req, fs) # NULL
    <3>1. PostFiles(req, fs) \in [status : Nat, close : BOOLEAN, gzip : BOOLEAN,
                                  body : Seq(Byte \cup {Junk})]
      <4>1. <<>> \in Seq(Byte \cup {Junk})
        BY EmptySeq
      <4> QED
        BY <4>1 DEF PostFiles, Plain, Response, WantsClose
    <3> QED
      BY <3>1, RoutesAssumption
  <2> QED
    BY <2>1, <2>3, <2>4, FilesAnswer
<1> QED
  BY <1>1, <1>2

\* A string is copied whole.
LEMMA DuplicatedIs ==
  ASSUME NEW s \in Seq(Symbol)
  PROVE  Duplicated(s) = s
<1>1. /\ Len(s) \in Nat /\ DOMAIN s = 1 .. Len(s) /\ s = [m \in DOMAIN s |-> s[m]]
      /\ \A m \in 1 .. Len(s) : s[m] # ZERO
  <2>1. \A m \in 1 .. Len(s) : s[m] \in Symbol
    BY ElementOfSeq
  <2>2. Len(s) \in Nat /\ DOMAIN s = 1 .. Len(s)
    BY LenProperties
  <2>3. s = [m \in DOMAIN s |-> s[m]]
    BY <2>2
  <2> QED
    BY <2>1, <2>2, <2>3, Symbols
<1>2. NextAt(s, 1, ZERO) = Len(s) + 1
  BY <1>1, NextNone
<1>3. \A m \in DOMAIN s : m <= NextAt(s, 1, ZERO)
  BY <1>1, <1>2
<1>4. Duplicated(s) = [m \in DOMAIN s |-> s[m]]
  BY <1>3 DEF Duplicated
<1> QED
  BY <1>1, <1>4

\* A GET of a file that is there and has no zero byte is answered with what it
\* holds.
LEMMA GetIs ==
  ASSUME NEW req, NEW fs, IsDirectory(fs), Matches("/files/", req.target),
         req.method = <<"GET">>, Param(req.target) \in DOMAIN fs,
         Param(req.target) \notin Directories, fs[Param(req.target)] \in Seq(Symbol)
  PROVE  /\ Answer(req, fs).status = 200
         /\ Answer(req, fs).body = fs[Param(req.target)]
<1> DEFINE content == fs[Param(req.target)]
<1>1. /\ fs # NULL /\ content \in Seq(Byte \cup {Junk}) /\ Duplicated(content) = content
      /\ content \in Seq(Symbol)
  <2>1. Symbol \subseteq Byte \cup {Junk}
    BY Symbols
  <2> HIDE DEF content
  <2>2. content \in Seq(Symbol)
    BY DEF content
  <2>3. content \in Seq(Byte \cup {Junk})
    BY <2>1, <2>2, SeqMonotonic
  <2> QED
    BY <2>2, <2>3, DuplicatedIs, RoutesAssumption DEF IsDirectory
<1>2. RouteFiles(req, fs) = Response(200, WantsClose(req), FALSE, content)
  BY <1>1 DEF RouteFiles, GetFiles, Plain
<1> HIDE DEF content
<1>3. Response(200, WantsClose(req), FALSE, content)
        \in [status : Nat, close : BOOLEAN, gzip : BOOLEAN, body : Seq(Byte \cup {Junk})]
  BY <1>1 DEF Response, WantsClose
<1>4. RouteFiles(req, fs) # NULL
  BY <1>2, <1>3, RoutesAssumption
<1>5. Answer(req, fs) = Response(200, WantsClose(req), FALSE, content)
  BY <1>2, <1>4, FilesAnswer
<1>6. /\ Answer(req, fs).status = 200 /\ Answer(req, fs).body = content
  BY <1>5 DEF Response
<1> QED
  BY <1>6 DEF content

\* The file of the request holds the first n symbols of its body.
Keeps(r, n, fs) ==
  /\ r.target # NULL /\ Matches("/files/", <<r.target>>)
  /\ Param(<<r.target>>) \notin Directories
  /\ IsDirectory(fs) /\ Param(<<r.target>>) \in DOMAIN fs
  /\ fs[Param(<<r.target>>)] = SubSeq(r.body, 1, n)
  /\ fs[Param(<<r.target>>)] \in Seq(Symbol)

\* What a request that writes leaves: the first part of its body in its file, and
\* the other files as they were.
LEMMA AfterWrite ==
  ASSUME NEW r, Whole(r), NEW fs, fs = NULL \/ IsDirectory(fs), Writes(Meant(r), fs),
         NEW n \in Writable(Meant(r), fs)
  PROVE  /\ Keeps(r, n, FilesAfter(Meant(r), fs, n))
         /\ \A q, m : WellFormed(q) /\ Keeps(q, m, fs) /\ q.target # r.target =>
                        Keeps(q, m, FilesAfter(Meant(r), fs, n))
<1> DEFINE req == Meant(r)
           name == Param(<<r.target>>)
           after == FilesAfter(req, fs, n)
           part == SubSeq(r.body, 1, n)
<1>1. /\ req.target = <<r.target>>
      /\ req.data = IF ParseLong(req.headers["Content-Length:"]) = NULL
                      THEN NULL ELSE r.body
  BY DEF Meant
<1>2. /\ r.target \in Word /\ r.target # NULL /\ r.body \in Seq(Symbol)
      /\ Len(r.body) \in Nat
  BY WholeHas DEF Whole
<1>3. /\ Matches("/files/", <<r.target>>) /\ ~PostRefused(req, fs)
      /\ name \notin Unwritable
  BY <1>1 DEF Writes, Posts, PostFiles, Plain, Response
<1>4. IsDirectory(fs) /\ req.data = r.body /\ name \notin Directories
  BY <1>1, <1>3, RoutesAssumption DEF PostRefused
<1>5. after = [f \in DOMAIN fs \cup {name} |-> IF f = name THEN part ELSE fs[f]]
  BY <1>1, <1>4 DEF FilesAfter, Stored
<1>6. name \in FileNames
  BY <1>2, <1>3, ParamIs
<1>7. PICK D \in SUBSET FileNames : fs \in [D -> Seq(Byte)]
  BY <1>4 DEF IsDirectory
<1>8. part \in Seq(Symbol) /\ part \in Seq(Byte)
  <2>1. n \in 0 .. Len(r.body)
    BY <1>4 DEF Writable
  <2>2. \A m \in 1 .. n : r.body[m] \in Symbol
    <3>1. \A m \in 1 .. n : m \in 1 .. Len(r.body)
      BY <1>2, <2>1
    <3> QED
      BY <1>2, <3>1, ElementOfSeq
  <2>3. SubSeq(r.body, 1, n) \in Seq(Symbol)
    BY <2>1, <2>2, SubSeqProperties
  <2> QED
    BY <2>3, Symbols, SeqMonotonic
<1> HIDE DEF req, name, after, part
<1>9. IsDirectory(after)
  <2>1. D \cup {name} \in SUBSET FileNames /\ DOMAIN fs = D
    BY <1>6, <1>7
  <2>2. after \in [D \cup {name} -> Seq(Byte)]
    BY <1>5, <1>7, <1>8, <2>1
  <2> QED
    BY <2>1, <2>2 DEF IsDirectory
<1>10. Keeps(r, n, after)
  BY <1>2, <1>3, <1>4, <1>5, <1>8, <1>9 DEF Keeps, name, part
<1>11. ASSUME NEW q, NEW m, WellFormed(q), Keeps(q, m, fs), q.target # r.target
       PROVE  Keeps(q, m, after)
  <2>1. q.target \in Word
    BY <1>11 DEF Keeps, WellFormed
  <2>2. Param(<<q.target>>) # name
    BY <1>2, <1>3, <1>11, <2>1, ParamOneToOne DEF Keeps, name
  <2> DEFINE other == Param(<<q.target>>)
  <2>3. /\ other \in DOMAIN fs /\ fs[other] = SubSeq(q.body, 1, m)
        /\ fs[other] \in Seq(Symbol)
    BY <1>11 DEF Keeps
  <2> HIDE DEF other
  <2>4. other \in DOMAIN after /\ after[other] = fs[other]
    BY <1>5, <2>2, <2>3 DEF other
  <2> QED
    BY <1>9, <1>11, <2>3, <2>4 DEF Keeps, other
<1> QED
  BY <1>10, <1>11 DEF after, req

\* The requests before the i-th that stored in the file of this target.
StoresOf(t, i) == {j \in 1 .. i - 1 : /\ sent[j].method = "POST"
                                      /\ sent[j].target = t
                                      /\ replies[j].status = 201}

\* A GET after such a request is answered with what was written of the body of
\* the last of them.
Served(i) ==
  LET last == Max(StoresOf(sent[i].target, i))
  IN  sent[i].method = "GET" /\ StoresOf(sent[i].target, i) # {} =>
        /\ replies[i].status = 200
        /\ replies[i].body = SubSeq(sent[last].body, 1, written[last])

\* The i-th request stored its body, and none after it stored in the same file.
Stores(i) == sent[i].method = "POST" /\ replies[i].status = 201

Latest(i) ==
  /\ Stores(i)
  /\ \A j \in i + 1 .. Len(replies) : Stores(j) => sent[j].target # sent[i].target

\* While the child reads, each file holds what the last request that stored in
\* it left there.
StoreInv ==
  network = "whole" =>
    /\ files = NULL \/ IsDirectory(files)
    /\ state = "reading" =>
         \A i \in 1 .. Len(replies) : Latest(i) => Keeps(sent[i], written[i], files)
    /\ \A i \in 1 .. Len(replies) : Served(i)

\* The numbers of the requests that are answered.
LEMMA SentAre ==
  ASSUME Turn, network = "whole"
  PROVE  /\ Len(replies) \in Nat /\ Len(sent) \in Nat /\ Len(replies) <= Len(sent)
         /\ DOMAIN replies = 1 .. Len(replies) /\ DOMAIN sent = 1 .. Len(sent)
         /\ \A i \in 1 .. Len(sent) : WellFormed(sent[i])
<1>1. PICK S : replies \in Seq(S)
  BY DEF Turn
<1>2. sent \in Seq(Requests["whole"])
  BY DEF Turn
<1>3. \A i \in 1 .. Len(sent) : sent[i] \in Requests["whole"]
  BY <1>2, ElementOfSeq
<1> QED
  BY <1>1, <1>2, <1>3, LenProperties, ConnectionAssumption DEF Turn

\* The last of the requests that stored in a file.
LEMMA LastStore ==
  ASSUME Turn, network = "whole", NEW t, NEW n, n = Len(replies),
         NEW stores, stores = StoresOf(t, n + 1), stores # {}
  PROVE  /\ Max(stores) \in 1 .. n /\ Latest(Max(stores))
         /\ sent[Max(stores)].target = t
<1>1. n \in Nat
  BY SentAre
<1>2. stores = {j \in 1 .. n : /\ sent[j].method = "POST"
                               /\ sent[j].target = t
                               /\ replies[j].status = 201}
  BY <1>1 DEF StoresOf
<1>3. stores \in SUBSET (1 .. n)
  BY <1>2
<1>4. PICK m \in stores : m = Max(stores) /\ \A j \in stores : m >= j
  BY <1>1, <1>3, LastPosition
<1>5. m \in 1 .. n /\ Stores(m) /\ sent[m].target = t
  BY <1>2 DEF Stores
<1>6. ASSUME NEW j \in m + 1 .. n, Stores(j), sent[j].target = t
      PROVE  FALSE
  <2>1. j \in 1 .. n /\ m < j
    BY <1>1, <1>5
  <2>2. j \in stores
    BY <1>2, <1>6, <2>1 DEF Stores
  <2> QED
    BY <1>1, <1>4, <1>5, <2>1, <2>2
<1>7. Latest(m)
  BY <1>5, <1>6 DEF Latest
<1> QED
  BY <1>4, <1>5, <1>7

\* What one more answer does to the invariant.
LEMMA OneMoreStored ==
  ASSUME Turn, StoreInv, network = "whole", network' = network, sent' = sent,
         NEW r, ReadsOne(r), Answered(r)
  PROVE  StoreInv'
<1>0. PICK n : n = Len(replies)
  OBVIOUS
<1> DEFINE old == StoresOf(r.target, n + 1)
<1>1. /\ n \in Nat /\ Len(sent) = n + 1 /\ r = sent[n + 1]
      /\ WellFormed(r) /\ state = "reading"
      /\ \A i \in 1 .. n : WellFormed(sent[i])
  BY <1>0, SentAre DEF ReadsOne
<1>2. PICK answer, w :
        /\ Len(replies') = n + 1 /\ replies'[n + 1] = answer
        /\ \A i \in 1 .. n : replies'[i] = replies[i]
        /\ written'[n + 1] = w
        /\ \A i \in 1 .. n : written'[i] = written[i]
        /\ \/ Refuses(r) /\ answer = Response(400, FALSE, FALSE, <<>>)
           \/ Answers(r, w) /\ answer = Answer(Meant(r), files)
  <2>1. CASE Refuses(r)
    <3>1. PICK answer : answer = Response(400, FALSE, FALSE, <<>>) /\ OneMore(answer, 0)
      BY <2>1, RoundIsOneMore
    <3> QED
      BY <1>0, <2>1, <3>1 DEF OneMore
  <2>2. ASSUME NEW w, Answers(r, w)
        PROVE  \E answer :
                 /\ Len(replies') = n + 1 /\ replies'[n + 1] = answer
                 /\ \A i \in 1 .. n : replies'[i] = replies[i]
                 /\ written'[n + 1] = w
                 /\ \A i \in 1 .. n : written'[i] = written[i]
                 /\ Answers(r, w) /\ answer = Answer(Meant(r), files)
    <3>1. PICK answer : answer = Answer(Meant(r), files) /\ OneMore(answer, w)
      BY <2>2, RoundIsOneMore
    <3> QED
      BY <1>0, <2>2, <3>1 DEF OneMore
  <2> QED
    BY <2>1, <2>2 DEF Answered
<1>3. /\ files = NULL \/ IsDirectory(files)
      /\ \A i \in 1 .. n : Latest(i) => Keeps(sent[i], written[i], files)
      /\ \A i \in 1 .. n : Served(i)
  BY <1>0, <1>1 DEF StoreInv
<1>4. \A i \in 1 .. n : Stores(i)' <=> Stores(i)
  BY <1>2 DEF Stores
<1>5. ASSUME NEW i \in 1 .. n, Latest(i)'
      PROVE  Latest(i) /\ (Stores(n + 1)' => r.target # sent[i].target)
  <2>1. /\ Stores(i)'
        /\ \A j \in i + 1 .. n + 1 : Stores(j)' => sent[j].target # sent[i].target
    BY <1>2, <1>5 DEF Latest
  <2>2. /\ n + 1 \in i + 1 .. n + 1
        /\ \A j \in i + 1 .. n : j \in i + 1 .. n + 1 /\ j \in 1 .. n
    BY <1>1
  <2> QED
    BY <1>0, <1>1, <1>4, <2>1, <2>2 DEF Latest
<1>6. ASSUME NEW t, NEW i \in 1 .. n + 1
      PROVE  StoresOf(t, i)' = StoresOf(t, i)
  <2>1. \A j \in 1 .. i - 1 : j \in 1 .. n
    BY <1>1
  <2> QED
    BY <1>2, <2>1 DEF StoresOf
<1>7. ASSUME NEW i \in 1 .. n
      PROVE  Served(i)'
  <2>1. Served(i) /\ replies'[i] = replies[i] /\ i \in 1 .. n + 1
    BY <1>1, <1>2, <1>3
  <2>2. PICK t : t = sent[i].target
    OBVIOUS
  <2> DEFINE stores == StoresOf(t, i)
  <2>3. StoresOf(t, i)' = stores
    BY <1>6, <2>1
  <2>4. stores # {} => written'[Max(stores)] = written[Max(stores)]
    <3>1. stores \in SUBSET (1 .. n)
      <4>1. \A j \in 1 .. i - 1 : j \in 1 .. n
        BY <1>1
      <4> QED
        BY <4>1 DEF StoresOf
    <3> HIDE DEF stores
    <3>2. stores # {} => Max(stores) \in 1 .. n
      BY <1>1, <3>1, LastPosition
    <3> QED
      BY <1>2, <3>2
  <2> HIDE DEF stores
  <2>5. sent[i].method = "GET" /\ stores # {} =>
          /\ replies[i].status = 200
          /\ replies[i].body = SubSeq(sent[Max(stores)].body, 1, written[Max(stores)])
    BY <2>1, <2>2 DEF Served, stores
  <2>6. StoresOf(sent[i].target, i)' = stores /\ sent'[i] = sent[i]
    BY <2>2, <2>3
  <2> QED
    BY <2>1, <2>4, <2>5, <2>6 DEF Served
<1>8. StoresOf(r.target, n + 1)' = old /\ n + 1 \in 1 .. n + 1
  BY <1>1, <1>6
<1> HIDE DEF old
<1>9. old # {} => /\ Keeps(sent[Max(old)], written[Max(old)], files)
                  /\ sent[Max(old)].target = r.target
                  /\ written'[Max(old)] = written[Max(old)]
  <2>1. old # {} => /\ Max(old) \in 1 .. n /\ Latest(Max(old))
                    /\ sent[Max(old)].target = r.target
    BY <1>0, LastStore DEF old
  <2> QED
    BY <1>2, <1>3, <2>1
<1>10. CASE Refuses(r) /\ answer = Response(400, FALSE, FALSE, <<>>)
  <2>1. /\ answer.status = 400 /\ files' = files /\ state' = "closed"
        /\ r.target = NULL
    BY <1>10 DEF Refuses, Response
  <2>2. old = {}
    BY <1>9, <2>1 DEF Keeps
  <2>3. Served(n + 1)'
    BY <1>1, <1>8, <2>2 DEF Served
  <2>4. \A i \in 1 .. n + 1 : Served(i)'
    BY <1>1, <1>7, <2>3
  <2> QED
    BY <1>2, <1>3, <2>1, <2>4 DEF StoreInv
<1>11. CASE Answers(r, w) /\ answer = Answer(Meant(r), files)
  <2> DEFINE req == Meant(r)
  <2>1. /\ answer = Answer(req, files) /\ files' = FilesAfter(req, files, w)
        /\ w \in Writable(req, files) /\ Whole(r)
    BY <1>1, <1>11 DEF Answers, Whole
  <2>2. req.method = <<r.method>> /\ req.target = <<r.target>>
    BY DEF Meant
  <2> HIDE DEF req
  <2>3. Served(n + 1)'
    <3> SUFFICES ASSUME r.method = "GET", old # {}
                 PROVE  /\ answer.status = 200
                        /\ answer.body
                             = SubSeq(sent[Max(old)].body, 1, written[Max(old)])
      BY <1>1, <1>2, <1>8, <1>9 DEF Served
    <3>1. PICK s, m : /\ s = sent[Max(old)] /\ m = written[Max(old)]
                      /\ Keeps(s, m, files) /\ s.target = r.target
      BY <1>9
    <3>2. /\ IsDirectory(files) /\ Matches("/files/", req.target)
          /\ Param(req.target) \in DOMAIN files
          /\ Param(req.target) \notin Directories
          /\ files[Param(req.target)] \in Seq(Symbol)
          /\ files[Param(req.target)] = SubSeq(s.body, 1, m)
      BY <2>2, <3>1 DEF Keeps
    <3>3. req.method = <<"GET">>
      BY <2>2
    <3>4. /\ Answer(req, files).status = 200
          /\ Answer(req, files).body = files[Param(req.target)]
      BY <3>2, <3>3, GetIs
    <3> QED
      BY <2>1, <3>1, <3>2, <3>4
  <2>4. CASE Writes(req, files)
    <3>1. /\ Keeps(r, w, files')
          /\ \A q, m : WellFormed(q) /\ Keeps(q, m, files) /\ q.target # r.target =>
                         Keeps(q, m, files')
      BY <1>3, <2>1, <2>4, AfterWrite DEF req
    <3>2. Stores(n + 1)'
      <4>1. answer.status = 201
        BY <2>1, <2>4, WritesIs
      <4>2. r.method = "POST"
        BY <2>2, <2>4 DEF Writes, Posts
      <4> QED
        BY <1>1, <1>2, <4>1, <4>2 DEF Stores
    <3>3. ASSUME NEW i \in 1 .. n, Latest(i)'
          PROVE  Keeps(sent[i], written'[i], files')
      <4>1. /\ Keeps(sent[i], written[i], files) /\ WellFormed(sent[i])
            /\ sent[i].target # r.target /\ written'[i] = written[i]
        BY <1>1, <1>2, <1>3, <1>5, <3>2, <3>3
      <4> QED
        BY <3>1, <4>1
    <3>4. \A i \in 1 .. n + 1 : Latest(i)' => Keeps(sent[i], written'[i], files')
      BY <1>1, <1>2, <3>1, <3>3
    <3>5. IsDirectory(files')
      BY <3>1 DEF Keeps
    <3>6. \A i \in 1 .. n + 1 : Served(i)'
      BY <1>1, <1>7, <2>3
    <3> QED
      BY <1>2, <3>4, <3>5, <3>6 DEF StoreInv
  <2>5. CASE ~Writes(req, files)
    <3>1. files' = files
      BY <2>1, <2>5 DEF FilesAfter
    <3>2. ~Stores(n + 1)'
      <4>1. answer.status # 201
        BY <2>1, <2>5, WritesIs
      <4> QED
        BY <1>2, <4>1 DEF Stores
    <3>3. \A i \in 1 .. n + 1 : Latest(i)' => Keeps(sent[i], written'[i], files')
      <4>1. ~Latest(n + 1)'
        BY <3>2 DEF Latest
      <4> QED
        BY <1>1, <1>2, <1>3, <1>5, <3>1, <4>1
    <3>4. \A i \in 1 .. n + 1 : Served(i)'
      BY <1>1, <1>7, <2>3
    <3> QED
      BY <1>2, <1>3, <3>1, <3>3, <3>4 DEF StoreInv
  <2> QED
    BY <2>4, <2>5
<1> QED
  BY <1>2, <1>10, <1>11

\* A step that answers nothing keeps it.
LEMMA NothingStored ==
  ASSUME Turn, StoreInv, network' = network, replies' = replies, written' = written,
         sent' = sent \/ (\E r : sent' = Append(sent, r)),
         state' = "reading" => files' = files /\ state = "reading",
         network = "whole" /\ files' # files => files' = NULL \/ IsDirectory(files')
  PROVE  StoreInv'
<1> SUFFICES ASSUME network = "whole" PROVE StoreInv'
  BY DEF StoreInv
<1>0. PICK n : n = Len(replies)
  OBVIOUS
<1>1. /\ n \in Nat /\ Len(sent) \in Nat /\ n <= Len(sent)
      /\ sent \in Seq(Requests["whole"])
  BY <1>0, SentAre DEF Turn
<1>2. \A i \in 1 .. n : sent'[i] = sent[i]
  <2>1. ASSUME NEW r, sent' = Append(sent, r)
        PROVE  \A i \in 1 .. n : sent'[i] = sent[i]
    <3>1. \A i \in 1 .. Len(sent) : Append(sent, r)[i] = sent[i]
      BY <1>1, AppendAny
    <3>2. \A i \in 1 .. n : i \in 1 .. Len(sent)
      BY <1>1
    <3> QED
      BY <2>1, <3>1, <3>2
  <2> QED
    BY <2>1
<1>3. \A i \in 1 .. n : Stores(i)' <=> Stores(i)
  BY <1>2 DEF Stores
<1>4. ASSUME NEW i \in 1 .. n
      PROVE  Latest(i)' <=> Latest(i)
  <2>1. \A j \in i + 1 .. n : j \in 1 .. n
    BY <1>1
  <2> QED
    BY <1>0, <1>2, <1>3, <2>1 DEF Latest
<1>5. ASSUME NEW i \in 1 .. n
      PROVE  Served(i)'
  <2>1. \A j \in 1 .. i - 1 : j \in 1 .. n
    BY <1>1
  <2>2. PICK t : t = sent[i].target /\ t = sent'[i].target
    BY <1>2
  <2>3. StoresOf(t, i)' = StoresOf(t, i)
    BY <1>2, <2>1 DEF StoresOf
  <2>4. Served(i)
    BY <1>0 DEF StoreInv
  <2>5. ASSUME StoresOf(t, i) # {}
        PROVE  Max(StoresOf(t, i)) \in 1 .. n
    <3>1. StoresOf(t, i) \in SUBSET (1 .. n)
      BY <2>1 DEF StoresOf
    <3> QED
      BY <1>1, <2>5, <3>1, LastPosition
  <2> DEFINE stores == StoresOf(t, i)
  <2>6. stores # {} => sent'[Max(stores)] = sent[Max(stores)]
    BY <1>2, <2>5
  <2>7. StoresOf(t, i)' = stores
    BY <2>3
  <2> HIDE DEF stores
  <2>8. sent[i].method = "GET" /\ stores # {} =>
          /\ replies[i].status = 200
          /\ replies[i].body = SubSeq(sent[Max(stores)].body, 1, written[Max(stores)])
    BY <2>2, <2>4 DEF Served, stores
  <2> QED
    BY <1>2, <2>2, <2>6, <2>7, <2>8 DEF Served
<1>6. files' = NULL \/ IsDirectory(files')
  BY DEF StoreInv
<1>7. state' = "reading" =>
        \A i \in 1 .. n : Latest(i)' => Keeps(sent'[i], written[i], files')
  BY <1>0, <1>2, <1>4 DEF StoreInv
<1> QED
  BY <1>0, <1>5, <1>6, <1>7 DEF StoreInv

LEMMA StoreStep == Turn /\ StoreInv /\ [Next]_vars => StoreInv'
<1> SUFFICES ASSUME Turn, StoreInv, [Next]_vars PROVE StoreInv'
  OBVIOUS
<1>1. network' = network
  BY DEF Next, Child, ServeBad, ServeRequest, ServeFault, SendKilled, Recv,
         RecvHangUp, Network, Deliver, HangUp, SendRequest, vars
<1>2. CASE network # "whole"
  BY <1>1, <1>2 DEF StoreInv
<1>3. CASE UNCHANGED vars \/ RecvHangUp \/ HangUp \/ Network
  BY <1>1, <1>3, NothingStored DEF vars, RecvHangUp, HangUp, Network, Deliver
<1>4. ASSUME NEW r \in Requests[network], SendRequest(r)
      PROVE  StoreInv'
  BY <1>1, <1>4, NothingStored DEF SendRequest
<1>5. CASE network = "whole" /\ (ServeBad \/ ServeRequest \/ ServeFault \/ SendKilled)
  <2>1. sent' = sent
    BY <1>5 DEF ServeBad, ServeRequest, ServeFault, SendKilled, Recv
  <2>2. PICK r : ReadsOne(r) /\ (Answered(r) \/ Dies(r))
    BY <1>5, RoundIs
  <2>3. CASE Answered(r)
    BY <1>1, <1>5, <2>1, <2>2, <2>3, OneMoreStored
  <2>4. CASE Dies(r)
    <3>0. state' = "killed" /\ replies' = replies /\ written' = written
      BY <2>4 DEF Dies
    <3>1. \/ files' = files
          \/ r.target # NULL /\ \E n \in Writable(Meant(r), files) :
                                 files' = FilesAfter(Meant(r), files, n)
      <4>1. RequestFromBuffer(Chunk) = {IF r.target = NULL THEN NULL ELSE Meant(r)}
        BY <2>2 DEF ReadsOne
      <4>2. r.target # NULL => Meant(r) # NULL
        BY <2>2, MeantIs DEF ReadsOne, Whole
      <4>3. ServeFault \/ SendKilled
        BY <1>5, <3>0 DEF ServeBad, ServeRequest
      <4> QED
        BY <4>1, <4>2, <4>3 DEF ServeFault, SendKilled
    <3>2. files' # files => files' = NULL \/ IsDirectory(files')
      <4> SUFFICES ASSUME files' # files PROVE IsDirectory(files')
        OBVIOUS
      <4>1. PICK n \in Writable(Meant(r), files) :
              /\ r.target # NULL /\ files' = FilesAfter(Meant(r), files, n)
              /\ Writes(Meant(r), files)
        BY <3>1 DEF FilesAfter
      <4>2. Whole(r) /\ (files = NULL \/ IsDirectory(files))
        BY <1>5, <2>2, <4>1 DEF ReadsOne, Whole, StoreInv
      <4>3. Keeps(r, n, FilesAfter(Meant(r), files, n))
        BY <4>1, <4>2, AfterWrite
      <4> QED
        BY <4>1, <4>3 DEF Keeps
    <3> QED
      BY <1>1, <2>1, <3>0, <3>2, NothingStored
  <2> QED
    BY <2>2, <2>3, <2>4
<1> QED
  BY <1>2, <1>3, <1>4, <1>5 DEF Next, Child

LEMMA StoreInit == Init => StoreInv
<1> SUFFICES ASSUME Init, network = "whole" PROVE StoreInv
  BY DEF StoreInv
<1>1. Len(replies) = 0
  BY EmptySeq DEF Init
<1>2. files = NULL \/ IsDirectory(files)
  BY ConnectionAssumption DEF Init
<1> QED
  BY <1>1, <1>2 DEF StoreInv

\* A GET of a file returns what the file received of the body of the last POST
\* of it that was answered with 201 on this connection: the whole of it unless
\* the write failed, never what the file held before, nor a mixture.
THEOREM StoredServed == Spec => []StoredIsServed
<1>1. Turn /\ StoreInv => StoredIsServed
  <2> SUFFICES ASSUME Turn, StoreInv, network = "whole",
                      NEW i \in DOMAIN replies \cap DOMAIN sent
               PROVE  Served(i)
    BY DEF StoredIsServed, Served, StoresOf
  <2>1. i \in 1 .. Len(replies)
    BY SentAre
  <2> QED
    BY <2>1 DEF StoreInv
<1>2. Turn /\ StoreInv /\ [Next]_vars => Turn' /\ StoreInv'
  BY TurnStep, StoreStep
<1>3. Init => Turn /\ StoreInv
  BY TurnInit, StoreInit
<1> QED
  BY <1>1, <1>2, <1>3, PTL DEF Spec

=============================================================================
