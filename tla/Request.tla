------------------------------ MODULE Request ------------------------------
(***************************************************************************)
(* How src/src/request.c reads a request out of the bytes one recv()        *)
(* returned.  A buffer is a sequence of symbols: SP, NL (the bytes CR LF),  *)
(* ZERO (a zero byte) and words, a word being a run of other bytes.  The    *)
(* name of a header is one word that ends with its colon.  What the code    *)
(* counts in bytes (a body, the room for a header) is counted in symbols.   *)
(***************************************************************************)
EXTENDS Integers, Sequences, FiniteSets, FiniteSetsExt

CONSTANTS
  Word,          \* the words
  NULL,          \* the null pointer
  FAULT,         \* the process is killed by the memory it touched
  Junk,          \* a byte from outside the string
  HeaderNames,   \* the words that end with a colon
  Numeral,       \* the words parse_long accepts, each with its value
  FieldSize      \* the room of key[] and value[] in parse_headers: 255

SP == "SP"
NL == "NL"
ZERO == "ZERO"

\* What a string is made of, and what a file or a buffer is.
Symbol == Word \cup {SP, NL}
Byte == Symbol \cup {ZERO}

\* The fields of struct HttpRequest, of a request that was read whole.
HttpRequest ==
  [method : Seq(Symbol), target : Seq(Symbol),
   headers : [HeaderNames -> Seq(Symbol) \cup {NULL}],
   data : Seq(Symbol) \cup {NULL}]

ASSUME RequestAssumption ==
  /\ \A w \in DOMAIN Numeral : Numeral[w] \in Int
  /\ DOMAIN Numeral \cap HeaderNames = {}
  /\ {"Connection:", "Content-Length:", "Accept-Encoding:", "User-Agent:"}
       \subseteq HeaderNames
  /\ HeaderNames \subseteq Word /\ {SP, NL, ZERO} \cap Word = {}
  /\ NULL # FAULT /\ FAULT \notin Seq(Symbol)
  /\ {NULL, FAULT} \cap HttpRequest = {}
  /\ NULL \notin [key : Seq(Symbol), value : Seq(Symbol)]
  /\ FieldSize \in Nat \ {0}

Occurrences(x, s) == {i \in DOMAIN s : s[i] = x}

\* Where x next occurs at i or after it; one past the end when it does not.
NextAt(s, i, x) ==
  Min({j \in Occurrences(x, s) : j >= i} \cup {Len(s) + 1})

\* The first position at i or after it that does not hold a space.
SkipSpaces(s, i) ==
  Min({j \in DOMAIN s : j >= i /\ s[j] # SP} \cup {Len(s) + 1})

\* strtok(s, " ") resumed at i: the token ("" when there is none) and where
\* the next call resumes.
Token(s, i) ==
  LET first == SkipSpaces(s, i)
      last  == NextAt(s, first, SP)
  IN  [text |-> SubSeq(s, first, last - 1), next |-> last + 1]

-----------------------------------------------------------------------------
(* parse_headers()                                                         *)

LineStarts(text) == {1} \cup {i + 1 : i \in Occurrences(NL, text)}

LineEnd(text, i) == NextAt(text, i, NL)

\* Mutant: the loop does not stop at the empty line, it reads on in the body.
HeadersEndAtEof(text) ==
  Min({i \in LineStarts(text) : LineEnd(text, i) > Len(text)})

\* Where the loop stops: at the first line that is empty or has no end.
HeadersEnd(text) ==
  Min({i \in LineStarts(text) : LineEnd(text, i) \in {i, Len(text) + 1}})

\* What snprintf leaves of a key or a value in 256 bytes.
Cut(text) == IF Len(text) <= FieldSize THEN text ELSE SubSeq(text, 1, FieldSize)

\* The key and the value of the line at i, NULL when it has no colon.
Field(text, i) ==
  LET colons == {j \in i .. LineEnd(text, i) - 1 : text[j] \in HeaderNames}
  IN  IF colons = {} THEN NULL
      ELSE [key   |-> Cut(SubSeq(text, i, Min(colons))),
            value |-> Cut(SubSeq(text, SkipSpaces(text, Min(colons) + 1),
                                 LineEnd(text, i) - 1))]

\* Mutant: a later header of the same name hides the earlier one.
HeadersLastWins(text) ==
  LET lines(n) == {i \in LineStarts(text) :
                     /\ i < HeadersEnd(text)
                     /\ Field(text, i) # NULL
                     /\ Field(text, i).key = <<n>>}
  IN  [n \in HeaderNames |-> IF lines(n) = {} THEN NULL
                             ELSE Field(text, Max(lines(n))).value]

\* What Hashmap_get_cstr finds for each name: of the headers of that name the
\* first, for Hashmap_set never replaces an entry.
Headers(text) ==
  LET lines(n) == {i \in LineStarts(text) :
                     /\ i < HeadersEnd(text)
                     /\ Field(text, i) # NULL
                     /\ Field(text, i).key = <<n>>}
  IN  [n \in HeaderNames |-> IF lines(n) = {} THEN NULL
                             ELSE Field(text, Min(lines(n))).value]

-----------------------------------------------------------------------------
(* http_request_from_buffer()                                              *)

\* parse_long: NULL for what strtol does not consume whole, the empty string
\* included.
ParseLong(value) ==
  IF value # NULL /\ Len(value) = 1 /\ value[1] \in DOMAIN Numeral
    THEN Numeral[value[1]] ELSE NULL

\* What calloc and memcpy(data, strtok(body + 2, ""), n) can leave.  They take
\* for granted that an empty line and n bytes follow the headers: a body that
\* has not arrived is a null pointer, one that has arrived in part is read past
\* its end, and without the empty line body + 2 is inside or past the string.
Data(text, n) ==
  LET end  == HeadersEnd(text)
      body == SubSeq(text, end + 1, Len(text))
      junk(k) == [i \in 1 .. k |-> Junk]
  IN  CASE n < 0 -> {FAULT}
        [] n = 0 -> {<<>>}
        [] n > 0 /\ LineEnd(text, end) # end -> {junk(n), FAULT}
        [] n > 0 /\ LineEnd(text, end) = end ->
             IF body = <<>> THEN {FAULT}
             ELSE IF Len(body) >= n THEN {SubSeq(body, 1, n)}
             ELSE {body \o junk(n - Len(body)), FAULT}

\* The outcomes for the string str: NULL when there is no method, no target or
\* nothing after them; else a request, or FAULT.
RequestFromString(str) ==
  LET method == Token(str, 1)
      target == Token(str, method.next)
      text   == SubSeq(str, LineEnd(str, target.next) + 1, Len(str))
      length == ParseLong(Headers(text)["Content-Length:"])
      request(d) == [method |-> method.text, target |-> target.text,
                     headers |-> Headers(text), data |-> d]
  IN  IF method.text = <<>> \/ target.text = <<>> \/ target.next > Len(str)
        THEN {NULL}
      ELSE IF length = NULL
        THEN {request(NULL)}
      ELSE {IF d = FAULT THEN FAULT ELSE request(d) : d \in Data(text, length)}

\* The string that starts where buf does: it ends before the first zero byte.
CString(buf) == SubSeq(buf, 1, NextAt(buf, 1, ZERO) - 1)

\* http_request_from_buffer copies strlen(buffer) bytes and reads the copy.
RequestFromBuffer(buf) == RequestFromString(CString(buf))

=============================================================================
