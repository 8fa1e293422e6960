------------------------------ MODULE Response ------------------------------
(***************************************************************************)
(* The builder and the serialiser of src/src/response.c, down to the sizes  *)
(* they allocate and the bytes they write, and how main.c sends the result. *)
(* A byte is named by the text it is of, so that texts have their real      *)
(* lengths.  The order of a map's headers is that of insertion.  The calls  *)
(* are those the program makes, at most one of each, in any order.          *)
(***************************************************************************)
EXTENDS Integers, SequencesExt

CONSTANTS
  NULL,
  Messages,   \* the bodies: texts, and files, which may hold zero bytes
  Upto,       \* how many bytes of each come before its first zero byte
  Gzip,       \* their compressed forms
  Longest     \* the length of the longest

VARIABLES
  builder,    \* struct http_response_builder, NULL before it is created
  response,   \* struct http_response
  buffer,     \* what http_response_to_buffer returned
  sent,       \* the bytes of send()
  asked       \* for the properties: what the callers asked for

vars == <<builder, response, buffer, sent, asked>>

-----------------------------------------------------------------------------
(* Bytes and blocks.                                                       *)

Statuses == {200, 201, 400, 404, 500}

\* The lengths of bodies.
Sizes == 0 .. Longest

\* What the builder's map may hold, and its data.
Names == {"Content-Type", "Content-Length", "Content-Encoding", "Connection"}

Values == {"text/plain", "application/octet-stream", "gzip", "close"}
          \cup {ToString(n) : n \in Sizes}

HeaderFields == [key : Names, value : Values]

Bodies == [bytes : Seq(Messages \cup {Gzip[m] : m \in Messages}),
           terminated : BOOLEAN]

\* struct http_response_builder
Builders ==
  [status : Statuses, headers : {NULL} \cup Seq(HeaderFields),
   data : {NULL} \cup Bodies, close : BOOLEAN]

Bytes(text) == [i \in 1 .. Len(text) |-> text]
CRLF == <<"CR", "LF">>
NUL == "NUL"
STRAY == "?"   \* a byte past a block

\* malloc_usable_size: a chunk is a multiple of 16 bytes, 8 of them a header.
Usable(size) == ((size + 23) \div 16) * 16 - 8

Reason(status) ==
  CASE status = 200 -> "OK"
    [] status = 201 -> "Created"
    [] status = 400 -> "Bad Request"
    [] status = 404 -> "Not Found"
    [] status = 500 -> "Internal Server Error"

\* What the status line and the field lines are made of.
Texts == {"HTTP/1.1", " ", ": "} \cup {Reason(status) : status \in Statuses}
         \cup {ToString(status) : status \in Statuses} \cup Names \cup Values

\* What is assumed of the constants.
ConstantsAssumption ==
  /\ Longest \in Nat
  /\ Messages \subseteq STRING /\ Gzip \in [Messages -> STRING]
  /\ \A m \in Messages : Len(m) \in Sizes /\ Len(Gzip[m]) \in Sizes
  /\ Upto \in [Messages -> Nat] /\ \A m \in Messages : Upto[m] <= Len(m)
  /\ NULL \notin Messages /\ NULL \notin BOOLEAN /\ NULL \notin Bodies
  /\ NULL \notin Seq(HeaderFields) /\ NULL \notin Builders

\* What is so of these texts; the prover does not know a string, nor its length.
TextsAssumption ==
  /\ Texts \cup {"CR", "LF", NUL, STRAY} \subseteq STRING
  /\ \A t \in Texts : Len(t) \in Nat
  /\ NUL \notin Texts /\ STRAY \notin Texts
  /\ Len("HTTP/1.1") = 8 /\ Len(" ") = 1 /\ Len(": ") = 2
  /\ Len("Connection") = 10 /\ Len("close") = 5

ReasonsAssumption ==
  \A status \in Statuses : /\ status = 400 => Len(Reason(status)) = 11
                           /\ status = 404 => Len(Reason(status)) = 9

NumbersAssumption ==
  /\ \A status \in Statuses : Len(ToString(status)) = 3
  /\ \A m, n \in Sizes : ToString(m) = ToString(n) => m = n

ResponseAssumption ==
  ConstantsAssumption /\ TextsAssumption /\ ReasonsAssumption /\ NumbersAssumption

Header(key, value) == [key |-> key, value |-> value]

Connection == Header("Connection", "close")

\* traverse_hashmap, for every node
Lines(headers) ==
  FlattenSeq([i \in DOMAIN headers |->
    Bytes(headers[i].key) \o Bytes(": ") \o Bytes(headers[i].value) \o CRLF])

\* The value of a header, parse_long of which gives the number it was made of.
Number(headers, key) ==
  LET i == SelectInSeq(headers, LAMBDA h : h.key = key)
  IN  IF i = 0 THEN NULL
      ELSE CHOOSE n \in Sizes : ToString(n) = headers[i].value

\* strdup(), of the option BODY: what comes before the first zero byte.
Duplicate(m) == [bytes |-> [i \in 1 .. Upto[m] |-> m], terminated |-> TRUE]

\* A text has no zero byte.
IsText(m) == Upto[m] = Len(m)

\* The block of strdup ends with a zero byte; that of realloc has none.
ByteAt(data, i) ==
  CASE i <= Len(data.bytes) -> data.bytes[i]
    [] i = Len(data.bytes) + 1 /\ data.terminated -> NUL
    [] OTHER -> STRAY

-----------------------------------------------------------------------------

Init ==
  /\ builder = NULL /\ response = NULL /\ buffer = NULL /\ sent = NULL
  /\ asked = [status |-> 0, body |-> NULL, gzip |-> NULL, close |-> FALSE,
              exact |-> TRUE]

\* create_http_response_builder; main.c sends what it makes itself up to the
\* first zero byte, what the routes make up to its size.
Create(status, exact) ==
  /\ builder = NULL
  /\ exact \/ status \in {400, 404}
  /\ builder' = [status |-> status, headers |-> NULL, data |-> NULL,
                 close |-> FALSE]
  /\ asked' = [asked EXCEPT !.status = status, !.exact = exact]
  /\ UNCHANGED <<response, buffer, sent>>

Building == builder # NULL /\ response = NULL

\* The option HEADERS
WithHeaders(b, headers) ==
  IF b.close THEN Append(headers, Connection) ELSE headers

\* http_response_builder_plain_message, of a text: the options HEADERS and BODY.
\* get_files does the same with another type, the length of the file and what is
\* in it.
PlainMessage(type, message) ==
  /\ Building /\ asked.exact
  /\ builder.status = 200 /\ asked.body = NULL
  /\ type = "text/plain" => IsText(message)
  /\ LET headers == << Header("Content-Type", type),
                       Header("Content-Length", ToString(Len(message))) >>
     IN  builder' = [builder EXCEPT
                       !.headers = WithHeaders(builder, headers),
                       !.data = Duplicate(message)]
  /\ asked' = [asked EXCEPT !.body = message]
  /\ UNCHANGED <<response, buffer, sent>>

\* The option CLOSE
Close ==
  /\ Building /\ ~builder.close
  /\ builder' = [builder EXCEPT !.close = TRUE,
                   !.headers = IF @ = NULL THEN NULL ELSE Append(@, Connection)]
  /\ asked' = [asked EXCEPT !.close = TRUE]
  /\ UNCHANGED <<response, buffer, sent>>

\* Mutant: the Content-Length of the message is not deleted.
RelabelledTwice(headers, length) ==
  Append(Append(headers, Header("Content-Length", ToString(length))),
         Header("Content-Encoding", "gzip"))

Relabelled(headers, length) ==
  LET others == RemoveFirstMatch(headers, LAMBDA h : h.key = "Content-Length")
  IN  Append(Append(others, Header("Content-Length", ToString(length))),
             Header("Content-Encoding", "gzip"))

\* Only the handler of /echo, of a text, asks for it.
MayCompress ==
  /\ Building /\ asked.gzip = NULL
  /\ builder.data # NULL /\ builder.headers # NULL
  /\ Number(builder.headers, "Content-Length") # NULL /\ IsText(asked.body)

\* The option COMPRESSION_GZIP; gzip_compress returns this output, or fails.
Compress(output) ==
  /\ MayCompress
  /\ builder' =
       IF output = NULL THEN builder
       ELSE [builder EXCEPT
               !.headers = Relabelled(@, Len(output)),
               !.data = [bytes |-> output, terminated |-> FALSE]]
  /\ asked' = [asked EXCEPT !.gzip = output # NULL]
  /\ UNCHANGED <<response, buffer, sent>>

-----------------------------------------------------------------------------

StatusLineSize(status) == Len("HTTP/1.1") + 1 + 4 + Len(Reason(status)) + 2

\* map_to_buffer_size
FieldSize(headers) == Len(Lines(headers)) + 2

\* Mutant: the loop over the body ends two bytes early.
FieldsShort(headers, data, n) ==
  Lines(headers) \o CRLF \o [i \in 1 .. n - 1 |-> ByteAt(data, i)]

\* The field lines and the body: one byte more than is counted is copied.
Fields(headers, data, n) ==
  Lines(headers) \o CRLF \o [i \in 1 .. n + 1 |-> ByteAt(data, i)]

\* http_response_builder_construct.  The zero byte that strncat writes is one past
\* a block of map_to_buffer_size bytes, where strdup reads it.
Construct ==
  /\ Building
  /\ LET headers == IF builder.close /\ builder.headers = NULL
                      THEN <<Connection>> ELSE builder.headers
         made(fields, length, total) ==
           [status |-> builder.status, field_line |-> fields,
            field_line_len |-> length,
            total_size |-> StatusLineSize(builder.status) + total]
     IN  /\ builder' = [builder EXCEPT !.headers = headers]
         /\ response' =
              CASE headers = NULL -> made(<<>>, 0, 2)
                [] headers # NULL /\ builder.data = NULL ->
                     made(Lines(headers) \o CRLF, FieldSize(headers),
                          FieldSize(headers) + 2)
                [] OTHER ->
                     LET n == Number(headers, "Content-Length")
                     IN  made(Fields(headers, builder.data, n),
                              FieldSize(headers) + n, FieldSize(headers) + n)
  /\ UNCHANGED <<buffer, sent, asked>>

\* http_response_to_buffer: total_size zero bytes, and over them, from the
\* first on and as far as they go, these.
ToBuffer ==
  /\ response # NULL /\ buffer = NULL
  /\ buffer' =
       Bytes("HTTP/1.1") \o Bytes(" ") \o Bytes(ToString(response.status))
       \o Bytes(" ") \o Bytes(Reason(response.status)) \o CRLF
       \o SubSeq(response.field_line, 1, response.field_line_len) \o CRLF
  /\ UNCHANGED <<builder, response, sent, asked>>

\* The memory from the buffer to the end of its chunk, and a byte more.
Memory ==
  LET end == Max({Usable(response.total_size), Len(buffer)})
  IN  [i \in 1 .. end + 1 |-> CASE i <= Len(buffer) -> buffer[i]
                                [] i \in Len(buffer) + 1 .. end -> NUL
                                [] OTHER -> STRAY]

\* strlen(), which may run into what is not the buffer's.
Strlen ==
  Min({i \in DOMAIN Memory : Memory[i] \in {NUL, STRAY}})
  - (IF NUL \in Range(Memory) THEN 1 ELSE 0)

\* Mutant: everything is sent up to the first zero byte.
LengthByStrlen == Strlen

\* How much of it is sent.
Length == IF asked.exact THEN response.total_size ELSE Strlen

Send ==
  /\ buffer # NULL /\ sent = NULL
  /\ sent' = SubSeq(Memory, 1, Length)
  /\ UNCHANGED <<builder, response, buffer, asked>>

\* Every call but that of gzip_compress
Call ==
  \/ Close \/ Construct \/ ToBuffer \/ Send
  \/ \E status \in Statuses, exact \in BOOLEAN :
       Create(status, exact)
  \/ \E type \in {"text/plain", "application/octet-stream"}, m \in Messages :
       PlainMessage(type, m)

Next ==
  \/ Call
  \/ MayCompress /\ \E output \in {NULL, Bytes(Gzip[asked.body])} : Compress(output)

Spec == Init /\ [][Next]_vars

-----------------------------------------------------------------------------
(* Properties.                                                             *)

\* The state has its types; the field lines are at least as many bytes as the
\* serialiser will read of them, all of them written.
TypeOK ==
  /\ builder \in {NULL} \cup Builders
  /\ response # NULL => /\ response.total_size \in Nat
                        /\ response.field_line_len <= Len(response.field_line)
  /\ buffer # NULL => buffer \in Seq(STRING)
  /\ sent # NULL => sent \in Seq(STRING)

\* The headers say what the callers asked for, in whatever order they asked:
\* one Content-Length, of the body as it is sent; Content-Encoding if and only
\* if it was compressed; Connection if and only if it is to be closed.
HeadersAsAsked ==
  response # NULL =>
    LET headers == IF builder.headers = NULL THEN <<>> ELSE builder.headers
        never(key) == \A i \in DOMAIN headers : headers[i].key # key
        once(key, value) == \E i \in DOMAIN headers :
          /\ headers[i] = Header(key, value)
          /\ \A j \in DOMAIN headers : headers[j].key = key => j = i
        body == IF asked.gzip = TRUE THEN Gzip[asked.body] ELSE asked.body
    IN  /\ IF asked.body = NULL THEN never("Content-Length")
                                ELSE once("Content-Length", ToString(Len(body)))
        /\ IF asked.gzip = TRUE THEN once("Content-Encoding", "gzip")
                                ELSE never("Content-Encoding")
        /\ IF asked.close THEN once("Connection", "close")
                          ELSE never("Connection")

\* A file as it is sent: its bytes up to the first zero byte, that one, and then
\* what is behind the copy instead of the rest of the file.
Delivered(m) ==
  [i \in 1 .. Len(m) |-> CASE i <= Upto[m] -> m
                          [] i = Upto[m] + 1 -> NUL
                          [] OTHER -> STRAY]

\* A client reads, after the status line and the headers, the empty line and as
\* many bytes as were announced, and these are all that is sent: nothing a later
\* response would be taken to begin with, and of a text or its compressed form,
\* or a file without a zero byte, no byte of a block beyond its end, although
\* construct copies one and the serialiser writes two past its block.  Of a file
\* with a zero byte what follows that byte is lost, and as many bytes past the
\* copy are sent in its place.  Only a response that closes the connection and
\* has no body is followed by an empty line more.
SentAsMeant ==
  sent # NULL =>
    LET lines == IF builder.headers = NULL THEN <<>> ELSE Lines(builder.headers)
        body == CASE asked.body = NULL -> <<>>
                  [] asked.body # NULL /\ asked.gzip = TRUE ->
                       Bytes(Gzip[asked.body])
                  [] OTHER -> Delivered(asked.body)
        status == Bytes("HTTP/1.1") \o Bytes(" ") \o Bytes(ToString(asked.status))
                  \o Bytes(" ") \o Bytes(Reason(asked.status)) \o CRLF
        message == status \o lines \o CRLF \o body
    IN  \/ sent = message
        \/ asked.close /\ asked.body = NULL /\ sent = message \o CRLF

=============================================================================
