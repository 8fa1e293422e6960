----------------------------- MODULE Ownership -----------------------------
(***************************************************************************)
(* Who frees what while a child answers requests: the blocks of memory and  *)
(* the FILEs that request.c, hashmap.c, response.c, routes.c and the loop of *)
(* main.c allocate, hand on and free.  A heap is passed through the calls;   *)
(* a block is named by the path of the pointers to it.  Allocations succeed. *)
(***************************************************************************)
EXTENDS Sequences, FiniteSetsExt

VARIABLES
  pc,         \* where the child is
  request,    \* what matters of the request
  directory,  \* whether the program has one
  heap

vars == <<pc, request, directory, heap>>

Names == {"Connection", "Content-Length", "Accept-Encoding", "User-Agent"}
Paths == {"/", "/user-agent", "/echo/", "/files/", "other"}

\* close: Connection is "close"; number: Content-Length is one; gzip: accepted.
Requests ==
  {r \in [method : {"GET", "POST", "PUT"}, path : Paths, headers : SUBSET Names,
          close : BOOLEAN, number : BOOLEAN, gzip : BOOLEAN] :
     /\ r.close => "Connection" \in r.headers
     /\ r.number => "Content-Length" \in r.headers
     /\ r.gzip => "Accept-Encoding" \in r.headers}

NoBuilder == [headers |-> FALSE, data |-> FALSE, close |-> FALSE]

-----------------------------------------------------------------------------
(* The heap: the blocks that are allocated; the entries of the three maps; the *)
(* builder's pointers; and the blocks that were freed or used while they were  *)
(* not allocated, or allocated anew while nobody had freed them.              *)

New(h, blocks) == [h EXCEPT !.live = @ \cup blocks, !.wrong = @ \cup (h.live \cap blocks)]
Use(h, blocks) == [h EXCEPT !.wrong = @ \cup (blocks \ h.live)]
Free(h, blocks) == [Use(h, blocks) EXCEPT !.live = @ \ blocks]

\* A bstring: the struct and its characters.
Str(x) == {x, Append(x, "chars")}

-----------------------------------------------------------------------------
(* hashmap.c                                                               *)

\* The struct, and all its arrays.
Map(m) == {<<m>>, <<m, "buckets">>}

Entry(m, name) == [name |-> name, key |-> <<m, name, "key">>,
                   data |-> <<m, name, "data">>]
Node(e) == Append(e.data, "node")

HashmapCreate(h, m) == [New(h, Map(m)) EXCEPT !.maps[m] = {}]

HashmapSet(h, m, e) ==
  [New(Use(h, Map(m)), {Node(e)}) EXCEPT !.maps[m] = @ \cup {e}]

\* Hashmap_set with a key and data made for it
SetStrings(h, m, name) ==
  LET e == Entry(m, name)
  IN  HashmapSet(New(h, Str(e.key) \cup Str(e.data)), m, e)

\* What the caller of Hashmap_get_cstr reads; the lookup key is destroyed.
Found(h, m, name) == {e \in h.maps[m] : e.name = name}
Get(h, m, name) ==
  Use(h, Map(m) \cup UNION {{Node(e)} \cup Str(e.data) : e \in Found(h, m, name)})

\* Mutant: the node is freed and stays in its bucket.
DeleteNodeOnly(h, m, name) == Free(h, {Node(e) : e \in Found(h, m, name)})

\* Hashmap_delete: the key and the data are the caller's.
HashmapDelete(h, m, name) ==
  [Free(h, {Node(e) : e \in Found(h, m, name)})
     EXCEPT !.maps[m] = @ \ Found(h, m, name)]

\* Hashmap_destroy: of key and data the structs.
HashmapDestroy(h, m) ==
  [Free(h, Map(m) \cup UNION {{e.key, e.data, Node(e)} : e \in h.maps[m]})
     EXCEPT !.maps[m] = {}]

-----------------------------------------------------------------------------
(* request.c                                                               *)

HttpRequest ==
  {<<"request">>, <<"request", "method">>, <<"request", "request_target">>,
   <<"request", "http_version">>}
Data(r) == IF r.number THEN {<<"request", "data">>} ELSE {}

ParseHeaders(h, r) ==
  FoldSet(LAMBDA name, g : SetStrings(g, "headers", name), h, r.headers)

\* http_request_from_buffer
FromBuffer(h, r) ==
  LET parsed == ParseHeaders(HashmapCreate(New(h, {<<"tmp">>} \cup HttpRequest),
                                           "headers"), r)
      length == IF "Content-Length" \in r.headers THEN {<<"content_length_str">>}
                                                  ELSE {}
  IN  Free(New(parsed, length \cup Data(r)), {<<"tmp">>})

\* The first line is not complete.
FromBufferFails(h) == New(h, {<<"tmp">>, <<"request">>})

HttpRequestDestroy(h, r) ==
  Free(HashmapDestroy(h, "headers"), HttpRequest \cup Data(r))

-----------------------------------------------------------------------------
(* response.c                                                              *)

Builder == {<<"builder">>, <<"builder", "http_version">>}
BuilderData(h) == IF h.builder.data THEN {<<"builder", "data">>} ELSE {}

CreateBuilder(h) == [New(h, Builder) EXCEPT !.builder = NoBuilder]

\* Mutant: the field lines are not freed with the builder.
DestroyBuilderOnly(h) ==
  [Free(h, Builder \cup BuilderData(h)) EXCEPT !.builder = NoBuilder]

DestroyBuilder(h) ==
  LET freed == IF h.builder.headers THEN HashmapDestroy(h, "fields") ELSE h
  IN  [Free(freed, Builder \cup BuilderData(h)) EXCEPT !.builder = NoBuilder]

\* The option CLOSE
OptionClose(h) ==
  [(IF h.builder.headers THEN SetStrings(h, "fields", "Connection") ELSE h)
     EXCEPT !.builder.close = TRUE]

\* The option BODY
OptionBody(h, message) ==
  [New(Use(h, {message}), {<<"builder", "data">>})
     EXCEPT !.builder.data = TRUE]

\* The headers of a message, with the option HEADERS (before CLOSE always).
Message(h, message) ==
  LET fields == SetStrings(SetStrings(HashmapCreate(h, "fields"), "fields",
                                      "Content-Type"), "fields", "Content-Length")
  IN  OptionBody([fields EXCEPT !.builder.headers = TRUE], message)

\* The option COMPRESSION_GZIP: gzip_compress may fail.
OptionGzip(h, succeeds) ==
  LET key == <<"content_length_key">>
      length == <<"output_len">>
      asked == Get(New(h, Str(key)), "fields", "Content-Length")
      output == {<<"output">>, <<"output_len_str">>}
      deleted == HashmapDelete(New(asked, output), "fields", "Content-Length")
      set == HashmapSet(New(deleted, Str(length)), "fields",
                        [name |-> "Content-Length", key |-> key, data |-> length])
      all == SetStrings(set, "fields", "Content-Encoding")
  IN  IF succeeds THEN Free(Use(all, BuilderData(h)), output) ELSE asked

Response(fields) ==
  {<<"response">>, <<"response", "http_version">>, <<"response", "reason_phrase">>}
  \cup IF fields THEN {<<"response", "field_line">>} ELSE {}

\* http_response_builder_construct: the buffer of traverse_hashmap is copied.
Construct(h) ==
  LET close == h.builder.close /\ ~h.builder.headers
      made == IF close
                THEN [SetStrings(HashmapCreate(h, "fields"), "fields", "Connection")
                        EXCEPT !.builder.headers = TRUE]
                ELSE h
      read == Use(made, UNION {Str(e.key) \cup Str(e.data) : e \in made.maps["fields"]}
                        \cup BuilderData(h))
      lines == IF made.builder.headers THEN {<<"lines">>} ELSE {}
  IN  [New(read, Response(made.builder.headers) \cup lines)
         EXCEPT !.field_line = made.builder.headers]

\* http_response_to_buffer
ToBuffer(h) == New(Use(h, Response(h.field_line)), {<<"response_buffer">>})

HttpResponseDestroy(h) == Free(h, Response(h.field_line))

-----------------------------------------------------------------------------
(* routes.c: the heap after a handler, and whether it returned a response.  *)

None(h) == [heap |-> h, some |-> FALSE]
Some(h) == [heap |-> h, some |-> TRUE]

\* How every handler but one ends.
Finish(h, r) ==
  LET asked == Get(h, "headers", "Connection")
  IN  Some(DestroyBuilder(Construct(IF r.close THEN OptionClose(asked) ELSE asked)))

Param == <<"params", "param", "data", "chars">>

RouteRoot(h, r) == IF r.method # "GET" THEN {None(h)} ELSE {Finish(CreateBuilder(h), r)}

RouteUserAgent(h, r) ==
  IF "User-Agent" \notin r.headers THEN {None(h)}
  ELSE {Finish(Message(CreateBuilder(Get(h, "headers", "User-Agent")),
                       <<"headers", "User-Agent", "data", "chars">>), r)}

RouteEcho(h, r) ==
  LET message == Message(CreateBuilder(Get(h, "params", "param")), Param)
  IN  IF r.gzip THEN {Finish(OptionGzip(message, ok), r) : ok \in BOOLEAN}
                ELSE {Finish(message, r)}

\* Both begin with the path: bconcat works on the directory's own string.
Path(h) == New(Use(h, Str(<<"params", "directory", "data">>) \cup {Param}), {<<"path">>})

\* fopen to fclose
FileWith(h, blocks) == Free(New(h, {<<"FILE">>} \cup blocks), {<<"FILE">>})

GetFiles(h, r) ==
  IF ~directory THEN {Some(DestroyBuilder(Construct(CreateBuilder(h))))}
  ELSE LET read == CreateBuilder(FileWith(Path(h), {<<"file_buffer">>}))
           message == Message(New(read, {<<"content_length">>}), <<"file_buffer">>)
       IN  {Finish(CreateBuilder(Path(h)), r), Finish(message, r)}

PostFiles(h, r) ==
  IF ~directory \/ ~r.number THEN {Finish(CreateBuilder(h), r)}
  ELSE {Finish(CreateBuilder(Path(h)), r),
        Finish(CreateBuilder(FileWith(Use(Path(h), Data(r)), {})), r)}

RouteFiles(h, r) ==
  CASE r.method = "GET"  -> GetFiles(h, r)
    [] r.method = "POST" -> PostFiles(h, r)
    [] OTHER             -> {None(h)}

Handler(h, r) ==
  CASE r.path = "/"           -> RouteRoot(h, r)
    [] r.path = "/user-agent" -> RouteUserAgent(h, r)
    [] r.path = "/echo/"      -> RouteEcho(h, r)
    [] r.path = "/files/"     -> RouteFiles(h, r)

-----------------------------------------------------------------------------
(* main.c                                                                  *)

Buffer == {<<"buffer">>}

Init ==
  /\ pc = "recv" /\ directory \in BOOLEAN
  /\ request = CHOOSE r \in Requests : r.headers = {}
  /\ heap = [live |-> Buffer, maps |-> [m \in {"headers", "params", "fields"} |-> {}],
             builder |-> NoBuilder, field_line |-> FALSE, wrong |-> {}]

\* send_bad_request_message and send_not_found_message: nobody destroys the builder.
SendMessage(h, close) ==
  LET builder == CreateBuilder(h)
      sent == ToBuffer(Construct(IF close THEN OptionClose(builder) ELSE builder))
  IN  Free(HttpResponseDestroy(sent), {<<"response_buffer">>})

\* recv() and http_request_from_buffer.  (What earlier rounds left behind is
\* not named again.)
Parse(r) ==
  /\ pc = "recv"
  /\ request' = r /\ heap' = FromBuffer(heap, r)
  /\ pc' = "parsed"
  /\ UNCHANGED directory

BadRequest ==
  /\ pc = "recv"
  /\ heap' = Free(SendMessage(FromBufferFails(heap), FALSE), Buffer)
  /\ pc' = "exit"
  /\ UNCHANGED <<request, directory>>

HangUp ==
  /\ pc = "recv"
  /\ heap' = Free(heap, Buffer) /\ pc' = "exit"
  /\ UNCHANGED <<request, directory>>

\* The parameters of a route that matches.
Params(h) ==
  LET param == IF request.path \in {"/echo/", "/files/"} THEN {"param"} ELSE {}
      dir == IF directory THEN {"directory"} ELSE {}
  IN  FoldSet(LAMBDA name, g : SetStrings(g, "params", name),
              HashmapCreate(h, "params"), param \cup dir)

\* The route that matches, if there is one: its handler may decline.
Route ==
  /\ pc = "parsed" /\ request.path # "other"
  /\ \E result \in Handler(Params(Get(heap, "headers", "Connection")), request) :
       IF result.some
         THEN heap' = ToBuffer(result.heap) /\ pc' = "answered"
         ELSE heap' = HashmapDestroy(result.heap, "params") /\ pc' = "unanswered"
  /\ UNCHANGED <<request, directory>>

NoRoute ==
  /\ pc = "parsed" /\ request.path = "other"
  /\ pc' = "unanswered"
  /\ UNCHANGED <<request, directory, heap>>

\* After log_send
Sent ==
  /\ pc = "answered"
  /\ heap' = Free(HttpResponseDestroy(HashmapDestroy(heap, "params")),
                  {<<"response_buffer">>})
  /\ pc' = "release"
  /\ UNCHANGED <<request, directory>>

NotFound ==
  /\ pc = "unanswered"
  /\ heap' = SendMessage(heap, request.close)
  /\ pc' = "release"
  /\ UNCHANGED <<request, directory>>

\* The request is destroyed, and the buffer unless the loop goes on.
Release ==
  /\ pc = "release"
  /\ LET released == HttpRequestDestroy(heap, request)
     IN  heap' = IF request.close THEN Free(released, Buffer) ELSE released
  /\ pc' = IF request.close THEN "exit" ELSE "again"
  /\ UNCHANGED <<request, directory>>

\* recv() at the end of the loop; what the round has left behind is nobody's.
ReadOn ==
  /\ pc = "again"
  /\ heap' = [heap EXCEPT !.live = Buffer, !.builder = NoBuilder,
                          !.maps = [m \in DOMAIN @ |-> {}]]
  /\ pc' = "recv"
  /\ UNCHANGED <<request, directory>>

Next ==
  \/ BadRequest \/ HangUp \/ Route \/ NoRoute \/ Sent \/ NotFound \/ Release \/ ReadOn
  \/ \E r \in Requests : Parse(r)

Spec == Init /\ [][Next]_vars

-----------------------------------------------------------------------------
(* Properties.                                                             *)

\* The variables have their types.
TypeOK ==
  /\ pc \in {"recv", "parsed", "answered", "unanswered", "release", "again", "exit"}
  /\ request \in Requests /\ directory \in BOOLEAN

\* Whatever the request, and whether fopen and gzip_compress fail, nothing is
\* freed twice, used after it was freed, or allocated over a pointer nobody has
\* freed: not the key that is looked up and then kept, nor what a handler that
\* declines was given.  A map that is in use points at nodes, keys and data that
\* are allocated.
SoundUse ==
  /\ heap.wrong = {}
  /\ \A m \in DOMAIN heap.maps : \A e \in heap.maps[m] :
       Map(m) \cup {e.key, e.data, Node(e)} \subseteq heap.live

\* No handler answers it.
Declined(r) ==
  \/ r.path = "other"
  \/ r.path = "/" /\ r.method # "GET"
  \/ r.path = "/user-agent" /\ "User-Agent" \notin r.headers
  \/ r.path = "/files/" /\ r.method = "PUT"

\* A round leaves behind what its code abandons, and nothing else: the characters
\* of the strings in a map, of which Hashmap_destroy frees the structs; the
\* copies of a path, a length, a file and the field lines; what the gzip option
\* takes out of the map or, if it fails, does not put into it; and the builder of
\* a 400 or 404.  The FILEs are closed, and the response and the maps of an
\* answered request are freed, whatever the route and outcome.
OnlyAbandoned ==
  pc \in {"again", "exit"} =>
    LET left == {x \in heap.live \ Buffer : x[Len(x)] # "chars"}
        length == <<"fields", "Content-Length", "key">>
        declined == Builder \cup {<<"lines">>} \cup Map("fields")
          \cup {x \in heap.live : x[1] = "fields" /\ request.close}
        of(r) ==
          CASE Declined(r) -> declined
            [] r.path = "/files/" -> {<<"path">>, <<"content_length">>,
                                      <<"file_buffer">>, <<"lines">>}
            [] r.path = "/echo/" /\ r.gzip ->
                 {<<"lines">>, <<"content_length_key">>, length, [length EXCEPT ![3] = "data"]}
            [] OTHER -> {<<"lines">>}
        copied == IF "Content-Length" \in request.headers
                    THEN {<<"content_length_str">>} ELSE {}
    IN  \/ left \subseteq of(request) \cup copied
        \/ left = Builder \cup {<<"tmp">>, <<"request">>}

=============================================================================
