------------------------------- MODULE Routes -------------------------------
(***************************************************************************)
(* How a request is routed and answered: the loop over routes[] in          *)
(* src/src/main.c and the handlers of src/src/routes.c.  A response is what *)
(* its bytes tell a client: the status, whether "Connection: close" is      *)
(* there, whether the body is compressed, the body.                         *)
(***************************************************************************)
EXTENDS Request, SequencesExt

CONSTANTS
  Path,          \* a word as the prefix of a route followed by a parameter
  GetLike,       \* the methods that begin with GET
  Unwritable,    \* the names that fopen(_, "w") refuses
  Directories    \* and those of them that are directories, "" among them

ExactPaths == {"/", "/user-agent"}
ParamPaths == {"/echo/", "/files/"}

\* The directory: a function from the names of its files to their contents.
FileNames == {<<Path[w].rest>> : w \in DOMAIN Path}

IsDirectory(files) == \E D \in SUBSET FileNames : files \in [D -> Seq(Byte)]

\* A word is what its prefix and the rest make up; NULL is no value of these.
ASSUME RoutesAssumption ==
  /\ Path \in [DOMAIN Path -> [prefix : Word, rest : Word]]
  /\ \A v, w \in DOMAIN Path : Path[v] = Path[w] => v = w
  /\ \A w \in DOMAIN Path \cap ExactPaths : Path[w].prefix \notin ParamPaths
  /\ ~IsDirectory(NULL)
  /\ NULL \notin [status : Nat, close : BOOLEAN, gzip : BOOLEAN,
                  body : Seq(Byte \cup {Junk})]
  /\ Directories \subseteq Unwritable

Response(status, close, gzip, body) ==
  [status |-> status, close |-> close, gzip |-> gzip, body |-> body]

\* add_connection_close_if_needed, and should_close in main.
WantsClose(req) == req.headers["Connection:"] = <<"close">>

Plain(req, status, body) == Response(status, WantsClose(req), FALSE, body)

\* route_matches: a route is exact, or a prefix followed by a parameter.
Matches(path, target) ==
  IF path \in ExactPaths THEN target = <<path>>
    ELSE Head(target) \in DOMAIN Path /\ Path[Head(target)].prefix = path

Param(target) == <<Path[Head(target)].rest>> \o Tail(target)

-----------------------------------------------------------------------------
(* The handlers: a response, or NULL when the handler declines.  The files   *)
(* are a directory, or NULL when the program was started without one.        *)

\* strncmp(method, "GET", 3): any method that begins with GET.
RouteRoot(req) ==
  IF Head(req.method) \in GetLike THEN Plain(req, 200, <<>>) ELSE NULL

\* Whatever the method; gzip when "gzip" is among the words of the header.
RouteEcho(req) ==
  LET accepted == req.headers["Accept-Encoding:"]
      gzip == accepted # NULL /\ Occurrences("gzip", accepted) # {}
  IN  Response(200, WantsClose(req), gzip, Param(req.target))

RouteUserAgent(req) ==
  IF req.headers["User-Agent:"] = NULL THEN NULL
    ELSE Plain(req, 200, req.headers["User-Agent:"])

\* strdup copies what was read up to its first zero byte, that byte included;
\* the rest of the length ftell() gave is sent from past the end of the copy.
Duplicated(content) ==
  [i \in DOMAIN content |->
     IF i <= NextAt(content, 1, ZERO) THEN content[i] ELSE Junk]

\* The 400 does not announce the close, whatever the request says.  fopen(_, "r")
\* takes a directory too: an empty file, where seeking to its end fails.
GetFiles(req, files) ==
  IF files = NULL THEN Response(400, FALSE, FALSE, <<>>)
  ELSE IF Param(req.target) \in Directories THEN Plain(req, 200, <<>>)
  ELSE IF Param(req.target) \notin DOMAIN files THEN Plain(req, 404, <<>>)
  ELSE Plain(req, 200, Duplicated(files[Param(req.target)]))

PostRefused(req, files) ==
  files = NULL \/ ParseLong(req.headers["Content-Length:"]) = NULL

PostFiles(req, files) ==
  Plain(req, IF PostRefused(req, files) THEN 400
             ELSE IF Param(req.target) \in Unwritable THEN 500
             ELSE 201, <<>>)

Gets(req) == Matches("/files/", req.target) /\ req.method = <<"GET">>

\* When the handler may be killed by what it touches.  Where the end of a
\* directory is LONG_MAX no buffer is allocated and strdup reads through NULL;
\* and the copy of a file with a zero byte is read past its end.
Crashes(req, files) ==
  /\ Gets(req) /\ files # NULL
  /\ \/ Param(req.target) \in Directories
     \/ /\ Param(req.target) \in DOMAIN files
        /\ ZERO \in ToSet(files[Param(req.target)])

\* The files when data are all that is in the one with this name.
Stored(name, data, files) ==
  [f \in DOMAIN files \cup {name} |-> IF f = name THEN data ELSE files[f]]

Posts(req) == Matches("/files/", req.target) /\ req.method = <<"POST">>

Writes(req, files) == Posts(req) /\ PostFiles(req, files).status = 201

\* How much of the data may reach the file: less than all of them when fwrite or
\* fclose fails, which the handler does not look at.
Writable(req, files) ==
  IF Writes(req, files) THEN 0 .. Len(req.data) ELSE {0}

\* Mutant: the file is opened with "a".
FilesAppended(req, files, written) ==
  LET name == Param(req.target)
      data == SubSeq(req.data, 1, written)
  IN  IF ~Writes(req, files) THEN files
      ELSE Stored(name, IF name \in DOMAIN files THEN files[name] \o data
                                                 ELSE data, files)

\* The files after the request: fopen truncates the file it names, fwrite
\* writes as many bytes as the Content-Length says, or the first few of them.
FilesAfter(req, files, written) ==
  IF Writes(req, files)
    THEN Stored(Param(req.target), SubSeq(req.data, 1, written), files)
    ELSE files

RouteFiles(req, files) ==
  CASE req.method = <<"GET">>  -> GetFiles(req, files)
    [] req.method = <<"POST">> -> PostFiles(req, files)
    [] OTHER -> NULL

Handle(path, req, files) ==
  CASE path = "/"           -> RouteRoot(req)
    [] path = "/echo/"      -> RouteEcho(req)
    [] path = "/user-agent" -> RouteUserAgent(req)
    [] path = "/files/"     -> RouteFiles(req, files)

\* The order of routes[].
routes == <<"/", "/echo/", "/user-agent", "/files/">>

\* Mutant: the 404 of main() does not announce the close.
AnswerKeepsOn404(req, files) ==
  LET takers == {i \in DOMAIN routes :
                   /\ Matches(routes[i], req.target)
                   /\ Handle(routes[i], req, files) # NULL}
  IN  IF takers = {} THEN Response(404, FALSE, FALSE, <<>>)
                     ELSE Handle(routes[Min(takers)], req, files)

\* The loop of main(): the first route that matches and does not decline
\* answers; without one, send_not_found_message(should_close).
Answer(req, files) ==
  LET takers == {i \in DOMAIN routes :
                   /\ Matches(routes[i], req.target)
                   /\ Handle(routes[i], req, files) # NULL}
  IN  IF takers = {} THEN Plain(req, 404, <<>>)
                     ELSE Handle(routes[Min(takers)], req, files)

=============================================================================
