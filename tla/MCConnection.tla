---------------------------- MODULE MCConnection ----------------------------
(* Instances of Connection for TLC: the requests of a small client. *)
EXTENDS Connection

Names == {"Connection:", "Content-Length:", "Accept-Encoding:", "User-Agent:",
          "Host:"}

Words == Names \cup
  {"GET", "GETX", "POST", "HTTP/1.1", "0", "1", "3",
   "/", "/user-agent", "/nope", "/echo/", "/files/", "/echo/a", "/files/f",
   "/files/ro", "/files/", "/files/bin", "", "a", "f", "ro", "bin", "old", "x",
   "y", "z", "b", "br", "gzip", "close"}

Numerals == [w \in {"0", "1", "3"} |->
               CASE w = "0" -> 0 [] w = "1" -> 1 [] w = "3" -> 3]

Paths ==
  [w \in {"/", "/user-agent", "/nope", "/echo/a", "/files/f", "/files/ro",
          "/files/", "/files/bin"} |->
     CASE w = "/echo/a"   -> [prefix |-> "/echo/",  rest |-> "a"]
       [] w = "/files/f"  -> [prefix |-> "/files/", rest |-> "f"]
       [] w = "/files/ro" -> [prefix |-> "/files/", rest |-> "ro"]
       [] w = "/files/bin" -> [prefix |-> "/files/", rest |-> "bin"]
       [] w = "/files/"   -> [prefix |-> "/files/", rest |-> ""]
       [] OTHER           -> [prefix |-> w, rest |-> ""]]

Dirs == {<<"">>}

ReadOnly == {<<"ro">>} \cup Dirs

Methods == {"GET", "GETX"}

H(name, value) == [name |-> name, value |-> value]

R(method, target, headers, body) ==
  [method |-> method, target |-> target, headers |-> headers, body |-> body]

\* What may follow the first line: headers that close, repeat a name, ask for
\* gzip or are too long; lengths that are zero or no number; a body that looks
\* like headers.
Bare    == <<<<>>, <<>>>>
Closing == <<<<H("Connection:", <<"close">>)>>, <<>>>>
Agent   == <<<<H("User-Agent:", <<"x", SP, "y">>),
               H("Accept-Encoding:", <<"br", SP, "gzip">>),
               H("User-Agent:", <<"z">>)>>, <<>>>>
Long    == <<<<H("User-Agent:", <<"x", SP, "y", SP, "z">>),
               H("Accept-Encoding:", <<"br", SP, SP, "gzip">>)>>, <<>>>>
Empty   == <<<<H("Content-Length:", <<"0">>)>>, <<>>>>
NoSize  == <<<<H("Content-Length:", <<"x">>),
               H("Connection:", <<"close">>)>>, <<>>>>
OneByte == <<<<H("Content-Length:", <<"1">>), H("Host:", <<>>)>>, <<"b">>>>
Lookalike == <<<<H("Content-Length:", <<"3">>)>>,
               <<NL, "Connection:", NL>>>>

Follow(methods, target, rests) ==
  {R(m, target, h[1], h[2]) : m \in methods, h \in rests}

AllRequests ==
  Follow({"GET", "POST"}, "/files/f",
         {Bare, Closing, NoSize, Empty, OneByte, Lookalike})
  \cup Follow({"GET", "POST"}, "/files/ro", {OneByte})
  \cup Follow({"GET", "GETX", "POST"}, "/", {Closing, Lookalike})
  \cup Follow({"GET", "POST"}, "/files/bin", {OneByte})
  \cup Follow({"GET", "POST"}, "/files/", {OneByte})
  \cup Follow({"GET"}, "/echo/a", {Bare, Agent, Long})
  \cup Follow({"GET"}, "/user-agent", {Closing, Agent, Long})
  \cup Follow({"GET"}, "/nope", {Bare, Closing})
  \cup {R("GET", NULL, <<>>, <<>>)}

\* A few, for the runs in which TCP cuts them anywhere.
FewRequests ==
  { R("GET", "/", <<>>, <<>>),
    R("GET", "/nope", <<H("Connection:", <<"close">>)>>, <<>>),
    R("GET", "/files/f", <<H("Connection:", <<"close">>)>>, <<>>),
    R("POST", "/files/f", <<H("Content-Length:", <<"1">>)>>, <<"b">>) }

MCNetworks == {"whole", "pieces"}

MCRequests == [n \in MCNetworks |->
                 IF n = "whole" THEN AllRequests ELSE FewRequests]

\* No directory; an empty one; one with three files.
MCFiles == [n \in MCNetworks |->
              {NULL, [f \in {} |-> <<>>]} \cup
              IF n = "pieces" THEN {}
              ELSE {[f \in {<<"f">>, <<"ro">>, <<"bin">>} |->
                       IF f = <<"bin">> THEN <<"old", ZERO, "x">> ELSE <<"old">>]}]

MCBuffer == [n \in MCNetworks |-> IF n = "whole" THEN 40 ELSE 16]

Pieces == {"pieces"}
=============================================================================
