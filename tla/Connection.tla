----------------------------- MODULE Connection -----------------------------
(***************************************************************************)
(* One connection: a client, the byte stream to the child that serves it,   *)
(* and the loop of that child (src/src/main.c, the branch "if (!fork())").  *)
(* What arrives is read with the operators of Request and answered with     *)
(* those of Routes.                                                         *)
(*                                                                         *)
(* The network is "whole": every request arrives in one piece, fits the      *)
(* buffer, and the client waits for each answer; or it brings "pieces": TCP *)
(* cuts the stream anywhere and the client may send a request before the    *)
(* last one is answered.  files is NULL without --directory.                *)
(***************************************************************************)
EXTENDS Routes

CONSTANTS
  Networks,      \* some of "whole" and "pieces"; and for each of them
  Requests,      \* what the client may send; malformed if the target is NULL
  InitialFiles,  \* the contents the directory may have at first
  BufferSize,    \* HTTP_BUFFER_SIZE
  MaxRequests    \* bound on the requests the client sends

VARIABLES
  network,   \* what the network does
  peer,      \* the client's end of the connection: "open" or "closed"
  sent,      \* the requests the client has sent
  transit,   \* the bytes on their way
  arrived,   \* the bytes recv() has not returned yet
  state,     \* the child: "reading", "closed", or "killed" by a signal
  replies,   \* the responses sent
  files,     \* the directory
  written    \* how much of each answered request's body its file received

vars == <<network, peer, sent, transit, arrived, state, replies, files, written>>

\* The bytes of a request.
Bytes(r) ==
  IF r.target = NULL THEN <<r.method, NL, NL>>
  ELSE <<r.method, SP, r.target, SP, "HTTP/1.1", NL>>
       \o FlattenSeq([i \in DOMAIN r.headers |->
                        <<r.headers[i].name, SP>> \o r.headers[i].value
                        \o <<NL>>])
       \o <<NL>> \o r.body

\* The request the client meant, as the fields http_request_from_buffer should
\* find: the first header of each name, as much of it as there is room for, and
\* the whole body.
Meant(r) ==
  LET named(n) == {i \in DOMAIN r.headers : r.headers[i].name = n}
      headers == [n \in HeaderNames |->
                    IF named(n) = {} THEN NULL
                                     ELSE Cut(r.headers[Min(named(n))].value)]
  IN  [method |-> <<r.method>>, target |-> <<r.target>>,
       headers |-> headers,
       data |-> IF ParseLong(headers["Content-Length:"]) = NULL
                  THEN NULL ELSE r.body]

\* A request of a client that keeps to HTTP, or the first line of one without a
\* target: a value begins with no space and ends its line, the length, if it says
\* one, is that of the body, and no byte of it is zero.
WellFormed(r) ==
  /\ r.method \in Word
  /\ \/ r.target = NULL
     \/ /\ r.target \in Word
        /\ r.headers \in Seq([name : HeaderNames, value : Seq(Word \cup {SP})])
        /\ \A i \in DOMAIN r.headers :
             r.headers[i].value # <<>> => Head(r.headers[i].value) # SP
        /\ r.body \in Seq(Symbol)
        /\ ParseLong(Meant(r).headers["Content-Length:"]) \in {NULL, Len(r.body)}

ASSUME ConnectionAssumption ==
  /\ Networks \subseteq {"whole", "pieces"}
  /\ \A n \in Networks : BufferSize[n] \in Nat \ {0}
  /\ \A r \in Requests["whole"] :
       WellFormed(r) /\ Len(Bytes(r)) <= BufferSize["whole"]
  /\ \A f \in InitialFiles["whole"] : f = NULL \/ IsDirectory(f)
  /\ "HTTP/1.1" \in Word
  /\ MaxRequests \in Nat

Init ==
  /\ peer = "open" /\ state = "reading"
  /\ sent = <<>> /\ transit = <<>> /\ arrived = <<>> /\ replies = <<>>
  /\ written = <<>>
  /\ network \in Networks /\ files \in InitialFiles[network]

-----------------------------------------------------------------------------
(* The client and the network.                                             *)

SendRequest(r) ==
  /\ peer = "open" /\ state = "reading"
  /\ Len(sent) < MaxRequests
  /\ network = "whole" => Len(replies) = Len(sent)
  /\ sent' = Append(sent, r)
  /\ transit' = transit \o Bytes(r)
  /\ UNCHANGED <<network, peer, arrived, state, replies, files, written>>

Deliver(n) ==
  /\ n \in 1 .. Len(transit)
  /\ network = "whole" => n = Len(transit)
  /\ arrived' = arrived \o SubSeq(transit, 1, n)
  /\ transit' = SubSeq(transit, n + 1, Len(transit))
  /\ UNCHANGED <<network, peer, sent, state, replies, files, written>>

HangUp ==
  /\ peer = "open"
  /\ peer' = "closed"
  /\ UNCHANGED <<network, sent, transit, arrived, state, replies, files, written>>

-----------------------------------------------------------------------------
(* The child.  One round of its loop is one step: it reads the connection    *)
(* once, at the start, and shares nothing else with the client.             *)

\* The bytes recv() returns.
Chunk == SubSeq(arrived, 1, Min({Len(arrived), BufferSize[network]}))

Recv ==
  /\ state = "reading" /\ arrived # <<>>
  /\ arrived' = SubSeq(arrived, Len(Chunk) + 1, Len(arrived))
  /\ UNCHANGED <<network, peer, sent, transit>>

\* Mutant: the loop breaks without an answer.
ServeBadSilently ==
  /\ Recv
  /\ NULL \in RequestFromBuffer(Chunk)
  /\ state' = "closed"
  /\ UNCHANGED <<replies, files, written>>

\* send_bad_request_message(socket_fd, 0) and break: should_close is not set,
\* so the answer does not say that the connection is closed.
ServeBad ==
  /\ Recv
  /\ NULL \in RequestFromBuffer(Chunk)
  /\ replies' = Append(replies, Response(400, FALSE, FALSE, <<>>))
  /\ state' = "closed"
  /\ written' = Append(written, 0)
  /\ UNCHANGED files

ServeRequest ==
  /\ Recv
  /\ \E req \in RequestFromBuffer(Chunk) \ {NULL, FAULT} :
       /\ replies' = Append(replies, Answer(req, files))
       /\ \E n \in Writable(req, files) :
            /\ files' = FilesAfter(req, files, n)
            /\ written' = Append(written, n)
       /\ state' = IF WantsClose(req) THEN "closed" ELSE "reading"

\* The request is read, or its handler runs, on memory that is not its own.
ServeFault ==
  /\ Recv
  /\ \/ FAULT \in RequestFromBuffer(Chunk)
     \/ \E req \in RequestFromBuffer(Chunk) \ {NULL, FAULT} : Crashes(req, files)
  /\ state' = "killed"
  /\ UNCHANGED <<replies, files, written>>

\* The client is gone: send() raises SIGPIPE, after the handler has run.
SendKilled ==
  /\ Recv
  /\ peer = "closed"
  /\ \E req \in RequestFromBuffer(Chunk) \ {FAULT} :
       IF req = NULL THEN files' = files
         ELSE \E n \in Writable(req, files) : files' = FilesAfter(req, files, n)
  /\ state' = "killed"
  /\ UNCHANGED <<replies, written>>

\* recv() returns 0, or -1 when the connection was reset.
RecvHangUp ==
  /\ state = "reading" /\ peer = "closed"
  /\ state' = "closed"
  /\ UNCHANGED <<network, peer, sent, transit, arrived, replies, files, written>>

Child == ServeBad \/ ServeRequest \/ ServeFault \/ SendKilled \/ RecvHangUp

Network == \E n \in 1 .. Len(transit) : Deliver(n)

Next ==
  \/ Child \/ Network \/ HangUp
  \/ \E r \in Requests[network] : SendRequest(r)

Spec == Init /\ [][Next]_vars

\* The child can take a step: recv() does not block.
ChildReady == state = "reading" /\ (arrived # <<>> \/ peer = "closed")

\* The child is scheduled and the network delivers; the client owes nothing.
\* The second conjunct is WF_vars(Child), with ENABLED Child written out.
FairSpec ==
  /\ Spec /\ WF_vars(Network)
  /\ []<>~ChildReady \/ []<><<Child>>_vars

-----------------------------------------------------------------------------
(* Properties.                                                             *)

\* Requests that arrive whole are understood as they were meant and answered in
\* turn: each answer, and the files after it, is that of the request it is
\* paired with, whatever bodies and headers came before it; a body that is stored
\* may lose its end when the file cannot be written.
AnsweredAsMeant ==
  [][network = "whole" /\ replies' # replies =>
       /\ Len(replies') <= Len(sent)
       /\ LET r == sent[Len(replies')]
          IN  IF r.target = NULL
                THEN Last(replies').status = 400 /\ files' = files
                ELSE /\ Last(replies') = Answer(Meant(r), files)
                     /\ files' = FilesAfter(Meant(r), files, Last(written'))]_vars

\* The requests get_files cannot serve: a GET of what is a directory, or of a
\* file with a zero byte.
Unservable(r) ==
  /\ r.target # NULL /\ r.method = "GET" /\ files # NULL
  /\ Matches("/files/", <<r.target>>)
  /\ LET name == Param(<<r.target>>)
     IN  \/ name \in Directories
         \/ name \in DOMAIN files /\ \E i \in DOMAIN files[name] : files[name][i] = ZERO

\* The child that reads a request that arrives whole is killed only when its
\* client is gone, or by a GET of a directory or of a file with a zero byte.
SurvivesWholeRequests ==
  network = "whole" /\ state = "killed" =>
    peer = "closed" \/ Unservable(Last(sent))

\* A GET of a file returns what the file received of the body of the last POST
\* of it that was answered with 201 on this connection: the whole of it unless
\* the write failed, never what the file held before, nor a mixture.
StoredIsServed ==
  network = "whole" => \A i \in DOMAIN replies \cap DOMAIN sent :
    LET stores == {j \in 1 .. i - 1 : /\ sent[j].method = "POST"
                                      /\ sent[j].target = sent[i].target
                                      /\ replies[j].status = 201}
        last   == Max(stores)
    IN  sent[i].method = "GET" /\ stores # {} =>
          /\ replies[i].status = 200
          /\ replies[i].body = SubSeq(sent[last].body, 1, written[last])

\* The server closes a connection its client keeps open only after an answer
\* that says so, or after a 400, wherever TCP cuts the requests; and an answer
\* that says so is the last one.
CloseIsAnnounced ==
  /\ state = "closed" /\ peer = "open" =>
       replies # <<>> /\ (Last(replies).close \/ Last(replies).status = 400)
  /\ \A i \in DOMAIN replies :
       replies[i].close => i = Len(replies) /\ state = "closed"

\* As many requests as the bytes that have arrived make up.
Complete ==
  Cardinality({i \in DOMAIN sent :
    Len(FlattenSeq([j \in 1 .. i |-> Bytes(sent[j])]))
      <= Len(FlattenSeq([j \in DOMAIN sent |-> Bytes(sent[j])]))
         - Len(transit)})

\* README.md calls the program an HTTP/1.1 server: it answers a request when it
\* has arrived, not the pieces TCP cuts it into.
AnswersOnlyComplete == Len(replies) <= Complete

\* Every request that arrives whole is answered, the malformed ones included,
\* unless the client hangs up or asks for what kills the child.
EveryRequestAnswered ==
  \A n \in 1 .. MaxRequests :
    network = "whole" /\ Len(sent) >= n ~>
      \/ Len(replies) >= n \/ peer = "closed"
      \/ state = "killed" /\ Unservable(Last(sent))

=============================================================================
