------------------------------- MODULE Files -------------------------------
(***************************************************************************)
(* Several children of the server at work on one file of the directory:    *)
(* get_files and post_files of src/src/routes.c, one step per call that     *)
(* another process can observe.  Routes has the same handlers as one step.  *)
(* stdio moves data in blocks; each open file has an offset of its own.     *)
(***************************************************************************)
EXTENDS Integers, Sequences, FiniteSetsExt, SequencesExt

CONSTANTS
  Gets,        \* requests that read the file
  Posts,       \* requests that write it
  Length,      \* the length of each body that is posted
  Old,         \* stands for whatever wrote the file before, if it exists
  OldLength,   \* the length it has then
  Zeros,       \* those of the bytes of all bodies that are zero
  NULL,
  Hole,        \* the zero byte that is no body's: the kernel fills a gap with it
  Junk,        \* bytes from past the end of a block of memory
  Block        \* how much one read or write moves at most

\* The bytes that are posted, each named by who wrote it and its place.
Byte == (Posts \cup {Old}) \X Nat

ASSUME FilesAssumption ==
  /\ Gets \cap Posts = {} /\ {NULL, Old} \cap (Gets \cup Posts) = {}
  /\ NULL # Old
  /\ Length \in [Posts -> Nat]
  /\ OldLength \in Nat
  /\ Block \in Nat \ {0}
  /\ Zeros \subseteq Byte
  /\ Hole \notin Byte /\ Junk \notin Byte \cup {Hole}
  /\ NULL \notin Seq(Byte \cup {Hole})

VARIABLES
  file,      \* the contents, NULL while the file does not exist
  pc,        \* "start", then "write", or "size" and "read", then "done" or "killed"
  offset,    \* how much of its body a POST has handed to the kernel
  length,    \* what ftell told a GET
  got,       \* what fread has put into the buffer of a GET
  answer,    \* the response of a request that is done
  \* What the properties compare with.
  last,      \* the POST that was done last; Old or NULL before
  before,    \* what last was when a request began
  overlap,   \* the requests under way at the same time as a request
  cut        \* the GETs for which the file was truncated after ftell

vars == <<file, pc, offset, length, got, answer, last, before, overlap, cut>>
history == <<last, before, overlap, cut>>

Requests == Gets \cup Posts

\* What p writes, byte by byte.
Body(p) == [i \in 1 .. (IF p = Old THEN OldLength ELSE Length[p]) |-> <<p, i>>]

Init ==
  /\ \/ file = NULL /\ last = NULL
     \/ file = Body(Old) /\ last = Old
  /\ pc = [r \in Requests |-> "start"]
  /\ offset = [p \in Posts |-> 0] /\ length = [g \in Gets |-> 0]
  /\ got = [g \in Gets |-> <<>>]
  /\ answer = [r \in Requests |-> NULL]
  /\ before = [r \in Requests |-> NULL]
  /\ overlap = [r \in Requests |-> {}] /\ cut = {}

UnderWay == {r \in Requests : pc[r] \in {"write", "size", "read"}}

\* The history of a request that begins.
Began(r) ==
  /\ overlap' = [q \in Requests |-> IF q = r THEN UnderWay
                                    ELSE IF q \in UnderWay
                                      THEN overlap[q] \cup {r}
                                      ELSE overlap[q]]
  /\ before' = [before EXCEPT ![r] = last]

Answer(r, status, body) ==
  /\ answer' = [answer EXCEPT ![r] = [status |-> status, body |-> body]]
  /\ pc' = [pc EXCEPT ![r] = "done"]

-----------------------------------------------------------------------------
(* post_files()                                                            *)

\* Mutant: the file is opened without being truncated.
OpenedAsItIs(f) == IF f = NULL THEN <<>> ELSE f

\* What fopen(path, "w") leaves of a file.
Opened(f) == <<>>

OpenWrite(p) ==
  /\ pc[p] = "start"
  /\ file' = Opened(file)
  /\ pc' = [pc EXCEPT ![p] = "write"]
  /\ Began(p)
  /\ cut' = cut \cup {g \in Gets : pc[g] = "read"}
  /\ UNCHANGED <<offset, length, got, answer, last>>

OpenWriteFails(p) ==
  /\ pc[p] = "start"
  /\ Answer(p, 500, <<>>)
  /\ UNCHANGED <<file, offset, length, got>> /\ UNCHANGED history

\* Mutant: the data go to the end of the file.
WrittenAtEnd(f, o, data) == f \o data

\* The file after data are written at offset o, past its end if need be.
Written(f, o, data) ==
  [i \in 1 .. Max({Len(f), o + Len(data)}) |->
     IF i - o \in DOMAIN data THEN data[i - o]
     ELSE IF i <= Len(f) THEN f[i] ELSE Hole]

\* A part of what fwrite and fclose have to write.
Write(p) ==
  /\ pc[p] = "write" /\ offset[p] < Length[p]
  /\ LET end == Min({offset[p] + Block, Length[p]})
     IN  /\ file' = Written(file, offset[p],
                            SubSeq(Body(p), offset[p] + 1, end))
         /\ offset' = [offset EXCEPT ![p] = end]
  /\ UNCHANGED <<pc, length, got, answer>> /\ UNCHANGED history

\* fclose is done; the results of fwrite and fclose are not looked at, so a
\* write that failed (the offset is short of the length) is answered the same.
CloseWritten(p) ==
  /\ pc[p] = "write"
  /\ Answer(p, 201, <<>>)
  /\ last' = p
  /\ UNCHANGED <<file, offset, length, got, before, overlap, cut>>

-----------------------------------------------------------------------------
(* get_files()                                                             *)

OpenRead(g) ==
  /\ pc[g] = "start" /\ file # NULL
  /\ pc' = [pc EXCEPT ![g] = "size"]
  /\ Began(g)
  /\ UNCHANGED <<file, offset, length, got, answer, last, cut>>

NotFound(g) ==
  /\ pc[g] = "start" /\ file = NULL
  /\ Answer(g, 404, <<>>)
  /\ Began(g)
  /\ UNCHANGED <<file, offset, length, got, last, cut>>

\* Mutant: one byte more than the file has.
LengthWithEnd(f) == Len(f) + 1

\* fseek(file, 0, SEEK_END) and ftell(file)
LengthOf(f) == Len(f)

TakeLength(g) ==
  /\ pc[g] = "size"
  /\ length' = [length EXCEPT ![g] = LengthOf(file)]
  /\ pc' = [pc EXCEPT ![g] = "read"]
  /\ UNCHANGED <<file, offset, got, answer>> /\ UNCHANGED history

\* A part of fread: what the file has by now where the last part ended.
Part(g) == SubSeq(file, Len(got[g]) + 1,
                  Min({Len(file), length[g], Len(got[g]) + Block}))

Read(g) ==
  /\ pc[g] = "read" /\ Part(g) # <<>>
  /\ got' = [got EXCEPT ![g] = @ \o Part(g)]
  /\ UNCHANGED <<file, pc, offset, length, answer>> /\ UNCHANGED history

\* The text ends at its first zero byte, in a gap or the file's own: strdup copies
\* no further.
Text(s) == LET zeros == {i \in DOMAIN s : s[i] \in Zeros \cup {Hole}}
           IN  IF zeros = {} THEN s ELSE SubSeq(s, 1, Min(zeros) - 1)

\* fread is done.  The body is copied as text, and then as many bytes as
\* Content-Length says are taken from the copy: past its end, if it is shorter.
\* (The byte right after the text is zero.)
FinishRead(g) ==
  /\ pc[g] = "read" /\ Part(g) = <<>>
  /\ LET text == Text(got[g])
     IN  Answer(g, 200, [i \in 1 .. length[g] |->
                           IF i <= Len(text) THEN text[i]
                           ELSE IF i = Len(text) + 1 THEN Hole ELSE Junk])
  /\ UNCHANGED <<file, offset, length, got>> /\ UNCHANGED history

\* What is read past the copy may not be there at all.
ReadFault(g) ==
  /\ pc[g] = "read" /\ Part(g) = <<>>
  /\ Len(Text(got[g])) < length[g]
  /\ pc' = [pc EXCEPT ![g] = "killed"]
  /\ UNCHANGED <<file, offset, length, got, answer>> /\ UNCHANGED history

-----------------------------------------------------------------------------

Next ==
  \/ \E p \in Posts :
       OpenWrite(p) \/ OpenWriteFails(p) \/ Write(p) \/ CloseWritten(p)
  \/ \E g \in Gets :
       OpenRead(g) \/ NotFound(g) \/ TakeLength(g) \/ Read(g) \/ FinishRead(g)
         \/ ReadFault(g)

Spec == Init /\ [][Next]_vars

-----------------------------------------------------------------------------
(* Properties.                                                             *)

\* A POST that no other POST overlapped and whose writes did not fail.
Stored(p) == p \in Posts => offset[p] = Length[p] /\ overlap[p] \cap Posts = {}

\* A body agrees with some content: it is as long, and the same up to the first
\* zero byte of the content, which is all of it if there is none.
Agrees(body, content) ==
  /\ Len(body) = Len(content)
  /\ \A i \in DOMAIN content :
       (\A j \in 1 .. i : content[j] \notin Zeros) => body[i] = content[i]

\* The file is a safe register: a GET that no POST overlaps returns the body of
\* the POST before it (the old contents if there was none), if that one was not
\* overlapped and did not fail; up to the first zero byte, if it has one.
QuietGetIsExact ==
  \A g \in Gets :
    /\ pc[g] = "done" /\ overlap[g] \cap Posts = {} /\ Stored(before[g])
    => IF before[g] = NULL THEN answer[g] = [status |-> 404, body |-> <<>>]
       ELSE answer[g].status = 200 /\ Agrees(answer[g].body, Body(before[g]))

\* A GET reads past its copy, and may be killed by it, only when what it read has
\* a zero byte of its own, when a POST truncated the file between its ftell and
\* its fread, or when two POSTs left a gap in it: taking the length first is
\* otherwise safe.
JunkNeedsATruncation ==
  \A g \in Gets :
    \/ pc[g] = "killed"
    \/ /\ pc[g] = "done" /\ answer[g].status = 200
       /\ Junk \in {answer[g].body[i] : i \in DOMAIN answer[g].body}
    => \/ \E i \in DOMAIN got[g] : got[g][i] \in Zeros
       \/ g \in cut \/ \E p \in Posts : overlap[p] \cap Posts # {}

\* Whatever overlaps, a byte of the file is the byte of some posted body at the
\* same place, and there is a gap only if two POSTs overlapped.
BytesKeepTheirPlace ==
  file # NULL =>
    \A i \in DOMAIN file :
      IF file[i] = Hole THEN \E p \in Posts : overlap[p] \cap Posts # {}
                        ELSE file[i][2] = i

=============================================================================
