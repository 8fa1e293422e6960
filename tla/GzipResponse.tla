---------------------------- MODULE GzipResponse ----------------------------
(***************************************************************************)
(* A response whose option COMPRESSION_GZIP calls gzip_compress, which      *)
(* fails, or resizes its output until the compressed form is in it: Response *)
(* composed with Compression.                                              *)
(***************************************************************************)
EXTENDS Compression, Sequences

CONSTANTS NULL, Messages, Upto, Gzip, Longest

VARIABLES builder, response, buffer, sent, asked

responseVars == <<builder, response, buffer, sent, asked>>

R == INSTANCE Response

ASSUME GzipResponseAssumption ==
  R!ResponseAssumption /\ \A m \in Messages : Len(Gzip[m]) \in Totals

GInit == Init /\ R!Init

\* gzip_compress was called and http_response_builder_set has not gone on.
Calling == ret # "start" /\ asked.gzip = NULL

Builder == ~Calling /\ R!Call /\ UNCHANGED vars

CallGzip ==
  /\ R!MayCompress /\ Begin(Len(Gzip[asked.body]))
  /\ UNCHANGED responseVars

InGzip == Calling /\ Compress /\ UNCHANGED responseVars

\* What the option copies from the output: *output_len bytes from its start.
Copied ==
  [i \in 1 .. total_out |-> IF i \in DOMAIN output /\ output[i] = i
                            THEN Gzip[asked.body] ELSE R!STRAY]

\* gzip_compress returns.
Returned ==
  /\ Calling /\ ret \in {"0", "-1"}
  /\ R!Compress(IF ret = "0" THEN Copied ELSE NULL)
  /\ UNCHANGED vars

GNext == Builder \/ CallGzip \/ InGzip \/ Returned

GSpec == GInit /\ [][GNext]_<<vars, responseVars>>

\* The child is scheduled, and deflate returns.
GFairSpec == GSpec /\ WF_<<vars, responseVars>>(InGzip)

-----------------------------------------------------------------------------
(* Properties.                                                             *)

\* The headers say what the callers asked for, and how long the body is as it is
\* sent (see Response).
HeadersAsAsked == R!HeadersAsAsked

\* What is sent is the status line, the headers and the body as it was announced,
\* compressed if gzip_compress succeeded, and nothing else, but for a file with a
\* zero byte (see Response).
SentAsMeant == R!SentAsMeant

=============================================================================
