------------------------------ MODULE Sessions ------------------------------
(***************************************************************************)
(* What the server promises a client, whatever the processes behind it do:  *)
(* a session is opened once and never again after it is over; it is over    *)
(* for good; what it has sent is answered in order, no byte in two answers,  *)
(* only within an open session, and nothing is answered after an answer that *)
(* closes the session.  A client's requests may be joined or cut on their     *)
(* way: one answer is for some bytes, and is that of the request they begin   *)
(* with, if they begin with a whole one.  The module Server implements this. *)
(***************************************************************************)
EXTENDS Naturals, Sequences

CONSTANTS Clients, Kinds, Parts

VARIABLES
  phase,     \* "away", "waiting" to be accepted, "open", or "over"
  asked,     \* the requests a client has sent, in order, of Parts pieces each
  answers    \* what has been answered, up to which piece each time

vars == <<phase, asked, answers>>

Init ==
  /\ phase = [c \in Clients |-> "away"]
  /\ asked = [c \in Clients |-> <<>>]
  /\ answers = [c \in Clients |-> <<>>]

Arrive(c) ==
  /\ phase[c] = "away"
  /\ phase' = [phase EXCEPT ![c] = "waiting"]
  /\ UNCHANGED <<asked, answers>>

Open(c) ==
  /\ phase[c] = "waiting"
  /\ phase' = [phase EXCEPT ![c] = "open"]
  /\ UNCHANGED <<asked, answers>>

Ask(c, k) ==
  /\ phase[c] \in {"waiting", "open"}
  /\ asked' = [asked EXCEPT ![c] = Append(@, k)]
  /\ UNCHANGED <<phase, answers>>

\* The pieces that have been answered.
Done(c) == IF answers[c] = <<>> THEN 0 ELSE answers[c][Len(answers[c])].upto

\* The pieces up to n that are not answered begin with the whole of request i; one
\* that cannot be parsed is recognized only when nothing follows it.
BeginWith(c, i, n) ==
  /\ Done(c) = Parts * (i - 1) /\ Done(c) + Parts <= n
  /\ asked[c][i] = "bad" => n = Done(c) + Parts

Answer(c, n, k) ==
  /\ phase[c] = "open"
  /\ \A i \in DOMAIN answers[c] : answers[c][i].kind = "keep"
  /\ Done(c) < n /\ n <= Parts * Len(asked[c])
  /\ \A i \in DOMAIN asked[c] : BeginWith(c, i, n) => k = asked[c][i]
  /\ answers' = [answers EXCEPT ![c] = Append(@, [upto |-> n, kind |-> k])]
  /\ UNCHANGED <<phase, asked>>

\* Several sessions can end together: the parent ends with clients queued.
Finish(S) ==
  /\ \A c \in S : phase[c] \in {"waiting", "open"}
  /\ phase' = [c \in Clients |-> IF c \in S THEN "over" ELSE phase[c]]
  /\ UNCHANGED <<asked, answers>>

Next ==
  \/ \E c \in Clients :
       \/ Arrive(c) \/ Open(c)
       \/ \E k \in Kinds : Ask(c, k)
       \/ \E k \in Kinds, n \in 1 .. Parts * Len(asked[c]) : Answer(c, n, k)
  \/ \E S \in SUBSET Clients : Finish(S)

Spec == Init /\ [][Next]_vars

=============================================================================
