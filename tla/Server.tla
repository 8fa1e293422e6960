------------------------------- MODULE Server -------------------------------
(***************************************************************************)
(* The process structure of the HTTP server (src/src/main.c): one parent    *)
(* that boots, accepts and forks; one child per accepted connection; the    *)
(* SIGCHLD handler that interrupts the parent; and the kernel objects they  *)
(* share: the listening socket with its queue, the connected sockets, the   *)
(* descriptor tables, the pending signal.                                   *)
(*                                                                         *)
(* A child is named by the client whose connection it serves.  What a child *)
(* does with the bytes of a request is the subject of the module Connection *)
(* (and of the modules it uses); here a request is only of one of the kinds *)
(* that lead the loop of main() to different places.  TCP keeps no bounds    *)
(* between requests: recv() returns any run of what has been sent and not    *)
(* read, several requests joined or a part of one.                           *)
(***************************************************************************)
EXTENDS Naturals, Sequences, FiniteSets

CONSTANTS
  Clients,     \* each opens at most one connection
  Main,        \* the process that runs main(): the parent
  Listen,      \* the listening socket, server_fd
  NoConn,      \* "socket_fd holds no connection"
  Backlog,     \* connection_backlog: bound on the queue of the listening socket
  Deaf,        \* those that may stop reading what they are sent
  MaxSends,    \* bound on the requests a client sends
  Parts,       \* bound on the pieces into which TCP cuts a request
  MaxBoots     \* bound on the times the program is started

ASSUME ServerAssumption ==
  /\ Main \notin Clients
  /\ Listen \notin Clients
  /\ NoConn \notin Clients
  /\ Deaf \subseteq Clients
  /\ Backlog \in Nat \ {0}
  /\ MaxSends \in Nat
  /\ Parts \in Nat \ {0}
  /\ MaxBoots \in Nat \ {0}

\* The requests the loop tells apart: "bad" is one http_request_from_buffer
\* refuses, "close" carries "Connection: close", "keep" is any other.
Kinds == {"bad", "close", "keep"}

Procs == Clients \cup {Main}
Fds   == Clients \cup {Listen}

VARIABLES
  ppc,       \* where the parent is in main()
  psock,     \* socket_fd in the parent
  hpc,       \* where the parent is in sigchld_handler
  errno,     \* errno of the parent
  saved,     \* saved_errno of the handler
  sigchld,   \* SIGCHLD pending at the parent
  fate,      \* the reason the parent gave (or was given) for ending
  boots,     \* times the program was started
  cpc,       \* where each child is in main()
  orphans,   \* children whose parent has ended
  fds,       \* descriptor table of every process
  backlog,   \* queue of the listening socket
  peer,      \* what the client does with its end of the connection
  sent,      \* the requests a client has sent, in order
  got,       \* how many of their pieces recv() has returned to the child
  heard,     \* what the child takes the bytes in its buffer for
  answers    \* what it has answered, up to which piece each time

parentVars == <<ppc, psock, hpc, errno, saved, sigchld, fate, boots>>
childVars  == <<cpc, orphans>>
clientVars == <<peer, sent, got, heard, answers>>
vars == <<parentVars, childVars, fds, backlog, clientVars>>

\* The parent executes main()'s loop: a signal handler may interrupt it.
Looping == {"accept", "fork", "close", "report"}
\* A child that exists and has not ended.
Alive == {"start", "recv", "serve", "blocked", "close", "exit"}

\* The kernel keeps a socket as long as some process has it open.
Held(f) == \E p \in Procs : f \in fds[p]

Queued(c) == \E i \in DOMAIN backlog : backlog[i] = c

Replies == [upto : Nat, kind : Kinds]

\* The pieces that have been answered.
Upto(replies) == IF replies = <<>> THEN 0 ELSE replies[Len(replies)].upto

TypeOK ==
  /\ ppc \in Looping \cup {"boot", "down"}
  /\ psock \in Clients \cup {NoConn}
  /\ hpc \in {"idle", "reap", "restore"}
  /\ errno \in {"none", "EACCEPT", "ECHILD", "EINTR"}
  /\ saved \in {"none", "EACCEPT", "ECHILD", "EINTR"}
  /\ sigchld \in BOOLEAN
  /\ fate \in {"running", "killed", "EADDRINUSE", "ESETUP",
               "none", "EACCEPT", "ECHILD", "EINTR"}
  /\ boots \in 1 .. MaxBoots
  /\ cpc \in [Clients -> Alive \cup {"none", "zombie", "gone"}]
  /\ orphans \in SUBSET Clients
  /\ fds \in [Procs -> SUBSET Fds]
  /\ backlog \in Seq(Clients)
  /\ peer \in [Clients -> {"idle", "open", "deaf", "closed"}]
  /\ sent \in [Clients -> Seq(Kinds)]
  /\ got \in [Clients -> Nat]
  /\ heard \in [Clients -> Kinds]
  /\ answers \in [Clients -> Seq(Replies)]

Init ==
  /\ ppc = "boot" /\ psock = NoConn
  /\ hpc = "idle" /\ errno = "none" /\ saved = "none"
  /\ sigchld = FALSE /\ fate = "running" /\ boots = 1
  /\ cpc = [c \in Clients |-> "none"]
  /\ orphans = {}
  /\ fds = [p \in Procs |-> {}]
  /\ backlog = <<>>
  /\ peer = [c \in Clients |-> "idle"]
  /\ sent = [c \in Clients |-> <<>>]
  /\ got = [c \in Clients |-> 0]
  /\ heard = [c \in Clients |-> "keep"]
  /\ answers = [c \in Clients |-> <<>>]

-----------------------------------------------------------------------------
(* The kernel.                                                             *)

\* Mutants: the parent forgets close(socket_fd); the child, close(server_fd).
CloseFdNotInParent(p, f) ==
  fds' = IF p = Main THEN fds ELSE [fds EXCEPT ![p] = @ \ {f}]
CloseFdNotServer(p, f) ==
  fds' = IF f = Listen THEN fds ELSE [fds EXCEPT ![p] = @ \ {f}]

\* A process closes a descriptor.
CloseFd(p, f) == fds' = [fds EXCEPT ![p] = @ \ {f}]

\* Whoever closes the listening socket last takes its queue with it: the
\* connections nobody accepted are reset.
KeepQueueWhileListening ==
  backlog' = IF \E p \in Procs : Listen \in fds'[p] THEN backlog ELSE <<>>

\* A child ends, by exit(0) or by a signal: its descriptors are closed and it
\* stays a zombie for its parent, whom SIGCHLD tells (a signal already pending
\* absorbs this one).  An orphan is collected by init.
ChildEnds(c) ==
  /\ fds' = [fds EXCEPT ![c] = {}]
  /\ IF c \in orphans
       THEN /\ cpc' = [cpc EXCEPT ![c] = "gone"]
            /\ UNCHANGED sigchld
       ELSE /\ cpc' = [cpc EXCEPT ![c] = "zombie"]
            /\ sigchld' = TRUE
  /\ KeepQueueWhileListening

\* The parent ends: its descriptors are closed, its children are orphans and
\* the zombies it left are collected by init.
ParentEnds(reason) ==
  /\ ppc' = "down" /\ fate' = reason
  /\ psock' = NoConn /\ hpc' = "idle" /\ sigchld' = FALSE
  /\ errno' = "none" /\ saved' = "none"
  /\ fds' = [fds EXCEPT ![Main] = {}]
  /\ cpc' = [c \in Clients |-> IF cpc[c] = "zombie" THEN "gone" ELSE cpc[c]]
  /\ orphans' = orphans \cup {c \in Clients : cpc[c] \in Alive}
  /\ KeepQueueWhileListening
  /\ UNCHANGED <<boots, clientVars>>

-----------------------------------------------------------------------------
(* The parent: main().                                                     *)

\* socket, setsockopt, bind, listen, sigaction.  SO_REUSEADDR lets bind take
\* the port over from connected sockets, never from a socket that listens.
Boot ==
  /\ ppc = "boot"
  /\ ~Held(Listen)
  /\ ppc' = "accept"
  /\ fds' = [fds EXCEPT ![Main] = {Listen}]
  /\ UNCHANGED <<psock, hpc, errno, saved, sigchld, fate, boots,
                 childVars, backlog, clientVars>>

\* One of those calls fails; the program prints the error and returns 1.
BootFails ==
  /\ ppc = "boot"
  /\ \/ ParentEnds("ESETUP")
     \/ Held(Listen) /\ ParentEnds("EADDRINUSE")

Accept ==
  /\ ppc = "accept" /\ hpc = "idle"
  /\ backlog # <<>>
  /\ psock' = Head(backlog)
  /\ backlog' = Tail(backlog)
  /\ fds' = [fds EXCEPT ![Main] = @ \cup {Head(backlog)}]
  /\ ppc' = "fork"
  /\ UNCHANGED <<hpc, errno, saved, sigchld, fate, boots,
                 childVars, clientVars>>

\* accept() returns -1 (no descriptor left, say) ...
AcceptFails ==
  /\ ppc = "accept" /\ hpc = "idle"
  /\ errno' = "EACCEPT"
  /\ ppc' = "report"
  /\ UNCHANGED <<psock, hpc, saved, sigchld, fate, boots,
                 childVars, fds, backlog, clientVars>>

\* ... and the program prints what errno holds by then, and returns 1.
Report ==
  /\ ppc = "report" /\ hpc = "idle"
  /\ ParentEnds(errno)

\* The child gets a copy of the parent's descriptor table.
Fork ==
  /\ ppc = "fork" /\ hpc = "idle"
  /\ cpc' = [cpc EXCEPT ![psock] = "start"]
  /\ fds' = [fds EXCEPT ![psock] = fds[Main]]
  /\ ppc' = "close"
  /\ UNCHANGED <<psock, hpc, errno, saved, sigchld, fate, boots,
                 orphans, backlog, clientVars>>

\* Mutant: "if (fork() <= 0)", the parent itself runs the child's branch.
ForkFailsAsChild ==
  /\ ppc = "fork" /\ hpc = "idle"
  /\ CloseFd(Main, Listen)
  /\ ppc' = "recv"
  /\ UNCHANGED <<psock, hpc, errno, saved, sigchld, fate, boots,
                 childVars, backlog, clientVars>>

\* fork() returns -1, which "if (!fork())" takes for the parent's branch.
ForkFails ==
  /\ ppc = "fork" /\ hpc = "idle"
  /\ ppc' = "close"
  /\ UNCHANGED <<psock, hpc, errno, saved, sigchld, fate, boots,
                 childVars, fds, backlog, clientVars>>

\* close(socket_fd) in the parent; the variable is dead until the next accept.
CloseConn ==
  /\ ppc = "close" /\ hpc = "idle"
  /\ CloseFd(Main, psock)
  /\ psock' = NoConn
  /\ ppc' = "accept"
  /\ UNCHANGED <<hpc, errno, saved, sigchld, fate, boots,
                 childVars, backlog, clientVars>>

-----------------------------------------------------------------------------
(* The parent, interrupted: sigchld_handler().  SIGCHLD is blocked while the *)
(* handler runs, so a child that ends meanwhile leaves it pending.          *)

HandlerEnter ==
  /\ ppc \in Looping /\ hpc = "idle"
  /\ sigchld
  /\ sigchld' = FALSE
  /\ saved' = errno
  /\ hpc' = "reap"
  /\ UNCHANGED <<ppc, psock, errno, fate, boots,
                 childVars, fds, backlog, clientVars>>

\* Mutant: "if" for "while", one dead child per signal.
HandlerReapOnce(c) ==
  /\ hpc = "reap"
  /\ cpc[c] = "zombie"
  /\ cpc' = [cpc EXCEPT ![c] = "gone"]
  /\ hpc' = "restore"
  /\ UNCHANGED <<ppc, psock, errno, saved, sigchld, fate, boots,
                 orphans, fds, backlog, clientVars>>

\* waitpid(-1, NULL, WNOHANG) > 0: one dead child collected, the loop goes on.
HandlerReap(c) ==
  /\ hpc = "reap"
  /\ cpc[c] = "zombie"
  /\ cpc' = [cpc EXCEPT ![c] = "gone"]
  /\ UNCHANGED <<parentVars, orphans, fds, backlog, clientVars>>

\* waitpid finds no dead child: 0 if some are alive, else -1 with ECHILD.
HandlerLast ==
  /\ hpc = "reap"
  /\ \A c \in Clients : cpc[c] # "zombie"
  /\ errno' = IF \E c \in Clients \ orphans : cpc[c] \in Alive
                THEN errno ELSE "ECHILD"
  /\ hpc' = "restore"
  /\ UNCHANGED <<ppc, psock, saved, sigchld, fate, boots,
                 childVars, fds, backlog, clientVars>>

\* Mutant: sa_flags is 0, and the accept() the signal interrupted returns EINTR.
HandlerReturnInterrupts ==
  /\ hpc = "restore"
  /\ ppc' = IF ppc = "accept" THEN "report" ELSE ppc
  /\ errno' = IF ppc = "accept" THEN "EINTR" ELSE saved
  /\ saved' = "none"
  /\ hpc' = "idle"
  /\ UNCHANGED <<psock, sigchld, fate, boots,
                 childVars, fds, backlog, clientVars>>

\* errno is put back.  An accept() the signal interrupted is resumed, for the
\* handler is installed with SA_RESTART.
HandlerReturn ==
  /\ hpc = "restore"
  /\ errno' = saved
  /\ saved' = "none"
  /\ hpc' = "idle"
  /\ UNCHANGED <<ppc, psock, sigchld, fate, boots,
                 childVars, fds, backlog, clientVars>>

-----------------------------------------------------------------------------
(* A child: the branch "if (!fork())" of main().                           *)

\* close(server_fd), before anything else.
ChildStart(c) ==
  /\ cpc[c] = "start"
  /\ CloseFd(c, Listen)
  /\ KeepQueueWhileListening
  /\ cpc' = [cpc EXCEPT ![c] = "recv"]
  /\ UNCHANGED <<parentVars, orphans, clientVars>>

\* Mutant: buffer[bytes_read] is not set to zero, and what an earlier recv() left
\* behind the bytes is parsed with them.
MayMeanAny(reqs, from, to) == Kinds

\* What http_request_from_buffer may take the pieces behind "from" up to "to" for:
\* the request they begin with, if it is there whole (one that cannot be parsed
\* only when nothing follows it); any, if they begin in the middle of a request
\* or it is cut.
MayMean(reqs, from, to) ==
  {k \in Kinds : \A i \in DOMAIN reqs :
     /\ from = Parts * (i - 1) /\ from + Parts <= to
     /\ reqs[i] = "bad" => to = from + Parts
     => k = reqs[i]}

\* recv() returns as many bytes as it likes of those that have been sent, and the
\* bytes are taken for one request.
ChildRecv(c) ==
  /\ cpc[c] = "recv"
  /\ \E n \in got[c] + 1 .. Parts * Len(sent[c]) :
       /\ got' = [got EXCEPT ![c] = n]
       /\ \E k \in MayMean(sent[c], got[c], n) : heard' = [heard EXCEPT ![c] = k]
  /\ cpc' = [cpc EXCEPT ![c] = "serve"]
  /\ UNCHANGED <<parentVars, orphans, fds, backlog, peer, sent, answers>>

\* Mutant: the loop goes on while bytes_read >= 0.
ChildHangupSpins(c) ==
  /\ cpc[c] = "recv"
  /\ peer[c] = "closed"
  /\ UNCHANGED vars

\* recv() returns 0 (the client closed) or -1 (it reset the connection, and
\* what it had sent may be lost): the loop ends.
ChildHangup(c) ==
  /\ cpc[c] = "recv"
  /\ peer[c] = "closed"
  /\ cpc' = [cpc EXCEPT ![c] = "close"]
  /\ UNCHANGED <<parentVars, orphans, fds, backlog, clientVars>>

\* Mutants: should_close is not tested; a bad request does not break.
LoopsAfterClose(k) == k # "bad"
LoopsAfterBad(k) == k # "close"

\* Whether the loop goes round again after the request in hand: not after one
\* it could not parse (break), nor when it set should_close.
LoopsAfter(k) == k = "keep"

\* The request is handled and answered (or send() failed, which log_send only
\* logs): the answer went into the buffers of the socket or the client reads it.
ChildReply(c) ==
  /\ cpc[c] = "serve"
  /\ answers' = [answers EXCEPT
       ![c] = Append(@, [upto |-> got[c], kind |-> heard[c]])]
  /\ cpc' = [cpc EXCEPT ![c] = IF LoopsAfter(heard[c]) THEN "recv" ELSE "close"]
  /\ UNCHANGED <<parentVars, orphans, fds, backlog, peer, sent, got, heard>>

\* send() blocks: the answer is larger than the buffers of the socket, and the
\* client does not read it ...
ChildBlocks(c) ==
  /\ cpc[c] = "serve" /\ peer[c] = "deaf"
  /\ cpc' = [cpc EXCEPT ![c] = "blocked"]
  /\ UNCHANGED <<parentVars, orphans, fds, backlog, clientVars>>

\* ... until the client reads, or closes the connection.
ChildUnblocks(c) ==
  /\ cpc[c] = "blocked" /\ peer[c] # "deaf"
  /\ cpc' = [cpc EXCEPT ![c] = "serve"]
  /\ UNCHANGED <<parentVars, orphans, fds, backlog, clientVars>>

\* The child is killed while it works on a request: SIGPIPE from send() to a
\* client that is gone, or a memory fault.
ChildKilled(c) ==
  /\ cpc[c] = "serve"
  /\ ChildEnds(c)
  /\ UNCHANGED <<ppc, psock, hpc, errno, saved, fate, boots,
                 orphans, clientVars>>

ChildClose(c) ==
  /\ cpc[c] = "close"
  /\ CloseFd(c, c)
  /\ cpc' = [cpc EXCEPT ![c] = "exit"]
  /\ UNCHANGED <<parentVars, orphans, backlog, clientVars>>

ChildExit(c) ==
  /\ cpc[c] = "exit"
  /\ ChildEnds(c)
  /\ UNCHANGED <<ppc, psock, hpc, errno, saved, fate, boots,
                 orphans, clientVars>>

-----------------------------------------------------------------------------
(* The environment: clients, and whoever starts and stops the program.      *)

\* The connection is established by the kernel, before accept() sees it.
Connect(c) ==
  /\ peer[c] = "idle"
  /\ Held(Listen) /\ Len(backlog) < Backlog
  /\ peer' = [peer EXCEPT ![c] = "open"]
  /\ backlog' = Append(backlog, c)
  /\ UNCHANGED <<parentVars, childVars, fds, sent, got, heard, answers>>

SendRequest(c, k) ==
  /\ peer[c] \in {"open", "deaf"}
  /\ Queued(c) \/ Held(c)
  /\ Len(sent[c]) < MaxSends
  /\ sent' = [sent EXCEPT ![c] = Append(@, k)]
  /\ UNCHANGED <<parentVars, childVars, fds, backlog, peer, got, heard, answers>>

\* The client reads nothing for a while, or again.
StopReading(c) ==
  /\ c \in Deaf /\ peer[c] = "open"
  /\ peer' = [peer EXCEPT ![c] = "deaf"]
  /\ UNCHANGED <<parentVars, childVars, fds, backlog, sent, got, heard, answers>>

ReadAgain(c) ==
  /\ peer[c] = "deaf"
  /\ peer' = [peer EXCEPT ![c] = "open"]
  /\ UNCHANGED <<parentVars, childVars, fds, backlog, sent, got, heard, answers>>

\* It closes the connection, in both directions.
HangUp(c) ==
  /\ peer[c] \in {"open", "deaf"}
  /\ peer' = [peer EXCEPT ![c] = "closed"]
  /\ UNCHANGED <<parentVars, childVars, fds, backlog, sent, got, heard, answers>>

\* The parent is killed, wherever it is.
Kill ==
  /\ ppc # "down"
  /\ ParentEnds("killed")

Restart ==
  /\ ppc = "down"
  /\ boots < MaxBoots
  /\ boots' = boots + 1
  /\ ppc' = "boot" /\ fate' = "running"
  /\ UNCHANGED <<psock, hpc, errno, saved, sigchld,
                 childVars, fds, backlog, clientVars>>

-----------------------------------------------------------------------------

MainStep ==
  \/ Boot \/ BootFails
  \/ Accept \/ Report
  \/ Fork \/ ForkFails
  \/ CloseConn

HandlerStep ==
  \/ HandlerEnter
  \/ \E c \in Clients : HandlerReap(c)
  \/ HandlerLast
  \/ HandlerReturn

ChildStep(c) ==
  \/ ChildStart(c)
  \/ ChildRecv(c) \/ ChildHangup(c)
  \/ ChildReply(c) \/ ChildBlocks(c) \/ ChildUnblocks(c) \/ ChildKilled(c)
  \/ ChildClose(c) \/ ChildExit(c)

Environment ==
  \/ AcceptFails
  \/ Kill \/ Restart
  \/ \E c \in Clients :
       \/ Connect(c) \/ StopReading(c) \/ ReadAgain(c) \/ HangUp(c)
       \/ \E k \in Kinds : SendRequest(c, k)

Next ==
  \/ MainStep
  \/ HandlerStep
  \/ \E c \in Clients : ChildStep(c)
  \/ Environment

Spec == Init /\ [][Next]_vars

\* Every process that can run is scheduled; a pending signal is delivered.
\* Nothing is asked of clients, of failures or of whoever restarts the program.
Fairness ==
  /\ WF_vars(MainStep)
  /\ WF_vars(HandlerStep)
  /\ \A c \in Clients : WF_vars(ChildStep(c))

FairSpec == Spec /\ Fairness

-----------------------------------------------------------------------------
(* Properties.                                                             *)

\* The descriptors each process has open, by where it is: the parent keeps no
\* connection once it is back in accept (nor after a failed fork), a child has
\* its own connection only, never one of another client, and the listening
\* socket only until its first statement; a process that ended has nothing.
DescriptorTable ==
  /\ ppc \in {"boot", "down"} => fds[Main] = {}
  /\ ppc \in {"accept", "report"} => fds[Main] = {Listen}
  /\ ppc \in {"fork", "close"} => fds[Main] = {Listen, psock}
  /\ \A c \in Clients :
       /\ cpc[c] = "start" => fds[c] = {Listen, c}
       /\ cpc[c] \in {"recv", "serve", "blocked", "close"} => fds[c] = {c}
       /\ cpc[c] \in {"none", "exit", "zombie", "gone"} => fds[c] = {}

\* No zombie is ever forgotten: while one waits for its parent, the signal is
\* pending or the handler has yet to make its last call of waitpid.  (Signals
\* do not count children: two that end together leave one SIGCHLD.)
ZombieHasWakeup ==
  (\E c \in Clients : cpc[c] = "zombie") => sigchld \/ hpc = "reap"

\* The program ends because it is killed or because a system call failed, and
\* prints the error of that call: never the ECHILD its handler ran into, and
\* never because the death of a child interrupted accept().
EndsForItsOwnReason ==
  fate \in {"running", "killed", "ESETUP", "EADDRINUSE", "EACCEPT"}

\* Whatever recv() makes of the requests of a client, each run of bytes it returned
\* is answered once, in order, and none after an answer that ends the loop: a child
\* that is reading has answered all it read, and all of that lets the loop go
\* round; and a request that came whole, at the head of such a run, was taken for
\* what it is.
LoopAnswersEach ==
  \A c \in Clients :
    /\ cpc[c] = "recv" => Upto(answers[c]) = got[c]
    /\ cpc[c] \in {"serve", "blocked"} =>
         /\ Upto(answers[c]) < got[c]
         /\ heard[c] \in MayMean(sent[c], Upto(answers[c]), got[c])
    /\ got[c] <= Parts * Len(sent[c])
    /\ \A i \in DOMAIN answers[c] :
         LET before == IF i = 1 THEN 0 ELSE answers[c][i - 1].upto
         IN  /\ before < answers[c][i].upto /\ answers[c][i].upto <= got[c]
             /\ answers[c][i].kind \in MayMean(sent[c], before, answers[c][i].upto)
             /\ answers[c][i].kind = "keep"
                  \/ (i = Len(answers[c])
                        /\ cpc[c] \notin {"recv", "serve", "blocked"})

\* The comment at src/src/main.c:77 promises that a program restarted often
\* does not run into "Address already in use".
RestartFindsPortFree == fate # "EADDRINUSE"

\* A client is let go: one that closed its end is in the end neither in the queue
\* nor held by any process, also when it had not read its answer; and one that asked
\* to close, or sent what cannot be parsed, is not held any more even if it keeps
\* its end open, unless it does not read the answer.
ClientsLetGo ==
  \A c \in Clients :
    /\ peer[c] = "closed" ~> ~Held(c) /\ ~Queued(c)
    /\ (cpc[c] = "serve" /\ heard[c] # "keep") ~> ~Held(c) \/ peer[c] = "deaf"

\* Every child that ended is collected, whatever signals were merged.
ZombiesCollected ==
  \A c \in Clients : cpc[c] = "zombie" ~> cpc[c] = "gone"

\* The listening socket is served or closed: a client in the queue is accepted or
\* reset, not left there by a parent that ended; and a program that ended gives
\* its port back, even to a restart that comes while children of the old one
\* still serve, for none of them keeps it listening.
QueueAndPortFreed ==
  /\ \A c \in Clients : Queued(c) ~> ~Queued(c)
  /\ ppc = "down" ~> ~Held(Listen) \/ ppc # "down"

\* The sessions the clients see.
SessionPhase ==
  [c \in Clients |-> CASE peer[c] = "idle" -> "away"
                       [] Queued(c)        -> "waiting"
                       [] Held(c)          -> "open"
                       [] OTHER            -> "over"]

Promise == INSTANCE Sessions WITH phase <- SessionPhase, asked <- sent

\* The processes together keep the promise of the module Sessions.
KeepsPromise == Promise!Spec

=============================================================================
