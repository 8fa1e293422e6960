---------------------------- MODULE ServerProofs ----------------------------
(***************************************************************************)
(* What Server keeps true for any number of clients, any queue length and   *)
(* any number of requests and restarts.                                     *)
(***************************************************************************)
EXTENDS Server, SequenceTheorems, TLAPS

-----------------------------------------------------------------------------
(* Type correctness.                                                       *)

\* The queue of the listening socket keeps its type when a process ends.
LEMMA QueueType ==
  ASSUME backlog \in Seq(Clients), KeepQueueWhileListening
  PROVE  backlog' \in Seq(Clients)
<1>1. <<>> \in Seq(Clients)
  OBVIOUS
<1> QED
  BY <1>1 DEF KeepQueueWhileListening

\* A child that ends leaves the variables it touches with their types.
LEMMA ChildEndsType ==
  ASSUME TypeOK, NEW c \in Clients, ChildEnds(c)
  PROVE  /\ sigchld' \in BOOLEAN
         /\ cpc' \in [Clients -> Alive \cup {"none", "zombie", "gone"}]
         /\ fds' \in [Procs -> SUBSET Fds]
         /\ backlog' \in Seq(Clients)
<1>1. sigchld' \in BOOLEAN
  BY DEF TypeOK, ChildEnds
<1>2. cpc' \in [Clients -> Alive \cup {"none", "zombie", "gone"}]
  BY DEF TypeOK, ChildEnds
<1>3. fds' \in [Procs -> SUBSET Fds]
  BY DEF TypeOK, ChildEnds
<1>4. backlog' \in Seq(Clients)
  BY QueueType DEF TypeOK, ChildEnds
<1> QED
  BY <1>1, <1>2, <1>3, <1>4

\* So does the parent when it ends, whatever the reason it gives.
LEMMA ParentEndsType ==
  ASSUME TypeOK, NEW r \in {"killed", "EADDRINUSE", "ESETUP",
                            "none", "EACCEPT", "ECHILD", "EINTR"},
         ParentEnds(r)
  PROVE  TypeOK'
<1>1. backlog' \in Seq(Clients)
  BY QueueType DEF TypeOK, ParentEnds
<1>2. cpc' \in [Clients -> Alive \cup {"none", "zombie", "gone"}]
  BY DEF TypeOK, ParentEnds
<1>3. orphans' \in SUBSET Clients
  BY DEF TypeOK, ParentEnds
<1>4. fds' \in [Procs -> SUBSET Fds]
  BY DEF TypeOK, ParentEnds
<1> QED
  BY <1>1, <1>2, <1>3, <1>4 DEF TypeOK, ParentEnds, clientVars

\* Every action of the module Server keeps the types.
LEMMA TypeOKStep == TypeOK /\ [Next]_vars => TypeOK'
<1> SUFFICES ASSUME TypeOK, [Next]_vars PROVE TypeOK'
  OBVIOUS
<1> USE ServerAssumption
<1> USE DEF Procs, Fds, Looping, Alive, Kinds,
            vars, parentVars, childVars, clientVars
<1>1. CASE Boot
  BY <1>1 DEF Boot, TypeOK
<1>2. CASE BootFails
  BY <1>2, ParentEndsType DEF BootFails
<1>3. CASE Accept
  BY <1>3 DEF Accept, TypeOK
<1>4. CASE Report
  BY <1>4, ParentEndsType DEF Report, TypeOK
<1>5. CASE Fork
  BY <1>5 DEF Fork, TypeOK
<1>6. CASE ForkFails
  BY <1>6 DEF ForkFails, TypeOK
<1>7. CASE CloseConn
  BY <1>7 DEF CloseConn, CloseFd, TypeOK
<1>8. CASE HandlerEnter
  BY <1>8 DEF HandlerEnter, TypeOK
<1>9. ASSUME NEW c \in Clients, HandlerReap(c) PROVE TypeOK'
  BY <1>9 DEF HandlerReap, TypeOK
<1>10. CASE HandlerLast
  BY <1>10 DEF HandlerLast, TypeOK
<1>11. CASE HandlerReturn
  BY <1>11 DEF HandlerReturn, TypeOK
<1>12. ASSUME NEW c \in Clients, ChildStart(c) PROVE TypeOK'
  BY <1>12 DEF ChildStart, CloseFd, KeepQueueWhileListening, TypeOK
<1>13. ASSUME NEW c \in Clients, ChildRecv(c) PROVE TypeOK'
  <2>1. PICK n \in got[c] + 1 .. Parts * Len(sent[c]) :
          /\ got' = [got EXCEPT ![c] = n]
          /\ \E k \in MayMean(sent[c], got[c], n) : heard' = [heard EXCEPT ![c] = k]
    BY <1>13 DEF ChildRecv
  <2>2. /\ n \in Nat
        /\ \E k \in Kinds : heard' = [heard EXCEPT ![c] = k]
    <3>1. got[c] \in Nat /\ Parts * Len(sent[c]) \in Nat
      BY LenProperties DEF TypeOK
    <3>2. n \in Nat
      BY <3>1
    <3>3. MayMean(sent[c], got[c], n) \subseteq Kinds
      BY DEF MayMean
    <3> QED
      BY <2>1, <3>2, <3>3
  <2>3. got' \in [Clients -> Nat] /\ heard' \in [Clients -> Kinds]
    BY <2>1, <2>2 DEF TypeOK
  <2> QED
    BY <1>13, <2>3 DEF ChildRecv, TypeOK
<1>14. ASSUME NEW c \in Clients, ChildHangup(c) PROVE TypeOK'
  BY <1>14 DEF ChildHangup, TypeOK
<1>15. ASSUME NEW c \in Clients, ChildReply(c) PROVE TypeOK'
  <2>1. [upto |-> got[c], kind |-> heard[c]] \in Replies
    BY DEF TypeOK, Replies
  <2>2. answers' \in [Clients -> Seq(Replies)]
    BY <1>15, <2>1, AppendProperties DEF ChildReply, TypeOK
  <2> QED
    BY <1>15, <2>2 DEF ChildReply, TypeOK
<1>16. ASSUME NEW c \in Clients, ChildKilled(c) PROVE TypeOK'
  <2>1. ChildEnds(c)
    BY <1>16 DEF ChildKilled
  <2>2. /\ sigchld' \in BOOLEAN
        /\ cpc' \in [Clients -> Alive \cup {"none", "zombie", "gone"}]
        /\ fds' \in [Procs -> SUBSET Fds]
        /\ backlog' \in Seq(Clients)
    BY <2>1, ChildEndsType
  <2> QED
    BY <1>16, <2>2 DEF ChildKilled, TypeOK
<1>17. ASSUME NEW c \in Clients, ChildClose(c) PROVE TypeOK'
  BY <1>17 DEF ChildClose, CloseFd, TypeOK
<1>18. ASSUME NEW c \in Clients, ChildExit(c) PROVE TypeOK'
  <2>1. ChildEnds(c)
    BY <1>18 DEF ChildExit
  <2>2. /\ sigchld' \in BOOLEAN
        /\ cpc' \in [Clients -> Alive \cup {"none", "zombie", "gone"}]
        /\ fds' \in [Procs -> SUBSET Fds]
        /\ backlog' \in Seq(Clients)
    BY <2>1, ChildEndsType
  <2> QED
    BY <1>18, <2>2 DEF ChildExit, TypeOK
<1>19. CASE AcceptFails
  BY <1>19 DEF AcceptFails, TypeOK
<1>20. CASE Kill
  BY <1>20, ParentEndsType DEF Kill
<1>21. CASE Restart
  BY <1>21 DEF Restart, TypeOK
<1>22. ASSUME NEW c \in Clients, Connect(c) PROVE TypeOK'
  BY <1>22 DEF Connect, TypeOK
<1>23. ASSUME NEW c \in Clients, HangUp(c) PROVE TypeOK'
  BY <1>23 DEF HangUp, TypeOK
<1>24. ASSUME NEW c \in Clients, NEW k \in Kinds, SendRequest(c, k)
       PROVE TypeOK'
  BY <1>24 DEF SendRequest, TypeOK
<1>25. CASE UNCHANGED vars
  BY <1>25 DEF TypeOK
<1>26. ASSUME NEW c \in Clients, ChildBlocks(c) PROVE TypeOK'
  BY <1>26 DEF ChildBlocks, TypeOK
<1>27. ASSUME NEW c \in Clients, ChildUnblocks(c) PROVE TypeOK'
  BY <1>27 DEF ChildUnblocks, TypeOK
<1>28. ASSUME NEW c \in Clients, StopReading(c) PROVE TypeOK'
  BY <1>28 DEF StopReading, TypeOK
<1>29. ASSUME NEW c \in Clients, ReadAgain(c) PROVE TypeOK'
  BY <1>29 DEF ReadAgain, TypeOK
<1> QED
  BY <1>1, <1>2, <1>3, <1>4, <1>5, <1>6, <1>7, <1>8, <1>9, <1>10, <1>11,
     <1>12, <1>13, <1>14, <1>15, <1>16, <1>17, <1>18, <1>19, <1>20, <1>21,
     <1>22, <1>23, <1>24, <1>25, <1>26, <1>27, <1>28, <1>29
     DEF Next, MainStep, HandlerStep, ChildStep, Environment

\* The variables of Server have the types TypeOK says, in every behaviour.
THEOREM TypeCorrect == Spec => []TypeOK
<1>1. ASSUME Init PROVE TypeOK
  <2>1. backlog \in Seq(Clients) /\ sent \in [Clients -> Seq(Kinds)]
    BY <1>1 DEF Init
  <2>2. sigchld \in BOOLEAN
    BY <1>1 DEF Init
  <2>3. boots \in 1 .. MaxBoots
    BY <1>1, ServerAssumption DEF Init
  <2>4. /\ got \in [Clients -> Nat] /\ answers \in [Clients -> Seq(Replies)]
        /\ heard \in [Clients -> Kinds]
    BY <1>1 DEF Init, Kinds
  <2> QED
    BY <1>1, <2>1, <2>2, <2>3, <2>4 DEF Init, TypeOK, Looping, Alive
<1> QED
  BY <1>1, TypeOKStep, PTL DEF Spec

-----------------------------------------------------------------------------
(* Who owns a connection, and the descriptor tables.                       *)

\* A connection is queued once, then in the parent's hands, then its child's:
\* what makes "the child of connection c" and its descriptors well defined.
Ownership ==
  /\ \A i \in DOMAIN backlog :
       cpc[backlog[i]] = "none" /\ peer[backlog[i]] # "idle"
  /\ \A i, j \in DOMAIN backlog : backlog[i] = backlog[j] => i = j
  /\ ppc \in {"fork", "close"} => psock \in Clients
  /\ ppc = "fork" => /\ cpc[psock] = "none" /\ peer[psock] # "idle"
                     /\ ~Queued(psock)
  /\ \A c \in Clients : cpc[c] # "none" => peer[c] # "idle"

\* The end of the parent keeps who owns which connection.
LEMMA ParentEndsOwnership ==
  ASSUME TypeOK, Ownership, NEW r, ParentEnds(r)
  PROVE  Ownership'
<1>1. backlog' = backlog \/ backlog' = <<>>
  BY DEF ParentEnds, KeepQueueWhileListening
<1>2. ppc' = "down" /\ peer' = peer
  BY DEF ParentEnds, clientVars
<1>3. \A c \in Clients : cpc'[c] = "none" <=> cpc[c] = "none"
  BY DEF ParentEnds, TypeOK
<1>4. \A i \in DOMAIN backlog : backlog[i] \in Clients
  BY DEF TypeOK
<1> QED
  BY <1>1, <1>2, <1>3, <1>4 DEF Ownership

\* The end of a child keeps who owns which connection.
LEMMA ChildEndsOwnership ==
  ASSUME TypeOK, Ownership, NEW c \in Clients, cpc[c] \in Alive, ChildEnds(c),
         UNCHANGED <<ppc, psock, peer>>
  PROVE  Ownership'
<1>1. backlog' = backlog \/ backlog' = <<>>
  BY DEF ChildEnds, KeepQueueWhileListening
<1>2. /\ cpc' \in [Clients -> Alive \cup {"none", "zombie", "gone"}]
      /\ \A d \in Clients \ {c} : cpc'[d] = cpc[d]
      /\ cpc'[c] # "none"
  BY DEF TypeOK, ChildEnds
<1>3. /\ \A i \in DOMAIN backlog : backlog[i] # c /\ backlog[i] \in Clients
      /\ ppc = "fork" => psock # c
  BY DEF TypeOK, Ownership, Alive
<1> QED
  BY <1>1, <1>2, <1>3 DEF TypeOK, Ownership, Queued, Alive

\* Ownership is inductive relative to the types.
LEMMA OwnershipStep == TypeOK /\ Ownership /\ [Next]_vars => Ownership'
<1> SUFFICES ASSUME TypeOK, Ownership, [Next]_vars PROVE Ownership'
  OBVIOUS
<1> USE ServerAssumption
<1> USE DEF vars, parentVars, childVars, clientVars, Queued
<1>1. CASE Boot
  BY <1>1 DEF Boot, TypeOK, Ownership
<1>2. CASE BootFails
  BY <1>2, ParentEndsOwnership DEF BootFails
<1>3. CASE Accept
  <2>1. /\ psock' = backlog[1] /\ psock' \in Clients
        /\ Len(backlog) \in Nat \ {0} /\ DOMAIN backlog = 1 .. Len(backlog)
        /\ DOMAIN backlog' = 1 .. (Len(backlog) - 1)
        /\ \A i \in DOMAIN backlog' : backlog'[i] = backlog[i + 1]
    BY <1>3, HeadTailProperties, LenProperties, EmptySeq DEF Accept, TypeOK
  <2>2. \A i \in DOMAIN backlog' : i + 1 \in DOMAIN backlog /\ i + 1 # 1
    BY <2>1
  <2>3. 1 \in DOMAIN backlog
    BY <2>1
  <2>4. \A i \in DOMAIN backlog' : backlog'[i] # psock'
    BY <2>1, <2>2, <2>3 DEF Ownership
  <2>5. \A i, j \in DOMAIN backlog' : backlog'[i] = backlog'[j] => i = j
    <3> SUFFICES ASSUME NEW i \in DOMAIN backlog', NEW j \in DOMAIN backlog',
                        backlog'[i] = backlog'[j]
                 PROVE  i = j
      OBVIOUS
    <3>1. i + 1 = j + 1
      BY <2>1, <2>2 DEF Ownership
    <3> QED
      BY <3>1, <2>1
  <2>6. cpc' = cpc /\ peer' = peer /\ ppc' = "fork"
    BY <1>3 DEF Accept
  <2>7. \A i \in DOMAIN backlog' :
          cpc'[backlog'[i]] = "none" /\ peer'[backlog'[i]] # "idle"
    BY <2>1, <2>2, <2>6 DEF Ownership
  <2>8. cpc'[psock'] = "none" /\ peer'[psock'] # "idle"
    BY <2>1, <2>3, <2>6 DEF Ownership
  <2> QED
    BY <2>1, <2>4, <2>5, <2>6, <2>7, <2>8 DEF Ownership
<1>4. CASE Report
  BY <1>4, ParentEndsOwnership DEF Report
<1>5. CASE Fork
  BY <1>5 DEF Fork, TypeOK, Ownership
<1>6. CASE ForkFails
  BY <1>6 DEF ForkFails, TypeOK, Ownership
<1>7. CASE CloseConn
  BY <1>7 DEF CloseConn, TypeOK, Ownership
<1>8. CASE HandlerEnter
  BY <1>8 DEF HandlerEnter, TypeOK, Ownership
<1>9. ASSUME NEW c \in Clients, HandlerReap(c) PROVE Ownership'
  BY <1>9 DEF HandlerReap, TypeOK, Ownership
<1>10. CASE HandlerLast
  BY <1>10 DEF HandlerLast, TypeOK, Ownership
<1>11. CASE HandlerReturn
  BY <1>11 DEF HandlerReturn, TypeOK, Ownership
<1>12. ASSUME NEW c \in Clients, ChildStart(c) PROVE Ownership'
  BY <1>12 DEF ChildStart, CloseFd, KeepQueueWhileListening,
         TypeOK, Ownership
<1>13. ASSUME NEW c \in Clients, ChildRecv(c) PROVE Ownership'
  BY <1>13 DEF ChildRecv, TypeOK, Ownership
<1>14. ASSUME NEW c \in Clients, ChildHangup(c) PROVE Ownership'
  BY <1>14 DEF ChildHangup, TypeOK, Ownership
<1>15. ASSUME NEW c \in Clients, ChildReply(c) PROVE Ownership'
  BY <1>15 DEF ChildReply, TypeOK, Ownership
<1>16. ASSUME NEW c \in Clients, ChildKilled(c) PROVE Ownership'
  BY <1>16, ChildEndsOwnership DEF ChildKilled, Alive
<1>17. ASSUME NEW c \in Clients, ChildClose(c) PROVE Ownership'
  BY <1>17 DEF ChildClose, TypeOK, Ownership
<1>18. ASSUME NEW c \in Clients, ChildExit(c) PROVE Ownership'
  BY <1>18, ChildEndsOwnership DEF ChildExit, Alive
<1>19. CASE AcceptFails
  BY <1>19 DEF AcceptFails, TypeOK, Ownership
<1>20. CASE Kill
  BY <1>20, ParentEndsOwnership DEF Kill
<1>21. CASE Restart
  BY <1>21 DEF Restart, TypeOK, Ownership
<1>22. ASSUME NEW c \in Clients, Connect(c) PROVE Ownership'
  <2>1. /\ Len(backlog) \in Nat /\ DOMAIN backlog = 1 .. Len(backlog)
        /\ backlog' = Append(backlog, c)
        /\ DOMAIN backlog' = 1 .. (Len(backlog) + 1)
        /\ \A i \in DOMAIN backlog : backlog'[i] = backlog[i]
        /\ backlog'[Len(backlog) + 1] = c
    <3>1. backlog \in Seq(Clients) /\ backlog' = Append(backlog, c)
      BY <1>22 DEF Connect, TypeOK
    <3>2. /\ backlog' \in Seq(Clients) /\ Len(backlog') = Len(backlog) + 1
          /\ \A i \in 1 .. Len(backlog) : backlog'[i] = backlog[i]
          /\ backlog'[Len(backlog) + 1] = c
      BY <3>1, AppendProperties
    <3> QED
      BY <3>1, <3>2, LenProperties
  <2>2. /\ cpc' = cpc /\ ppc' = ppc /\ psock' = psock
        /\ peer[c] = "idle" /\ peer' = [peer EXCEPT ![c] = "open"]
        /\ peer \in [Clients -> {"idle", "open", "deaf", "closed"}]
    BY <1>22 DEF Connect, TypeOK
  <2>3. \A i \in DOMAIN backlog : backlog[i] # c /\ backlog[i] \in Clients
    BY <2>2 DEF Ownership, TypeOK
  <2>4. cpc[c] = "none" /\ (ppc = "fork" => psock # c)
    BY <2>2 DEF Ownership
  <2>5. \A i \in DOMAIN backlog' :
          cpc'[backlog'[i]] = "none" /\ peer'[backlog'[i]] # "idle"
    BY <2>1, <2>2, <2>3, <2>4 DEF Ownership
  <2>6. \A i, j \in DOMAIN backlog' : backlog'[i] = backlog'[j] => i = j
    <3> SUFFICES ASSUME NEW i \in DOMAIN backlog', NEW j \in DOMAIN backlog',
                        backlog'[i] = backlog'[j]
                 PROVE  i = j
      OBVIOUS
    <3>1. CASE i \in DOMAIN backlog /\ j \in DOMAIN backlog
      BY <3>1, <2>1 DEF Ownership
    <3>2. \A m \in DOMAIN backlog' :
            m \notin DOMAIN backlog => m = Len(backlog) + 1
      <4>1. \A n \in Nat : \A m \in 1 .. (n + 1) : m \notin 1 .. n => m = n + 1
        OBVIOUS
      <4>2. /\ Len(backlog) \in Nat /\ DOMAIN backlog = 1 .. Len(backlog)
            /\ DOMAIN backlog' = 1 .. (Len(backlog) + 1)
        BY <2>1
      <4> QED
        BY ONLY <4>1, <4>2
    <3>3. \A m \in DOMAIN backlog : backlog'[m] # c
      BY <2>1, <2>3
    <3>4. CASE i \notin DOMAIN backlog \/ j \notin DOMAIN backlog
      BY <3>2, <3>3, <3>4, <2>1
    <3> QED
      BY <3>1, <3>4
  <2> QED
    BY <2>1, <2>2, <2>3, <2>4, <2>5, <2>6 DEF Ownership
<1>23. ASSUME NEW c \in Clients, HangUp(c) PROVE Ownership'
  BY <1>23 DEF HangUp, TypeOK, Ownership
<1>24. ASSUME NEW c \in Clients, NEW k \in Kinds, SendRequest(c, k)
       PROVE Ownership'
  BY <1>24 DEF SendRequest, TypeOK, Ownership
<1>25. CASE UNCHANGED vars
  BY <1>25 DEF Ownership
<1>26. ASSUME NEW c \in Clients, ChildBlocks(c) PROVE Ownership'
  BY <1>26 DEF ChildBlocks, TypeOK, Ownership
<1>27. ASSUME NEW c \in Clients, ChildUnblocks(c) PROVE Ownership'
  BY <1>27 DEF ChildUnblocks, TypeOK, Ownership
<1>28. ASSUME NEW c \in Clients, StopReading(c) PROVE Ownership'
  BY <1>28 DEF StopReading, TypeOK, Ownership
<1>29. ASSUME NEW c \in Clients, ReadAgain(c) PROVE Ownership'
  BY <1>29 DEF ReadAgain, TypeOK, Ownership
<1> QED
  BY <1>1, <1>2, <1>3, <1>4, <1>5, <1>6, <1>7, <1>8, <1>9, <1>10, <1>11, <1>12, <1>13, <1>14, <1>15, <1>16, <1>17, <1>18, <1>19, <1>20, <1>21, <1>22, <1>23, <1>24, <1>25, <1>26, <1>27, <1>28, <1>29
     DEF Next, MainStep, HandlerStep, ChildStep, Environment

\* The end of the parent keeps the descriptor tables as they should be.
LEMMA ParentEndsTable ==
  ASSUME TypeOK, DescriptorTable, NEW r, ParentEnds(r)
  PROVE  DescriptorTable'
  BY ServerAssumption
     DEF TypeOK, DescriptorTable, ParentEnds, clientVars, Procs, Looping, Alive

\* The end of a child keeps the descriptor tables as they should be.
LEMMA ChildEndsTable ==
  ASSUME TypeOK, DescriptorTable, NEW c \in Clients, ChildEnds(c),
         UNCHANGED <<ppc, psock>>
  PROVE  DescriptorTable'
  BY ServerAssumption DEF TypeOK, DescriptorTable, ChildEnds, Procs, Alive

\* The descriptor table is inductive relative to ownership.
LEMMA TableStep ==
  TypeOK /\ Ownership /\ DescriptorTable /\ [Next]_vars => DescriptorTable'
<1> SUFFICES ASSUME TypeOK, Ownership, DescriptorTable, [Next]_vars
             PROVE DescriptorTable'
  OBVIOUS
<1> USE ServerAssumption
<1> USE DEF vars, parentVars, childVars, clientVars, Procs
<1>1. CASE Boot
  BY <1>1 DEF Boot, TypeOK, DescriptorTable
<1>2. CASE BootFails
  BY <1>2, ParentEndsTable DEF BootFails
<1>3. CASE Accept
  BY <1>3 DEF Accept, TypeOK, DescriptorTable
<1>4. CASE Report
  BY <1>4, ParentEndsTable DEF Report
<1>5. CASE Fork
  BY <1>5 DEF Fork, TypeOK, Ownership, DescriptorTable
<1>6. CASE ForkFails
  BY <1>6 DEF ForkFails, TypeOK, DescriptorTable
<1>7. CASE CloseConn
  BY <1>7 DEF CloseConn, CloseFd, TypeOK, Ownership, DescriptorTable
<1>8. CASE HandlerEnter
  BY <1>8 DEF HandlerEnter, TypeOK, DescriptorTable
<1>9. ASSUME NEW c \in Clients, HandlerReap(c) PROVE DescriptorTable'
  BY <1>9 DEF HandlerReap, TypeOK, DescriptorTable
<1>10. CASE HandlerLast
  BY <1>10 DEF HandlerLast, TypeOK, DescriptorTable
<1>11. CASE HandlerReturn
  BY <1>11 DEF HandlerReturn, TypeOK, DescriptorTable
<1>12. ASSUME NEW c \in Clients, ChildStart(c) PROVE DescriptorTable'
  BY <1>12 DEF ChildStart, CloseFd, TypeOK, DescriptorTable
<1>13. ASSUME NEW c \in Clients, ChildRecv(c) PROVE DescriptorTable'
  BY <1>13 DEF ChildRecv, TypeOK, DescriptorTable
<1>14. ASSUME NEW c \in Clients, ChildHangup(c) PROVE DescriptorTable'
  BY <1>14 DEF ChildHangup, TypeOK, DescriptorTable
<1>15. ASSUME NEW c \in Clients, ChildReply(c) PROVE DescriptorTable'
  BY <1>15 DEF ChildReply, TypeOK, DescriptorTable
<1>16. ASSUME NEW c \in Clients, ChildKilled(c) PROVE DescriptorTable'
  BY <1>16, ChildEndsTable DEF ChildKilled
<1>17. ASSUME NEW c \in Clients, ChildClose(c) PROVE DescriptorTable'
  BY <1>17 DEF ChildClose, CloseFd, TypeOK, DescriptorTable
<1>18. ASSUME NEW c \in Clients, ChildExit(c) PROVE DescriptorTable'
  BY <1>18, ChildEndsTable DEF ChildExit
<1>19. CASE AcceptFails
  BY <1>19 DEF AcceptFails, TypeOK, DescriptorTable
<1>20. CASE Kill
  BY <1>20, ParentEndsTable DEF Kill
<1>21. CASE Restart
  BY <1>21 DEF Restart, TypeOK, DescriptorTable
<1>22. ASSUME NEW c \in Clients, Connect(c) PROVE DescriptorTable'
  BY <1>22 DEF Connect, TypeOK, DescriptorTable
<1>23. ASSUME NEW c \in Clients, HangUp(c) PROVE DescriptorTable'
  BY <1>23 DEF HangUp, TypeOK, DescriptorTable
<1>24. ASSUME NEW c \in Clients, NEW k \in Kinds, SendRequest(c, k)
       PROVE DescriptorTable'
  BY <1>24 DEF SendRequest, TypeOK, DescriptorTable
<1>25. CASE UNCHANGED vars
  BY <1>25 DEF DescriptorTable
<1>26. ASSUME NEW c \in Clients, ChildBlocks(c) PROVE DescriptorTable'
  BY <1>26 DEF ChildBlocks, TypeOK, DescriptorTable
<1>27. ASSUME NEW c \in Clients, ChildUnblocks(c) PROVE DescriptorTable'
  BY <1>27 DEF ChildUnblocks, TypeOK, DescriptorTable
<1>28. ASSUME NEW c \in Clients, StopReading(c) PROVE DescriptorTable'
  BY <1>28 DEF StopReading, TypeOK, DescriptorTable
<1>29. ASSUME NEW c \in Clients, ReadAgain(c) PROVE DescriptorTable'
  BY <1>29 DEF ReadAgain, TypeOK, DescriptorTable
<1> QED
  BY <1>1, <1>2, <1>3, <1>4, <1>5, <1>6, <1>7, <1>8, <1>9, <1>10, <1>11, <1>12, <1>13, <1>14, <1>15, <1>16, <1>17, <1>18, <1>19, <1>20, <1>21, <1>22, <1>23, <1>24, <1>25, <1>26, <1>27, <1>28, <1>29
     DEF Next, MainStep, HandlerStep, ChildStep, Environment

\* No process ever has open a connection that is not its own, whatever was
\* accepted, forked, failed or killed before.
THEOREM DescriptorsCorrect == Spec => []DescriptorTable
<1>1. Init => Ownership /\ DescriptorTable
  BY DEF Init, Ownership, DescriptorTable, Queued, Procs
<1> QED
  BY <1>1, TypeCorrect, OwnershipStep, TableStep, PTL DEF Spec

-----------------------------------------------------------------------------
(* Children that ended.                                                    *)

\* ZombieHasWakeup needs no strengthening: a zombie appears together with the
\* signal, the signal is consumed only by entering the loop that reaps, and
\* that loop is left only when there is no zombie.
LEMMA ZombieStep == TypeOK /\ ZombieHasWakeup /\ [Next]_vars => ZombieHasWakeup'
<1> SUFFICES ASSUME TypeOK, ZombieHasWakeup, [Next]_vars
             PROVE ZombieHasWakeup'
  OBVIOUS
<1> USE DEF vars, parentVars, childVars, ZombieHasWakeup
<1>1. CASE Boot
  BY <1>1 DEF Boot, TypeOK
<1>2. CASE BootFails
  BY <1>2 DEF BootFails, ParentEnds, TypeOK
<1>3. CASE Accept
  BY <1>3 DEF Accept, TypeOK
<1>4. CASE Report
  BY <1>4 DEF Report, ParentEnds, TypeOK
<1>5. CASE Fork
  BY <1>5 DEF Fork, TypeOK
<1>6. CASE ForkFails
  BY <1>6 DEF ForkFails, TypeOK
<1>7. CASE CloseConn
  BY <1>7 DEF CloseConn, TypeOK
<1>8. CASE HandlerEnter
  BY <1>8 DEF HandlerEnter, TypeOK
<1>9. ASSUME NEW c \in Clients, HandlerReap(c) PROVE ZombieHasWakeup'
  BY <1>9 DEF HandlerReap, TypeOK
<1>10. CASE HandlerLast
  BY <1>10 DEF HandlerLast, TypeOK
<1>11. CASE HandlerReturn
  BY <1>11 DEF HandlerReturn, TypeOK
<1>12. ASSUME NEW c \in Clients, ChildStart(c) PROVE ZombieHasWakeup'
  BY <1>12 DEF ChildStart, TypeOK
<1>13. ASSUME NEW c \in Clients, ChildRecv(c) PROVE ZombieHasWakeup'
  BY <1>13 DEF ChildRecv, TypeOK
<1>14. ASSUME NEW c \in Clients, ChildHangup(c) PROVE ZombieHasWakeup'
  BY <1>14 DEF ChildHangup, TypeOK
<1>15. ASSUME NEW c \in Clients, ChildReply(c) PROVE ZombieHasWakeup'
  BY <1>15 DEF ChildReply, TypeOK
<1>16. ASSUME NEW c \in Clients, ChildKilled(c) PROVE ZombieHasWakeup'
  BY <1>16 DEF ChildKilled, ChildEnds, TypeOK
<1>17. ASSUME NEW c \in Clients, ChildClose(c) PROVE ZombieHasWakeup'
  BY <1>17 DEF ChildClose, TypeOK
<1>18. ASSUME NEW c \in Clients, ChildExit(c) PROVE ZombieHasWakeup'
  BY <1>18 DEF ChildExit, ChildEnds, TypeOK
<1>19. CASE AcceptFails
  BY <1>19 DEF AcceptFails, TypeOK
<1>20. CASE Kill
  BY <1>20 DEF Kill, ParentEnds, TypeOK
<1>21. CASE Restart
  BY <1>21 DEF Restart, TypeOK
<1>22. ASSUME NEW c \in Clients, Connect(c) PROVE ZombieHasWakeup'
  BY <1>22 DEF Connect, TypeOK
<1>23. ASSUME NEW c \in Clients, HangUp(c) PROVE ZombieHasWakeup'
  BY <1>23 DEF HangUp, TypeOK
<1>24. ASSUME NEW c \in Clients, NEW k \in Kinds, SendRequest(c, k)
       PROVE ZombieHasWakeup'
  BY <1>24 DEF SendRequest, TypeOK
<1>25. CASE UNCHANGED vars
  BY <1>25
<1>26. ASSUME NEW c \in Clients, ChildBlocks(c) PROVE ZombieHasWakeup'
  BY <1>26 DEF ChildBlocks, TypeOK
<1>27. ASSUME NEW c \in Clients, ChildUnblocks(c) PROVE ZombieHasWakeup'
  BY <1>27 DEF ChildUnblocks, TypeOK
<1>28. ASSUME NEW c \in Clients, StopReading(c) PROVE ZombieHasWakeup'
  BY <1>28 DEF StopReading, TypeOK
<1>29. ASSUME NEW c \in Clients, ReadAgain(c) PROVE ZombieHasWakeup'
  BY <1>29 DEF ReadAgain, TypeOK
<1> QED
  BY <1>1, <1>2, <1>3, <1>4, <1>5, <1>6, <1>7, <1>8, <1>9, <1>10, <1>11,
     <1>12, <1>13, <1>14, <1>15, <1>16, <1>17, <1>18, <1>19, <1>20, <1>21,
     <1>22, <1>23, <1>24, <1>25, <1>26, <1>27, <1>28, <1>29
     DEF Next, MainStep, HandlerStep, ChildStep, Environment

\* A child that ended is never forgotten: SIGCHLD is pending, or the handler
\* has not finished, however many deaths one signal stands for.
THEOREM ZombiesNeverForgotten == Spec => []ZombieHasWakeup
<1>1. Init => ZombieHasWakeup
  BY DEF Init, ZombieHasWakeup
<1> QED
  BY <1>1, TypeCorrect, ZombieStep, PTL DEF Spec

-----------------------------------------------------------------------------
(* The end of the program.                                                 *)

\* Between the failed accept() and the report, the error is in errno, or in
\* the handler's copy of it.
ErrorKept ==
  /\ fate \in {"running", "killed", "ESETUP", "EADDRINUSE", "EACCEPT"}
  /\ ppc = "report" => IF hpc = "idle" THEN errno = "EACCEPT"
                                       ELSE saved = "EACCEPT"

\* Every step keeps the error apart from what the handler does to errno.
LEMMA ErrorStep == TypeOK /\ ErrorKept /\ [Next]_vars => ErrorKept'
<1> SUFFICES ASSUME TypeOK, ErrorKept, [Next]_vars PROVE ErrorKept'
  OBVIOUS
<1> USE DEF vars, parentVars, ErrorKept
<1>1. CASE Boot
  BY <1>1 DEF Boot
<1>2. CASE BootFails
  BY <1>2 DEF BootFails, ParentEnds
<1>3. CASE Accept
  BY <1>3 DEF Accept
<1>4. CASE Report
  BY <1>4 DEF Report, ParentEnds
<1>5. CASE Fork
  BY <1>5 DEF Fork
<1>6. CASE ForkFails
  BY <1>6 DEF ForkFails
<1>7. CASE CloseConn
  BY <1>7 DEF CloseConn
<1>8. CASE HandlerEnter
  BY <1>8 DEF HandlerEnter
<1>9. ASSUME NEW c \in Clients, HandlerReap(c) PROVE ErrorKept'
  BY <1>9 DEF HandlerReap
<1>10. CASE HandlerLast
  BY <1>10 DEF HandlerLast
<1>11. CASE HandlerReturn
  BY <1>11 DEF HandlerReturn
<1>12. ASSUME NEW c \in Clients, ChildStart(c) PROVE ErrorKept'
  BY <1>12 DEF ChildStart
<1>13. ASSUME NEW c \in Clients, ChildRecv(c) PROVE ErrorKept'
  BY <1>13 DEF ChildRecv
<1>14. ASSUME NEW c \in Clients, ChildHangup(c) PROVE ErrorKept'
  BY <1>14 DEF ChildHangup
<1>15. ASSUME NEW c \in Clients, ChildReply(c) PROVE ErrorKept'
  BY <1>15 DEF ChildReply
<1>16. ASSUME NEW c \in Clients, ChildKilled(c) PROVE ErrorKept'
  BY <1>16 DEF ChildKilled
<1>17. ASSUME NEW c \in Clients, ChildClose(c) PROVE ErrorKept'
  BY <1>17 DEF ChildClose
<1>18. ASSUME NEW c \in Clients, ChildExit(c) PROVE ErrorKept'
  BY <1>18 DEF ChildExit
<1>19. CASE AcceptFails
  BY <1>19 DEF AcceptFails
<1>20. CASE Kill
  BY <1>20 DEF Kill, ParentEnds
<1>21. CASE Restart
  BY <1>21 DEF Restart
<1>22. ASSUME NEW c \in Clients, Connect(c) PROVE ErrorKept'
  BY <1>22 DEF Connect
<1>23. ASSUME NEW c \in Clients, HangUp(c) PROVE ErrorKept'
  BY <1>23 DEF HangUp
<1>24. ASSUME NEW c \in Clients, NEW k \in Kinds, SendRequest(c, k)
       PROVE ErrorKept'
  BY <1>24 DEF SendRequest
<1>25. CASE UNCHANGED vars
  BY <1>25
<1>26. ASSUME NEW c \in Clients, ChildBlocks(c) PROVE ErrorKept'
  BY <1>26 DEF ChildBlocks
<1>27. ASSUME NEW c \in Clients, ChildUnblocks(c) PROVE ErrorKept'
  BY <1>27 DEF ChildUnblocks
<1>28. ASSUME NEW c \in Clients, StopReading(c) PROVE ErrorKept'
  BY <1>28 DEF StopReading
<1>29. ASSUME NEW c \in Clients, ReadAgain(c) PROVE ErrorKept'
  BY <1>29 DEF ReadAgain
<1> QED
  BY <1>1, <1>2, <1>3, <1>4, <1>5, <1>6, <1>7, <1>8, <1>9, <1>10, <1>11,
     <1>12, <1>13, <1>14, <1>15, <1>16, <1>17, <1>18, <1>19, <1>20, <1>21,
     <1>22, <1>23, <1>24, <1>25, <1>26, <1>27, <1>28, <1>29
     DEF Next, MainStep, HandlerStep, ChildStep, Environment

\* The error the program prints is the one of the call that failed: neither
\* the handler's waitpid nor the signal that interrupts accept() shows in it.
THEOREM EndIsExplained == Spec => []EndsForItsOwnReason
<1>1. Init => ErrorKept
  BY DEF Init, ErrorKept
<1>2. ErrorKept => EndsForItsOwnReason
  BY DEF ErrorKept, EndsForItsOwnReason
<1> QED
  BY <1>1, <1>2, TypeCorrect, ErrorStep, PTL DEF Spec

-----------------------------------------------------------------------------
(* The loop of a child.                                                    *)

\* What LoopAnswersEach leaves open: a child that has not begun to read.
NothingRead ==
  \A c \in Clients : cpc[c] \in {"none", "start"} => got[c] = 0 /\ answers[c] = <<>>

\* Every step keeps the counters of a connection without a child at zero.
LEMMA NothingReadStep ==
  TypeOK /\ Ownership /\ NothingRead /\ [Next]_vars => NothingRead'
<1> SUFFICES ASSUME TypeOK, Ownership, NothingRead, [Next]_vars
             PROVE NothingRead'
  OBVIOUS
<1> USE DEF vars, parentVars, childVars, clientVars, NothingRead
<1>1. CASE Boot
  BY <1>1 DEF Boot, TypeOK
<1>2. CASE BootFails
  BY <1>2 DEF BootFails, ParentEnds, TypeOK
<1>3. CASE Accept
  BY <1>3 DEF Accept, TypeOK
<1>4. CASE Report
  BY <1>4 DEF Report, ParentEnds, TypeOK
<1>5. CASE Fork
  BY <1>5 DEF Fork, TypeOK, Ownership
<1>6. CASE ForkFails
  BY <1>6 DEF ForkFails, TypeOK
<1>7. CASE CloseConn
  BY <1>7 DEF CloseConn, TypeOK
<1>8. CASE HandlerEnter
  BY <1>8 DEF HandlerEnter, TypeOK
<1>9. ASSUME NEW c \in Clients, HandlerReap(c) PROVE NothingRead'
  BY <1>9 DEF HandlerReap, TypeOK
<1>10. CASE HandlerLast
  BY <1>10 DEF HandlerLast, TypeOK
<1>11. CASE HandlerReturn
  BY <1>11 DEF HandlerReturn, TypeOK
<1>12. ASSUME NEW c \in Clients, ChildStart(c) PROVE NothingRead'
  BY <1>12 DEF ChildStart, TypeOK
<1>13. ASSUME NEW c \in Clients, ChildRecv(c) PROVE NothingRead'
  BY <1>13 DEF ChildRecv, TypeOK
<1>14. ASSUME NEW c \in Clients, ChildHangup(c) PROVE NothingRead'
  BY <1>14 DEF ChildHangup, TypeOK
<1>15. ASSUME NEW c \in Clients, ChildReply(c) PROVE NothingRead'
  BY <1>15 DEF ChildReply, TypeOK
<1>16. ASSUME NEW c \in Clients, ChildKilled(c) PROVE NothingRead'
  BY <1>16 DEF ChildKilled, ChildEnds, TypeOK
<1>17. ASSUME NEW c \in Clients, ChildClose(c) PROVE NothingRead'
  BY <1>17 DEF ChildClose, TypeOK
<1>18. ASSUME NEW c \in Clients, ChildExit(c) PROVE NothingRead'
  BY <1>18 DEF ChildExit, ChildEnds, TypeOK
<1>19. CASE AcceptFails
  BY <1>19 DEF AcceptFails, TypeOK
<1>20. CASE Kill
  BY <1>20 DEF Kill, ParentEnds, TypeOK
<1>21. CASE Restart
  BY <1>21 DEF Restart, TypeOK
<1>22. ASSUME NEW c \in Clients, Connect(c) PROVE NothingRead'
  BY <1>22 DEF Connect, TypeOK
<1>23. ASSUME NEW c \in Clients, HangUp(c) PROVE NothingRead'
  BY <1>23 DEF HangUp, TypeOK
<1>24. ASSUME NEW c \in Clients, NEW k \in Kinds, SendRequest(c, k)
       PROVE NothingRead'
  BY <1>24 DEF SendRequest, TypeOK
<1>25. CASE UNCHANGED vars
  BY <1>25
<1>26. ASSUME NEW c \in Clients, ChildBlocks(c) PROVE NothingRead'
  BY <1>26 DEF ChildBlocks, TypeOK
<1>27. ASSUME NEW c \in Clients, ChildUnblocks(c) PROVE NothingRead'
  BY <1>27 DEF ChildUnblocks, TypeOK
<1>28. ASSUME NEW c \in Clients, StopReading(c) PROVE NothingRead'
  BY <1>28 DEF StopReading, TypeOK
<1>29. ASSUME NEW c \in Clients, ReadAgain(c) PROVE NothingRead'
  BY <1>29 DEF ReadAgain, TypeOK
<1> QED
  BY <1>1, <1>2, <1>3, <1>4, <1>5, <1>6, <1>7, <1>8, <1>9, <1>10, <1>11,
     <1>12, <1>13, <1>14, <1>15, <1>16, <1>17, <1>18, <1>19, <1>20, <1>21,
     <1>22, <1>23, <1>24, <1>25, <1>26, <1>27, <1>28, <1>29
     DEF Next, MainStep, HandlerStep, ChildStep, Environment

\* What an answer must be, given those before it.
ReplyOf(c, i) ==
  LET before == IF i = 1 THEN 0 ELSE answers[c][i - 1].upto
  IN  /\ before < answers[c][i].upto /\ answers[c][i].upto <= got[c]
      /\ answers[c][i].kind \in MayMean(sent[c], before, answers[c][i].upto)
      /\ answers[c][i].kind = "keep"
           \/ (i = Len(answers[c])
                 /\ cpc[c] \notin {"recv", "serve", "blocked"})

\* The conjuncts of LoopAnswersEach for one client.
LoopOf(c) ==
  /\ cpc[c] = "recv" => Upto(answers[c]) = got[c]
  /\ cpc[c] \in {"serve", "blocked"} =>
       /\ Upto(answers[c]) < got[c]
       /\ heard[c] \in MayMean(sent[c], Upto(answers[c]), got[c])
  /\ got[c] <= Parts * Len(sent[c])
  /\ \A i \in DOMAIN answers[c] : ReplyOf(c, i)

\* A step that leaves the client's bytes alone, and its child out of the loop
\* unless it was there, keeps LoopOf.
LEMMA LoopOfKept ==
  ASSUME NEW c \in Clients, LoopOf(c),
         sent'[c] = sent[c], got'[c] = got[c], heard'[c] = heard[c],
         answers'[c] = answers[c],
         \/ cpc'[c] = cpc[c]
         \/ cpc'[c] \notin {"recv", "serve", "blocked"}
         \/ {cpc[c], cpc'[c]} = {"serve", "blocked"}
  PROVE  LoopOf(c)'
<1>1. \A i \in DOMAIN answers'[c] : ReplyOf(c, i)'
  BY DEF LoopOf, ReplyOf, MayMean
<1> QED
  BY <1>1 DEF LoopOf, MayMean

\* What has been answered is some of what has been read, piece by piece: the last
\* answer is the one whose pieces are counted.
LEMMA UptoAppend ==
  ASSUME NEW s \in Seq(Replies), NEW r \in Replies
  PROVE  /\ Upto(Append(s, r)) = r.upto
         /\ Upto(s) = IF Len(Append(s, r)) = 1 THEN 0
                      ELSE Append(s, r)[Len(Append(s, r)) - 1].upto
         /\ Append(s, r)[Len(Append(s, r))] = r
         /\ Len(Append(s, r)) = Len(s) + 1
         /\ DOMAIN Append(s, r) = 1 .. (Len(s) + 1)
         /\ \A i \in DOMAIN s : Append(s, r)[i] = s[i]
<1>1. /\ Append(s, r) \in Seq(Replies) /\ Len(Append(s, r)) = Len(s) + 1
      /\ \A i \in 1 .. Len(s) : Append(s, r)[i] = s[i]
      /\ Append(s, r)[Len(s) + 1] = r
      /\ Len(s) \in Nat /\ DOMAIN s = 1 .. Len(s)
  BY AppendProperties, LenProperties
<1>2. DOMAIN Append(s, r) = 1 .. (Len(s) + 1)
  BY <1>1, LenProperties
<1>3. Append(s, r) # <<>>
  BY <1>1, EmptySeq
<1>4. s = <<>> <=> Len(s) = 0
  BY EmptySeq
<1>5. CASE Len(s) = 0
  BY <1>1, <1>2, <1>3, <1>4, <1>5 DEF Upto
<1>6. CASE Len(s) # 0
  <2>1. (Len(s) + 1) - 1 = Len(s) /\ Len(s) \in 1 .. Len(s) /\ Len(s) + 1 # 1
    BY <1>1, <1>6
  <2>2. Append(s, r)[Len(Append(s, r)) - 1] = s[Len(s)]
    BY <1>1, <2>1
  <2> QED
    BY <1>1, <1>2, <1>3, <1>4, <1>6, <2>1, <2>2 DEF Upto
<1> QED
  BY <1>5, <1>6

\* The pieces of answers are counted in natural numbers.
LEMMA ReplyTypes ==
  ASSUME NEW s \in Seq(Replies)
  PROVE  /\ \A i \in DOMAIN s : s[i].upto \in Nat /\ s[i].kind \in Kinds
         /\ \A i \in DOMAIN s : i # 1 => i - 1 \in DOMAIN s
         /\ Upto(s) \in Nat
<1>1. \A i \in DOMAIN s : s[i] \in Replies
  BY ElementOfSeq, LenProperties
<1>2. \A i \in DOMAIN s : s[i].upto \in Nat /\ s[i].kind \in Kinds
  BY <1>1 DEF Replies
<1>3. Len(s) \in Nat /\ DOMAIN s = 1 .. Len(s)
  BY LenProperties
<1>4. s # <<>> => Len(s) \in DOMAIN s
  <2>1. s # <<>> => Len(s) # 0
    BY EmptySeq
  <2> QED
    BY <1>3, <2>1
<1> QED
  BY <1>2, <1>3, <1>4 DEF Upto

\* A request that is sent changes nothing about the pieces that were there.
LEMMA MayMeanAppend ==
  ASSUME NEW s \in Seq(Kinds), NEW k \in Kinds, NEW from \in Nat, NEW to \in Nat,
         from < to, to <= Parts * Len(s)
  PROVE  MayMean(Append(s, k), from, to) = MayMean(s, from, to)
<1>1. /\ Len(s) \in Nat /\ DOMAIN s = 1 .. Len(s)
      /\ DOMAIN Append(s, k) = 1 .. (Len(s) + 1)
      /\ \A i \in DOMAIN s : Append(s, k)[i] = s[i]
  BY AppendProperties, LenProperties
<1>2. from # Parts * ((Len(s) + 1) - 1)
  BY <1>1, ServerAssumption
<1>3. \A i \in DOMAIN Append(s, k) : from = Parts * (i - 1) => i \in DOMAIN s
  BY <1>1, <1>2
<1>4. \A i \in DOMAIN s : i \in DOMAIN Append(s, k)
  BY <1>1
<1> QED
  BY <1>1, <1>3, <1>4 DEF MayMean

\* Every step keeps the loop of each child in step with its client's requests.
LEMMA LoopStep ==
  TypeOK /\ Ownership /\ NothingRead /\ LoopAnswersEach /\ [Next]_vars
    => LoopAnswersEach'
<1> SUFFICES ASSUME TypeOK, Ownership, NothingRead, [Next]_vars,
                    NEW d \in Clients, LoopOf(d)
             PROVE LoopOf(d)'
  BY DEF LoopAnswersEach, LoopOf, ReplyOf
<1> USE DEF vars, parentVars, childVars, clientVars
<1>1. CASE Boot
  BY <1>1, LoopOfKept DEF Boot, TypeOK
<1>2. CASE BootFails
  BY <1>2, LoopOfKept DEF BootFails, ParentEnds, TypeOK
<1>3. CASE Accept
  BY <1>3, LoopOfKept DEF Accept, TypeOK
<1>4. CASE Report
  BY <1>4, LoopOfKept DEF Report, ParentEnds, TypeOK
<1>5. CASE Fork
  BY <1>5, LoopOfKept DEF Fork, TypeOK, Ownership
<1>6. CASE ForkFails
  BY <1>6, LoopOfKept DEF ForkFails, TypeOK
<1>7. CASE CloseConn
  BY <1>7, LoopOfKept DEF CloseConn, TypeOK
<1>8. CASE HandlerEnter
  BY <1>8, LoopOfKept DEF HandlerEnter, TypeOK
<1>9. ASSUME NEW c \in Clients, HandlerReap(c) PROVE LoopOf(d)'
  BY <1>9, LoopOfKept DEF HandlerReap, TypeOK
<1>10. CASE HandlerLast
  BY <1>10, LoopOfKept DEF HandlerLast, TypeOK
<1>11. CASE HandlerReturn
  BY <1>11, LoopOfKept DEF HandlerReturn, TypeOK
<1>12. ASSUME NEW c \in Clients, ChildStart(c) PROVE LoopOf(d)'
  <2>1. CASE c # d
    BY <1>12, <2>1, LoopOfKept DEF ChildStart, TypeOK
  <2>2. CASE c = d
    <3>1. /\ got[d] = 0 /\ answers[d] = <<>> /\ cpc'[d] = "recv"
          /\ got' = got /\ answers' = answers /\ sent' = sent
      BY <1>12, <2>2 DEF ChildStart, TypeOK, NothingRead
    <3> QED
      BY <3>1 DEF LoopOf, Upto
  <2> QED
    BY <2>1, <2>2
<1>13. ASSUME NEW c \in Clients, ChildRecv(c) PROVE LoopOf(d)'
  <2>1. CASE c # d
    BY <1>13, <2>1, LoopOfKept DEF ChildRecv, TypeOK
  <2>2. CASE c = d
    <3>1. PICK n \in got[d] + 1 .. Parts * Len(sent[d]) :
            /\ got' = [got EXCEPT ![d] = n]
            /\ \E k \in MayMean(sent[d], got[d], n) :
                 heard' = [heard EXCEPT ![d] = k]
      BY <1>13, <2>2 DEF ChildRecv
    <3>2. got[d] \in Nat /\ Parts * Len(sent[d]) \in Nat
      BY LenProperties, ServerAssumption DEF TypeOK
    <3>3. /\ cpc[d] = "recv" /\ cpc'[d] = "serve" /\ sent' = sent
          /\ answers' = answers /\ got'[d] = n /\ got[d] < n
          /\ n <= Parts * Len(sent[d])
          /\ heard'[d] \in MayMean(sent[d], got[d], n)
      BY <1>13, <2>2, <3>1, <3>2 DEF ChildRecv, TypeOK
    <3>4. Upto(answers[d]) = got[d]
      BY <3>3 DEF LoopOf
    <3>5. ASSUME NEW i \in DOMAIN answers[d] PROVE ReplyOf(d, i)'
      <4>1. answers[d][i].upto \in Nat
        <5>1. answers[d] \in Seq(Replies)
          BY DEF TypeOK
        <5> QED
          BY <5>1, ReplyTypes
      <4>2. ReplyOf(d, i)
        BY DEF LoopOf
      <4>3. answers[d][i].kind = "keep" /\ answers[d][i].upto <= got'[d]
        BY <3>2, <3>3, <4>1, <4>2 DEF ReplyOf
      <4> QED
        BY <3>3, <4>2, <4>3 DEF ReplyOf, MayMean
    <3> QED
      BY <3>3, <3>4, <3>5 DEF LoopOf, MayMean
  <2> QED
    BY <2>1, <2>2
<1>14. ASSUME NEW c \in Clients, ChildHangup(c) PROVE LoopOf(d)'
  BY <1>14, LoopOfKept DEF ChildHangup, TypeOK
<1>15. ASSUME NEW c \in Clients, ChildReply(c) PROVE LoopOf(d)'
  <2>1. CASE c # d
    BY <1>15, <2>1, LoopOfKept DEF ChildReply, TypeOK
  <2>2. CASE c = d
    <3> DEFINE r == [upto |-> got[d], kind |-> heard[d]]
    <3>1. answers[d] \in Seq(Replies) /\ r \in Replies
      BY DEF TypeOK, Replies
    <3>2. /\ cpc[d] = "serve" /\ sent' = sent /\ got' = got
          /\ answers'[d] = Append(answers[d], r)
          /\ cpc'[d] = IF heard[d] = "keep" THEN "recv" ELSE "close"
      BY <1>15, <2>2 DEF ChildReply, LoopsAfter, TypeOK
    <3>3. /\ Upto(answers[d]) < got[d]
          /\ heard[d] \in MayMean(sent[d], Upto(answers[d]), got[d])
          /\ got[d] <= Parts * Len(sent[d])
      BY <3>2 DEF LoopOf
    <3>4. /\ Upto(answers'[d]) = got[d]
          /\ Upto(answers[d]) = IF Len(answers'[d]) = 1 THEN 0
                                ELSE answers'[d][Len(answers'[d]) - 1].upto
          /\ answers'[d][Len(answers'[d])] = r
          /\ Len(answers'[d]) = Len(answers[d]) + 1
          /\ DOMAIN answers'[d] = 1 .. (Len(answers[d]) + 1)
          /\ \A i \in DOMAIN answers[d] : answers'[d][i] = answers[d][i]
          /\ Len(answers[d]) \in Nat /\ DOMAIN answers[d] = 1 .. Len(answers[d])
      BY <3>1, <3>2, UptoAppend, LenProperties
    <3>5. ASSUME NEW i \in DOMAIN answers'[d] PROVE ReplyOf(d, i)'
      <4>1. CASE i = Len(answers'[d])
        <5> DEFINE before == IF i = 1 THEN 0 ELSE answers'[d][i - 1].upto
        <5>1. before = Upto(answers[d])
          BY <3>4, <4>1
        <5>2. answers'[d][i].upto = got'[d] /\ answers'[d][i].kind = heard[d]
          BY <3>2, <3>4, <4>1
        <5>3. before < got'[d] /\ heard[d] \in MayMean(sent'[d], before, got'[d])
          BY <3>2, <3>3, <5>1
        <5>4. heard[d] = "keep" \/ cpc'[d] \notin {"recv", "serve", "blocked"}
          BY <3>2
        <5>5. got'[d] <= got'[d]
          BY <3>2 DEF TypeOK
        <5>6. /\ before < answers'[d][i].upto /\ answers'[d][i].upto <= got'[d]
              /\ answers'[d][i].kind
                   \in MayMean(sent'[d], before, answers'[d][i].upto)
              /\ answers'[d][i].kind = "keep"
                   \/ (i = Len(answers'[d])
                         /\ cpc'[d] \notin {"recv", "serve", "blocked"})
          BY <4>1, <5>2, <5>3, <5>4, <5>5
        <5> QED
          BY <5>6 DEF ReplyOf, MayMean
      <4>2. CASE i # Len(answers'[d])
        <5>1. i \in DOMAIN answers[d]
          BY <3>4, <4>2
        <5>2. ReplyOf(d, i)
          BY <5>1 DEF LoopOf
        <5>3. answers[d][i].kind = "keep"
          BY <3>2, <5>2 DEF ReplyOf
        <5>4. answers'[d][i] = answers[d][i]
              /\ (i # 1 => answers'[d][i - 1] = answers[d][i - 1])
          BY <3>4, <5>1
        <5> QED
          BY <3>2, <5>2, <5>3, <5>4 DEF ReplyOf, MayMean
      <4> QED
        BY <4>1, <4>2
    <3> QED
      BY <3>2, <3>3, <3>4, <3>5 DEF LoopOf
  <2> QED
    BY <2>1, <2>2
<1>16. ASSUME NEW c \in Clients, ChildKilled(c) PROVE LoopOf(d)'
  BY <1>16, LoopOfKept DEF ChildKilled, ChildEnds, TypeOK
<1>17. ASSUME NEW c \in Clients, ChildClose(c) PROVE LoopOf(d)'
  BY <1>17, LoopOfKept DEF ChildClose, TypeOK
<1>18. ASSUME NEW c \in Clients, ChildExit(c) PROVE LoopOf(d)'
  BY <1>18, LoopOfKept DEF ChildExit, ChildEnds, TypeOK
<1>19. CASE AcceptFails
  BY <1>19, LoopOfKept DEF AcceptFails, TypeOK
<1>20. CASE Kill
  BY <1>20, LoopOfKept DEF Kill, ParentEnds, TypeOK
<1>21. CASE Restart
  BY <1>21, LoopOfKept DEF Restart, TypeOK
<1>22. ASSUME NEW c \in Clients, Connect(c) PROVE LoopOf(d)'
  BY <1>22, LoopOfKept DEF Connect, TypeOK
<1>23. ASSUME NEW c \in Clients, HangUp(c) PROVE LoopOf(d)'
  BY <1>23, LoopOfKept DEF HangUp, TypeOK
<1>24. ASSUME NEW c \in Clients, NEW k \in Kinds, SendRequest(c, k)
       PROVE LoopOf(d)'
  <2>1. CASE c # d
    BY <1>24, <2>1, LoopOfKept DEF SendRequest, TypeOK
  <2>2. CASE c = d
    <3>1. /\ sent[d] \in Seq(Kinds) /\ sent'[d] = Append(sent[d], k)
          /\ cpc' = cpc /\ got' = got /\ heard' = heard /\ answers' = answers
          /\ got[d] \in Nat /\ answers[d] \in Seq(Replies)
      BY <1>24, <2>2 DEF SendRequest, TypeOK
    <3>2. /\ Len(sent[d]) \in Nat /\ Len(sent'[d]) = Len(sent[d]) + 1
      BY <3>1, AppendProperties, LenProperties
    <3>3. got[d] <= Parts * Len(sent[d]) /\ got'[d] <= Parts * Len(sent'[d])
      <4>1. Parts * (Len(sent[d]) + 1) = Parts * Len(sent[d]) + Parts
        BY <3>2, ServerAssumption
      <4>2. Parts * Len(sent[d]) \in Nat /\ Parts \in Nat
        BY <3>2, ServerAssumption
      <4> QED
        BY <3>1, <3>2, <4>1, <4>2 DEF LoopOf
    <3>4. \A from, to \in Nat : from < to /\ to <= got[d] =>
            MayMean(sent'[d], from, to) = MayMean(sent[d], from, to)
      <4>1. Parts * Len(sent[d]) \in Nat
        BY <3>2, ServerAssumption
      <4> QED
        BY <3>1, <3>3, <4>1, MayMeanAppend
    <3>5. /\ \A i \in DOMAIN answers[d] : answers[d][i].upto \in Nat
          /\ \A i \in DOMAIN answers[d] : i # 1 => i - 1 \in DOMAIN answers[d]
          /\ Upto(answers[d]) \in Nat
      BY <3>1, ReplyTypes
    <3>6. ASSUME NEW i \in DOMAIN answers[d] PROVE ReplyOf(d, i)'
      <4> DEFINE before == IF i = 1 THEN 0 ELSE answers[d][i - 1].upto
      <4>1. ReplyOf(d, i) /\ before \in Nat /\ answers[d][i].upto \in Nat
        BY <3>5 DEF LoopOf
      <4>2. /\ before < answers[d][i].upto /\ answers[d][i].upto <= got[d]
            /\ answers[d][i].kind \in MayMean(sent[d], before, answers[d][i].upto)
            /\ answers[d][i].kind = "keep"
                 \/ (i = Len(answers[d])
                       /\ cpc[d] \notin {"recv", "serve", "blocked"})
        BY <4>1 DEF ReplyOf
      <4>3. answers[d][i].kind \in MayMean(sent'[d], before, answers[d][i].upto)
        BY <3>4, <4>1, <4>2
      <4> QED
        BY <3>1, <4>2, <4>3 DEF ReplyOf, MayMean
    <3>7. cpc[d] \in {"serve", "blocked"} =>
            heard[d] \in MayMean(sent'[d], Upto(answers[d]), got[d])
      BY <3>1, <3>4, <3>5 DEF LoopOf
    <3> QED
      BY <3>1, <3>3, <3>6, <3>7 DEF LoopOf, MayMean
  <2> QED
    BY <2>1, <2>2
<1>25. CASE UNCHANGED vars
  BY <1>25, LoopOfKept
<1>26. ASSUME NEW c \in Clients, ChildBlocks(c) PROVE LoopOf(d)'
  BY <1>26, LoopOfKept DEF ChildBlocks, TypeOK
<1>27. ASSUME NEW c \in Clients, ChildUnblocks(c) PROVE LoopOf(d)'
  BY <1>27, LoopOfKept DEF ChildUnblocks, TypeOK
<1>28. ASSUME NEW c \in Clients, StopReading(c) PROVE LoopOf(d)'
  BY <1>28, LoopOfKept DEF StopReading, TypeOK
<1>29. ASSUME NEW c \in Clients, ReadAgain(c) PROVE LoopOf(d)'
  BY <1>29, LoopOfKept DEF ReadAgain, TypeOK
<1> QED
  BY <1>1, <1>2, <1>3, <1>4, <1>5, <1>6, <1>7, <1>8, <1>9, <1>10, <1>11,
     <1>12, <1>13, <1>14, <1>15, <1>16, <1>17, <1>18, <1>19, <1>20, <1>21,
     <1>22, <1>23, <1>24, <1>25, <1>26, <1>27, <1>28, <1>29
     DEF Next, MainStep, HandlerStep, ChildStep, Environment

\* Each run of bytes recv returns to a child is answered once and in order, as
\* the request it begins with if that is there whole, requests joined or cut as
\* they may be, and nothing is answered after an answer that ends the loop; for
\* any number of clients, of requests and of pieces.
THEOREM LoopCorrect == Spec => []LoopAnswersEach
<1>1. Init => Ownership /\ NothingRead /\ LoopAnswersEach
  <2>1. ASSUME Init, NEW c \in Clients PROVE got[c] <= Parts * Len(sent[c])
    <3>1. got[c] = 0 /\ sent[c] = <<>> /\ Parts * 0 = 0
      BY <2>1, ServerAssumption DEF Init
    <3> QED
      BY <3>1
  <2>2. ASSUME Init, NEW c \in Clients PROVE cpc[c] = "none" /\ answers[c] = <<>>
    BY <2>2 DEF Init
  <2>3. Init => LoopAnswersEach
    BY <2>1, <2>2 DEF LoopAnswersEach
  <2>4. Init => Ownership /\ NothingRead
    BY DEF Init, Ownership, NothingRead, Queued
  <2> QED
    BY <2>3, <2>4
<1> QED
  BY <1>1, TypeCorrect, OwnershipStep, NothingReadStep, LoopStep, PTL DEF Spec

-----------------------------------------------------------------------------
(* What the clients see: the processes together implement Sessions.        *)

\* What the refinement needs besides: a connection in the parent's hands is a
\* client's, and not in the queue any more, until the parent has closed it.
Handed ==
  ppc \in {"fork", "close"} => peer[psock] # "idle" /\ ~Queued(psock)

\* A connection that is held by some process, by where the processes are.
HeldBy(c) ==
  \/ ppc \in {"fork", "close"} /\ psock = c
  \/ cpc[c] \in {"start", "recv", "serve", "blocked", "close"}

\* A connection is open in some process exactly while the parent hands it over or
\* its child has not closed it.
LEMMA HeldMeans ==
  TypeOK /\ Ownership /\ DescriptorTable => \A c \in Clients : Held(c) <=> HeldBy(c)
<1> SUFFICES ASSUME TypeOK, Ownership, DescriptorTable, NEW c \in Clients
             PROVE  Held(c) <=> HeldBy(c)
  OBVIOUS
<1> USE ServerAssumption
<1>1. ASSUME Held(c) PROVE HeldBy(c)
  <2>1. PICK p \in Procs : c \in fds[p]
    BY <1>1 DEF Held
  <2>2. CASE p = Main
    BY <2>1, <2>2 DEF TypeOK, Looping, DescriptorTable, HeldBy
  <2>3. CASE p \in Clients
    <3>1. cpc[p] \in Alive \cup {"none", "zombie", "gone"}
      BY <2>3 DEF TypeOK
    <3>2. cpc[p] \in {"start", "recv", "serve", "blocked", "close"} /\ c = p
      BY <2>1, <2>3, <3>1 DEF Alive, DescriptorTable
    <3> QED
      BY <3>2 DEF HeldBy
  <2> QED
    BY <2>2, <2>3 DEF Procs
<1>2. ASSUME HeldBy(c) PROVE Held(c)
  <2>1. CASE ppc \in {"fork", "close"} /\ psock = c
    BY <2>1 DEF DescriptorTable, Held, Procs
  <2>2. CASE cpc[c] \in {"start", "recv", "serve", "blocked", "close"}
    BY <2>2 DEF DescriptorTable, Held, Procs
  <2> QED
    BY <1>2, <2>1, <2>2 DEF HeldBy
<1> QED
  BY <1>1, <1>2

\* The accepted connection is the first of the queue, and leaves it.
LEMMA AcceptHandsOver ==
  ASSUME TypeOK, Ownership, Accept
  PROVE  /\ psock' \in Clients /\ Queued(psock')
         /\ \A c \in Clients : Queued(c)' <=> Queued(c) /\ c # psock'
<1>1. /\ psock' = backlog[1] /\ psock' \in Clients
      /\ Len(backlog) \in Nat \ {0} /\ DOMAIN backlog = 1 .. Len(backlog)
      /\ DOMAIN backlog' = 1 .. (Len(backlog) - 1)
      /\ \A i \in DOMAIN backlog' : backlog'[i] = backlog[i + 1]
  BY HeadTailProperties, LenProperties, EmptySeq DEF Accept, TypeOK
<1>2. /\ \A i \in DOMAIN backlog' : i + 1 \in DOMAIN backlog /\ i + 1 # 1
      /\ \A i \in DOMAIN backlog : i # 1 => i - 1 \in DOMAIN backlog' /\ (i - 1) + 1 = i
      /\ 1 \in DOMAIN backlog
  BY <1>1
<1>3. ASSUME NEW c \in Clients, Queued(c)' PROVE Queued(c) /\ c # psock'
  <2>1. PICK i \in DOMAIN backlog' : backlog'[i] = c
    BY <1>3 DEF Queued
  <2>2. i + 1 \in DOMAIN backlog /\ i + 1 # 1 /\ backlog[i + 1] = c
    BY <1>1, <1>2, <2>1
  <2> QED
    BY <1>1, <1>2, <2>2 DEF Queued, Ownership
<1>4. ASSUME NEW c \in Clients, Queued(c), c # psock' PROVE Queued(c)'
  <2>1. PICK i \in DOMAIN backlog : backlog[i] = c
    BY <1>4 DEF Queued
  <2>2. i - 1 \in DOMAIN backlog' /\ backlog'[i - 1] = backlog[(i - 1) + 1]
        /\ (i - 1) + 1 = i
    BY <1>1, <1>2, <1>4, <2>1
  <2> QED
    BY <2>1, <2>2 DEF Queued
<1> QED
  BY <1>1, <1>2, <1>3, <1>4 DEF Queued

\* A connection the kernel establishes goes into the queue; the others keep
\* their places.
LEMMA ConnectQueues ==
  ASSUME TypeOK, NEW c \in Clients, Connect(c)
  PROVE  \A d \in Clients : Queued(d)' <=> Queued(d) \/ d = c
<1>1. /\ backlog \in Seq(Clients) /\ backlog' = Append(backlog, c)
      /\ Len(backlog) \in Nat
  BY LenProperties DEF Connect, TypeOK
<1>2. /\ DOMAIN backlog = 1 .. Len(backlog)
      /\ DOMAIN backlog' = 1 .. (Len(backlog) + 1)
      /\ \A i \in 1 .. Len(backlog) : backlog'[i] = backlog[i]
      /\ backlog'[Len(backlog) + 1] = c
  BY <1>1, AppendProperties, LenProperties
<1>3. /\ \A i \in DOMAIN backlog : i \in DOMAIN backlog'
      /\ Len(backlog) + 1 \in DOMAIN backlog'
      /\ \A i \in DOMAIN backlog' : i \in DOMAIN backlog \/ i = Len(backlog) + 1
  BY <1>1, <1>2
<1> QED
  BY <1>2, <1>3 DEF Queued

\* No step but Accept and Connect puts a connection into the parent's hands, into
\* the queue, or takes back that its client connected.
Settled ==
  /\ \A c \in Clients : Queued(c)' => Queued(c)
  /\ \A c \in Clients : peer[c] = "idle" <=> peer'[c] = "idle"

LEMMA SettledUnlessNew ==
  ASSUME TypeOK, [Next]_vars, ~Accept, \A c \in Clients : ~Connect(c)
  PROVE  Settled
<1> USE DEF vars, parentVars, childVars, clientVars, Settled, Queued
<1>1. CASE MainStep
  BY <1>1 DEF MainStep, Boot, BootFails, Report, Fork, ForkFails, CloseConn,
              ParentEnds, KeepQueueWhileListening
<1>2. CASE HandlerStep
  BY <1>2 DEF HandlerStep, HandlerEnter, HandlerReap, HandlerLast, HandlerReturn
<1>3. ASSUME NEW c \in Clients, ChildStep(c) PROVE Settled
  BY <1>3 DEF ChildStep, ChildStart, ChildRecv, ChildHangup, ChildReply,
       ChildBlocks, ChildUnblocks,
              ChildKilled, ChildClose, ChildExit, ChildEnds,
              KeepQueueWhileListening
<1>4. CASE Environment
  BY <1>4 DEF Environment, AcceptFails, Kill, Restart, HangUp, StopReading, ReadAgain, SendRequest,
              ParentEnds, KeepQueueWhileListening, TypeOK
<1>5. CASE UNCHANGED vars
  BY <1>5
<1> QED
  BY <1>1, <1>2, <1>3, <1>4, <1>5 DEF Next

\* ... and if it changes which connection the parent has, it lets one go; nor does
\* such a step give a connection to a process that no process had.
LEMMA HeldByUnlessNew ==
  ASSUME TypeOK, [Next]_vars, ~Accept, NEW c \in Clients, HeldBy(c)'
  PROVE  HeldBy(c)
<1> USE DEF vars, parentVars, childVars, clientVars, HeldBy
<1>1. CASE MainStep
  BY <1>1 DEF MainStep, Boot, BootFails, Report, Fork, ForkFails, CloseConn,
              ParentEnds, TypeOK
<1>2. CASE HandlerStep
  BY <1>2 DEF HandlerStep, HandlerEnter, HandlerReap, HandlerLast, HandlerReturn,
              TypeOK
<1>3. ASSUME NEW d \in Clients, ChildStep(d) PROVE HeldBy(c)
  BY <1>3 DEF ChildStep, ChildStart, ChildRecv, ChildHangup, ChildReply,
       ChildBlocks, ChildUnblocks,
              ChildKilled, ChildClose, ChildExit, ChildEnds, TypeOK
<1>4. CASE Environment
  BY <1>4 DEF Environment, AcceptFails, Kill, Restart, Connect, HangUp, StopReading, ReadAgain,
              SendRequest, ParentEnds, TypeOK
<1>5. CASE UNCHANGED vars
  BY <1>5
<1> QED
  BY <1>1, <1>2, <1>3, <1>4, <1>5 DEF Next

\* Handed is inductive.
LEMMA HandedStep == TypeOK /\ Ownership /\ Handed /\ [Next]_vars => Handed'
<1> SUFFICES ASSUME TypeOK, Ownership, Handed, [Next]_vars PROVE Handed'
  OBVIOUS
<1>1. CASE Accept
  <2>1. /\ psock' \in Clients /\ Queued(psock')
        /\ \A c \in Clients : Queued(c)' <=> Queued(c) /\ c # psock'
    BY <1>1, AcceptHandsOver
  <2>2. peer' = peer /\ peer[psock'] # "idle"
    BY <1>1, <2>1 DEF Accept, clientVars, Ownership, Queued
  <2>3. ~Queued(psock)'
    BY <2>1 DEF Queued
  <2> QED
    BY <2>2, <2>3 DEF Handed
<1>2. ASSUME NEW c \in Clients, Connect(c) PROVE Handed'
  <2>1. \A d \in Clients : Queued(d)' <=> Queued(d) \/ d = c
    BY <1>2, ConnectQueues
  <2>2. /\ ppc' = ppc /\ psock' = psock /\ peer[c] = "idle"
        /\ peer' = [peer EXCEPT ![c] = "open"]
    BY <1>2 DEF Connect, parentVars
  <2>3. ppc \in {"fork", "close"} => psock \in Clients /\ psock # c
    BY <2>2 DEF Handed, Ownership
  <2> QED
    BY <2>1, <2>2, <2>3 DEF Handed, Queued, TypeOK
<1>3. CASE ~Accept /\ \A c \in Clients : ~Connect(c)
  <2>1. Settled
    BY <1>3, SettledUnlessNew
  <2>2. ppc' \in {"fork", "close"} => ppc \in {"fork", "close"} /\ psock' = psock
    BY <1>3 DEF Next, MainStep, HandlerStep, ChildStep, Environment,
       Boot, BootFails, Report, Fork, ForkFails, CloseConn, ParentEnds,
       HandlerEnter, HandlerReap, HandlerLast, HandlerReturn,
       ChildStart, ChildRecv, ChildHangup, ChildReply,
       ChildBlocks, ChildUnblocks, ChildKilled, ChildClose,
       ChildExit, AcceptFails, Kill, Restart, Connect, HangUp, StopReading, ReadAgain, SendRequest,
       vars, parentVars
  <2> QED
    BY <2>1, <2>2 DEF Handed, Settled, Queued, Ownership
<1> QED
  BY <1>1, <1>2, <1>3

\* What the clients see depends on the queue and on who holds the connection.
LEMMA PhaseMeans ==
  TypeOK /\ Ownership /\ DescriptorTable /\ Handed =>
    \A c \in Clients :
      SessionPhase[c] = IF peer[c] = "idle" THEN "away"
                        ELSE IF Queued(c) THEN "waiting"
                        ELSE IF HeldBy(c) THEN "open" ELSE "over"
<1> SUFFICES ASSUME TypeOK, Ownership, DescriptorTable, Handed,
                    NEW c \in Clients
             PROVE  SessionPhase[c] = IF peer[c] = "idle" THEN "away"
                                      ELSE IF Queued(c) THEN "waiting"
                                      ELSE IF HeldBy(c) THEN "open" ELSE "over"
  OBVIOUS
<1>1. Held(c) <=> HeldBy(c)
  BY HeldMeans
<1>2. Queued(c) => peer[c] # "idle" /\ ~HeldBy(c)
  BY DEF Ownership, Handed, Queued, HeldBy
<1>3. HeldBy(c) => peer[c] # "idle"
  BY DEF Ownership, Handed, HeldBy
<1>4. CASE peer[c] = "idle"
  BY <1>1, <1>2, <1>3, <1>4 DEF SessionPhase
<1>5. CASE peer[c] # "idle" /\ Queued(c)
  BY <1>1, <1>2, <1>3, <1>5 DEF SessionPhase
<1>6. CASE peer[c] # "idle" /\ ~Queued(c) /\ HeldBy(c)
  BY <1>1, <1>2, <1>3, <1>6 DEF SessionPhase
<1>7. CASE peer[c] # "idle" /\ ~Queued(c) /\ ~HeldBy(c)
  BY <1>1, <1>2, <1>3, <1>7 DEF SessionPhase
<1> QED
  BY <1>4, <1>5, <1>6, <1>7

\* The same of the state after a step.
LEMMA PhaseMeansNext ==
  TypeOK' /\ Ownership' /\ DescriptorTable' /\ Handed' =>
    \A c \in Clients :
      SessionPhase'[c] = IF peer'[c] = "idle" THEN "away"
                         ELSE IF Queued(c)' THEN "waiting"
                         ELSE IF HeldBy(c)' THEN "open" ELSE "over"
<1>1. (TypeOK /\ Ownership /\ DescriptorTable /\ Handed =>
        \A c \in Clients :
          SessionPhase[c] = IF peer[c] = "idle" THEN "away"
                            ELSE IF Queued(c) THEN "waiting"
                            ELSE IF HeldBy(c) THEN "open" ELSE "over")'
  BY PhaseMeans, PTL
<1> QED
  BY <1>1

\* A step that brings no client and accepts none, asks and answers nothing: some
\* sessions end, or none.
LEMMA FinishStep ==
  ASSUME TypeOK, Ownership, DescriptorTable, Handed,
         TypeOK', Ownership', DescriptorTable', Handed',
         [Next]_vars, ~Accept, \A c \in Clients : ~Connect(c),
         sent' = sent, answers' = answers
  PROVE  Promise!Next
<1> DEFINE S == {c \in Clients : SessionPhase[c] \in {"waiting", "open"}
                                 /\ SessionPhase'[c] # SessionPhase[c]}
<1>1. \A c \in Clients : HeldBy(c)' => HeldBy(c)
  BY HeldByUnlessNew
<1>2. \A c \in Clients : /\ Queued(c)' => Queued(c)
                         /\ peer[c] = "idle" <=> peer'[c] = "idle"
  BY SettledUnlessNew DEF Settled
<1>3. \A c \in Clients : Queued(c) => ~HeldBy(c)
  BY DEF Ownership, Handed, Queued, HeldBy
<1>4. \A c \in Clients :
        SessionPhase[c] = IF peer[c] = "idle" THEN "away"
                          ELSE IF Queued(c) THEN "waiting"
                          ELSE IF HeldBy(c) THEN "open" ELSE "over"
  BY PhaseMeans
<1>5. \A c \in Clients :
        SessionPhase'[c] = IF peer'[c] = "idle" THEN "away"
                           ELSE IF Queued(c)' THEN "waiting"
                           ELSE IF HeldBy(c)' THEN "open" ELSE "over"
  BY PhaseMeansNext
<1>6. \A c \in Clients :
        SessionPhase'[c] = IF c \in S THEN "over" ELSE SessionPhase[c]
  BY <1>1, <1>2, <1>3, <1>4, <1>5
<1>7. SessionPhase' = [c \in Clients |-> SessionPhase'[c]]
  BY DEF SessionPhase
<1>8. SessionPhase' = [c \in Clients |-> IF c \in S THEN "over" ELSE SessionPhase[c]]
  BY <1>6, <1>7
<1>9. S \in SUBSET Clients /\ \A c \in S : SessionPhase[c] \in {"waiting", "open"}
  OBVIOUS
<1>10. Promise!Finish(S)
  BY <1>8, <1>9 DEF Promise!Finish
<1> QED
  BY <1>9, <1>10 DEF Promise!Next

\* A step that leaves the queue, the descriptors and the clients' ends alone leaves
\* every session in its phase.
LEMMA PhaseKept ==
  ASSUME backlog' = backlog, fds' = fds, peer' = peer
  PROVE  SessionPhase' = SessionPhase
  BY DEF SessionPhase, Queued, Held

\* Every step of the processes is a step of Sessions, or no step of it.
LEMMA ServerSimulates ==
  ASSUME TypeOK, Ownership, DescriptorTable, Handed, LoopAnswersEach,
         TypeOK', Ownership', DescriptorTable', Handed', [Next]_vars
  PROVE  [Promise!Next]_Promise!vars
<1>0. /\ \A c \in Clients :
           SessionPhase[c] = IF peer[c] = "idle" THEN "away"
                             ELSE IF Queued(c) THEN "waiting"
                             ELSE IF HeldBy(c) THEN "open" ELSE "over"
      /\ \A c \in Clients :
           SessionPhase'[c] = IF peer'[c] = "idle" THEN "away"
                              ELSE IF Queued(c)' THEN "waiting"
                              ELSE IF HeldBy(c)' THEN "open" ELSE "over"
      /\ SessionPhase = [c \in Clients |-> SessionPhase[c]]
      /\ SessionPhase' = [c \in Clients |-> SessionPhase'[c]]
  BY PhaseMeans, PhaseMeansNext DEF SessionPhase
<1>1. CASE Accept
  <2>1. /\ psock' \in Clients /\ Queued(psock')
        /\ \A c \in Clients : Queued(c)' <=> Queued(c) /\ c # psock'
    BY <1>1, AcceptHandsOver
  <2>2. /\ ppc = "accept" /\ ppc' = "fork" /\ cpc' = cpc /\ peer' = peer
        /\ sent' = sent /\ answers' = answers
    BY <1>1 DEF Accept, childVars, clientVars
  <2>3. \A c \in Clients : HeldBy(c)' <=> HeldBy(c) \/ c = psock'
    BY <2>2 DEF HeldBy
  <2>4. peer[psock'] # "idle"
    BY <2>1 DEF Ownership, Queued
  <2>5. \A c \in Clients :
          SessionPhase'[c] = IF c = psock' THEN "open" ELSE SessionPhase[c]
    BY <1>0, <2>1, <2>2, <2>3, <2>4
  <2>6. SessionPhase' = [SessionPhase EXCEPT ![psock'] = "open"]
    BY <1>0, <2>5
  <2>7. Promise!Open(psock')
    BY <1>0, <2>1, <2>2, <2>4, <2>6 DEF Promise!Open
  <2> QED
    BY <2>1, <2>7 DEF Promise!Next
<1>2. ASSUME NEW c \in Clients, Connect(c) PROVE Promise!Next
  <2>1. \A d \in Clients : Queued(d)' <=> Queued(d) \/ d = c
    BY <1>2, ConnectQueues
  <2>2. /\ peer[c] = "idle" /\ peer' = [peer EXCEPT ![c] = "open"]
        /\ ppc' = ppc /\ psock' = psock /\ cpc' = cpc
        /\ sent' = sent /\ answers' = answers
        /\ peer \in [Clients -> {"idle", "open", "deaf", "closed"}]
    BY <1>2 DEF Connect, parentVars, childVars, TypeOK
  <2>3. \A d \in Clients : HeldBy(d)' <=> HeldBy(d)
    BY <2>2 DEF HeldBy
  <2>4. \A d \in Clients :
          SessionPhase'[d] = IF d = c THEN "waiting" ELSE SessionPhase[d]
    BY <1>0, <2>1, <2>2, <2>3
  <2>5. SessionPhase' = [SessionPhase EXCEPT ![c] = "waiting"]
    BY <1>0, <2>4
  <2>6. Promise!Arrive(c)
    BY <1>0, <2>2, <2>5 DEF Promise!Arrive
  <2> QED
    BY <2>6 DEF Promise!Next
<1>3. ASSUME NEW c \in Clients, NEW k \in Kinds, SendRequest(c, k)
      PROVE  Promise!Next
  <2>1. SessionPhase' = SessionPhase
    BY <1>3, PhaseKept DEF SendRequest
  <2>2. /\ peer[c] \in {"open", "deaf"} /\ (Queued(c) \/ HeldBy(c))
        /\ sent' = [sent EXCEPT ![c] = Append(@, k)] /\ answers' = answers
    BY <1>3, HeldMeans DEF SendRequest
  <2>3. Promise!Ask(c, k)
    BY <1>0, <2>1, <2>2 DEF Promise!Ask
  <2> QED
    BY <2>3 DEF Promise!Next
<1>4. ASSUME NEW c \in Clients, ChildReply(c) PROVE Promise!Next
  <2>1. SessionPhase' = SessionPhase
    BY <1>4, PhaseKept DEF ChildReply
  <2>2. /\ cpc[c] = "serve" /\ sent' = sent
        /\ answers' = [answers EXCEPT
             ![c] = Append(@, [upto |-> got[c], kind |-> heard[c]])]
    BY <1>4 DEF ChildReply
  <2>3. HeldBy(c) /\ ~Queued(c) /\ peer[c] # "idle"
    BY <2>2 DEF HeldBy, Ownership, Queued
  <2>4. /\ Upto(answers[c]) < got[c] /\ got[c] <= Parts * Len(sent[c])
        /\ heard[c] \in MayMean(sent[c], Upto(answers[c]), got[c])
        /\ \A i \in DOMAIN answers[c] : answers[c][i].kind = "keep"
    BY <2>2 DEF LoopAnswersEach
  <2>5. Promise!Done(c) = Upto(answers[c])
    BY DEF Promise!Done, Upto
  <2>6. /\ heard[c] \in Kinds
        /\ got[c] \in 1 .. Parts * Len(sent[c])
    <3>1. got[c] \in Nat /\ Parts * Len(sent[c]) \in Nat
      BY LenProperties, ServerAssumption DEF TypeOK
    <3>2. Upto(answers[c]) \in Nat
      <4>1. answers[c] \in Seq(Replies)
        BY DEF TypeOK
      <4> QED
        BY <4>1, ReplyTypes
    <3> QED
      BY <2>4, <3>1, <3>2 DEF TypeOK
  <2>7. \A i \in DOMAIN sent[c] :
          Promise!BeginWith(c, i, got[c]) => heard[c] = sent[c][i]
    BY <2>4, <2>5 DEF Promise!BeginWith, MayMean
  <2>8. Promise!Answer(c, got[c], heard[c])
    BY <1>0, <2>1, <2>2, <2>3, <2>4, <2>5, <2>7 DEF Promise!Answer
  <2> QED
    BY <2>6, <2>8 DEF Promise!Next
<1>5. CASE /\ ~Accept /\ \A c \in Clients : ~Connect(c)
           /\ sent' = sent /\ answers' = answers
  BY <1>5, FinishStep
<1>6. \/ Accept
      \/ \E c \in Clients : Connect(c) \/ ChildReply(c)
      \/ \E c \in Clients, k \in Kinds : SendRequest(c, k)
      \/ sent' = sent /\ answers' = answers
  BY DEF Next, MainStep, HandlerStep, ChildStep, Environment,
     Boot, BootFails, Report, Fork, ForkFails, CloseConn, ParentEnds,
     HandlerEnter, HandlerReap, HandlerLast, HandlerReturn,
     ChildStart, ChildRecv, ChildHangup, ChildBlocks, ChildUnblocks,
     ChildKilled, ChildClose,
     ChildExit, AcceptFails, Kill, Restart, HangUp, StopReading, ReadAgain, vars, clientVars
<1> QED
  BY <1>1, <1>2, <1>3, <1>4, <1>5, <1>6

\* Whatever the processes behind it do, and whichever of them is killed or fails, a
\* client gets what the module Sessions promises: one session, opened once and
\* over for good, and answers in the order of its bytes, no byte behind two of
\* them, none after one that closes.
THEOREM SessionsKept == Spec => KeepsPromise
<1>1. ASSUME Init PROVE Promise!Init
  <2>1. \A c \in Clients : peer[c] = "idle" /\ ~Queued(c) /\ ~Held(c)
    BY <1>1 DEF Init, Queued, Held
  <2>2. SessionPhase = [c \in Clients |-> "away"]
    BY <2>1 DEF SessionPhase
  <2> QED
    BY <1>1, <2>2 DEF Init, Promise!Init
<1>2. Init => Ownership /\ Handed
  BY DEF Init, Ownership, Handed, Queued
<1>3. Spec => []Ownership /\ []Handed
  BY <1>2, TypeCorrect, OwnershipStep, HandedStep, PTL DEF Spec
<1>4. /\ TypeOK /\ Ownership /\ DescriptorTable /\ Handed /\ LoopAnswersEach
      /\ TypeOK' /\ Ownership' /\ DescriptorTable' /\ Handed'
      /\ [Next]_vars
      => [Promise!Next]_Promise!vars
  BY ServerSimulates
<1> QED
  BY <1>1, <1>3, <1>4, TypeCorrect, DescriptorsCorrect, LoopCorrect, PTL
     DEF Spec, KeepsPromise, Promise!Spec

=============================================================================
