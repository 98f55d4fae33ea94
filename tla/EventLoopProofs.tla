--------------------------- MODULE EventLoopProofs ---------------------------
(***************************************************************************)
(* The safety invariants of the event loop for any number of clients,      *)
(* peers and descriptors and for any buffer sizes.  The inductive          *)
(* invariant LoopInv adds to them what ties the kernel's side to the       *)
(* server's: the backlog holds each queued connection once, events are     *)
(* only held for open connections, unread input never exceeds the buffers, *)
(* and the socket a Lua handler reads is open and out of the batch.        *)
(***************************************************************************)
EXTENDS EventLoop, TLAPS

BacklogOK ==
    /\ \A i \in 1 .. Len(backlog) : conn[backlog[i]] = "queued"
    /\ \A i, j \in 1 .. Len(backlog) : backlog[i] = backlog[j] => i = j

QueuesOK ==
    /\ Len(udpQ) <= UdpCap
    /\ \A c \in Conns : Len(rx[c]) <= RcvCap

EventsOK ==
    /\ phase \in {"setup", "poll"} => batch = {}
    /\ \A c \in ready \cap Conns : conn[c] = "open"
    /\ phase = "lua" => serving.sock \in Conns
    /\ phase \in {"setup", "poll", "handle", "stopped"} => serving = Idle

ServedOK ==
    phase = "lua" => conn[serving.sock] = "open" /\ serving.sock \notin batch

LoopInv ==
    /\ TypeOK
    /\ BacklogOK
    /\ QueuesOK
    /\ EventsOK
    /\ EventsStayTrue
    /\ FullUdpIsAnnounced
    /\ UnreadIsAnnounced
    /\ ServedOK

-----------------------------------------------------------------------------
(* What a recv leaves unread: nothing, or what was there less a buffer     *)
(* full.                                                                   *)
LEMMA LeftFacts ==
    ASSUME TypeOK, NEW c \in Conns, rx[c] # <<>>
    PROVE  /\ Left(c) \in Seq(Chunk)
           /\ Len(Left(c)) < Len(rx[c])
           /\ Left(c) = <<>> \/ Len(Left(c)) + RecvMax <= Len(rx[c])
<1>1. rx[c] \in Seq(Chunk) /\ Len(rx[c]) \in Nat /\ Len(rx[c]) > 0
  BY DEF TypeOK
<1>2. CASE Len(rx[c]) <= RecvMax
  BY <1>1, <1>2 DEF Left
<1>3. CASE ~(Len(rx[c]) <= RecvMax)
  BY <1>1, <1>3, LoopAssumption DEF Left, LoopAssumption
<1>4. QED
  BY <1>2, <1>3

(* What a recv does to the unread input and to the end-of-stream flag. *)
LEMMA RecvFacts ==
    ASSUME TypeOK, NEW c \in Conns, RecvData(c) \/ RecvError(c)
    PROVE  /\ rx' \in [Conns -> Seq(Chunk)]
           /\ eof' \in [Conns -> {"no", "fin", "err", "errRead"}]
           /\ Len(rx'[c]) <= Len(rx[c])
           /\ rx'[c] = <<>> \/ Len(rx'[c]) + RecvMax <= Len(rx[c])
           /\ \A d \in Conns \ {c} : rx'[d] = rx[d] /\ eof'[d] = eof[d]
           /\ \A d \in Conns : eof'[d] = "no" <=> eof[d] = "no"
<1>1. rx \in [Conns -> Seq(Chunk)] /\ eof \in [Conns -> {"no", "fin", "err", "errRead"}]
  BY DEF TypeOK
<1>2. CASE RecvData(c)
  <2>1. rx[c] # <<>> /\ rx' = [rx EXCEPT ![c] = Left(c)] /\ eof' = eof
    BY <1>2 DEF RecvData
  <2>2. /\ Left(c) \in Seq(Chunk)
        /\ Len(Left(c)) <= Len(rx[c])
        /\ Left(c) = <<>> \/ Len(Left(c)) + RecvMax <= Len(rx[c])
    <3>1. Len(rx[c]) \in Nat /\ Left(c) \in Seq(Chunk) /\ Len(Left(c)) < Len(rx[c])
      BY <1>1, <2>1, LeftFacts
    <3>2. QED
      BY <3>1, <2>1, LeftFacts
  <2>3. QED
    BY <1>1, <2>1, <2>2
<1>3. CASE RecvError(c)
  <2>1. rx[c] = <<>> /\ eof[c] = "err" /\ rx' = rx /\ eof' = [eof EXCEPT ![c] = "errRead"]
    BY <1>3 DEF RecvError
  <2>2. QED
    BY <1>1, <2>1
<1>4. QED
  BY <1>2, <1>3

(* The loop over the batch keeps the types of what it assigns. *)
LEMMA HandledFacts ==
    ASSUME TypeOK, NEW f, Handled(f)
    PROVE  /\ batch' \in SUBSET (Conns \cup {"udp", "tcp"})
           /\ phase' \in {"poll", "handle"}
           /\ phase' = "poll" => batch' = {}
           /\ batch' = batch \ {f}
BY DEF TypeOK, Handled

(* What a send does to the ready list: at most the descriptor is added. *)
LEMMA SendFacts ==
    ASSUME TypeOK, NEW c \in Conns, AfterSend(c)
    PROVE  /\ ready' \in SUBSET (Conns \cup {"udp"})
           /\ ready \subseteq ready'
           /\ ready' \subseteq ready \cup {c}
BY DEF TypeOK, AfterSend

(* Every action keeps the types. *)
LEMMA TypeStep == LoopInv /\ [Next]_vars => TypeOK'
<1> SUFFICES ASSUME LoopInv, [Next]_vars PROVE TypeOK'
  OBVIOUS
<1>0. TypeOK
  BY DEF LoopInv
<1>1. CASE Setup
  BY <1>0, <1>1 DEF Setup, clientVars, TypeOK
<1>2. ASSUME NEW c \in Conns, Connect(c) PROVE TypeOK'
  BY <1>0, <1>2 DEF Connect, TypeOK
<1>3. ASSUME NEW c \in Conns, NEW k \in Kinds, Send(c, k) PROVE TypeOK'
  BY <1>0, <1>3, LoopAssumption DEF Send, Edge, LoopAssumption, TypeOK
<1>4. ASSUME NEW c \in Conns, NEW how \in {"fin", "err"}, Finish(c, how) PROVE TypeOK'
  BY <1>0, <1>4 DEF Finish, Edge, TypeOK
<1>5. ASSUME NEW p \in Peers, Datagram(p) PROVE TypeOK'
  BY <1>0, <1>5 DEF Datagram, clientVars, TypeOK
<1>6. CASE StopRequest
  BY <1>0, <1>6 DEF StopRequest, clientVars, TypeOK
<1>7. CASE epoll_wait
  BY <1>0, <1>7 DEF epoll_wait, Pollable, clientVars, TypeOK
<1>8. CASE UdpHandler
  <2>1. Handled("udp") /\ udpQ # <<>> /\ client_addr' = Head(udpQ) /\ udpQ' = Tail(udpQ)
    BY <1>8 DEF UdpHandler
  <2>2. client_addr' \in Peers /\ udpQ' \in Seq(Peers)
    BY <1>0, <2>1 DEF TypeOK
  <2>3. QED
    BY <1>0, <1>8, <2>1, <2>2, HandledFacts DEF UdpHandler, clientVars, TypeOK
<1>9. CASE Accept
  <2> DEFINE c == Head(backlog)
  <2>1. backlog # <<>> /\ c \in Conns /\ Tail(backlog) \in Seq(Conns)
    BY <1>0, <1>9 DEF Accept, TypeOK
  <2>2. CASE conn' = [conn EXCEPT ![c] = "open"] /\ Handled("tcp") /\ client_addr' = c
             /\ backlog' = Tail(backlog)
             /\ ready' = IF Readable(c) THEN ready \cup {c} ELSE ready
    BY <1>0, <1>9, <2>1, <2>2, HandledFacts DEF Accept, TypeOK
  <2>3. CASE phase' = "exited" /\ UNCHANGED <<conn, client_addr, backlog, ready, batch>>
    BY <1>0, <1>9, <2>3 DEF Accept, TypeOK
  <2>4. QED
    BY <1>9, <2>2, <2>3 DEF Accept
<1>10. ASSUME NEW c \in Conns, CloseHandler(c) PROVE TypeOK'
  BY <1>0, <1>10, HandledFacts DEF CloseHandler, clientVars, TypeOK
<1>11. ASSUME NEW c \in Conns, StopHandler(c) PROVE TypeOK'
  BY <1>0, <1>11, RecvFacts DEF StopHandler, TypeOK
<1>12. ASSUME NEW c \in Conns, QuickHandler(c) PROVE TypeOK'
  <2>1. RecvData(c) \/ RecvError(c)
    BY <1>12 DEF QuickHandler
  <2>2. QED
    BY <1>0, <1>12, <2>1, RecvFacts, HandledFacts DEF QuickHandler, TypeOK
<1>13. ASSUME NEW c \in Conns, LuaHandler(c) PROVE TypeOK'
  <2>1. RecvData(c) /\ (AfterSend(c) \/ UNCHANGED ready)
    BY <1>13 DEF LuaHandler
  <2>2. Head(rx[c]) \in Chunk
    BY <1>13 DEF LuaHandler, Waiting, Chunk
  <2>3. ready' \in SUBSET (Conns \cup {"udp"})
    BY <1>0, <2>1, SendFacts DEF TypeOK
  <2>4. QED
    BY <1>0, <1>13, <2>1, <2>2, <2>3, RecvFacts DEF LuaHandler, TypeOK
<1>14. CASE LuaRecv
  <2> DEFINE c == serving.sock
  <2>1. c \in Conns /\ RecvData(c)
    BY <1>14 DEF LuaRecv, LoopInv, EventsOK
  <2>2. ready' \in SUBSET (Conns \cup {"udp"})
    BY <1>0, <1>14, <2>1, SendFacts DEF LuaRecv, TypeOK
  <2>3. /\ phase' \in {"poll", "handle", "lua", "exited"}
        /\ serving' \in [sock : Conns \cup {Nobody}, fn : Chunk \cup {"none"}]
    BY <1>0, <1>14 DEF LuaRecv, LuaReturns, Idle, TypeOK
  <2>4. QED
    BY <1>0, <1>14, <2>1, <2>2, <2>3, RecvFacts DEF LuaRecv, TypeOK
<1>15. CASE LuaRecvError
  <2>1. serving.sock \in Conns /\ RecvError(serving.sock)
    BY <1>15 DEF LuaRecvError, LoopInv, EventsOK
  <2>2. QED
    BY <1>0, <1>15, <2>1, RecvFacts DEF LuaRecvError, TypeOK
<1>16. CASE LuaRecvNil
  <2>1. serving.sock \in Conns
    BY <1>16 DEF LuaRecvNil, LoopInv, EventsOK
  <2>2. ready' \in SUBSET (Conns \cup {"udp"})
    BY <1>0, <1>16, <2>1, SendFacts DEF LuaRecvNil, TypeOK
  <2>3. /\ phase' \in {"poll", "handle", "lua", "exited"}
        /\ serving' \in [sock : Conns \cup {Nobody}, fn : Chunk \cup {"none"}]
    BY <1>0, <1>16 DEF LuaRecvNil, LuaReturns, Idle, TypeOK
  <2>4. QED
    BY <1>0, <1>16, <2>2, <2>3 DEF LuaRecvNil, clientVars, TypeOK
<1>17. CASE UNCHANGED vars
  BY <1>0, <1>17 DEF vars, TypeOK
<1>18. QED
  BY <1>1, <1>2, <1>3, <1>4, <1>5, <1>6, <1>7, <1>8, <1>9, <1>10, <1>11, <1>12,
     <1>13, <1>14, <1>15, <1>16, <1>17 DEF Next, Server, Environment

(* Which actions touch the connections' state and the backlog. *)
LEMMA ConnStep ==
    ASSUME [Next]_vars
    PROVE  \/ \E c \in Conns : Connect(c)
           \/ Accept
           \/ \E c \in Conns : CloseHandler(c)
           \/ UNCHANGED <<backlog, conn>>
<1>1. CASE Server
  BY <1>1 DEF Server, Setup, epoll_wait, UdpHandler, StopHandler, QuickHandler,
     LuaHandler, LuaRecv, LuaRecvError, LuaRecvNil, clientVars
<1>2. CASE Environment
  BY <1>2 DEF Environment, Send, Finish, Datagram, StopRequest, clientVars
<1>3. QED
  BY <1>1, <1>2 DEF Next, vars

(* The backlog keeps holding queued connections, each once. *)
LEMMA BacklogStep == LoopInv /\ [Next]_vars => BacklogOK'
<1> SUFFICES ASSUME LoopInv, [Next]_vars PROVE BacklogOK'
  OBVIOUS
<1>0. TypeOK /\ BacklogOK /\ EventsStayTrue
  BY DEF LoopInv
<1>1. ASSUME NEW c \in Conns, Connect(c) PROVE BacklogOK'
  BY <1>0, <1>1 DEF Connect, BacklogOK, TypeOK
<1>2. CASE Accept
  <2> DEFINE c == Head(backlog)
  <2>1. backlog # <<>> /\ c \in Conns /\ backlog \in Seq(Conns) /\ c = backlog[1]
    BY <1>0, <1>2 DEF Accept, TypeOK
  <2>2. CASE UNCHANGED <<conn, backlog>>
    BY <1>0, <2>2 DEF BacklogOK
  <2>3. CASE conn' = [conn EXCEPT ![c] = "open"] /\ backlog' = Tail(backlog)
    <3>1. /\ Len(backlog') = Len(backlog) - 1
          /\ \A i \in 1 .. Len(backlog') : /\ backlog'[i] = backlog[i + 1]
                                           /\ i + 1 \in 1 .. Len(backlog)
                                           /\ backlog[i + 1] \in Conns
      BY <2>1, <2>3
    <3>2. \A i \in 1 .. Len(backlog') : backlog[i + 1] # c
      BY <1>0, <2>1, <3>1 DEF BacklogOK
    <3>3. \A i \in 1 .. Len(backlog') : conn'[backlog'[i]] = "queued"
      BY <1>0, <2>1, <2>3, <3>1, <3>2 DEF BacklogOK, TypeOK
    <3>4. \A i, j \in 1 .. Len(backlog') : backlog'[i] = backlog'[j] => i = j
      BY <1>0, <3>1 DEF BacklogOK
    <3>5. QED
      BY <3>3, <3>4 DEF BacklogOK
  <2>4. QED
    BY <1>2, <2>2, <2>3 DEF Accept
<1>3. ASSUME NEW c \in Conns, CloseHandler(c) PROVE BacklogOK'
  <2>1. conn[c] = "open"
    BY <1>0, <1>3 DEF CloseHandler, EventsStayTrue
  <2>2. QED
    BY <1>0, <1>3, <2>1 DEF CloseHandler, clientVars, BacklogOK, TypeOK
<1>4. CASE UNCHANGED <<backlog, conn>>
  BY <1>0, <1>4 DEF BacklogOK
<1>5. QED
  BY <1>1, <1>2, <1>3, <1>4, ConnStep

(* Which actions touch the datagrams and the unread input. *)
LEMMA QueueStep ==
    ASSUME LoopInv, [Next]_vars
    PROVE  /\ \/ \E p \in Peers : Datagram(p)
              \/ UdpHandler
              \/ UNCHANGED udpQ
           /\ \/ \E c \in Conns, k \in Kinds : Send(c, k)
              \/ \E c \in Conns : RecvData(c) \/ RecvError(c)
              \/ UNCHANGED rx
<1>1. CASE Server
  <2>1. phase = "lua" => serving.sock \in Conns
    BY DEF LoopInv, EventsOK
  <2>2. QED
    BY <1>1, <2>1 DEF Server, Setup, epoll_wait, UdpHandler, StopHandler, QuickHandler,
       LuaHandler, LuaRecv, LuaRecvError, LuaRecvNil, clientVars, Accept, CloseHandler
<1>2. CASE Environment
  BY <1>2 DEF Environment, Connect, Send, Finish, Datagram, StopRequest, clientVars
<1>3. QED
  BY <1>1, <1>2 DEF Next, vars

(* The queues stay within their buffers. *)
LEMMA QueuesStep == LoopInv /\ [Next]_vars => QueuesOK'
<1> SUFFICES ASSUME LoopInv, [Next]_vars PROVE QueuesOK'
  OBVIOUS
<1>0. TypeOK /\ QueuesOK
  BY DEF LoopInv
<1>1. Len(udpQ') <= UdpCap
  <2>1. ASSUME NEW p \in Peers, Datagram(p) PROVE Len(udpQ') <= UdpCap
    BY <1>0, <2>1, LoopAssumption DEF Datagram, TypeOK, LoopAssumption
  <2>2. CASE UdpHandler
    <3>1. udpQ # <<>> /\ udpQ' = Tail(udpQ) /\ udpQ \in Seq(Peers)
      BY <1>0, <2>2 DEF UdpHandler, TypeOK
    <3>2. Len(udpQ') = Len(udpQ) - 1 /\ Len(udpQ) \in Nat
      BY <3>1
    <3>3. QED
      BY <1>0, <3>2, LoopAssumption DEF QueuesOK, LoopAssumption
  <2>3. QED
    BY <1>0, <2>1, <2>2, QueueStep DEF QueuesOK
<1>2. \A d \in Conns : Len(rx'[d]) <= RcvCap
  <2>0. RcvCap \in Nat /\ \A d \in Conns : Len(rx[d]) \in Nat
    BY <1>0, LoopAssumption DEF TypeOK, LoopAssumption
  <2>1. ASSUME NEW c \in Conns, NEW k \in Kinds, Send(c, k), NEW d \in Conns
        PROVE  Len(rx'[d]) <= RcvCap
    <3>1. CASE d = c
      <4>1. /\ Len(rx[c]) < RcvCap
            /\ rx[c] \in Seq(Chunk) /\ k \in Chunk /\ rx'[c] = Append(rx[c], k)
        BY <1>0, <2>1, LoopAssumption DEF Send, TypeOK, LoopAssumption
      <4>2. Len(rx'[c]) = Len(rx[c]) + 1
        BY <4>1
      <4>3. QED
        BY <2>0, <3>1, <4>1, <4>2
    <3>2. CASE d # c
      BY <1>0, <2>1, <3>2 DEF Send, QueuesOK, TypeOK
    <3>3. QED
      BY <3>1, <3>2
  <2>2. ASSUME NEW c \in Conns, RecvData(c) \/ RecvError(c), NEW d \in Conns
        PROVE  Len(rx'[d]) <= RcvCap
    <3>1. Len(rx'[d]) <= Len(rx[d]) /\ Len(rx'[d]) \in Nat
      BY <1>0, <2>0, <2>2, RecvFacts
    <3>2. QED
      BY <1>0, <2>0, <3>1 DEF QueuesOK
  <2>3. CASE UNCHANGED rx
    BY <1>0, <2>3 DEF QueuesOK
  <2>4. QED
    BY <2>1, <2>2, <2>3, QueueStep
<1>3. QED
  BY <1>1, <1>2 DEF QueuesOK

(* Events are held for open connections only, the batch is empty outside   *)
(* the loop over it, and the server serves a connection exactly while Lua  *)
(* runs.                                                                   *)
LEMMA EventsStep == LoopInv /\ [Next]_vars => EventsOK'
<1> SUFFICES ASSUME LoopInv, [Next]_vars PROVE EventsOK'
  OBVIOUS
<1>0. TypeOK /\ EventsOK /\ EventsStayTrue /\ ServedOK
  BY DEF LoopInv
<1>1. CASE Setup
  BY <1>0, <1>1 DEF Setup, EventsOK
<1>2. CASE epoll_wait
  BY <1>0, <1>2 DEF epoll_wait, EventsOK
<1>3. CASE UdpHandler
  BY <1>0, <1>3, HandledFacts DEF UdpHandler, EventsOK
<1>4. CASE Accept
  <2> DEFINE c == Head(backlog)
  <2>1. c \in Conns
    BY <1>0, <1>4 DEF Accept, TypeOK
  <2>2. CASE conn' = [conn EXCEPT ![c] = "open"] /\ Handled("tcp")
             /\ ready' = IF Readable(c) THEN ready \cup {c} ELSE ready
    BY <1>0, <1>4, <2>1, <2>2, HandledFacts DEF Accept, EventsOK, TypeOK
  <2>3. CASE phase' = "exited" /\ UNCHANGED <<conn, client_addr, backlog, ready, batch>>
    BY <1>0, <1>4, <2>3 DEF Accept, EventsOK
  <2>4. QED
    BY <1>4, <2>2, <2>3 DEF Accept
<1>5. ASSUME NEW c \in Conns, CloseHandler(c) PROVE EventsOK'
  BY <1>0, <1>5, HandledFacts DEF CloseHandler, EventsOK, TypeOK
<1>6. ASSUME NEW c \in Conns, StopHandler(c) PROVE EventsOK'
  BY <1>0, <1>6 DEF StopHandler, EventsOK
<1>7. ASSUME NEW c \in Conns, QuickHandler(c) PROVE EventsOK'
  BY <1>0, <1>7, HandledFacts DEF QuickHandler, EventsOK
<1>8. ASSUME NEW c \in Conns, LuaHandler(c) PROVE EventsOK'
  <2>1. ready' \subseteq ready \cup {c} /\ conn[c] = "open" /\ UNCHANGED conn
    BY <1>0, <1>8, SendFacts DEF LuaHandler, EventsStayTrue
  <2>2. phase' = "lua" /\ serving'.sock \in Conns
    BY <1>8 DEF LuaHandler
  <2>3. QED
    BY <1>0, <2>1, <2>2 DEF EventsOK
<1>9. CASE LuaRecv \/ LuaRecvNil
  <2> DEFINE c == serving.sock
  <2>1. c \in Conns /\ conn[c] = "open" /\ UNCHANGED <<conn, batch>>
    BY <1>0, <1>9 DEF LuaRecv, LuaRecvNil, EventsOK, ServedOK
  <2>2. ready' \subseteq ready \cup {c}
    BY <1>0, <1>9, <2>1, SendFacts DEF LuaRecv, LuaRecvNil
  <2>3. \/ phase' \in {"poll", "handle"} /\ (phase' = "poll" => batch = {}) /\ serving' = Idle
        \/ phase' = "exited"
        \/ phase' = "lua" /\ UNCHANGED serving
    BY <1>9 DEF LuaRecv, LuaRecvNil, LuaReturns
  <2>4. QED
    BY <1>0, <2>1, <2>2, <2>3 DEF EventsOK
<1>10. CASE LuaRecvError
  BY <1>0, <1>10 DEF LuaRecvError, EventsOK
<1>11. ASSUME NEW c \in Conns, Connect(c) PROVE EventsOK'
  BY <1>0, <1>11 DEF Connect, EventsOK, TypeOK
<1>12. ASSUME NEW c \in Conns, NEW k \in Kinds, Send(c, k) PROVE EventsOK'
  BY <1>0, <1>12 DEF Send, Edge, EventsOK
<1>13. ASSUME NEW c \in Conns, NEW how \in {"fin", "err"}, Finish(c, how) PROVE EventsOK'
  BY <1>0, <1>13 DEF Finish, Edge, EventsOK
<1>14. ASSUME NEW p \in Peers, Datagram(p) PROVE EventsOK'
  BY <1>0, <1>14, LoopAssumption DEF Datagram, EventsOK, LoopAssumption
<1>15. CASE StopRequest
  BY <1>0, <1>15 DEF StopRequest, EventsOK
<1>16. CASE UNCHANGED vars
  BY <1>0, <1>16 DEF vars, EventsOK
<1>17. QED
  BY <1>1, <1>2, <1>3, <1>4, <1>5, <1>6, <1>7, <1>8, <1>9, <1>10, <1>11, <1>12,
     <1>13, <1>14, <1>15, <1>16 DEF Next, Server, Environment

(* An event in the batch keeps meaning what epoll_wait said. *)
LEMMA StayTrueStep == LoopInv /\ [Next]_vars => EventsStayTrue'
<1> SUFFICES ASSUME LoopInv, [Next]_vars, phase' \in {"handle", "lua"} PROVE EventsStayTrue'
  BY DEF EventsStayTrue
<1>0. TypeOK /\ EventsOK /\ EventsStayTrue /\ ServedOK
  BY DEF LoopInv
<1>1. CASE Setup
  BY <1>1 DEF Setup
<1>2. CASE epoll_wait
  <2>1. batch' = Pollable /\ UNCHANGED <<conn, udpQ, backlog, rx, eof>>
    BY <1>2 DEF epoll_wait, clientVars
  <2>2. "udp" \in Pollable => udpQ # <<>>
    BY DEF Pollable
  <2>3. "tcp" \in Pollable => backlog # <<>>
    BY <1>0, LoopAssumption DEF Pollable, TypeOK, LoopAssumption
  <2>4. \A c \in Pollable \cap Conns : c \in ready /\ Readable(c)
    BY LoopAssumption DEF Pollable, LoopAssumption
  <2>5. QED
    BY <1>0, <2>1, <2>2, <2>3, <2>4 DEF EventsOK, EventsStayTrue, Readable
<1>3. CASE UdpHandler
  BY <1>0, <1>3, HandledFacts DEF UdpHandler, EventsStayTrue, Readable, clientVars
<1>4. CASE Accept
  <2> DEFINE c == Head(backlog)
  <2>1. c \in Conns
    BY <1>0, <1>4 DEF Accept, TypeOK
  <2>2. conn' = [conn EXCEPT ![c] = "open"] /\ Handled("tcp")
    BY <1>4 DEF Accept
  <2>3. QED
    BY <1>0, <1>4, <2>1, <2>2, HandledFacts DEF Accept, EventsStayTrue, Readable, TypeOK
<1>5. ASSUME NEW c \in Conns, CloseHandler(c) PROVE EventsStayTrue'
  BY <1>0, <1>5, HandledFacts DEF CloseHandler, EventsStayTrue, Readable, TypeOK, clientVars
<1>6. ASSUME NEW c \in Conns, StopHandler(c) PROVE EventsStayTrue'
  BY <1>6 DEF StopHandler
<1>7. ASSUME NEW c \in Conns, QuickHandler(c) PROVE EventsStayTrue'
  <2>1. /\ \A d \in Conns \ {c} : rx'[d] = rx[d] /\ eof'[d] = eof[d]
        /\ batch' = batch \ {c}
    BY <1>0, <1>7, RecvFacts, HandledFacts DEF QuickHandler
  <2>2. QED
    BY <1>0, <1>7, <2>1 DEF QuickHandler, EventsStayTrue, Readable
<1>8. ASSUME NEW c \in Conns, LuaHandler(c) PROVE EventsStayTrue'
  <2>1. /\ \A d \in Conns \ {c} : rx'[d] = rx[d] /\ eof'[d] = eof[d]
        /\ batch' = batch \ {c}
    BY <1>0, <1>8, RecvFacts DEF LuaHandler
  <2>2. QED
    BY <1>0, <1>8, <2>1 DEF LuaHandler, EventsStayTrue, Readable
<1>9. CASE LuaRecv \/ LuaRecvError
  <2> DEFINE c == serving.sock
  <2>1. c \in Conns /\ c \notin batch /\ phase = "lua" /\ UNCHANGED <<batch, conn, udpQ, backlog>>
    BY <1>0, <1>9 DEF LuaRecv, LuaRecvError, EventsOK, ServedOK
  <2>2. \A d \in Conns \ {c} : rx'[d] = rx[d] /\ eof'[d] = eof[d]
    BY <1>0, <1>9, <2>1, RecvFacts DEF LuaRecv, LuaRecvError
  <2>3. QED
    BY <1>0, <2>1, <2>2 DEF EventsStayTrue, Readable
<1>10. CASE LuaRecvNil
  BY <1>0, <1>10 DEF LuaRecvNil, clientVars, EventsStayTrue, Readable
<1>11. ASSUME NEW c \in Conns, Connect(c) PROVE EventsStayTrue'
  <2>1. backlog' # <<>>
    BY <1>0, <1>11 DEF Connect, TypeOK
  <2>2. QED
    BY <1>0, <1>11, <2>1 DEF Connect, EventsStayTrue, Readable, TypeOK
<1>12. ASSUME NEW c \in Conns, NEW k \in Kinds, Send(c, k) PROVE EventsStayTrue'
  <2>1. rx[c] \in Seq(Chunk) /\ k \in Chunk /\ rx'[c] = Append(rx[c], k)
    BY <1>0, <1>12, LoopAssumption DEF Send, TypeOK, LoopAssumption
  <2>2. rx'[c] # <<>>
    BY <2>1
  <2>3. \A d \in Conns \ {c} : rx'[d] = rx[d]
    BY <1>0, <1>12 DEF Send, TypeOK
  <2>4. QED
    BY <1>0, <1>12, <2>2, <2>3 DEF Send, EventsStayTrue, Readable
<1>13. ASSUME NEW c \in Conns, NEW how \in {"fin", "err"}, Finish(c, how) PROVE EventsStayTrue'
  BY <1>0, <1>13 DEF Finish, EventsStayTrue, Readable, TypeOK
<1>14. ASSUME NEW p \in Peers, Datagram(p) PROVE EventsStayTrue'
  <2>1. udpQ \in Seq(Peers) /\ udpQ' = Append(udpQ, p)
    BY <1>0, <1>14 DEF Datagram, TypeOK
  <2>2. udpQ' # <<>>
    BY <2>1
  <2>3. QED
    BY <1>0, <1>14, <2>2 DEF Datagram, EventsStayTrue, Readable, clientVars
<1>15. CASE StopRequest
  BY <1>0, <1>15 DEF StopRequest, EventsStayTrue, Readable, clientVars
<1>16. CASE UNCHANGED vars
  BY <1>0, <1>16 DEF vars, EventsStayTrue, Readable
<1>17. QED
  BY <1>1, <1>2, <1>3, <1>4, <1>5, <1>6, <1>7, <1>8, <1>9, <1>10, <1>11, <1>12,
     <1>13, <1>14, <1>15, <1>16 DEF Next, Server, Environment

(* A full UDP buffer stays announced. *)
LEMMA UdpStep == LoopInv /\ [Next]_vars => FullUdpIsAnnounced'
<1> SUFFICES ASSUME LoopInv, [Next]_vars PROVE FullUdpIsAnnounced'
  OBVIOUS
<1>0. TypeOK /\ QueuesOK /\ EventsOK /\ FullUdpIsAnnounced
  BY DEF LoopInv
<1>1. ASSUME NEW p \in Peers, Datagram(p) PROVE FullUdpIsAnnounced'
  BY <1>1 DEF Datagram, FullUdpIsAnnounced
<1>2. CASE UdpHandler
  <2>1. udpQ # <<>> /\ udpQ' = Tail(udpQ) /\ udpQ \in Seq(Peers)
    BY <1>0, <1>2 DEF UdpHandler, TypeOK
  <2>2. Len(udpQ') = Len(udpQ) - 1 /\ Len(udpQ) \in Nat
    BY <2>1
  <2>3. QED
    BY <1>0, <2>2, LoopAssumption DEF QueuesOK, FullUdpIsAnnounced, LoopAssumption
<1>3. CASE epoll_wait
  <2>1. batch = {} /\ batch' = Pollable /\ udpQ' = udpQ
    BY <1>0, <1>3 DEF epoll_wait, EventsOK
  <2>2. Len(udpQ) = UdpCap => udpQ # <<>>
    BY LoopAssumption DEF LoopAssumption
  <2>3. QED
    BY <1>0, <2>1, <2>2 DEF FullUdpIsAnnounced, Pollable
<1>4. ASSUME UNCHANGED udpQ,
             "udp" \in ready => "udp" \in ready',
             "udp" \in batch => "udp" \in batch'
      PROVE  FullUdpIsAnnounced'
  BY <1>0, <1>4 DEF FullUdpIsAnnounced
<1>5. Conns \cap {"udp", "tcp"} = {}
  BY LoopAssumption DEF LoopAssumption
<1>6. ASSUME NEW c \in Conns, CloseHandler(c) \/ QuickHandler(c) PROVE FullUdpIsAnnounced'
  BY <1>4, <1>5, <1>6 DEF CloseHandler, QuickHandler, Handled
<1>7. ASSUME NEW c \in Conns, LuaHandler(c) PROVE FullUdpIsAnnounced'
  BY <1>4, <1>5, <1>7 DEF LuaHandler, AfterSend
<1>8. CASE Accept
  BY <1>4, <1>8 DEF Accept, Handled
<1>9. CASE LuaRecv \/ LuaRecvError \/ LuaRecvNil
  BY <1>4, <1>9 DEF LuaRecv, LuaRecvError, LuaRecvNil, AfterSend
<1>10. CASE Setup \/ StopRequest \/ UNCHANGED vars
  BY <1>4, <1>10 DEF Setup, StopRequest, vars
<1>11. ASSUME NEW c \in Conns, StopHandler(c) \/ Connect(c) PROVE FullUdpIsAnnounced'
  BY <1>4, <1>11 DEF StopHandler, Connect
<1>12. ASSUME NEW c \in Conns, NEW k \in Kinds, Send(c, k) PROVE FullUdpIsAnnounced'
  BY <1>4, <1>12 DEF Send, Edge
<1>13. ASSUME NEW c \in Conns, NEW how \in {"fin", "err"}, Finish(c, how)
       PROVE  FullUdpIsAnnounced'
  BY <1>4, <1>13 DEF Finish, Edge
<1>14. QED
  BY <1>1, <1>2, <1>3, <1>6, <1>7, <1>8, <1>9, <1>10, <1>11, <1>12, <1>13
  DEF Next, Server, Environment

(* The socket a handler reads stays open and out of the batch. *)
LEMMA ServedStep == LoopInv /\ [Next]_vars => ServedOK'
<1> SUFFICES ASSUME LoopInv, [Next]_vars, phase' = "lua" PROVE ServedOK'
  BY DEF ServedOK
<1>0. TypeOK /\ EventsOK /\ EventsStayTrue /\ ServedOK
  BY DEF LoopInv
<1>1. ASSUME NEW c \in Conns, LuaHandler(c) PROVE ServedOK'
  <2>1. conn[c] = "open" /\ UNCHANGED conn /\ batch' = batch \ {c} /\ serving'.sock = c
    BY <1>0, <1>1 DEF LuaHandler, EventsStayTrue
  <2>2. QED
    BY <2>1 DEF ServedOK
<1>2. ASSUME phase = "lua", UNCHANGED <<conn, batch, serving>> PROVE ServedOK'
  BY <1>0, <1>2 DEF ServedOK
<1>3. ASSUME NEW c \in Conns, Connect(c) PROVE ServedOK'
  BY <1>0, <1>3 DEF Connect, ServedOK, EventsOK, TypeOK
<1>4. CASE Server
  <2>1. CASE Setup \/ epoll_wait \/ UdpHandler \/ Accept
    BY <2>1 DEF Setup, epoll_wait, UdpHandler, Accept, Handled
  <2>2. ASSUME NEW c \in Conns, CloseHandler(c) \/ StopHandler(c) \/ QuickHandler(c)
        PROVE  ServedOK'
    BY <2>2 DEF CloseHandler, StopHandler, QuickHandler, Handled
  <2>3. CASE LuaRecv \/ LuaRecvError \/ LuaRecvNil
    BY <1>2, <2>3 DEF LuaRecv, LuaRecvError, LuaRecvNil, LuaReturns
  <2>4. QED
    BY <1>1, <1>4, <2>1, <2>2, <2>3 DEF Server
<1>5. CASE Environment
  BY <1>2, <1>3, <1>5 DEF Environment, Send, Finish, Datagram, StopRequest
<1>6. CASE UNCHANGED vars
  BY <1>2, <1>6 DEF vars
<1>7. QED
  BY <1>4, <1>5, <1>6 DEF Next

(* Unread input that a full recv cannot have left behind stays announced. *)
LEMMA UnreadStep == LoopInv /\ [Next]_vars => UnreadIsAnnounced'
<1> SUFFICES ASSUME LoopInv, [Next]_vars, NEW d \in Conns,
                    conn'[d] = "open", rx'[d] # <<>>, Len(rx'[d]) + RecvMax > RcvCap
             PROVE  d \in ready' \cup batch'
  BY DEF UnreadIsAnnounced, Open
<1> DEFINE Goal == d \in ready' \cup batch'
<1>0. TypeOK /\ BacklogOK /\ QueuesOK /\ EventsOK /\ EventsStayTrue /\ UnreadIsAnnounced
  BY DEF LoopInv
<1>a. conn[d] = "open" /\ rx'[d] = rx[d] => d \in ready \cup batch
  BY <1>0 DEF UnreadIsAnnounced, Open
<1>c. \A c \in Conns : RecvData(c) \/ RecvError(c) => c # d /\ rx'[d] = rx[d]
  <2> SUFFICES ASSUME NEW c \in Conns, RecvData(c) \/ RecvError(c)
               PROVE  c # d /\ rx'[d] = rx[d]
    OBVIOUS
  <2>1. /\ rx' \in [Conns -> Seq(Chunk)]
        /\ rx'[c] = <<>> \/ Len(rx'[c]) + RecvMax <= Len(rx[c])
        /\ c # d => rx'[d] = rx[d]
    BY <1>0, RecvFacts
  <2>2. /\ Len(rx[c]) \in Nat /\ Len(rx'[c]) \in Nat /\ RecvMax \in Nat /\ RcvCap \in Nat
        /\ Len(rx[c]) <= RcvCap
    BY <1>0, <2>1, LoopAssumption DEF TypeOK, QueuesOK, LoopAssumption
  <2>3. QED
    BY <2>1, <2>2
<1>d. Conns \cap {"udp", "tcp", "nobody"} = {}
  BY LoopAssumption DEF LoopAssumption
<1>1. CASE Setup
  BY <1>a, <1>1 DEF Setup, clientVars
<1>2. CASE epoll_wait
  <2>1. batch = {} /\ batch' = Pollable /\ UNCHANGED <<conn, rx, backlog>>
    BY <1>0, <1>2 DEF epoll_wait, clientVars, EventsOK
  <2>2. d \in ready
    BY <1>a, <2>1
  <2>3. QED
    BY <1>d, <2>1, <2>2 DEF Pollable, Readable
<1>3. CASE UdpHandler
  BY <1>a, <1>d, <1>3 DEF UdpHandler, Handled, clientVars
<1>4. CASE Accept
  <2> DEFINE c == Head(backlog)
  <2>1. CASE /\ conn' = [conn EXCEPT ![c] = "open"] /\ Handled("tcp")
             /\ ready' = IF Readable(c) THEN ready \cup {c} ELSE ready
    <3>1. CASE d = c
      BY <1>4, <2>1, <3>1 DEF Accept, Readable
    <3>2. CASE d # c
      BY <1>0, <1>a, <1>d, <1>4, <2>1, <3>2, HandledFacts DEF Accept, TypeOK
    <3>3. QED
      BY <3>1, <3>2
  <2>2. CASE UNCHANGED <<conn, client_addr, backlog, ready, batch>>
    BY <1>a, <1>4, <2>2 DEF Accept
  <2>3. QED
    BY <1>4, <2>1, <2>2 DEF Accept
<1>5. ASSUME NEW c \in Conns, CloseHandler(c) PROVE Goal
  <2>1. c # d /\ conn'[d] = conn[d]
    BY <1>0, <1>5 DEF CloseHandler, TypeOK
  <2>2. QED
    BY <1>0, <1>a, <1>5, <2>1, HandledFacts DEF CloseHandler, clientVars
<1>6. ASSUME NEW c \in Conns, StopHandler(c) PROVE Goal
  BY <1>a, <1>c, <1>6 DEF StopHandler
<1>7. ASSUME NEW c \in Conns, QuickHandler(c) PROVE Goal
  BY <1>0, <1>a, <1>c, <1>7, HandledFacts DEF QuickHandler
<1>8. ASSUME NEW c \in Conns, LuaHandler(c) PROVE Goal
  <2>1. c # d /\ rx'[d] = rx[d]
    BY <1>c, <1>8 DEF LuaHandler
  <2>2. d \in ready \cup batch
    BY <1>a, <1>8, <2>1 DEF LuaHandler
  <2>3. QED
    BY <1>8, <2>1, <2>2 DEF LuaHandler, AfterSend
<1>9. CASE LuaRecv \/ LuaRecvError
  <2> DEFINE c == serving.sock
  <2>1. c \in Conns /\ (RecvData(c) \/ RecvError(c)) /\ UNCHANGED <<conn, batch>>
    BY <1>0, <1>9 DEF LuaRecv, LuaRecvError, EventsOK
  <2>2. c # d /\ rx'[d] = rx[d]
    BY <1>c, <2>1
  <2>3. ready \subseteq ready'
    BY <1>9 DEF LuaRecv, LuaRecvError, AfterSend
  <2>4. QED
    BY <1>a, <2>1, <2>2, <2>3
<1>10. CASE LuaRecvNil
  BY <1>a, <1>10 DEF LuaRecvNil, AfterSend, clientVars
<1>11. ASSUME NEW c \in Conns, Connect(c) PROVE Goal
  BY <1>0, <1>a, <1>11 DEF Connect, TypeOK
<1>12. ASSUME NEW c \in Conns, NEW k \in Kinds, Send(c, k) PROVE Goal
  BY <1>0, <1>a, <1>12 DEF Send, Edge, TypeOK
<1>13. ASSUME NEW c \in Conns, NEW how \in {"fin", "err"}, Finish(c, how) PROVE Goal
  BY <1>a, <1>13 DEF Finish, Edge
<1>14. ASSUME NEW p \in Peers, Datagram(p) PROVE Goal
  BY <1>a, <1>14 DEF Datagram, clientVars
<1>15. CASE StopRequest
  BY <1>a, <1>15 DEF StopRequest, clientVars
<1>16. CASE UNCHANGED vars
  BY <1>a, <1>16 DEF vars
<1>17. QED
  BY <1>1, <1>2, <1>3, <1>4, <1>5, <1>6, <1>7, <1>8, <1>9, <1>10, <1>11, <1>12,
     <1>13, <1>14, <1>15, <1>16 DEF Next, Server, Environment
-----------------------------------------------------------------------------
(* The inductive invariant holds of the loop before its first step, and    *)
(* every step keeps it.                                                    *)
LEMMA LoopInvariant == Spec => []LoopInv
<1>1. Init => LoopInv
  <2> SUFFICES ASSUME Init PROVE LoopInv
    OBVIOUS
  <2>1. TypeOK
    <3>1. serving \in [sock : Conns \cup {Nobody}, fn : Chunk \cup {"none"}]
      BY DEF Init, Idle
    <3>2. /\ conn \in [Conns -> {"none", "queued", "open", "closed"}]
          /\ rx \in [Conns -> Seq(Chunk)]
          /\ eof \in [Conns -> {"no", "fin", "err", "errRead"}]
          /\ sends \in [Conns -> Nat]
      BY DEF Init
    <3>3. /\ phase \in {"setup", "poll", "handle", "lua", "stopped", "exited"}
          /\ batch \in SUBSET (Conns \cup {"udp", "tcp"})
          /\ ready \in SUBSET (Conns \cup {"udp"})
          /\ client_addr \in Conns \cup Peers \cup {Nobody}
      BY DEF Init
    <3>4. backlog \in Seq(Conns) /\ udpQ \in Seq(Peers)
      BY DEF Init
    <3>5. inited \in BOOLEAN
      BY DEF Init
    <3>6. QED
      BY <3>1, <3>2, <3>3, <3>4, <3>5, Zenon DEF TypeOK
  <2>2. BacklogOK /\ EventsOK
    BY DEF Init, BacklogOK, EventsOK
  <2>3. Len(<<>>) = 0 /\ udpQ = <<>> /\ \A c \in Conns : rx[c] = <<>>
    BY DEF Init
  <2>4. QueuesOK /\ FullUdpIsAnnounced
    BY <2>3, LoopAssumption DEF QueuesOK, FullUdpIsAnnounced, LoopAssumption
  <2>5. EventsStayTrue /\ UnreadIsAnnounced /\ ServedOK
    BY DEF Init, EventsStayTrue, UnreadIsAnnounced, ServedOK, Open
  <2>6. QED
    BY <2>1, <2>2, <2>4, <2>5 DEF LoopInv
<1>2. LoopInv /\ [Next]_vars => LoopInv'
  BY TypeStep, BacklogStep, QueuesStep, EventsStep, StayTrueStep, UdpStep, UnreadStep,
     ServedStep DEF LoopInv
<1>3. QED
  BY <1>1, <1>2, PTL DEF Spec

(* The loop's state keeps its types, whatever the clients do. *)
THEOREM LoopTypeCorrect == Spec => []TypeOK
<1>1. LoopInv => TypeOK
  BY DEF LoopInv
<1>2. QED
  BY <1>1, LoopInvariant, PTL

(* recvfrom and accept, called only on an event of the batch, always find  *)
(* a datagram or a connection, and no event outlives its descriptor's      *)
(* close.                                                                  *)
THEOREM EventsAreNeverStale == Spec => []EventsStayTrue
<1>1. LoopInv => EventsStayTrue
  BY DEF LoopInv
<1>2. QED
  BY <1>1, LoopInvariant, PTL

(* Reading one datagram per edge never leaves a full UDP buffer without an *)
(* event, for any size of the buffer.                                      *)
THEOREM UdpNeverDeaf == Spec => []FullUdpIsAnnounced
<1>1. LoopInv => FullUdpIsAnnounced
  BY DEF LoopInv
<1>2. QED
  BY <1>1, LoopInvariant, PTL

(* Reading once per edge leaves a connection without an event only when    *)
(* its window has room for what one recv takes: no client is ever silenced *)
(* by a full window, for any size of the window and of the buffer.         *)
THEOREM UnreadNeverForgotten == Spec => []UnreadIsAnnounced
<1>1. LoopInv => UnreadIsAnnounced
  BY DEF LoopInv
<1>2. QED
  BY <1>1, LoopInvariant, PTL
=============================================================================
