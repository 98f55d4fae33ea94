------------------------------ MODULE EventLoop ------------------------------
(***************************************************************************)
(* The event loop of serv_thread (src/src/async_serv.cpp): one thread, one *)
(* epoll instance, a listening TCP socket (level-triggered), a UDP socket  *)
(* and the accepted connections (both edge-triggered), the dispatch on the *)
(* opcode of a message, and the Lua handlers that keep the thread busy     *)
(* until their client says something (src/src/luasubmodules/init.lua).     *)
(*                                                                         *)
(* A TCP stream is a sequence of chunks, a datagram is its sender; what a  *)
(* UDP datagram does to the registry of peers is in PeerRegistry.          *)
(***************************************************************************)
EXTENDS Naturals, Sequences, FiniteSets

CONSTANTS Conns,      \* the TCP connections clients may open, each once
          Peers,      \* the addresses UDP datagrams come from
          Kinds,      \* the chunks clients send, a subset of Chunk
          MaxFds,     \* connections the descriptor table has room for
          RecvMax,    \* chunks that fit in one recv (SBUF bytes in the code)
          RcvCap,     \* unread chunks the receive window of a connection holds
          UdpCap,     \* datagrams that fit in the UDP socket's buffer
          MaxSends    \* bound on the chunks a client sends

(* What a chunk starts with: an opcode the server's table knows (opEvent0, *)
(* opEvent1), one the Lua table knows (pisk, pizd), or none: a text of two *)
(* characters or more, or a single character.                              *)
Chunk == {"opEvent0", "opEvent1", "pisk", "pizd", "text", "char"}

(* Opcodes whose handler returns at once: event0, and any that neither the *)
(* server's table nor the Lua table knows (undefined_event returns nil).   *)
AtOnce == {"opEvent0", "text", "char"}

(* Opcodes whose handler waits for more input of the same client.          *)
Waiting == {"opEvent1", "pisk", "pizd"}

ASSUME LoopAssumption ==
    /\ Conns \cap Peers = {}
    /\ Conns \cap {"udp", "tcp", "nobody"} = {}
    /\ Kinds \subseteq Chunk
    /\ MaxFds \in Nat
    /\ RecvMax \in Nat \ {0}
    /\ RcvCap \in Nat \ {0}
    /\ UdpCap \in Nat \ {0}
    /\ MaxSends \in Nat

VARIABLES
    phase,       \* where the server thread is
    batch,       \* the events of the last epoll_wait not yet handled
    ready,       \* edge-triggered descriptors on epoll's ready list
    backlog,     \* connections waiting to be accepted, in order
    conn,        \* the server's side of each connection
    rx,          \* unread chunks of each connection
    eof,         \* how the peer ended the connection, and if it was read
    sends,       \* chunks each client has sent
    udpQ,        \* unread datagrams
    client_addr, \* the variable shared by the UDP, accept and client branches
    serving,     \* the connection and function of the running Lua handler
    inited       \* the Lua global server_inited

clientVars == <<backlog, rx, eof, sends>>
vars == <<phase, batch, ready, backlog, conn, rx, eof, sends, udpQ,
          client_addr, serving, inited>>

Nobody == "nobody"
Idle == [sock |-> Nobody, fn |-> "none"]

Init ==
    /\ phase = "setup"
    /\ batch = {} /\ ready = {}
    /\ backlog = <<>>
    /\ conn = [c \in Conns |-> "none"]
    /\ rx = [c \in Conns |-> <<>>]
    /\ eof = [c \in Conns |-> "no"]
    /\ sends = [c \in Conns |-> 0]
    /\ udpQ = <<>>
    /\ client_addr = Nobody
    /\ serving = Idle
    /\ inited = FALSE

Down == phase \in {"stopped", "exited"}

(* The peers are followed for as long as the loop runs. *)
Running == phase \notin {"setup", "stopped", "exited"}

Open == {c \in Conns : conn[c] = "open"}

(* What poll reports of a connection: input, end of stream or error. *)
Readable(c) == rx[c] # <<>> \/ eof[c] # "no"
-----------------------------------------------------------------------------
(* socket, bind, listen, epoll: each failure ends the process. *)
Setup ==
    /\ phase = "setup"
    /\ \/ phase' = "exited" /\ UNCHANGED inited
       \/ phase' = "poll" /\ inited' = TRUE
    /\ UNCHANGED <<batch, ready, conn, udpQ, client_addr, serving>>
    /\ UNCHANGED clientVars
-----------------------------------------------------------------------------
(* The peers of the server.  Input puts the descriptor of an accepted      *)
(* connection on the ready list; a dropped datagram wakes nobody, and a    *)
(* client whose window is full cannot send.                                *)

Edge(c) == ready' = IF conn[c] = "open" THEN ready \cup {c} ELSE ready

Connect(c) ==
    /\ Running
    /\ conn[c] = "none"
    /\ conn' = [conn EXCEPT ![c] = "queued"]
    /\ backlog' = Append(backlog, c)
    /\ UNCHANGED <<phase, batch, ready, rx, eof, sends, udpQ, client_addr,
                   serving, inited>>

Send(c, k) ==
    /\ Running
    /\ conn[c] \in {"queued", "open"} /\ eof[c] = "no"
    /\ sends[c] < MaxSends
    /\ Len(rx[c]) < RcvCap
    /\ rx' = [rx EXCEPT ![c] = Append(@, k)]
    /\ sends' = [sends EXCEPT ![c] = @ + 1]
    /\ Edge(c)
    /\ UNCHANGED <<phase, batch, backlog, conn, eof, udpQ, client_addr,
                   serving, inited>>

(* The peer closes its side, or resets the connection. *)
Finish(c, how) ==
    /\ Running
    /\ conn[c] \in {"queued", "open"} /\ eof[c] = "no"
    /\ eof' = [eof EXCEPT ![c] = how]
    /\ Edge(c)
    /\ UNCHANGED <<phase, batch, backlog, conn, rx, sends, udpQ, client_addr,
                   serving, inited>>

Datagram(p) ==
    /\ Running
    /\ Len(udpQ) < UdpCap
    /\ udpQ' = Append(udpQ, p)
    /\ ready' = ready \cup {"udp"}
    /\ UNCHANGED <<phase, batch, conn, client_addr, serving, inited>>
    /\ UNCHANGED clientVars

(* A script on the Lua console clears server_inited. *)
StopRequest ==
    /\ Running
    /\ inited' = FALSE
    /\ UNCHANGED <<phase, batch, ready, conn, udpQ, client_addr, serving>>
    /\ UNCHANGED clientVars
-----------------------------------------------------------------------------
(* The descriptors epoll_wait reports: those on the ready list that still  *)
(* have something, and the listening socket while anyone is queued.        *)
Pollable ==
    {f \in ready : IF f = "udp" THEN udpQ # <<>> ELSE Readable(f)}
        \cup (IF backlog # <<>> THEN {"tcp"} ELSE {})

epoll_wait ==
    /\ phase = "poll"
    /\ Pollable # {}
    /\ batch' = Pollable
    /\ ready' = {}
    /\ phase' = "handle"
    /\ UNCHANGED <<conn, udpQ, client_addr, serving, inited>>
    /\ UNCHANGED clientVars

(* Mutant of Handled: break instead of continue drops the rest of the      *)
(* batch.                                                                  *)
HandledBreak(f) == batch' = {} /\ phase' = "poll"

(* The loop over the batch goes on, or back to epoll_wait. *)
Handled(f) ==
    /\ batch' = batch \ {f}
    /\ phase' = IF batch' = {} THEN "poll" ELSE "handle"

(* Mutants of UdpHandler: the event is taken for a timeout and nothing is  *)
(* read; the missing continue leaves the event in the batch; the address   *)
(* is not taken from the datagram.                                         *)
UdpHandlerTimeout ==
    /\ phase = "handle" /\ "udp" \in batch
    /\ Handled("udp")
    /\ UNCHANGED <<ready, conn, udpQ, client_addr, serving, inited>>
    /\ UNCHANGED clientVars
UdpHandlerAgain ==
    /\ phase = "handle" /\ "udp" \in batch
    /\ udpQ # <<>>
    /\ client_addr' = Head(udpQ)
    /\ udpQ' = Tail(udpQ)
    /\ UNCHANGED <<phase, batch, ready, conn, serving, inited>>
    /\ UNCHANGED clientVars
UdpHandlerNoAddress ==
    /\ phase = "handle" /\ "udp" \in batch
    /\ client_addr' = "udp"
    /\ udpQ' = Tail(udpQ)
    /\ Handled("udp")
    /\ UNCHANGED <<ready, conn, serving, inited>>
    /\ UNCHANGED clientVars

(* One recvfrom per event, whatever is queued, then the registry and the   *)
(* two answers (PeerRegistry).                                             *)
UdpHandler ==
    /\ phase = "handle" /\ "udp" \in batch
    /\ udpQ # <<>>
    /\ client_addr' = Head(udpQ)
    /\ udpQ' = Tail(udpQ)
    /\ Handled("udp")
    /\ UNCHANGED <<ready, conn, serving, inited>>
    /\ UNCHANGED clientVars

(* accept, O_NONBLOCK, EPOLL_CTL_ADD: adding a socket that already has     *)
(* input puts it on the ready list.  Without a free descriptor accept      *)
(* fails and the process exits.                                            *)
Accept ==
    /\ phase = "handle" /\ "tcp" \in batch
    /\ backlog # <<>>
    /\ LET c == Head(backlog)
       IN  \/ /\ Cardinality(Open) < MaxFds
              /\ conn' = [conn EXCEPT ![c] = "open"]
              /\ client_addr' = c
              /\ backlog' = Tail(backlog)
              /\ ready' = IF Readable(c) THEN ready \cup {c} ELSE ready
              /\ Handled("tcp")
           \/ /\ Cardinality(Open) >= MaxFds
              /\ phase' = "exited"
              /\ UNCHANGED <<conn, client_addr, backlog, ready, batch>>
    /\ UNCHANGED <<rx, eof, sends, udpQ, serving, inited>>
-----------------------------------------------------------------------------
(* recv on a socket: everything up to the buffer's size; when nothing is   *)
(* unread 0 after a FIN, -1 once after a reset and 0 from then on, and -1  *)
(* (EWOULDBLOCK) on a live connection.                                     *)
Taken(c) ==
    IF Len(rx[c]) <= RecvMax THEN rx[c] ELSE SubSeq(rx[c], 1, RecvMax)

Left(c) ==
    IF Len(rx[c]) <= RecvMax THEN <<>> ELSE SubSeq(rx[c], RecvMax + 1, Len(rx[c]))

RecvZero(c) == rx[c] = <<>> /\ eof[c] \in {"fin", "errRead"}

RecvData(c) ==
    /\ rx[c] # <<>>
    /\ rx' = [rx EXCEPT ![c] = Left(c)]
    /\ UNCHANGED eof

RecvError(c) ==
    /\ rx[c] = <<>> /\ eof[c] = "err"
    /\ eof' = [eof EXCEPT ![c] = "errRead"]
    /\ UNCHANGED rx

(* A send to a peer that closed both ways is answered with a reset, which  *)
(* wakes the descriptor again; one to a peer that only closed its sending  *)
(* side is not.                                                            *)
AfterSend(c) ==
    \/ UNCHANGED ready
    \/ eof[c] = "fin" /\ ready' = ready \cup {c}

(* recv returns 0: EPOLL_CTL_DEL and close. *)
CloseHandler(c) ==
    /\ phase = "handle" /\ c \in batch
    /\ RecvZero(c)
    /\ conn' = [conn EXCEPT ![c] = "closed"]
    /\ ready' = ready \ {c}
    /\ Handled(c)
    /\ UNCHANGED <<udpQ, client_addr, serving, inited>>
    /\ UNCHANGED clientVars

(* recv returned -1, which the size_t nbytes turns into a positive number, *)
(* or data: the flag is read, then the opcode decides.                     *)
StopHandler(c) ==
    /\ phase = "handle" /\ c \in batch
    /\ ~inited
    /\ RecvData(c) \/ RecvError(c)
    /\ phase' = "stopped"
    /\ UNCHANGED <<batch, ready, backlog, conn, sends, udpQ, client_addr,
                   serving, inited>>

(* Opcodes that call nothing that waits: event0, and whatever neither      *)
(* table knows (undefined_event returns nil and nothing is sent).  After   *)
(* a failed recv the zeroed buffer is such an opcode.                      *)
QuickHandler(c) ==
    /\ phase = "handle" /\ c \in batch
    /\ inited
    /\ \/ RecvError(c)
       \/ rx[c] # <<>> /\ Head(rx[c]) \in AtOnce /\ RecvData(c)
    /\ Handled(c)
    /\ UNCHANGED <<ready, backlog, conn, sends, udpQ, client_addr, serving, inited>>

(* event1 (which first sends "Test?"), pisk and pizd enter a Lua loop that *)
(* reads the same socket.                                                  *)
LuaHandler(c) ==
    /\ phase = "handle" /\ c \in batch
    /\ inited
    /\ rx[c] # <<>> /\ Head(rx[c]) \in Waiting
    /\ RecvData(c)
    /\ serving' = [sock |-> c, fn |-> Head(rx[c])]
    /\ phase' = "lua"
    /\ batch' = batch \ {c}
    /\ IF Head(rx[c]) = "opEvent1" THEN AfterSend(c) ELSE UNCHANGED ready
    /\ UNCHANGED <<backlog, conn, sends, udpQ, client_addr, inited>>
-----------------------------------------------------------------------------
(* The handler returns to the loop over the batch. *)
LuaReturns ==
    /\ serving' = Idle
    /\ phase' = IF batch = {} THEN "poll" ELSE "handle"

(* string.len(msg) > 1 *)
LongEnough(msg) == Len(msg) > 1 \/ Head(msg) # "char"

(* lnet.recv returns input to the Lua loop.  A short text is read and      *)
(* dropped; so is any text when the address argument, which lnet.recv      *)
(* leaves uninitialised, makes the call fail after the read.  pizd raises  *)
(* an error on a text that is not hexadecimal, and an error in a handler   *)
(* is raised again outside any protected call: the process exits.  So it   *)
(* may when the answer, which pisk and pizd make from the text, is longer  *)
(* than the 512 bytes of retdata; the public key of event1 fits.           *)
LuaRecv ==
    LET c == serving.sock
    IN  /\ phase = "lua"
        /\ RecvData(c)
        /\ \/ /\ LongEnough(Taken(c))
              /\ LuaReturns
              /\ AfterSend(c)
           \/ serving.fn # "opEvent1" /\ LongEnough(Taken(c))
                /\ phase' = "exited" /\ UNCHANGED <<serving, ready>>
           \/ UNCHANGED <<phase, serving, ready>>
        /\ UNCHANGED <<batch, backlog, conn, sends, udpQ, client_addr, inited>>

(* A failed recv returns an empty text, and the loop goes on. *)
LuaRecvError ==
    /\ phase = "lua"
    /\ RecvError(serving.sock)
    /\ UNCHANGED <<phase, batch, ready, backlog, conn, sends, udpQ, client_addr,
                   serving, inited>>

(* Mutant of LuaRecvNil: the end of the stream is an empty text as well. *)
LuaRecvNilEmpty ==
    /\ phase = "lua"
    /\ RecvZero(serving.sock)
    /\ UNCHANGED <<phase, batch, ready, conn, udpQ, client_addr, serving, inited>>
    /\ UNCHANGED clientVars

(* At the end of the stream lnet.recv returns nil and the loop ends.       *)
(* event1 answers all the same; pisk and pizd use the nil, which is an     *)
(* error.                                                                  *)
LuaRecvNil ==
    LET c == serving.sock
    IN  /\ phase = "lua"
        /\ RecvZero(c)
        /\ \/ serving.fn = "opEvent1" /\ LuaReturns /\ AfterSend(c)
           \/ serving.fn # "opEvent1" /\ phase' = "exited"
                /\ UNCHANGED <<serving, ready>>
        /\ UNCHANGED <<batch, conn, udpQ, client_addr, inited>>
        /\ UNCHANGED clientVars
-----------------------------------------------------------------------------
Server ==
    \/ Setup
    \/ epoll_wait
    \/ UdpHandler
    \/ Accept
    \/ \E c \in Conns : \/ CloseHandler(c)
                        \/ StopHandler(c)
                        \/ QuickHandler(c)
                        \/ LuaHandler(c)
    \/ LuaRecv
    \/ LuaRecvError
    \/ LuaRecvNil

Environment ==
    \/ \E c \in Conns : \/ Connect(c)
                        \/ \E k \in Kinds : Send(c, k)
                        \/ \E how \in {"fin", "err"} : Finish(c, how)
    \/ \E p \in Peers : Datagram(p)
    \/ StopRequest

Next == Server \/ Environment

Spec == Init /\ [][Next]_vars

(* The server thread is never stopped by anyone but itself, so it takes    *)
(* its next step; nothing is assumed of the clients.                       *)
FairSpec == Spec /\ WF_vars(Server)
-----------------------------------------------------------------------------
TypeOK ==
    /\ phase \in {"setup", "poll", "handle", "lua", "stopped", "exited"}
    /\ batch \in SUBSET (Conns \cup {"udp", "tcp"})
    /\ ready \in SUBSET (Conns \cup {"udp"})
    /\ backlog \in Seq(Conns)
    /\ conn \in [Conns -> {"none", "queued", "open", "closed"}]
    /\ rx \in [Conns -> Seq(Chunk)]
    /\ eof \in [Conns -> {"no", "fin", "err", "errRead"}]
    /\ sends \in [Conns -> Nat]
    /\ udpQ \in Seq(Peers)
    /\ client_addr \in Conns \cup Peers \cup {Nobody}
    /\ serving \in [sock : Conns \cup {Nobody}, fn : Chunk \cup {"none"}]
    /\ inited \in BOOLEAN

(* An event in the batch still means what epoll_wait said, whatever was    *)
(* handled and whatever arrived in between: recvfrom and accept, which     *)
(* block or end the process when there is nothing, always find something,  *)
(* and no event outlives the close of its descriptor.                      *)
EventsStayTrue ==
    phase \in {"handle", "lua"} =>
        /\ "udp" \in batch => udpQ # <<>>
        /\ "tcp" \in batch => backlog # <<>>
        /\ \A c \in batch \cap Conns : conn[c] = "open" /\ Readable(c)

(* The UDP socket never goes deaf: when its buffer is full, so that new    *)
(* datagrams are dropped without waking the loop, an event is already on   *)
(* its way - although the handler reads only one datagram per edge.        *)
FullUdpIsAnnounced ==
    Len(udpQ) = UdpCap => "udp" \in ready \cup batch

(* No client is silenced: what lies unread on an accepted connection       *)
(* without an event is at most what a full recv left behind.  A window so  *)
(* full that the client cannot send, and so cannot cause an edge, is       *)
(* always announced; and nothing is left behind at all when one recv takes *)
(* as much as the window holds.                                            *)
UnreadIsAnnounced ==
    \A c \in Open :
        rx[c] # <<>> /\ Len(rx[c]) + RecvMax > RcvCap => c \in ready \cup batch

(* Nobody holds the loop for ever. *)
LoopIsReleased == []<>(phase # "lua")

(* Every connection in the backlog is accepted, unless the server ends or  *)
(* some client never lets go of the Lua loop.                              *)
QueuedIsAccepted ==
    LoopIsReleased => \A c \in Conns : conn[c] = "queued" ~> conn[c] # "queued" \/ Down

(* The descriptor of a peer that closes when the server has read all it    *)
(* sent is released, under the same condition.                             *)
QuietCloseIsReleased ==
    LoopIsReleased => \A c \in Conns :
        (conn[c] = "open" /\ rx[c] = <<>> /\ eof[c] = "fin" /\ c \in ready)
            ~> (conn[c] = "closed" \/ Down)

(* A full UDP buffer, which drops every datagram, gets room again, under   *)
(* the same condition.                                                     *)
FullUdpIsRead ==
    LoopIsReleased => (Len(udpQ) = UdpCap ~> Len(udpQ) < UdpCap \/ Down)

(* A client that ends its connection while the loop waits for it in Lua    *)
(* lets go of the loop, whatever it sent before and however it left: the   *)
(* handler returns, or its failure ends the process.                       *)
HolderIsReleased ==
    \A c \in Conns :
        (phase = "lua" /\ serving.sock = c /\ eof[c] # "no") ~> phase # "lua"

(* The descriptor of every peer that ends its connection is released. *)
ClosedIsReleased ==
    LoopIsReleased => \A c \in Conns :
        (conn[c] = "open" /\ eof[c] # "no") ~> (conn[c] = "closed" \/ Down)

(* A handler is told the address of the client whose message it handles    *)
(* (init.lua prints it as the one the message is from).                    *)
HandlerSeesItsClient ==
    [][\A c \in Conns : QuickHandler(c) \/ LuaHandler(c) => client_addr = c]_vars
=============================================================================
