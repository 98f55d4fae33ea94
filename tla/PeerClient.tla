------------------------------ MODULE PeerClient ------------------------------
(***************************************************************************)
(* The clients (src/src/client/main.cpp) against the server's registry of  *)
(* peers (PeerRegistry), over UDP.  A client learns its address from the   *)
(* server, binds a second socket to it, and from then on asks for the list *)
(* of peers once per round, pings everyone on it and keeps in users_map    *)
(* whoever seems to be alive.                                              *)
(*                                                                         *)
(* A datagram is its sender, its kind and, when it is a list, the          *)
(* addresses.  It is put in the queue of its receiver when it is sent; how *)
(* much of a queue has arrived is decided where it matters: a read takes   *)
(* the head, a timeout means that the head is not there yet, and closing a *)
(* socket discards any part that has arrived.  A request is queued in the  *)
(* server's UDP socket, which the event loop reads once per edge (see      *)
(* EventLoop); the rest of the loop shows as delay.  The network loses     *)
(* datagrams and lets one overtake another at most MaxFaults times.        *)
(* Clients are not behind a NAT: the address the server sees is the one    *)
(* the client can bind.                                                    *)
(***************************************************************************)
EXTENDS Integers, Sequences, FiniteSets, SequencesExt

CONSTANTS Clients,        \* the clients, named by their address
          MaxUsers,       \* the registry's limit and its timeout
          Timeout,
          ClientTimeout,  \* delByPing(5): seconds an entry of users_map lives
          Wanted,         \* the user count must exceed it to start the test
          MaxClock,       \* bound on the clock
          MaxRounds,      \* bound on the rounds of a client
          MaxFaults       \* bound on lost, overtaken and unsendable datagrams

Server == "server"
Nobody == "nobody"

ASSUME ClientAssumption ==
    /\ Clients \cap {Server, Nobody} = {}
    /\ {MaxUsers, Timeout, ClientTimeout, Wanted} \subseteq Nat
    /\ {MaxClock, MaxRounds, MaxFaults} \subseteq Nat

VARIABLES users, clock, reply, heard,  \* the registry (PeerRegistry)
          inbox,      \* senders of the requests the server has not read
          events,     \* its UDP socket: on the ready list, in the batch
          queue,      \* datagrams sent to each client and not yet read
          pc,         \* where each client is
          todo,       \* the addresses it has yet to ping in this round
          at,         \* the address whose answer it waits for
          timed,      \* whether its UDP socket has a receive timeout
          users_map,  \* when each known peer was last taken to be alive
          rounds,     \* rounds done
          faults,     \* faults so far
          clean       \* history: only this round's answers were queued so far

registry == <<users, clock, reply, heard>>
server == <<registry, inbox, events>>
vars == <<server, queue, pc, todo, at, timed, users_map, rounds, faults, clean>>

R == INSTANCE PeerRegistry WITH Addr <- Clients

Never == -1
Peer == Clients \cup {Server}

Echo == [from |-> Server, kind |-> "echo", list |-> {}]
List(as) == [from |-> Server, kind |-> "list", list |-> as]
PING(c) == [from |-> c, kind |-> "ping", list |-> {}]

Message == [from : Peer, kind : {"echo", "list", "ping"}, list : SUBSET Clients]

(* The constructor: UDP connects without sending a packet. *)
Init ==
    /\ R!Init
    /\ inbox = <<>> /\ events = {}
    /\ queue = [c \in Clients |-> <<>>]
    /\ pc = [c \in Clients |-> "start"]
    /\ todo = [c \in Clients |-> {}]
    /\ at = [c \in Clients |-> Nobody]
    /\ timed = [c \in Clients |-> FALSE]
    /\ users_map = [c \in Clients |-> [p \in Peer |-> Never]]
    /\ rounds = [c \in Clients |-> 0]
    /\ faults = 0
    /\ clean = [c \in Clients |-> FALSE]

Goto(c, l) == pc' = [pc EXCEPT ![c] = l]
-----------------------------------------------------------------------------
(* epoll_wait reports the UDP socket; the next edge counts anew. *)
ServerWait ==
    /\ "ready" \in events /\ "batch" \notin events
    /\ inbox # <<>>
    /\ events' = {"batch"}
    /\ UNCHANGED <<registry, inbox, queue, pc, todo, at, timed, users_map, rounds,
                   faults, clean>>

(* The answers to a client that ended reach nobody. *)
Answer(c, ms) ==
    queue' = IF pc[c] = "dead" THEN queue ELSE [queue EXCEPT ![c] = @ \o ms]

(* Mutant of ServerRead: the server sends the echo only. *)
ServerReadEchoOnly ==
    LET c == Head(inbox)
    IN  /\ "batch" \in events
        /\ inbox # <<>>
        /\ inbox' = Tail(inbox) /\ events' = events \ {"batch"}
        /\ R!Datagram(c)
        /\ Answer(c, <<Echo>>)
        /\ UNCHANGED <<pc, todo, at, timed, users_map, rounds, faults, clean>>

(* One recvfrom per event, whatever is queued.  Any datagram is answered   *)
(* alike: the echo with the sender's address, then the list.               *)
ServerRead ==
    LET c == Head(inbox)
    IN  /\ "batch" \in events
        /\ inbox # <<>>
        /\ inbox' = Tail(inbox) /\ events' = events \ {"batch"}
        /\ R!Datagram(c)
        /\ Answer(c, <<Echo, List(reply'.list)>>)
        /\ UNCHANGED <<pc, todo, at, timed, users_map, rounds, faults, clean>>
-----------------------------------------------------------------------------
(* write to the server: its UDP socket has one more datagram, an edge. *)
Request(c) ==
    /\ inbox' = Append(inbox, c)
    /\ events' = events \cup {"ready"}
    /\ UNCHANGED <<registry, queue>>

(* self_bind: the server is told about the first, connected socket. *)
AskAddress(c) ==
    /\ pc[c] = "start"
    /\ Request(c)
    /\ Goto(c, "self")
    /\ UNCHANGED <<todo, at, timed, users_map, rounds, faults, clean>>

(* The first datagram of the server is parsed as the echo; a connected     *)
(* socket drops what others sent before it.  Then the socket is closed,    *)
(* with whatever else has arrived, and the second one is bound.  A list    *)
(* holds no address in the place of the echo's: the program ends.          *)
SelfBind(c) ==
    LET q == queue[c]
        FromServer == {i \in 1 .. Len(q) : q[i].from = Server}
    IN  /\ pc[c] = "self" /\ FromServer # {}
        /\ LET first == CHOOSE i \in FromServer : \A j \in FromServer : i <= j
           IN  \/ /\ q[first].kind = "echo"
                  /\ \E n \in first .. Len(q) :
                         queue' = [queue EXCEPT ![c] = SubSeq(q, n + 1, Len(q))]
                  /\ Goto(c, "ask")
               \/ /\ q[first].kind = "list"
                  /\ queue' = [queue EXCEPT ![c] = <<>>]
                  /\ Goto(c, "dead")
        /\ UNCHANGED <<server, todo, at, timed, users_map, rounds, faults, clean>>

(* getUsers: a round starts. *)
AskUsers(c) ==
    /\ pc[c] = "ask" /\ rounds[c] < MaxRounds
    /\ Request(c)
    /\ clean' = [clean EXCEPT ![c] = queue[c] = <<>>]
    /\ Goto(c, "echo")
    /\ UNCHANGED <<todo, at, timed, users_map, rounds, faults>>

(* read(): any datagram of any sender. *)
Read(c) ==
    /\ queue[c] # <<>>
    /\ queue' = [queue EXCEPT ![c] = Tail(@)]
    /\ UNCHANGED <<server, rounds, faults>>

(* Mutant of ReadEcho: the echo is not read. *)
ReadEchoSkipped(c) ==
    /\ pc[c] = "echo"
    /\ Goto(c, "list")
    /\ UNCHANGED <<server, queue, rounds, faults, todo, at, timed, users_map, clean>>

(* The echo is read and thrown away. *)
ReadEcho(c) ==
    /\ pc[c] = "echo" /\ Read(c)
    /\ Goto(c, "list")
    /\ UNCHANGED <<todo, at, timed, users_map, clean>>

(* Only a list has the separators that make addresses of a text. *)
ReadList(c) ==
    /\ pc[c] = "list" /\ Read(c)
    /\ todo' = [todo EXCEPT ![c] = Head(queue[c]).list]
    /\ clean' = [clean EXCEPT ![c] = FALSE]
    /\ Goto(c, "next")
    /\ UNCHANGED <<at, timed, users_map>>

(* With a receive timeout these two reads may throw; the round is over. *)
ReadTimeout(c) ==
    /\ pc[c] \in {"echo", "list"} /\ timed[c]
    /\ Goto(c, "prune")
    /\ clean' = [clean EXCEPT ![c] = FALSE]
    /\ UNCHANGED <<server, queue, todo, at, timed, users_map, rounds, faults>>

(* One address of the list: the ping is sent, and the receive timeout of   *)
(* the one UDP socket is set.                                              *)
Ping(c) ==
    /\ pc[c] = "next"
    /\ \E a \in todo[c] :
           /\ queue' = IF pc[a] = "dead" THEN queue ELSE [queue EXCEPT ![a] = Append(@, PING(c))]
           /\ clean' = [clean EXCEPT ![a] = FALSE]
           /\ todo' = [todo EXCEPT ![c] = @ \ {a}]
           /\ at' = [at EXCEPT ![c] = a]
    /\ timed' = [timed EXCEPT ![c] = TRUE]
    /\ Goto(c, "pong")
    /\ UNCHANGED <<server, users_map, rounds, faults>>

(* Whatever text comes is taken for the answer of the pinged address; the  *)
(* text of an empty list is empty.                                         *)
ReadPong(c) ==
    /\ pc[c] = "pong" /\ Read(c)
    /\ users_map' = IF Head(queue[c]) = List({}) THEN users_map
                    ELSE [users_map EXCEPT ![c][at[c]] = clock]
    /\ at' = [at EXCEPT ![c] = Nobody]
    /\ Goto(c, "next")
    /\ UNCHANGED <<todo, timed, clean>>

PongTimeout(c) ==
    /\ pc[c] = "pong"
    /\ at' = [at EXCEPT ![c] = Nobody]
    /\ Goto(c, "next")
    /\ UNCHANGED <<server, queue, todo, timed, users_map, rounds, faults, clean>>

(* users_map.size() - 1 *)
Count(map) == Cardinality({p \in Peer : map[p] # Never}) - 1

(* Mutant of ReadLast: the address pinged last is taken for the sender. *)
ReadLastAt(c) ==
    /\ pc[c] = "next" /\ todo[c] = {} /\ Read(c)
    /\ timed' = [timed EXCEPT ![c] = TRUE]
    /\ users_map' = [users_map EXCEPT ![c] =
           [p \in Peer \cup {at[c]} |-> IF p = at[c] THEN clock ELSE @[p]]]
    /\ Goto(c, IF Count(users_map'[c]) > Wanted THEN "test" ELSE "prune")
    /\ UNCHANGED <<todo, at, clean>>

(* The last read of a round, with the timeout set: its sender is alive,    *)
(* whoever it is.  With enough users the test over TCP follows.            *)
ReadLast(c) ==
    /\ pc[c] = "next" /\ todo[c] = {} /\ Read(c)
    /\ timed' = [timed EXCEPT ![c] = TRUE]
    /\ users_map' = [users_map EXCEPT ![c][Head(queue[c]).from] = clock]
    /\ Goto(c, IF Count(users_map'[c]) > Wanted THEN "test" ELSE "prune")
    /\ UNCHANGED <<todo, at, clean>>

LastTimeout(c) ==
    /\ pc[c] = "next" /\ todo[c] = {}
    /\ timed' = [timed EXCEPT ![c] = TRUE]
    /\ Goto(c, "prune")
    /\ UNCHANGED <<server, queue, todo, at, users_map, rounds, faults, clean>>

(* The exchange over TCP (EventLoop serves it), then a long sleep; when    *)
(* the constructor could not connect, write throws a string that nobody    *)
(* catches.                                                                *)
Test(c) ==
    /\ pc[c] = "test"
    /\ \/ Goto(c, "prune") /\ UNCHANGED queue
       \/ Goto(c, "dead") /\ queue' = [queue EXCEPT ![c] = <<>>]
    /\ UNCHANGED <<server, todo, at, timed, users_map, rounds, faults, clean>>

(* delByPing(5), sleep(1). *)
Prune(c) ==
    /\ pc[c] = "prune"
    /\ users_map' = [users_map EXCEPT ![c] =
           [p \in Peer |-> IF clock - @[p] > ClientTimeout THEN Never ELSE @[p]]]
    /\ rounds' = [rounds EXCEPT ![c] = @ + 1]
    /\ Goto(c, "ask")
    /\ UNCHANGED <<server, queue, todo, at, timed, faults, clean>>

Client(c) ==
    \/ AskAddress(c) \/ SelfBind(c) \/ AskUsers(c) \/ ReadEcho(c) \/ ReadList(c)
    \/ ReadTimeout(c) \/ Ping(c) \/ ReadPong(c) \/ PongTimeout(c) \/ ReadLast(c)
    \/ LastTimeout(c) \/ Test(c) \/ Prune(c)
-----------------------------------------------------------------------------
(* Faults: a datagram is lost, a request never reaches the server, one     *)
(* datagram overtakes another, sendto fails.                               *)
Lose(c) ==
    /\ queue[c] # <<>>
    /\ queue' = [queue EXCEPT ![c] = Tail(@)]
    /\ UNCHANGED <<server, pc, todo, at, timed, users_map, rounds, clean>>

LoseRequest(c) ==
    /\ \/ pc[c] = "start" /\ Goto(c, "self")
       \/ pc[c] = "ask" /\ rounds[c] < MaxRounds /\ Goto(c, "echo")
    /\ UNCHANGED <<server, queue, todo, at, timed, users_map, rounds, clean>>

Overtake(c) ==
    /\ Len(queue[c]) > 1
    /\ queue' = [queue EXCEPT ![c] = <<@[2], @[1]>> \o SubSeq(@, 3, Len(@))]
    /\ UNCHANGED <<server, pc, todo, at, timed, users_map, rounds, clean>>

WriteFails(c) ==
    /\ \/ pc[c] = "start" /\ Goto(c, "dead")
       \/ pc[c] = "ask" /\ rounds[c] < MaxRounds /\ Goto(c, "prune")
       \/ pc[c] = "next" /\ todo[c] # {} /\ Goto(c, "prune")
    /\ todo' = [todo EXCEPT ![c] = {}]
    /\ UNCHANGED <<server, queue, at, timed, users_map, rounds, clean>>

Fault(c) ==
    /\ faults < MaxFaults /\ faults' = faults + 1
    /\ Lose(c) \/ LoseRequest(c) \/ Overtake(c) \/ WriteFails(c)

Tick ==
    /\ R!Tick
    /\ UNCHANGED <<inbox, events, queue, pc, todo, at, timed, users_map, rounds, faults, clean>>

Next == Tick \/ ServerWait \/ ServerRead \/ \E c \in Clients : Client(c) \/ Fault(c)

Spec == Init /\ [][Next]_vars
-----------------------------------------------------------------------------
TypeOK ==
    /\ R!TypeOK
    /\ inbox \in Seq(Clients)
    /\ events \in SUBSET {"ready", "batch"}
    /\ queue \in [Clients -> Seq(Message)]
    /\ pc \in [Clients -> {"start", "self", "ask", "echo", "list", "next", "pong",
                           "test", "prune", "dead"}]
    /\ todo \in [Clients -> SUBSET Clients]
    /\ at \in [Clients -> Clients \cup {Nobody}]
    /\ timed \in [Clients -> BOOLEAN]
    /\ users_map \in [Clients -> [Peer -> Nat \cup {Never}]]
    /\ rounds \in [Clients -> Nat]
    /\ faults \in Nat
    /\ clean \in [Clients -> BOOLEAN]

(* A read without a timeout, and nothing there to read. *)
Blocked(c) ==
    \/ pc[c] = "self" /\ \A i \in 1 .. Len(queue[c]) : queue[c][i].from # Server
    \/ pc[c] \in {"echo", "list"} /\ ~timed[c] /\ queue[c] = <<>>

(* While nothing is lost, a client blocked in a read without a timeout has *)
(* a request in the server's socket, although the socket that asked first  *)
(* is closed and what it had received is discarded; and although the       *)
(* server reads one request per edge and may leave others unread, it never *)
(* does so without an event while every client is blocked: someone can     *)
(* still run, whose next request wakes the server, or has ended.           *)
UntimedReadIsAnswered ==
    faults = 0 =>
        \A c \in Clients : Blocked(c) =>
            /\ c \in ToSet(inbox)
            /\ events # {} \/ \E d \in Clients : ~Blocked(d)

(* Nobody gets into a client's users_map whom the server never heard from: *)
(* addresses come from the server's list, or from a datagram of a peer     *)
(* that had to ask for the list first.                                     *)
MappedPeersAnnounced ==
    \A c \in Clients : \A p \in DOMAIN users_map[c] \ {Server} :
        users_map[c][p] # Never => p \in Clients /\ heard[p] # Never

(* A round that starts with nothing unread, and in which nobody pings the  *)
(* client before it has read the list, takes the server's list for it.     *)
CleanRoundReadsList ==
    [][\A c \in Clients : faults = 0 /\ clean[c] /\ ReadList(c)
                               => Head(queue[c]).kind = "list"]_vars
=============================================================================
