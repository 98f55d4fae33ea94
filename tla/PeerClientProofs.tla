---------------------------- MODULE PeerClientProofs ----------------------------
(***************************************************************************)
(* Proofs about the clients and the registry they share, for every set of  *)
(* clients and every bound on rounds, faults and time.                     *)
(*                                                                         *)
(* Two inductive invariants are needed.  HeardInv follows an address on    *)
(* its way from the registry through a list, the pings still to send and   *)
(* the pinged address into users_map: at each of these places it belongs   *)
(* to a client the server has heard from.  AnswerInv counts the datagrams  *)
(* that wait for a client in the middle of a round, and its requests that  *)
(* wait for the server.                                                    *)
(***************************************************************************)
EXTENDS PeerClient, SequenceTheorems, WellFoundedInduction, TLAPS

Known == {a \in Clients : heard[a] # Never}

(* What may be queued for c: datagrams of the server and of known clients, *)
(* with known addresses on their lists; nobody gets a list with an address *)
(* on it before the server has heard from him.                             *)
Plausible(c) ==
    {m \in Message : /\ m.from \in Known \cup {Server}
                     /\ m.list \subseteq Known
                     /\ m.list # {} => c \in Known}

HeardInv ==
    /\ \A u \in users : u.addr \in Known
    /\ \A c \in Clients :
           /\ queue[c] \in Seq(Plausible(c))
           /\ todo[c] \subseteq Known
           /\ todo[c] # {} => c \in Known
           /\ at[c] \in Known \cup {Nobody}

(* The server's datagrams queued for a client, and a client's requests in  *)
(* the server's socket.                                                    *)
Served(c) == \E i \in 1 .. Len(queue[c]) : queue[c][i].from = Server
Asked(c) == \E i \in 1 .. Len(inbox) : inbox[i] = c
Once(c) == \A i, j \in 1 .. Len(inbox) : inbox[i] = c /\ inbox[j] = c => i = j

(* How many datagrams wait for a client that waits for an answer, as long  *)
(* as its request does not wait itself.                                    *)
Waits(c) ==
    /\ pc[c] = "self" => Served(c) \/ Asked(c)
    /\ pc[c] = "echo" /\ ~timed[c] => Len(queue[c]) >= 2 \/ Asked(c)
    /\ pc[c] = "list" /\ ~timed[c] => Len(queue[c]) >= 1 \/ Asked(c)

(* Before the first timeout is set a client has one request out at most,   *)
(* and none when it is about to make one.                                  *)
Requests(c) ==
    /\ pc[c] = "start" => ~Asked(c) /\ ~Served(c)
    /\ pc[c] = "self" => ~(Asked(c) /\ Served(c))
    /\ pc[c] = "ask" /\ ~timed[c] => ~Asked(c)
    /\ pc[c] \in {"start", "self"} => ~timed[c]
    /\ pc[c] \in {"test", "prune"} => timed[c]
    /\ ~timed[c] => Once(c)

(* Lists at every other place of a queue, the last one included. *)
Lists(q, r) ==
    Len(q) % 2 = r /\ \A i \in 1 .. Len(q) : i % 2 = r => q[i].kind = "list"

(* What is queued in a round whose answers nothing has mixed with: echo    *)
(* and list in turn, beginning with the one that is waited for.            *)
Pure(c) ==
    clean[c] => \/ pc[c] = "echo" /\ Lists(queue[c], 0)
                \/ pc[c] = "list" /\ Lists(queue[c], 1)

(* Requests left unread without an event: somebody was answered last, or   *)
(* reads with a timeout.                                                   *)
Awake ==
    inbox # <<>> /\ events = {} => \E d \in Clients : ~Asked(d) \/ timed[d]

AnswerInv ==
    faults = 0 => /\ \A c \in Clients : Waits(c) /\ Requests(c) /\ Pure(c)
                  /\ Awake
-----------------------------------------------------------------------------
(* A nonempty set of positions has a first one. *)
LEMMA LeastNatural ==
    ASSUME NEW S \in SUBSET Nat, S # {}
    PROVE  \E i \in S : \A j \in S : i <= j
<1> DEFINE Less == OpToRel(<, Nat)
<1>1. IsWellFoundedOn(Less, Nat)
  BY NatLessThanWellFounded
<1>2. \A m, n \in Nat : <<m, n>> \in Less <=> m < n
  BY DEF OpToRel
<1> HIDE DEF Less
<1>3. PICK i \in S : \A j \in S : ~ (<<j, i>> \in Less)
  BY <1>1, WFMin
<1>4. ASSUME NEW j \in S PROVE i <= j
  <2>1. ~ (j < i)
    BY <1>2, <1>3
  <2> QED BY <2>1
<1> QED BY <1>4

(* What the operations on a queue leave in it: nothing that was not there  *)
(* or put in.                                                              *)
LEMMA QueueOperations ==
    ASSUME NEW S, NEW q \in Seq(S)
    PROVE  /\ q # <<>> => Head(q) \in S /\ Head(q) = q[1] /\ Tail(q) \in Seq(S)
           /\ \A n \in 1 .. Len(q) : SubSeq(q, n + 1, Len(q)) \in Seq(S)
           /\ Len(q) > 1 => <<q[2], q[1]>> \o SubSeq(q, 3, Len(q)) \in Seq(S)
           /\ \A m \in S : Append(q, m) \in Seq(S)
           /\ \A m, n \in S : q \o <<m, n>> \in Seq(S)
<1>1. Len(q) \in Nat /\ \A i \in 1 .. Len(q) : q[i] \in S
  BY ElementOfSeq, LenProperties
<1>2. ASSUME q # <<>> PROVE Head(q) \in S /\ Head(q) = q[1] /\ Tail(q) \in Seq(S)
  BY <1>2, HeadTailProperties
<1>3. ASSUME NEW n \in 1 .. Len(q) PROVE SubSeq(q, n + 1, Len(q)) \in Seq(S)
  <2>1. \A i \in (n + 1) .. Len(q) : q[i] \in S
    BY <1>1
  <2> QED BY <1>1, <2>1, SubSeqProperties
<1>4. ASSUME Len(q) > 1 PROVE <<q[2], q[1]>> \o SubSeq(q, 3, Len(q)) \in Seq(S)
  <2>1. \A i \in 3 .. Len(q) : q[i] \in S
    BY <1>1
  <2>2. SubSeq(q, 3, Len(q)) \in Seq(S)
    BY <1>1, <2>1, SubSeqProperties
  <2>3. q[1] \in S /\ q[2] \in S
    BY <1>1, <1>4
  <2>4. <<q[2], q[1]>> \in Seq(S)
    BY <2>3
  <2> QED BY <2>2, <2>4, ConcatProperties
<1>5. ASSUME NEW m \in S PROVE Append(q, m) \in Seq(S)
  BY AppendProperties
<1>6. ASSUME NEW m \in S, NEW n \in S PROVE q \o <<m, n>> \in Seq(S)
  <2>1. <<m, n>> \in Seq(S)
    OBVIOUS
  <2> QED BY <2>1, ConcatProperties
<1> QED BY <1>2, <1>3, <1>4, <1>5, <1>6

(* A step of a client leaves the registry alone, and the server's socket   *)
(* too or puts a request into it.                                          *)
LEMMA ServerMoves ==
    ASSUME NEW c \in Clients, Client(c) \/ Fault(c)
    PROVE  /\ UNCHANGED registry
           /\ \/ UNCHANGED <<inbox, events>>
              \/ inbox' = Append(inbox, c) /\ events' = events \cup {"ready"}
BY DEF Client, Fault, AskAddress, SelfBind, AskUsers, ReadEcho, ReadList, ReadTimeout, Ping,
       ReadPong, PongTimeout, ReadLast, LastTimeout, Test, Prune, Lose, LoseRequest,
       Overtake, WriteFails, Request, Read, server

(* The server reads the request of one client, who gets two answers unless *)
(* he ended.                                                               *)
LEMMA ReadMoves ==
    ASSUME inbox \in Seq(Clients), queue \in [Clients -> Seq(Message)], ServerRead
    PROVE  \E c \in Clients :
               /\ c = Head(inbox) /\ inbox # <<>> /\ inbox' = Tail(inbox)
               /\ events' \subseteq events
               /\ R!Datagram(c)
               /\ queue' = IF pc[c] = "dead" THEN queue
                           ELSE [queue EXCEPT ![c] = @ \o <<Echo, List(reply'.list)>>]
<1>1. inbox # <<>> /\ Head(inbox) \in Clients
  BY DEF ServerRead
<1> QED BY <1>1 DEF ServerRead, Answer

(* The queue of d after a step of c: a ping of c to d is all that can be   *)
(* added.                                                                  *)
LEMMA QueueMoves ==
    ASSUME queue \in [Clients -> Seq(Message)],
           NEW c \in Clients, NEW d \in Clients, NEW S, queue[d] \in Seq(S),
           Client(c) \/ Fault(c),
           pc[c] = "next" /\ d \in todo[c] => PING(c) \in S
    PROVE  queue'[d] \in Seq(S)
<1> DEFINE q == queue[d]
<1>1. /\ q # <<>> => Tail(q) \in Seq(S)
      /\ \A n \in 1 .. Len(q) : SubSeq(q, n + 1, Len(q)) \in Seq(S)
      /\ Len(q) > 1 => <<q[2], q[1]>> \o SubSeq(q, 3, Len(q)) \in Seq(S)
      /\ \A m \in S : Append(q, m) \in Seq(S)
  BY QueueOperations
<1>2. <<>> \in Seq(S)
  BY EmptySeq
<1>4. CASE Read(c) \/ Lose(c)
  BY <1>1, <1>4 DEF Read, Lose
<1>5. CASE SelfBind(c)
  <2> DEFINE FromServer == {i \in 1 .. Len(queue[c]) : queue[c][i].from = Server}
             first == CHOOSE i \in FromServer : \A j \in FromServer : i <= j
  <2>1. \/ \E n \in first .. Len(queue[c]) :
               queue' = [queue EXCEPT ![c] = SubSeq(queue[c], n + 1, Len(queue[c]))]
        \/ queue' = [queue EXCEPT ![c] = <<>>]
    BY <1>5 DEF SelfBind
  <2>2. FromServer # {} /\ FromServer \in SUBSET Nat
    BY <1>5 DEF SelfBind
  <2>3. first \in 1 .. Len(queue[c])
    BY <2>2, LeastNatural
  <2> HIDE DEF first
  <2>4. Len(queue[c]) \in Nat
    BY LenProperties
  <2>5. ASSUME NEW n \in first .. Len(queue[c]),
               queue' = [queue EXCEPT ![c] = SubSeq(queue[c], n + 1, Len(queue[c]))]
        PROVE  queue'[d] \in Seq(S)
    <3>1. n \in 1 .. Len(queue[c])
      BY <2>3, <2>4
    <3> QED BY <1>1, <2>5, <3>1
  <2> QED BY <1>2, <2>1, <2>5
<1>6. CASE Ping(c)
  <2>1. PICK a \in todo[c] :
            queue' = IF pc[a] = "dead" THEN queue ELSE [queue EXCEPT ![a] = Append(@, PING(c))]
    BY <1>6 DEF Ping
  <2>2. d = a => PING(c) \in S
    BY <1>6, <2>1 DEF Ping
  <2> QED BY <1>1, <2>1, <2>2
<1>7. CASE Test(c)
  BY <1>2, <1>7 DEF Test
<1>8. CASE Overtake(c)
  BY <1>1, <1>8 DEF Overtake
<1>9. CASE UNCHANGED queue
  BY <1>9
<1> QED
  BY <1>4, <1>5, <1>6, <1>7, <1>8, <1>9
  DEF Client, Fault, AskAddress, AskUsers, Request, ReadEcho, ReadList, ReadTimeout,
      ReadPong, PongTimeout, ReadLast, LastTimeout, Prune, LoseRequest, WriteFails
-----------------------------------------------------------------------------
(* One datagram to the registry: it lists addresses it already has, enters *)
(* nobody but the sender and notes that it heard from him.                 *)
LEMMA DatagramFacts ==
    ASSUME R!TypeOK, NEW c \in Clients, R!Datagram(c)
    PROVE  /\ R!TypeOK'
           /\ \A a \in reply'.list : \E u \in users : u.addr = a
           /\ \A u \in users' : u \in users \/ u.addr = c
           /\ heard' = [heard EXCEPT ![c] = clock]
<1> DEFINE live == R!delByPing(clock)
<1>1. live \subseteq users /\ clock \in Nat /\ users \in SUBSET R!User
  BY DEF R!TypeOK, R!delByPing
<1>2. /\ users' = R!Registry(live, c, clock)
      /\ reply' = [to |-> c, at |-> clock, list |-> R!AddrOf(live)]
      /\ heard' = [heard EXCEPT ![c] = clock]
      /\ clock' = clock
  BY DEF R!Datagram, R!List
<1> HIDE DEF live
<1>3. \A u \in users' : u \in users \/ u = [addr |-> c, lastPing |-> clock]
  BY <1>1, <1>2 DEF R!Registry, R!Room, R!NewUser
<1>4. users' \in SUBSET R!User
  BY <1>1, <1>3 DEF R!User
<1>5. \A a \in R!AddrOf(live) : \E u \in users : u.addr = a
  BY <1>1 DEF R!AddrOf
<1>6. R!AddrOf(live) \in SUBSET Clients
  BY <1>1, <1>5 DEF R!User
<1>7. reply' \in R!Reply
  BY <1>1, <1>2, <1>6 DEF R!Reply
<1>8. heard' \in [Clients -> Nat \cup {R!Never}]
  BY <1>1, <1>2 DEF R!TypeOK
<1>9. R!TypeOK'
  BY <1>1, <1>2, <1>4, <1>7, <1>8 DEF R!TypeOK
<1> QED BY <1>2, <1>3, <1>5, <1>9

(* Everything starts in its type. *)
LEMMA TypeInit == Init => TypeOK
<1> SUFFICES ASSUME Init PROVE TypeOK
  OBVIOUS
<1>1. R!TypeOK
  BY DEF Init, R!Init, R!TypeOK, R!Reply
<1>2. inbox \in Seq(Clients) /\ queue \in [Clients -> Seq(Message)]
  BY EmptySeq DEF Init
<1>3. users_map \in [Clients -> [Peer -> Nat \cup {Never}]]
  BY DEF Init
<1> QED BY <1>1, <1>2, <1>3 DEF Init, TypeOK

(* Every step keeps the types: a list read from the queue holds clients,   *)
(* and users_map gets times of the clock.                                  *)
LEMMA TypeStep == TypeOK /\ [Next]_vars => TypeOK'
<1> SUFFICES ASSUME TypeOK, [Next]_vars PROVE TypeOK'
  OBVIOUS
<1>1. CASE UNCHANGED vars
  BY <1>1 DEF vars, server, registry, TypeOK, R!TypeOK
<1>2. CASE Tick
  BY <1>2 DEF Tick, R!Tick, TypeOK, R!TypeOK
<1>5. CASE ServerWait
  <2>1. R!TypeOK' /\ events' \in SUBSET {"ready", "batch"}
    BY <1>5 DEF ServerWait, registry, TypeOK, R!TypeOK
  <2> QED BY <1>5, <2>1 DEF ServerWait, TypeOK
<1>4. CASE ServerRead
  <2>1. PICK c \in Clients :
            /\ inbox # <<>> /\ inbox' = Tail(inbox)
            /\ events' \subseteq events
            /\ R!Datagram(c)
            /\ queue' = IF pc[c] = "dead" THEN queue
                        ELSE [queue EXCEPT ![c] = @ \o <<Echo, List(reply'.list)>>]
    BY <1>4, ReadMoves DEF TypeOK
  <2>2. R!TypeOK' /\ \A a \in reply'.list : \E u \in users : u.addr = a
    BY <2>1, DatagramFacts DEF TypeOK
  <2>3. \A u \in users : u.addr \in Clients
    BY DEF TypeOK, R!TypeOK, R!User
  <2>4. Echo \in Message /\ List(reply'.list) \in Message
    BY <2>2, <2>3 DEF Echo, List, Message, Peer
  <2>5. queue[c] \o <<Echo, List(reply'.list)>> \in Seq(Message)
    BY <2>4, QueueOperations DEF TypeOK
  <2>6. queue' \in [Clients -> Seq(Message)]
    BY <2>1, <2>5 DEF TypeOK
  <2>7. inbox' \in Seq(Clients)
    BY <2>1 DEF TypeOK
  <2> QED BY <1>4, <2>1, <2>2, <2>6, <2>7 DEF ServerRead, TypeOK
<1>3. ASSUME NEW c \in Clients, Client(c) \/ Fault(c) PROVE TypeOK'
  <2>1. R!TypeOK' /\ inbox' \in Seq(Clients) /\ events' \in SUBSET {"ready", "batch"}
    <3>1. R!TypeOK'
      BY <1>3, ServerMoves DEF registry, TypeOK, R!TypeOK
    <3>2. Append(inbox, c) \in Seq(Clients) /\ events \cup {"ready"} \in SUBSET {"ready", "batch"}
      BY AppendProperties DEF TypeOK
    <3> QED BY <1>3, <3>1, <3>2, ServerMoves DEF TypeOK
  <2>2. queue' \in [Clients -> Seq(Message)]
    <3>1. \A d \in Clients : queue'[d] \in Seq(Message)
      <4>1. PING(c) \in Message
        BY DEF PING, Message, Peer
      <4> QED BY <1>3, <4>1, QueueMoves DEF TypeOK
    <3>2. \/ queue' = queue
          \/ \E a \in Clients : \E q : queue' = [queue EXCEPT ![a] = q]
      BY <1>3 DEF TypeOK, Client, Fault, AskAddress, SelfBind, AskUsers, ReadEcho, ReadList,
             ReadTimeout, Ping, ReadPong, PongTimeout, ReadLast, LastTimeout, Test, Prune,
             Lose, LoseRequest, Overtake, WriteFails, Request, Read
    <3> QED BY <3>1, <3>2 DEF TypeOK
  <2>3. pc' \in [Clients -> {"start", "self", "ask", "echo", "list", "next", "pong",
                             "test", "prune", "dead"}]
    BY <1>3 DEF TypeOK, Client, Fault, AskAddress, SelfBind, AskUsers, ReadEcho, ReadList,
           ReadTimeout, Ping, ReadPong, PongTimeout, ReadLast, LastTimeout, Test, Prune,
           Lose, LoseRequest, Overtake, WriteFails, Goto
  <2>4. todo' \in [Clients -> SUBSET Clients] /\ at' \in [Clients -> Clients \cup {Nobody}]
    <3>1. CASE ReadList(c)
      <4>1. queue[c] \in Seq(Message) /\ queue[c] # <<>>
        BY <3>1 DEF TypeOK, ReadList, Read
      <4>2. Head(queue[c]) \in Message
        BY <4>1, QueueOperations
      <4>3. Head(queue[c]).list \in SUBSET Clients
        BY <4>2 DEF Message
      <4> QED BY <3>1, <4>3 DEF ReadList, TypeOK
    <3>2. CASE Ping(c)
      BY <3>2 DEF Ping, TypeOK
    <3> QED
      BY <1>3, <3>1, <3>2
      DEF TypeOK, Client, Fault, AskAddress, SelfBind, AskUsers, ReadEcho,
          ReadTimeout, ReadPong, PongTimeout, ReadLast, LastTimeout, Test, Prune,
          Lose, LoseRequest, Overtake, WriteFails
  <2>5. timed' \in [Clients -> BOOLEAN]
    BY <1>3 DEF TypeOK, Client, Fault, AskAddress, SelfBind, AskUsers, ReadEcho, ReadList,
           ReadTimeout, Ping, ReadPong, PongTimeout, ReadLast, LastTimeout, Test, Prune,
           Lose, LoseRequest, Overtake, WriteFails
  <2>6. users_map' \in [Clients -> [Peer -> Nat \cup {Never}]]
    <3>1. clock \in Nat /\ users_map[c] \in [Peer -> Nat \cup {Never}]
      BY DEF TypeOK, R!TypeOK
    <3>2. \/ users_map' = users_map
          \/ \E row \in [Peer -> Nat \cup {Never}] : users_map' = [users_map EXCEPT ![c] = row]
      <4>1. CASE ReadPong(c)
        <5>1. [users_map[c] EXCEPT ![at[c]] = clock] \in [Peer -> Nat \cup {Never}]
          BY <3>1
        <5>2. \/ users_map' = users_map
              \/ users_map' = [users_map EXCEPT ![c] = [users_map[c] EXCEPT ![at[c]] = clock]]
          BY <4>1 DEF ReadPong, TypeOK
        <5> QED BY <5>1, <5>2
      <4>2. CASE ReadLast(c)
        <5> DEFINE p == Head(queue[c]).from
        <5>1. [users_map[c] EXCEPT ![p] = clock] \in [Peer -> Nat \cup {Never}]
          BY <3>1
        <5>2. users_map' = [users_map EXCEPT ![c] = [users_map[c] EXCEPT ![p] = clock]]
          BY <4>2 DEF ReadLast, TypeOK
        <5> QED BY <5>1, <5>2
      <4>3. CASE Prune(c)
        <5> DEFINE row == [p \in Peer |-> IF clock - users_map[c][p] > ClientTimeout
                                          THEN Never ELSE users_map[c][p]]
        <5>1. row \in [Peer -> Nat \cup {Never}]
          BY <3>1
        <5>2. users_map' = [users_map EXCEPT ![c] = row]
          BY <4>3 DEF Prune, TypeOK
        <5> QED BY <5>1, <5>2
      <4> QED
        BY <1>3, <4>1, <4>2, <4>3
        DEF Client, Fault, AskAddress, SelfBind, AskUsers, ReadEcho, ReadList,
            ReadTimeout, Ping, PongTimeout, LastTimeout, Test,
            Lose, LoseRequest, Overtake, WriteFails
    <3> QED BY <3>2 DEF TypeOK
  <2>7. rounds' \in [Clients -> Nat]
    <3>1. rounds' = rounds \/ rounds' = [rounds EXCEPT ![c] = @ + 1]
      BY <1>3 DEF Client, Fault, AskAddress, SelfBind, AskUsers, ReadEcho, ReadList,
             ReadTimeout, Ping, ReadPong, PongTimeout, ReadLast, LastTimeout, Test, Prune,
             Lose, LoseRequest, Overtake, WriteFails, Read
    <3>2. rounds \in [Clients -> Nat] /\ rounds[c] + 1 \in Nat
      BY DEF TypeOK
    <3>3. CASE rounds' = rounds
      BY <3>2, <3>3
    <3>4. CASE rounds' = [rounds EXCEPT ![c] = @ + 1]
      BY <3>2, <3>4
    <3> QED BY <3>1, <3>3, <3>4
  <2>8. faults' \in Nat
    <3>1. faults' = faults \/ faults' = faults + 1
      BY <1>3 DEF Client, Fault, AskAddress, SelfBind, AskUsers, ReadEcho, ReadList,
             ReadTimeout, Ping, ReadPong, PongTimeout, ReadLast, LastTimeout, Test, Prune, Read
    <3> QED BY <3>1 DEF TypeOK
  <2>9. clean' \in [Clients -> BOOLEAN]
    BY <1>3 DEF TypeOK, Client, Fault, AskAddress, SelfBind, AskUsers, ReadEcho, ReadList,
           ReadTimeout, Ping, ReadPong, PongTimeout, ReadLast, LastTimeout, Test, Prune,
           Lose, LoseRequest, Overtake, WriteFails
  <2> QED BY <2>1, <2>2, <2>3, <2>4, <2>5, <2>6, <2>7, <2>8, <2>9 DEF TypeOK
<1> QED BY <1>1, <1>2, <1>3, <1>4, <1>5 DEF Next

(* The type invariant: what is queued, listed, pinged and mapped are       *)
(* datagrams, clients and times, whatever is lost or overtakes.            *)
THEOREM ClientTypeCorrect == Spec => []TypeOK
  BY TypeInit, TypeStep, PTL DEF Spec
-----------------------------------------------------------------------------
(* The clients use the registry as its own module says: a run of the whole *)
(* system is a run of PeerRegistry with the clients for addresses.         *)
THEOREM ClientsUseRegistry == Spec => R!Spec
<1>1. Init => R!Init
  BY DEF Init
<1>2. TypeOK /\ [Next]_vars => [R!Next]_(R!vars)
  <2> SUFFICES ASSUME TypeOK, [Next]_vars PROVE [R!Next]_(R!vars)
    OBVIOUS
  <2>1. CASE UNCHANGED vars
    BY <2>1 DEF vars, server, registry, R!vars
  <2>2. CASE Tick
    BY <2>2 DEF Tick, R!Next
  <2>3. ASSUME NEW c \in Clients, Client(c) \/ Fault(c) PROVE [R!Next]_(R!vars)
    BY <2>3, ServerMoves DEF registry, R!vars
  <2>4. CASE ServerWait
    BY <2>4 DEF ServerWait, registry, R!vars
  <2>5. CASE ServerRead
    <3>1. PICK c \in Clients : R!Datagram(c)
      BY <2>5, ReadMoves DEF TypeOK
    <3> QED BY <3>1 DEF R!Next
  <2> QED BY <2>1, <2>2, <2>3, <2>4, <2>5 DEF Next
<1> QED BY <1>1, <1>2, ClientTypeCorrect, PTL DEF Spec, R!Spec

(* The registry's module and its theorems, with the clients for addresses. *)
P == INSTANCE PeerRegistryProofs WITH Addr <- Clients

(* What the registry promises of any senders it keeps with these clients:  *)
(* it stays within its limit, has one entry per client, and every list a   *)
(* client may be sent names only clients heard from within the timeout;    *)
(* altogether it is the abstract directory of PeerDirectory.               *)
THEOREM PromisesKept ==
    Spec => /\ [](P!Bounded /\ P!OneEntryPerAddress /\ P!ListedWereHeard)
            /\ P!ImplementsDirectory
<1>1. P!RegistryAssumption
  BY ClientAssumption DEF P!RegistryAssumption
<1>2. R!Spec => P!Spec
  <2>1. R!Init => P!Init
    BY DEF R!Init, P!Init, R!NoReply, P!NoReply, R!Never, P!Never
  <2>2. [R!Next]_(R!vars) => [P!Next]_(P!vars)
    <3>1. \A c \in Clients : R!Datagram(c) => P!Datagram(c)
      <4>1. R!delByPing(clock) = P!delByPing(clock)
        BY DEF R!delByPing, P!delByPing, R!Expired, P!Expired
      <4>2. \A l, c : R!Registry(l, c, clock) = P!Registry(l, c, clock)
        BY DEF R!Registry, P!Registry, R!user_exists, P!user_exists, R!Room, P!Room,
               R!NewUser, P!NewUser, R!Cardinality, P!Cardinality
      <4>3. \A l, c : R!List(l, c) = P!List(l, c)
        BY DEF R!List, P!List, R!AddrOf, P!AddrOf
      <4> QED BY <4>1, <4>2, <4>3 DEF R!Datagram, P!Datagram
    <3>2. R!Tick => P!Tick
      BY DEF R!Tick, P!Tick
    <3> QED BY <3>1, <3>2 DEF R!Next, P!Next, R!vars, P!vars
  <2> QED BY <2>1, <2>2, PTL DEF R!Spec, P!Spec
<1> QED
  BY <1>1, <1>2, ClientsUseRegistry, P!RegistryIsBounded, P!AddressesAreUnique,
     P!AnswerIsFresh, P!RegistryImplementsDirectory, PTL
-----------------------------------------------------------------------------
(* Whoever was heard from stays known, and so does what may be queued. *)
LEMMA KnownGrows ==
    ASSUME TypeOK, [Next]_vars
    PROVE  Known \subseteq Known' /\ \A c \in Clients : Plausible(c) \subseteq Plausible(c)'
<1>1. clock \in Nat /\ heard \in [Clients -> Nat \cup {Never}]
  BY DEF TypeOK, R!TypeOK, R!Never, Never
<1>2. heard' = heard \/ \E c \in Clients : heard' = [heard EXCEPT ![c] = clock]
  <2>1. CASE UNCHANGED vars
    BY <2>1 DEF vars, server, registry
  <2>2. CASE Tick \/ ServerWait
    BY <2>2 DEF Tick, R!Tick, ServerWait, registry
  <2>3. ASSUME NEW c \in Clients, Client(c) \/ Fault(c) PROVE heard' = heard
    BY <2>3, ServerMoves DEF registry
  <2>4. CASE ServerRead
    BY <2>4, ReadMoves DEF TypeOK, R!Datagram
  <2> QED BY <2>1, <2>2, <2>3, <2>4 DEF Next
<1>3. Known \subseteq Known'
  BY <1>1, <1>2 DEF Known, Never
<1>4. \A c \in Clients : Plausible(c) \subseteq Plausible(c)'
  BY <1>3 DEF Plausible
<1> QED BY <1>3, <1>4

(* At the start no address is anywhere. *)
LEMMA HeardInit == Init => HeardInv
  BY EmptySeq DEF Init, R!Init, HeardInv

(* An address moves only between the places HeardInv names. *)
LEMMA HeardStep == TypeOK /\ HeardInv /\ [Next]_vars => HeardInv'
<1> SUFFICES ASSUME TypeOK, HeardInv, [Next]_vars PROVE HeardInv'
  OBVIOUS
<1>1. Known \subseteq Known' /\ \A c \in Clients : Plausible(c) \subseteq Plausible(c)'
  BY KnownGrows
<1>2. \A c \in Clients : queue[c] \in Seq(Plausible(c)')
  BY <1>1, SeqMonotonic DEF HeardInv
<1>3. CASE UNCHANGED vars \/ Tick \/ ServerWait
  <2>1. UNCHANGED <<users, queue, todo, at>>
    BY <1>3 DEF vars, server, registry, Tick, R!Tick, ServerWait
  <2> QED BY <1>1, <1>2, <2>1 DEF HeardInv
<1>5. CASE ServerRead
  <2>1. PICK c \in Clients :
            /\ R!Datagram(c)
            /\ queue' = IF pc[c] = "dead" THEN queue
                        ELSE [queue EXCEPT ![c] = @ \o <<Echo, List(reply'.list)>>]
    BY <1>5, ReadMoves DEF TypeOK
  <2>2. /\ \A a \in reply'.list : \E u \in users : u.addr = a
        /\ \A u \in users' : u \in users \/ u.addr = c
        /\ heard' = [heard EXCEPT ![c] = clock]
    BY <2>1, DatagramFacts DEF TypeOK
  <2>3. c \in Known'
    BY <2>2 DEF Known, Never, TypeOK, R!TypeOK
  <2>4. \A u \in users' : u.addr \in Known'
    BY <1>1, <2>2, <2>3 DEF HeardInv
  <2>5. reply'.list \subseteq Known' /\ Known' \subseteq Clients
    BY <1>1, <2>2 DEF HeardInv, Known
  <2>6. Echo \in Plausible(c)' /\ List(reply'.list) \in Plausible(c)'
    BY <2>3, <2>5 DEF Echo, List, Message, Peer, Plausible
  <2>7. queue[c] \o <<Echo, List(reply'.list)>> \in Seq(Plausible(c)')
    BY <1>2, <2>6, QueueOperations
  <2>8. \A d \in Clients : queue'[d] \in Seq(Plausible(d)')
    BY <1>2, <2>1, <2>7 DEF TypeOK
  <2>9. UNCHANGED <<todo, at>>
    BY <1>5 DEF ServerRead
  <2> QED BY <1>1, <2>4, <2>8, <2>9 DEF HeardInv
<1>4. ASSUME NEW c \in Clients, Client(c) \/ Fault(c) PROVE HeardInv'
  <2>1. \A u \in users' : u.addr \in Known'
    BY <1>1, <1>4, ServerMoves DEF registry, HeardInv
  <2>2. ASSUME NEW d \in Clients PROVE queue'[d] \in Seq(Plausible(d)')
    <3> DEFINE S == Plausible(d)'
    <3>2. pc[c] = "next" /\ d \in todo[c] => PING(c) \in S
      <4> SUFFICES ASSUME d \in todo[c] PROVE PING(c) \in S
        OBVIOUS
      <4>1. c \in Known'
        BY <1>1 DEF HeardInv
      <4> QED BY <4>1 DEF PING, Message, Peer, Plausible
    <3>3. queue[d] \in Seq(S) /\ queue \in [Clients -> Seq(Message)]
      BY <1>2 DEF TypeOK
    <3> HIDE DEF S
    <3>4. queue'[d] \in Seq(S)
      BY <1>4, <3>2, <3>3, QueueMoves
    <3> QED BY <3>4 DEF S
  <2>3. ASSUME NEW d \in Clients PROVE todo'[d] \subseteq Known /\ (todo'[d] # {} => d \in Known)
    <3>1. CASE ReadList(c) /\ d = c
      <4>1. queue[c] \in Seq(Plausible(c)) /\ queue[c] # <<>>
        BY <3>1 DEF HeardInv, ReadList, Read
      <4>2. Head(queue[c]) \in Plausible(c)
        BY <4>1, QueueOperations
      <4>3. todo'[d] = Head(queue[c]).list
        BY <3>1 DEF ReadList, TypeOK
      <4> QED BY <3>1, <4>2, <4>3 DEF Plausible
    <3>2. CASE ~(ReadList(c) /\ d = c)
      <4>1. todo'[d] \subseteq todo[d]
        BY <1>4, <3>2
        DEF TypeOK, Client, Fault, AskAddress, SelfBind, AskUsers, ReadEcho, ReadList,
            ReadTimeout, Ping, ReadPong, PongTimeout, ReadLast, LastTimeout, Test, Prune,
            Lose, LoseRequest, Overtake, WriteFails
      <4> QED BY <4>1 DEF HeardInv
    <3> QED BY <3>1, <3>2
  <2>4. ASSUME NEW d \in Clients PROVE at'[d] \in Known \cup {Nobody}
    <3>1. at'[d] = at[d] \/ at'[d] = Nobody \/ at'[d] \in todo[c]
      BY <1>4 DEF TypeOK, Client, Fault, AskAddress, SelfBind, AskUsers, ReadEcho, ReadList,
             ReadTimeout, Ping, ReadPong, PongTimeout, ReadLast, LastTimeout, Test, Prune,
             Lose, LoseRequest, Overtake, WriteFails
    <3> QED BY <3>1 DEF HeardInv
  <2> QED BY <1>1, <2>1, <2>2, <2>3, <2>4 DEF HeardInv
<1> QED BY <1>3, <1>4, <1>5 DEF Next

(* An entry of users_map is new in a step only for the pinged address or   *)
(* for the sender of the last datagram read.                               *)
LEMMA MappedStep ==
    TypeOK /\ HeardInv /\ MappedPeersAnnounced /\ [Next]_vars => MappedPeersAnnounced'
<1> SUFFICES ASSUME TypeOK, HeardInv, MappedPeersAnnounced, [Next]_vars
             PROVE  MappedPeersAnnounced'
  OBVIOUS
<1> SUFFICES ASSUME NEW d \in Clients, NEW p \in Peer \ {Server}, users_map'[d][p] # Never
             PROVE  p \in Known'
  <2>1. TypeOK'
    BY TypeStep
  <2>2. \A d \in Clients : DOMAIN users_map'[d] = Peer
    BY <2>1 DEF TypeOK
  <2> QED BY <2>2 DEF MappedPeersAnnounced, Known
<1>1. Known \subseteq Known'
  BY KnownGrows
<1>2. ASSUME users_map[d][p] # Never PROVE p \in Known'
  <2>1. p \in DOMAIN users_map[d]
    BY DEF TypeOK
  <2> QED BY <1>1, <1>2, <2>1 DEF MappedPeersAnnounced, Known
<1>3. CASE UNCHANGED users_map
  BY <1>2, <1>3
<1>4. ASSUME NEW c \in Clients, ReadPong(c) PROVE p \in Known'
  <2>1. CASE d = c /\ p = at[c]
    <3>1. p \in Known
      BY <2>1, ClientAssumption DEF HeardInv, Peer
    <3> QED BY <1>1, <3>1
  <2>2. CASE ~(d = c /\ p = at[c])
    <3>1. users_map'[d][p] = users_map[d][p]
      BY <1>4, <2>2 DEF ReadPong, TypeOK
    <3> QED BY <1>2, <3>1
  <2> QED BY <2>1, <2>2
<1>5. ASSUME NEW c \in Clients, ReadLast(c) PROVE p \in Known'
  <2>1. CASE d = c /\ p = Head(queue[c]).from
    <3>1. Head(queue[c]) \in Plausible(c)
      BY <1>5, QueueOperations DEF HeardInv, ReadLast, Read
    <3>2. p \in Known
      BY <2>1, <3>1 DEF Plausible
    <3> QED BY <1>1, <3>2
  <2>2. CASE ~(d = c /\ p = Head(queue[c]).from)
    <3>1. users_map'[d][p] = users_map[d][p]
      BY <1>5, <2>2 DEF ReadLast, TypeOK
    <3> QED BY <1>2, <3>1
  <2> QED BY <2>1, <2>2
<1>6. ASSUME NEW c \in Clients, Prune(c) PROVE p \in Known'
  <2>1. users_map'[d][p] \in {Never, users_map[d][p]}
    BY <1>6 DEF Prune, TypeOK
  <2> QED BY <1>2, <2>1
<1>7. \/ UNCHANGED users_map
      \/ \E c \in Clients : ReadPong(c) \/ ReadLast(c) \/ Prune(c)
  BY DEF vars, Next, Tick, ServerWait, ServerRead, Client, Fault, AskAddress, SelfBind, AskUsers, ReadEcho, ReadList,
         ReadTimeout, Ping, PongTimeout, LastTimeout, Test,
         Lose, LoseRequest, Overtake, WriteFails
<1> QED BY <1>3, <1>4, <1>5, <1>6, <1>7

(* Nobody gets into a client's users_map whom the server never heard from, *)
(* although a client believes the sender of any datagram to be a peer.     *)
THEOREM MappedTheorem == Spec => []MappedPeersAnnounced
<1> DEFINE Inv == TypeOK /\ HeardInv /\ MappedPeersAnnounced
<1>1. Init => Inv
  <2>1. Init => MappedPeersAnnounced
    BY DEF Init, MappedPeersAnnounced
  <2> QED BY <2>1, TypeInit, HeardInit
<1>2. Inv /\ [Next]_vars => Inv'
  BY TypeStep, HeardStep, MappedStep
<1> QED BY <1>1, <1>2, PTL DEF Spec
-----------------------------------------------------------------------------
(* A request put into the server's socket is one of its sender's. *)
LEMMA RequestIn ==
    ASSUME inbox \in Seq(Clients), NEW c \in Clients, inbox' = Append(inbox, c),
           NEW d \in Clients
    PROVE  /\ Asked(d)' <=> Asked(d) \/ d = c
           /\ (d = c => ~Asked(d)) /\ Once(d) => Once(d)'
<1>1. /\ Len(inbox) \in Nat /\ Len(inbox') = Len(inbox) + 1
      /\ inbox'[Len(inbox) + 1] = c
      /\ \A i \in 1 .. Len(inbox) : inbox'[i] = inbox[i]
  BY AppendProperties, LenProperties
<1>2. \A i \in 1 .. Len(inbox') : i \in 1 .. Len(inbox) \/ i = Len(inbox) + 1
  BY <1>1
<1>3. 1 .. Len(inbox) \subseteq 1 .. Len(inbox') /\ Len(inbox) + 1 \in 1 .. Len(inbox')
  BY <1>1
<1> QED BY <1>1, <1>2, <1>3 DEF Asked, Once

(* The server takes one request, of the first client in line. *)
LEMMA RequestOut ==
    ASSUME inbox \in Seq(Clients), inbox # <<>>, inbox' = Tail(inbox), NEW d \in Clients
    PROVE  /\ Asked(d)' => Asked(d)
           /\ d # Head(inbox) /\ Asked(d) => Asked(d)'
           /\ Asked(Head(inbox))
           /\ d = Head(inbox) /\ Once(d) => ~Asked(d)'
           /\ Once(d) => Once(d)'
<1>1. /\ Len(inbox) \in Nat /\ Len(inbox) > 0 /\ Len(inbox') = Len(inbox) - 1
      /\ Head(inbox) = inbox[1]
      /\ \A i \in 1 .. Len(inbox') : inbox'[i] = inbox[i + 1] /\ i + 1 \in 1 .. Len(inbox)
  <2>1. Len(inbox) \in Nat \ {0}
    BY EmptySeq, LenProperties
  <2>2. /\ Head(inbox) = inbox[1] /\ Len(Tail(inbox)) = Len(inbox) - 1
        /\ \A i \in 1 .. Len(inbox) - 1 : Tail(inbox)[i] = inbox[i + 1]
    BY HeadTailProperties
  <2> QED BY <2>1, <2>2
<1>2. \A i \in 1 .. Len(inbox) : i = 1 \/ (i - 1 \in 1 .. Len(inbox') /\ inbox'[i - 1] = inbox[i])
  <2> TAKE i \in 1 .. Len(inbox)
  <2>1. i # 1 => i - 1 \in 1 .. Len(inbox') /\ (i - 1) + 1 = i
    BY <1>1
  <2> QED BY <1>1, <2>1
<1>3. 1 \in 1 .. Len(inbox)
  BY <1>1
<1>4. \A i \in 1 .. Len(inbox') : i + 1 # 1
  BY <1>1
<1>5. Asked(d)' => Asked(d)
  BY <1>1 DEF Asked
<1>6. d # Head(inbox) /\ Asked(d) => Asked(d)'
  BY <1>1, <1>2 DEF Asked
<1>7. Asked(Head(inbox))
  BY <1>1, <1>3 DEF Asked
<1>8. d = Head(inbox) /\ Once(d) => ~Asked(d)'
  BY <1>1, <1>3, <1>4 DEF Asked, Once
<1>9. Once(d) => Once(d)'
  <2> SUFFICES ASSUME Once(d), NEW i \in 1 .. Len(inbox'), NEW j \in 1 .. Len(inbox'),
                      inbox'[i] = d, inbox'[j] = d
               PROVE  i = j
    BY DEF Once
  <2>1. i + 1 = j + 1
    BY <1>1 DEF Once
  <2> QED BY <1>1, <2>1
<1> QED BY <1>5, <1>6, <1>7, <1>8, <1>9

(* What the steps of other clients do to a client and to what waits for    *)
(* it: they may ping it, which is no datagram of the server's.             *)
LEMMA OthersOnlyPing ==
    ASSUME TypeOK, NEW c \in Clients, NEW d \in Clients, d # c, Client(c)
    PROVE  /\ pc'[d] = pc[d] /\ timed'[d] = timed[d]
           /\ \/ queue'[d] = queue[d] /\ clean'[d] \in {clean[d], FALSE}
              \/ queue'[d] = Append(queue[d], PING(c)) /\ clean'[d] = FALSE
<1>1. CASE Ping(c)
  <2>1. PICK a \in todo[c] :
            /\ queue' = IF pc[a] = "dead" THEN queue ELSE [queue EXCEPT ![a] = Append(@, PING(c))]
            /\ clean' = [clean EXCEPT ![a] = FALSE]
    BY <1>1 DEF Ping
  <2>2. pc'[d] = pc[d] /\ timed'[d] = timed[d]
    BY <1>1 DEF Ping, Goto, TypeOK
  <2>3. CASE a = d
    BY <2>1, <2>2, <2>3 DEF TypeOK
  <2>4. CASE a # d
    BY <2>1, <2>2, <2>4 DEF TypeOK
  <2> QED BY <2>3, <2>4
<1>2. CASE ~Ping(c)
  BY <1>2 DEF TypeOK, Client, AskAddress, SelfBind, AskUsers, ReadEcho, ReadList,
         ReadTimeout, ReadPong, PongTimeout, ReadLast, LastTimeout, Test, Prune,
         Request, Read, Goto
<1> QED BY <1>1, <1>2

(* Even and odd places. *)
LEMMA Parity ==
    /\ 0 % 2 = 0 /\ 1 % 2 = 1
    /\ \A n \in Nat : /\ n % 2 = 0 => (n + 1) % 2 = 1 /\ (n + 2) % 2 = 0
                      /\ n % 2 = 1 => (n + 1) % 2 = 0 /\ (n + 2) % 2 = 1
                      /\ (n + 1) % 2 = 0 => n % 2 = 1
OBVIOUS

LEMMA OddNext ==
    ASSUME NEW k \in Nat, k % 2 = 1
    PROVE  (k + 1) % 2 = 0
OBVIOUS

(* An echo and a list behind a queue, and the head taken from one. *)
LEMMA TwoMore ==
    ASSUME NEW q, NEW p, NEW r \in {0, 1}, Len(q) \in Nat, Len(p) = Len(q) + 2,
           \A i \in 1 .. Len(q) + 2 : i <= Len(q) => p[i] = q[i],
           p[Len(q) + 2].kind = "list", Lists(q, r)
    PROVE  Lists(p, r)
<1> DEFINE n == Len(q)
<1>1. n % 2 = r /\ (n + 1) % 2 # r /\ (n + 2) % 2 = r
  BY Parity DEF Lists
<1>2. \A i \in 1 .. n + 2 : i \in 1 .. n \/ i = n + 1 \/ i = n + 2
  OBVIOUS
<1>3. \A i \in 1 .. n : i \in 1 .. n + 2 /\ i <= n
  OBVIOUS
<1>4. ASSUME NEW i \in 1 .. n + 2, i % 2 = r PROVE p[i].kind = "list"
  <2>1. CASE i \in 1 .. n
    BY <1>3, <1>4, <2>1 DEF Lists
  <2>2. CASE i = n + 1
    BY <1>1, <1>4, <2>2
  <2>3. CASE i = n + 2
    BY <2>3
  <2> QED BY <1>2, <2>1, <2>2, <2>3
<1> QED BY <1>1, <1>4 DEF Lists

LEMMA OneLess ==
    ASSUME NEW q, NEW p, Len(q) \in Nat, Len(q) >= 1, Len(p) = Len(q) - 1,
           \A i \in 1 .. Len(p) : p[i] = q[i + 1], Lists(q, 0)
    PROVE  Lists(p, 1)
<1> DEFINE n == Len(q)
           m == Len(p)
<1>1. m \in Nat /\ n = m + 1
  OBVIOUS
<1>2. m % 2 = 1
  <2>1. (m + 1) % 2 = 0
    BY <1>1 DEF Lists
  <2> HIDE DEF m
  <2> QED BY <1>1, <2>1, Parity
<1>3. ASSUME NEW i \in 1 .. m, i % 2 = 1 PROVE p[i].kind = "list"
  <2>1. i + 1 \in 1 .. n /\ i \in Nat
    BY <1>1
  <2>2. (i + 1) % 2 = 0
    <3>1. i \in Nat
      BY <2>1
    <3> HIDE DEF m, n
    <3> QED BY <1>3, <3>1, OddNext
  <2> QED BY <2>1, <2>2 DEF Lists
<1> QED BY <1>2, <1>3 DEF Lists

(* A read takes the first datagram of the queue. *)
LEMMA ReadFacts ==
    ASSUME TypeOK, NEW c \in Clients, Read(c)
    PROVE  /\ Len(queue[c]) \in Nat /\ Len(queue[c]) >= 1
           /\ Len(queue'[c]) = Len(queue[c]) - 1
           /\ \A i \in 1 .. Len(queue'[c]) : queue'[c][i] = queue[c][i + 1]
<1>1. queue'[c] = Tail(queue[c]) /\ queue[c] # <<>> /\ queue[c] \in Seq(Message)
  BY DEF Read, TypeOK
<1>2. Len(queue[c]) \in Nat \ {0}
  BY <1>1, EmptySeq, LenProperties
<1>3. /\ Len(Tail(queue[c])) = Len(queue[c]) - 1
      /\ \A i \in 1 .. Len(queue[c]) - 1 : Tail(queue[c])[i] = queue[c][i + 1]
  BY <1>1, HeadTailProperties
<1> QED BY <1>1, <1>2, <1>3
-----------------------------------------------------------------------------
(* At the start nobody waits. *)
LEMMA AnswerInit == Init => AnswerInv
<1> SUFFICES ASSUME Init PROVE AnswerInv
  OBVIOUS
<1>1. /\ inbox = <<>> /\ Len(<<>>) = 0
      /\ \A c \in Clients : pc[c] = "start" /\ queue[c] = <<>> /\ ~timed[c] /\ ~clean[c]
  BY EmptySeq DEF Init
<1>2. \A c \in Clients : ~Asked(c) /\ ~Served(c) /\ Once(c)
  BY <1>1 DEF Asked, Served, Once
<1> QED BY <1>1, <1>2 DEF AnswerInv, Waits, Requests, Pure, Awake

(* The server's read answers the first client in line and no one else: its *)
(* queue gets an echo and a list, and the others keep their place.         *)
LEMMA AnswerRead ==
    ASSUME TypeOK, AnswerInv, faults = 0, ServerRead
    PROVE  (\A d \in Clients : Waits(d)' /\ Requests(d)' /\ Pure(d)') /\ Awake'
<1>1. PICK e \in Clients :
          /\ e = Head(inbox) /\ inbox # <<>> /\ inbox' = Tail(inbox)
          /\ queue' = IF pc[e] = "dead" THEN queue
                      ELSE [queue EXCEPT ![e] = @ \o <<Echo, List(reply'.list)>>]
  BY ReadMoves DEF TypeOK
<1>2. \A d \in Clients : /\ Asked(d)' => Asked(d)
                         /\ d # e /\ Asked(d) => Asked(d)'
                         /\ d = e /\ Once(d) => ~Asked(d)'
                         /\ Once(d) => Once(d)'
  BY <1>1, RequestOut DEF TypeOK
<1>3. Asked(e)
  BY <1>1, RequestOut DEF TypeOK
<1>4. pc' = pc /\ timed' = timed /\ clean' = clean
  BY DEF ServerRead
<1>5. \A d \in Clients : Waits(d) /\ Requests(d) /\ Pure(d)
  BY DEF AnswerInv
<1>6. ASSUME NEW d \in Clients, queue'[d] = queue[d], d # e \/ pc[d] = "dead"
      PROVE  Waits(d)' /\ Requests(d)' /\ Pure(d)'
  <2>1. Served(d)' <=> Served(d)
    BY <1>6 DEF Served
  <2> QED BY <1>2, <1>4, <1>5, <1>6, <2>1 DEF Waits, Requests, Pure
<1>7. ASSUME pc[e] # "dead" PROVE Waits(e)' /\ Requests(e)' /\ Pure(e)'
  <2> DEFINE q == queue[e]
             n == Len(q)
             l == List(reply'.list)
             S == Message \cup {Echo, l}
  <2>1. queue'[e] = q \o <<Echo, l>> /\ q \in Seq(Message)
    BY <1>1, <1>7 DEF TypeOK
  <2>2. Echo.from = Server /\ l.kind = "list"
    BY DEF Echo, List
  <2> HIDE DEF l
  <2>3. q \in Seq(S) /\ <<Echo, l>> \in Seq(S) /\ Len(<<Echo, l>>) = 2
    BY <2>1, SeqMonotonic
  <2>4. /\ Len(q \o <<Echo, l>>) = n + 2
        /\ \A i \in 1 .. n + 2 :
               (q \o <<Echo, l>>)[i] = IF i <= n THEN q[i] ELSE <<Echo, l>>[i - n]
    BY <2>3, ConcatProperties
  <2>5. /\ n \in Nat
        /\ n + 1 \in 1 .. n + 2 /\ n + 2 \in 1 .. n + 2
        /\ ~(n + 1 <= n) /\ ~(n + 2 <= n)
        /\ (n + 1) - n = 1 /\ (n + 2) - n = 2
    BY <2>1, LenProperties
  <2>6. /\ Len(queue'[e]) = n + 2
        /\ queue'[e][n + 1].from = Server
        /\ queue'[e][n + 2].kind = "list"
        /\ \A i \in 1 .. n + 2 : i <= n => queue'[e][i] = q[i]
    BY <2>1, <2>2, <2>4, <2>5
  <2>7. Waits(e)'
    <3>1. Served(e)'
      BY <2>5, <2>6 DEF Served
    <3> QED BY <2>5, <2>6, <3>1 DEF Waits
  <2>8. Requests(e)'
    BY <1>2, <1>3, <1>4, <1>5 DEF Requests
  <2>9. Pure(e)'
    <3>1. \A r \in {0, 1} : Lists(q, r) => Lists(queue'[e], r)
      BY <2>5, <2>6, TwoMore
    <3> QED BY <1>4, <1>5, <3>1 DEF Pure
  <2> QED BY <2>7, <2>8, <2>9
<1>8. ASSUME NEW d \in Clients PROVE Waits(d)' /\ Requests(d)' /\ Pure(d)'
  <2>1. d # e \/ pc[e] = "dead" => queue'[d] = queue[d]
    BY <1>1 DEF TypeOK
  <2> QED BY <1>6, <1>7, <2>1
<1>9. Awake'
  <2>1. timed'[e] \/ ~Asked(e)'
    BY <1>2, <1>4, <1>5 DEF Requests
  <2> QED BY <2>1 DEF Awake
<1> QED BY <1>8, <1>9

(* A step of a client leaves what the others wait for. *)
LEMMA AnswerOthers ==
    ASSUME TypeOK, AnswerInv, faults = 0, NEW c \in Clients, Client(c),
           NEW d \in Clients, d # c
    PROVE  Waits(d)' /\ Requests(d)' /\ Pure(d)'
<1>1. Waits(d) /\ Requests(d) /\ Pure(d)
  BY DEF AnswerInv
<1>2. (Asked(d)' <=> Asked(d)) /\ (Once(d) => Once(d)')
  <2>1. CASE UNCHANGED <<inbox, events>>
    BY <2>1 DEF Asked, Once
  <2>2. CASE inbox' = Append(inbox, c)
    BY <2>2, RequestIn DEF TypeOK
  <2> QED BY <2>1, <2>2, ServerMoves
<1>3. pc'[d] = pc[d] /\ timed'[d] = timed[d]
  BY OthersOnlyPing
<1>4. CASE queue'[d] = queue[d] /\ clean'[d] \in {clean[d], FALSE}
  <2>1. Served(d)' <=> Served(d)
    BY <1>4 DEF Served
  <2> QED BY <1>1, <1>2, <1>3, <1>4, <2>1 DEF Waits, Requests, Pure
<1>5. CASE queue'[d] = Append(queue[d], PING(c)) /\ clean'[d] = FALSE
  <2>1. PING(c) \in Message /\ PING(c).from # Server /\ queue[d] \in Seq(Message)
    BY ClientAssumption DEF PING, Message, Peer, TypeOK
  <2>2. /\ Len(queue[d]) \in Nat
        /\ Len(queue'[d]) = Len(queue[d]) + 1
        /\ \A i \in 1 .. Len(queue[d]) : queue'[d][i] = queue[d][i]
        /\ queue'[d][Len(queue[d]) + 1] = PING(c)
    BY <1>5, <2>1, AppendProperties, LenProperties
  <2>3. \A i \in 1 .. Len(queue'[d]) : i \in 1 .. Len(queue[d]) \/ i = Len(queue[d]) + 1
    BY <2>2
  <2>4. 1 .. Len(queue[d]) \subseteq 1 .. Len(queue'[d])
    BY <2>2
  <2>5. Served(d)' <=> Served(d)
    BY <2>1, <2>2, <2>3, <2>4 DEF Served
  <2>6. Waits(d)'
    BY <1>1, <1>2, <1>3, <2>2, <2>5 DEF Waits
  <2> QED BY <1>1, <1>2, <1>3, <1>5, <2>5, <2>6 DEF Requests, Pure
<1> QED BY <1>4, <1>5, OthersOnlyPing

(* A client's own step: it asks when it has no request out, and reads what *)
(* Waits counts.                                                           *)
LEMMA AnswerOwn ==
    ASSUME TypeOK, AnswerInv, faults = 0, NEW c \in Clients, Client(c)
    PROVE  Waits(c)' /\ Requests(c)' /\ Pure(c)'
<1>1. Waits(c) /\ Requests(c) /\ Pure(c)
  BY DEF AnswerInv
<1>2. ASSUME Request(c)
      PROVE  Asked(c)' /\ (~Asked(c) /\ Once(c) => Once(c)') /\ queue'[c] = queue[c]
  <2>1. inbox' = Append(inbox, c) /\ queue' = queue /\ inbox \in Seq(Clients)
    BY <1>2 DEF Request, TypeOK
  <2> QED BY <2>1, RequestIn
<1>3. ASSUME UNCHANGED server PROVE (Asked(c)' <=> Asked(c)) /\ (Once(c) => Once(c)')
  BY <1>3 DEF server, Asked, Once
<1>4. CASE AskAddress(c)
  <2>1. /\ pc[c] = "start" /\ pc'[c] = "self" /\ timed'[c] = timed[c] /\ clean'[c] = clean[c]
        /\ Request(c)
    BY <1>4 DEF AskAddress, Goto, TypeOK
  <2>2. Served(c)' <=> Served(c)
    BY <1>2, <2>1 DEF Served
  <2> QED BY <1>1, <1>2, <2>1, <2>2 DEF Waits, Requests, Pure
<1>5. CASE AskUsers(c)
  <2>1. /\ pc[c] = "ask" /\ pc'[c] = "echo" /\ timed'[c] = timed[c]
        /\ clean'[c] = (queue[c] = <<>>)
        /\ Request(c)
    BY <1>5 DEF AskUsers, Goto, TypeOK
  <2>2. Waits(c)' /\ Requests(c)'
    BY <1>1, <1>2, <2>1 DEF Waits, Requests
  <2>3. Lists(<<>>, 0)
    <3>1. Len(<<>>) = 0 /\ 0 % 2 = 0 /\ 1 .. 0 = {}
      BY EmptySeq, Parity
    <3> QED BY <3>1 DEF Lists
  <2>4. clean'[c] => queue'[c] = <<>>
    BY <1>2, <2>1, Zenon
  <2>5. Pure(c)'
    BY <2>1, <2>3, <2>4 DEF Pure
  <2> QED BY <2>2, <2>5
<1>6. CASE ReadEcho(c)
  <2>1. /\ pc[c] = "echo" /\ pc'[c] = "list" /\ Read(c) /\ UNCHANGED server
        /\ timed'[c] = timed[c] /\ clean'[c] = clean[c]
    BY <1>6 DEF ReadEcho, Goto, Read, TypeOK
  <2> DEFINE n == Len(queue[c])
  <2>2. /\ n \in Nat /\ n >= 1 /\ Len(queue'[c]) = n - 1
        /\ \A i \in 1 .. Len(queue'[c]) : queue'[c][i] = queue[c][i + 1]
    BY <2>1, ReadFacts
  <2>3. Waits(c)' /\ Requests(c)'
    BY <1>1, <1>3, <2>1, <2>2 DEF Waits, Requests
  <2>4. Lists(queue[c], 0) => Lists(queue'[c], 1)
    BY <2>2, OneLess
  <2>5. Pure(c)'
    BY <1>1, <2>1, <2>4 DEF Pure
  <2> QED BY <2>3, <2>5
<1>7. CASE SelfBind(c)
  <2>1. /\ pc[c] = "self" /\ pc'[c] \in {"ask", "dead"} /\ UNCHANGED server
        /\ timed'[c] = timed[c] /\ clean'[c] = clean[c]
        /\ Served(c)
    BY <1>7 DEF SelfBind, Goto, TypeOK, Served
  <2> QED BY <1>1, <1>3, <2>1 DEF Waits, Requests, Pure
<1>8. CASE ReadList(c) \/ ReadTimeout(c)
  <2>1. /\ pc'[c] \in {"next", "prune"} /\ clean'[c] = FALSE /\ UNCHANGED server
        /\ timed'[c] = timed[c]
        /\ pc'[c] = "prune" => timed[c]
    BY <1>8 DEF ReadList, ReadTimeout, Read, Goto, TypeOK
  <2> QED BY <1>1, <1>3, <2>1 DEF Waits, Requests, Pure
<1>9. CASE \/ Ping(c) \/ ReadPong(c) \/ PongTimeout(c) \/ ReadLast(c)
           \/ LastTimeout(c) \/ Test(c) \/ Prune(c)
  <2>1. /\ pc[c] \in {"next", "pong", "test", "prune"}
        /\ pc'[c] \in {"next", "pong", "test", "prune", "ask", "dead"}
        /\ UNCHANGED server
        /\ timed'[c] = timed[c] \/ timed'[c] = TRUE
    BY <1>9 DEF Ping, ReadPong, PongTimeout, ReadLast, LastTimeout, Test, Prune,
           Read, Goto, TypeOK
  <2>2. /\ pc'[c] = "ask" => pc[c] = "prune"
        /\ pc'[c] \in {"test", "prune"} => timed'[c] = TRUE \/ pc[c] = "test"
    BY <1>9 DEF Ping, ReadPong, PongTimeout, ReadLast, LastTimeout, Test, Prune,
           Read, Goto, TypeOK
  <2>3. ~clean'[c]
    <3>1. clean' = clean \/ \E a \in todo[c] : clean' = [clean EXCEPT ![a] = FALSE]
      BY <1>9 DEF Ping, ReadPong, PongTimeout, ReadLast, LastTimeout, Test, Prune
    <3>2. clean'[c] \in {clean[c], FALSE}
      BY <3>1 DEF TypeOK
    <3> QED BY <1>1, <2>1, <3>2 DEF Pure
  <2> QED BY <1>1, <1>3, <2>1, <2>2, <2>3 DEF Waits, Requests, Pure
<1> QED BY <1>4, <1>5, <1>6, <1>7, <1>8, <1>9 DEF Client

(* A client's step leaves the unread requests announced, or someone awake. *)
LEMMA AwakeStep ==
    ASSUME TypeOK, AnswerInv, faults = 0, NEW c \in Clients, Client(c)
    PROVE  Awake'
<1>1. CASE events' = events \cup {"ready"}
  BY <1>1 DEF Awake
<1>2. CASE UNCHANGED <<inbox, events>>
  <2>1. \A d \in Clients : Asked(d)' <=> Asked(d)
    BY <1>2 DEF Asked
  <2>2. \A d \in Clients : timed[d] => timed'[d]
    BY DEF TypeOK, Client, AskAddress, SelfBind, AskUsers, ReadEcho, ReadList,
           ReadTimeout, Ping, ReadPong, PongTimeout, ReadLast, LastTimeout, Test, Prune
  <2> QED BY <1>2, <2>1, <2>2 DEF AnswerInv, Awake
<1> QED BY <1>1, <1>2, ServerMoves

(* Without faults every step keeps the answers a waiting client needs. *)
LEMMA AnswerStep == TypeOK /\ AnswerInv /\ [Next]_vars => AnswerInv'
<1> SUFFICES ASSUME TypeOK, AnswerInv, [Next]_vars, faults' = 0 PROVE AnswerInv'
  BY DEF AnswerInv
<1>1. CASE UNCHANGED vars \/ Tick \/ ServerWait
  <2>1. UNCHANGED <<inbox, queue, pc, timed, clean, faults>>
    BY <1>1 DEF vars, server, Tick, ServerWait
  <2>2. events' = events \/ events' # {}
    BY <1>1 DEF vars, server, Tick, ServerWait
  <2>3. \A d \in Clients : (Asked(d)' <=> Asked(d)) /\ (Served(d)' <=> Served(d))
                           /\ (Once(d)' <=> Once(d))
    BY <2>1 DEF Asked, Served, Once
  <2> QED BY <2>1, <2>2, <2>3 DEF AnswerInv, Waits, Requests, Pure, Awake
<1>2. ASSUME NEW c \in Clients, Fault(c) PROVE FALSE
  BY <1>2 DEF Fault, TypeOK
<1>3. CASE ServerRead
  <2>1. faults = 0
    BY <1>3 DEF ServerRead
  <2> QED BY <1>3, <2>1, AnswerRead DEF AnswerInv
<1>4. ASSUME NEW c \in Clients, Client(c) PROVE AnswerInv'
  <2>1. faults = 0
    BY <1>4 DEF Client, AskAddress, SelfBind, AskUsers, ReadEcho, ReadList,
           ReadTimeout, Ping, ReadPong, PongTimeout, ReadLast, LastTimeout, Test, Prune, Read
  <2>2. Awake'
    BY <1>4, <2>1, AwakeStep
  <2>3. \A d \in Clients : Waits(d)' /\ Requests(d)' /\ Pure(d)'
    BY <1>4, <2>1, AnswerOwn, AnswerOthers
  <2> QED BY <2>2, <2>3 DEF AnswerInv
<1> QED BY <1>1, <1>2, <1>3, <1>4 DEF Next

(* The invariant of the two theorems below. *)
LEMMA AnswerInvariant == Spec => [](TypeOK /\ AnswerInv)
<1>1. Init => TypeOK /\ AnswerInv
  BY TypeInit, AnswerInit
<1>2. TypeOK /\ AnswerInv /\ [Next]_vars => (TypeOK /\ AnswerInv)'
  BY TypeStep, AnswerStep
<1> QED BY <1>1, <1>2, PTL DEF Spec

(* While nothing is lost or overtaken, a client blocked without a timeout  *)
(* has a request in the server's socket; and the server never leaves       *)
(* requests unread without an event while every client is blocked, for any *)
(* number of clients and rounds.                                           *)
THEOREM UntimedTheorem == Spec => []UntimedReadIsAnswered
<1>1. TypeOK /\ AnswerInv => UntimedReadIsAnswered
  <2> SUFFICES ASSUME TypeOK, AnswerInv, faults = 0, NEW c \in Clients, Blocked(c)
               PROVE  c \in ToSet(inbox) /\ (events # {} \/ \E d \in Clients : ~Blocked(d))
    BY DEF UntimedReadIsAnswered
  <2>1. \A d \in Clients : Blocked(d) => Asked(d) /\ ~timed[d]
    <3> SUFFICES ASSUME NEW d \in Clients, Blocked(d) PROVE Asked(d) /\ ~timed[d]
      OBVIOUS
    <3>1. Waits(d) /\ Requests(d) /\ Len(<<>>) = 0
      BY EmptySeq DEF AnswerInv
    <3> QED BY <3>1 DEF Blocked, Served, Waits, Requests
  <2>2. PICK i \in 1 .. Len(inbox) : inbox[i] = c
    BY <2>1 DEF Asked
  <2>3. inbox \in Seq(Clients) /\ i \in DOMAIN inbox
    BY <2>2, LenProperties DEF TypeOK
  <2>4. c \in ToSet(inbox)
    BY <2>2, <2>3 DEF ToSet
  <2>5. inbox # <<>>
    BY <2>2, EmptySeq
  <2> QED BY <2>1, <2>4, <2>5 DEF AnswerInv, Awake
<1> QED BY <1>1, AnswerInvariant, PTL

(* A round that nothing has mixed with takes the server's list for it,     *)
(* whatever the other clients do in the meantime, and although the answers *)
(* to earlier requests of the client may come in between.                  *)
THEOREM CleanTheorem == Spec => CleanRoundReadsList
<1> DEFINE Takes == \A c \in Clients : faults = 0 /\ clean[c] /\ ReadList(c)
                                           => Head(queue[c]).kind = "list"
<1>1. TypeOK /\ AnswerInv => Takes
  <2> SUFFICES ASSUME TypeOK, AnswerInv, NEW c \in Clients, faults = 0, clean[c], ReadList(c)
               PROVE  Head(queue[c]).kind = "list"
    OBVIOUS
  <2>1. pc[c] = "list" /\ Read(c) /\ queue[c] # <<>> /\ queue[c] \in Seq(Message)
    BY DEF ReadList, Read, TypeOK
  <2>2. Head(queue[c]) = queue[c][1]
    BY <2>1, QueueOperations
  <2>3. 1 \in 1 .. Len(queue[c])
    BY <2>1, ReadFacts
  <2> QED BY <2>1, <2>2, <2>3, Parity DEF AnswerInv, Pure, Lists
<1>2. TypeOK /\ AnswerInv /\ [Next]_vars => [Takes]_vars
  BY <1>1
<1> QED BY <1>2, AnswerInvariant, PTL DEF Spec, CleanRoundReadsList
=============================================================================
