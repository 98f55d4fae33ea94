----------------------------- MODULE PeerRegistry -----------------------------
(***************************************************************************)
(* The registry of UDP peers kept by serv_thread (src/src/async_serv.cpp). *)
(*                                                                         *)
(* Every datagram is an announcement of its sender: the handler prunes the *)
(* entries whose ping is too old, looks the sender up, enters it when it   *)
(* is new (emptying the whole registry first when it is over its limit),   *)
(* and answers with the addresses it found.  The text of the datagram is   *)
(* only echoed, so it is not modelled; the order of the vector only shows  *)
(* in the order of the answer, so the registry is a set of entries.        *)
(***************************************************************************)
EXTENDS Integers, FiniteSets

CONSTANTS Addr,       \* socket addresses (sockaddr_in: family, port, address)
          MaxUsers,   \* the limit tested before an insertion, 10 in the code
          Timeout,    \* seconds after which an entry is erased, 120 in the code
          MaxClock    \* bound on the clock: ticks stop there

ASSUME RegistryAssumption ==
    /\ MaxUsers \in Nat
    /\ Timeout \in Nat
    /\ MaxClock \in Nat

Never == -1

VARIABLES users,      \* static std::vector<serv::user> users
          clock,      \* time(NULL)
          reply,      \* the last answer: to whom, when, the addresses listed
          heard       \* history: when the last datagram of an address came

vars == <<users, clock, reply, heard>>

User == [addr : Addr, lastPing : Nat]

NoReply == [to |-> "nobody", at |-> Never, list |-> {}]

Reply == {NoReply} \cup [to : Addr, at : Nat, list : SUBSET Addr]

Init ==
    /\ users = {}
    /\ clock = 0
    /\ reply = NoReply
    /\ heard = [a \in Addr |-> Never]
-----------------------------------------------------------------------------
(* Mutant of NewUser: the constructor does not ping. *)
NewUserUnpinged(a, now) == [addr |-> a, lastPing |-> Never]

(* user(struct sockaddr_in &): the constructor pings once. *)
NewUser(a, now) == [addr |-> a, lastPing |-> now]

Expired(u, now) == now - u.lastPing > Timeout

(* Mutants of delByPing: nothing is pruned; the age limit is off by one. *)
KeepAll(now) == users
PruneEarly(now) == {u \in users : now - u.lastPing < Timeout}

(* delByPing: erases one expired entry per scan until a scan finds none. *)
delByPing(now) == {u \in users : ~Expired(u, now)}

AddrOf(us) == {u.addr : u \in us}

(* Mutant of user_exists: the address comparison never matches. *)
NeverExists(live, a) == FALSE

(* The loop over a copy of every entry.  It calls updatePing on the copy   *)
(* that matches, which leaves the entry in the vector as it was.           *)
user_exists(live, a) == \E u \in live : u.addr = a

(* Mutant of Room: the limit is not tested. *)
RoomUnlimited(live) == live

(* users.size() > 10 empties the registry before the insertion. *)
Room(live) == IF Cardinality(live) > MaxUsers THEN {} ELSE live

(* Mutant of Registry: the new entry is not pushed. *)
RegistryNoPush(live, a, now) == IF user_exists(live, a) THEN live ELSE Room(live)

Registry(live, a, now) ==
    IF user_exists(live, a) THEN live ELSE Room(live) \cup {NewUser(a, now)}

(* The list is built from the pruned vector, before the insertion. *)
List(live, a) == AddrOf(live)

(* The whole UDP branch of the event loop, for one datagram from a. *)
Datagram(a) ==
    LET live == delByPing(clock)
    IN  /\ users' = Registry(live, a, clock)
        /\ reply' = [to |-> a, at |-> clock, list |-> List(live, a)]
        /\ heard' = [heard EXCEPT ![a] = clock]
        /\ UNCHANGED clock

Tick ==
    /\ clock < MaxClock
    /\ clock' = clock + 1
    /\ UNCHANGED <<users, reply, heard>>

Next == Tick \/ \E a \in Addr : Datagram(a)

Spec == Init /\ [][Next]_vars
-----------------------------------------------------------------------------
TypeOK ==
    /\ users \in SUBSET User
    /\ clock \in Nat
    /\ reply \in Reply
    /\ heard \in [Addr -> Nat \cup {Never}]

(* The registry never holds more than one entry over its limit, however    *)
(* datagrams and expiries interleave: the size is tested before the push,  *)
(* so the vector peaks at MaxUsers + 1 (11 in the code).                   *)
Bounded == IsFiniteSet(users) /\ Cardinality(users) <= MaxUsers + 1

(* No address has two entries: an entry is only pushed when the pruned     *)
(* vector holds none for the sender.                                       *)
OneEntryPerAddress == \A u, v \in users : u.addr = v.addr => u = v

(* Every entry comes from a datagram of its address that was handled, and  *)
(* carries a ping time that is not later than that address's last one.     *)
EntryWasHeard ==
    \A u \in users : u.lastPing <= heard[u.addr] /\ heard[u.addr] <= clock

(* The answer and the registry agree: after a datagram the registry holds  *)
(* the sender with the addresses it was just told, or - when the registry  *)
(* was over its limit and got emptied - the sender alone.                  *)
ReplyMatchesRegistry ==
    reply # NoReply =>
        \/ AddrOf(users) = reply.list \cup {reply.to}
        \/ AddrOf(users) = {reply.to} /\ Cardinality(reply.list) > MaxUsers

(* An answer lists only addresses that were heard from within the timeout  *)
(* before it was sent: delByPing runs before the list is built.            *)
ListedWereHeard ==
    \A a \in reply.list : heard[a] >= reply.at - Timeout

(* An entry only leaves the registry because it is older than the timeout, *)
(* or because a newcomer found the registry over its limit.                *)
EntryLeavesForAReason ==
    [][\A u \in users \ users' :
           \/ Expired(u, clock)
           \/ /\ Cardinality(delByPing(clock)) > MaxUsers
              /\ reply'.to \notin AddrOf(delByPing(clock))]_vars

(* A peer is erased for a timeout only when it has been silent for longer  *)
(* than the timeout.  The handler means to keep this: it announces "Erase  *)
(* user(timeout)" and pings the entry of every known sender.               *)
TimeoutErasesSilentPeers ==
    [][\A u \in users : Expired(u, clock) /\ u \notin users'
                            => clock - heard[u.addr] > Timeout]_vars

(* The registry implements the abstract directory, its bound included.  An *)
(* emptied registry is an announcement that drops every other member.      *)
Directory == INSTANCE PeerDirectory
    WITH members <- AddrOf(users), answer <- reply.list, Capacity <- MaxUsers + 1

ImplementsDirectory == Directory!Spec
=============================================================================
