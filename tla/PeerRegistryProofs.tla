-------------------------- MODULE PeerRegistryProofs --------------------------
(***************************************************************************)
(* The registry's invariants for every set of addresses, every limit and   *)
(* every timeout.  The inductive invariant is RegistryInv: the bound needs *)
(* that the registry is finite, the freshness of a list needs that an      *)
(* entry's ping is not later than the last datagram of its address.        *)
(***************************************************************************)
EXTENDS PeerRegistry, FiniteSetTheorems, TLAPS

RegistryInv ==
    /\ TypeOK
    /\ Bounded
    /\ OneEntryPerAddress
    /\ EntryWasHeard
    /\ ReplyMatchesRegistry
    /\ ListedWereHeard

-----------------------------------------------------------------------------
(* Pruning (delByPing) only removes entries, and keeps the registry finite *)
(* and no larger.                                                          *)
LEMMA PruneShrinks ==
    ASSUME TypeOK, Bounded, NEW now \in Nat
    PROVE  /\ delByPing(now) \subseteq users
           /\ IsFiniteSet(delByPing(now))
           /\ Cardinality(delByPing(now)) \in Nat
           /\ Cardinality(delByPing(now)) <= MaxUsers + 1
<1>1. delByPing(now) \subseteq users
  BY DEF delByPing
<1>2. IsFiniteSet(users) /\ Cardinality(users) <= MaxUsers + 1
  BY DEF Bounded
<1>3. IsFiniteSet(delByPing(now)) /\ Cardinality(delByPing(now)) <= Cardinality(users)
  BY <1>1, <1>2, FS_Subset
<1>4. Cardinality(users) \in Nat /\ Cardinality(delByPing(now)) \in Nat
  BY <1>2, <1>3, FS_CardinalityType
<1>5. QED
  BY <1>1, <1>2, <1>3, <1>4, RegistryAssumption DEF RegistryAssumption

(* A pruned registry still has one entry per address, so it lists as many  *)
(* addresses as it has entries.                                            *)
LEMMA ListHasOnePerEntry ==
    ASSUME NEW us, IsFiniteSet(us), \A u, v \in us : u.addr = v.addr => u = v
    PROVE  IsFiniteSet(AddrOf(us)) /\ Cardinality(AddrOf(us)) = Cardinality(us)
<1> DEFINE f == [u \in us |-> u.addr]
<1>1. f \in Bijection(us, AddrOf(us))
  <2>1. f \in [us -> AddrOf(us)]
    BY DEF AddrOf
  <2>2. \A u, v \in us : f[u] = f[v] => u = v
    OBVIOUS
  <2>3. \A a \in AddrOf(us) : \E u \in us : f[u] = a
    BY DEF AddrOf
  <2>4. QED
    BY <2>1, <2>2, <2>3 DEF Bijection, Injection, Surjection, IsInjective
<1>2. ExistsBijection(us, AddrOf(us))
  BY <1>1 DEF ExistsBijection
<1>3. QED
  BY <1>2, FS_Bijection

(* What is left to make room for a newcomer is at most MaxUsers entries.   *)
LEMMA RoomIsWithinLimit ==
    ASSUME NEW live, IsFiniteSet(live)
    PROVE  /\ Room(live) \subseteq live
           /\ IsFiniteSet(Room(live))
           /\ Cardinality(Room(live)) <= MaxUsers
<1>1. CASE Cardinality(live) > MaxUsers
  BY <1>1, FS_EmptySet, RegistryAssumption DEF Room, RegistryAssumption
<1>2. CASE ~(Cardinality(live) > MaxUsers)
  BY <1>2, FS_CardinalityType, RegistryAssumption DEF Room, RegistryAssumption
<1>3. QED
  BY <1>1, <1>2
-----------------------------------------------------------------------------
LEMMA InitRegistryInv == Init => RegistryInv
<1> SUFFICES ASSUME Init PROVE RegistryInv
  OBVIOUS
<1>1. TypeOK
  BY DEF Init, TypeOK, Reply
<1>2. Bounded
  BY FS_EmptySet, RegistryAssumption DEF Init, Bounded, RegistryAssumption
<1>3. OneEntryPerAddress /\ EntryWasHeard /\ ReplyMatchesRegistry /\ ListedWereHeard
  BY DEF Init, OneEntryPerAddress, EntryWasHeard, ReplyMatchesRegistry,
         ListedWereHeard, NoReply
<1>4. QED
  BY <1>1, <1>2, <1>3 DEF RegistryInv

LEMMA TickKeepsInv == RegistryInv /\ Tick => RegistryInv'
<1> SUFFICES ASSUME RegistryInv, Tick PROVE RegistryInv'
  OBVIOUS
<1> USE DEF RegistryInv
<1>1. TypeOK'
  BY DEF Tick, TypeOK
<1>2. EntryWasHeard'
  BY DEF Tick, TypeOK, EntryWasHeard, User, Never
<1>3. Bounded' /\ OneEntryPerAddress' /\ ReplyMatchesRegistry' /\ ListedWereHeard'
  BY DEF Tick, Bounded, OneEntryPerAddress, ReplyMatchesRegistry,
         ListedWereHeard, AddrOf
<1>4. QED
  BY <1>1, <1>2, <1>3

(* One datagram.  live names the pruned registry; the sender is either     *)
(* known (the registry becomes live) or new (it is pushed to what Room     *)
(* leaves of live).                                                        *)
LEMMA DatagramKeepsInv ==
    ASSUME RegistryInv, NEW a \in Addr, Datagram(a)
    PROVE  RegistryInv'
<1> DEFINE live == delByPing(clock)
           new  == NewUser(a, clock)
<1> USE DEF RegistryInv
<1>0. clock \in Nat /\ users \subseteq User /\ clock' = clock
  BY DEF TypeOK, Datagram
<1>1. /\ live \subseteq users
      /\ IsFiniteSet(live)
      /\ Cardinality(live) \in Nat
      /\ Cardinality(live) <= MaxUsers + 1
  BY <1>0, PruneShrinks
<1>2. /\ Room(live) \subseteq live
      /\ IsFiniteSet(Room(live))
      /\ Cardinality(Room(live)) <= MaxUsers
  BY <1>1, RoomIsWithinLimit
<1>3. \/ user_exists(live, a) /\ users' = live
      \/ ~user_exists(live, a) /\ users' = Room(live) \cup {new}
  BY DEF Datagram, Registry
<1>4. reply' = [to |-> a, at |-> clock, list |-> AddrOf(live)]
  BY DEF Datagram, List
<1>5. heard' = [heard EXCEPT ![a] = clock]
  BY DEF Datagram
<1>6. new \in User /\ new.addr = a /\ new.lastPing = clock
  BY <1>0 DEF NewUser, User
<1>7. users' \subseteq live \cup {new}
  BY <1>2, <1>3
<1> HIDE DEF live, new
<1>8. TypeOK'
  <2>1. users' \in SUBSET User
    BY <1>0, <1>1, <1>6, <1>7
  <2>2. AddrOf(live) \in SUBSET Addr
    BY <1>0, <1>1 DEF AddrOf, User
  <2>3. reply' \in Reply
    BY <1>0, <1>4, <2>2 DEF Reply
  <2>4. heard' \in [Addr -> Nat \cup {Never}]
    BY <1>0, <1>5 DEF TypeOK
  <2>5. QED
    BY <1>0, <2>1, <2>3, <2>4 DEF TypeOK
<1>9. Bounded'
  <2>1. CASE users' = live
    BY <1>1, <2>1 DEF Bounded
  <2>2. CASE users' = Room(live) \cup {new}
    <3>1. PICK room : room = Room(live)
      OBVIOUS
    <3>2. Cardinality(room) \in Nat
      BY <1>2, <3>1, FS_CardinalityType
    <3>3. /\ IsFiniteSet(room \cup {new})
          /\ \/ Cardinality(room \cup {new}) = Cardinality(room)
             \/ Cardinality(room \cup {new}) = Cardinality(room) + 1
      BY <1>2, <3>1, FS_AddElement
    <3>4. QED
      BY <1>2, <2>2, <3>1, <3>2, <3>3, RegistryAssumption DEF Bounded, RegistryAssumption
  <2>3. QED
    BY <1>3, <2>1, <2>2
<1>10. OneEntryPerAddress'
  <2>1. \A u, v \in live : u.addr = v.addr => u = v
    BY <1>1 DEF OneEntryPerAddress
  <2>2. CASE user_exists(live, a)
    BY <1>3, <2>1, <2>2 DEF OneEntryPerAddress
  <2>3. CASE ~user_exists(live, a)
    <3>1. \A u \in Room(live) : u.addr # new.addr
      BY <1>2, <1>6, <2>3 DEF user_exists
    <3>2. QED
      BY <1>2, <1>3, <2>1, <2>3, <3>1 DEF OneEntryPerAddress
  <2>4. QED
    BY <2>2, <2>3
<1>11. EntryWasHeard'
  <2> SUFFICES ASSUME NEW u \in users'
               PROVE  u.lastPing <= heard'[u.addr] /\ heard'[u.addr] <= clock
    BY <1>0 DEF EntryWasHeard
  <2>1. u \in User
    BY <1>0, <1>1, <1>6, <1>7
  <2>2. u.addr \in Addr /\ u.lastPing \in Nat
    BY <2>1 DEF User
  <2>3. u.lastPing <= clock
    <3>1. CASE u \in live
      <4>1. u.lastPing <= heard[u.addr] /\ heard[u.addr] <= clock
        BY <1>1, <3>1 DEF EntryWasHeard
      <4>2. heard[u.addr] \in Int
        BY <2>2 DEF TypeOK, Never
      <4>3. QED
        BY <1>0, <2>2, <4>1, <4>2
    <3>2. CASE u = new
      BY <1>0, <1>6, <3>2
    <3>3. QED
      BY <1>7, <3>1, <3>2
  <2>4. CASE u.addr = a
    <3>1. heard'[u.addr] = clock
      BY <1>5, <2>2, <2>4 DEF TypeOK
    <3>2. QED
      BY <1>0, <2>3, <3>1
  <2>5. CASE u.addr # a
    <3>1. u \in users
      BY <1>1, <1>6, <1>7, <2>5
    <3>2. heard'[u.addr] = heard[u.addr]
      BY <1>5, <2>2, <2>5 DEF TypeOK
    <3>3. QED
      BY <3>1, <3>2 DEF EntryWasHeard
  <2>6. QED
    BY <2>4, <2>5
<1>12. ReplyMatchesRegistry'
  <2>0. reply'.to = a /\ reply'.list = AddrOf(live)
    BY <1>4
  <2>1. CASE user_exists(live, a)
    <3>1. users' = live /\ a \in AddrOf(live)
      BY <1>3, <2>1 DEF user_exists, AddrOf
    <3>2. AddrOf(users)' = reply'.list \cup {reply'.to}
      BY <2>0, <3>1 DEF AddrOf
    <3>3. QED
      BY <3>2 DEF ReplyMatchesRegistry
  <2>2. CASE ~user_exists(live, a) /\ Cardinality(live) > MaxUsers
    <3>1. users' = {new}
      BY <1>3, <2>2 DEF Room
    <3>2. AddrOf(users)' = {reply'.to}
      BY <1>6, <2>0, <3>1 DEF AddrOf
    <3>3. \A u, v \in live : u.addr = v.addr => u = v
      BY <1>1 DEF OneEntryPerAddress
    <3>4. Cardinality(AddrOf(live)) = Cardinality(live)
      BY <1>1, <3>3, ListHasOnePerEntry
    <3>5. QED
      BY <2>0, <2>2, <3>2, <3>4 DEF ReplyMatchesRegistry
  <2>3. CASE ~user_exists(live, a) /\ ~(Cardinality(live) > MaxUsers)
    <3>1. users' = live \cup {new}
      BY <1>3, <2>3 DEF Room
    <3>2. AddrOf(users)' = reply'.list \cup {reply'.to}
      BY <1>6, <2>0, <3>1 DEF AddrOf
    <3>3. QED
      BY <3>2 DEF ReplyMatchesRegistry
  <2>4. QED
    BY <2>1, <2>2, <2>3
<1>13. ListedWereHeard'
  <2> SUFFICES ASSUME NEW b \in AddrOf(live)
               PROVE  heard'[b] >= clock - Timeout
    BY <1>4 DEF ListedWereHeard
  <2>1. PICK u \in live : u.addr = b
    BY DEF AddrOf
  <2>2. u \in users /\ u.addr \in Addr /\ u.lastPing \in Nat
    BY <1>0, <1>1 DEF User
  <2>3. ~(clock - u.lastPing > Timeout)
    BY DEF live, delByPing, Expired
  <2>4. u.lastPing <= heard[b] /\ heard[b] \in Int /\ heard[b] <= clock
    BY <2>1, <2>2 DEF EntryWasHeard, TypeOK, Never
  <2>5. heard'[b] = clock \/ heard'[b] = heard[b]
    BY <1>5, <2>1, <2>2 DEF TypeOK
  <2>6. QED
    BY <1>0, <2>2, <2>3, <2>4, <2>5, RegistryAssumption DEF RegistryAssumption
<1>14. QED
  BY <1>8, <1>9, <1>10, <1>11, <1>12, <1>13

(* Every step of the server keeps the inductive invariant. *)
LEMMA StepKeepsInv == RegistryInv /\ [Next]_vars => RegistryInv'
<1> SUFFICES ASSUME RegistryInv, [Next]_vars PROVE RegistryInv'
  OBVIOUS
<1>1. CASE Tick
  BY <1>1, TickKeepsInv
<1>2. CASE \E a \in Addr : Datagram(a)
  BY <1>2, DatagramKeepsInv
<1>3. CASE UNCHANGED vars
  BY <1>3 DEF vars, RegistryInv, TypeOK, Bounded, OneEntryPerAddress,
     EntryWasHeard, ReplyMatchesRegistry, ListedWereHeard, AddrOf
<1>4. QED
  BY <1>1, <1>2, <1>3 DEF Next

LEMMA RegistryInvariant == Spec => []RegistryInv
BY InitRegistryInv, StepKeepsInv, PTL DEF Spec

-----------------------------------------------------------------------------
(* The registry's variables keep their types: entries pair an address with *)
(* a ping time, answers go to an address and list addresses.               *)
THEOREM TypeCorrect == Spec => []TypeOK
BY RegistryInvariant, PTL DEF RegistryInv

(* However datagrams and expiries interleave, the vector of serv_thread    *)
(* never holds more than one user over the limit it tests before a push.   *)
THEOREM RegistryIsBounded == Spec => []Bounded
BY RegistryInvariant, PTL DEF RegistryInv

(* No address is ever entered twice, although an entry is pushed after the *)
(* scan that looks for it and the registry may be emptied in between.      *)
THEOREM AddressesAreUnique == Spec => []OneEntryPerAddress
BY RegistryInvariant, PTL DEF RegistryInv

(* After every datagram the registry holds the sender together with the    *)
(* addresses it was sent, or the sender alone after an overflow.           *)
THEOREM AnswerMatchesRegistry == Spec => []ReplyMatchesRegistry
BY RegistryInvariant, PTL DEF RegistryInv

(* A client is only ever told of peers that the server has heard from      *)
(* within the timeout.                                                     *)
THEOREM AnswerIsFresh == Spec => []ListedWereHeard
BY RegistryInvariant, PTL DEF RegistryInv

(* An entry leaves the registry only when it is older than the timeout or  *)
(* when a newcomer finds the registry over its limit.                      *)
THEOREM NoEntryLeavesWithoutReason == Spec => EntryLeavesForAReason
<1> DEFINE Reason == \A u \in users \ users' :
                        \/ Expired(u, clock)
                        \/ /\ Cardinality(delByPing(clock)) > MaxUsers
                           /\ reply'.to \notin AddrOf(delByPing(clock))
<1>1. ASSUME [Next]_vars PROVE [Reason]_vars
  <2>1. CASE Tick
    BY <2>1 DEF Tick
  <2>2. ASSUME NEW a \in Addr, Datagram(a) PROVE Reason
    <3> SUFFICES ASSUME NEW u \in users, u \notin users', ~Expired(u, clock)
                 PROVE  /\ Cardinality(delByPing(clock)) > MaxUsers
                        /\ reply'.to \notin AddrOf(delByPing(clock))
      OBVIOUS
    <3>1. u \in delByPing(clock)
      BY DEF delByPing
    <3>2. ~user_exists(delByPing(clock), a) /\ u \notin Room(delByPing(clock))
      BY <2>2, <3>1 DEF Datagram, Registry
    <3>3. reply'.to = a
      BY <2>2 DEF Datagram
    <3>4. QED
      BY <3>1, <3>2, <3>3 DEF Room, user_exists, AddrOf
  <2>3. QED
    BY <1>1, <2>1, <2>2 DEF Next
<1>2. QED
  BY <1>1, PTL DEF Spec, EntryLeavesForAReason

(* The registry with its clock, ping times and limit implements the        *)
(* abstract directory: every datagram is an announcement, every tick a     *)
(* stutter.                                                                *)
THEOREM RegistryImplementsDirectory == Spec => ImplementsDirectory
<1>1. Init => Directory!Init
  BY DEF Init, Directory!Init, AddrOf, NoReply
<1>2. ASSUME RegistryInv, RegistryInv', [Next]_vars
      PROVE  [Directory!Next]_(Directory!vars)
  <2>1. CASE Tick \/ UNCHANGED vars
    BY <2>1 DEF Tick, vars, Directory!vars, AddrOf
  <2>2. ASSUME NEW a \in Addr, Datagram(a) PROVE Directory!Announce(a)
    <3> DEFINE live == delByPing(clock)
    <3>1. live \subseteq users /\ Room(live) \subseteq live
      BY DEF delByPing, Room
    <3>2. reply'.list = AddrOf(live)
      BY <2>2 DEF Datagram, List
    <3>3. AddrOf(live) \in SUBSET AddrOf(users)
      BY <3>1 DEF AddrOf
    <3>4. AddrOf(users)' \in {kept \cup {a} : kept \in SUBSET AddrOf(live)}
      <4>1. CASE user_exists(live, a)
        <5>1. AddrOf(users)' = AddrOf(live) /\ a \in AddrOf(live)
          BY <2>2, <4>1 DEF Datagram, Registry, AddrOf, user_exists
        <5>2. QED
          BY <5>1
      <4>2. CASE ~user_exists(live, a)
        <5>1. users' = Room(live) \cup {NewUser(a, clock)}
          BY <2>2, <4>2 DEF Datagram, Registry
        <5>2. AddrOf(users)' = AddrOf(Room(live)) \cup {a}
          <6>1. PICK room : room = Room(live)
            OBVIOUS
          <6>2. NewUser(a, clock).addr = a
            BY DEF NewUser
          <6>3. AddrOf(room \cup {NewUser(a, clock)}) = AddrOf(room) \cup {a}
            BY <6>2 DEF AddrOf
          <6>4. QED
            BY <5>1, <6>1, <6>3 DEF AddrOf
        <5>3. AddrOf(Room(live)) \in SUBSET AddrOf(live)
          BY <3>1 DEF AddrOf
        <5>4. QED
          BY <5>2, <5>3
      <4>3. QED
        BY <4>1, <4>2
    <3>5. Cardinality(AddrOf(users)') <= MaxUsers + 1
      <4>1. /\ IsFiniteSet(users')
            /\ \A u, v \in users' : u.addr = v.addr => u = v
            /\ Cardinality(users') <= MaxUsers + 1
        BY <1>2 DEF RegistryInv, Bounded, OneEntryPerAddress
      <4>2. Cardinality(AddrOf(users')) = Cardinality(users')
        BY <4>1, ListHasOnePerEntry
      <4>3. AddrOf(users)' = AddrOf(users')
        BY DEF AddrOf
      <4>4. QED
        BY <4>1, <4>2, <4>3
    <3>6. Directory!Cardinality(AddrOf(users)') = Cardinality(AddrOf(users)')
      BY DEF Cardinality, Directory!Cardinality
    <3>7. QED
      BY <3>2, <3>3, <3>4, <3>5, <3>6 DEF Directory!Announce
  <2>3. QED
    BY <1>2, <2>1, <2>2 DEF Next, Directory!Next
<1>3. QED
  BY <1>1, <1>2, RegistryInvariant, PTL
     DEF Spec, ImplementsDirectory, Directory!Spec
=============================================================================
