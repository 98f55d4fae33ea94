---------------------------- MODULE PeerDirectory ----------------------------
(***************************************************************************)
(* What the UDP peer registry of the server promises to the clients that   *)
(* announce themselves to it, with the clock, the ping times and the       *)
(* layout of the registry left out: a directory of at most Capacity        *)
(* addresses.  An announcement always leaves its sender in the directory,  *)
(* may drop other members, never adds anyone else, and is answered with a  *)
(* list of addresses that were all members when the announcement came.     *)
(***************************************************************************)
EXTENDS Naturals, FiniteSets

CONSTANTS Addr,      \* the socket addresses a datagram can come from
          Capacity   \* the largest number of members

VARIABLES members,   \* the addresses in the directory
          answer     \* the list sent with the last answer

vars == <<members, answer>>

Init ==
    /\ members = {}
    /\ answer = {}

Announce(a) ==
    /\ answer' \in SUBSET members
    /\ members' \in {kept \cup {a} : kept \in SUBSET answer'}
    /\ Cardinality(members') <= Capacity

Next == \E a \in Addr : Announce(a)

Spec == Init /\ [][Next]_vars
=============================================================================
