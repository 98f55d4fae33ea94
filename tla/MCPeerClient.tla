----------------------------- MODULE MCPeerClient -----------------------------
(* Two clients; every timeout is short enough to expire between two rounds. *)
EXTENDS PeerClient, TLC

CONSTANTS k1, k2

MCClients == {k1, k2}

(* The clients are interchangeable in every property of the run. *)
MCSymmetry == Permutations(MCClients)
===============================================================================
