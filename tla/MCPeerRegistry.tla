---------------------------- MODULE MCPeerRegistry ----------------------------
(* The registry with few addresses, a low limit and a short timeout, so    *)
(* that expiry, overflow and re-registration all meet.                     *)
EXTENDS PeerRegistry

CONSTANTS a1, a2, a3

MCAddr == {a1, a2, a3}
=============================================================================
