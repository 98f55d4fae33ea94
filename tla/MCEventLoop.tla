----------------------------- MODULE MCEventLoop -----------------------------
(* The event loop with two TCP clients and one UDP peer. *)
EXTENDS EventLoop, TLC

CONSTANTS c1, c2, p1

MCConns == {c1, c2}
MCPeers == {p1}

(* The two clients are interchangeable in every invariant. *)
MCSymmetry == Permutations(MCConns)

(* A handler that waits and always answers, and input too short to end     *)
(* the wait (which is also an unknown opcode).                             *)
MCKinds == {"opEvent1", "char"}

(* For liveness: one handler that answers, one that fails at end of input, *)
(* and one that returns at once.                                           *)
MCLiveKinds == {"opEvent0", "opEvent1", "pisk"}
=============================================================================
