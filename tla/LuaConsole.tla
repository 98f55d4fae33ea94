------------------------------ MODULE LuaConsole ------------------------------
(***************************************************************************)
(* The Lua console (luaServer, src/libbacteria/lua/luaserv.c): it serves   *)
(* one client at a time, runs every message as a Lua script with the       *)
(* process's stdout reopened on a temporary file, sends the file back, and *)
(* gives stdout back to the process when the client leaves.                *)
(*                                                                         *)
(* What can go wrong is in the descriptor table, which the console shares  *)
(* with the server thread: a new descriptor is always the lowest free one, *)
(* and 1 is free as soon as stdout has been closed.  The texts of scripts  *)
(* and answers are left out.  C streams are modelled after glibc: freopen  *)
(* keeps the descriptor number of an open stream, fclose on the first      *)
(* stdout only closes it, on a stream of fdopen it also frees it.          *)
(***************************************************************************)
EXTENDS Integers, FiniteSets

CONSTANTS MaxFd,         \* the largest descriptor the process may hold
          MAXERRACCEPT,  \* accept errors after which the console gives up
          MaxSessions,   \* bound on the clients served
          MaxPeers       \* bound on the server thread's open connections

ASSUME ConsoleAssumption ==
    /\ MaxFd \in Nat /\ MaxFd >= 4
    /\ MAXERRACCEPT \in Nat
    /\ MaxSessions \in Nat
    /\ MaxPeers \in Nat

VARIABLES pc,         \* where the console thread is
          fds,        \* the process's descriptor table: what each refers to
          stdout,     \* the C stream: its descriptor and its kind
          stdout_,    \* the descriptor dup returned for this session
          csocket,    \* the accepted socket
          tmp1,       \* the descriptor of the stream that reads the file
          err_count,  \* accept errors
          sessions    \* clients accepted so far

vars == <<pc, fds, stdout, stdout_, csocket, tmp1, err_count, sessions>>

Fd == 0 .. MaxFd
None == -1

(* What a descriptor may refer to: stdin, stderr and the listening sockets *)
(* (own), the terminal or log the process was started with, the temporary  *)
(* file, the console's client, a connection of the server thread, or a     *)
(* second descriptor of one of the last two that dup made.                 *)
Object == {"free", "own", "tty", "file", "client", "peer", "clientDup", "peerDup"}

Duplicate(o) ==
    CASE o = "client" -> "clientDup"
      [] o = "peer" -> "peerDup"
      [] OTHER -> o

Free == {f \in Fd : fds[f] = "free"}

(* The number open, dup and accept return: the lowest free one. *)
Lowest == IF Free = {} THEN None ELSE CHOOSE f \in Free : \A g \in Free : f <= g

(* err_count is never initialised: any value. *)
Init ==
    /\ pc = "listen"
    /\ fds = [f \in Fd |-> IF f = 1 THEN "tty" ELSE IF f <= 2 THEN "own" ELSE "free"]
    /\ stdout = [fd |-> 1, kind |-> "static"]
    /\ stdout_ = None /\ csocket = None /\ tmp1 = None
    /\ err_count \in 0 .. MAXERRACCEPT + 2
    /\ sessions = 0

Crash ==
    /\ pc' = "crashed"
    /\ UNCHANGED <<fds, stdout, stdout_, csocket, tmp1, err_count, sessions>>

(* luaServInit: socket, bind and listen, or the thread ends. *)
luaServInit ==
    /\ pc = "listen"
    /\ \/ pc' = "accept" /\ Lowest # None /\ fds' = [fds EXCEPT ![Lowest] = "own"]
       \/ pc' = "done" /\ UNCHANGED fds
    /\ UNCHANGED <<stdout, stdout_, csocket, tmp1, err_count, sessions>>

(* accept: it fails when the descriptor table is full. *)
Accept ==
    /\ pc = "accept" /\ sessions < MaxSessions
    /\ csocket' = Lowest
    /\ fds' = IF Lowest = None THEN fds ELSE [fds EXCEPT ![Lowest] = "client"]
    /\ sessions' = sessions + 1
    /\ pc' = "dup"
    /\ UNCHANGED <<stdout, stdout_, tmp1, err_count>>

(* Mutant of Dup: the counter is decreased without looking at it. *)
DupUnderflow ==
    /\ pc = "dup"
    /\ stdout_' = IF fds[1] = "free" THEN None ELSE Lowest
    /\ fds' = IF stdout_' = None THEN fds ELSE [fds EXCEPT ![Lowest] = Duplicate(fds[1])]
    /\ err_count' = IF csocket = None THEN err_count + 1 ELSE err_count - 1
    /\ pc' = IF err_count' > MAXERRACCEPT THEN "done" ELSE "recv"
    /\ UNCHANGED <<stdout, csocket, tmp1, sessions>>

(* stdout_ = dup(STDOUT_FILENO), then the count of accept errors.  The     *)
(* break leaves both descriptors open.                                     *)
Dup ==
    /\ pc = "dup"
    /\ stdout_' = IF fds[1] = "free" THEN None ELSE Lowest
    /\ fds' = IF stdout_' = None THEN fds ELSE [fds EXCEPT ![Lowest] = Duplicate(fds[1])]
    /\ err_count' = IF csocket = None THEN err_count + 1
                    ELSE IF err_count > 0 THEN err_count - 1 ELSE 0
    /\ pc' = IF err_count' > MAXERRACCEPT THEN "done" ELSE "recv"
    /\ UNCHANGED <<stdout, csocket, tmp1, sessions>>

(* recv: a message, or -1 (which the size_t msg_size turns into a positive *)
(* number) after a reset and always without a socket; 0 ends the session.  *)
Recv ==
    /\ pc = "recv"
    /\ \/ pc' = "reopen"
       \/ csocket # None /\ pc' = "end"
    /\ UNCHANGED <<fds, stdout, stdout_, csocket, tmp1, err_count, sessions>>

(* freopen(file, "w", stdout).  An open stream keeps its number; a closed  *)
(* one takes the lowest free descriptor.  A freed stream is used after it  *)
(* was freed: the process crashes, or it works as a closed one.  If the    *)
(* file cannot be opened, for want of a descriptor or of a permission,     *)
(* freopen closes the stream and returns NULL, which fclose(tmp) will not  *)
(* survive.                                                                *)
Freopen ==
    /\ pc = "reopen"
    /\ \/ Crash
       \/ /\ Lowest # None
          /\ LET f == IF stdout.fd = None THEN Lowest ELSE stdout.fd
             IN  /\ fds' = [fds EXCEPT ![f] = "file"]
                 /\ stdout' = [stdout EXCEPT !.fd = f]
          /\ pc' = "open"
          /\ UNCHANGED <<stdout_, csocket, tmp1, err_count, sessions>>

(* tmp1 = fopen(file, "rb"), the script, and the end of its output; a NULL *)
(* tmp1 is closed all the same.                                            *)
Fopen ==
    /\ pc = "open"
    /\ \/ Crash
       \/ /\ Lowest # None
          /\ tmp1' = Lowest
          /\ fds' = [fds EXCEPT ![Lowest] = "file"]
          /\ pc' = "close"
          /\ UNCHANGED <<stdout, stdout_, csocket, err_count, sessions>>

Freed(s) == [fd |-> None, kind |-> IF s.kind = "static" THEN "static" ELSE "freed"]

(* Mutant of FcloseTmp: stdout is taken to be descriptor 1. *)
FcloseTmpIs1 ==
    /\ pc = "close"
    /\ fds' = [fds EXCEPT ![1] = "free"]
    /\ stdout' = Freed(stdout)
    /\ pc' = "close1"
    /\ UNCHANGED <<stdout_, csocket, tmp1, err_count, sessions>>

(* fclose(tmp): tmp is stdout. *)
FcloseTmp ==
    /\ pc = "close"
    /\ fds' = [fds EXCEPT ![stdout.fd] = "free"]
    /\ stdout' = Freed(stdout)
    /\ pc' = "close1"
    /\ UNCHANGED <<stdout_, csocket, tmp1, err_count, sessions>>

(* Mutant of FcloseTmp1: the reading stream is not closed. *)
FcloseTmp1Leaks ==
    /\ pc = "close1"
    /\ tmp1' = None
    /\ pc' = "clear"
    /\ UNCHANGED <<fds, stdout, stdout_, csocket, err_count, sessions>>

(* fclose(tmp1). *)
FcloseTmp1 ==
    /\ pc = "close1"
    /\ fds' = [fds EXCEPT ![tmp1] = "free"]
    /\ tmp1' = None
    /\ pc' = "clear"
    /\ UNCHANGED <<stdout, stdout_, csocket, err_count, sessions>>

(* The file is truncated through a stream of its own, opened and closed on *)
(* the spot.  The server thread may have taken the last descriptor since:  *)
(* fwrite and fclose do not survive the NULL of fopen.                     *)
Truncate ==
    /\ pc = "clear"
    /\ \/ Crash
       \/ /\ Lowest # None
          /\ pc' = "recv"
          /\ UNCHANGED <<fds, stdout, stdout_, csocket, tmp1, err_count, sessions>>

(* Mutants of EndSession: descriptor 1 is closed instead of the stream;    *)
(* the stream is not pointed at the saved descriptor.                      *)
EndSessionCloses1 ==
    /\ pc = "end"
    /\ stdout_ # None
    /\ stdout' = [fd |-> stdout_, kind |-> "heap"]
    /\ fds' = [f \in Fd |-> IF f \in {1, csocket} THEN "free" ELSE fds[f]]
    /\ pc' = "accept"
    /\ stdout_' = None /\ csocket' = None
    /\ UNCHANGED <<tmp1, err_count, sessions>>
EndSessionNoRestore ==
    /\ pc = "end"
    /\ stdout' = stdout
    /\ fds' = [f \in Fd |-> IF f = csocket THEN "free" ELSE fds[f]]
    /\ pc' = "accept"
    /\ stdout_' = None /\ csocket' = None
    /\ UNCHANGED <<tmp1, err_count, sessions>>

(* fclose(stdout), stdout = fdopen(stdout_), close(csocket).  Closing the  *)
(* stream a second time does nothing when it is the first stdout, and is a *)
(* use after free otherwise.  A failed dup leaves stdout NULL.             *)
EndSession ==
    /\ pc = "end"
    /\ \/ (stdout.kind = "freed" \/ stdout_ = None) /\ Crash
       \/ /\ stdout_ # None
          /\ stdout' = [fd |-> stdout_, kind |-> "heap"]
          /\ fds' = [f \in Fd |-> IF f \in {stdout.fd, csocket} THEN "free" ELSE fds[f]]
          /\ stdout_' = None /\ csocket' = None
          /\ pc' = "accept"
          /\ UNCHANGED <<tmp1, err_count, sessions>>
-----------------------------------------------------------------------------
(* The server thread accepts and closes connections meanwhile. *)
ServerAccepts ==
    /\ pc # "crashed" /\ Lowest # None
    /\ Cardinality({f \in Fd : fds[f] = "peer"}) < MaxPeers
    /\ fds' = [fds EXCEPT ![Lowest] = "peer"]
    /\ UNCHANGED <<pc, stdout, stdout_, csocket, tmp1, err_count, sessions>>

ServerCloses ==
    /\ pc # "crashed"
    /\ \E f \in Fd : fds[f] = "peer" /\ fds' = [fds EXCEPT ![f] = "free"]
    /\ UNCHANGED <<pc, stdout, stdout_, csocket, tmp1, err_count, sessions>>

Console ==
    \/ luaServInit \/ Accept \/ Dup \/ Recv \/ Freopen \/ Fopen
    \/ FcloseTmp \/ FcloseTmp1 \/ Truncate \/ EndSession

Next == Console \/ ServerAccepts \/ ServerCloses

Spec == Init /\ [][Next]_vars
-----------------------------------------------------------------------------
TypeOK ==
    /\ pc \in {"listen", "accept", "dup", "recv", "reopen", "open", "close",
               "close1", "clear", "end", "done", "crashed"}
    /\ fds \in [Fd -> Object]
    /\ stdout \in [fd : Fd \cup {None}, kind : {"static", "heap", "freed"}]
    /\ stdout_ \in Fd \cup {None}
    /\ csocket \in Fd \cup {None}
    /\ tmp1 \in Fd \cup {None}
    /\ err_count \in Nat
    /\ sessions \in 0 .. MaxSessions

(* The console never closes, reopens or writes over a descriptor of the    *)
(* server thread, although it gives numbers back in the middle of a        *)
(* message and the server thread picks them up.                            *)
PeersAreLeftAlone ==
    [][\A f \in Fd : fds[f] = "peer" /\ fds'[f] # "peer" => ServerCloses]_vars

(* While the console reads a client's socket or the file, the descriptor   *)
(* it holds still refers to it: no number it uses has been given away.     *)
HeldDescriptorsAreOwn ==
    /\ csocket # None => fds[csocket] = "client"
    /\ tmp1 # None => fds[tmp1] = "file"
    /\ pc \in {"open", "close"} => fds[stdout.fd] = "file"

(* Between clients the console holds no more descriptors than it started   *)
(* with: dup, freopen, fopen and the closes balance.                       *)
DescriptorsBalance ==
    pc = "accept" => Cardinality({f \in Fd : fds[f] \notin {"free", "peer"}}) <= 4

(* The first client that leaves gives the process its stdout back. *)
FirstSessionRestoresStdout ==
    pc = "accept" /\ sessions <= 1 => stdout.fd # None /\ fds[stdout.fd] = "tty"
=============================================================================
