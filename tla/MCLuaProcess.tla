----------------------------- MODULE MCLuaProcess -----------------------------
(* Instance of LuaProcess: a file like the one in the repository, and one    *)
(* of 256 coins whose port leaves room for a single entry in the copy.       *)
EXTENDS LuaProcess

MCInis == {[coins |-> 2, len |-> 30, port |-> 200],
           [coins |-> 256, len |-> 30, port |-> 0]}

(* Coins and requests share nothing but the threads: a behaviour has one of  *)
(* them.  What RpcAnswerIsOwn says of requests ends where the threads meet.  *)
Apart ==
    \/ \A t \in Threads : answer[t] = None /\ pc[t] # "rpc"
    \/ /\ alone
       /\ main = None /\ coin = [inited |-> TRUE, count |-> 2, id |-> 1] /\ lookup = None
===============================================================================
