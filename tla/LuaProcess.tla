------------------------------- MODULE LuaProcess -------------------------------
(***************************************************************************)
(* The server process around its one lua_State: main starts it             *)
(* (src/src/main.cpp, src/libbacteria/lua/afirst.c), and from then on the  *)
(* server thread (src/src/async_serv.cpp) and the console thread           *)
(* (src/libbacteria/lua/luaserv.c) run scripts in it, without a lock.      *)
(* Scripts reach the process-wide state of the C code: the cryptocoin      *)
(* table (libcrypto.c, cryptocoins.c) and the answer buffer of the         *)
(* JSON-RPC client (libjson.c, json_rpc.h).                                *)
(*                                                                         *)
(* The Lua stack is the sequence of what the two threads pushed, on top of *)
(* the last of the library tables that the luaopen functions leave; a      *)
(* function with its arguments is one value.  Calls of the Lua library are *)
(* atomic here; what their data races may do beyond that is Corrupt.  The  *)
(* sockets of both threads are modelled in EventLoop and LuaConsole.       *)
(***************************************************************************)
EXTENDS Integers, Sequences

CONSTANTS Inis,     \* configuration files: number of coins, and for the first
                    \* of them the length of its texts and its port
          Wanted,   \* positions of the coins that scripts look for
          MaxChunks \* bound on the pieces in which an RPC answer arrives

ASSUME ProcessAssumption ==
    /\ \A f \in Inis : {f.coins, f.len, f.port} \subseteq Nat /\ f.coins > 0
    /\ Wanted \subseteq Nat /\ MaxChunks \in Nat

VARIABLES process,  \* "starting", "running", "crashed", "aborted" or "exited"
          pc,       \* where each thread is
          stack,    \* the Lua stack
          flag,     \* the Lua variable server_inited
          main,     \* the table main loaded
          handle,   \* the copies of tables that scripts hold
          coin,     \* cryptocoinsinited, and the Lua variable count_cryptocoins
          lookup,   \* the last lookup of a coin
          buffer,   \* the static answer buffer: whose pieces it holds
          got,      \* pieces that arrived for the request of each thread
          answer,   \* the answer each thread was given last
          asked,    \* history: a script cleared server_inited
          alone     \* history: the threads were never in Lua at once

luaVars == <<stack, flag>>
coinVars == <<main, handle, coin, lookup>>
rpcVars == <<buffer, got, answer>>
vars == <<process, pc, luaVars, coinVars, rpcVars, asked, alone>>

Threads == {"server", "console"}
Holders == {"bacteria", "script"} \* the variable of bacteria.lua, and another
None == [kind |-> "none"]

Other(t) == IF t = "server" THEN "console" ELSE "server"
InLua(t) == pc[t] \notin {"boot", "idle", "stopped"}

(* A thread uses the Lua state. *)
Step(t, from, to) ==
    /\ process = "running" /\ pc[t] = from
    /\ pc' = [pc EXCEPT ![t] = to]
    /\ alone' = (alone /\ ~InLua(Other(t)))

Push(v) == stack' = Append(stack, v)
Top == stack[Len(stack)]
Popped == SubSeq(stack, 1, Len(stack) - 1)
Pop == stack # <<>> /\ stack' = Popped
Replace(v) == stack # <<>> /\ stack' = Append(Popped, v)
-----------------------------------------------------------------------------
(* What loadCryptocoins copies: it takes the size from the texts and the   *)
(* port of the first struct cryptocoin, of 48 bytes.                       *)
Bytes(f) == 48 + f.len + 2 * (f.port - 1)
Room(f) == Bytes(f) \div 48
ReadsPast(f) == Bytes(f) > 48 * f.coins

(* Mutant of Searched: the loop starts one lower. *)
SearchedShort(c) == 0 .. (c % 256) - 2

(* The entries getCryptocoinsTable looks at, with an unsigned char. *)
Searched(c) == 0 .. (c % 256) - 1

(* Mutant of Table: the memory is not copied. *)
TableBare(f, id) == [kind |-> "table", ini |-> None, id |-> id]

(* memcpy into a new userdata. *)
Table(f, id) == [kind |-> "table", ini |-> f, id |-> id]

(* What init_cryptocoins gives to main: the coins of a file, or NULL when  *)
(* there is none.                                                          *)
init_cryptocoins == Inis \cup {None}

(* start_lua with the init script of the repository: bacteria.init loads a *)
(* table.  An error in it is raised again outside of any protected call.   *)
Start ==
    /\ process = "starting"
    /\ \E f \in Inis, m \in init_cryptocoins :
        /\ main' = m
        /\ \/ /\ process' = "running"
              /\ handle' = [handle EXCEPT !["bacteria"] = Table(f, 1)]
              /\ coin' = [inited |-> TRUE, count |-> f.coins, id |-> 1]
           \/ /\ process' = "crashed"
              /\ UNCHANGED <<handle, coin>>
    /\ UNCHANGED <<pc, luaVars, lookup, rpcVars, asked, alone>>

(* cryptocoins.load(f): refused while a table is loaded.  A copy that      *)
(* reads past the array may end the process.                               *)
LoadCoins(t, f) ==
    /\ Step(t, "script", "script") /\ ~coin.inited
    /\ \/ /\ handle' = [handle EXCEPT !["script"] = Table(f, 2)]
          /\ coin' = [inited |-> TRUE, count |-> f.coins, id |-> 2]
          /\ process' = process
       \/ /\ ReadsPast(f) /\ process' = "crashed"
          /\ UNCHANGED <<handle, coin>>
    /\ UNCHANGED <<luaVars, main, lookup, rpcVars, asked>>

(* cryptocoins.clear(h).  The file's own count_cryptocoins is always 0:    *)
(* nothing is freed.  The function returns nothing, and LuaJIT takes what  *)
(* is in the register, 0 or half of a pointer, for the number of results.  *)
(* It copies that many of whatever lies there, and crashes at the end of   *)
(* the stack or goes on with as many as the caller wants.  (Only -1, a     *)
(* yield, would leave the script's frame behind: no aligned pointer ends   *)
(* in it.)                                                                 *)
ClearCoins(t) ==
    /\ Step(t, "script", "script")
    /\ coin' = [coin EXCEPT !.inited = FALSE]
    /\ process' \in {"running", "crashed"}
    /\ UNCHANGED <<luaVars, main, handle, lookup, rpcVars, asked>>

(* cryptocoins.gettable(h, the name of coin j of its file): the entries    *)
(* are compared from the last to the first.  One that was not copied is    *)
(* compared all the same.                                                  *)
Lookup(t, h, j) ==
    /\ Step(t, "script", "script")
    /\ handle[h] # None /\ j < handle[h].ini.coins
    /\ LET f == handle[h].ini
           read == {e \in Searched(coin.count) : e >= j}
           safe == \A e \in read : e < f.coins /\ e < Room(f)
           found == IF j \in read THEN "found" ELSE "missing"
       IN \E r \in IF safe THEN {found} ELSE {found, "missing", "crash"} :
              /\ lookup' = [kind |-> "done", of |-> handle[h],
                            current |-> handle[h].id = coin.id, result |-> r]
              /\ process' = IF r = "crash" THEN "crashed" ELSE process
    /\ UNCHANGED <<luaVars, main, handle, coin, rpcVars, asked>>
-----------------------------------------------------------------------------
(* Mutant of EmptyBuffer: an old answer is kept. *)
EmptyBufferKept == buffer

(* free and init_string. *)
EmptyBuffer == <<>>

(* rpc.request: until curl_easy_perform. *)
RpcBegin(t) ==
    /\ Step(t, "script", "rpc")
    /\ buffer' = EmptyBuffer
    /\ got' = [got EXCEPT ![t] = 0]
    /\ UNCHANGED <<process, luaVars, coinVars, answer, asked>>

(* writefunc. *)
RpcPiece(t) ==
    /\ Step(t, "rpc", "rpc") /\ got[t] < MaxChunks
    /\ buffer' = Append(buffer, t)
    /\ got' = [got EXCEPT ![t] = @ + 1]
    /\ UNCHANGED <<process, luaVars, coinVars, answer, asked>>

(* The request ended, whether it failed or not: the buffer is the answer. *)
RpcEnd(t) ==
    /\ Step(t, "rpc", "script")
    /\ answer' = [answer EXCEPT ![t] = [text |-> buffer, pieces |-> got[t]]]
    /\ UNCHANGED <<process, luaVars, coinVars, buffer, got, asked>>

(* A script assigns to server_inited. *)
SetFlag(t, v) ==
    /\ Step(t, "script", "script")
    /\ flag' = v
    /\ asked' = (asked \/ v # "true")
    /\ UNCHANGED <<process, stack, coinVars, rpcVars>>
-----------------------------------------------------------------------------
(* The server thread sets server_inited, and pops once too often: one of   *)
(* the tables that start_lua left goes.                                    *)
Boot ==
    /\ Step("server", "boot", "idle")
    /\ Pop
    /\ flag' = "true"
    /\ UNCHANGED <<process, coinVars, rpcVars, asked>>

(* A TCP message: lua_getglobal, *)
GetStatus ==
    /\ Step("server", "idle", "status")
    /\ Push(flag)
    /\ UNCHANGED <<process, flag, coinVars, rpcVars, asked>>

(* lua_toboolean and lua_pop.  The thread ends if the value is not true. *)
ReadStatus ==
    /\ stack # <<>>
    /\ Step("server", "status", IF Top \in {"nil", "false"} THEN "stopped" ELSE "event")
    /\ Pop
    /\ UNCHANGED <<process, flag, coinVars, rpcVars, asked>>

(* The handler is pushed and called. *)
RunEvent ==
    /\ Step("server", "event", "script")
    /\ Push("call")
    /\ UNCHANGED <<process, flag, coinVars, rpcVars, asked>>

(* It returned its result, or an error that nothing catches. *)
EndEvent ==
    /\ Step("server", "script", "result")
    /\ \/ Replace("result") /\ process' = process
       \/ process' = "crashed" /\ UNCHANGED stack
    /\ UNCHANGED <<flag, coinVars, rpcVars, asked>>

PopResult ==
    /\ Step("server", "result", "idle")
    /\ Pop
    /\ UNCHANGED <<process, flag, coinVars, rpcVars, asked>>

(* A line for the console: luaL_loadbuffer leaves a chunk or a message. *)
LoadLine ==
    /\ \/ Step("console", "idle", "loaded") /\ Push("chunk")
       \/ Step("console", "idle", "failed") /\ Push("error")
    /\ UNCHANGED <<process, flag, coinVars, rpcVars, asked>>

(* lua_pcall calls what is on top, if it can be called. *)
RunLine ==
    /\ stack # <<>>
    /\ \/ Top \in {"chunk", "call"} /\ Step("console", "loaded", "script")
          /\ UNCHANGED stack
       \/ Top \notin {"chunk", "call"} /\ Step("console", "loaded", "failed")
          /\ Replace("error")
    /\ UNCHANGED <<process, flag, coinVars, rpcVars, asked>>

EndLine ==
    /\ \/ Step("console", "script", "idle") /\ Pop
       \/ Step("console", "script", "failed") /\ Replace("error")
    /\ UNCHANGED <<process, flag, coinVars, rpcVars, asked>>

(* Mutant of PopError: the message is left on the stack. *)
PopErrorNot ==
    /\ Step("console", "failed", "idle")
    /\ UNCHANGED <<process, luaVars, coinVars, rpcVars, asked>>

(* The message is sent and popped. *)
PopError ==
    /\ Step("console", "failed", "idle")
    /\ Pop
    /\ UNCHANGED <<process, flag, coinVars, rpcVars, asked>>

(* Too many failures of accept end the console. *)
EndConsole ==
    /\ process = "running" /\ pc["console"] = "idle"
    /\ pc' = [pc EXCEPT !["console"] = "stopped"]
    /\ UNCHANGED <<process, luaVars, coinVars, rpcVars, asked, alone>>

(* Two threads in the Lua state at once may do anything to it. *)
Corrupt ==
    /\ process = "running" /\ \A t \in Threads : InLua(t)
    /\ process' = "crashed" /\ alone' = FALSE
    /\ UNCHANGED <<pc, luaVars, coinVars, rpcVars, asked>>

(* Both threads are joined: clear_cryptocoins, which frees rpchost twice   *)
(* for every entry it reaches, then lua_close.                             *)
Shutdown ==
    /\ process = "running" /\ \A t \in Threads : pc[t] = "stopped"
    /\ process' = IF main = None THEN "crashed"
                  ELSE IF main.port # 0 THEN "aborted" ELSE "exited"
    /\ UNCHANGED <<pc, luaVars, coinVars, rpcVars, asked, alone>>
-----------------------------------------------------------------------------
Init ==
    /\ process = "starting"
    /\ pc = [t \in Threads |-> IF t = "server" THEN "boot" ELSE "idle"]
    /\ stack = <<"table">> /\ flag = "nil"
    /\ main = None /\ handle = [h \in Holders |-> None]
    /\ coin = [inited |-> FALSE, count |-> 0, id |-> 0]
    /\ lookup = None
    /\ buffer = <<>> /\ got = [t \in Threads |-> 0]
    /\ answer = [t \in Threads |-> None]
    /\ asked = FALSE /\ alone = TRUE

Script(t) ==
    \/ \E f \in Inis : LoadCoins(t, f)
    \/ ClearCoins(t)
    \/ \E h \in Holders, j \in Wanted : Lookup(t, h, j)
    \/ RpcBegin(t) \/ RpcPiece(t) \/ RpcEnd(t)
    \/ \E v \in {"true", "false", "nil"} : SetFlag(t, v)

Server == Boot \/ GetStatus \/ ReadStatus \/ RunEvent \/ EndEvent \/ PopResult
Console == LoadLine \/ RunLine \/ EndLine \/ PopError \/ EndConsole

Next ==
    \/ Start \/ Shutdown \/ Corrupt
    \/ Server \/ Console
    \/ \E t \in Threads : Script(t)

Spec == Init /\ [][Next]_vars
-----------------------------------------------------------------------------
(* The variables keep their types. *)
TypeOK ==
    /\ process \in {"starting", "running", "crashed", "aborted", "exited"}
    /\ pc["server"] \in {"boot", "idle", "status", "event", "script", "rpc",
                         "result", "stopped"}
    /\ pc["console"] \in {"idle", "loaded", "script", "rpc", "failed", "stopped"}
    /\ stack \in Seq({"table", "nil", "true", "false", "chunk", "call", "result",
                      "error"})
    /\ flag \in {"nil", "true", "false"}
    /\ main \in Inis \cup {None}
    /\ \A h \in Holders : handle[h] = None \/ handle[h].ini \in Inis
    /\ coin.inited \in BOOLEAN /\ coin.count \in Nat
    /\ buffer \in Seq(Threads) /\ got \in [Threads -> 0 .. MaxChunks]
    /\ asked \in BOOLEAN /\ alone \in BOOLEAN

AtRest == \A t \in Threads : ~InLua(t)

(* As long as the threads were never in the Lua state at once, every call  *)
(* leaves the stack as it found it, whichever way it ended, and the server *)
(* has stopped only if a script cleared server_inited.                     *)
UndisturbedRuns ==
    alone => /\ AtRest => stack = IF pc["server"] = "boot" THEN <<"table">> ELSE <<>>
             /\ pc["server"] = "stopped" => asked

(* As long as the threads were never in the Lua state at once, the answer  *)
(* of an RPC request is made of the pieces that arrived for it, of all of  *)
(* them and of no earlier or other request, though the buffer is shared.   *)
RpcAnswerIsOwn ==
    alone => \A t \in Threads :
        answer[t] # None => answer[t].text = [i \in 1 .. answer[t].pieces |-> t]

(* A coin of the file that was loaded last is found in its table, by       *)
(* whichever thread and after whatever was cleared, if there are fewer     *)
(* than 256 of them and the copy has room for all.                         *)
LookupFinds ==
    lookup # None /\ lookup.current
        /\ lookup.of.ini.coins < 256 /\ lookup.of.ini.coins <= Room(lookup.of.ini)
    => lookup.result = "found"
================================================================================
