---------------------------- MODULE LuaProcessProofs ----------------------------
(***************************************************************************)
(* Proofs about the process around its one lua_State, for every set of     *)
(* configuration files, of coins looked for and every number of pieces of  *)
(* an RPC answer.                                                          *)
(***************************************************************************)
EXTENDS LuaProcess, SequenceTheorems, TLAPS

Values == {"table", "nil", "true", "false", "chunk", "call", "result", "error"}

(* What was pushed is popped again. *)
LEMMA PushPop ==
    ASSUME NEW s \in Seq(Values), NEW v \in Values
    PROVE  /\ Append(s, v) \in Seq(Values)
           /\ Append(s, v) # <<>>
           /\ Append(s, v)[Len(Append(s, v))] = v
           /\ SubSeq(Append(s, v), 1, Len(Append(s, v)) - 1) = s
<1> DEFINE a == Append(s, v)
<1>1. /\ a \in Seq(Values) /\ a # <<>> /\ Len(a) = Len(s) + 1
      /\ a[Len(s) + 1] = v /\ \A i \in 1 .. Len(s) : a[i] = s[i]
  BY AppendProperties
<1> HIDE DEF a
<1>2. Len(s) \in Nat /\ \A i \in 1 .. Len(s) : s[i] \in Values
  OBVIOUS
<1>3. /\ SubSeq(a, 1, Len(s)) \in Seq(Values) /\ Len(SubSeq(a, 1, Len(s))) = Len(s)
      /\ \A i \in 1 .. Len(s) : SubSeq(a, 1, Len(s))[i] = s[i]
  <2>1. \A i \in 1 .. Len(s) : a[i] \in Values
    BY <1>1, <1>2
  <2>2. /\ SubSeq(a, 1, Len(s)) \in Seq(Values)
        /\ Len(SubSeq(a, 1, Len(s))) = IF 1 <= Len(s) THEN Len(s) - 1 + 1 ELSE 0
        /\ \A i \in 1 .. Len(s) - 1 + 1 : SubSeq(a, 1, Len(s))[i] = a[1 + i - 1]
    BY <1>2, <2>1, SubSeqProperties
  <2> QED BY <1>1, <1>2, <2>2
<1>4. SubSeq(a, 1, Len(s)) = s
  BY <1>3, SeqEqual
<1>5. Len(a) - 1 = Len(s)
  BY <1>1, <1>2
<1> QED BY <1>1, <1>4, <1>5 DEF a

(* The two stacks the threads find at rest. *)
LEMMA EmptyAndTable ==
    /\ <<>> \in Seq(Values)
    /\ <<"table">> = Append(<<>>, "table")
    /\ <<"table">> \in Seq(Values)
BY DEF Values
-----------------------------------------------------------------------------
(* While one thread at most is in Lua, the places of both determine the    *)
(* stack.                                                                  *)
Base == IF pc["server"] = "boot" THEN <<"table">> ELSE <<>>

StackShape ==
    /\ AtRest => stack = Base
    /\ pc["server"] = "status" => stack = Append(Base, flag)
    /\ pc["server"] = "event" => stack = Base
    /\ pc["server"] \in {"script", "rpc"} => stack = Append(Base, "call")
    /\ pc["server"] = "result" => \E v \in {"call", "result"} : stack = Append(Base, v)
    /\ pc["console"] \in {"loaded", "script", "rpc"} => stack = Append(Base, "chunk")
    /\ pc["console"] = "failed" => stack = Append(Base, "error")

Places ==
    /\ pc = [t \in Threads |-> pc[t]]
    /\ pc["server"] \in {"boot", "idle", "status", "event", "script", "rpc",
                         "result", "stopped"}
    /\ pc["console"] \in {"idle", "loaded", "script", "rpc", "failed", "stopped"}

(* server_inited differs from true only before the server has set it, or   *)
(* where a script has assigned to it.                                      *)
FlagExplained ==
    /\ flag \in {"nil", "true", "false"}
    /\ pc["server"] # "boot" /\ flag # "true" => asked
    /\ alone /\ pc["server"] = "stopped" => asked

StackInv ==
    /\ Places
    /\ FlagExplained
    /\ alone => /\ \E t \in Threads : ~InLua(t)
                /\ StackShape

(* The stack that start_lua leaves satisfies the invariant. *)
LEMMA StackInit == Init => StackInv
BY DEF Init, StackInv, Places, FlagExplained, StackShape, AtRest, InLua, Threads, Base

ServerPlaces == {"boot", "idle", "status", "event", "script", "rpc", "result", "stopped"}
ConsolePlaces == {"idle", "loaded", "script", "rpc", "failed", "stopped"}

(* Where a step of the server thread leaves the threads. *)
LEMMA ServerMoves ==
    ASSUME StackInv, NEW from, NEW to \in ServerPlaces, Step("server", from, to)
    PROVE  /\ pc["server"] = from /\ pc'["server"] = to /\ pc'["console"] = pc["console"]
           /\ Places'
           /\ alone' => alone /\ pc["console"] \in {"idle", "stopped"}
BY DEF StackInv, Places, Step, Other, InLua, Threads, ServerPlaces

(* Where a step of the console leaves the threads. *)
LEMMA ConsoleMoves ==
    ASSUME StackInv, NEW from, NEW to \in ConsolePlaces, Step("console", from, to)
    PROVE  /\ pc["console"] = from /\ pc'["console"] = to /\ pc'["server"] = pc["server"]
           /\ Places'
           /\ alone' => alone /\ pc["server"] \in {"boot", "idle", "stopped"}
BY DEF StackInv, Places, Step, Other, InLua, Threads, ConsolePlaces

(* The stack at rest is a sequence of values. *)
LEMMA BaseType == Base \in Seq(Values)
BY EmptyAndTable DEF Base

(* The server thread keeps the invariant. *)
LEMMA ServerStep == StackInv /\ Server => StackInv'
<1> SUFFICES ASSUME StackInv, Server PROVE StackInv'
  OBVIOUS
<1> USE DEF ServerPlaces, Values
<1>1. CASE Boot
  <2>1. Step("server", "boot", "idle") /\ stack' = Popped /\ flag' = "true" /\ asked' = asked
    BY <1>1 DEF Boot, Pop
  <2>2. /\ pc'["server"] = "idle" /\ pc'["console"] = pc["console"] /\ Places'
        /\ alone' => alone /\ pc["console"] \in {"idle", "stopped"} /\ pc["server"] = "boot"
    BY <2>1, ServerMoves
  <2>3. ASSUME alone' PROVE stack' = <<>>
    <3>1. stack = <<"table">>
      BY <2>2, <2>3 DEF StackInv, StackShape, AtRest, Base, Threads, InLua
    <3> QED BY <2>1, <3>1, EmptyAndTable, PushPop DEF Popped
  <2> QED BY <2>1, <2>2, <2>3 DEF StackInv, StackShape, FlagExplained, AtRest, Base, Threads, InLua
<1>2. CASE GetStatus
  <2>1. Step("server", "idle", "status") /\ stack' = Append(stack, flag) /\ flag' = flag /\ asked' = asked
    BY <1>2 DEF GetStatus, Push
  <2>2. /\ pc["server"] = "idle" /\ pc'["server"] = "status" /\ pc'["console"] = pc["console"] /\ Places'
        /\ alone' => alone /\ pc["console"] \in {"idle", "stopped"}
    BY <2>1, ServerMoves
  <2>3. ASSUME alone' PROVE stack = <<>>
    BY <2>2, <2>3 DEF StackInv, StackShape, AtRest, Base, Threads, InLua
  <2> QED BY <2>1, <2>2, <2>3 DEF StackInv, StackShape, FlagExplained, AtRest, Base, Threads, InLua
<1>3. CASE ReadStatus
  <2> DEFINE to == IF Top \in {"nil", "false"} THEN "stopped" ELSE "event"
  <2>1. Step("server", "status", to) /\ stack' = Popped /\ flag' = flag /\ asked' = asked
    BY <1>3 DEF ReadStatus, Pop
  <2>0. to \in {"stopped", "event"}
    OBVIOUS
  <2>2. /\ pc["server"] = "status" /\ pc'["server"] = to /\ pc'["console"] = pc["console"] /\ Places'
        /\ alone' => alone /\ pc["console"] \in {"idle", "stopped"}
    <3> HIDE DEF to
    <3> QED BY <2>0, <2>1, ServerMoves
  <2>3. ASSUME alone' PROVE stack' = <<>> /\ Top = flag
    <3>1. stack = Append(<<>>, flag)
      BY <2>2, <2>3 DEF StackInv, StackShape, Base
    <3>2. flag \in Values
      BY DEF StackInv, FlagExplained
    <3> QED BY <2>1, <3>1, <3>2, EmptyAndTable, PushPop DEF Popped, Top
  <2>4. ASSUME alone', pc'["server"] = "stopped" PROVE asked
    <3>1. flag \in {"nil", "false"}
      BY <2>2, <2>3, <2>4
    <3> QED BY <3>1, <2>2 DEF StackInv, FlagExplained
  <2> HIDE DEF to
  <2>5. FlagExplained'
    BY <2>0, <2>1, <2>2, <2>4 DEF StackInv, FlagExplained
  <2> QED BY <2>0, <2>2, <2>3, <2>5 DEF StackInv, StackShape, AtRest, Base, Threads, InLua
<1>4. CASE RunEvent
  <2>1. Step("server", "event", "script") /\ stack' = Append(stack, "call") /\ flag' = flag /\ asked' = asked
    BY <1>4 DEF RunEvent, Push
  <2>2. /\ pc["server"] = "event" /\ pc'["server"] = "script" /\ pc'["console"] = pc["console"] /\ Places'
        /\ alone' => alone /\ pc["console"] \in {"idle", "stopped"}
    BY <2>1, ServerMoves
  <2> QED BY <2>1, <2>2 DEF StackInv, StackShape, FlagExplained, AtRest, Base, Threads, InLua
<1>5. CASE EndEvent
  <2>1. /\ Step("server", "script", "result") /\ flag' = flag /\ asked' = asked
        /\ stack' = stack \/ stack' = Append(Popped, "result")
    BY <1>5 DEF EndEvent, Replace
  <2>2. /\ pc["server"] = "script" /\ pc'["server"] = "result" /\ pc'["console"] = pc["console"] /\ Places'
        /\ alone' => alone /\ pc["console"] \in {"idle", "stopped"}
    BY <2>1, ServerMoves
  <2>3. ASSUME alone' PROVE stack = Append(<<>>, "call") /\ Popped = <<>>
    <3>1. stack = Append(<<>>, "call")
      BY <2>2, <2>3 DEF StackInv, StackShape, Base
    <3>2. SubSeq(Append(<<>>, "call"), 1, Len(Append(<<>>, "call")) - 1) = <<>>
      BY EmptyAndTable, PushPop
    <3> QED BY <3>1, <3>2 DEF Popped
  <2> QED BY <2>1, <2>2, <2>3 DEF StackInv, StackShape, FlagExplained, AtRest, Base, Threads, InLua
<1>6. CASE PopResult
  <2>1. Step("server", "result", "idle") /\ stack' = Popped /\ flag' = flag /\ asked' = asked
    BY <1>6 DEF PopResult, Pop
  <2>2. /\ pc["server"] = "result" /\ pc'["server"] = "idle" /\ pc'["console"] = pc["console"] /\ Places'
        /\ alone' => alone /\ pc["console"] \in {"idle", "stopped"}
    BY <2>1, ServerMoves
  <2>3. ASSUME alone' PROVE stack' = <<>>
    <3>1. PICK v \in {"call", "result"} : stack = Append(<<>>, v)
      BY <2>2, <2>3 DEF StackInv, StackShape, Base
    <3>2. v \in Values
      BY <3>1
    <3> HIDE DEF Values
    <3>3. SubSeq(Append(<<>>, v), 1, Len(Append(<<>>, v)) - 1) = <<>>
      BY <3>2, EmptyAndTable, PushPop
    <3> QED BY <2>1, <3>1, <3>3 DEF Popped
  <2> QED BY <2>1, <2>2, <2>3 DEF StackInv, StackShape, FlagExplained, AtRest, Base, Threads, InLua
<1> QED BY <1>1, <1>2, <1>3, <1>4, <1>5, <1>6 DEF Server

(* So does the console. *)
LEMMA ConsoleStep == StackInv /\ Console => StackInv'
<1> SUFFICES ASSUME StackInv, Console PROVE StackInv'
  OBVIOUS
<1> USE DEF ConsolePlaces, Values
<1>0. Base \in Seq(Values)
  BY BaseType
<1>1. ASSUME NEW from, NEW to \in {"loaded", "script", "failed", "idle"}, Step("console", from, to),
             flag' = flag, asked' = asked
      PROVE  /\ pc["console"] = from /\ pc'["console"] = to /\ pc'["server"] = pc["server"]
             /\ Places' /\ FlagExplained' /\ Base' = Base
             /\ alone' => alone /\ pc["server"] \in {"boot", "idle", "stopped"}
  <2>1. /\ pc["console"] = from /\ pc'["console"] = to /\ pc'["server"] = pc["server"]
        /\ Places' /\ (alone' => alone /\ pc["server"] \in {"boot", "idle", "stopped"})
    BY <1>1, ConsoleMoves
  <2> QED BY <1>1, <2>1 DEF StackInv, FlagExplained, Base
<1>2. CASE LoadLine
  <2>1. PICK to \in {"loaded", "failed"} :
          /\ Step("console", "idle", to)
          /\ stack' = Append(stack, IF to = "loaded" THEN "chunk" ELSE "error")
          /\ flag' = flag /\ asked' = asked
    BY <1>2 DEF LoadLine, Push
  <2>2. /\ pc["console"] = "idle" /\ pc'["console"] = to /\ pc'["server"] = pc["server"]
        /\ Places' /\ FlagExplained' /\ Base' = Base
        /\ alone' => alone /\ pc["server"] \in {"boot", "idle", "stopped"}
    BY <1>1, <2>1
  <2>3. ASSUME alone' PROVE stack = Base
    BY <2>2, <2>3 DEF StackInv, StackShape, AtRest, Threads, InLua
  <2> QED BY <2>1, <2>2, <2>3 DEF StackInv, StackShape, AtRest, Threads, InLua
<1>3. CASE RunLine
  <2>1. PICK to \in {"script", "failed"} :
          /\ Step("console", "loaded", to) /\ flag' = flag /\ asked' = asked
          /\ \/ to = "script" /\ stack' = stack
             \/ to = "failed" /\ stack' = Append(Popped, "error")
    BY <1>3 DEF RunLine, Replace
  <2>2. /\ pc["console"] = "loaded" /\ pc'["console"] = to /\ pc'["server"] = pc["server"]
        /\ Places' /\ FlagExplained' /\ Base' = Base
        /\ alone' => alone /\ pc["server"] \in {"boot", "idle", "stopped"}
    BY <1>1, <2>1
  <2>3. ASSUME alone' PROVE stack = Append(Base, "chunk") /\ Popped = Base
    <3>1. stack = Append(Base, "chunk")
      BY <2>2, <2>3 DEF StackInv, StackShape
    <3> QED BY <1>0, <3>1, PushPop DEF Popped
  <2> QED BY <2>1, <2>2, <2>3 DEF StackInv, StackShape, AtRest, Threads, InLua
<1>4. CASE EndLine
  <2>1. PICK to \in {"idle", "failed"} :
          /\ Step("console", "script", to) /\ flag' = flag /\ asked' = asked
          /\ \/ to = "idle" /\ stack' = Popped
             \/ to = "failed" /\ stack' = Append(Popped, "error")
    BY <1>4 DEF EndLine, Replace, Pop
  <2>2. /\ pc["console"] = "script" /\ pc'["console"] = to /\ pc'["server"] = pc["server"]
        /\ Places' /\ FlagExplained' /\ Base' = Base
        /\ alone' => alone /\ pc["server"] \in {"boot", "idle", "stopped"}
    BY <1>1, <2>1
  <2>3. ASSUME alone' PROVE Popped = Base
    <3>1. stack = Append(Base, "chunk")
      BY <2>2, <2>3 DEF StackInv, StackShape
    <3> QED BY <1>0, <3>1, PushPop DEF Popped
  <2> QED BY <2>1, <2>2, <2>3 DEF StackInv, StackShape, AtRest, Threads, InLua
<1>5. CASE PopError
  <2>1. Step("console", "failed", "idle") /\ stack' = Popped /\ flag' = flag /\ asked' = asked
    BY <1>5 DEF PopError, Pop
  <2>2. /\ pc["console"] = "failed" /\ pc'["console"] = "idle" /\ pc'["server"] = pc["server"]
        /\ Places' /\ FlagExplained' /\ Base' = Base
        /\ alone' => alone /\ pc["server"] \in {"boot", "idle", "stopped"}
    BY <1>1, <2>1
  <2>3. ASSUME alone' PROVE Popped = Base
    <3>1. stack = Append(Base, "error")
      BY <2>2, <2>3 DEF StackInv, StackShape
    <3> QED BY <1>0, <3>1, PushPop DEF Popped
  <2> QED BY <2>1, <2>2, <2>3 DEF StackInv, StackShape, AtRest, Threads, InLua
<1>6. CASE EndConsole
  <2>1. /\ pc["console"] = "idle" /\ pc'["console"] = "stopped" /\ pc'["server"] = pc["server"]
        /\ stack' = stack /\ flag' = flag /\ asked' = asked /\ alone' = alone /\ Places'
    BY <1>6 DEF EndConsole, luaVars, StackInv, Places, Threads
  <2> QED BY <2>1 DEF StackInv, StackShape, FlagExplained, AtRest, Base, Threads, InLua
<1> QED BY <1>2, <1>3, <1>4, <1>5, <1>6 DEF Console

(* What a script does leaves the stack alone. *)
LEMMA ScriptStep == ASSUME NEW t \in Threads, StackInv, Script(t) PROVE StackInv'
<1>1. PICK from, to \in {"script", "rpc"} : Step(t, from, to)
  BY DEF Script, LoadCoins, ClearCoins, Lookup, RpcBegin, RpcPiece, RpcEnd, SetFlag
<1>2. stack' = stack
  BY DEF Script, LoadCoins, ClearCoins, Lookup, RpcBegin, RpcPiece, RpcEnd, SetFlag, luaVars
<1>3. \/ flag' = flag /\ asked' = asked
      \/ flag' \in {"nil", "true", "false"} /\ (asked' <=> asked \/ flag' # "true")
  BY DEF Script, LoadCoins, ClearCoins, Lookup, RpcBegin, RpcPiece, RpcEnd, SetFlag, luaVars
<1>4. CASE t = "server"
  <2>1. /\ pc["server"] = from /\ pc'["server"] = to /\ pc'["console"] = pc["console"] /\ Places'
        /\ alone' => alone /\ pc["console"] \in {"idle", "stopped"}
    BY <1>1, <1>4, ServerMoves DEF ServerPlaces
  <2>2. FlagExplained'
    BY <1>1, <1>3, <2>1 DEF StackInv, FlagExplained
  <2> QED BY <1>1, <1>2, <2>1, <2>2 DEF StackInv, StackShape, AtRest, Base, Threads, InLua
<1>5. CASE t = "console"
  <2>1. /\ pc["console"] = from /\ pc'["console"] = to /\ pc'["server"] = pc["server"] /\ Places'
        /\ alone' => alone /\ pc["server"] \in {"boot", "idle", "stopped"}
    BY <1>1, <1>5, ConsoleMoves DEF ConsolePlaces
  <2>2. FlagExplained'
    BY <1>1, <1>3, <2>1 DEF StackInv, FlagExplained
  <2> QED BY <1>1, <1>2, <2>1, <2>2 DEF StackInv, StackShape, AtRest, Base, Threads, InLua
<1> QED BY <1>4, <1>5 DEF Threads

(* Every step of the process keeps it. *)
LEMMA StackStep == StackInv /\ [Next]_vars => StackInv'
<1> SUFFICES ASSUME StackInv, [Next]_vars PROVE StackInv'
  OBVIOUS
<1>1. CASE \/ UNCHANGED vars \/ Start \/ Shutdown \/ Corrupt
  <2>1. pc' = pc /\ stack' = stack /\ flag' = flag /\ asked' = asked /\ (alone' => alone)
    BY <1>1 DEF vars, Start, Shutdown, Corrupt, luaVars
  <2> QED BY <2>1 DEF StackInv, StackShape, Places, FlagExplained, AtRest, Base, Threads, InLua
<1> QED BY <1>1, ServerStep, ConsoleStep, ScriptStep DEF Next

(* The shared Lua stack is what the one thread in Lua has put on the stack *)
(* at rest, for as long as serv_thread and luaServer never met in it.      *)
THEOREM StackInvariant == Spec => []StackInv
BY StackInit, StackStep, PTL DEF Spec

(* While the threads are never in Lua at once, every event and every line  *)
(* leaves the Lua stack as it was, and the server thread ends only because *)
(* a script has cleared server_inited.                                     *)
THEOREM UndisturbedTheorem == Spec => []UndisturbedRuns
<1>1. StackInv => UndisturbedRuns
  BY DEF StackInv, StackShape, FlagExplained, UndisturbedRuns, Base
<1> QED BY <1>1, StackInvariant, PTL
-----------------------------------------------------------------------------
(* The pieces of thread t's own request, and nothing else. *)
Own(t, n) == [i \in 1 .. n |-> t]

(* A piece more of thread t's request. *)
LEMMA OwnGrows ==
    ASSUME NEW t \in Threads, NEW n \in Nat
    PROVE  /\ Own(t, n) \in Seq(Threads) /\ Append(Own(t, n), t) = Own(t, n + 1)
           /\ Own(t, 0) = <<>>
<1>1. Own(t, n) \in Seq(Threads) /\ Len(Own(t, n)) = n
  BY DEF Own
<1>2. Own(t, n + 1) \in Seq(Threads) /\ Len(Own(t, n + 1)) = n + 1
  BY DEF Own
<1>3. Append(Own(t, n), t) \in Seq(Threads) /\ Len(Append(Own(t, n), t)) = n + 1
  BY <1>1
<1>4. \A i \in 1 .. n + 1 : Append(Own(t, n), t)[i] = t
  BY <1>1 DEF Own
<1>5. Append(Own(t, n), t) = Own(t, n + 1)
  BY <1>2, <1>3, <1>4, SeqEqual DEF Own
<1>6. Own(t, 0) = <<>>
  BY DEF Own
<1> QED BY <1>1, <1>5, <1>6

(* During a request the buffer holds the pieces of that request. *)
RpcInv ==
    /\ got = [t \in Threads |-> got[t]] /\ \A t \in Threads : got[t] \in Nat
    /\ answer = [t \in Threads |-> answer[t]]
    /\ alone => \A t \in Threads : pc[t] = "rpc" => buffer = Own(t, got[t])
    /\ alone => \A t \in Threads : answer[t] # None => answer[t].text = Own(t, answer[t].pieces)

(* No request, no answer. *)
LEMMA RpcInit == Init => RpcInv
BY DEF Init, RpcInv, Threads

(* What leaves the request and the threads alone keeps the invariant. *)
LEMMA RpcUnchanged ==
    ASSUME RpcInv, UNCHANGED rpcVars, alone' => alone,
           \A t \in Threads : pc'[t] = "rpc" => pc[t] = "rpc"
    PROVE  RpcInv'
BY DEF RpcInv, rpcVars

(* What a script does, requests included, keeps it. *)
LEMMA RpcScriptStep ==
    ASSUME NEW t \in Threads, RpcInv, StackInv, Script(t)
    PROVE  RpcInv'
<1>0. /\ \A u \in Threads : u # t => u = Other(t)
      /\ pc = [u \in Threads |-> pc[u]]
  BY DEF Threads, Other, StackInv, Places
<1>1. ASSUME Step(t, "script", "script"), UNCHANGED rpcVars PROVE RpcInv'
  BY <1>0, <1>1, RpcUnchanged DEF Step
<1>2. CASE RpcBegin(t)
  <2>1. /\ buffer' = <<>> /\ got' = [got EXCEPT ![t] = 0] /\ answer' = answer
        /\ pc' = [pc EXCEPT ![t] = "rpc"] /\ (alone' => alone /\ ~InLua(Other(t)))
    BY <1>2 DEF RpcBegin, EmptyBuffer, Step
  <2>2. got'[t] = 0 /\ \A u \in Threads : u # t => got'[u] = got[u] /\ pc'[u] = pc[u]
    BY <1>0, <2>1 DEF RpcInv
  <2>3. buffer' = Own(t, got'[t])
    BY <2>1, <2>2, OwnGrows
  <2>4. alone' => \A u \in Threads : u # t => pc'[u] # "rpc"
    BY <1>0, <2>1, <2>2 DEF InLua
  <2>5. got' = [u \in Threads |-> got'[u]] /\ \A u \in Threads : got'[u] \in Nat
    BY <2>1, <2>2 DEF RpcInv
  <2> QED BY <2>1, <2>3, <2>4, <2>5 DEF RpcInv
<1>3. CASE RpcPiece(t)
  <2>1. /\ buffer' = Append(buffer, t) /\ got' = [got EXCEPT ![t] = @ + 1] /\ answer' = answer
        /\ pc[t] = "rpc" /\ pc' = [pc EXCEPT ![t] = "rpc"]
        /\ alone' => alone /\ ~InLua(Other(t))
    BY <1>3 DEF RpcPiece, Step
  <2>2. got'[t] = got[t] + 1 /\ \A u \in Threads : u # t => got'[u] = got[u] /\ pc'[u] = pc[u]
    BY <1>0, <2>1 DEF RpcInv
  <2>0. got[t] \in Nat
    BY DEF RpcInv
  <2>3. ASSUME alone' PROVE buffer' = Own(t, got'[t])
    <3>1. buffer = Own(t, got[t])
      BY <2>1, <2>3 DEF RpcInv
    <3>2. Append(Own(t, got[t]), t) = Own(t, got[t] + 1)
      BY <2>0, OwnGrows
    <3> QED BY <2>1, <2>2, <3>1, <3>2
  <2>4. alone' => \A u \in Threads : u # t => pc'[u] # "rpc"
    BY <1>0, <2>1, <2>2 DEF InLua
  <2>5. got' = [u \in Threads |-> got'[u]] /\ \A u \in Threads : got'[u] \in Nat
    <3>1. got' = [u \in Threads |-> got'[u]]
      BY <2>1 DEF RpcInv
    <3>2. got'[t] \in Nat
      BY <2>0, <2>2
    <3> QED BY <2>2, <3>1, <3>2 DEF RpcInv
  <2> QED BY <2>1, <2>3, <2>4, <2>5 DEF RpcInv
<1>4. CASE RpcEnd(t)
  <2>1. /\ answer' = [answer EXCEPT ![t] = [text |-> buffer, pieces |-> got[t]]]
        /\ buffer' = buffer /\ got' = got
        /\ pc[t] = "rpc" /\ pc' = [pc EXCEPT ![t] = "script"]
        /\ alone' => alone
    BY <1>4 DEF RpcEnd, Step
  <2>2. /\ answer'[t] = [text |-> buffer, pieces |-> got[t]]
        /\ \A u \in Threads : u # t => answer'[u] = answer[u]
        /\ \A u \in Threads : pc'[u] = "rpc" => pc[u] = "rpc"
    BY <1>0, <2>1 DEF RpcInv
  <2>3. alone' => answer'[t].text = Own(t, answer'[t].pieces)
    BY <2>1, <2>2 DEF RpcInv
  <2>4. answer' = [u \in Threads |-> answer'[u]]
    BY <2>1 DEF RpcInv
  <2> QED BY <2>1, <2>2, <2>3, <2>4 DEF RpcInv
<1> QED BY <1>1, <1>2, <1>3, <1>4 DEF Script, LoadCoins, ClearCoins, Lookup, SetFlag

(* Every step of the process keeps it. *)
LEMMA RpcStep == RpcInv /\ StackInv /\ [Next]_vars => RpcInv'
<1> SUFFICES ASSUME RpcInv, StackInv, [Next]_vars PROVE RpcInv'
  OBVIOUS
<1>0. pc = [u \in Threads |-> pc[u]]
  BY DEF StackInv, Places
<1>1. CASE UNCHANGED vars \/ Start \/ Shutdown \/ Corrupt \/ EndConsole
  <2>1. UNCHANGED rpcVars /\ (alone' => alone) /\ \A t \in Threads : pc'[t] = "rpc" => pc[t] = "rpc"
    BY <1>0, <1>1 DEF vars, Start, Shutdown, Corrupt, EndConsole
  <2> QED BY <2>1, RpcUnchanged
<1>2. CASE Server \/ LoadLine \/ RunLine \/ EndLine \/ PopError
  <2>1. UNCHANGED rpcVars
    BY <1>2 DEF Server, Boot, GetStatus, ReadStatus, RunEvent, EndEvent, PopResult,
                LoadLine, RunLine, EndLine, PopError
  <2>2. PICK t, from, to : Step(t, from, to) /\ to # "rpc"
    BY <1>2 DEF Server, Boot, GetStatus, ReadStatus, RunEvent, EndEvent, PopResult,
                LoadLine, RunLine, EndLine, PopError
  <2> QED BY <1>0, <2>1, <2>2, RpcUnchanged DEF Step
<1> QED BY <1>1, <1>2, RpcScriptStep DEF Next, Console

(* The answer a thread is given is made of the pieces that arrived for its *)
(* own request, while the threads are never in Lua at once.                *)
THEOREM RpcTheorem == Spec => []RpcAnswerIsOwn
<1>1. RpcInv => RpcAnswerIsOwn
  BY DEF RpcInv, RpcAnswerIsOwn, Own
<1>2. RpcInv /\ StackInv /\ [Next]_vars => RpcInv'
  BY RpcStep
<1> QED BY <1>1, <1>2, RpcInit, StackInvariant, PTL DEF Spec
-----------------------------------------------------------------------------
(* The table that was loaded last has count_cryptocoins entries. *)
HandlesMatch ==
    \A h \in Holders : handle[h] = None \/
        /\ handle[h].ini \in Inis
        /\ h = "bacteria" => handle[h].id = 1
        /\ h = "script" => handle[h].id = 2
        /\ handle[h].id = coin.id => handle[h].ini.coins = coin.count

CoinInv ==
    /\ handle = [h \in Holders |-> handle[h]]
    /\ HandlesMatch
    /\ LookupFinds

(* Nothing is loaded or looked up at first. *)
LEMMA CoinInit == Init => CoinInv
BY DEF Init, CoinInv, HandlesMatch, LookupFinds, Holders, None

(* What leaves the coins alone keeps the invariant. *)
LEMMA CoinUnchanged == ASSUME CoinInv, UNCHANGED coinVars PROVE CoinInv'
BY DEF CoinInv, HandlesMatch, coinVars, LookupFinds

(* The fields of a configuration are numbers. *)
LEMMA IniFields == \A f \in Inis : f.coins \in Nat /\ f.len \in Nat /\ f.port \in Nat
BY ProcessAssumption

(* So are the positions looked for. *)
LEMMA WantedNat == \A j \in Wanted : j \in Nat
BY ProcessAssumption

(* A lookup keeps the invariant. *)
LEMMA LookupStep ==
    ASSUME CoinInv, NEW t \in Threads, NEW h \in Holders, NEW j \in Wanted, Lookup(t, h, j)
    PROVE  CoinInv'
<1>1. handle' = handle /\ coin' = coin /\ handle[h] # None /\ j < handle[h].ini.coins
  BY DEF Lookup
<1> DEFINE f == handle[h].ini
<1> DEFINE read == {e \in Searched(coin.count) : e >= j}
<1> DEFINE safe == \A e \in read : e < f.coins /\ e < Room(f)
<1> DEFINE found == IF j \in read THEN "found" ELSE "missing"
<1>2. PICK r \in IF safe THEN {found} ELSE {found, "missing", "crash"} :
        lookup' = [kind |-> "done", of |-> handle[h], current |-> handle[h].id = coin.id, result |-> r]
  BY DEF Lookup
<1>3. ASSUME handle[h].id = coin.id, f.coins < 256, f.coins <= Room(f) PROVE r = "found"
  <2>1. coin.count = f.coins /\ f \in Inis
    BY <1>1, <1>3 DEF CoinInv, HandlesMatch
  <2>2. f.coins \in Nat /\ j \in Nat /\ f.len \in Nat /\ f.port \in Nat
    BY <2>1, IniFields, WantedNat
  <2>3. Searched(coin.count) = 0 .. f.coins - 1
    BY <1>3, <2>1, <2>2 DEF Searched
  <2>4. Room(f) \in Int
    BY <2>2 DEF Room, Bytes
  <2> HIDE DEF f
  <2>5. safe /\ j \in read
    BY <1>1, <1>3, <2>2, <2>3, <2>4 DEF f
  <2> QED BY <1>2, <2>5
<1>4. LookupFinds'
  BY <1>2, <1>3 DEF LookupFinds, Room
<1> QED BY <1>1, <1>4 DEF CoinInv, HandlesMatch

(* Every step of the process keeps it. *)
LEMMA CoinStep == CoinInv /\ [Next]_vars => CoinInv'
<1> SUFFICES ASSUME CoinInv, [Next]_vars PROVE CoinInv'
  OBVIOUS
<1>1. CASE Start
  <2>1. PICK f \in Inis :
          \/ /\ handle' = [handle EXCEPT !["bacteria"] = Table(f, 1)]
             /\ coin' = [inited |-> TRUE, count |-> f.coins, id |-> 1]
          \/ UNCHANGED <<handle, coin>>
    BY <1>1 DEF Start
  <2>2. lookup' = lookup
    BY <1>1 DEF Start
  <2> QED BY <2>1, <2>2 DEF CoinInv, HandlesMatch, Holders, Table, LookupFinds, None
<1>2. ASSUME NEW t \in Threads, NEW f \in Inis, LoadCoins(t, f) PROVE CoinInv'
  <2>0. CASE UNCHANGED <<handle, coin>>
    BY <1>2, <2>0, CoinUnchanged DEF LoadCoins, coinVars
  <2> SUFFICES ASSUME ~UNCHANGED <<handle, coin>> PROVE CoinInv'
    BY <2>0
  <2>1. /\ handle' = [handle EXCEPT !["script"] = Table(f, 2)]
        /\ coin' = [inited |-> TRUE, count |-> f.coins, id |-> 2] /\ lookup' = lookup
    BY <1>2 DEF LoadCoins
  <2>2. /\ handle' = [h \in Holders |-> handle'[h]]
        /\ handle'["script"] = Table(f, 2) /\ handle'["bacteria"] = handle["bacteria"]
    BY <2>1 DEF CoinInv, HandlesMatch, Holders
  <2>3. \/ handle["bacteria"] = None
        \/ handle["bacteria"].ini \in Inis /\ handle["bacteria"].id = 1
    <3>1. HandlesMatch
      BY DEF CoinInv
    <3> QED BY <3>1 DEF HandlesMatch, Holders
  <2>4. coin'.id = 2 /\ coin'.count = f.coins /\ Table(f, 2).ini = f /\ Table(f, 2).id = 2
    BY <2>1 DEF Table
  <2>5. LookupFinds'
    BY <2>1 DEF CoinInv, LookupFinds
  <2> QED BY <2>2, <2>3, <2>4, <2>5 DEF CoinInv, HandlesMatch, Holders
<1>3. ASSUME NEW t \in Threads, ClearCoins(t) PROVE CoinInv'
  <2>1. handle' = handle /\ lookup' = lookup
    BY <1>3 DEF ClearCoins
  <2>2. coin' = [coin EXCEPT !.inited = FALSE]
    BY <1>3 DEF ClearCoins
  <2>3. coin'.id = coin.id /\ coin'.count = coin.count
    BY <2>2
  <2> QED BY <2>1, <2>3 DEF CoinInv, HandlesMatch, LookupFinds
<1>4. ASSUME NEW t \in Threads, NEW h \in Holders, NEW j \in Wanted, Lookup(t, h, j) PROVE CoinInv'
  BY <1>4, LookupStep
<1>5. ASSUME NEW t \in Threads, \/ RpcBegin(t) \/ RpcPiece(t) \/ RpcEnd(t)
                                \/ \E v \in {"true", "false", "nil"} : SetFlag(t, v)
      PROVE  CoinInv'
  BY <1>5, CoinUnchanged DEF RpcBegin, RpcPiece, RpcEnd, SetFlag
<1>6. CASE UNCHANGED vars \/ Shutdown \/ Corrupt \/ Server \/ Console
  <2>1. UNCHANGED coinVars
    BY <1>6 DEF vars, Shutdown, Corrupt, Server, Boot, GetStatus, ReadStatus, RunEvent, EndEvent,
                PopResult, Console, LoadLine, RunLine, EndLine, PopError, EndConsole
  <2> QED BY <2>1, CoinUnchanged
<1> QED BY <1>1, <1>2, <1>3, <1>4, <1>5, <1>6 DEF Next, Script

(* A coin of the configuration loaded last is found in its table, if there *)
(* are fewer than 256 and the copy has room for all of them.               *)
THEOREM LookupTheorem == Spec => []LookupFinds
<1>1. CoinInv => LookupFinds
  BY DEF CoinInv
<1> QED BY <1>1, CoinInit, CoinStep, PTL DEF Spec
-----------------------------------------------------------------------------
(* The variables that the invariants above leave untyped. *)
ValueInv ==
    /\ process \in {"starting", "running", "crashed", "aborted", "exited"}
    /\ stack \in Seq(Values)
    /\ main \in Inis \cup {None}
    /\ coin \in [inited : BOOLEAN, count : Nat, id : Nat]
    /\ buffer \in Seq(Threads) /\ got \in [Threads -> 0 .. MaxChunks]
    /\ asked \in BOOLEAN /\ alone \in BOOLEAN

(* They have their types at first. *)
LEMMA ValueInit == Init => ValueInv
<1> SUFFICES ASSUME Init PROVE ValueInv
  OBVIOUS
<1>1. stack \in Seq(Values) /\ buffer \in Seq(Threads)
  BY EmptyAndTable, EmptySeq DEF Init
<1>2. 0 \in 0 .. MaxChunks
  BY ProcessAssumption
<1> QED BY <1>1, <1>2 DEF Init, ValueInv

(* Popping and replacing the top leave values on the stack. *)
LEMMA StackValues ==
    ASSUME stack \in Seq(Values), stack # <<>>
    PROVE  Popped \in Seq(Values) /\ \A v \in Values : Append(Popped, v) \in Seq(Values)
<1>1. Len(stack) \in Nat /\ \A i \in 1 .. Len(stack) - 1 : stack[i] \in Values
  BY ElementOfSeq, LenProperties
<1>2. Popped \in Seq(Values)
  BY <1>1, SubSeqProperties DEF Popped
<1> QED BY <1>2, AppendProperties

(* Scripts keep the types. *)
LEMMA ValueScriptStep ==
    ASSUME ValueInv, NEW t \in Threads, Script(t)
    PROVE  ValueInv'
<1> USE DEF ValueInv
<1>0. alone' \in BOOLEAN /\ stack' = stack /\ main' = main
  BY DEF Script, LoadCoins, ClearCoins, Lookup, RpcBegin, RpcPiece, RpcEnd, SetFlag, Step,
         luaVars, coinVars
<1>1. ASSUME NEW f \in Inis, LoadCoins(t, f) PROVE ValueInv'
  <2>0. [inited |-> TRUE, count |-> f.coins, id |-> 2]
            \in [inited : BOOLEAN, count : Nat, id : Nat]
    BY IniFields
  <2>1. coin' \in [inited : BOOLEAN, count : Nat, id : Nat]
    BY <1>1, <2>0 DEF LoadCoins
  <2> QED BY <1>0, <1>1, <2>1 DEF LoadCoins, rpcVars
<1>2. CASE ClearCoins(t)
  <2>1. coin' \in [inited : BOOLEAN, count : Nat, id : Nat]
    BY <1>2 DEF ClearCoins
  <2> QED BY <1>0, <1>2, <2>1 DEF ClearCoins, rpcVars
<1>3. ASSUME NEW h \in Holders, NEW j \in Wanted, Lookup(t, h, j) PROVE ValueInv'
  <2>1. process' \in {process, "crashed"}
    BY <1>3 DEF Lookup
  <2> QED BY <1>0, <1>3, <2>1 DEF Lookup, rpcVars
<1>4. CASE RpcBegin(t)
  <2>1. buffer' \in Seq(Threads)
    BY <1>4, EmptySeq DEF RpcBegin, EmptyBuffer
  <2>2. got' \in [Threads -> 0 .. MaxChunks]
    BY <1>4, ProcessAssumption DEF RpcBegin
  <2> QED BY <1>0, <1>4, <2>1, <2>2 DEF RpcBegin, coinVars
<1>5. CASE RpcPiece(t)
  <2>1. buffer' \in Seq(Threads)
    BY <1>5, AppendProperties DEF RpcPiece
  <2>2. got[t] + 1 \in 0 .. MaxChunks
    BY <1>5, ProcessAssumption DEF RpcPiece
  <2>3. got' \in [Threads -> 0 .. MaxChunks]
    BY <1>5, <2>2 DEF RpcPiece
  <2> QED BY <1>0, <1>5, <2>1, <2>3 DEF RpcPiece, coinVars
<1>6. CASE RpcEnd(t)
  BY <1>0, <1>6 DEF RpcEnd, coinVars
<1>7. ASSUME NEW v \in {"true", "false", "nil"}, SetFlag(t, v) PROVE ValueInv'
  BY <1>0, <1>7 DEF SetFlag, coinVars, rpcVars
<1> QED BY <1>1, <1>2, <1>3, <1>4, <1>5, <1>6, <1>7 DEF Script

(* Every step keeps them. *)
LEMMA ValueStep == ValueInv /\ StackInv /\ [Next]_vars => ValueInv'
<1> SUFFICES ASSUME ValueInv, StackInv, [Next]_vars PROVE ValueInv'
  OBVIOUS
<1> USE DEF ValueInv
<1>1. CASE UNCHANGED vars
  BY <1>1 DEF vars, luaVars, coinVars, rpcVars
<1>2. CASE Start
  <2>1. PICK f \in Inis, m \in init_cryptocoins :
            /\ main' = m
            /\ \/ process' = "running" /\ coin' = [inited |-> TRUE, count |-> f.coins, id |-> 1]
               \/ process' = "crashed" /\ coin' = coin
    BY <1>2 DEF Start
  <2>2. coin' \in [inited : BOOLEAN, count : Nat, id : Nat]
    <3>1. [inited |-> TRUE, count |-> f.coins, id |-> 1]
              \in [inited : BOOLEAN, count : Nat, id : Nat]
      BY IniFields
    <3> QED BY <2>1, <3>1
  <2> QED BY <1>2, <2>1, <2>2 DEF Start, init_cryptocoins, luaVars, rpcVars
<1>3. CASE Shutdown \/ Corrupt \/ EndConsole
  BY <1>3 DEF Shutdown, Corrupt, EndConsole, luaVars, coinVars, rpcVars
<1>4. CASE Server \/ LoadLine \/ RunLine \/ EndLine \/ PopError
  <2>1. stack' \in Seq(Values)
    <3>1. flag \in Values /\ {"call", "result", "chunk", "error"} \subseteq Values
      BY DEF StackInv, FlagExplained, Values
    <3>2. \A v \in Values : Append(stack, v) \in Seq(Values)
      BY AppendProperties
    <3> QED
      BY <1>4, <3>1, <3>2, StackValues
      DEF Server, Boot, GetStatus, ReadStatus, RunEvent, EndEvent, PopResult,
          LoadLine, RunLine, EndLine, PopError, Pop, Push, Replace
  <2>2. /\ UNCHANGED <<coinVars, rpcVars, asked>>
        /\ process' \in {process, "crashed"} /\ alone' \in BOOLEAN
    BY <1>4 DEF Server, Boot, GetStatus, ReadStatus, RunEvent, EndEvent, PopResult,
                LoadLine, RunLine, EndLine, PopError, Step
  <2> QED BY <2>1, <2>2 DEF coinVars, rpcVars
<1> QED BY <1>1, <1>2, <1>3, <1>4, ValueScriptStep DEF Next, Console

(* The variables keep their types: whatever the two threads interleave,    *)
(* the Lua stack holds only what they push and no request gets more pieces *)
(* than arrive.                                                            *)
THEOREM ProcessTypeCorrect == Spec => []TypeOK
<1> DEFINE Inv == ValueInv /\ StackInv /\ CoinInv
<1>1. Init => Inv
  BY ValueInit, StackInit, CoinInit
<1>2. Inv /\ [Next]_vars => Inv'
  BY ValueStep, StackStep, CoinStep
<1>3. Inv => TypeOK
  BY DEF ValueInv, StackInv, Places, FlagExplained, CoinInv, HandlesMatch, Values, TypeOK
<1> QED BY <1>1, <1>2, <1>3, PTL DEF Spec
================================================================================
