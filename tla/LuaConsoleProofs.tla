---------------------------- MODULE LuaConsoleProofs ----------------------------
(***************************************************************************)
(* Proofs about the descriptor table the Lua console shares with the       *)
(* server thread, for every size of the table, any number of clients and   *)
(* any number of the server thread's connections.                          *)
(*                                                                         *)
(* None of the invariants is inductive as it stands: each needs to know    *)
(* which descriptors the console holds in the middle of a message.         *)
(* ConsoleInv says it: the four variables that name a descriptor name      *)
(* different ones, none of them free or a connection of the server thread, *)
(* and every other descriptor in use is stdin, stderr, the listening       *)
(* socket or a connection of the server thread.                            *)
(***************************************************************************)
EXTENDS LuaConsole, FiniteSetTheorems, WellFoundedInduction, TLAPS

(* The descriptors the console's four variables name. *)
Names == {stdout.fd, stdout_, csocket, tmp1}

(* An object that only the console's variables lead to. *)
Kept == Object \ {"free", "own", "peer"}

Distinct ==
    /\ stdout.fd # None => stdout.fd \notin {stdout_, csocket, tmp1}
    /\ stdout_ # None => stdout_ \notin {csocket, tmp1}
    /\ csocket # None => csocket # tmp1

InUse == \A f \in Names \ {None} : fds[f] \in Kept

Accounted == \A f \in Fd : fds[f] \in Kept => f \in Names

OwnAreThree ==
    /\ fds[1] # "own"
    /\ \E l \in Fd : \A f \in Fd : fds[f] = "own" => f \in {0, 2, l}
    /\ pc = "listen" => \A f \in Fd : fds[f] = "own" => f \in {0, 2}

(* What the place of the console thread says of its variables. *)
Places ==
    /\ pc \in {"listen", "accept", "dup"} => stdout_ = None
    /\ pc \in {"listen", "accept"} => csocket = None
    /\ IF pc \in {"close", "close1"} THEN tmp1 # None ELSE pc # "crashed" => tmp1 = None
    /\ pc \in {"open", "close"} => stdout.fd # None
    /\ pc = "close1" => stdout.fd = None
    /\ pc = "listen" => sessions = 0
    /\ sessions = 0 => pc \in {"listen", "accept", "done"}

(* Where the terminal is until the first client has left. *)
FirstSession ==
    /\ sessions = 0 \/ (sessions = 1 /\ pc = "dup") => stdout.fd = 1 /\ fds[1] = "tty"
    /\ sessions = 1 /\ pc \notin {"dup", "accept"} /\ stdout_ # None => fds[stdout_] = "tty"
    /\ sessions = 1 /\ pc = "accept" => stdout.fd # None /\ fds[stdout.fd] = "tty"

ConsoleInv ==
    /\ TypeOK /\ Distinct /\ InUse /\ Accounted /\ OwnAreThree
    /\ Places /\ FirstSession /\ HeldDescriptorsAreOwn
-----------------------------------------------------------------------------
(* A nonempty set of descriptors has a least one. *)
LEMMA LeastNatural ==
    ASSUME NEW S \in SUBSET Nat, S # {}
    PROVE  \E f \in S : \A g \in S : f <= g
<1> DEFINE Less == OpToRel(<, Nat)
<1>1. IsWellFoundedOn(Less, Nat)
  BY NatLessThanWellFounded
<1>2. \A m, n \in Nat : <<m, n>> \in Less <=> m < n
  BY DEF OpToRel
<1> HIDE DEF Less
<1>3. PICK f \in S : \A g \in S : ~ (<<g, f>> \in Less)
  BY <1>1, WFMin
<1>4. ASSUME NEW g \in S PROVE f <= g
  <2>1. ~ (g < f)
    BY <1>2, <1>3
  <2> QED BY <2>1
<1> QED BY <1>4

(* What open, dup and accept return was free. *)
LEMMA LowestIsFree ==
    ASSUME Lowest # None
    PROVE  Lowest \in Fd /\ fds[Lowest] = "free"
<1>1. Free # {} /\ Free \in SUBSET Nat
  BY ConsoleAssumption DEF Lowest, Free, Fd
<1>2. \E f \in Free : \A g \in Free : f <= g
  BY <1>1, LeastNatural
<1> QED BY <1>1, <1>2 DEF Lowest, Free
-----------------------------------------------------------------------------
(* The process starts with the terminal as its descriptor 1. *)
LEMMA ConsoleInit == Init => ConsoleInv
<1> SUFFICES ASSUME Init PROVE ConsoleInv
  OBVIOUS
<1> USE ConsoleAssumption DEF Init, Fd, None
<1>1. TypeOK
  BY DEF TypeOK, Object
<1>2. Distinct /\ InUse /\ Accounted
  BY DEF Distinct, InUse, Accounted, Names, Kept, Object
<1>3. OwnAreThree
  BY DEF OwnAreThree
<1>4. Places /\ FirstSession /\ HeldDescriptorsAreOwn
  BY DEF Places, FirstSession, HeldDescriptorsAreOwn
<1> QED BY <1>1, <1>2, <1>3, <1>4 DEF ConsoleInv

(* A crash changes nothing but the place of the console. *)
LEMMA CrashKeeps ==
    ASSUME ConsoleInv, Crash, pc \in {"reopen", "open", "clear", "end"}
    PROVE  ConsoleInv'
<1> USE DEF ConsoleInv, Crash
<1>1. TypeOK' /\ HeldDescriptorsAreOwn'
  BY DEF TypeOK, HeldDescriptorsAreOwn
<1>2. Distinct' /\ InUse' /\ Accounted' /\ OwnAreThree'
  BY DEF Distinct, InUse, Accounted, Names, OwnAreThree
<1>3. Places' /\ FirstSession'
  BY DEF Places, FirstSession
<1> QED BY <1>1, <1>2, <1>3

(* Nothing but luaServInit makes a descriptor the process's own. *)
LEMMA OwnStays ==
    ASSUME OwnAreThree, fds' \in [Fd -> Object], pc' = "listen" => pc = "listen",
           \A f \in Fd : fds'[f] = "own" => fds[f] = "own"
    PROVE  OwnAreThree'
<1>1. 1 \in Fd
  BY ConsoleAssumption DEF Fd
<1>2. PICK l \in Fd : \A f \in Fd : fds[f] = "own" => f \in {0, 2, l}
  BY DEF OwnAreThree
<1>3. \A f \in Fd : fds'[f] = "own" => f \in {0, 2, l}
  BY <1>2
<1> QED BY <1>1, <1>3 DEF OwnAreThree

(* luaServInit opens the only descriptor that is the process's own for     *)
(* good.                                                                   *)
LEMMA ListenKeeps == ConsoleInv /\ luaServInit => ConsoleInv'
<1> SUFFICES ASSUME ConsoleInv, luaServInit PROVE ConsoleInv'
  OBVIOUS
<1> USE DEF ConsoleInv, luaServInit
<1>1. CASE pc' = "accept" /\ Lowest # None /\ fds' = [fds EXCEPT ![Lowest] = "own"]
  <2> USE <1>1
  <2>1. Lowest \in Fd /\ fds[Lowest] = "free"
    BY LowestIsFree
  <2>2. TypeOK'
    BY <2>1 DEF TypeOK, Object
  <2>3. Distinct' /\ InUse' /\ Accounted'
    BY <2>1 DEF TypeOK, Distinct, InUse, Accounted, Names, Kept, Object
  <2>4. OwnAreThree'
    BY <2>1 DEF TypeOK, OwnAreThree, FirstSession, Places
  <2>5. Places' /\ FirstSession' /\ HeldDescriptorsAreOwn'
    BY <2>1 DEF TypeOK, Places, FirstSession, HeldDescriptorsAreOwn
  <2> QED BY <2>2, <2>3, <2>4, <2>5
<1>2. CASE pc' = "done" /\ UNCHANGED fds
  <2> USE <1>2
  <2>1. TypeOK' /\ HeldDescriptorsAreOwn'
    BY DEF TypeOK, HeldDescriptorsAreOwn
  <2>2. Distinct' /\ InUse' /\ Accounted' /\ OwnAreThree'
    BY DEF Distinct, InUse, Accounted, Names, OwnAreThree
  <2>3. Places' /\ FirstSession'
    BY DEF Places, FirstSession
  <2> QED BY <2>1, <2>2, <2>3
<1> QED BY <1>1, <1>2

(* accept takes a free descriptor, or none when the table is full. *)
LEMMA AcceptKeeps == ConsoleInv /\ Accept => ConsoleInv'
<1> SUFFICES ASSUME ConsoleInv, Accept PROVE ConsoleInv'
  OBVIOUS
<1> USE DEF ConsoleInv, Accept
<1>1. Lowest # None => Lowest \in Fd /\ fds[Lowest] = "free"
  BY LowestIsFree
<1>2. TypeOK'
  BY <1>1, ConsoleAssumption DEF TypeOK, Object
<1>3. Distinct' /\ InUse' /\ Accounted'
  BY <1>1 DEF TypeOK, Distinct, InUse, Accounted, Names, Kept, Object, Places
<1>4. OwnAreThree'
  BY <1>1 DEF TypeOK, OwnAreThree
<1>5. Places' /\ HeldDescriptorsAreOwn'
  BY <1>1 DEF TypeOK, Places, HeldDescriptorsAreOwn
<1>6. FirstSession'
  BY <1>1 DEF TypeOK, FirstSession, Places
<1> QED BY <1>2, <1>3, <1>4, <1>5, <1>6

(* dup makes a second descriptor of whatever 1 refers to, which is never   *)
(* one of the process's own.                                               *)
LEMMA DupKeeps == ConsoleInv /\ Dup => ConsoleInv'
<1> SUFFICES ASSUME ConsoleInv, Dup PROVE ConsoleInv'
  OBVIOUS
<1> USE DEF ConsoleInv, Dup
<1>1. Lowest # None => Lowest \in Fd /\ fds[Lowest] = "free"
  BY LowestIsFree
<1>2. 1 \in Fd /\ fds[1] \in Object /\ fds[1] # "own"
  BY ConsoleAssumption DEF TypeOK, OwnAreThree, Fd
<1>3. fds[1] # "free" => Duplicate(fds[1]) \in Kept
  BY <1>2 DEF Duplicate, Kept, Object
<1>4. TypeOK'
  BY <1>1, <1>2, <1>3, ConsoleAssumption DEF TypeOK, Kept
<1>5. Distinct' /\ InUse' /\ Accounted'
  BY <1>1, <1>3 DEF TypeOK, Distinct, InUse, Accounted, Names, Kept, Places
<1>6. OwnAreThree'
  BY <1>1, <1>2, <1>3 DEF TypeOK, OwnAreThree, Kept
<1>7. Places' /\ HeldDescriptorsAreOwn'
  BY <1>1 DEF TypeOK, Places, HeldDescriptorsAreOwn
<1>8. FirstSession'
  BY <1>1, <1>2 DEF TypeOK, FirstSession, Places, Duplicate
<1> QED BY <1>4, <1>5, <1>6, <1>7, <1>8

(* recv touches no descriptor. *)
LEMMA RecvKeeps == ConsoleInv /\ Recv => ConsoleInv'
<1> SUFFICES ASSUME ConsoleInv, Recv PROVE ConsoleInv'
  OBVIOUS
<1> USE DEF ConsoleInv, Recv
<1>1. TypeOK' /\ HeldDescriptorsAreOwn'
  BY DEF TypeOK, HeldDescriptorsAreOwn
<1>2. Distinct' /\ InUse' /\ Accounted' /\ OwnAreThree'
  BY DEF Distinct, InUse, Accounted, Names, OwnAreThree
<1>3. Places' /\ FirstSession'
  BY DEF Places, FirstSession
<1> QED BY <1>1, <1>2, <1>3

(* freopen keeps the number of an open stream; a closed one gets a number  *)
(* nobody holds.                                                           *)
LEMMA FreopenKeeps == ConsoleInv /\ Freopen => ConsoleInv'
<1> SUFFICES ASSUME ConsoleInv, Freopen PROVE ConsoleInv'
  OBVIOUS
<1>1. CASE Crash
  BY <1>1, CrashKeeps DEF Freopen
<1>2. CASE ~Crash
  <2> DEFINE f == IF stdout.fd = None THEN Lowest ELSE stdout.fd
  <2>1. /\ pc = "reopen" /\ Lowest # None
        /\ fds' = [fds EXCEPT ![f] = "file"]
        /\ stdout' = [stdout EXCEPT !.fd = f]
        /\ pc' = "open"
        /\ UNCHANGED <<stdout_, csocket, tmp1, err_count, sessions>>
    BY <1>2 DEF Freopen
  <2>2. Lowest \in Fd /\ fds[Lowest] = "free"
    BY <2>1, LowestIsFree
  <2>3. f \in Fd /\ f # None /\ stdout'.fd = f /\ stdout'.kind = stdout.kind
    BY <2>1, <2>2 DEF ConsoleInv, TypeOK, Fd, None
  <2>4. (fds[f] = "free" /\ stdout.fd = None) \/ f = stdout.fd
    BY <2>2
  <2>5. f \notin {stdout_, csocket, tmp1}
    BY <2>3, <2>4 DEF ConsoleInv, InUse, Distinct, Names, Kept
  <2> HIDE DEF f
  <2> USE <2>1, <2>3, <2>4, <2>5 DEF ConsoleInv
  <2>6. TypeOK'
    BY DEF TypeOK, Object
  <2>7. Distinct'
    BY DEF Distinct
  <2>8. InUse' /\ Accounted'
    <3>1. Names' = {f, stdout_, csocket, tmp1}
      BY DEF Names
    <3>2. \A g \in Fd : fds'[g] = IF g = f THEN "file" ELSE fds[g]
      BY DEF TypeOK
    <3>3. "file" \in Kept
      BY DEF Kept, Object
    <3>4. \A g \in Names' \ {None} : g \in Fd
      BY <3>1 DEF TypeOK
    <3>5. InUse'
      BY <3>1, <3>2, <3>3, <3>4 DEF InUse, Names, Kept
    <3>6. None \notin Fd
      BY DEF Fd, None
    <3>7. Accounted'
      BY <3>1, <3>2, <3>6 DEF Accounted, Names
    <3> QED BY <3>5, <3>7
  <2>9. OwnAreThree'
    BY <2>6, OwnStays DEF TypeOK
  <2>10. Places' /\ HeldDescriptorsAreOwn'
    BY DEF TypeOK, Places, HeldDescriptorsAreOwn
  <2>11. FirstSession'
    BY DEF TypeOK, FirstSession, Places
  <2> QED BY <2>6, <2>7, <2>8, <2>9, <2>10, <2>11
<1> QED BY <1>1, <1>2

(* fopen takes a descriptor nobody holds. *)
LEMMA FopenKeeps == ConsoleInv /\ Fopen => ConsoleInv'
<1> SUFFICES ASSUME ConsoleInv, Fopen PROVE ConsoleInv'
  OBVIOUS
<1>1. CASE Crash
  BY <1>1, CrashKeeps DEF Fopen
<1>2. CASE ~Crash
  <2> USE <1>2 DEF ConsoleInv, Fopen
  <2>1. Lowest \in Fd /\ fds[Lowest] = "free" /\ Lowest # None
    BY LowestIsFree
  <2>2. TypeOK'
    BY <2>1 DEF TypeOK, Object
  <2>3. Distinct'
    BY <2>1 DEF Distinct, InUse, Names, Kept
  <2>4. InUse' /\ Accounted'
    <3>1. Names' = {stdout.fd, stdout_, csocket, Lowest} /\ tmp1 = None
      BY <2>1 DEF Names, Places
    <3>2. \A g \in Fd : fds'[g] = IF g = Lowest THEN "file" ELSE fds[g]
      BY <2>1 DEF TypeOK
    <3>3. "file" \in Kept
      BY DEF Kept, Object
    <3>4. \A g \in Names' \ {None} : g \in Fd
      BY <2>1, <3>1 DEF TypeOK
    <3>5. InUse'
      BY <3>1, <3>2, <3>3, <3>4 DEF InUse, Names
    <3>6. None \notin Fd
      BY DEF Fd, None
    <3>7. Accounted'
      BY <3>1, <3>2, <3>6 DEF Accounted, Names, Kept
    <3> QED BY <3>5, <3>7
  <2>5. OwnAreThree'
    BY <2>1, <2>2, OwnStays DEF TypeOK
  <2>6. Places' /\ HeldDescriptorsAreOwn'
    BY <2>1 DEF TypeOK, Places, HeldDescriptorsAreOwn
  <2>7. FirstSession'
    BY <2>1 DEF TypeOK, FirstSession, Places
  <2> QED BY <2>2, <2>3, <2>4, <2>5, <2>6, <2>7
<1> QED BY <1>1, <1>2

(* fclose(tmp) gives the number of stdout back and forgets it. *)
LEMMA FcloseTmpKeeps == ConsoleInv /\ FcloseTmp => ConsoleInv'
<1> SUFFICES ASSUME ConsoleInv, FcloseTmp PROVE ConsoleInv'
  OBVIOUS
<1> USE DEF ConsoleInv, FcloseTmp
<1>1. stdout.fd \in Fd /\ stdout.fd \notin {stdout_, csocket, tmp1}
  BY DEF TypeOK, Places, Distinct
<1>2. stdout'.fd = None /\ stdout'.kind \in {"static", "freed"}
  BY DEF Freed
<1>3. TypeOK'
  BY <1>1 DEF TypeOK, Object, Freed
<1>4. Distinct' /\ InUse' /\ Accounted'
  BY <1>1, <1>2 DEF TypeOK, Distinct, InUse, Accounted, Names, Kept
<1>5. OwnAreThree'
  BY <1>1 DEF TypeOK, OwnAreThree
<1>6. Places' /\ HeldDescriptorsAreOwn'
  BY <1>1, <1>2 DEF TypeOK, Places, HeldDescriptorsAreOwn
<1>7. FirstSession'
  BY <1>1, <1>2 DEF TypeOK, FirstSession, Places
<1> QED BY <1>3, <1>4, <1>5, <1>6, <1>7

(* fclose(tmp1) gives the number of the reading stream back. *)
LEMMA FcloseTmp1Keeps == ConsoleInv /\ FcloseTmp1 => ConsoleInv'
<1> SUFFICES ASSUME ConsoleInv, FcloseTmp1 PROVE ConsoleInv'
  OBVIOUS
<1> USE DEF ConsoleInv, FcloseTmp1
<1>1. tmp1 \in Fd /\ tmp1 \notin {stdout.fd, stdout_, csocket}
  BY DEF TypeOK, Places, Distinct
<1>2. TypeOK'
  BY <1>1 DEF TypeOK, Object
<1>3. Distinct' /\ InUse' /\ Accounted'
  BY <1>1 DEF TypeOK, Distinct, InUse, Accounted, Names, Kept
<1>4. OwnAreThree'
  BY <1>1 DEF TypeOK, OwnAreThree
<1>5. Places' /\ HeldDescriptorsAreOwn'
  BY <1>1 DEF TypeOK, Places, HeldDescriptorsAreOwn
<1>6. FirstSession'
  BY <1>1 DEF TypeOK, FirstSession, Places
<1> QED BY <1>2, <1>3, <1>4, <1>5, <1>6

(* The stream that truncates the file is closed again. *)
LEMMA TruncateKeeps == ConsoleInv /\ Truncate => ConsoleInv'
<1> SUFFICES ASSUME ConsoleInv, Truncate PROVE ConsoleInv'
  OBVIOUS
<1>1. CASE Crash
  BY <1>1, CrashKeeps DEF Truncate
<1>2. CASE ~Crash
  <2> USE <1>2 DEF ConsoleInv, Truncate
  <2>1. TypeOK' /\ HeldDescriptorsAreOwn'
    BY DEF TypeOK, HeldDescriptorsAreOwn
  <2>2. Distinct' /\ InUse' /\ Accounted' /\ OwnAreThree'
    BY DEF Distinct, InUse, Accounted, Names, OwnAreThree
  <2>3. Places' /\ FirstSession'
    BY DEF Places, FirstSession
  <2> QED BY <2>1, <2>2, <2>3
<1> QED BY <1>1, <1>2

(* The end of a session closes the stream and the socket; the descriptor   *)
(* that dup saved is neither of them, and becomes the stream's.            *)
LEMMA EndSessionKeeps == ConsoleInv /\ EndSession => ConsoleInv'
<1> SUFFICES ASSUME ConsoleInv, EndSession PROVE ConsoleInv'
  OBVIOUS
<1>1. CASE Crash
  BY <1>1, CrashKeeps DEF EndSession
<1>2. CASE ~Crash
  <2> USE <1>2 DEF ConsoleInv, EndSession
  <2>1. stdout_ \in Fd /\ stdout_ # None /\ stdout_ \notin {stdout.fd, csocket} /\ tmp1 = None
    BY DEF TypeOK, Places, Distinct
  <2>2. stdout'.fd = stdout_ /\ fds'[stdout_] = fds[stdout_]
    BY <2>1
  <2>3. TypeOK'
    BY <2>1 DEF TypeOK, Object
  <2>4. Distinct'
    BY <2>1, <2>2 DEF Distinct
  <2>5. InUse' /\ Accounted'
    BY <2>1, <2>2 DEF TypeOK, InUse, Accounted, Names, Kept
  <2>6. OwnAreThree'
    BY <2>3, OwnStays DEF TypeOK
  <2>7. Places' /\ HeldDescriptorsAreOwn'
    BY <2>1 DEF TypeOK, Places, HeldDescriptorsAreOwn
  <2>8. FirstSession'
    BY <2>1, <2>2 DEF TypeOK, FirstSession, Places
  <2> QED BY <2>3, <2>4, <2>5, <2>6, <2>7, <2>8
<1> QED BY <1>1, <1>2

(* The server thread takes a free descriptor and gives back its own. *)
LEMMA ServerKeeps == ConsoleInv /\ (ServerAccepts \/ ServerCloses) => ConsoleInv'
<1> SUFFICES ASSUME ConsoleInv, NEW f \in Fd, NEW o \in {"free", "peer"},
                    fds[f] \in {"free", "peer"}, fds' = [fds EXCEPT ![f] = o],
                    UNCHANGED <<pc, stdout, stdout_, csocket, tmp1, err_count, sessions>>
             PROVE  ConsoleInv'
  BY LowestIsFree DEF ServerAccepts, ServerCloses
<1> USE DEF ConsoleInv
<1>1. f \notin Names
  BY DEF InUse, Names, Kept, Fd, None
<1>2. TypeOK'
  BY DEF TypeOK, Object
<1>3. Distinct' /\ InUse' /\ Accounted'
  BY <1>1 DEF TypeOK, Distinct, InUse, Accounted, Names, Kept
<1>4. OwnAreThree'
  BY <1>2, OwnStays DEF TypeOK
<1>5. Places' /\ HeldDescriptorsAreOwn'
  BY <1>1 DEF TypeOK, Places, HeldDescriptorsAreOwn, Names
<1>6. FirstSession'
  BY <1>1 DEF TypeOK, FirstSession, Names
<1> QED BY <1>2, <1>3, <1>4, <1>5, <1>6

(* Every step keeps the inductive invariant. *)
LEMMA ConsoleStep == ConsoleInv /\ [Next]_vars => ConsoleInv'
<1>1. ConsoleInv /\ UNCHANGED vars => ConsoleInv'
  BY DEF vars, ConsoleInv, TypeOK, Distinct, InUse, Accounted, OwnAreThree, Places,
         FirstSession, HeldDescriptorsAreOwn, Names
<1> QED
  BY <1>1, ListenKeeps, AcceptKeeps, DupKeeps, RecvKeeps, FreopenKeeps, FopenKeeps,
     FcloseTmpKeeps, FcloseTmp1Keeps, TruncateKeeps, EndSessionKeeps, ServerKeeps
  DEF Next, Console

(* The invariant the theorems below follow from. *)
LEMMA ConsoleInvariant == Spec => []ConsoleInv
  BY ConsoleInit, ConsoleStep, PTL DEF Spec
-----------------------------------------------------------------------------
(* The type invariant: every variable that names a descriptor names one of *)
(* the table or none, and the session counter stays within its bound.      *)
THEOREM ConsoleTypeCorrect == Spec => []TypeOK
<1>1. ConsoleInv => TypeOK
  BY DEF ConsoleInv
<1> QED BY <1>1, ConsoleInvariant, PTL

(* No number the console still uses has been given to anybody else, in     *)
(* whatever order freopen, fopen, the closes and the server thread's       *)
(* accepts pick the lowest free descriptor.                                *)
THEOREM HeldTheorem == Spec => []HeldDescriptorsAreOwn
<1>1. ConsoleInv => HeldDescriptorsAreOwn
  BY DEF ConsoleInv
<1> QED BY <1>1, ConsoleInvariant, PTL

(* One more member adds at most one to the size of a set. *)
LEMMA AtMostOneMore ==
    ASSUME NEW S, IsFiniteSet(S), NEW n \in Nat, Cardinality(S) <= n, NEW x
    PROVE  IsFiniteSet(S \cup {x}) /\ Cardinality(S \cup {x}) <= n + 1
<1> DEFINE m == Cardinality(S)
           k == Cardinality(S \cup {x})
<1>1. m \in Nat /\ m <= n
  BY FS_CardinalityType
<1>2. IsFiniteSet(S \cup {x}) /\ (k = m \/ k = m + 1)
  BY FS_AddElement
<1> HIDE DEF m, k
<1>3. k <= n + 1
  BY <1>1, <1>2
<1> QED BY <1>2, <1>3 DEF k

(* A set of at most four named members. *)
LEMMA AtMostFour ==
    ASSUME NEW a, NEW b, NEW c, NEW d, NEW S \in SUBSET {a, b, c, d}
    PROVE  Cardinality(S) <= 4
<1> DEFINE T1 == {a}
           T2 == T1 \cup {b}
           T3 == T2 \cup {c}
           T4 == T3 \cup {d}
<1>1. S \in SUBSET T4
  OBVIOUS
<1>2. IsFiniteSet(T1) /\ Cardinality(T1) <= 1
  BY FS_Singleton
<1> HIDE DEF T1
<1>3. IsFiniteSet(T2) /\ Cardinality(T2) <= 1 + 1
  BY <1>2, AtMostOneMore
<1> HIDE DEF T2
<1>4. IsFiniteSet(T3) /\ Cardinality(T3) <= 2 + 1
  <2>1. Cardinality(T2) <= 2 /\ 2 \in Nat
    BY <1>3
  <2> QED BY <1>3, <2>1, AtMostOneMore, Zenon
<1> HIDE DEF T3
<1>5. IsFiniteSet(T4) /\ Cardinality(T4) <= 3 + 1
  BY <1>4, AtMostOneMore
<1> HIDE DEF T4
<1>6. IsFiniteSet(S) /\ Cardinality(S) <= Cardinality(T4)
  BY <1>1, <1>5, FS_Subset
<1>7. Cardinality(S) \in Nat /\ Cardinality(T4) \in Nat
  BY <1>5, <1>6, FS_CardinalityType
<1> QED BY <1>5, <1>6, <1>7

(* However many clients came and went, between two of them the console     *)
(* holds stdin, stderr, its listening socket and stdout, and nothing else. *)
THEOREM BalanceTheorem == Spec => []DescriptorsBalance
<1>1. ConsoleInv => DescriptorsBalance
  <2> SUFFICES ASSUME ConsoleInv, pc = "accept"
               PROVE  Cardinality({f \in Fd : fds[f] \notin {"free", "peer"}}) <= 4
    BY DEF DescriptorsBalance
  <2> DEFINE Open == {f \in Fd : fds[f] \notin {"free", "peer"}}
  <2>1. PICK l \in Fd : \A f \in Fd : fds[f] = "own" => f \in {0, 2, l}
    BY DEF ConsoleInv, OwnAreThree
  <2>2. Names \subseteq {stdout.fd, None} /\ None \notin Fd
    BY DEF ConsoleInv, Places, Names, Fd, None
  <2>3. \A f \in Open : fds[f] = "own" \/ fds[f] \in Kept
    BY DEF ConsoleInv, TypeOK, Kept
  <2>4. Open \subseteq {0, 2, l, stdout.fd}
    BY <2>1, <2>2, <2>3 DEF ConsoleInv, Accounted
  <2>5. Cardinality(Open) <= 4
    <3> HIDE DEF Open
    <3> QED BY <2>4, AtMostFour
  <2> QED BY <2>5
<1> QED BY <1>1, ConsoleInvariant, PTL

(* The first client that leaves gives the process the stdout it had: no    *)
(* step of its session loses the descriptor that dup saved.                *)
THEOREM StdoutTheorem == Spec => []FirstSessionRestoresStdout
<1>1. ConsoleInv => FirstSessionRestoresStdout
  BY DEF ConsoleInv, TypeOK, FirstSession, FirstSessionRestoresStdout, None
<1> QED BY <1>1, ConsoleInvariant, PTL

(* Only the server thread closes its connections: every descriptor a step  *)
(* of the console writes to was free or is one the console holds.          *)
THEOREM PeersTheorem == Spec => PeersAreLeftAlone
<1> DEFINE Alone == \A f \in Fd : fds[f] = "peer" /\ fds'[f] # "peer" => ServerCloses
<1>1. ASSUME ConsoleInv, [Next]_vars PROVE [Alone]_vars
  <2> SUFFICES ASSUME NEW f \in Fd, fds[f] = "peer", ~ServerCloses, Next
               PROVE  fds'[f] = "peer"
    BY <1>1
  <2> USE <1>1 DEF ConsoleInv
  <2>1. f \notin Names /\ f # None
    BY DEF InUse, Names, Kept, Fd, None
  <2>2. Lowest # None => Lowest \in Fd /\ fds[Lowest] = "free"
    BY LowestIsFree
  <2>3. CASE luaServInit
    BY <2>2, <2>3 DEF luaServInit, TypeOK
  <2>4. CASE Accept
    BY <2>2, <2>4 DEF Accept, TypeOK
  <2>5. CASE Dup
    BY <2>2, <2>5 DEF Dup, TypeOK
  <2>6. CASE Recv
    BY <2>6 DEF Recv
  <2>7. CASE Freopen
    BY <2>1, <2>2, <2>7 DEF Freopen, Crash, TypeOK, Names
  <2>8. CASE Fopen
    BY <2>2, <2>8 DEF Fopen, Crash, TypeOK
  <2>9. CASE FcloseTmp
    BY <2>1, <2>9 DEF FcloseTmp, TypeOK, Names
  <2>10. CASE FcloseTmp1
    BY <2>1, <2>10 DEF FcloseTmp1, TypeOK, Names
  <2>11. CASE EndSession
    BY <2>1, <2>11 DEF EndSession, Crash, TypeOK, Names
  <2>12. CASE ServerAccepts
    BY <2>2, <2>12 DEF ServerAccepts, TypeOK
  <2>13. CASE Truncate
    BY <2>13 DEF Truncate, Crash
  <2> QED
    BY <2>3, <2>4, <2>5, <2>6, <2>7, <2>8, <2>9, <2>10, <2>11, <2>12, <2>13 DEF Next, Console
<1>2. ConsoleInv /\ [Next]_vars => [Alone]_vars
  BY <1>1
<1> QED BY <1>2, ConsoleInvariant, PTL DEF Spec, PeersAreLeftAlone
=============================================================================
