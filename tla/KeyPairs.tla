------------------------------- MODULE KeyPairs -------------------------------
(***************************************************************************)
(* X25519 key pairs as Lua scripts hold them: the wrapper objects of       *)
(* baes:newKeyPair (src/src/luasubmodules/bencdec.lua), the bindings of    *)
(* src/libbacteria/lua/libencdec.c and the functions of                    *)
(* src/libbacteria/encdec/async/x25519.c under them.                       *)
(*                                                                         *)
(* A private key is a number, the public key that belongs to it is the     *)
(* same number, and the secret two parties derive is the set of both: the  *)
(* key agreement commutes.  A Lua error leaves the state as it is and is   *)
(* not a step.  OpenSSL may fail at most MaxFaults times.                  *)
(***************************************************************************)
EXTENDS Integers, FiniteSets

CONSTANTS Vars,      \* the script's variables that hold a newKeyPair object
          MaxKeys,   \* bound on the keys generated
          MaxFaults, \* bound on the failures of OpenSSL
          MaxOps     \* bound on the calls the script makes

ASSUME KeyAssumption == {MaxKeys, MaxFaults, MaxOps} \subseteq Nat

VARIABLES keyPair,  \* obj.keyPair of each object
          owner,    \* history: whose key each object was given
          file,     \* the key file
          made,     \* keys generated so far
          open,     \* streams of key files that were never closed
          faults,   \* failures of OpenSSL so far
          process,  \* whether the process runs, has crashed or loops for ever
          ops       \* calls so far

keyVars == <<keyPair, owner, file, made, open, faults, process, ops>>

Key == 1 .. MaxKeys
Table == [kind |-> "table"]      \* obj.keyPair = {}: lua_touserdata gives NULL
Wild == [kind |-> "wild"]        \* a userdata whose pointers are not valid
Pair(k, p) == [kind |-> "pair", priv |-> k, pub |-> p]
IsPair(h) == h.kind = "pair"

(* What the key file may hold: there is none, a text without the PEM       *)
(* header (or nothing: the test for an empty file mixes up the arguments   *)
(* of fseek and never succeeds), a header without a key, or a private key. *)
Absent == [kind |-> "absent"]
Text == [kind |-> "text"]
Broken == [kind |-> "broken"]
Pem(k, o) == [kind |-> "pem", key |-> k, of |-> o]

Nobody == 0

(* The file may be left over from anything that ran before. *)
KeyInit ==
    /\ keyPair = [v \in Vars |-> Table]
    /\ owner = [v \in Vars |-> Nobody]
    /\ file \in {Absent, Text, Broken}
    /\ made = 0 /\ open = 0 /\ faults = 0 /\ ops = 0
    /\ process = "running"

(* The script calls a function. *)
Op == process = "running" /\ ops < MaxOps /\ ops' = ops + 1

(* initKeyPair's guard `not obj.keyPair == {}` is never true, so an old    *)
(* pair is overwritten without being freed.                                *)
Hold(v, h, o) ==
    /\ keyPair' = [keyPair EXCEPT ![v] = h]
    /\ owner' = [owner EXCEPT ![v] = o]
-----------------------------------------------------------------------------
(* encdec.getKeyPair(). *)
Generate(v) ==
    /\ Op /\ made < MaxKeys
    /\ made' = made + 1
    /\ Hold(v, Pair(made + 1, made + 1), made + 1)
    /\ UNCHANGED <<file, open, faults, process>>

(* When OpenSSL gives no context, to getKeyPair or to createKeyPair, the   *)
(* structure comes back uninitialised: if its context happens to be NULL a *)
(* Lua error follows, otherwise the script gets what was on the stack.     *)
(* The result of the key generation itself is used without a test.         *)
GenerateFails(v) ==
    /\ Op /\ faults < MaxFaults
    /\ faults' = faults + 1
    /\ \/ Hold(v, Wild, Nobody) /\ process' = process
       \/ UNCHANGED <<keyPair, owner, process>>
       \/ process' = "crashed" /\ UNCHANGED <<keyPair, owner>>
    /\ UNCHANGED <<file, made, open>>

(* Mutant of x25519_createKeyPair: the arguments arrive in Lua's order. *)
x25519_createKeyPairSwapped(priv, pub) == Pair(pub, pub)

(* Mutant of x25519_createKeyPair: the public key stays as bzero left it. *)
x25519_createKeyPairBlank(priv, pub) == Pair(priv, Nobody)

(* The public key handed to createKeyPair is not used: it is derived from  *)
(* the private one.                                                        *)
x25519_createKeyPair(priv, pub) == Pair(priv, priv)

(* initKeyPair(pub, priv) with the public key of u and the private key     *)
(* of w.                                                                   *)
Create(v, u, w) ==
    /\ Op
    /\ IsPair(keyPair[u]) /\ IsPair(keyPair[w])
    /\ Hold(v, x25519_createKeyPair(keyPair[w].priv, keyPair[u].pub), owner[w])
    /\ UNCHANGED <<file, made, open, faults, process>>

(* saveKeyPairToFile: the pair of v is written, whatever was there. *)
Save(v) ==
    /\ Op /\ IsPair(keyPair[v])
    /\ file' = Pem(keyPair[v].priv, owner[v])
    /\ UNCHANGED <<keyPair, owner, made, open, faults, process>>

(* initKeyPairFromFile.  The stream is not closed when a key was read, and *)
(* the file is used before the pointer is tested for NULL.                 *)
Load(v) ==
    /\ Op
    /\ \/ /\ file.kind = "pem"
          /\ Hold(v, x25519_createKeyPair(file.key, file.key), file.of)
          /\ open' = open + 1
          /\ process' = process
       \/ /\ file.kind = "text"
          /\ \/ Hold(v, Wild, Nobody)
             \/ UNCHANGED <<keyPair, owner>>
          /\ UNCHANGED <<open, process>>
       \/ /\ file.kind \in {"absent", "broken"}
          /\ process' = "crashed"
          /\ UNCHANGED <<keyPair, owner, open>>
    /\ UNCHANGED <<file, made, faults>>

(* encdec.freeKeyPair: the pointers stay in the userdata. *)
FreeKeyPair(v) ==
    /\ Op /\ IsPair(keyPair[v])
    /\ Hold(v, Wild, Nobody)
    /\ UNCHANGED <<file, made, open, faults, process>>

(* Freeing, saving or asking a wild userdata follows its pointers. *)
UseWild(v) ==
    /\ Op /\ keyPair[v] = Wild
    /\ process' = "crashed"
    /\ UNCHANGED <<keyPair, owner, file, made, open, faults>>

(* getSharedKey(obj.keyPair, key). *)
x25519_getSharedKey(v, pub) == {keyPair[v].priv, pub}

KeyStep ==
    \E v \in Vars :
        \/ Generate(v) \/ GenerateFails(v)
        \/ \E u, w \in Vars : Create(v, u, w)
        \/ Save(v) \/ Load(v) \/ FreeKeyPair(v) \/ UseWild(v)
-----------------------------------------------------------------------------
Handle == {Table, Wild} \cup {Pair(k, p) : k \in Key, p \in Key}

KeyTypeOK ==
    /\ keyPair \in [Vars -> Handle]
    /\ owner \in [Vars -> Key \cup {Nobody}]
    /\ file \in {Absent, Text, Broken} \cup {Pem(k, o) : k \in Key, o \in Key}
    /\ made \in 0 .. MaxKeys
    /\ open \in 0 .. ops
    /\ ops \in 0 .. MaxOps
    /\ faults \in 0 .. MaxFaults
    /\ process \in {"running", "crashed", "hung"}

(* A pair that a script holds is that of its owner, and its public half    *)
(* belongs to its private half; so does the key in the file.               *)
PairIsOwners ==
    /\ \A v \in Vars : IsPair(keyPair[v]) =>
           keyPair[v].priv = owner[v] /\ keyPair[v].pub = owner[v]
    /\ file.kind = "pem" => file.key = file.of
===============================================================================
