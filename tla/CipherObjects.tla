----------------------------- MODULE CipherObjects -----------------------------
(***************************************************************************)
(* Symmetric encryption as Lua scripts use it: the objects of baes:new     *)
(* (src/src/luasubmodules/bencdec.lua), the bindings of                    *)
(* src/libbacteria/lua/libencdec.c and AES_any_encrypt/decrypt of          *)
(* src/libbacteria/encdec/sync/AES.c, on top of the key pairs of KeyPairs. *)
(*                                                                         *)
(* A message is its length.  A block of data is known by what it holds,    *)
(* its size, how many leading bytes are as they should be, where its first *)
(* zero byte is and whether a zero follows it: getAESData reads it as a C  *)
(* string.  The ciphers are ideal: decrypting with another key, vector or  *)
(* algorithm yields noise, and where there is padding mostly a failure.    *)
(***************************************************************************)
EXTENDS KeyPairs, FiniteSetsExt

CONSTANTS Objs,        \* the baes objects a script makes
          Messages,    \* the messages, each one named by its length
          Ivs,         \* initialisation vectors
          ShortIvs,    \* those whose C string is not 16 bytes long
          ZeroSecrets, \* the shared secrets that contain a zero byte
          TextLens,    \* lengths of the keys a script types in
          Types,       \* AESENCType values, each the set of its bits
          ZeroAt,      \* bound: where the first zero byte of a block may be
          Sizes        \* sizes a script may give to setAESData_enc

ASSUME CipherAssumption ==
    /\ Messages \subseteq Nat /\ TextLens \subseteq Nat
    /\ ZeroAt \subseteq Nat /\ Sizes \subseteq Nat
    /\ Types \subseteq SUBSET {"cbc", "ecb", "chacha20"}

VARIABLES aes,   \* the objects
          text,  \* the string the script read from getAESData_enc last
          tame,  \* history: no text was longer than the bytes it stands for
          term   \* the last terminator written: where, and into how many bytes

cipherVars == <<aes, text, tame, term>>
vars == <<keyVars, cipherVars>>

Nil == [kind |-> "nil"]
Made(o) == aes[o].kind = "object"

Cipher(m, k, i, a, by) ==
    [form |-> "cipher", msg |-> m, key |-> k, iv |-> i, algo |-> a, by |-> by]
Plain(m) == [form |-> "plain", msg |-> m]
Noise == [form |-> "noise"]

(* struct lua_AESData. *)
Data(c, n, g, z, e) ==
    [kind |-> "data", what |-> c, size |-> n, good |-> g, zero |-> z, ended |-> e]

Init ==
    /\ KeyInit
    /\ aes = [o \in Objs |-> Nil]
    /\ text = Nil
    /\ tame = TRUE
    /\ term = [op |-> "none", algo |-> "none", asked |-> 0, index |-> 0]

(* A method of an object is called. *)
Call(o) == Op /\ Made(o)

(* What malloc(n) of glibc really gives on a 64-bit machine. *)
Usable(n) == IF n <= 24 THEN 24 ELSE ((n + 23) \div 16) * 16 - 8

(* INITENCTYPE and INITDECTYPE: the bits are tested in this order. *)
Algo(t) ==
    IF "cbc" \in t THEN "cbc"
    ELSE IF "ecb" \in t THEN "ecb"
    ELSE IF "chacha20" \in t THEN "chacha20" ELSE "none"

FirstZero(n) == {z \in ZeroAt : z < n} \cup {n}
-----------------------------------------------------------------------------
(* The constructor: both data fields are empty tables. *)
Object(k, i, by) ==
    [kind |-> "object", key |-> k, iv |-> i, by |-> by, enc |-> Table, dec |-> Table,
     from |-> Noise, with |-> "none", whole |-> FALSE]

(* baes:new(k:getSharedKey(pub), iv). *)
NewFromExchange(o, v, w, i) ==
    /\ Op /\ ~Made(o)
    /\ IsPair(keyPair[v]) /\ IsPair(keyPair[w])
    /\ LET s == x25519_getSharedKey(v, keyPair[w].pub)
           k == [secret |-> s, strlen |-> IF s \in ZeroSecrets THEN 31 ELSE 32]
       IN aes' = [aes EXCEPT ![o] = Object(k, i, <<owner[v], owner[w]>>)]
    /\ UNCHANGED <<keyPair, owner, file, made, open, faults, process, text, tame, term>>

(* A public key that is none: a NULL result of unknown length is pushed,   *)
(* which crashes or gives the empty string; baes:new then pads the         *)
(* parameter, not the key, for ever.                                       *)
ExchangeFails(v) ==
    /\ Op /\ IsPair(keyPair[v])
    /\ process' \in {"crashed", "hung"}
    /\ UNCHANGED <<keyPair, owner, file, made, open, faults, cipherVars>>

(* The loop of baes:new: a long key is cut, one byte is added once. *)
Padded(n) == n >= 31

(* baes:new with a key of n characters. *)
NewFromText(o, n, i) ==
    /\ Op /\ ~Made(o)
    /\ \/ /\ Padded(n)
          /\ aes' = [aes EXCEPT ![o] =
                        Object([secret |-> {-n}, strlen |-> 32], i, <<-n, -n>>)]
          /\ process' = process
       \/ /\ ~Padded(n)
          /\ process' = "hung"
          /\ aes' = aes
    /\ UNCHANGED <<keyPair, owner, file, made, open, faults, text, tame, term>>
-----------------------------------------------------------------------------
(* The length test of AES_any_encrypt and AES_any_decrypt. *)
Accepted(k, i) == k.strlen = 32 /\ i \notin ShortIvs

(* EVP_EncryptUpdate and EVP_EncryptFinal_ex. *)
CipherLen(a, n) == IF a = "chacha20" THEN n ELSE (n \div 16 + 1) * 16

Encrypted(m, k, i, a, by) ==
    {Data(Cipher(m, k, i, a, by), CipherLen(a, m), CipherLen(a, m), z, TRUE) :
        z \in FirstZero(CipherLen(a, m))}

Refused(m, k, i, a) == m = 0 \/ a = "none" \/ ~Accepted(k, i)

(* Mutant of EncRoom: nothing is asked for the padding. *)
EncRoomBare(m) == m

(* The bytes lua_AESenc asks for. *)
EncRoom(m) == m + 16

(* obj:encrypt(m, t): lua_AESenc, with the terminator behind the result. *)
Encrypt(o, m, t) ==
    /\ Call(o)
    /\ LET a == Algo(t)
           k == aes[o].key
           i == aes[o].iv
       IN \/ /\ ~Refused(m, k, i, a)
             /\ \E d \in Encrypted(m, k, i, a, aes[o].by) :
                    aes' = [aes EXCEPT ![o].enc = d]
             /\ term' = [op |-> "enc", algo |-> a, asked |-> EncRoom(m),
                         index |-> CipherLen(a, m)]
             /\ faults' = faults
          \/ /\ Refused(m, k, i, a)
             /\ aes' = [aes EXCEPT ![o].enc = Nil]
             /\ UNCHANGED <<term, faults>>
          \/ /\ ~Refused(m, k, i, a) /\ faults < MaxFaults
             /\ aes' = [aes EXCEPT ![o].enc = Nil]
             /\ faults' = faults + 1
             /\ term' = term
    /\ UNCHANGED <<keyPair, owner, file, made, open, process, text, tame>>

Genuine(d, k, i, a) ==
    /\ d.what.form = "cipher"
    /\ d.what.key = k /\ d.what.algo = a
    /\ a = "ecb" \/ d.what.iv = i

(* Every byte of the encrypted message is there, and no other. *)
Whole(d) ==
    /\ d.what.form = "cipher"
    /\ d.good = d.size /\ d.size = CipherLen(d.what.algo, d.what.msg)

(* A stream cipher decrypts byte by byte. *)
Stream(d, genuine) ==
    LET g == IF genuine THEN Min({d.good, d.size, d.what.msg}) ELSE 0
    IN {Data(IF genuine THEN Plain(d.what.msg) ELSE Noise, d.size, g, z, TRUE) :
           z \in {y \in FirstZero(d.size) : y >= g}}

(* A block cipher must find whole blocks and a valid padding at the end.   *)
(* A damaged end is mostly refused, but may look like a padding.           *)
Blocks(d, genuine) ==
    IF d.size % 16 # 0 THEN {Nil}
    ELSE IF genuine /\ Whole(d)
    THEN {Data(Plain(d.what.msg), d.what.msg, d.what.msg, d.what.msg, TRUE)}
    ELSE {Nil} \cup
         {Data(IF genuine THEN Plain(d.what.msg) ELSE Noise, n,
               IF genuine THEN Min({n, (d.good \div 16) * 16, d.what.msg}) ELSE 0, n, TRUE) :
             n \in {d.size - 1, d.size - 16} \ {0}}

Decrypted(d, k, i, a) ==
    IF a = "chacha20" THEN Stream(d, Genuine(d, k, i, a))
                      ELSE Blocks(d, Genuine(d, k, i, a))

(* lua_AESdec leaves without a result unless there is something to decrypt. *)
HasData(d) == d.kind = "data" /\ d.size # 0

Decryptable(d, k, i, a) == HasData(d) /\ a # "none" /\ Accepted(k, i)

(* obj:decrypt(p:getAESData_rawEnc(), t): lua_AESdec. *)
Decrypt(o, p, t) ==
    /\ Call(o) /\ Made(p)
    /\ aes[p].enc # Wild
    /\ LET a == Algo(t)
           d == aes[p].enc
           k == aes[o].key
           i == aes[o].iv
       IN \/ /\ ~Decryptable(d, k, i, a)
             /\ aes' = [aes EXCEPT ![o].dec = Nil, ![o].from = Noise, ![o].whole = FALSE]
             /\ UNCHANGED <<term, faults>>
          \/ /\ Decryptable(d, k, i, a)
             /\ \E r \in Decrypted(d, k, i, a) :
                 /\ aes' = [aes EXCEPT ![o].dec = r, ![o].from = d.what,
                                       ![o].with = a, ![o].whole = Whole(d)]
                 /\ term' = IF r = Nil THEN term
                            ELSE [op |-> "dec", algo |-> a, asked |-> d.size,
                                  index |-> r.size]
             /\ faults' = faults
          \/ /\ Decryptable(d, k, i, a) /\ faults < MaxFaults
             /\ aes' = [aes EXCEPT ![o].dec = Nil, ![o].from = Noise, ![o].whole = FALSE]
             /\ faults' = faults + 1
             /\ term' = term
    /\ UNCHANGED <<keyPair, owner, file, made, open, process, text, tame>>
-----------------------------------------------------------------------------
(* The string lua_pushstring makes of a block: up to its first zero, and   *)
(* past its end when nothing stops there.                                  *)
Strings(d) ==
    LET ends == IF d.zero < d.size \/ d.ended THEN {d.zero} ELSE {d.size, d.size + 1}
    IN {[kind |-> "text", what |-> d.what, len |-> n, good |-> Min({n, d.good})] : n \in ends}

(* obj:getAESData_enc(). *)
GetText(o) ==
    /\ Call(o)
    /\ LET d == aes[o].enc
       IN \/ /\ HasData(d)
             /\ \E x \in Strings(d) :
                 /\ text' = x
                 /\ tame' = (tame /\ (d.ended \/ d.zero < d.size))
          \/ /\ ~HasData(d) /\ d # Wild
             /\ text' = Nil
             /\ tame' = tame
    /\ UNCHANGED <<keyPair, owner, file, made, open, faults, process, aes, term>>

(* createAESData: strncpy copies the string or its beginning, and pads     *)
(* with zeros.                                                             *)
createAESData(x, n) ==
    Data(x.what, n, Min({n, x.good}), Min({n, x.len}), n > x.len)

(* Mutant of DefaultSize: room for a terminator is counted in. *)
DefaultSizeOver(x) == x.len + 1

(* size = size or string.len(msg). *)
DefaultSize(x) == x.len

(* obj:setAESData_enc(text, size). *)
SetText(o) ==
    /\ Call(o) /\ text.kind = "text"
    /\ \/ /\ aes' = [aes EXCEPT ![o].enc = createAESData(text, DefaultSize(text))]
          /\ tame' = tame
       \/ \E n \in Sizes :
          /\ aes' = [aes EXCEPT ![o].enc = createAESData(text, n)]
          /\ tame' = (tame /\ n <= text.len)
    /\ UNCHANGED <<keyPair, owner, file, made, open, faults, process, text, term>>

(* encdec.freeAESData(obj:getAESData_rawEnc()): the pointer stays. *)
FreeData(o) ==
    /\ Call(o) /\ aes[o].enc.kind = "data"
    /\ aes' = [aes EXCEPT ![o].enc = Wild]
    /\ UNCHANGED <<keyPair, owner, file, made, open, faults, process, text, tame, term>>

(* Whatever uses the freed block. *)
UseFreed(o) ==
    /\ Op /\ Made(o) /\ aes[o].enc = Wild
    /\ process' = "crashed"
    /\ UNCHANGED <<keyPair, owner, file, made, open, faults, cipherVars>>

(* obj:clear() of both kinds of objects frees nothing: its guard           *)
(* `not x == nil` compares a boolean with nil.                             *)
Next ==
    \/ KeyStep /\ UNCHANGED cipherVars
    \/ \E v \in Vars : ExchangeFails(v)
    \/ \E o \in Objs :
        \/ \E i \in Ivs, v, w \in Vars : NewFromExchange(o, v, w, i)
        \/ \E i \in Ivs, n \in TextLens : NewFromText(o, n, i)
        \/ \E m \in Messages, t \in Types : Encrypt(o, m, t)
        \/ \E p \in Objs, t \in Types : Decrypt(o, p, t)
        \/ GetText(o) \/ SetText(o) \/ FreeData(o) \/ UseFreed(o)

Spec == Init /\ [][Next]_vars
-----------------------------------------------------------------------------
(* The variables keep their types. *)
TypeOK ==
    /\ KeyTypeOK
    /\ \A o \in Objs : Made(o) =>
           /\ aes[o].enc.kind \in {"table", "nil", "wild", "data"}
           /\ aes[o].dec.kind \in {"table", "nil", "data"}
           /\ aes[o].key.strlen \in {31, 32}
    /\ tame \in BOOLEAN
    /\ term.asked \in Nat /\ term.index \in Nat

(* Where the terminator of a decrypted stream falls outside its block:     *)
(* lua_AESdec asks for as many bytes as there are, and malloc adds none.   *)
Exact(t) == t.op = "dec" /\ t.algo = "chacha20" /\ t.asked >= 24 /\ t.asked % 16 = 8

(* lua_AESenc and lua_AESdec write a terminator behind their result        *)
(* without having asked for its byte.  It falls into the bytes malloc adds *)
(* in every case but Exact, where it never does.                           *)
TerminatorFits == term.index < Usable(term.asked) <=> ~Exact(term)

Partner(o) == <<aes[o].by[2], aes[o].by[1]>>

FromPartner(o) ==
    /\ Made(o) /\ aes[o].dec.kind = "data" /\ aes[o].from.form = "cipher"
    /\ aes[o].from.by = Partner(o)
    /\ aes[o].from.algo = aes[o].with /\ aes[o].from.iv = aes[o].iv

(* Two parties that derived their keys from each other's public keys, from *)
(* generated, copied or reloaded pairs, read each other's messages: with   *)
(* the same vector and algorithm, what one decrypts of the other's is the  *)
(* message, all of it if the whole ciphertext arrived.                     *)
PartnerReadsMessage ==
    \A o \in Objs : FromPartner(o) =>
        /\ aes[o].dec.what = Plain(aes[o].from.msg)
        /\ aes[o].whole => aes[o].dec.size = aes[o].from.msg

(* A ciphertext that is handed on as a string loses what follows its first *)
(* zero byte; what the partner then reads is a beginning of the message    *)
(* and nothing else, as long as no string was read past its block or       *)
(* declared longer than it is.                                             *)
TextIsPrefix ==
    \A o \in Objs : tame /\ FromPartner(o) => aes[o].dec.size <= aes[o].dec.good
===============================================================================
