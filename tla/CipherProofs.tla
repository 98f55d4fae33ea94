------------------------------ MODULE CipherProofs ------------------------------
(***************************************************************************)
(* Proofs about key pairs and cipher objects, for every set of messages,   *)
(* vectors and sizes, and every number of keys, failures and calls.        *)
(***************************************************************************)
EXTENDS CipherObjects, TLAPS

KeyInv == KeyTypeOK /\ PairIsOwners

(* The constructors of handles and files tell each other apart. *)
LEMMA HandleFacts ==
    /\ Table \in Handle /\ Wild \in Handle /\ ~IsPair(Table) /\ ~IsPair(Wild)
    /\ \A k, p \in Key : /\ Pair(k, p) \in Handle /\ IsPair(Pair(k, p))
                         /\ Pair(k, p).priv = k /\ Pair(k, p).pub = p
    /\ \A h \in Handle : IsPair(h) => h.priv \in Key /\ h.pub \in Key
<1>1. /\ Table \in Handle /\ Wild \in Handle /\ ~IsPair(Table) /\ ~IsPair(Wild)
  BY DEF Table, Wild, Handle, IsPair
<1>2. ASSUME NEW k \in Key, NEW p \in Key
      PROVE  /\ Pair(k, p) \in Handle /\ IsPair(Pair(k, p))
             /\ Pair(k, p).priv = k /\ Pair(k, p).pub = p
  <2>1. Pair(k, p) \in {Pair(i, j) : i \in Key, j \in Key}
    OBVIOUS
  <2> QED BY <2>1 DEF Handle, Pair, IsPair
<1>3. ASSUME NEW h \in Handle, IsPair(h) PROVE h.priv \in Key /\ h.pub \in Key
  <2>1. h \in {Pair(i, j) : i \in Key, j \in Key}
    BY <1>1, <1>3 DEF Handle
  <2>2. PICK i \in Key, j \in Key : h = Pair(i, j)
    BY <2>1
  <2> QED BY <2>2, <1>2
<1> QED BY <1>1, <1>2, <1>3

(* No object holds a pair at first. *)
LEMMA KeyInitial == KeyInit => KeyInv
BY KeyAssumption, HandleFacts DEF KeyInit, KeyInv, KeyTypeOK, PairIsOwners, Absent, Text, Broken, Nobody

(* What v is given is no pair, or the whole pair of the owner. *)
LEMMA HoldKeeps ==
    ASSUME KeyInv, NEW v \in Vars, NEW h \in Handle, NEW o \in Key \cup {Nobody}, Hold(v, h, o),
           IsPair(h) => h.priv = o /\ h.pub = o
    PROVE  /\ keyPair' \in [Vars -> Handle] /\ owner' \in [Vars -> Key \cup {Nobody}]
           /\ \A w \in Vars : IsPair(keyPair'[w]) =>
                  keyPair'[w].priv = owner'[w] /\ keyPair'[w].pub = owner'[w]
BY DEF KeyInv, KeyTypeOK, PairIsOwners, Hold

PemFile == file \in {Absent, Text, Broken} \cup {Pem(k, o) : k \in Key, o \in Key}

(* A key in the file is one of the keys. *)
LEMMA FileFacts ==
    /\ \A k, o \in Key : Pem(k, o).kind = "pem" /\ Pem(k, o).key = k /\ Pem(k, o).of = o
    /\ PemFile /\ file.kind = "pem" => file.key \in Key /\ file.of \in Key
BY DEF PemFile, Pem, Absent, Text, Broken

(* Every call on key pairs keeps their invariant. *)
LEMMA KeyKeeps == KeyInv /\ KeyStep => KeyInv'
<1> SUFFICES ASSUME KeyInv, KeyStep PROVE KeyInv'
  OBVIOUS
<1>0. PICK v \in Vars :
        \/ Generate(v) \/ GenerateFails(v) \/ \E u, w \in Vars : Create(v, u, w)
        \/ Save(v) \/ Load(v) \/ FreeKeyPair(v) \/ UseWild(v)
  BY DEF KeyStep
<1>a. /\ MaxKeys \in Nat /\ MaxFaults \in Nat /\ MaxOps \in Nat
      /\ keyPair \in [Vars -> Handle] /\ owner \in [Vars -> Key \cup {Nobody}] /\ PemFile
      /\ made \in 0 .. MaxKeys /\ open \in 0 .. ops /\ ops \in 0 .. MaxOps /\ faults \in 0 .. MaxFaults
      /\ process \in {"running", "crashed", "hung"}
  BY KeyAssumption DEF KeyInv, KeyTypeOK, PemFile
<1>b. ops' = ops + 1 /\ ops' \in 0 .. MaxOps
  BY <1>0, <1>a DEF Generate, GenerateFails, Create, Save, Load, FreeKeyPair, UseWild, Op
<1>1. CASE Generate(v)
  <2>1. made + 1 \in Key
    BY <1>1, <1>a DEF Generate, Key
  <2>2. /\ made' \in 0 .. MaxKeys /\ Hold(v, Pair(made + 1, made + 1), made + 1)
        /\ UNCHANGED <<file, open, faults, process>>
    BY <1>1, <1>a DEF Generate
  <2> QED BY <1>a, <1>b, <2>1, <2>2, HandleFacts, HoldKeeps DEF KeyInv, KeyTypeOK, PairIsOwners
<1>2. CASE GenerateFails(v)
  <2>1. /\ faults' \in 0 .. MaxFaults /\ process' \in {"running", "crashed", "hung"}
        /\ Hold(v, Wild, Nobody) \/ UNCHANGED <<keyPair, owner>>
        /\ UNCHANGED <<file, made, open>>
    BY <1>2, <1>a DEF GenerateFails
  <2> QED BY <1>a, <1>b, <2>1, HandleFacts, HoldKeeps DEF KeyInv, KeyTypeOK, PairIsOwners
<1>3. ASSUME NEW u \in Vars, NEW w \in Vars, Create(v, u, w) PROVE KeyInv'
  <2>1. /\ IsPair(keyPair[w]) /\ UNCHANGED <<file, made, open, faults, process>>
        /\ Hold(v, Pair(keyPair[w].priv, keyPair[w].priv), owner[w])
    BY <1>3 DEF Create, x25519_createKeyPair
  <2>2. keyPair[w].priv \in Key /\ keyPair[w].priv = owner[w]
    BY <2>1, <1>a, HandleFacts DEF KeyInv, PairIsOwners
  <2> QED BY <1>a, <1>b, <2>1, <2>2, HandleFacts, HoldKeeps DEF KeyInv, KeyTypeOK, PairIsOwners
<1>4. CASE Save(v)
  <2>1. /\ IsPair(keyPair[v]) /\ file' = Pem(keyPair[v].priv, owner[v])
        /\ UNCHANGED <<keyPair, owner, made, open, faults, process>>
    BY <1>4 DEF Save
  <2>2. keyPair[v].priv \in Key /\ keyPair[v].priv = owner[v]
    BY <2>1, <1>a, HandleFacts DEF KeyInv, PairIsOwners
  <2>3. PemFile' /\ file'.key = file'.of
    BY <2>1, <2>2, FileFacts DEF PemFile
  <2> QED BY <1>a, <1>b, <2>1, <2>3 DEF KeyInv, KeyTypeOK, PairIsOwners, PemFile
<1>5. CASE Load(v)
  <2>1. UNCHANGED <<file, made, faults>>
    BY <1>5 DEF Load
  <2>2. ASSUME file.kind = "pem", Hold(v, Pair(file.key, file.key), file.of),
               open' = open + 1, process' = process
        PROVE  KeyInv'
    <3>1. file.key \in Key /\ file.of = file.key
      BY <1>a, <2>2, FileFacts DEF KeyInv, PairIsOwners
    <3>2. open' \in 0 .. ops'
      BY <1>a, <1>b, <2>2
    <3> QED BY <1>a, <1>b, <2>1, <2>2, <3>1, <3>2, HandleFacts, HoldKeeps DEF KeyInv, KeyTypeOK, PairIsOwners
  <2>3. ASSUME Hold(v, Wild, Nobody) \/ UNCHANGED <<keyPair, owner>>, open' = open,
               process' \in {"running", "crashed", "hung"}
        PROVE  KeyInv'
    <3>1. open' \in 0 .. ops'
      BY <1>a, <1>b, <2>3
    <3> QED BY <1>a, <1>b, <2>1, <2>3, <3>1, HandleFacts, HoldKeeps DEF KeyInv, KeyTypeOK, PairIsOwners
  <2> QED BY <1>5, <1>a, <2>2, <2>3 DEF Load, x25519_createKeyPair
<1>6. CASE FreeKeyPair(v)
  <2>1. Hold(v, Wild, Nobody) /\ UNCHANGED <<file, made, open, faults, process>>
    BY <1>6 DEF FreeKeyPair
  <2> QED BY <1>a, <1>b, <2>1, HandleFacts, HoldKeeps DEF KeyInv, KeyTypeOK, PairIsOwners
<1>7. CASE UseWild(v)
  BY <1>a, <1>b, <1>7 DEF UseWild, KeyInv, KeyTypeOK, PairIsOwners
<1> QED BY <1>0, <1>1, <1>2, <1>3, <1>4, <1>5, <1>6, <1>7
-----------------------------------------------------------------------------
(* malloc gives what was asked for, and a byte more unless it fits exactly. *)
LEMMA Roomy ==
    ASSUME NEW n \in Nat
    PROVE  Usable(n) >= n /\ (n < Usable(n) <=> ~(n >= 24 /\ n % 16 = 8))
<1>1. CASE n <= 24
  <2>1. Usable(n) = 24
    BY <1>1 DEF Usable
  <2>2. n = 24 => n % 16 = 8
    OBVIOUS
  <2> QED BY <1>1, <2>1, <2>2
<1>2. CASE n > 24
  <2>1. Usable(n) = ((n + 23) \div 16) * 16 - 8
    BY <1>2 DEF Usable
  <2> DEFINE q == n \div 16
             r == n % 16
  <2>2. q \in Nat /\ r \in 0 .. 15 /\ n = 16 * q + r
    OBVIOUS
  <2>3. (n + 23) \div 16 = IF r <= 8 THEN q + 1 ELSE q + 2
    BY <2>2
  <2> HIDE DEF q
  <2> QED BY <1>2, <2>1, <2>2, <2>3
<1> QED BY <1>1, <1>2

(* A padded ciphertext is made of whole blocks and longer than the text, *)
(* but by one block at most.                                             *)
LEMMA PaddedLength ==
    ASSUME NEW m \in Nat, NEW a, a # "chacha20"
    PROVE  /\ CipherLen(a, m) \in Nat /\ m < CipherLen(a, m) /\ CipherLen(a, m) <= m + 16
           /\ CipherLen(a, m) % 16 = 0
BY DEF CipherLen
-----------------------------------------------------------------------------
(* The two parties of an object: two keys that were generated, or a key    *)
(* that a script typed in, which is known by the negative of its length.   *)
Parties(b) ==
    \/ b[1] \in Key /\ b[2] \in Key
    \/ b[1] = b[2] /\ b[1] \in Int /\ b[1] < 0

KeyFor(b) ==
    [secret |-> {b[1], b[2]},
     strlen |-> IF b[1] > 0 /\ {b[1], b[2]} \in ZeroSecrets THEN 31 ELSE 32]

CipherOK(c) ==
    c.form = "cipher" /\ c.msg \in Nat /\ Parties(c.by) /\ c.key = KeyFor(c.by)

(* While tame, every byte is one of the ciphertext. *)
EncOK(d) ==
    d.kind = "data" =>
        /\ d.size \in Nat /\ d.good \in Nat /\ d.zero \in Nat /\ d.zero <= d.size
        /\ d.good <= d.size
        /\ CipherOK(d.what)
        /\ tame => d.size = d.good /\ d.size <= CipherLen(d.what.algo, d.what.msg)

TextOK ==
    text.kind = "text" =>
        /\ text.len \in Nat /\ text.good \in Nat
        /\ CipherOK(text.what)
        /\ tame => text.len <= text.good /\ text.len <= CipherLen(text.what.algo, text.what.msg)

DecOK(x) ==
    x.dec.kind = "data" /\ x.from.form = "cipher" =>
        /\ CipherOK(x.from)
        /\ x.from.key = x.key /\ x.from.algo = x.with /\ x.from.iv = x.iv =>
              /\ x.dec.what = Plain(x.from.msg)
              /\ x.whole => x.dec.size = x.from.msg
              /\ tame => x.dec.size <= x.dec.good

Shape(x) ==
    x = [kind |-> x.kind, key |-> x.key, iv |-> x.iv, by |-> x.by, enc |-> x.enc,
         dec |-> x.dec, from |-> x.from, with |-> x.with, whole |-> x.whole]

ObjectOK(x) ==
    x.kind = "object" =>
        Shape(x) /\ Parties(x.by) /\ x.key = KeyFor(x.by) /\ EncOK(x.enc) /\ DecOK(x)

ObjectsOK == \A o \in Objs : ObjectOK(aes[o])

CipherInv ==
    /\ aes = [o \in Objs |-> aes[o]]
    /\ ObjectsOK
    /\ TextOK
    /\ TerminatorFits

(* There are no cipher objects at first. *)
LEMMA CipherInitial == Init => CipherInv
<1> SUFFICES ASSUME Init PROVE CipherInv
  OBVIOUS
<1>1. aes = [o \in Objs |-> Nil] /\ text = Nil /\ Nil.kind = "nil"
  BY DEF Init, Nil
<1>2. TerminatorFits
  BY DEF Init, TerminatorFits, Usable, Exact
<1> QED BY <1>1, <1>2 DEF CipherInv, ObjectsOK, ObjectOK, TextOK

(* Both parties have the same key. *)
LEMMA PartnersAgree ==
    ASSUME NEW x, NEW y, Parties(<<x, y>>)
    PROVE  KeyFor(<<y, x>>) = KeyFor(<<x, y>>)
<1>1. {x, y} = {y, x}
  OBVIOUS
<1>2. \A k \in Key : k > 0
  BY KeyAssumption DEF Key
<1> QED BY <1>1, <1>2 DEF Parties, KeyFor

(* A step that only lets the history become untame keeps what is there. *)
LEMMA TameFalls ==
    ASSUME NEW x, tame' => tame
    PROVE  /\ EncOK(x) => EncOK(x)'
           /\ DecOK(x) => DecOK(x)'
           /\ ObjectOK(x) => ObjectOK(x)'
BY DEF EncOK, DecOK, ObjectOK

(* How the enc field of one object changes. *)
LEMMA SetEnc ==
    ASSUME CipherInv, NEW o \in Objs, Made(o), NEW d, aes' = [aes EXCEPT ![o].enc = d]
    PROVE  /\ aes' = [p \in Objs |-> aes'[p]] /\ \A p \in Objs : p # o => aes'[p] = aes[p]
           /\ Shape(aes'[o]) /\ aes'[o].enc = d /\ aes'[o].kind = "object"
           /\ aes'[o].key = aes[o].key /\ aes'[o].iv = aes[o].iv /\ aes'[o].by = aes[o].by
           /\ aes'[o].dec = aes[o].dec /\ aes'[o].from = aes[o].from
           /\ aes'[o].with = aes[o].with /\ aes'[o].whole = aes[o].whole
<1>1. aes = [p \in Objs |-> aes[p]] /\ Shape(aes[o]) /\ aes[o].kind = "object"
  BY DEF CipherInv, ObjectsOK, ObjectOK, Made
<1>2. aes' = [p \in Objs |-> aes'[p]] /\ \A p \in Objs : p # o => aes'[p] = aes[p]
  BY <1>1
<1>3. aes'[o] = [aes[o] EXCEPT !.enc = d]
  BY <1>1
<1> QED BY <1>1, <1>2, <1>3 DEF Shape

(* The two ways in which Decrypt changes an object. *)
Decrypts(o, r, f, a, w) ==
    \/ aes' = [aes EXCEPT ![o].dec = r, ![o].from = f, ![o].whole = w] /\ a = aes[o].with
    \/ aes' = [aes EXCEPT ![o].dec = r, ![o].from = f, ![o].with = a, ![o].whole = w]

(* How the dec field of one object changes. *)
LEMMA SetDec ==
    ASSUME CipherInv, NEW o \in Objs, Made(o), NEW r, NEW f, NEW a, NEW w, Decrypts(o, r, f, a, w)
    PROVE  /\ aes' = [p \in Objs |-> aes'[p]] /\ \A p \in Objs : p # o => aes'[p] = aes[p]
           /\ Shape(aes'[o]) /\ aes'[o].enc = aes[o].enc /\ aes'[o].kind = "object"
           /\ aes'[o].key = aes[o].key /\ aes'[o].iv = aes[o].iv /\ aes'[o].by = aes[o].by
           /\ aes'[o].dec = r /\ aes'[o].from = f
           /\ aes'[o].with = a /\ aes'[o].whole = w
<1>1. aes = [p \in Objs |-> aes[p]] /\ Shape(aes[o]) /\ aes[o].kind = "object"
  BY DEF CipherInv, ObjectsOK, ObjectOK, Made
<1>2. aes' = [p \in Objs |-> aes'[p]] /\ \A p \in Objs : p # o => aes'[p] = aes[p]
  BY <1>1 DEF Decrypts
<1>3. \/ aes'[o] = [aes[o] EXCEPT !.dec = r, !.from = f, !.whole = w] /\ a = aes[o].with
      \/ aes'[o] = [aes[o] EXCEPT !.dec = r, !.from = f, !.with = a, !.whole = w]
  BY <1>1 DEF Decrypts
<1> QED BY <1>1, <1>2, <1>3 DEF Shape
-----------------------------------------------------------------------------
(* The minimum of two numbers. *)
LEMMA MinOfTwo ==
    ASSUME NEW a \in Nat, NEW b \in Nat
    PROVE  Min({a, b}) \in Nat /\ Min({a, b}) <= a /\ Min({a, b}) <= b /\ Min({a, b}) \in {a, b}
<1>1. CASE a <= b
  <2>1. Min({a, b}) = a
    BY <1>1 DEF Min
  <2> QED BY <1>1, <2>1
<1>2. CASE b < a
  <2>1. Min({a, b}) = b
    BY <1>2 DEF Min
  <2> QED BY <1>2, <2>1
<1> QED BY <1>1, <1>2

(* The minimum of three. *)
LEMMA MinOfThree ==
    ASSUME NEW a \in Nat, NEW b \in Nat, NEW c \in Nat
    PROVE  Min({a, b, c}) \in {a, b, c} /\ Min({a, b, c}) <= a
           /\ Min({a, b, c}) <= b /\ Min({a, b, c}) <= c
<1>1. \E x \in {a, b, c} : \A y \in {a, b, c} : x <= y
  <2>1. CASE a <= b /\ a <= c
    BY <2>1
  <2>2. CASE b <= a /\ b <= c
    BY <2>2
  <2>3. CASE c <= a /\ c <= b
    BY <2>3
  <2> QED BY <2>1, <2>2, <2>3
<1>2. Min({a, b, c}) \in {a, b, c} /\ \A y \in {a, b, c} : Min({a, b, c}) <= y
  BY <1>1 DEF Min
<1> QED BY <1>2

(* What the cipher makes of a message. *)
LEMMA EncryptedOK ==
    ASSUME NEW m \in Messages, NEW k, NEW i, NEW a, NEW b, Parties(b), k = KeyFor(b),
           NEW d \in Encrypted(m, k, i, a, b)
    PROVE  EncOK(d)'
<1>1. PICK z \in FirstZero(CipherLen(a, m)) :
        d = Data(Cipher(m, k, i, a, b), CipherLen(a, m), CipherLen(a, m), z, TRUE)
  BY DEF Encrypted
<1>2. m \in Nat /\ \A y \in ZeroAt : y \in Nat
  BY CipherAssumption
<1>3. CipherLen(a, m) \in Nat
  BY <1>2 DEF CipherLen
<1>4. z \in Nat /\ z <= CipherLen(a, m)
  BY <1>2, <1>3 DEF FirstZero
<1> QED BY <1>1, <1>2, <1>3, <1>4 DEF EncOK, CipherOK, Cipher, Data

(* What decryption gives: a stream as long as its input, less than a block  *)
(* cipher was given, and the message itself for the right key.              *)
LEMMA DecryptedOK ==
    ASSUME NEW d, HasData(d), EncOK(d), NEW k, NEW i, NEW a, NEW r \in Decrypted(d, k, i, a), r # Nil
    PROVE  /\ r.size \in Nat
           /\ IF a = "chacha20" THEN r.size = d.size ELSE r.size < d.size
           /\ Genuine(d, k, i, a) =>
                 /\ r.what = Plain(d.what.msg)
                 /\ Whole(d) => r.size = d.what.msg
                 /\ tame => r.size <= r.good
<1>1. /\ d.size \in Nat /\ d.size > 0 /\ d.good \in Nat /\ d.what.msg \in Nat
      /\ tame => d.size = d.good /\ d.size <= CipherLen(d.what.algo, d.what.msg)
  BY DEF HasData, EncOK, CipherOK
<1> DEFINE g == Genuine(d, k, i, a)
<1>2. CASE a = "chacha20"
  <2>1. PICK z : r = Data(IF g THEN Plain(d.what.msg) ELSE Noise, d.size,
                          IF g THEN Min({d.good, d.size, d.what.msg}) ELSE 0, z, TRUE)
    BY <1>2 DEF Decrypted, Stream
  <2>2. r.size = d.size
    BY <2>1 DEF Data
  <2>3. ASSUME g
        PROVE  /\ r.what = Plain(d.what.msg) /\ r.good = Min({d.good, d.size, d.what.msg})
               /\ CipherLen(d.what.algo, d.what.msg) = d.what.msg
    BY <1>2, <2>1, <2>3 DEF Data, Genuine, CipherLen
  <2>4. ASSUME g, tame PROVE r.size <= r.good
    <3>1. Min({d.good, d.size, d.what.msg}) \in {d.good, d.size, d.what.msg}
      BY <1>1, MinOfThree
    <3> QED BY <1>1, <2>2, <2>3, <2>4, <3>1
  <2>5. g /\ Whole(d) => r.size = d.what.msg
    BY <2>2, <2>3 DEF Whole
  <2> QED BY <1>1, <1>2, <2>2, <2>3, <2>4, <2>5
<1>3. CASE a # "chacha20"
  <2>0. d.size % 16 = 0 /\ r \in Blocks(d, g)
    BY <1>3 DEF Decrypted, Blocks
  <2>1. g => d.what.algo = a
    BY DEF Genuine
  <2>2. CASE g /\ Whole(d)
    <3>1. r = Data(Plain(d.what.msg), d.what.msg, d.what.msg, d.what.msg, TRUE)
      BY <2>0, <2>2 DEF Blocks
    <3>2. d.what.msg < d.size
      BY <1>1, <1>3, <2>1, <2>2, PaddedLength DEF Whole
    <3> QED BY <1>1, <1>3, <3>1, <3>2 DEF Data
  <2>3. CASE ~(g /\ Whole(d))
    <3>1. PICK n \in {d.size - 1, d.size - 16} \ {0} :
            r = Data(IF g THEN Plain(d.what.msg) ELSE Noise, n,
                     IF g THEN Min({n, (d.good \div 16) * 16, d.what.msg}) ELSE 0, n, TRUE)
      BY <2>0, <2>3 DEF Blocks
    <3>2. d.size >= 16 /\ n \in Nat /\ n < d.size
      BY <1>1, <2>0
    <3>3. r.size = n /\ (g => /\ r.what = Plain(d.what.msg)
                              /\ r.good = Min({n, (d.good \div 16) * 16, d.what.msg}))
      BY <3>1 DEF Data
    <3>4. ASSUME g, tame PROVE r.size <= r.good
      <4> DEFINE c == CipherLen(d.what.algo, d.what.msg)
      <4>1. c \in Nat /\ c <= d.what.msg + 16 /\ c % 16 = 0
        BY <1>1, <1>3, <2>1, <3>4, PaddedLength
      <4>2. d.size = d.good /\ d.size <= c /\ d.size # c
        BY <1>1, <2>1, <2>3, <3>4 DEF Whole, Genuine
      <4> HIDE DEF c
      <4>3. (d.good \div 16) * 16 \in Nat /\ n <= (d.good \div 16) * 16
        BY <1>1, <2>0, <3>2, <4>2
      <4>4. d.size <= d.what.msg
        BY <1>1, <2>0, <4>1, <4>2
      <4>5. Min({n, (d.good \div 16) * 16, d.what.msg}) \in {n, (d.good \div 16) * 16, d.what.msg}
        BY <1>1, <3>2, <4>3, MinOfThree
      <4> QED BY <1>1, <3>2, <3>3, <3>4, <4>3, <4>4, <4>5
    <3> QED BY <1>3, <2>3, <3>2, <3>3, <3>4
  <2> QED BY <2>2, <2>3
<1> QED BY <1>2, <1>3

(* Where the terminator of a result falls. *)
LEMMA EncTerminator ==
    ASSUME NEW m \in Messages, NEW a,
           term' = [op |-> "enc", algo |-> a, asked |-> EncRoom(m), index |-> CipherLen(a, m)]
    PROVE  TerminatorFits'
<1>1. m \in Nat /\ term'.index = CipherLen(a, m) /\ term'.asked = m + 16 /\ term'.op = "enc"
  BY CipherAssumption DEF EncRoom
<1>2. Usable(m + 16) >= m + 16 /\ (m + 16 < Usable(m + 16) <=> ~(m + 16 >= 24 /\ (m + 16) % 16 = 8))
  BY <1>1, Roomy
<1>3. Usable(m + 16) \in Int
  BY <1>1 DEF Usable
<1>4. CipherLen(a, m) < Usable(m + 16)
  <2>1. CASE a = "chacha20"
    BY <1>1, <1>2, <1>3, <2>1 DEF CipherLen
  <2>2. CASE a # "chacha20"
    <3> DEFINE c == CipherLen(a, m)
    <3>1. c \in Nat /\ c <= m + 16 /\ c % 16 = 0
      BY <1>1, <2>2, PaddedLength
    <3> HIDE DEF c
    <3>2. c < Usable(m + 16)
      BY <1>1, <1>2, <1>3, <3>1
    <3> QED BY <3>2 DEF c
  <2> QED BY <2>1, <2>2
<1>5. ~Exact(term')
  BY <1>1 DEF Exact
<1> QED BY <1>1, <1>4, <1>5 DEF TerminatorFits, Exact

(* The same for decryption. *)
LEMMA DecTerminator ==
    ASSUME NEW n \in Nat, NEW k \in Nat, NEW a, IF a = "chacha20" THEN k = n ELSE k < n,
           term' = [op |-> "dec", algo |-> a, asked |-> n, index |-> k]
    PROVE  TerminatorFits'
<1>1. Usable(n) >= n /\ (n < Usable(n) <=> ~(n >= 24 /\ n % 16 = 8)) /\ Usable(n) \in Int
  BY Roomy DEF Usable
<1>2. CASE a = "chacha20"
  BY <1>1, <1>2 DEF TerminatorFits, Exact
<1>3. CASE a # "chacha20"
  BY <1>1, <1>3 DEF TerminatorFits, Exact
<1> QED BY <1>2, <1>3
-----------------------------------------------------------------------------
(* What leaves the cipher objects alone keeps their invariant. *)
LEMMA CipherUnchanged == ASSUME CipherInv, UNCHANGED cipherVars PROVE CipherInv'
<1>1. aes' = aes /\ text' = text /\ tame' = tame /\ term' = term
  BY DEF cipherVars
<1>2. ObjectsOK' /\ TextOK'
  BY <1>1, TameFalls DEF CipherInv, ObjectsOK, TextOK
<1>3. TerminatorFits'
  BY <1>1 DEF CipherInv, TerminatorFits, Exact
<1> QED BY <1>1, <1>2, <1>3 DEF CipherInv

(* One object changes, and what it becomes is as it should be. *)
LEMMA OneObject ==
    ASSUME CipherInv, NEW o \in Objs, aes' = [p \in Objs |-> aes'[p]],
           \A p \in Objs : p # o => aes'[p] = aes[p], ObjectOK(aes[o])', tame' => tame
    PROVE  aes' = [p \in Objs |-> aes'[p]] /\ ObjectsOK'
<1>1. ASSUME NEW p \in Objs, p # o PROVE ObjectOK(aes[p])'
  <2>1. PICK x : x = aes[p]
    OBVIOUS
  <2>2. ObjectOK(x) /\ aes'[p] = x
    BY <1>1, <2>1 DEF CipherInv, ObjectsOK
  <2>3. ObjectOK(x)'
    BY <2>2, TameFalls
  <2> QED BY <2>2, <2>3
<1> QED BY <1>1 DEF ObjectsOK

(* The text is kept. *)
LEMMA TextKept == ASSUME CipherInv, text' = text, tame' => tame PROVE TextOK'
BY DEF CipherInv, TextOK

(* The terminator is kept. *)
LEMMA TermKept == ASSUME CipherInv, term' = term PROVE TerminatorFits'
BY DEF CipherInv, TerminatorFits, Exact

(* A new object has no data yet. *)
LEMMA NewObject ==
    ASSUME CipherInv, NEW o \in Objs, NEW k, NEW i, NEW b, Parties(b), k = KeyFor(b),
           aes' = [aes EXCEPT ![o] = Object(k, i, b)], UNCHANGED <<text, tame, term>>
    PROVE  CipherInv'
<1>1. aes = [p \in Objs |-> aes[p]]
  BY DEF CipherInv
<1>2. /\ aes' = [p \in Objs |-> aes'[p]] /\ \A p \in Objs : p # o => aes'[p] = aes[p]
      /\ aes'[o] = Object(k, i, b)
  BY <1>1
<1>3. ObjectOK(Object(k, i, b))'
  BY DEF ObjectOK, Object, Shape, EncOK, DecOK, Table, Noise
<1>4. ObjectOK(aes[o])'
  BY <1>2, <1>3
<1>5. ObjectsOK'
  BY <1>2, <1>4, OneObject
<1> QED BY <1>2, <1>5, TextKept, TermKept DEF CipherInv

(* A key from an exchange belongs to the two parties. *)
LEMMA ExchangeStep ==
    ASSUME CipherInv, KeyInv, NEW o \in Objs, NEW v \in Vars, NEW w \in Vars, NEW i,
           NewFromExchange(o, v, w, i)
    PROVE  CipherInv'
<1>1. /\ keyPair[v] \in Handle /\ keyPair[w] \in Handle
      /\ IsPair(keyPair[v]) /\ IsPair(keyPair[w])
  BY DEF NewFromExchange, KeyInv, KeyTypeOK
<1>2. /\ keyPair[v].priv = owner[v] /\ keyPair[w].pub = owner[w]
      /\ owner[v] \in Key /\ owner[w] \in Key
  BY <1>1, HandleFacts DEF KeyInv, PairIsOwners
<1> DEFINE b == <<owner[v], owner[w]>>
           s == {owner[v], owner[w]}
           k == [secret |-> s, strlen |-> IF s \in ZeroSecrets THEN 31 ELSE 32]
<1>3. aes' = [aes EXCEPT ![o] = Object(k, i, b)] /\ UNCHANGED <<text, tame, term>>
  BY <1>2 DEF NewFromExchange, x25519_getSharedKey
<1>4. Parties(b) /\ k = KeyFor(b)
  BY <1>2, KeyAssumption DEF Parties, KeyFor, Key
<1> QED BY <1>3, <1>4, NewObject

(* A typed key belongs to whoever typed it. *)
LEMMA NewFromTextStep ==
    ASSUME CipherInv, NEW o \in Objs, NEW n \in TextLens, NEW i, NewFromText(o, n, i)
    PROVE  CipherInv'
<1>1. CASE Padded(n)
  <2> DEFINE b == <<-n, -n>>
             k == [secret |-> {-n}, strlen |-> 32]
  <2>1. aes' = [aes EXCEPT ![o] = Object(k, i, b)] /\ UNCHANGED <<text, tame, term>>
    BY <1>1 DEF NewFromText
  <2>2. n \in Nat /\ n >= 31
    BY <1>1, CipherAssumption DEF Padded
  <2>3. Parties(b)
    BY <2>2 DEF Parties
  <2>4. k = KeyFor(b)
    BY <2>2 DEF KeyFor
  <2> QED BY <2>1, <2>3, <2>4, NewObject
<1>2. CASE ~Padded(n)
  BY <1>2, CipherUnchanged DEF NewFromText, cipherVars
<1> QED BY <1>1, <1>2

(* An object's enc field changes. *)
LEMMA EncChanges ==
    ASSUME CipherInv, NEW o \in Objs, Made(o), NEW d, EncOK(d)', aes' = [aes EXCEPT ![o].enc = d],
           tame' => tame
    PROVE  aes' = [p \in Objs |-> aes'[p]] /\ ObjectsOK'
<1>1. /\ aes' = [p \in Objs |-> aes'[p]] /\ \A p \in Objs : p # o => aes'[p] = aes[p]
      /\ Shape(aes'[o]) /\ aes'[o].enc = d /\ aes'[o].kind = "object"
      /\ aes'[o].key = aes[o].key /\ aes'[o].iv = aes[o].iv /\ aes'[o].by = aes[o].by
      /\ aes'[o].dec = aes[o].dec /\ aes'[o].from = aes[o].from
      /\ aes'[o].with = aes[o].with /\ aes'[o].whole = aes[o].whole
  BY SetEnc
<1>2. Parties(aes[o].by) /\ aes[o].key = KeyFor(aes[o].by) /\ DecOK(aes[o])
  BY DEF CipherInv, ObjectsOK, ObjectOK, Made
<1>3. DecOK(aes[o])'
  BY <1>1, <1>2 DEF DecOK
<1>4. ObjectOK(aes[o])'
  BY <1>1, <1>2, <1>3 DEF ObjectOK
<1> QED BY <1>1, <1>4, OneObject

(* Encryption keeps the invariant. *)
LEMMA EncryptStep ==
    ASSUME CipherInv, NEW o \in Objs, NEW m \in Messages, NEW t, Encrypt(o, m, t)
    PROVE  CipherInv'
<1>1. Made(o) /\ text' = text /\ tame' = tame
  BY DEF Encrypt, Call
<1>2. Parties(aes[o].by) /\ aes[o].key = KeyFor(aes[o].by)
  BY <1>1 DEF CipherInv, ObjectsOK, ObjectOK, Made
<1>3. \/ \E d \in Encrypted(m, aes[o].key, aes[o].iv, Algo(t), aes[o].by) :
            /\ aes' = [aes EXCEPT ![o].enc = d]
            /\ term' = [op |-> "enc", algo |-> Algo(t), asked |-> EncRoom(m),
                        index |-> CipherLen(Algo(t), m)]
      \/ aes' = [aes EXCEPT ![o].enc = Nil] /\ term' = term
  BY DEF Encrypt
<1>4. ASSUME NEW d \in Encrypted(m, aes[o].key, aes[o].iv, Algo(t), aes[o].by),
             aes' = [aes EXCEPT ![o].enc = d],
             term' = [op |-> "enc", algo |-> Algo(t), asked |-> EncRoom(m),
                      index |-> CipherLen(Algo(t), m)]
      PROVE  CipherInv'
  <2>1. EncOK(d)'
    BY <1>2, EncryptedOK
  <2>2. aes' = [p \in Objs |-> aes'[p]] /\ ObjectsOK'
    BY <1>1, <1>4, <2>1, EncChanges
  <2> QED BY <1>1, <1>4, <2>2, EncTerminator, TextKept DEF CipherInv
<1>5. ASSUME aes' = [aes EXCEPT ![o].enc = Nil], term' = term PROVE CipherInv'
  <2>1. EncOK(Nil)'
    BY DEF EncOK, Nil
  <2>2. aes' = [p \in Objs |-> aes'[p]] /\ ObjectsOK'
    BY <1>1, <1>5, <2>1, EncChanges
  <2> QED BY <1>1, <1>5, <2>2, TermKept, TextKept DEF CipherInv
<1> QED BY <1>3, <1>4, <1>5

(* DecOK for what an object is about to get. *)
Result(o, r, f, a, w) ==
    r.kind = "data" /\ f.form = "cipher" =>
        /\ CipherOK(f)
        /\ f.key = aes[o].key /\ f.algo = a /\ f.iv = aes[o].iv =>
              /\ r.what = Plain(f.msg)
              /\ w => r.size = f.msg
              /\ tame => r.size <= r.good

(* An object's dec field changes. *)
LEMMA DecChanges ==
    ASSUME CipherInv, NEW o \in Objs, Made(o), NEW r, NEW f, NEW a, NEW w, tame' = tame,
           Decrypts(o, r, f, a, w), Result(o, r, f, a, w)
    PROVE  aes' = [p \in Objs |-> aes'[p]] /\ ObjectsOK'
<1>1. /\ aes' = [p \in Objs |-> aes'[p]] /\ \A p \in Objs : p # o => aes'[p] = aes[p]
      /\ Shape(aes'[o]) /\ aes'[o].enc = aes[o].enc /\ aes'[o].kind = "object"
      /\ aes'[o].key = aes[o].key /\ aes'[o].iv = aes[o].iv /\ aes'[o].by = aes[o].by
      /\ aes'[o].dec = r /\ aes'[o].from = f
      /\ aes'[o].with = a /\ aes'[o].whole = w
  BY SetDec
<1>2. Parties(aes[o].by) /\ aes[o].key = KeyFor(aes[o].by) /\ EncOK(aes[o].enc)
  BY DEF CipherInv, ObjectsOK, ObjectOK, Made
<1>3. DecOK(aes[o])'
  BY <1>1 DEF DecOK, Result
<1>4. EncOK(aes[o].enc)'
  BY <1>1, <1>2 DEF EncOK
<1>5. ObjectOK(aes[o])'
  BY <1>1, <1>2, <1>3, <1>4 DEF ObjectOK
<1> QED BY <1>1, <1>5, OneObject

(* Decryption keeps it. *)
LEMMA DecryptStep ==
    ASSUME CipherInv, NEW o \in Objs, NEW p \in Objs, NEW t, Decrypt(o, p, t)
    PROVE  CipherInv'
<1>1. Made(o) /\ Made(p) /\ text' = text /\ tame' = tame
  BY DEF Decrypt, Call
<1> DEFINE d == aes[p].enc
           k == aes[o].key
           i == aes[o].iv
           a == Algo(t)
<1>2. EncOK(d)
  BY <1>1 DEF CipherInv, ObjectsOK, ObjectOK, Made
<1>3. \/ /\ aes' = [aes EXCEPT ![o].dec = Nil, ![o].from = Noise, ![o].whole = FALSE]
         /\ term' = term
      \/ /\ HasData(d)
         /\ \E r \in Decrypted(d, k, i, a) :
              /\ aes' = [aes EXCEPT ![o].dec = r, ![o].from = d.what,
                                    ![o].with = a, ![o].whole = Whole(d)]
              /\ term' = IF r = Nil THEN term
                         ELSE [op |-> "dec", algo |-> a, asked |-> d.size, index |-> r.size]
  BY DEF Decrypt, Decryptable
<1>4. ASSUME aes' = [aes EXCEPT ![o].dec = Nil, ![o].from = Noise, ![o].whole = FALSE],
             term' = term
      PROVE  CipherInv'
  <2>1. Nil.kind # "data"
    BY DEF Nil
  <2>2. aes' = [q \in Objs |-> aes'[q]] /\ ObjectsOK'
    <3>1. Decrypts(o, Nil, Noise, aes[o].with, FALSE) /\ Result(o, Nil, Noise, aes[o].with, FALSE)
      BY <1>4, <2>1 DEF Decrypts, Result
    <3> QED BY <1>1, <3>1, DecChanges
  <2> QED BY <1>1, <1>4, <2>2, TermKept, TextKept DEF CipherInv
<1>5. ASSUME HasData(d), NEW r \in Decrypted(d, k, i, a),
             aes' = [aes EXCEPT ![o].dec = r, ![o].from = d.what,
                                ![o].with = a, ![o].whole = Whole(d)],
             term' = IF r = Nil THEN term
                     ELSE [op |-> "dec", algo |-> a, asked |-> d.size, index |-> r.size]
      PROVE  CipherInv'
  <2> HIDE DEF a
  <2>1. d.size \in Nat /\ CipherOK(d.what)
    BY <1>2, <1>5 DEF EncOK, HasData
  <2>2. CASE r = Nil
    <3>1. r.kind # "data" /\ term' = term
      BY <1>5, <2>2 DEF Nil
    <3>2. aes' = [q \in Objs |-> aes'[q]] /\ ObjectsOK'
      <4>1. Decrypts(o, r, d.what, a, Whole(d)) /\ Result(o, r, d.what, a, Whole(d))
        BY <1>5, <3>1 DEF Decrypts, Result
      <4> QED BY <1>1, <4>1, DecChanges
    <3> QED BY <1>1, <3>1, <3>2, TermKept, TextKept DEF CipherInv
  <2>3. CASE r # Nil
    <3>1. /\ r.size \in Nat
          /\ IF a = "chacha20" THEN r.size = d.size ELSE r.size < d.size
          /\ Genuine(d, k, i, a) =>
                /\ r.what = Plain(d.what.msg)
                /\ Whole(d) => r.size = d.what.msg
                /\ tame => r.size <= r.good
      BY <1>2, <1>5, <2>3, DecryptedOK
    <3>2. d.what.key = k /\ d.what.algo = a /\ d.what.iv = i => Genuine(d, k, i, a)
      BY <2>1 DEF Genuine, CipherOK
    <3>3. aes' = [q \in Objs |-> aes'[q]] /\ ObjectsOK'
      <4>1. Decrypts(o, r, d.what, a, Whole(d))
        BY <1>5 DEF Decrypts
      <4>2. Result(o, r, d.what, a, Whole(d))
        BY <2>1, <3>1, <3>2 DEF Result
      <4> QED BY <1>1, <4>1, <4>2, DecChanges
    <3>4. TerminatorFits'
      BY <1>5, <2>1, <2>3, <3>1, DecTerminator
    <3> QED BY <1>1, <3>3, <3>4, TextKept DEF CipherInv
  <2> QED BY <2>2, <2>3
<1> QED BY <1>3, <1>4, <1>5

(* Reading a ciphertext as a string keeps it. *)
LEMMA GetTextStep ==
    ASSUME CipherInv, NEW o \in Objs, GetText(o)
    PROVE  CipherInv'
<1> DEFINE d == aes[o].enc
<1>1. Made(o) /\ aes' = aes /\ term' = term /\ EncOK(d)
  BY DEF GetText, Call, CipherInv, ObjectsOK, ObjectOK, Made
<1>2. (tame' => tame) /\ \/ text' = Nil
                         \/ /\ HasData(d) /\ text' \in Strings(d)
                            /\ tame' => d.ended \/ d.zero < d.size
  <2>1. \/ /\ HasData(d) /\ text' \in Strings(d)
           /\ tame' = (tame /\ (d.ended \/ d.zero < d.size))
        \/ text' = Nil /\ tame' = tame
    BY DEF GetText
  <2> HIDE DEF d
  <2>2. CASE text' = Nil /\ tame' = tame
    BY <2>2, Zenon
  <2>3. CASE /\ HasData(d) /\ text' \in Strings(d)
             /\ tame' = (tame /\ (d.ended \/ d.zero < d.size))
    BY <2>3, Zenon
  <2> QED BY <2>1, <2>2, <2>3, Zenon
<1>3. ObjectsOK'
  <2>1. ASSUME NEW p \in Objs PROVE ObjectOK(aes[p])'
    <3>1. PICK x : x = aes[p]
      OBVIOUS
    <3>2. ObjectOK(x) /\ aes'[p] = x
      BY <1>1, <3>1 DEF CipherInv, ObjectsOK
    <3> QED BY <1>2, <3>2, TameFalls
  <2> QED BY <2>1 DEF ObjectsOK
<1>4. TextOK'
  <2>1. CASE text' = Nil
    BY <2>1 DEF TextOK, Nil
  <2>2. ASSUME HasData(d), text' \in Strings(d), tame' => d.ended \/ d.zero < d.size PROVE TextOK'
    <3>1. /\ d.size \in Nat /\ d.good \in Nat /\ d.zero \in Nat /\ d.zero <= d.size /\ CipherOK(d.what)
          /\ tame => d.size = d.good /\ d.size <= CipherLen(d.what.algo, d.what.msg)
      BY <1>1, <2>2 DEF EncOK, HasData
    <3>2. PICK n \in IF d.zero < d.size \/ d.ended THEN {d.zero} ELSE {d.size, d.size + 1} :
            text' = [kind |-> "text", what |-> d.what, len |-> n, good |-> Min({n, d.good})]
      BY <2>2 DEF Strings
    <3>3. n \in Nat /\ (tame' => n = d.zero)
      BY <2>2, <3>1, <3>2
    <3>4. Min({n, d.good}) \in Nat /\ Min({n, d.good}) \in {n, d.good}
      BY <3>1, <3>3, MinOfTwo
    <3>5. text'.what = d.what /\ text'.len = n /\ text'.good = Min({n, d.good})
      BY <3>2
    <3>6. CipherLen(d.what.algo, d.what.msg) \in Nat
      BY <3>1 DEF CipherLen, CipherOK
    <3>7. ASSUME tame' PROVE n <= Min({n, d.good}) /\ n <= CipherLen(d.what.algo, d.what.msg)
      BY <1>2, <3>1, <3>3, <3>4, <3>6, <3>7
    <3> QED BY <3>1, <3>3, <3>4, <3>5, <3>7 DEF TextOK
  <2> QED BY <1>2, <2>1, <2>2
<1> QED BY <1>1, <1>3, <1>4, TermKept DEF CipherInv

(* Making a ciphertext of a string keeps it. *)
LEMMA SetTextStep ==
    ASSUME CipherInv, NEW o \in Objs, SetText(o)
    PROVE  CipherInv'
<1>1. Made(o) /\ text' = text /\ term' = term /\ text.kind = "text"
  BY DEF SetText, Call
<1>2. /\ text.len \in Nat /\ text.good \in Nat /\ CipherOK(text.what)
      /\ tame => text.len <= text.good /\ text.len <= CipherLen(text.what.algo, text.what.msg)
  BY <1>1 DEF CipherInv, TextOK
<1>3. PICK n : /\ n = text.len \/ n \in Sizes
               /\ aes' = [aes EXCEPT ![o].enc = createAESData(text, n)]
               /\ tame' => tame /\ (n = text.len \/ n <= text.len)
  <2>1. CASE aes' = [aes EXCEPT ![o].enc = createAESData(text, text.len)] /\ tame' = tame
    BY <2>1, Zenon
  <2>2. ASSUME NEW n \in Sizes, aes' = [aes EXCEPT ![o].enc = createAESData(text, n)],
               tame' = (tame /\ n <= text.len)
        PROVE  \E k : /\ k = text.len \/ k \in Sizes
                      /\ aes' = [aes EXCEPT ![o].enc = createAESData(text, k)]
                      /\ tame' => tame /\ (k = text.len \/ k <= text.len)
    BY <2>2, Zenon
  <2> QED BY <2>1, <2>2 DEF SetText, DefaultSize
<1>4. n \in Nat
  BY <1>2, <1>3, CipherAssumption
<1>5. PICK d : d = createAESData(text, n)
  OBVIOUS
<1>6. /\ d.what = text.what /\ d.size = n
      /\ d.good = Min({n, text.good}) /\ d.zero = Min({n, text.len})
  BY <1>5 DEF createAESData, Data
<1>7. /\ d.good \in Nat /\ d.good <= n /\ d.good \in {n, text.good}
      /\ d.zero \in Nat /\ d.zero <= n
  BY <1>2, <1>4, <1>6, MinOfTwo
<1>8. CipherLen(text.what.algo, text.what.msg) \in Nat
  BY <1>2 DEF CipherLen, CipherOK
<1>9. ASSUME tame' PROVE d.size = d.good /\ d.size <= CipherLen(text.what.algo, text.what.msg)
  BY <1>2, <1>3, <1>4, <1>6, <1>7, <1>8, <1>9
<1>10. EncOK(d)'
  BY <1>2, <1>4, <1>6, <1>7, <1>9 DEF EncOK
<1>11. aes' = [p \in Objs |-> aes'[p]] /\ ObjectsOK'
  BY <1>1, <1>3, <1>5, <1>10, EncChanges
<1> QED BY <1>1, <1>3, <1>11, TermKept, TextKept DEF CipherInv

(* Freeing a ciphertext keeps it. *)
LEMMA FreeDataStep ==
    ASSUME CipherInv, NEW o \in Objs, FreeData(o)
    PROVE  CipherInv'
<1>1. /\ Made(o) /\ text' = text /\ term' = term /\ tame' = tame
      /\ aes' = [aes EXCEPT ![o].enc = Wild]
  BY DEF FreeData, Call
<1>2. EncOK(Wild)'
  BY DEF EncOK, Wild
<1>3. aes' = [p \in Objs |-> aes'[p]] /\ ObjectsOK'
  BY <1>1, <1>2, EncChanges
<1> QED BY <1>1, <1>3, TermKept, TextKept DEF CipherInv
-----------------------------------------------------------------------------
SessionInv == KeyInv /\ CipherInv

(* What a call of a cipher object leaves alone. *)
LEMMA KeyUnchanged ==
    ASSUME KeyInv, UNCHANGED <<keyPair, owner, file, made, open>>,
           ops' = ops \/ Op, faults' \in 0 .. MaxFaults,
           process' \in {"running", "crashed", "hung"}
    PROVE  KeyInv'
<1>1. ops' \in 0 .. MaxOps /\ open' \in 0 .. ops'
  BY KeyAssumption DEF KeyInv, KeyTypeOK, Op
<1> QED BY <1>1 DEF KeyInv, KeyTypeOK, PairIsOwners

(* Every call of a script keeps both invariants. *)
LEMMA SessionStep == SessionInv /\ [Next]_vars => SessionInv'
<1> SUFFICES ASSUME SessionInv, [Next]_vars PROVE SessionInv'
  OBVIOUS
<1> USE DEF SessionInv
<1>0. /\ faults \in 0 .. MaxFaults /\ process \in {"running", "crashed", "hung"}
      /\ MaxFaults \in Nat
  BY KeyAssumption DEF KeyInv, KeyTypeOK
<1>1. CASE UNCHANGED vars
  <2>1. KeyInv'
    BY <1>0, <1>1, KeyUnchanged DEF vars, keyVars
  <2> QED BY <1>1, <2>1, CipherUnchanged DEF vars
<1>2. CASE KeyStep /\ UNCHANGED cipherVars
  BY <1>2, KeyKeeps, CipherUnchanged
<1>3. ASSUME NEW v \in Vars, ExchangeFails(v) PROVE SessionInv'
  <2>1. KeyInv'
    BY <1>0, <1>3, KeyUnchanged DEF ExchangeFails
  <2> QED BY <1>3, <2>1, CipherUnchanged DEF ExchangeFails
<1>4. ASSUME NEW o \in Objs, NEW i \in Ivs, NEW v \in Vars, NEW w \in Vars,
             NewFromExchange(o, v, w, i)
      PROVE  SessionInv'
  <2>1. KeyInv'
    BY <1>0, <1>4, KeyUnchanged DEF NewFromExchange
  <2> QED BY <1>4, <2>1, ExchangeStep
<1>5. ASSUME NEW o \in Objs, NEW i \in Ivs, NEW n \in TextLens, NewFromText(o, n, i)
      PROVE  SessionInv'
  <2>1. process' \in {"running", "crashed", "hung"}
    BY <1>0, <1>5 DEF NewFromText
  <2>2. KeyInv'
    BY <1>0, <1>5, <2>1, KeyUnchanged DEF NewFromText
  <2> QED BY <1>5, <2>2, NewFromTextStep
<1>6. ASSUME NEW o \in Objs, NEW m \in Messages, NEW t \in Types, Encrypt(o, m, t)
      PROVE  SessionInv'
  <2>1. faults' \in 0 .. MaxFaults
    BY <1>0, <1>6 DEF Encrypt
  <2>2. Op /\ UNCHANGED <<keyPair, owner, file, made, open, process>>
    BY <1>6 DEF Encrypt, Call
  <2> QED BY <1>0, <1>6, <2>1, <2>2, KeyUnchanged, EncryptStep
<1>7. ASSUME NEW o \in Objs, NEW p \in Objs, NEW t \in Types, Decrypt(o, p, t)
      PROVE  SessionInv'
  <2>0. faults' = faults \/ (faults < MaxFaults /\ faults' = faults + 1)
    BY <1>7 DEF Decrypt
  <2>1. faults' \in 0 .. MaxFaults
    BY <1>0, <2>0
  <2>2. Op /\ UNCHANGED <<keyPair, owner, file, made, open, process>>
    BY <1>7 DEF Decrypt, Call
  <2> QED BY <1>0, <1>7, <2>1, <2>2, KeyUnchanged, DecryptStep
<1>8. ASSUME NEW o \in Objs, GetText(o) \/ SetText(o) \/ FreeData(o) PROVE SessionInv'
  <2>1. Op /\ UNCHANGED <<keyPair, owner, file, made, open, faults, process>>
    BY <1>8 DEF GetText, SetText, FreeData, Call
  <2> QED BY <1>0, <1>8, <2>1, KeyUnchanged, GetTextStep, SetTextStep, FreeDataStep
<1>9. ASSUME NEW o \in Objs, UseFreed(o) PROVE SessionInv'
  <2>1. KeyInv'
    BY <1>0, <1>9, KeyUnchanged DEF UseFreed
  <2> QED BY <1>9, <2>1, CipherUnchanged DEF UseFreed
<1> QED BY <1>1, <1>2, <1>3, <1>4, <1>5, <1>6, <1>7, <1>8, <1>9 DEF Next

(* Key pairs (x25519.c) and cipher objects (libencdec.c) keep their        *)
(* invariants, whatever a script calls in whatever order.                  *)
THEOREM SessionInvariant == Spec => []SessionInv
<1>1. Init => SessionInv
  BY KeyInitial, CipherInitial DEF Init, SessionInv
<1> QED BY <1>1, SessionStep, PTL DEF Spec

(* Whatever a script does with key pairs, the pair an object holds is that *)
(* of one key, and the file holds the key of whoever saved it.             *)
THEOREM PairTheorem == Spec => []PairIsOwners
<1>1. SessionInv => PairIsOwners
  BY DEF SessionInv, KeyInv
<1> QED BY <1>1, SessionInvariant, PTL

(* For every length of a message the terminators of lua_AESenc and         *)
(* lua_AESdec stay in their blocks, but for one class of decrypted         *)
(* streams, for which they never do.                                       *)
THEOREM TerminatorTheorem == Spec => []TerminatorFits
<1>1. SessionInv => TerminatorFits
  BY DEF SessionInv, CipherInv
<1> QED BY <1>1, SessionInvariant, PTL

(* The facts of an object whose partner's message was decrypted. *)
LEMMA PartnersFacts ==
    ASSUME SessionInv, NEW o \in Objs, FromPartner(o)
    PROVE  /\ aes[o].dec.what = Plain(aes[o].from.msg)
           /\ aes[o].whole => aes[o].dec.size = aes[o].from.msg
           /\ tame => aes[o].dec.size <= aes[o].dec.good
<1>1. /\ Parties(aes[o].by) /\ aes[o].key = KeyFor(aes[o].by) /\ DecOK(aes[o])
  BY DEF SessionInv, CipherInv, ObjectsOK, ObjectOK, FromPartner, Made
<1>2. CipherOK(aes[o].from) /\ aes[o].from.key = KeyFor(aes[o].from.by)
  BY <1>1 DEF DecOK, FromPartner, CipherOK
<1>3. KeyFor(<<aes[o].by[2], aes[o].by[1]>>) = KeyFor(aes[o].by)
  <2>1. KeyFor(aes[o].by) = KeyFor(<<aes[o].by[1], aes[o].by[2]>>)
    BY DEF KeyFor
  <2>2. Parties(<<aes[o].by[1], aes[o].by[2]>>)
    BY <1>1 DEF Parties
  <2> QED BY <2>1, <2>2, PartnersAgree
<1>4. aes[o].from.key = aes[o].key
  BY <1>1, <1>2, <1>3 DEF FromPartner, Partner
<1> QED BY <1>1, <1>4 DEF DecOK, FromPartner

(* Parties that exchanged public keys read each other's messages. *)
THEOREM PartnerTheorem == Spec => []PartnerReadsMessage
<1>1. SessionInv => PartnerReadsMessage
  BY PartnersFacts DEF PartnerReadsMessage
<1> QED BY <1>1, SessionInvariant, PTL

(* A ciphertext that was handed on as a string decrypts to a beginning of  *)
(* the message, while no string was stretched.                             *)
THEOREM TextTheorem == Spec => []TextIsPrefix
<1>1. SessionInv => TextIsPrefix
  BY PartnersFacts DEF TextIsPrefix
<1> QED BY <1>1, SessionInvariant, PTL
-----------------------------------------------------------------------------
(* What getAESData and decrypt may find in an object's data fields, and    *)
(* the numbers of the last terminator.                                     *)
EncKinds == {"table", "nil", "wild", "data"}
DecKinds == {"table", "nil", "data"}
FieldOK(x) == x.kind = "object" => x.enc.kind \in EncKinds /\ x.dec.kind \in DecKinds
TermOK == term.asked \in Nat /\ term.index \in Nat

FieldInv == (\A o \in Objs : FieldOK(aes[o])) /\ tame \in BOOLEAN /\ TermOK

(* The kinds of what the fields are set to. *)
LEMMA Kinds ==
    /\ Nil.kind = "nil" /\ Table.kind = "table" /\ Wild.kind = "wild"
    /\ \A c, n, g, z, e : Data(c, n, g, z, e).kind = "data"
    /\ {"nil", "table", "wild", "data"} \subseteq EncKinds
    /\ {"nil", "table", "data"} \subseteq DecKinds
BY DEF Nil, Table, Wild, Data, EncKinds, DecKinds

(* One object changes. *)
LEMMA OneField ==
    ASSUME FieldInv, NEW o \in Objs, \A p \in Objs : p # o => aes'[p] = aes[p], FieldOK(aes'[o])
    PROVE  \A p \in Objs : FieldOK(aes'[p])
BY DEF FieldInv

(* The enc field of an object is set. *)
LEMMA EncField ==
    ASSUME CipherInv, FieldInv, NEW o \in Objs, Made(o), NEW d, d.kind \in EncKinds,
           aes' = [aes EXCEPT ![o].enc = d]
    PROVE  \A p \in Objs : FieldOK(aes'[p])
<1>1. /\ \A p \in Objs : p # o => aes'[p] = aes[p]
      /\ aes'[o].enc = d /\ aes'[o].dec = aes[o].dec
  BY SetEnc
<1>2. FieldOK(aes'[o])
  BY <1>1 DEF FieldInv, FieldOK, Made
<1> QED BY <1>1, <1>2, OneField

(* Its dec field is set. *)
LEMMA DecField ==
    ASSUME CipherInv, FieldInv, NEW o \in Objs, Made(o), NEW r, r.kind \in DecKinds,
           NEW f, NEW a, NEW w, Decrypts(o, r, f, a, w)
    PROVE  \A p \in Objs : FieldOK(aes'[p])
<1>1. /\ \A p \in Objs : p # o => aes'[p] = aes[p]
      /\ aes'[o].enc = aes[o].enc /\ aes'[o].dec = r
  BY SetDec
<1>2. FieldOK(aes'[o])
  BY <1>1 DEF FieldInv, FieldOK, Made
<1> QED BY <1>1, <1>2, OneField

(* An object is made. *)
LEMMA NewField ==
    ASSUME CipherInv, FieldInv, NEW o \in Objs, NEW k, NEW i, NEW b,
           aes' = [aes EXCEPT ![o] = Object(k, i, b)]
    PROVE  \A p \in Objs : FieldOK(aes'[p])
<1>1. aes = [p \in Objs |-> aes[p]]
  BY DEF CipherInv
<1>2. (\A p \in Objs : p # o => aes'[p] = aes[p]) /\ aes'[o] = Object(k, i, b)
  BY <1>1
<1>3. FieldOK(Object(k, i, b))
  BY Kinds DEF FieldOK, Object, EncKinds, DecKinds
<1> QED BY <1>2, <1>3, OneField

(* Encryption keeps the kinds and the numbers. *)
LEMMA EncryptField ==
    ASSUME CipherInv, FieldInv, NEW o \in Objs, NEW m \in Messages, NEW t, Encrypt(o, m, t)
    PROVE  FieldInv'
<1> DEFINE a == Algo(t)
<1>1. Made(o) /\ tame' = tame
  BY DEF Encrypt, Call
<1>2. \/ aes' = [aes EXCEPT ![o].enc = Nil] /\ term' = term
      \/ /\ \E d \in Encrypted(m, aes[o].key, aes[o].iv, a, aes[o].by) :
                aes' = [aes EXCEPT ![o].enc = d]
         /\ term' = [op |-> "enc", algo |-> a, asked |-> EncRoom(m), index |-> CipherLen(a, m)]
  BY DEF Encrypt
<1> HIDE DEF a
<1>3. CASE aes' = [aes EXCEPT ![o].enc = Nil] /\ term' = term
  <2>0. Nil.kind \in EncKinds
    BY Kinds
  <2>1. \A p \in Objs : FieldOK(aes'[p])
    BY <1>1, <1>3, <2>0, EncField
  <2> QED BY <1>1, <1>3, <2>1 DEF FieldInv, FieldOK, TermOK
<1>4. ASSUME NEW d \in Encrypted(m, aes[o].key, aes[o].iv, a, aes[o].by),
             aes' = [aes EXCEPT ![o].enc = d],
             term' = [op |-> "enc", algo |-> a, asked |-> EncRoom(m), index |-> CipherLen(a, m)]
      PROVE  FieldInv'
  <2>1. d.kind \in EncKinds
    BY <1>4, Kinds DEF Encrypted
  <2>2. \A p \in Objs : FieldOK(aes'[p])
    BY <1>1, <1>4, <2>1, EncField
  <2>3. m \in Nat /\ m + 16 \in Nat /\ CipherLen(a, m) \in Nat
    BY CipherAssumption DEF CipherLen
  <2>4. TermOK'
    BY <1>4, <2>3 DEF TermOK, EncRoom
  <2> QED BY <1>1, <2>2, <2>4 DEF FieldInv, FieldOK
<1> QED BY <1>2, <1>3, <1>4

(* So does decryption. *)
LEMMA DecryptField ==
    ASSUME CipherInv, FieldInv, NEW o \in Objs, NEW p \in Objs, NEW t, Decrypt(o, p, t)
    PROVE  FieldInv'
<1> DEFINE d == aes[p].enc
           k == aes[o].key
           i == aes[o].iv
           a == Algo(t)
<1>1. Made(o) /\ Made(p) /\ tame' = tame
  BY DEF Decrypt, Call
<1>2. EncOK(d)
  BY <1>1 DEF CipherInv, ObjectsOK, ObjectOK, Made
<1>3. \/ /\ aes' = [aes EXCEPT ![o].dec = Nil, ![o].from = Noise, ![o].whole = FALSE]
         /\ term' = term
      \/ /\ HasData(d)
         /\ \E r \in Decrypted(d, k, i, a) :
              /\ aes' = [aes EXCEPT ![o].dec = r, ![o].from = d.what,
                                    ![o].with = a, ![o].whole = Whole(d)]
              /\ term' = IF r = Nil THEN term
                         ELSE [op |-> "dec", algo |-> a, asked |-> d.size, index |-> r.size]
  BY DEF Decrypt, Decryptable
<1> HIDE DEF d, k, i, a
<1>4. CASE /\ aes' = [aes EXCEPT ![o].dec = Nil, ![o].from = Noise, ![o].whole = FALSE]
           /\ term' = term
  <2>1. Decrypts(o, Nil, Noise, aes[o].with, FALSE)
    BY <1>4 DEF Decrypts
  <2>2. Nil.kind \in DecKinds
    BY Kinds
  <2>3. \A q \in Objs : FieldOK(aes'[q])
    BY <1>1, <2>1, <2>2, DecField
  <2> QED BY <1>1, <1>4, <2>3 DEF FieldInv, FieldOK, TermOK
<1>5. ASSUME HasData(d), NEW r \in Decrypted(d, k, i, a),
             aes' = [aes EXCEPT ![o].dec = r, ![o].from = d.what,
                                ![o].with = a, ![o].whole = Whole(d)],
             term' = IF r = Nil THEN term
                     ELSE [op |-> "dec", algo |-> a, asked |-> d.size, index |-> r.size]
      PROVE  FieldInv'
  <2>1. r.kind \in DecKinds
    <3>1. r = Nil \/ \E c, n, g, z : r = Data(c, n, g, z, TRUE)
      BY Zenon DEF Decrypted, Stream, Blocks
    <3> QED BY <3>1, Kinds
  <2>2. Decrypts(o, r, d.what, a, Whole(d))
    BY <1>5 DEF Decrypts
  <2>3. \A q \in Objs : FieldOK(aes'[q])
    BY <1>1, <2>1, <2>2, DecField
  <2>4. TermOK'
    <3>1. CASE r = Nil
      BY <1>5, <3>1 DEF FieldInv, TermOK
    <3>2. CASE r # Nil
      <4>1. d.size \in Nat /\ r.size \in Nat
        BY <1>2, <1>5, <3>2, DecryptedOK DEF EncOK, HasData
      <4> QED BY <1>5, <3>2, <4>1 DEF TermOK
    <3> QED BY <3>1, <3>2
  <2> QED BY <1>1, <2>3, <2>4 DEF FieldInv, FieldOK
<1> QED BY <1>3, <1>4, <1>5

(* Every call of a script keeps the kinds and the numbers. *)
LEMMA FieldStep == SessionInv /\ FieldInv /\ [Next]_vars => FieldInv'
<1> SUFFICES ASSUME CipherInv, FieldInv, [Next]_vars PROVE FieldInv'
  BY DEF SessionInv
<1>1. CASE UNCHANGED cipherVars
  BY <1>1 DEF cipherVars, FieldInv, FieldOK, TermOK
<1>2. CASE UNCHANGED vars \/ (KeyStep /\ UNCHANGED cipherVars)
  BY <1>1, <1>2 DEF vars
<1>3. ASSUME NEW v \in Vars, ExchangeFails(v) PROVE FieldInv'
  BY <1>1, <1>3 DEF ExchangeFails
<1>4. ASSUME NEW o \in Objs, NEW i \in Ivs, NEW v \in Vars, NEW w \in Vars,
             NewFromExchange(o, v, w, i)
      PROVE  FieldInv'
  <2>1. \A p \in Objs : FieldOK(aes'[p])
    BY <1>4, NewField DEF NewFromExchange
  <2> QED BY <1>4, <2>1 DEF NewFromExchange, FieldInv, FieldOK, TermOK
<1>5. ASSUME NEW o \in Objs, NEW i \in Ivs, NEW n \in TextLens, NewFromText(o, n, i)
      PROVE  FieldInv'
  <2>1. \A p \in Objs : FieldOK(aes'[p])
    <3>1. CASE aes' = aes
      BY <3>1 DEF FieldInv
    <3> QED BY <1>5, <3>1, NewField DEF NewFromText
  <2> QED BY <1>5, <2>1 DEF NewFromText, FieldInv, FieldOK, TermOK
<1>6. ASSUME NEW o \in Objs, NEW m \in Messages, NEW t \in Types, Encrypt(o, m, t)
      PROVE  FieldInv'
  BY <1>6, EncryptField
<1>7. ASSUME NEW o \in Objs, NEW p \in Objs, NEW t \in Types, Decrypt(o, p, t)
      PROVE  FieldInv'
  BY <1>7, DecryptField
<1>8. ASSUME NEW o \in Objs, GetText(o) PROVE FieldInv'
  <2>1. tame' \in BOOLEAN /\ aes' = aes /\ term' = term
    BY <1>8, Zenon DEF GetText, FieldInv
  <2> QED BY <2>1 DEF FieldInv, FieldOK, TermOK
<1>9. ASSUME NEW o \in Objs, SetText(o) PROVE FieldInv'
  <2>1. tame' \in BOOLEAN /\ term' = term /\ Made(o)
    BY <1>9, Zenon DEF SetText, Call, FieldInv
  <2>2. PICK n : aes' = [aes EXCEPT ![o].enc = createAESData(text, n)]
    BY <1>9 DEF SetText
  <2>3. createAESData(text, n).kind \in EncKinds
    BY Kinds DEF createAESData, EncKinds
  <2>4. \A p \in Objs : FieldOK(aes'[p])
    BY <2>1, <2>2, <2>3, EncField
  <2> QED BY <2>1, <2>4 DEF FieldInv, FieldOK, TermOK
<1>10. ASSUME NEW o \in Objs, FreeData(o) PROVE FieldInv'
  <2>0. Made(o) /\ aes' = [aes EXCEPT ![o].enc = Wild] /\ Wild.kind \in EncKinds
    BY <1>10, Kinds DEF FreeData, Call
  <2>1. \A p \in Objs : FieldOK(aes'[p])
    BY <2>0, EncField
  <2> QED BY <1>10, <2>1 DEF FreeData, FieldInv, FieldOK, TermOK
<1>11. ASSUME NEW o \in Objs, UseFreed(o) PROVE FieldInv'
  BY <1>1, <1>11 DEF UseFreed
<1> QED BY <1>2, <1>3, <1>4, <1>5, <1>6, <1>7, <1>8, <1>9, <1>10, <1>11 DEF Next

(* The types: what getAESData and decrypt find in an object is one of the  *)
(* things a script can have put there, its key is 31 or 32 bytes long as a *)
(* C string, and a terminator is never written before its block.           *)
THEOREM CipherTypeCorrect == Spec => []TypeOK
<1> DEFINE Inv == SessionInv /\ FieldInv
<1>1. Init => Inv
  <2> SUFFICES ASSUME Init PROVE Inv
    OBVIOUS
  <2>1. FieldInv
    BY Kinds DEF Init, FieldInv, FieldOK, TermOK
  <2> QED BY <2>1, KeyInitial, CipherInitial DEF Init, SessionInv
<1>2. Inv /\ [Next]_vars => Inv'
  BY SessionStep, FieldStep
<1>3. Inv => TypeOK
  <2> SUFFICES ASSUME Inv PROVE TypeOK
    OBVIOUS
  <2>1. ASSUME NEW o \in Objs, Made(o) PROVE aes[o].key.strlen \in {31, 32}
    <3>1. aes[o].key = KeyFor(aes[o].by)
      BY <2>1 DEF SessionInv, CipherInv, ObjectsOK, ObjectOK, Made
    <3>2. \A b : KeyFor(b).strlen \in {31, 32}
      BY DEF KeyFor
    <3> QED BY <3>1, <3>2
  <2> QED BY <2>1 DEF SessionInv, KeyInv, FieldInv, FieldOK, TermOK, EncKinds, DecKinds,
                      TypeOK, Made
<1> QED BY <1>1, <1>2, <1>3, PTL DEF Spec
================================================================================
