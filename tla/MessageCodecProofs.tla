-------------------------- MODULE MessageCodecProofs --------------------------
(***************************************************************************)
(* The message codec, for every alphabet, table, text and limit.           *)
(*                                                                         *)
(* 1. lnet.packData's two arrays of pointers have room for every pointer   *)
(*    written, and a table of strings and numbers is freed without         *)
(*    touching a pointer that was not written.                             *)
(* 2. split_msg, unpackData, packData and the joins are recursive          *)
(*    functions over texts.  Induction over the naturals, with the         *)
(*    property as a set (SetInduction), first shows that such a function   *)
(*    exists, hence unfolds, and then what it computes: the pieces cover   *)
(*    the text (SplitCovers), the packed fields and the joined texts stand *)
(*    one after the other (PackedFields, JoinedParts), and a text that is  *)
(*    made of parts ended by a separator is split into them (PiecesAre).   *)
(* 3. The inductive invariant CodecInv says, stage by stage, how the text  *)
(*    the caller holds came about; with it those lemmas give the           *)
(*    properties.                                                          *)
(***************************************************************************)
EXTENDS MessageCodec, SequenceTheorems, FiniteSetTheorems, NaturalsInduction,
        WellFoundedInduction, TLAPS

(* While a table is read, the number of entries stored and the size of the *)
(* arrays stay within one of each other, and the size is odd, which is     *)
(* what malloc's rounding needs.  An entry that is left out may grow the   *)
(* arrays and store nothing: hence the condition on plain.                 *)
Growing ==
    /\ sTable \in Nat /\ (\E m \in Nat : sTable = 2 * m + 1)
    /\ i <= sTable + 1
    /\ plain => (i = 0 /\ sTable = 1) \/ sTable <= i
PackingInv ==
    /\ table \in Seq(Keys \X Values)
    /\ plain \in BOOLEAN
    /\ pc \in {"idle", "packing"} => Growing
    /\ pc = "packing" /\ plain => i > 0
-----------------------------------------------------------------------------
(* The bytes requested for an odd number of pointers leave room for two    *)
(* more than that.                                                         *)
LEMMA RoundingHelps ==
    ASSUME NEW m \in Nat
    PROVE  Slots(2 * m + 1) = 2 * m + 3
<1>1. 8 * (2 * m + 1) + 1 + 8 + 15 = 16 * (m + 2)
    OBVIOUS
<1>2. (16 * (m + 2)) \div 16 = m + 2
    OBVIOUS
<1>3. QED
    BY <1>1, <1>2 DEF Slots

(* The invariant gives the property: with an odd size the terminator has   *)
(* its place.                                                              *)
LEMMA GrowingIsSafe ==
    ASSUME PackingInv
    PROVE  PackingIsSafe
<1>1. SUFFICES ASSUME pc = "packing"
               PROVE  ~ Overrun /\ (plain => ~ FreesUnwritten)
    BY DEF PackingIsSafe
<1>2. Growing /\ (plain => i > 0) /\ Len(table) \in Nat
    BY <1>1 DEF PackingInv
<1>3. PICK m \in Nat : sTable = 2 * m + 1
    BY <1>2 DEF Growing
<1>4. Slots(sTable) = 2 * m + 3
    BY <1>3, RoundingHelps
<1>5. ~ Overrun
    BY <1>2, <1>3, <1>4 DEF Growing, Overrun, i
<1>6. plain => ~ FreesUnwritten
    BY <1>2, <1>3 DEF Growing, FreesUnwritten, i
<1>7. QED
    BY <1>5, <1>6

(* Making room for one more entry keeps the size odd, and leaves room for  *)
(* the entry and the terminator behind it.                                 *)
LEMMA GrowFacts ==
    ASSUME Growing, i \in Nat
    PROVE  /\ Grow(i, sTable) \in Nat
           /\ \E m \in Nat : Grow(i, sTable) = 2 * m + 1
           /\ i <= Grow(i, sTable)
           /\ plain => Grow(i, sTable) <= i + 1
<1>1. PICK m \in Nat : sTable = 2 * m + 1
    BY DEF Growing
<1>2. sTable + 2 = 2 * (m + 1) + 1 /\ m + 1 \in Nat
    BY <1>1
<1>3. \E n \in Nat : Grow(i, sTable) = 2 * n + 1
    BY <1>1, <1>2 DEF Grow
<1>4. QED
    BY <1>1, <1>3 DEF Growing, Grow

(* Every step keeps the invariant.  Only the loop over the table touches   *)
(* the arrays; a call that returns leaves them as new.                     *)
LEMMA PackingStep ==
    ASSUME PackingInv, [Next]_vars
    PROVE  PackingInv'
<1>len. Len(table) \in Nat /\ i \in Nat
    BY DEF PackingInv, i
<1>1. CASE \E k \in Keys, v \in Values : Store(k, v)
    <2>1. PICK k \in Keys, v \in Values : Store(k, v)
        BY <1>1
    <2>2. /\ table' = Append(table, <<k, v>>) /\ sTable' = Grow(i, sTable)
          /\ pc' = "packing" /\ plain' = plain /\ Growing
        BY <2>1 DEF Store, PackingInv
    <2>3. table' \in Seq(Keys \X Values) /\ i' = i + 1
        BY <2>2 DEF PackingInv, i
    <2>4. Growing'
        BY <2>2, <2>3, <1>len, GrowFacts DEF Growing
    <2>5. QED
        BY <2>2, <2>3, <2>4, <1>len DEF PackingInv
<1>2. CASE Skip
    <2>1. /\ table' = table /\ sTable' = Grow(i, sTable) /\ plain' = FALSE /\ i' = i
          /\ Growing
        BY <1>2 DEF Skip, PackingInv, i
    <2>2. Growing'
        BY <2>1, <1>len, GrowFacts DEF Growing
    <2>3. QED
        BY <2>1, <2>2 DEF PackingInv
<1>3. CASE Nested \/ NumberKey
    BY <1>3 DEF Nested, NumberKey, PackingInv
<1>4. CASE Pack
    BY <1>4 DEF Pack, PackingInv
<1>5. CASE JoinAddresses \/ JoinData \/ Receive \/ Unpack \/ Split
    BY <1>5 DEF JoinAddresses, JoinData, Receive, Unpack, Split, PackingInv
<1>6. CASE Return
    <2>1. table' = <<>> /\ sTable' = 1 /\ plain' = TRUE /\ pc' = "idle" /\ i' = 0
        BY <1>6 DEF Return, i
    <2>2. sTable' = 2 * 0 + 1
        BY <2>1
    <2>3. Growing'
        BY <2>1, <2>2 DEF Growing
    <2>4. QED
        BY <2>1, <2>3 DEF PackingInv
<1>7. CASE UNCHANGED vars
    BY <1>7 DEF vars, PackingInv, Growing, i
<1>8. QED
    BY <1>1, <1>2, <1>3, <1>4, <1>5, <1>6, <1>7 DEF Next

(* For tables of any size, any limit of split_msg and any texts: the loop  *)
(* of lnet.packData never writes past its arrays, and never frees what it  *)
(* has not written unless an entry was left out.                           *)
THEOREM PackingNeverOverruns == Spec => []PackingIsSafe
<1>1. Init => PackingInv
    <2>1. SUFFICES ASSUME Init PROVE PackingInv
        OBVIOUS
    <2>2. table = <<>> /\ sTable = 1 /\ plain = TRUE /\ pc = "idle" /\ i = 0
        BY <2>1 DEF Init, i
    <2>3. sTable = 2 * 0 + 1
        BY <2>2
    <2>4. Growing
        BY <2>2, <2>3 DEF Growing
    <2>5. QED
        BY <2>2, <2>4 DEF PackingInv
<1>2. PackingInv /\ [Next]_vars => PackingInv'
    BY PackingStep
<1>3. PackingInv => PackingIsSafe
    BY GrowingIsSafe
<1>4. QED
    BY <1>1, <1>2, <1>3, PTL DEF Spec
-----------------------------------------------------------------------------
(* A nonempty set of naturals has a least element. *)
LEMMA LeastNatural ==
    ASSUME NEW S \in SUBSET Nat, S # {}
    PROVE  \E f \in S : \A g \in S : f <= g
<1> DEFINE Less == OpToRel(<, Nat)
<1>1. IsWellFoundedOn(Less, Nat)
  BY NatLessThanWellFounded
<1>2. \A m, n \in Nat : <<m, n>> \in Less <=> m < n
  BY DEF OpToRel
<1> HIDE DEF Less
<1>3. PICK f \in S : \A g \in S : ~ (<<g, f>> \in Less)
  BY <1>1, WFMin
<1>4. ASSUME NEW g \in S PROVE f <= g
  <2>1. ~ (g < f)
    BY <1>2, <1>3
  <2> QED BY <2>1
<1> QED BY <1>4

(* Induction, with the property as a set. *)
LEMMA SetInduction ==
    ASSUME NEW S, 0 \in S, \A n \in Nat : n \in S => n + 1 \in S
    PROVE  Nat \subseteq S
<1> DEFINE T == {n \in Nat : n \notin S}
<1> SUFFICES ASSUME T # {} PROVE FALSE
  OBVIOUS
<1>1. PICK f \in T : \A g \in T : f <= g
  BY LeastNatural
<1>2. f - 1 \in Nat /\ f - 1 \notin T
  BY <1>1
<1> QED BY <1>1, <1>2

-----------------------------------------------------------------------------
(* The separator that ends the piece from place p on. *)
NextSep(s, c, p) == IF strchr(s, c, p) # 0 THEN strchr(s, c, p) ELSE strchr(s, CR, p)

(* split_msg's loop: a function that is its own unfolding, and the limit. *)
SplitStep(f, s, c, p) ==
    IF NextSep(s, c, p) = 0 THEN <<>>
    ELSE <<SubSeq(s, p, NextSep(s, c, p) - 1)>> \o f[NextSep(s, c, p) + 1]
SplitFrom(s, c) == CHOOSE f : f = [p \in 1 .. Len(s) + 1 |-> SplitStep(f, s, c, p)]
Cut(all) == IF Len(all) <= MaxPieces THEN all ELSE SubSeq(all, 1, MaxPieces)

LEMMA SplitIsCut == ASSUME NEW s, NEW c PROVE split_msg(s, c) = Cut(SplitFrom(s, c)[1])
BY Zenon DEF split_msg, Cut, SplitFrom, SplitStep, NextSep

(* strchr finds the first place, if any. *)
LEMMA StrchrFacts ==
    ASSUME NEW s \in Seq(Char), NEW c, NEW p \in Nat \ {0}
    PROVE  \/ strchr(s, c, p) = 0 /\ \A n \in p .. Len(s) : s[n] # c
           \/ /\ strchr(s, c, p) \in p .. Len(s) /\ s[strchr(s, c, p)] = c
              /\ \A n \in p .. strchr(s, c, p) - 1 : s[n] # c
<1>0. Len(s) \in Nat
  OBVIOUS
<1>1. CASE Places(s, c, p) = {}
  BY <1>1 DEF strchr, Places
<1>2. CASE Places(s, c, p) # {}
  <2>1. Places(s, c, p) \in SUBSET Nat
    BY <1>0 DEF Places
  <2>2. \E n \in Places(s, c, p) : \A m \in Places(s, c, p) : n <= m
    BY <1>2, <2>1, LeastNatural
  <2>3. PICK n : n = strchr(s, c, p)
    OBVIOUS
  <2>4. n \in Places(s, c, p) /\ \A m \in Places(s, c, p) : n <= m
    BY <1>2, <2>2, <2>3 DEF strchr
  <2> QED BY <1>0, <2>3, <2>4 DEF Places
<1> QED BY <1>1, <1>2

(* From place p on there is no c. *)
Without(s, c, p) == \A n \in p .. Len(s) : s[n] # c

(* What ends a piece: the first separator, or else the first carriage return. *)
LEMMA SepFacts ==
    ASSUME NEW s \in Seq(Char), NEW c, NEW p \in Nat \ {0}
    PROVE  \/ NextSep(s, c, p) = 0 /\ Without(s, c, p) /\ Without(s, CR, p)
           \/ /\ NextSep(s, c, p) \in p .. Len(s) /\ \A n \in p .. NextSep(s, c, p) - 1 : s[n] # c
              /\ \/ s[NextSep(s, c, p)] = c
                 \/ /\ s[NextSep(s, c, p)] = CR /\ Without(s, c, p)
                    /\ \A n \in p .. NextSep(s, c, p) - 1 : s[n] # CR
<1>0. Len(s) \in Nat
  OBVIOUS
<1>1. CASE strchr(s, c, p) # 0
  BY <1>1, StrchrFacts DEF NextSep
<1>2. CASE strchr(s, c, p) = 0
  <2>1. Without(s, c, p)
    BY <1>0, <1>2, StrchrFacts DEF Without
  <2>2. NextSep(s, c, p) = strchr(s, CR, p)
    BY <1>2 DEF NextSep
  <2>3. \A m \in p .. Len(s) : \A n \in p .. m - 1 : s[n] # c
    BY <1>0, <2>1 DEF Without
  <2> QED BY <1>0, <2>1, <2>2, <2>3, StrchrFacts DEF Without
<1> QED BY <1>1, <1>2

(* The loop ends, since every turn moves on: there is such a function. *)
LEMMA FromExists ==
    ASSUME NEW s \in Seq(Char), NEW c
    PROVE  \E f : f = [p \in 1 .. Len(s) + 1 |-> SplitStep(f, s, c, p)]
<1> DEFINE N == Len(s) + 1
           S == {k \in Nat : k < N => \E f : f = [p \in N - k .. N |-> SplitStep(f, s, c, p)]}
<1>0. N \in Nat /\ N > 0
  OBVIOUS
<1>1. 0 \in S
  <2> DEFINE f == [p \in N .. N |-> <<>>]
  <2>1. \A p \in N .. N : p = N
    BY <1>0
  <2>2. NextSep(s, c, N) = 0
    BY <1>0, SepFacts
  <2>3. \A p \in N .. N : SplitStep(f, s, c, p) = <<>>
    BY <2>1, <2>2 DEF SplitStep
  <2>4. f = [p \in N .. N |-> SplitStep(f, s, c, p)]
    BY <2>3
  <2>5. N - 0 = N
    BY <1>0
  <2> QED BY <2>4, <2>5
<1>2. ASSUME NEW k \in Nat, k \in S PROVE k + 1 \in S
  <2> SUFFICES ASSUME k + 1 < N
               PROVE  \E f : f = [p \in N - (k + 1) .. N |-> SplitStep(f, s, c, p)]
    OBVIOUS
  <2>1. PICK f : f = [p \in N - k .. N |-> SplitStep(f, s, c, p)]
    BY <1>0, <1>2
  <2> DEFINE q == N - (k + 1)
             g == [p \in q .. N |-> IF p = q THEN SplitStep(f, s, c, q) ELSE f[p]]
  <2>2. q \in Nat \ {0} /\ \A p \in q .. N : p = q \/ p \in N - k .. N
    BY <1>0
  <2>3. ASSUME NEW p \in q .. N PROVE SplitStep(f, s, c, p) = SplitStep(g, s, c, p)
    <3>1. CASE NextSep(s, c, p) = 0
      BY <3>1 DEF SplitStep
    <3>2. CASE NextSep(s, c, p) # 0
      <4>1. NextSep(s, c, p) \in p .. Len(s) /\ p \in Nat \ {0}
        BY <1>0, <2>2, <3>2, SepFacts
      <4>2. NextSep(s, c, p) + 1 \in q .. N /\ NextSep(s, c, p) + 1 # q
        BY <1>0, <2>2, <4>1
      <4>3. g[NextSep(s, c, p) + 1] = f[NextSep(s, c, p) + 1]
        BY <4>2
      <4> QED BY <4>3 DEF SplitStep
    <3> QED BY <3>1, <3>2
  <2>4. ASSUME NEW p \in q .. N PROVE g[p] = SplitStep(g, s, c, p)
    <3>1. CASE p = q
      BY <2>3, <3>1
    <3>2. CASE p # q
      <4>1. p \in N - k .. N
        BY <2>2, <3>2
      <4>2. f[p] = SplitStep(f, s, c, p)
        BY <2>1, <4>1
      <4> QED BY <2>3, <3>2, <4>2
    <3> QED BY <3>1, <3>2
  <2>5. g = [p \in q .. N |-> SplitStep(g, s, c, p)]
    BY <2>4
  <2> QED BY <2>5
<1>3. N - 1 \in S
  <2> HIDE DEF S
  <2>1. Nat \subseteq S
    BY <1>1, <1>2, SetInduction
  <2> QED BY <1>0, <2>1
<1>4. N - (N - 1) = 1 /\ N - 1 < N
  BY <1>0
<1> QED BY <1>3, <1>4

(* Therefore split_msg's function is one. *)
LEMMA FromStep ==
    ASSUME NEW s \in Seq(Char), NEW c, NEW p \in 1 .. Len(s) + 1
    PROVE  SplitFrom(s, c)[p] = SplitStep(SplitFrom(s, c), s, c, p)
<1>1. SplitFrom(s, c) = [q \in 1 .. Len(s) + 1 |-> SplitStep(SplitFrom(s, c), s, c, q)]
  BY FromExists, Zenon DEF SplitFrom
<1> QED BY <1>1, Zenon

(* The pieces fs of s end before the places e: piece n has no separator in *)
(* it and is followed by one, or by the first carriage return where no     *)
(* separator is left.                                                      *)
Piece(s, c, fs, e, n) ==
    /\ e[n] = e[n - 1] + Len(fs[n]) + 1
    /\ fs[n] = SubSeq(s, e[n - 1] + 1, e[n] - 1)
    /\ \A m \in e[n - 1] + 1 .. e[n] - 1 : s[m] # c
    /\ \/ s[e[n]] = c
       \/ /\ s[e[n]] = CR /\ Without(s, c, e[n - 1] + 1)
          /\ \A m \in e[n - 1] + 1 .. e[n] - 1 : s[m] # CR
Cover(s, c, fs, e) == \A n \in 1 .. Len(fs) : Piece(s, c, fs, e, n)
Covers(s, c, p, fs, e) ==
    /\ fs \in Seq(Seq(Char))
    /\ e \in [0 .. Len(fs) -> 0 .. Len(s)] /\ e[0] = p - 1
    /\ Cover(s, c, fs, e)
    /\ Without(s, c, e[Len(fs)] + 1) /\ Without(s, CR, e[Len(fs)] + 1)

(* One piece more in front. *)
LEMMA OneMore ==
    ASSUME NEW s \in Seq(Char), NEW c, NEW p \in 1 .. Len(s) + 1, NEW q, q = NextSep(s, c, p), q # 0,
           NEW fs, NEW e, Covers(s, c, q + 1, fs, e)
    PROVE  \E f : Covers(s, c, p, <<SubSeq(s, p, q - 1)>> \o fs, f)
<1> DEFINE x == SubSeq(s, p, q - 1)
           gs == <<x>> \o fs
           l == Len(fs)
           f == [n \in 0 .. l + 1 |-> IF n = 0 THEN p - 1 ELSE e[n - 1]]
<1>0. Len(s) \in Nat /\ p \in Nat \ {0}
  OBVIOUS
<1>1. /\ q \in p .. Len(s) /\ \A n \in p .. q - 1 : s[n] # c
      /\ \/ s[q] = c
         \/ s[q] = CR /\ Without(s, c, p) /\ \A n \in p .. q - 1 : s[n] # CR
  BY <1>0, SepFacts, Zenon
<1>2. x \in Seq(Char) /\ Len(x) = q - p
  <2>1. \A n \in p .. q - 1 : s[n] \in Char
    BY <1>0, <1>1
  <2>2. x \in Seq(Char) /\ Len(x) = IF p <= q - 1 THEN q - 1 - p + 1 ELSE 0
    BY <1>0, <1>1, <2>1, SubSeqProperties
  <2> HIDE DEF x
  <2> QED BY <1>0, <1>1, <2>2
<1>3. fs \in Seq(Seq(Char)) /\ l \in Nat
  BY DEF Covers
<1> HIDE DEF x
<1>4. <<x>> \in Seq(Seq(Char)) /\ Len(<<x>>) = 1 /\ <<x>>[1] = x
  BY <1>2
<1>5. /\ gs \in Seq(Seq(Char)) /\ Len(gs) = l + 1 /\ gs[1] = x
      /\ \A n \in 2 .. l + 1 : gs[n] = fs[n - 1]
  BY <1>3, <1>4, ConcatProperties
<1>6. e \in [0 .. l -> 0 .. Len(s)] /\ e[0] = q /\ Cover(s, c, fs, e)
  BY <1>0, <1>1 DEF Covers
<1>7. f \in [0 .. l + 1 -> 0 .. Len(s)] /\ f[0] = p - 1 /\ f[1] = q /\ f[l + 1] = e[l]
  BY <1>0, <1>3, <1>6
<1>8. \A n \in 2 .. l + 1 : f[n] = e[n - 1] /\ f[n - 1] = e[n - 1 - 1] /\ n - 1 \in 1 .. l
  BY <1>3
<1> HIDE DEF gs, f, l
<1>9. Cover(s, c, gs, f)
  <2> SUFFICES ASSUME NEW n \in 1 .. Len(gs) PROVE Piece(s, c, gs, f, n)
    BY DEF Cover
  <2>1. CASE n = 1
    <3>1. n - 1 = 0 /\ f[n] = q /\ f[n - 1] = p - 1 /\ f[n - 1] + 1 = p /\ gs[n] = x
      BY <1>0, <1>5, <1>7, <2>1
    <3>2. f[n] = f[n - 1] + Len(gs[n]) + 1
      <4>1. Len(gs[n]) = q - p /\ q \in Nat
        BY <1>0, <1>1, <1>2, <3>1
      <4> QED BY <1>0, <3>1, <4>1
    <3>3. gs[n] = SubSeq(s, f[n - 1] + 1, f[n] - 1)
      BY <3>1 DEF x
    <3> QED BY <1>1, <3>1, <3>2, <3>3 DEF Piece
  <2>2. CASE n # 1
    <3>1. n \in 2 .. l + 1
      BY <1>3, <1>5, <2>2
    <3>2. PICK m \in 1 .. l : m = n - 1
      BY <1>8, <3>1
    <3>3. gs[n] = fs[m] /\ f[n] = e[m] /\ f[n - 1] = e[m - 1]
      BY <1>5, <1>8, <3>1, <3>2
    <3> QED BY <1>6, <3>3 DEF Cover, Piece, l
  <2> QED BY <2>1, <2>2
<1>10. Covers(s, c, p, gs, f)
  BY <1>5, <1>7, <1>9 DEF Covers, l
<1> QED BY <1>10 DEF gs, x

(* From every place on, the loop covers the rest of the text. *)
LEMMA FromCovers ==
    ASSUME NEW s \in Seq(Char), NEW c, NEW r \in 1 .. Len(s) + 1
    PROVE  \E e : Covers(s, c, r, SplitFrom(s, c)[r], e)
<1> DEFINE N == Len(s) + 1
           F == SplitFrom(s, c)
           S == {k \in Nat : \A p \in 1 .. N : N - p <= k => \E e : Covers(s, c, p, F[p], e)}
<1>0. N \in Nat /\ N > 0 /\ Len(s) \in Nat
  OBVIOUS
<1>1. ASSUME NEW p \in 1 .. N, NextSep(s, c, p) = 0 PROVE \E e : Covers(s, c, p, F[p], e)
  <2> DEFINE e == [n \in 0 .. 0 |-> p - 1]
  <2>1. F[p] = <<>>
    BY <1>1, FromStep DEF SplitStep
  <2>2. e \in [0 .. Len(<<>>) -> 0 .. Len(s)] /\ e[0] = p - 1 /\ e[Len(<<>>)] + 1 = p
    BY <1>0
  <2>3. Without(s, c, p) /\ Without(s, CR, p)
    BY <1>0, <1>1, SepFacts
  <2>4. <<>> \in Seq(Seq(Char)) /\ Cover(s, c, <<>>, e)
    BY DEF Cover
  <2> HIDE DEF e
  <2>5. Covers(s, c, p, <<>>, e)
    BY <2>2, <2>3, <2>4 DEF Covers
  <2> QED BY <2>1, <2>5
<1>2. ASSUME NEW p \in 1 .. N, NextSep(s, c, p) # 0
      PROVE  NextSep(s, c, p) + 1 \in p + 1 .. N /\ F[p] = <<SubSeq(s, p, NextSep(s, c, p) - 1)>> \o F[NextSep(s, c, p) + 1]
  <2>1. NextSep(s, c, p) \in p .. Len(s)
    BY <1>0, <1>2, SepFacts
  <2>2. F[p] = SplitStep(F, s, c, p)
    BY FromStep
  <2> HIDE DEF F
  <2> QED BY <1>0, <1>2, <2>1, <2>2 DEF SplitStep
<1> HIDE DEF F
<1>3. 0 \in S
  <2>1. ASSUME NEW p \in 1 .. N, N - p <= 0 PROVE NextSep(s, c, p) = 0
    <3>1. p \in Nat /\ p = N
      BY <1>0, <2>1
    <3>2. p + 1 .. N = {}
      BY <1>0, <3>1
    <3> QED BY <1>2, <3>2
  <2> QED BY <1>1, <2>1
<1>4. ASSUME NEW k \in Nat, k \in S PROVE k + 1 \in S
  <2> SUFFICES ASSUME NEW p \in 1 .. N, N - p <= k + 1 PROVE \E e : Covers(s, c, p, F[p], e)
    OBVIOUS
  <2>1. CASE NextSep(s, c, p) = 0
    BY <1>1, <2>1
  <2>2. CASE NextSep(s, c, p) # 0
    <3> DEFINE q == NextSep(s, c, p)
    <3>1. q + 1 \in p + 1 .. N /\ F[p] = <<SubSeq(s, p, q - 1)>> \o F[q + 1]
      BY <1>2, <2>2
    <3>2. q + 1 \in 1 .. N /\ N - (q + 1) <= k
      BY <1>0, <3>1
    <3>3. PICK e : Covers(s, c, q + 1, F[q + 1], e)
      BY <1>4, <3>2
    <3> QED BY <2>2, <3>1, <3>3, OneMore
  <2> QED BY <2>1, <2>2
<1>5. N - r \in S
  <2> HIDE DEF S
  <2>1. Nat \subseteq S
    BY <1>3, <1>4, SetInduction
  <2> QED BY <1>0, <2>1
<1> QED BY <1>0, <1>5 DEF F

(* The same for the pieces split_msg returns: they may be as many as it    *)
(* gives at most, and then something may be left.                          *)
CutCovers(s, c, fs, e) ==
    /\ fs \in Seq(Seq(Char)) /\ Len(fs) <= MaxPieces
    /\ e \in [0 .. Len(fs) -> 0 .. Len(s)] /\ e[0] = 0
    /\ Cover(s, c, fs, e)
    /\ Len(fs) = MaxPieces \/ (Without(s, c, e[Len(fs)] + 1) /\ Without(s, CR, e[Len(fs)] + 1))

(* What split_msg returns, for every text. *)
LEMMA SplitCovers ==
    ASSUME NEW s \in Seq(Char), NEW c
    PROVE  \E e : CutCovers(s, c, split_msg(s, c), e)
<1> DEFINE all == SplitFrom(s, c)[1]
<1>1. PICK e : Covers(s, c, 1, all, e)
  BY FromCovers
<1>2. split_msg(s, c) = Cut(all)
  BY SplitIsCut
<1> HIDE DEF all
<1>3. MaxPieces \in Nat /\ all \in Seq(Seq(Char)) /\ Len(all) \in Nat
  BY <1>1, CodecAssumption DEF Covers
<1>4. CASE Len(all) <= MaxPieces
  BY <1>1, <1>2, <1>3, <1>4 DEF Covers, CutCovers, Cut
<1>5. CASE Len(all) > MaxPieces
  <2> DEFINE fs == SubSeq(all, 1, MaxPieces)
             g == [n \in 0 .. MaxPieces |-> e[n]]
  <2>1. \A n \in 1 .. MaxPieces : all[n] \in Seq(Char)
    BY <1>3, <1>5
  <2>2. /\ fs \in Seq(Seq(Char)) /\ Len(fs) = IF 1 <= MaxPieces THEN MaxPieces - 1 + 1 ELSE 0
        /\ \A n \in 1 .. MaxPieces - 1 + 1 : fs[n] = all[1 + n - 1]
    BY <1>3, <2>1, SubSeqProperties
  <2> HIDE DEF fs
  <2>3. Len(fs) = MaxPieces /\ \A n \in 1 .. MaxPieces : fs[n] = all[n]
    BY <1>3, <2>2
  <2>4. g \in [0 .. MaxPieces -> 0 .. Len(s)] /\ g[0] = 0
    BY <1>1, <1>3, <1>5 DEF Covers
  <2>5. \A n \in 1 .. MaxPieces : n - 1 \in 0 .. MaxPieces /\ g[n] = e[n] /\ g[n - 1] = e[n - 1] /\ n \in 1 .. Len(all)
    BY <1>3, <1>5
  <2> HIDE DEF g
  <2>6. Cover(s, c, fs, g)
    BY <1>1, <2>3, <2>5 DEF Cover, Piece, Covers
  <2>7. split_msg(s, c) = fs
    BY <1>2, <1>3, <1>5 DEF Cut, fs
  <2>8. CutCovers(s, c, fs, g)
    BY <1>3, <2>2, <2>3, <2>4, <2>6 DEF CutCovers
  <2> QED BY <2>7, <2>8
<1> QED BY <1>3, <1>4, <1>5

(* A piece, character by character. *)
Inside(s, e, n) == e[n] \in 0 .. Len(s) /\ e[n - 1] \in 0 .. Len(s)
PieceText(s, fs, e, n) ==
    /\ fs[n] \in Seq(Char) /\ e[n - 1] < e[n] /\ Len(fs[n]) = e[n] - 1 - e[n - 1]
    /\ \A m \in 1 .. Len(fs[n]) : fs[n][m] = s[e[n - 1] + m]

LEMMA PieceAt ==
    ASSUME NEW s \in Seq(Char), NEW c, NEW fs, NEW e, NEW n, Piece(s, c, fs, e, n), Inside(s, e, n)
    PROVE  PieceText(s, fs, e, n)
<1> DEFINE a == e[n - 1]
           b == e[n]
           x == SubSeq(s, a + 1, b - 1)
<1>0. a \in Nat /\ b \in Nat /\ Len(s) \in Nat /\ a <= Len(s) /\ b <= Len(s)
  BY DEF Inside
<1>1. fs[n] = x /\ b = a + Len(fs[n]) + 1
  BY DEF Piece
<1> HIDE DEF a, b
<1>2. (\A m \in a + 1 .. b - 1 : s[m] \in Char) /\ a + 1 \in Int /\ b - 1 \in Int
  BY <1>0
<1>3. /\ x \in Seq(Char) /\ Len(x) = IF a + 1 <= b - 1 THEN b - 1 - (a + 1) + 1 ELSE 0
      /\ \A m \in 1 .. b - 1 - (a + 1) + 1 : x[m] = s[a + 1 + m - 1]
  BY <1>2, SubSeqProperties
<1> HIDE DEF x
<1>4. Len(x) \in Nat /\ b = a + Len(x) + 1
  BY <1>1, <1>3, LenProperties
<1>5. a < b /\ Len(x) = b - 1 - a
  BY <1>0, <1>4
<1>6. ASSUME NEW m \in 1 .. Len(x) PROVE x[m] = s[a + m]
  <2>1. m \in 1 .. b - 1 - (a + 1) + 1 /\ a + 1 + m - 1 = a + m
    BY <1>0, <1>5
  <2> QED BY <1>3, <2>1
<1> QED BY <1>1, <1>3, <1>5, <1>6 DEF a, b, x, PieceText

(* The sums of SplitCoversText are the ends of the pieces. *)
LEMMA EndsAreSums ==
    ASSUME pieces \in Seq(Seq(Char)), NEW e \in [0 .. Len(pieces) -> Nat], e[0] = 0,
           \A n \in 1 .. Len(pieces) : e[n] = e[n - 1] + Len(pieces[n]) + 1
    PROVE  \A n \in 0 .. Len(pieces) : End[n] = e[n]
<1> DEFINE L == Len(pieces)
           Sum(f) == [n \in 0 .. L |-> IF n = 0 THEN 0 ELSE f[n - 1] + Len(pieces[n]) + 1]
           S == {n \in Nat : n <= L => End[n] = e[n]}
<1>0. L \in Nat
  OBVIOUS
<1>1. e = Sum(e)
  <2>1. \A n \in 0 .. L : n = 0 \/ n \in 1 .. L
    BY <1>0
  <2> QED BY <2>1
<1>2. End = Sum(End)
  <2>1. \E f : f = Sum(f)
    BY <1>1
  <2> QED BY <2>1, Zenon DEF End
<1>3. 0 \in S
  BY <1>0, <1>2
<1>4. ASSUME NEW n \in Nat, n \in S PROVE n + 1 \in S
  <2> SUFFICES ASSUME n + 1 <= L PROVE End[n + 1] = e[n + 1]
    OBVIOUS
  <2>1. n + 1 \in 1 .. L /\ n + 1 \in 0 .. L /\ n + 1 # 0 /\ (n + 1) - 1 = n /\ n <= L
    BY <1>0
  <2>2. End[n + 1] = End[n] + Len(pieces[n + 1]) + 1
    BY <1>2, <2>1
  <2>3. e[n + 1] = e[n] + Len(pieces[n + 1]) + 1
    BY <2>1
  <2> QED BY <1>4, <2>1, <2>2, <2>3
<1> HIDE DEF S
<1>5. Nat \subseteq S
  BY <1>3, <1>4, SetInduction
<1> QED BY <1>0, <1>5 DEF S

(* What split_msg returned covers the text. *)
LEMMA SplitCoversReceived ==
    ASSUME text \in Seq(Char), pieces = split_msg(text, SPLITADDRCHAR)
    PROVE  SplitCoversText
<1> DEFINE L == Len(pieces)
<1>1. PICK e : CutCovers(text, SPLITADDRCHAR, pieces, e)
  BY SplitCovers
<1>2. /\ pieces \in Seq(Seq(Char)) /\ e \in [0 .. L -> 0 .. Len(text)] /\ e[0] = 0
      /\ L \in Nat /\ Len(text) \in Nat
  BY <1>1 DEF CutCovers
<1>3. \A n \in 1 .. L : Piece(text, SPLITADDRCHAR, pieces, e, n)
  BY <1>1 DEF CutCovers, Cover
<1>4. \A n \in 0 .. L : End[n] = e[n]
  <2>1. e \in [0 .. L -> Nat] /\ \A n \in 1 .. L : e[n] = e[n - 1] + Len(pieces[n]) + 1
    BY <1>2, <1>3 DEF Piece
  <2> QED BY <1>2, <2>1, EndsAreSums
<1>5. ASSUME NEW n \in 1 .. L
      PROVE  /\ End[n] <= Len(text)
             /\ SubSeq(text, End[n - 1] + 1, End[n] - 1) = pieces[n]
             /\ Places(pieces[n], SPLITADDRCHAR, 1) = {}
             /\ \/ text[End[n]] = SPLITADDRCHAR
                \/ text[End[n]] = CR /\ Places(text, SPLITADDRCHAR, End[n]) = {}
  <2>0. n \in 0 .. L /\ n - 1 \in 0 .. L
    BY <1>2
  <2>1. /\ End[n] = e[n] /\ End[n - 1] = e[n - 1]
        /\ e[n] \in 0 .. Len(text) /\ e[n - 1] \in 0 .. Len(text)
    BY <1>2, <1>4, <2>0
  <2>2. PICK x, a, b : x = pieces[n] /\ a = e[n - 1] /\ b = e[n]
    OBVIOUS
  <2>3. /\ a \in 0 .. Len(text) /\ b \in 0 .. Len(text) /\ b = a + Len(x) + 1
        /\ x = SubSeq(text, a + 1, b - 1)
        /\ \A m \in a + 1 .. b - 1 : text[m] # SPLITADDRCHAR
        /\ \/ text[b] = SPLITADDRCHAR
           \/ text[b] = CR /\ Without(text, SPLITADDRCHAR, a + 1)
    BY <1>3, <2>1, <2>2, Zenon DEF Piece
  <2>4. /\ x \in Seq(Char) /\ a < b /\ Len(x) = b - 1 - a
        /\ \A m \in 1 .. Len(x) : x[m] = text[a + m]
    <3>1. Piece(text, SPLITADDRCHAR, pieces, e, n) /\ Inside(text, e, n)
      BY <1>3, <2>1, Zenon DEF Inside
    <3>2. PieceText(text, pieces, e, n)
      BY <3>1, PieceAt, Zenon
    <3> QED BY <2>2, <3>2, Zenon DEF PieceText
  <2>5. Places(x, SPLITADDRCHAR, 1) = {}
    <3> SUFFICES ASSUME NEW m \in 1 .. Len(x), x[m] = SPLITADDRCHAR PROVE FALSE
      BY DEF Places
    <3>0. a \in Nat /\ b \in Nat /\ m \in Nat /\ 1 <= m /\ m <= b - 1 - a
      BY <1>2, <2>3, <2>4
    <3>1. a + m \in a + 1 .. b - 1
      BY <3>0
    <3> QED BY <2>3, <2>4, <3>1
  <2>6. Without(text, SPLITADDRCHAR, a + 1) => Places(text, SPLITADDRCHAR, b) = {}
    BY <1>2, <2>3, <2>4 DEF Without, Places
  <2>7. b <= Len(text)
    BY <1>2, <2>3
  <2> QED BY <2>1, <2>2, <2>3, <2>5, <2>6, <2>7, Zenon
<1>6. \/ L = MaxPieces
      \/ \A n \in End[L] + 1 .. Len(text) : text[n] \notin {SPLITADDRCHAR, CR}
  BY <1>1, <1>2, <1>4 DEF CutCovers, Without
<1> QED BY <1>5, <1>6 DEF SplitCoversText

-----------------------------------------------------------------------------
(* The first '=' of a piece parts it into key and value. *)
LEMMA PairParts ==
    ASSUME NEW x \in Seq(Char), NEW k \in 1 .. Len(x), x[k] = FSPLITTERCHAR,
           \A m \in 1 .. k - 1 : x[m] # FSPLITTERCHAR
    PROVE  Pair(x) = <<SubSeq(x, 1, k - 1), SubSeq(x, k + 1, Len(x))>>
<1> DEFINE f == strchr(x, FSPLITTERCHAR, 1)
<1>0. Len(x) \in Nat /\ 1 \in Nat \ {0}
  OBVIOUS
<1>1. \/ f = 0 /\ \A n \in 1 .. Len(x) : x[n] # FSPLITTERCHAR
      \/ /\ f \in 1 .. Len(x) /\ x[f] = FSPLITTERCHAR
         /\ \A n \in 1 .. f - 1 : x[n] # FSPLITTERCHAR
  BY <1>0, StrchrFacts
<1> HIDE DEF f
<1>2. f \in 1 .. Len(x) /\ ~ (f < k) /\ ~ (k < f)
  BY <1>0, <1>1
<1>3. f = k /\ f # 0
  BY <1>0, <1>2
<1> QED BY <1>3 DEF Pair, f

(* A part of a text is one, and has its length. *)
LEMMA PartOf ==
    ASSUME NEW x \in Seq(Char), NEW a \in 1 .. Len(x) + 1, NEW b \in a - 1 .. Len(x)
    PROVE  /\ SubSeq(x, a, b) \in Seq(Char) /\ Len(SubSeq(x, a, b)) = b - a + 1
           /\ \A m \in 1 .. b - a + 1 : SubSeq(x, a, b)[m] = x[a + m - 1]
<1>1. Len(x) \in Nat /\ a \in Int /\ b \in Int /\ a - 1 <= b
  OBVIOUS
<1>2. \A m \in a .. b : x[m] \in Char
  BY <1>1
<1>3. /\ SubSeq(x, a, b) \in Seq(Char)
      /\ Len(SubSeq(x, a, b)) = IF a <= b THEN b - a + 1 ELSE 0
      /\ \A m \in 1 .. b - a + 1 : SubSeq(x, a, b)[m] = x[a + m - 1]
  BY <1>1, <1>2, SubSeqProperties
<1> QED BY <1>1, <1>3

(* What becomes of a piece. *)
LEMMA PairFacts ==
    ASSUME NEW x \in Seq(Char)
    PROVE  /\ Pair(x) \in Seq(Char) \X Seq(Char)
           /\ \/ Pair(x) = Missing
              \/ \E k \in 1 .. Len(x) :
                    /\ x[k] = FSPLITTERCHAR /\ \A m \in 1 .. k - 1 : x[m] # FSPLITTERCHAR
                    /\ Pair(x) = <<SubSeq(x, 1, k - 1), SubSeq(x, k + 1, Len(x))>>
<1> DEFINE f == strchr(x, FSPLITTERCHAR, 1)
<1>0. Len(x) \in Nat /\ 1 \in Nat \ {0}
  OBVIOUS
<1>1. \/ f = 0
      \/ /\ f \in 1 .. Len(x) /\ x[f] = FSPLITTERCHAR
         /\ \A n \in 1 .. f - 1 : x[n] # FSPLITTERCHAR
  BY <1>0, StrchrFacts
<1>2. CASE f = 0
  <2>1. Pair(x) = Missing
    BY <1>2 DEF Pair
  <2>2. <<IGNOREINFOBYTE>> \in Seq(Char)
    BY DEF Char
  <2>3. Missing \in Seq(Char) \X Seq(Char)
    BY <2>2 DEF Missing
  <2> QED BY <2>1, <2>3, Zenon
<1>3. CASE f # 0
  <2> HIDE DEF f
  <2>1. /\ f \in 1 .. Len(x) /\ x[f] = FSPLITTERCHAR
        /\ \A n \in 1 .. f - 1 : x[n] # FSPLITTERCHAR
    BY <1>1, <1>3
  <2>2. Pair(x) = <<SubSeq(x, 1, f - 1), SubSeq(x, f + 1, Len(x))>>
    BY <2>1, PairParts
  <2>3. SubSeq(x, 1, f - 1) \in Seq(Char)
    BY <1>0, <2>1, PartOf
  <2>4. SubSeq(x, f + 1, Len(x)) \in Seq(Char)
    BY <1>0, <2>1, PartOf
  <2>5. Pair(x) \in Seq(Char) \X Seq(Char)
    <3>1. \A y, z \in Seq(Char) : <<y, z>> \in Seq(Char) \X Seq(Char)
      OBVIOUS
    <3> QED BY <2>2, <2>3, <2>4, <3>1, Zenon
  <2> QED BY <2>1, <2>2, <2>5, Zenon
<1> QED BY <1>2, <1>3

(* Entering pairs in reversed order: the first of each key stays. *)
LEMMA ReversedTable ==
    ASSUME NEW L \in Nat, NEW qs, qs = [n \in 1 .. L |-> qs[n]], Len(qs) = L
    PROVE  Settable(Reverse(qs)) =
             {qs[m] : m \in {k \in 1 .. L : \A j \in 1 .. k - 1 : qs[j][1] # qs[k][1]}}
<1> DEFINE ps == Reverse(qs)
<1>1. ps = [n \in 1 .. L |-> qs[(L - n) + 1]]
  BY DEF Reverse
<1>2. Len(ps) = L
  BY <1>1
<1> HIDE DEF ps
<1>3. (\A n \in 1 .. L : (L - n) + 1 \in 1 .. L) /\ (\A n \in 1 .. L : ps[n] = qs[(L - n) + 1])
  BY <1>1
<1>4. ASSUME NEW n \in 1 .. L
      PROVE  /\ \A o \in n + 1 .. L : (L - o) + 1 \in 1 .. ((L - n) + 1) - 1
             /\ \A j \in 1 .. ((L - n) + 1) - 1 : (L - j) + 1 \in n + 1 .. L /\ (L - ((L - j) + 1)) + 1 = j
  OBVIOUS
<1>5. ASSUME NEW n \in 1 .. L
      PROVE  (\A o \in n + 1 .. L : ps[o][1] # ps[n][1])
               <=> (\A j \in 1 .. ((L - n) + 1) - 1 : qs[j][1] # qs[(L - n) + 1][1])
  <2>0. \A o \in n + 1 .. L : o \in 1 .. L
    OBVIOUS
  <2>1. \A o \in n + 1 .. L : ps[o] = qs[(L - o) + 1]
    BY <1>3, <2>0
  <2>2. \A j \in 1 .. ((L - n) + 1) - 1 : ps[(L - j) + 1] = qs[j]
    <3>1. ASSUME NEW j \in 1 .. ((L - n) + 1) - 1 PROVE ps[(L - j) + 1] = qs[j]
      <4>1. PICK o \in n + 1 .. L : o = (L - j) + 1
        BY <1>4
      <4>2. (L - o) + 1 = j
        BY <4>1
      <4> QED BY <2>1, <4>1, <4>2
    <3> QED BY <3>1
  <2>3. ps[n] = qs[(L - n) + 1]
    BY <1>3
  <2>4. ASSUME \A o \in n + 1 .. L : ps[o][1] # ps[n][1],
               NEW j \in 1 .. ((L - n) + 1) - 1
        PROVE  qs[j][1] # qs[(L - n) + 1][1]
    <3>1. (L - j) + 1 \in n + 1 .. L
      BY <1>4
    <3>2. ps[(L - j) + 1] = qs[j] /\ ps[(L - j) + 1][1] # ps[n][1]
      BY <2>2, <2>4, <3>1, Zenon
    <3> QED BY <2>3, <3>2, Zenon
  <2>5. ASSUME \A j \in 1 .. ((L - n) + 1) - 1 : qs[j][1] # qs[(L - n) + 1][1],
               NEW o \in n + 1 .. L
        PROVE  ps[o][1] # ps[n][1]
    <3>1. (L - o) + 1 \in 1 .. ((L - n) + 1) - 1
      BY <1>4
    <3>2. ps[o] = qs[(L - o) + 1] /\ qs[(L - o) + 1][1] # qs[(L - n) + 1][1]
      BY <2>1, <2>5, <3>1, Zenon
    <3> QED BY <2>3, <3>2, Zenon
  <2> QED BY <2>4, <2>5
<1>6. Settable(ps) = {ps[n] : n \in {m \in 1 .. L : \A o \in m + 1 .. L : ps[o][1] # ps[m][1]}}
  BY <1>2 DEF Settable
<1>7. ASSUME NEW n \in 1 .. L, \A o \in n + 1 .. L : ps[o][1] # ps[n][1]
      PROVE  ps[n] \in {qs[m] : m \in {k \in 1 .. L : \A j \in 1 .. k - 1 : qs[j][1] # qs[k][1]}}
  BY <1>3, <1>5, <1>7
<1>8. ASSUME NEW k \in 1 .. L, \A j \in 1 .. k - 1 : qs[j][1] # qs[k][1]
      PROVE  \E n \in 1 .. L : qs[k] = ps[n] /\ \A o \in n + 1 .. L : ps[o][1] # ps[n][1]
  <2>1. PICK n \in 1 .. L : n = (L - k) + 1
    OBVIOUS
  <2>2. (L - n) + 1 = k
    BY <2>1
  <2>3. ps[n] = qs[k] /\ \A o \in n + 1 .. L : ps[o][1] # ps[n][1]
    BY <1>3, <1>5, <1>8, <2>2, Zenon
  <2> QED BY <2>3, Zenon
<1>9. Settable(ps) = {qs[m] : m \in {k \in 1 .. L : \A j \in 1 .. k - 1 : qs[j][1] # qs[k][1]}}
  <2> DEFINE A == {n \in 1 .. L : \A o \in n + 1 .. L : ps[o][1] # ps[n][1]}
             B == {k \in 1 .. L : \A j \in 1 .. k - 1 : qs[j][1] # qs[k][1]}
  <2>1. \A n \in A : ps[n] \in {qs[m] : m \in B}
    BY <1>7, Zenon
  <2>2. \A k \in B : \E n \in A : qs[k] = ps[n]
    BY <1>8, Zenon
  <2>3. Settable(ps) = {ps[n] : n \in A}
    BY <1>6
  <2> HIDE DEF A, B
  <2>4. {ps[n] : n \in A} = {qs[m] : m \in B}
    BY <2>1, <2>2
  <2> QED BY <2>3, <2>4 DEF B
<1> QED BY <1>9 DEF ps

(* What unpackData returns: the pair of every piece whose key stands in no *)
(* earlier piece.                                                          *)
LEMMA UnpackedPairs ==
    ASSUME NEW s, NEW ss \in Seq(Seq(Char)), ss = split_msg(s, SPLITADDRCHAR)
    PROVE  Settable(unpackData(s)) =
             {Pair(ss[m]) : m \in {k \in 1 .. Len(ss) :
                                     \A j \in 1 .. k - 1 : Pair(ss[j])[1] # Pair(ss[k])[1]}}
<1> DEFINE L == Len(ss)
           qs == [n \in 1 .. L |-> Pair(ss[n])]
<1>0. L \in Nat
  OBVIOUS
<1>1. unpackData(s) = Reverse(qs)
  BY Zenon DEF unpackData
<1>2. qs = [n \in 1 .. L |-> qs[n]] /\ Len(qs) = L
  BY <1>0
<1>3. Settable(Reverse(qs)) =
        {qs[m] : m \in {k \in 1 .. L : \A j \in 1 .. k - 1 : qs[j][1] # qs[k][1]}}
  <2> HIDE DEF qs, L
  <2> QED BY <1>0, <1>2, ReversedTable
<1>4. \A k \in 1 .. L : qs[k] = Pair(ss[k]) /\ \A j \in 1 .. k - 1 : qs[j] = Pair(ss[j])
  BY <1>0
<1> HIDE DEF qs, L
<1>5. {qs[m] : m \in {k \in 1 .. L : \A j \in 1 .. k - 1 : qs[j][1] # qs[k][1]}}
        = {Pair(ss[m]) : m \in {k \in 1 .. L : \A j \in 1 .. k - 1 : Pair(ss[j])[1] # Pair(ss[k])[1]}}
  BY <1>4
<1> QED BY <1>1, <1>3, <1>5 DEF L

(* A text is its beginning, the next character and its end. *)
LEMMA Rejoin ==
    ASSUME NEW x \in Seq(Char), NEW k \in 1 .. Len(x)
    PROVE  SubSeq(x, 1, k - 1) \o <<x[k]>> \o SubSeq(x, k + 1, Len(x)) = x
<1>0. Len(x) \in Nat /\ 1 \in 1 .. Len(x) /\ 1 \in 1 .. Len(x) + 1 /\ k \in 1 - 1 .. Len(x)
      /\ Len(x) \in k .. Len(x)
  OBVIOUS
<1>1. SubSeq(x, 1, k) = SubSeq(x, 1, k - 1) \o <<x[k]>>
  BY <1>0, SubSeqRecursiveSecond
<1>2. SubSeq(x, 1, k) \o SubSeq(x, k + 1, Len(x)) = SubSeq(x, 1, Len(x))
  BY <1>0, ConcatAdjacentSubSeq
<1>3. SubSeq(x, 1, Len(x)) = x
  BY SubSeqFull
<1> QED BY <1>1, <1>2, <1>3

(* The parts of CutCovers. *)
LEMMA CutFacts ==
    ASSUME NEW s \in Seq(Char), NEW c, NEW fs, NEW e, CutCovers(s, c, fs, e)
    PROVE  /\ fs \in Seq(Seq(Char)) /\ Len(fs) \in Nat /\ Len(s) \in Nat /\ e[0] = 0
           /\ \A n \in 0 .. Len(fs) : e[n] \in 0 .. Len(s)
           /\ \A n \in 1 .. Len(fs) : Piece(s, c, fs, e, n)
<1>1. fs \in Seq(Seq(Char)) /\ e \in [0 .. Len(fs) -> 0 .. Len(s)] /\ e[0] = 0 /\ Cover(s, c, fs, e)
  BY DEF CutCovers
<1>2. Len(fs) \in Nat /\ Len(s) \in Nat
  BY <1>1
<1>3. \A n \in 1 .. Len(fs) : Piece(s, c, fs, e, n)
  BY <1>1 DEF Cover
<1> QED BY <1>1, <1>2, <1>3

(* Its pieces, character by character. *)
LEMMA PiecesAt ==
    ASSUME NEW s \in Seq(Char), NEW c, NEW fs, NEW e, CutCovers(s, c, fs, e)
    PROVE  \A n \in 1 .. Len(fs) : Inside(s, e, n) /\ PieceText(s, fs, e, n)
<1> SUFFICES ASSUME NEW n \in 1 .. Len(fs) PROVE Inside(s, e, n) /\ PieceText(s, fs, e, n)
  OBVIOUS
<1>1. Len(fs) \in Nat /\ \A m \in 0 .. Len(fs) : e[m] \in 0 .. Len(s)
  BY CutFacts
<1>2. n \in 0 .. Len(fs) /\ n - 1 \in 0 .. Len(fs)
  BY <1>1
<1>3. Inside(s, e, n)
  BY <1>1, <1>2 DEF Inside
<1>4. Piece(s, c, fs, e, n)
  BY CutFacts
<1> QED BY <1>3, <1>4, PieceAt, Zenon

(* Up to the end of piece n, every separator is the end of a piece. *)
EndOfPiece(s, c, e, n, z) == s[z] = c => \E j \in 1 .. n : z = e[j]

LEMMA PlaceInPiece ==
    ASSUME NEW s \in Seq(Char), NEW c, NEW fs, NEW e, CutCovers(s, c, fs, e),
           NEW n \in 0 .. Len(fs), NEW z \in 1 .. e[n]
    PROVE  EndOfPiece(s, c, e, n, z)
<1>0. /\ Len(fs) \in Nat /\ Len(s) \in Nat /\ n \in Nat /\ e[0] = 0
      /\ \A m \in 0 .. Len(fs) : e[m] \in 0 .. Len(s)
  <2>1. Len(fs) \in Nat /\ Len(s) \in Nat /\ e[0] = 0 /\ \A m \in 0 .. Len(fs) : e[m] \in 0 .. Len(s)
    BY CutFacts
  <2> QED BY <2>1
<1> DEFINE S == {m \in 0 .. n : z <= e[m]}
<1>1. n \in S /\ S \in SUBSET Nat /\ e[n] \in Nat /\ z \in Nat
  BY <1>0
<1>2. PICK j \in S : \A g \in S : j <= g
  BY <1>1, LeastNatural
<1>3. j # 0
  BY <1>0, <1>1, <1>2
<1>4. j \in 1 .. n /\ j - 1 \in 0 .. n /\ j - 1 \notin S /\ z <= e[j]
  BY <1>0, <1>2, <1>3
<1>5. j - 1 \in 0 .. Len(fs) /\ j \in 1 .. Len(fs) /\ j \in 0 .. Len(fs)
  BY <1>0, <1>4
<1>6. e[j - 1] \in Nat /\ e[j] \in Nat /\ e[j - 1] < z
  BY <1>0, <1>1, <1>4, <1>5
<1>7. \A m \in e[j - 1] + 1 .. e[j] - 1 : s[m] # c
  BY <1>5 DEF CutCovers, Cover, Piece
<1>8. s[z] = c => z = e[j]
  BY <1>1, <1>4, <1>6, <1>7
<1> QED BY <1>4, <1>8 DEF EndOfPiece

(* A piece whose text begins like another piece up to its '=' has the same *)
(* key.                                                                    *)
LEMMA SameKey ==
    ASSUME NEW x \in Seq(Char), NEW y \in Seq(Char), NEW k \in 1 .. Len(x), k <= Len(y),
           x[k] = FSPLITTERCHAR, \A m \in 1 .. k - 1 : x[m] # FSPLITTERCHAR,
           \A m \in 1 .. k : y[m] = x[m]
    PROVE  Pair(y)[1] = SubSeq(x, 1, k - 1)
<1>0. Len(x) \in Nat /\ Len(y) \in Nat /\ k \in Nat /\ k \in 1 .. Len(y) /\ k \in 1 .. k
  OBVIOUS
<1>1. y[k] = FSPLITTERCHAR /\ \A m \in 1 .. k - 1 : y[m] # FSPLITTERCHAR
  BY <1>0
<1>2. Pair(y) = <<SubSeq(y, 1, k - 1), SubSeq(y, k + 1, Len(y))>>
  BY <1>0, <1>1, PairParts
<1>3. 1 \in 1 .. Len(x) + 1 /\ k - 1 \in 1 - 1 .. Len(x) /\ 1 \in 1 .. Len(y) + 1 /\ k - 1 \in 1 - 1 .. Len(y)
  BY <1>0
<1>4. PICK u, v : u = SubSeq(x, 1, k - 1) /\ v = SubSeq(y, 1, k - 1)
  OBVIOUS
<1>5. /\ u \in Seq(Char) /\ Len(u) = k - 1 - 1 + 1
      /\ \A m \in 1 .. k - 1 - 1 + 1 : u[m] = x[1 + m - 1]
  BY <1>3, <1>4, PartOf
<1>6. /\ v \in Seq(Char) /\ Len(v) = k - 1 - 1 + 1
      /\ \A m \in 1 .. k - 1 - 1 + 1 : v[m] = y[1 + m - 1]
  BY <1>3, <1>4, PartOf
<1>7. \A m \in 1 .. Len(u) : u[m] = v[m]
  BY <1>0, <1>5, <1>6
<1>8. u = v
  BY <1>5, <1>6, <1>7, SeqEqual
<1> QED BY <1>2, <1>4, <1>8

(* The key of piece x, whose '=' is at k, stands at q behind a separator,  *)
(* before place a.                                                         *)
KeyBefore(s, x, a, k, q) ==
    /\ k \in 1 .. Len(x) /\ x[k] = FSPLITTERCHAR
    /\ \A n \in 1 .. k - 1 : x[n] # FSPLITTERCHAR
    /\ q \in 1 .. a /\ (q = 1 \/ s[q - 1] = SPLITADDRCHAR)
    /\ \A n \in 1 .. k : s[q + n - 1] = x[n]

KeyOfEarlier(fs, m, k) == \E j \in 1 .. m - 1 : Pair(fs[j])[1] = SubSeq(fs[m], 1, k - 1)

(* A key that stands behind a separator before piece m, and does not reach *)
(* past its own piece, is the key of an earlier piece.                     *)
LEMMA EarlierPiece ==
    ASSUME NEW s \in Seq(Char), NEW fs, NEW e, CutCovers(s, SPLITADDRCHAR, fs, e),
           NEW m \in 1 .. Len(fs), NEW k, NEW q, KeyBefore(s, fs[m], e[m - 1], k, q)
    PROVE  KeyOfEarlier(fs, m, k)
<1> USE DEF KeyBefore
<1> DEFINE L == Len(fs)
<1>0. /\ L \in Nat /\ Len(s) \in Nat /\ e[0] = 0
      /\ \A n \in 0 .. L : e[n] \in 0 .. Len(s)
      /\ \A n \in 1 .. L : Piece(s, SPLITADDRCHAR, fs, e, n)
  BY CutFacts, Zenon
<1>1. m \in Nat /\ m - 1 \in 0 .. L /\ m \in 0 .. L
  BY <1>0
<1>2. PICK x, a, b : x = fs[m] /\ a = e[m - 1] /\ b = e[m]
  OBVIOUS
<1>3. a \in Nat /\ b \in Nat /\ q \in Nat /\ 1 <= q /\ q <= a
  BY <1>0, <1>1, <1>2
<1>4. /\ \A n \in a + 1 .. b - 1 : s[n] # SPLITADDRCHAR
      /\ \/ s[b] = SPLITADDRCHAR
         \/ s[b] = CR /\ \A n \in a + 1 .. b - 1 : s[n] # CR
  BY <1>0, <1>2, Zenon DEF Piece
<1>5. x \in Seq(Char) /\ a < b /\ Len(x) = b - 1 - a /\ \A n \in 1 .. Len(x) : x[n] = s[a + n]
  <2>1. PieceText(s, fs, e, m)
    BY PiecesAt, Zenon
  <2> QED BY <1>2, <2>1, Zenon DEF PieceText
<1>6. k \in Nat /\ 1 <= k /\ k <= b - 1 - a /\ k \in 1 .. Len(x)
  BY <1>2, <1>3, <1>5
<1>7. \A n \in 1 .. k : n \in 1 .. Len(x) /\ a + n \in a + 1 .. b - 1 /\ s[q + n - 1] = x[n] /\ x[n] = s[a + n]
  <2>1. \A n \in 1 .. k : n \in 1 .. Len(x) /\ a + n \in a + 1 .. b - 1
    BY <1>3, <1>5, <1>6
  <2> QED BY <1>2, <1>5, <2>1, Zenon
<1>8. PICK j \in 1 .. m - 1 : e[j - 1] = q - 1
  <2>1. CASE q = 1
    <3>1. m - 1 # 0
      BY <1>0, <1>2, <1>3
    <3>2. 1 \in 1 .. m - 1 /\ e[1 - 1] = q - 1
      BY <1>0, <1>1, <2>1, <3>1
    <3> QED BY <3>2
  <2>2. CASE q # 1
    <3>1. q - 1 \in 1 .. e[m - 1] /\ s[q - 1] = SPLITADDRCHAR
      BY <1>2, <1>3, <2>2
    <3>2. PICK h \in 1 .. m - 1 : q - 1 = e[h]
      <4>1. EndOfPiece(s, SPLITADDRCHAR, e, m - 1, q - 1)
        BY <1>1, <3>1, PlaceInPiece, Zenon
      <4> QED BY <3>1, <4>1, Zenon DEF EndOfPiece
    <3>3. h # m - 1
      <4>1. q - 1 # a
        BY <1>3
      <4> QED BY <1>2, <3>2, <4>1, Zenon
    <3>4. h + 1 \in 1 .. m - 1 /\ e[(h + 1) - 1] = q - 1
      BY <1>1, <3>2, <3>3
    <3> QED BY <3>4
  <2> QED BY <2>1, <2>2
<1>9. PICK y, d : y = fs[j] /\ d = e[j]
  OBVIOUS
<1>10. j \in 1 .. L /\ j \in 0 .. L /\ j - 1 \in 0 .. L
  BY <1>0, <1>1
<1>11. d \in Nat /\ d <= Len(s)
  BY <1>0, <1>9, <1>10
<1>12. /\ y \in Seq(Char) /\ q - 1 < d /\ Len(y) = d - 1 - (q - 1)
       /\ \A n \in 1 .. Len(y) : y[n] = s[(q - 1) + n]
  <2>1. PieceText(s, fs, e, j)
    BY <1>10, PiecesAt, Zenon
  <2> QED BY <1>8, <1>9, <2>1, Zenon DEF PieceText
<1>13. s[d] = SPLITADDRCHAR \/ (s[d] = CR /\ Without(s, SPLITADDRCHAR, (q - 1) + 1))
  BY <1>0, <1>8, <1>9, <1>10, Zenon DEF Piece
<1>14. d > q + k - 1
  <2> SUFFICES ASSUME d <= q + k - 1 PROVE FALSE
    BY <1>3, <1>6, <1>11
  <2>1. PICK n \in 1 .. k : q + n - 1 = d
    <3>1. d - q + 1 \in 1 .. k /\ q + (d - q + 1) - 1 = d
      BY <1>3, <1>6, <1>11, <1>12
    <3> QED BY <3>1
  <2>2. s[d] = s[a + n] /\ a + n \in a + 1 .. b - 1
    BY <1>7, <2>1
  <2>3. s[d] = CR /\ Without(s, SPLITADDRCHAR, (q - 1) + 1)
    BY <1>4, <1>13, <2>2
  <2>4. b \in (q - 1) + 1 .. Len(s)
    BY <1>0, <1>1, <1>2, <1>3, <1>5
  <2>5. s[b] # SPLITADDRCHAR
    BY <2>3, <2>4 DEF Without
  <2> QED BY <1>4, <2>2, <2>3, <2>5
<1>15. k <= Len(y)
  BY <1>3, <1>6, <1>11, <1>12, <1>14
<1>16. \A n \in 1 .. k : y[n] = x[n]
  <2>1. \A n \in 1 .. k : n \in 1 .. Len(y) /\ (q - 1) + n = q + n - 1
    BY <1>3, <1>6, <1>12, <1>15
  <2> QED BY <1>7, <1>12, <2>1
<1>17. x[k] = FSPLITTERCHAR /\ \A n \in 1 .. k - 1 : x[n] # FSPLITTERCHAR
  BY <1>2
<1>18. Pair(y)[1] = SubSeq(x, 1, k - 1)
  BY <1>5, <1>6, <1>12, <1>15, <1>16, <1>17, SameKey
<1> QED BY <1>2, <1>9, <1>18, Zenon DEF KeyOfEarlier

(* What unpackData returned stands in the text, its first value counting. *)
LEMMA FirstValueStands ==
    ASSUME text \in Seq(Char), result = Settable(unpackData(text))
    PROVE  FirstValueCounts
<1>1. PICK ss : ss = split_msg(text, SPLITADDRCHAR)
  OBVIOUS
<1>2. PICK e : CutCovers(text, SPLITADDRCHAR, ss, e)
  BY <1>1, SplitCovers
<1>3. /\ ss \in Seq(Seq(Char)) /\ Len(ss) \in Nat /\ Len(text) \in Nat /\ e[0] = 0
      /\ \A n \in 0 .. Len(ss) : e[n] \in 0 .. Len(text)
      /\ \A n \in 1 .. Len(ss) : Piece(text, SPLITADDRCHAR, ss, e, n)
  BY <1>2, CutFacts, Zenon
<1> SUFFICES ASSUME NEW r \in result, r # Missing
             PROVE  \E p \in 1 .. Len(text) :
                       FieldAt(r[1], r[2], p) /\ \A q \in 1 .. p - 1 : ~ KeyAt(r[1], q)
  BY DEF FirstValueCounts
<1>4. PICK m \in 1 .. Len(ss) :
        r = Pair(ss[m]) /\ \A j \in 1 .. m - 1 : Pair(ss[j])[1] # Pair(ss[m])[1]
  <2>1. r \in {Pair(ss[m]) : m \in {k \in 1 .. Len(ss) :
                                     \A j \in 1 .. k - 1 : Pair(ss[j])[1] # Pair(ss[k])[1]}}
    BY <1>1, <1>3, UnpackedPairs, Zenon
  <2> QED BY <2>1, Zenon
<1>5. PICK x, a, b : x = ss[m] /\ a = e[m - 1] /\ b = e[m]
  OBVIOUS
<1>6. m \in Nat /\ m - 1 \in 0 .. Len(ss) /\ m \in 0 .. Len(ss)
  BY <1>3
<1>7. a \in Nat /\ b \in Nat /\ b <= Len(text)
  BY <1>3, <1>5, <1>6
<1>8. x = SubSeq(text, a + 1, b - 1) /\ (text[b] = SPLITADDRCHAR \/ text[b] = CR)
  BY <1>3, <1>5, Zenon DEF Piece
<1>9. x \in Seq(Char) /\ a < b /\ Len(x) = b - 1 - a
  <2>1. PieceText(text, ss, e, m)
    BY <1>2, PiecesAt, Zenon
  <2> QED BY <1>5, <2>1, Zenon DEF PieceText
<1>10. PICK k \in 1 .. Len(x) :
         /\ x[k] = FSPLITTERCHAR /\ \A n \in 1 .. k - 1 : x[n] # FSPLITTERCHAR
         /\ Pair(x) = <<SubSeq(x, 1, k - 1), SubSeq(x, k + 1, Len(x))>>
  BY <1>4, <1>5, <1>9, PairFacts
<1>11. PICK key, val : key = SubSeq(x, 1, k - 1) /\ val = SubSeq(x, k + 1, Len(x))
  OBVIOUS
<1>12. r[1] = key /\ r[2] = val
  BY <1>4, <1>5, <1>10, <1>11
<1>13. key \o <<FSPLITTERCHAR>> \o val = x
  BY <1>9, <1>10, <1>11, Rejoin
<1>14. FieldAt(key, val, a + 1)
  <2>1. a + 1 = 1 \/ text[(a + 1) - 1] \in {SPLITADDRCHAR, CR}
    <3>1. CASE m - 1 = 0
      BY <1>3, <1>5, <3>1
    <3>2. CASE m - 1 # 0
      <4>1. m - 1 \in 1 .. Len(ss) /\ (a + 1) - 1 = e[m - 1]
        BY <1>5, <1>6, <1>7, <3>2
      <4>2. text[e[m - 1]] = SPLITADDRCHAR \/ text[e[m - 1]] = CR
        BY <1>3, <4>1, Zenon DEF Piece
      <4> QED BY <4>1, <4>2
    <3> QED BY <3>1, <3>2
  <2>2. (a + 1) + Len(x) = b /\ (a + 1) + Len(x) - 1 = b - 1 /\ (a + 1) + Len(x) <= Len(text)
    BY <1>7, <1>9
  <2>3. text[(a + 1) + Len(x)] \in {SPLITADDRCHAR, CR} /\ SubSeq(text, a + 1, (a + 1) + Len(x) - 1) = x
    BY <1>8, <2>2
  <2> QED BY <1>13, <2>1, <2>2, <2>3 DEF FieldAt
<1>15. ASSUME NEW q \in 1 .. (a + 1) - 1, KeyAt(key, q) PROVE FALSE
  <2>1. PICK g : g = key \o <<FSPLITTERCHAR>>
    OBVIOUS
  <2>2. (q = 1 \/ text[q - 1] = SPLITADDRCHAR) /\ SubSeq(text, q, q + Len(g) - 1) = g
    BY <1>15, <2>1 DEF KeyAt
  <2>3. q \in Nat /\ 1 <= q /\ q <= a /\ k \in Nat /\ 1 <= k /\ k <= b - 1 - a
    BY <1>7, <1>9, <1>10
  <2>4. /\ key \in Seq(Char) /\ Len(key) = k - 1
        /\ \A n \in 1 .. k - 1 : key[n] = x[n]
    <3>1. 1 \in 1 .. Len(x) + 1 /\ k - 1 \in 1 - 1 .. Len(x)
      BY <1>9, <2>3
    <3>2. /\ key \in Seq(Char) /\ Len(key) = k - 1 - 1 + 1
          /\ \A n \in 1 .. k - 1 - 1 + 1 : key[n] = x[1 + n - 1]
      BY <1>9, <1>11, <3>1, PartOf
    <3> QED BY <2>3, <3>2
  <2>5. <<FSPLITTERCHAR>> \in Seq(Char) /\ Len(<<FSPLITTERCHAR>>) = 1 /\ <<FSPLITTERCHAR>>[1] = x[k]
    BY <1>10 DEF Char
  <2>6. /\ Len(g) = k - 1 + 1
        /\ \A n \in 1 .. k - 1 + 1 : g[n] = IF n <= k - 1 THEN key[n] ELSE <<FSPLITTERCHAR>>[n - (k - 1)]
    BY <2>1, <2>4, <2>5, ConcatProperties
  <2>7. Len(g) = k /\ \A n \in 1 .. k : g[n] = x[n]
    <3>1. ASSUME NEW n \in 1 .. k PROVE g[n] = x[n]
      <4>1. CASE n = k
        BY <2>3, <2>5, <2>6, <4>1
      <4>2. CASE n # k
        BY <2>3, <2>4, <2>6, <4>2
      <4> QED BY <4>1, <4>2
    <3> QED BY <2>3, <2>6, <3>1
  <2>8. q \in 1 .. Len(text) + 1 /\ q + k - 1 \in q - 1 .. Len(text) /\ (q + k - 1) - q + 1 = k
    BY <1>3, <1>7, <2>3
  <2>9. \A n \in 1 .. k : g[n] = text[q + n - 1]
    BY <2>2, <2>7, <2>8, PartOf
  <2>10. \A n \in 1 .. k : text[q + n - 1] = ss[m][n]
    BY <1>5, <2>7, <2>9
  <2>11. q \in 1 .. e[m - 1] /\ k \in 1 .. Len(ss[m])
    BY <1>5, <2>3, <1>10
  <2>12. ss[m][k] = FSPLITTERCHAR /\ \A n \in 1 .. k - 1 : ss[m][n] # FSPLITTERCHAR
    BY <1>5, <1>10
  <2>13. \E j \in 1 .. m - 1 : Pair(ss[j])[1] = SubSeq(ss[m], 1, k - 1)
    <3>1. KeyBefore(text, ss[m], e[m - 1], k, q)
      BY <2>2, <2>10, <2>11, <2>12, Zenon DEF KeyBefore
    <3>2. KeyOfEarlier(ss, m, k)
      BY <1>2, <3>1, EarlierPiece, Zenon
    <3> QED BY <3>2, Zenon DEF KeyOfEarlier
  <2> QED BY <1>4, <1>5, <1>11, <1>12, <2>13, Zenon
<1>16. a + 1 \in 1 .. Len(text)
  BY <1>3, <1>7, <1>9
<1> QED BY <1>12, <1>14, <1>15, <1>16, Zenon

-----------------------------------------------------------------------------
(* The loop of packData, as FlattenSeq has it: a function that is its own  *)
(* unfolding.                                                              *)
FlatStep(f, fs, n) == IF n = 1 THEN fs[n] ELSE f[n - 1] \o fs[n]
Flat(fs) == CHOOSE f : f = [n \in 1 .. Len(fs) |-> FlatStep(f, fs, n)]

LEMMA FlattenIsFlat ==
    ASSUME NEW fs, Len(fs) # 0
    PROVE  FlattenSeq(fs) = Flat(fs)[Len(fs)]
<1>1. FlattenSeq(fs) = IF Len(fs) = 0 THEN fs ELSE Flat(fs)[Len(fs)]
  BY Zenon DEF FlattenSeq, Flat, FlatStep
<1> QED BY <1>1

(* There is such a function. *)
LEMMA FlatExists ==
    ASSUME NEW fs, Len(fs) \in Nat
    PROVE  \E f : f = [n \in 1 .. Len(fs) |-> FlatStep(f, fs, n)]
<1> DEFINE S == {k \in Nat : \E f : f = [n \in 1 .. k |-> FlatStep(f, fs, n)]}
<1>1. 0 \in S
  <2>1. PICK f : f = [n \in 1 .. 0 |-> 0]
    OBVIOUS
  <2>2. f = [n \in 1 .. 0 |-> FlatStep(f, fs, n)]
    BY <2>1
  <2> QED BY <2>2
<1>2. ASSUME NEW k \in Nat, k \in S PROVE k + 1 \in S
  <2>1. PICK f : f = [n \in 1 .. k |-> FlatStep(f, fs, n)]
    BY <1>2
  <2> DEFINE g == [n \in 1 .. k + 1 |-> IF n = k + 1 THEN FlatStep(f, fs, n) ELSE f[n]]
  <2>2. ASSUME NEW n \in 1 .. k + 1 PROVE g[n] = FlatStep(g, fs, n)
    <3>1. FlatStep(g, fs, n) = FlatStep(f, fs, n)
      <4>1. CASE n = 1
        BY <4>1 DEF FlatStep
      <4>2. CASE n # 1
        <5>1. n - 1 \in 1 .. k + 1 /\ n - 1 # k + 1
          BY <4>2
        <5>2. g[n - 1] = f[n - 1]
          BY <5>1
        <5> QED BY <5>2 DEF FlatStep
      <4> QED BY <4>1, <4>2
    <3>2. CASE n = k + 1
      BY <3>1, <3>2
    <3>3. CASE n # k + 1
      <4>1. n \in 1 .. k
        BY <3>3
      <4>2. f[n] = FlatStep(f, fs, n)
        BY <2>1, <4>1
      <4> QED BY <3>1, <3>3, <4>2
    <3> QED BY <3>2, <3>3
  <2>3. g = [n \in 1 .. k + 1 |-> FlatStep(g, fs, n)]
    BY <2>2
  <2> HIDE DEF g
  <2> QED BY <2>3
<1> HIDE DEF S
<1>3. Nat \subseteq S
  BY <1>1, <1>2, SetInduction
<1>4. Len(fs) \in S
  BY <1>3
<1> QED BY <1>4 DEF S

(* x stands in s behind place a, and ends at place b. *)
StandsAt(s, x, a, b) == b = a + Len(x) /\ \A k \in 1 .. Len(x) : s[a + k] = x[k]

(* The first n of the texts fs stand in s one after the other. *)
Row(s, fs, d, n) ==
    /\ s \in Seq(Char) /\ d \in [0 .. n -> 0 .. Len(s)] /\ d[0] = 0 /\ d[n] = Len(s)
    /\ \A m \in 1 .. n : StandsAt(s, fs[m], d[m - 1], d[m])

(* One text more. *)
LEMMA RowGrows ==
    ASSUME NEW s, NEW fs, NEW d, NEW n \in Nat, Row(s, fs, d, n), fs[n + 1] \in Seq(Char)
    PROVE  \E f : Row(s \o fs[n + 1], fs, f, n + 1)
<1>1. PICK x, t : x = fs[n + 1] /\ t = s \o x
  OBVIOUS
<1>2. s \in Seq(Char) /\ x \in Seq(Char) /\ Len(s) \in Nat /\ Len(x) \in Nat
  BY <1>1 DEF Row
<1>3. /\ t \in Seq(Char) /\ Len(t) = Len(s) + Len(x)
      /\ \A k \in 1 .. Len(s) + Len(x) : t[k] = IF k <= Len(s) THEN s[k] ELSE x[k - Len(s)]
  BY <1>1, <1>2, ConcatProperties
<1> DEFINE f == [m \in 0 .. n + 1 |-> IF m = n + 1 THEN Len(t) ELSE d[m]]
<1>4. /\ \A m \in 0 .. n : d[m] \in Nat /\ d[m] <= Len(s)
      /\ d[0] = 0 /\ d[n] = Len(s)
  BY <1>2 DEF Row
<1>5. f[0] = 0 /\ f[n + 1] = Len(t) /\ (\A m \in 0 .. n : f[m] = d[m])
  BY <1>4
<1>6. f \in [0 .. n + 1 -> 0 .. Len(t)]
  BY <1>2, <1>3, <1>4
<1> HIDE DEF f
<1>7. ASSUME NEW m \in 1 .. n + 1 PROVE StandsAt(t, fs[m], f[m - 1], f[m])
  <2>1. CASE m = n + 1
    <3>1. m - 1 = n /\ f[m - 1] = Len(s) /\ f[m] = Len(s) + Len(x) /\ fs[m] = x
      BY <1>1, <1>3, <1>4, <1>5, <2>1
    <3>2. \A k \in 1 .. Len(x) : t[Len(s) + k] = x[k]
      <4>1. ASSUME NEW k \in 1 .. Len(x) PROVE t[Len(s) + k] = x[k]
        <5>1. Len(s) + k \in 1 .. Len(s) + Len(x) /\ ~ (Len(s) + k <= Len(s)) /\ (Len(s) + k) - Len(s) = k
          BY <1>2
        <5> QED BY <1>3, <5>1
      <4> QED BY <4>1
    <3> QED BY <3>1, <3>2, Zenon DEF StandsAt
  <2>2. CASE m # n + 1
    <3>1. m \in 1 .. n /\ m \in 0 .. n /\ m - 1 \in 0 .. n
      BY <2>2
    <3>2. PICK y, a, b : y = fs[m] /\ a = d[m - 1] /\ b = d[m]
      OBVIOUS
    <3>3. b = a + Len(y) /\ \A k \in 1 .. Len(y) : s[a + k] = y[k]
      BY <3>1, <3>2, Zenon DEF Row, StandsAt
    <3>4. f[m - 1] = a /\ f[m] = b /\ a \in Nat /\ b \in Nat /\ b <= Len(s)
      BY <1>4, <1>5, <3>1, <3>2
    <3>5. \A k \in 1 .. Len(y) : t[a + k] = y[k]
      <4>1. ASSUME NEW k \in 1 .. Len(y) PROVE t[a + k] = y[k]
        <5>1. k \in Int /\ Len(y) \in Int
          BY <3>3, <3>4
        <5>2. a + k \in 1 .. Len(s) + Len(x) /\ a + k <= Len(s)
          BY <1>2, <3>3, <3>4, <5>1
        <5> QED BY <1>3, <3>3, <5>2
      <4> QED BY <4>1
    <3> QED BY <3>2, <3>3, <3>4, <3>5, Zenon DEF StandsAt
  <2> QED BY <2>1, <2>2
<1>8. Row(t, fs, f, n + 1)
  BY <1>3, <1>5, <1>6, <1>7 DEF Row
<1> QED BY <1>1, <1>8, Zenon

(* FlattenSeq puts the texts one after the other. *)
LEMMA FlattenRow ==
    ASSUME NEW fs \in Seq(Seq(Char)), fs # <<>>
    PROVE  \E d : Row(FlattenSeq(fs), fs, d, Len(fs))
<1> DEFINE L == Len(fs)
           F == Flat(fs)
           S == {n \in Nat : n + 1 <= L => \E d : Row(F[n + 1], fs, d, n + 1)}
<1>0. L \in Nat /\ L # 0 /\ \A n \in 1 .. L : fs[n] \in Seq(Char)
  BY EmptySeq
<1>1. ASSUME NEW n \in 1 .. L PROVE F[n] = FlatStep(F, fs, n)
  <2>1. F = [m \in 1 .. L |-> FlatStep(F, fs, m)]
    BY <1>0, FlatExists, Zenon DEF Flat
  <2> HIDE DEF F
  <2> QED BY <2>1, Zenon
<1> HIDE DEF F
<1>2. 0 \in S
  <2> DEFINE d == [n \in 0 .. 0 |-> 0]
  <2>1. 1 \in 1 .. L /\ 0 + 1 = 1 /\ 0 \in Nat
    BY <1>0
  <2>2. F[0 + 1] = fs[0 + 1] /\ fs[0 + 1] \in Seq(Char)
    BY <1>0, <1>1, <2>1 DEF FlatStep
  <2>3. Row(<<>>, fs, d, 0)
    BY DEF Row
  <2> HIDE DEF d
  <2>4. \E f : Row(<<>> \o fs[0 + 1], fs, f, 0 + 1)
    BY <2>1, <2>2, <2>3, RowGrows, Zenon
  <2>5. <<>> \o fs[0 + 1] = F[0 + 1]
    BY <2>2, ConcatEmptySeq
  <2> QED BY <2>4, <2>5
<1>3. ASSUME NEW n \in Nat, n \in S PROVE n + 1 \in S
  <2> SUFFICES ASSUME (n + 1) + 1 <= L PROVE \E d : Row(F[(n + 1) + 1], fs, d, (n + 1) + 1)
    OBVIOUS
  <2>1. /\ n + 1 \in Nat /\ n + 1 <= L /\ (n + 1) + 1 \in 1 .. L
        /\ (n + 1) + 1 # 1 /\ ((n + 1) + 1) - 1 = n + 1
    BY <1>0
  <2>2. PICK d : Row(F[n + 1], fs, d, n + 1)
    BY <1>3, <2>1
  <2>3. F[(n + 1) + 1] = F[n + 1] \o fs[(n + 1) + 1] /\ fs[(n + 1) + 1] \in Seq(Char)
    BY <1>0, <1>1, <2>1 DEF FlatStep
  <2>4. \E f : Row(F[n + 1] \o fs[(n + 1) + 1], fs, f, (n + 1) + 1)
    BY <2>1, <2>2, <2>3, RowGrows, Zenon
  <2> QED BY <2>3, <2>4
<1> HIDE DEF S
<1>4. Nat \subseteq S
  BY <1>2, <1>3, SetInduction
<1>5. L - 1 \in S /\ (L - 1) + 1 = L
  BY <1>0, <1>4
<1>6. \E d : Row(F[L], fs, d, L)
  BY <1>0, <1>5 DEF S
<1>7. FlattenSeq(fs) = F[L]
  BY <1>0, FlattenIsFlat DEF F
<1> QED BY <1>6, <1>7

(* One text after the other. *)
Glued(z, x, y) ==
    /\ z \in Seq(Char) /\ Len(z) = Len(x) + Len(y)
    /\ \A n \in 1 .. Len(x) : z[n] = x[n]
    /\ \A n \in 1 .. Len(y) : z[Len(x) + n] = y[n]
LEMMA Glue ==
    ASSUME NEW x \in Seq(Char), NEW y \in Seq(Char)
    PROVE  Glued(x \o y, x, y)
<1>1. /\ x \o y \in Seq(Char) /\ Len(x \o y) = Len(x) + Len(y)
      /\ \A n \in 1 .. Len(x) + Len(y) :
            (x \o y)[n] = IF n <= Len(x) THEN x[n] ELSE y[n - Len(x)]
  BY ConcatProperties
<1>2. PICK z : z = x \o y
  OBVIOUS
<1>3. PICK a \in Nat : a = Len(x)
  OBVIOUS
<1>4. PICK b \in Nat : b = Len(y)
  OBVIOUS
<1>5. \A n \in 1 .. a + b : z[n] = IF n <= a THEN x[n] ELSE y[n - a]
  BY <1>1, <1>2, <1>3, <1>4
<1>6. ASSUME NEW n \in 1 .. a PROVE z[n] = x[n]
  <2>1. n \in 1 .. a + b /\ n <= a
    OBVIOUS
  <2> QED BY <1>5, <2>1
<1>7. ASSUME NEW n \in 1 .. b PROVE z[a + n] = y[n]
  <2>1. a + n \in 1 .. a + b /\ ~ (a + n <= a) /\ (a + n) - a = n
    OBVIOUS
  <2> QED BY <1>5, <2>1
<1>8. z \in Seq(Char) /\ Len(z) = a + b
  BY <1>1, <1>2, <1>3, <1>4
<1> QED BY <1>2, <1>3, <1>4, <1>6, <1>7, <1>8 DEF Glued

LEMMA OneChar ==
    ASSUME NEW c \in Char
    PROVE  <<c>> \in Seq(Char) /\ Len(<<c>>) = 1 /\ <<c>>[1] = c
OBVIOUS

(* A field: the key, '=', the value and ';'. *)
FieldOf(f, k, v, a, b) ==
    /\ f \in Seq(Char) /\ Len(f) = a + b + 2
    /\ \A n \in 1 .. a : f[n] = k[n]
    /\ f[a + 1] = FSPLITTERCHAR
    /\ \A n \in 1 .. b : f[a + 1 + n] = v[n]
    /\ f[a + b + 2] = SPLITADDRCHAR
LEMMA FieldFacts ==
    ASSUME NEW k \in Seq(Char), NEW v \in Seq(Char)
    PROVE  FieldOf(Field(<<k, v>>), k, v, Len(k), Len(v))
<1>1. PICK e : e = <<FSPLITTERCHAR>> /\ e \in Seq(Char) /\ Len(e) = 1 /\ e[1] = FSPLITTERCHAR
  BY OneChar, Zenon DEF Char
<1>2. PICK t : t = <<SPLITADDRCHAR>> /\ t \in Seq(Char) /\ Len(t) = 1 /\ t[1] = SPLITADDRCHAR
  BY OneChar, Zenon DEF Char
<1>3. PICK g : g = k \o e
  OBVIOUS
<1>4. PICK h : h = g \o v
  OBVIOUS
<1>5. PICK f : f = h \o t
  OBVIOUS
<1>6. Glued(g, k, e) /\ g \in Seq(Char)
  <2>1. e \in Seq(Char)
    BY <1>1
  <2>2. Glued(k \o e, k, e)
    BY <2>1, Glue
  <2> QED BY <1>3, <2>2 DEF Glued
<1>7. Glued(h, g, v) /\ h \in Seq(Char)
  <2>1. Glued(g \o v, g, v)
    BY <1>6, Glue
  <2> QED BY <1>4, <2>1 DEF Glued
<1>8. Glued(f, h, t)
  BY <1>2, <1>5, <1>7, Glue, Zenon
<1>9. Field(<<k, v>>) = f
  BY <1>1, <1>2, <1>3, <1>4, <1>5 DEF Field
<1>10. PICK a \in Nat : a = Len(k)
  OBVIOUS
<1>11. PICK b \in Nat : b = Len(v)
  OBVIOUS
<1>12. Len(g) = a + 1 /\ (\A n \in 1 .. a : g[n] = k[n]) /\ g[a + 1] = FSPLITTERCHAR
  BY <1>1, <1>6, <1>10 DEF Glued
<1>13. /\ Len(h) = a + 1 + b /\ (\A n \in 1 .. a + 1 : h[n] = g[n])
       /\ \A n \in 1 .. b : h[a + 1 + n] = v[n]
  BY <1>7, <1>11, <1>12 DEF Glued
<1>14. /\ f \in Seq(Char) /\ Len(f) = a + 1 + b + 1 /\ (\A n \in 1 .. a + 1 + b : f[n] = h[n])
       /\ f[a + 1 + b + 1] = SPLITADDRCHAR
  BY <1>2, <1>8, <1>13 DEF Glued
<1>15. f \in Seq(Char) /\ Len(f) = a + b + 2 /\ f[a + b + 2] = SPLITADDRCHAR
  <2>1. a + 1 + b + 1 = a + b + 2
    OBVIOUS
  <2> QED BY <1>14, <2>1
<1>16. ASSUME NEW n \in 1 .. a PROVE f[n] = k[n]
  <2>1. n \in 1 .. a + 1 /\ n \in 1 .. a + 1 + b
    OBVIOUS
  <2> QED BY <1>12, <1>13, <1>14, <2>1
<1>17. f[a + 1] = FSPLITTERCHAR
  <2>1. a + 1 \in 1 .. a + 1 /\ a + 1 \in 1 .. a + 1 + b
    OBVIOUS
  <2> QED BY <1>12, <1>13, <1>14, <2>1
<1>18. ASSUME NEW n \in 1 .. b PROVE f[a + 1 + n] = v[n]
  <2>1. a + 1 + n \in 1 .. a + 1 + b
    OBVIOUS
  <2> QED BY <1>13, <1>14, <2>1
<1> QED BY <1>9, <1>10, <1>11, <1>15, <1>16, <1>17, <1>18 DEF FieldOf

-----------------------------------------------------------------------------
(* A nonempty set of places has a greatest. *)
LEMMA GreatestPlace ==
    ASSUME NEW k \in Nat, NEW S \in SUBSET (1 .. k), S # {}
    PROVE  Max(S) \in S /\ \A n \in S : n <= Max(S)
<1> DEFINE T == {k - n : n \in S}
<1>0. ASSUME NEW n \in S PROVE n \in Int /\ k - n \in Nat
  <2>1. n \in 1 .. k
    OBVIOUS
  <2> QED BY <2>1
<1>1. T \in SUBSET Nat /\ T # {}
  BY <1>0
<1>2. PICK f \in T : \A g \in T : f <= g
  BY <1>1, LeastNatural
<1>3. PICK m \in S : f = k - m
  BY <1>2
<1>4. ASSUME NEW n \in S PROVE n <= m
  <2>1. k - n \in T
    OBVIOUS
  <2>2. f <= k - n
    BY <1>2, <2>1
  <2>3. n \in Int /\ m \in Int
    OBVIOUS
  <2> QED BY <1>3, <2>2, <2>3
<1>5. \E x \in S : \A y \in S : x >= y
  BY <1>4
<1>6. Max(S) \in S /\ \A y \in S : Max(S) >= y
  BY <1>5 DEF Max
<1>7. Max(S) \in Int /\ \A y \in S : y \in Int
  BY <1>0, <1>6
<1> QED BY <1>6, <1>7

(* The binding's loop: a function on the sets of places joined so far that *)
(* is its own unfolding.                                                   *)
JoinStep(f, b, xs, S) ==
    IF S = {} THEN b ELSE join_addresses(f[S \ {Max(S)}], xs[Max(S)])
JoinUp(b, xs) == CHOOSE f : f = [S \in SUBSET DOMAIN xs |-> JoinStep(f, b, xs, S)]

LEMMA JoinIsJoinUp ==
    ASSUME NEW xs, xs # <<>>
    PROVE  lua_join_addresses(xs) = JoinUp(Head(xs), Tail(xs))[DOMAIN Tail(xs)]
BY Zenon DEF lua_join_addresses, FoldLeft, MapThenFoldSet, JoinUp, JoinStep

(* There is such a function. *)
JoinsUp(f, b, xs, l) == f = [S \in SUBSET (1 .. l) |-> JoinStep(f, b, xs, S)]
LEMMA JoinUpExists ==
    ASSUME NEW b, NEW xs, NEW l \in Nat
    PROVE  \E f : JoinsUp(f, b, xs, l)
<1> DEFINE Good(k) == \E f : f = [S \in SUBSET (1 .. k) |-> JoinStep(f, b, xs, S)]
           K == {k \in Nat : Good(k)}
<1>1. Good(0)
  <2>1. PICK f : f = [S \in SUBSET (1 .. 0) |-> b]
    OBVIOUS
  <2>2. \A S \in SUBSET (1 .. 0) : S = {}
    OBVIOUS
  <2>3. f = [S \in SUBSET (1 .. 0) |-> JoinStep(f, b, xs, S)]
    BY <2>1, <2>2 DEF JoinStep
  <2> QED BY <2>3
<1>2. ASSUME NEW k \in Nat, Good(k) PROVE Good(k + 1)
  <2>1. PICK f : f = [S \in SUBSET (1 .. k) |-> JoinStep(f, b, xs, S)]
    BY <1>2
  <2> DEFINE g == [S \in SUBSET (1 .. k + 1) |-> IF k + 1 \in S THEN JoinStep(f, b, xs, S) ELSE f[S]]
  <2>2. \A S \in SUBSET (1 .. k) : g[S] = f[S]
    <3>1. ASSUME NEW S \in SUBSET (1 .. k) PROVE S \in SUBSET (1 .. k + 1) /\ k + 1 \notin S
      <4>1. \A n \in 1 .. k : n \in 1 .. k + 1 /\ n # k + 1
        OBVIOUS
      <4> QED BY <4>1
    <3> QED BY <3>1
  <2>3. ASSUME NEW S \in SUBSET (1 .. k + 1) PROVE S \ {k + 1} \in SUBSET (1 .. k)
    <3>1. \A n \in 1 .. k + 1 : n # k + 1 => n \in 1 .. k
      OBVIOUS
    <3> QED BY <3>1
  <2>4. ASSUME NEW S \in SUBSET (1 .. k + 1), S # {} PROVE S \ {Max(S)} \in SUBSET (1 .. k)
    <3>0. k + 1 \in Nat
      OBVIOUS
    <3>1. Max(S) \in S /\ \A n \in S : n <= Max(S)
      BY <2>4, <3>0, GreatestPlace
    <3>2. ASSUME NEW n \in S, n # Max(S) PROVE n \in 1 .. k
      <4>1. n <= Max(S) /\ n \in 1 .. k + 1 /\ Max(S) \in 1 .. k + 1
        BY <3>1
      <4> QED BY <3>2, <4>1
    <3> QED BY <3>2
  <2>5. ASSUME NEW S \in SUBSET (1 .. k + 1) PROVE g[S] = JoinStep(g, b, xs, S)
    <3>1. JoinStep(g, b, xs, S) = JoinStep(f, b, xs, S)
      <4>1. CASE S = {}
        BY <4>1 DEF JoinStep
      <4>2. CASE S # {}
        <5>1. g[S \ {Max(S)}] = f[S \ {Max(S)}]
          BY <2>2, <2>4, <4>2
        <5> HIDE DEF g
        <5> QED BY <4>2, <5>1 DEF JoinStep
      <4> QED BY <4>1, <4>2
    <3>2. CASE k + 1 \in S
      BY <3>1, <3>2
    <3>3. CASE k + 1 \notin S
      <4>1. S \in SUBSET (1 .. k)
        BY <2>3, <3>3
      <4>2. f[S] = JoinStep(f, b, xs, S)
        BY <2>1, <4>1
      <4> QED BY <3>1, <3>3, <4>2
    <3> QED BY <3>2, <3>3
  <2>6. g = [S \in SUBSET (1 .. k + 1) |-> JoinStep(g, b, xs, S)]
    BY <2>5
  <2> HIDE DEF g
  <2> QED BY <2>6
<1> HIDE DEF Good
<1>3. 0 \in K /\ \A k \in Nat : k \in K => k + 1 \in K
  BY <1>1, <1>2
<1> HIDE DEF K
<1>4. Nat \subseteq K
  BY <1>3, SetInduction
<1>5. l \in K
  BY <1>4
<1> QED BY <1>5 DEF K, Good, JoinsUp

(* Joined up to place n. *)
UpTo(b, xs, n) == JoinUp(b, xs)[1 .. n]
JoinsFrom(b, xs, l) ==
    /\ UpTo(b, xs, 0) = b
    /\ \A n \in 0 .. l - 1 : UpTo(b, xs, n + 1) = join_addresses(UpTo(b, xs, n), xs[n + 1])
LEMMA JoinUpSteps ==
    ASSUME NEW b, NEW xs, NEW l \in Nat, DOMAIN xs = 1 .. l
    PROVE  JoinsFrom(b, xs, l)
<1> DEFINE F == JoinUp(b, xs)
<1>0. PICK f : JoinsUp(f, b, xs, l)
  BY JoinUpExists
<1>1. \E g : g = [S \in SUBSET DOMAIN xs |-> JoinStep(g, b, xs, S)]
  BY <1>0 DEF JoinsUp
<1>2. F = [S \in SUBSET DOMAIN xs |-> JoinStep(F, b, xs, S)]
  BY <1>1, Zenon DEF JoinUp
<1> HIDE DEF F
<1>3. \A S \in SUBSET (1 .. l) : F[S] = JoinStep(F, b, xs, S)
  BY <1>2
<1>4. F[1 .. 0] = b
  <2>1. 1 .. 0 = {} /\ 1 .. 0 \in SUBSET (1 .. l)
    OBVIOUS
  <2> QED BY <1>3, <2>1 DEF JoinStep
<1>5. ASSUME NEW n \in 0 .. l - 1
      PROVE  F[1 .. n + 1] = join_addresses(F[1 .. n], xs[n + 1])
  <2>0. n \in Nat /\ n + 1 \in Nat /\ n + 1 <= l
    OBVIOUS
  <2>1. 1 .. n + 1 \in SUBSET (1 .. l) /\ n + 1 \in 1 .. n + 1
    BY <2>0
  <2>2. Max(1 .. n + 1) \in 1 .. n + 1 /\ \A m \in 1 .. n + 1 : m <= Max(1 .. n + 1)
    BY <2>0, <2>1, GreatestPlace
  <2>3. PICK x : x = Max(1 .. n + 1)
    OBVIOUS
  <2>4. x = n + 1
    BY <2>0, <2>1, <2>2, <2>3
  <2>5. (1 .. n + 1) \ {n + 1} = 1 .. n
    BY <2>0
  <2>6. F[1 .. n + 1] = JoinStep(F, b, xs, 1 .. n + 1)
    BY <1>3, <2>1
  <2>7. JoinStep(F, b, xs, 1 .. n + 1) = join_addresses(F[(1 .. n + 1) \ {x}], xs[x])
    BY <2>1, <2>3 DEF JoinStep
  <2> QED BY <2>4, <2>5, <2>6, <2>7
<1> QED BY <1>4, <1>5 DEF UpTo, JoinsFrom, F

-----------------------------------------------------------------------------
(* The texts gs[1 .. k] stand in s one after the other, each followed by c *)
(* at the places d; behind the last of them stands x.                      *)
Part(s, c, gs, d, n) ==
    /\ d[n] = d[n - 1] + Len(gs[n]) + 1 /\ s[d[n]] = c
    /\ \A m \in 1 .. Len(gs[n]) : s[d[n - 1] + m] = gs[n][m]
Parts(s, c, gs, d, k) ==
    /\ s \in Seq(Char) /\ d \in [0 .. k -> 0 .. Len(s)] /\ d[0] = 0
    /\ \A n \in 1 .. k : gs[n] \in Seq(Char) /\ Part(s, c, gs, d, n)
Rest(s, x, p) == x \in Seq(Char) /\ Len(s) = p + Len(x) /\ \A m \in 1 .. Len(x) : s[p + m] = x[m]

(* A text, c and another text. *)
Around(t, s, c, y) ==
    /\ t \in Seq(Char) /\ Len(t) = Len(s) + 1 + Len(y)
    /\ (\A m \in 1 .. Len(s) : t[m] = s[m]) /\ t[Len(s) + 1] = c
    /\ \A m \in 1 .. Len(y) : t[Len(s) + 1 + m] = y[m]
LEMMA GlueAround ==
    ASSUME NEW s \in Seq(Char), NEW y \in Seq(Char), NEW c \in Char
    PROVE  Around(s \o <<c>> \o y, s, c, y)
<1>1. PICK e : e = <<c>> /\ e \in Seq(Char) /\ Len(e) = 1 /\ e[1] = c
  BY OneChar, Zenon
<1>2. PICK u : u = s \o e
  OBVIOUS
<1>3. PICK t : t = u \o y
  OBVIOUS
<1>4. Glued(u, s, e) /\ u \in Seq(Char)
  <2>1. e \in Seq(Char)
    BY <1>1
  <2>2. Glued(s \o e, s, e)
    BY <2>1, Glue
  <2> QED BY <1>2, <2>2 DEF Glued
<1>5. Glued(t, u, y)
  BY <1>3, <1>4, Glue
<1>6. PICK a \in Nat : a = Len(s)
  OBVIOUS
<1>7. PICK b \in Nat : b = Len(y)
  OBVIOUS
<1>8. Len(u) = a + 1 /\ (\A m \in 1 .. a : u[m] = s[m]) /\ u[a + 1] = c
  BY <1>1, <1>4, <1>6 DEF Glued
<1>9. /\ t \in Seq(Char) /\ Len(t) = a + 1 + b /\ (\A m \in 1 .. a + 1 : t[m] = u[m])
      /\ \A m \in 1 .. b : t[a + 1 + m] = y[m]
  BY <1>5, <1>7, <1>8 DEF Glued
<1>10. ASSUME NEW m \in 1 .. a PROVE t[m] = s[m]
  <2>1. m \in 1 .. a + 1
    OBVIOUS
  <2> QED BY <1>8, <1>9, <2>1
<1>11. t[a + 1] = c
  <2>1. a + 1 \in 1 .. a + 1
    OBVIOUS
  <2> QED BY <1>8, <1>9, <2>1
<1>12. Around(t, s, c, y)
  BY <1>6, <1>7, <1>9, <1>10, <1>11 DEF Around
<1> QED BY <1>1, <1>2, <1>3, <1>12

(* One text more. *)
LEMMA PartsGrow ==
    ASSUME NEW s, NEW c, NEW gs, NEW d, NEW k \in Nat, NEW t, NEW y \in Seq(Char),
           Parts(s, c, gs, d, k), Rest(s, gs[k + 1], d[k]), Around(t, s, c, y)
    PROVE  \E f : Parts(t, c, gs, f, k + 1) /\ Rest(t, y, f[k + 1])
<1>1. PICK l, x, b : l = Len(s) /\ x = gs[k + 1] /\ b = Len(y)
  OBVIOUS
<1>2. s \in Seq(Char) /\ l \in Nat /\ b \in Nat /\ d[k] \in Nat
  BY <1>1 DEF Parts
<1>3. x \in Seq(Char) /\ l = d[k] + Len(x) /\ (\A m \in 1 .. Len(x) : s[d[k] + m] = x[m]) /\ Len(x) \in Nat
  BY <1>1 DEF Rest
<1>4. /\ t \in Seq(Char) /\ Len(t) = l + 1 + b
      /\ (\A m \in 1 .. l : t[m] = s[m]) /\ t[l + 1] = c
      /\ \A m \in 1 .. b : t[l + 1 + m] = y[m]
  BY <1>1 DEF Around
<1> DEFINE f == [n \in 0 .. k + 1 |-> IF n = k + 1 THEN l + 1 ELSE d[n]]
<1>5. /\ \A n \in 0 .. k : d[n] \in Nat /\ d[n] <= l
      /\ d[0] = 0
  BY <1>1, <1>2 DEF Parts
<1>6. f[0] = 0 /\ f[k + 1] = l + 1 /\ \A n \in 0 .. k : f[n] = d[n]
  BY <1>5
<1>7. f \in [0 .. k + 1 -> 0 .. Len(t)]
  BY <1>2, <1>4, <1>5
<1> HIDE DEF f
<1>8. ASSUME NEW n \in 1 .. k + 1 PROVE gs[n] \in Seq(Char) /\ Part(t, c, gs, f, n)
  <2>1. CASE n = k + 1
    <3>1. n - 1 = k /\ k \in 0 .. k /\ f[n - 1] = d[k] /\ f[n] = d[k] + Len(x) + 1 /\ gs[n] = x /\ t[f[n]] = c
      BY <1>1, <1>2, <1>3, <1>4, <1>6, <2>1
    <3>2. ASSUME NEW m \in 1 .. Len(x) PROVE t[d[k] + m] = x[m]
      <4>1. d[k] + m \in 1 .. l
        BY <1>2, <1>3
      <4> QED BY <1>3, <1>4, <4>1
    <3> QED BY <1>3, <3>1, <3>2 DEF Part
  <2>2. CASE n # k + 1
    <3>1. n \in 1 .. k /\ n \in 0 .. k /\ n - 1 \in 0 .. k
      BY <2>2
    <3>2. PICK g, p, q : g = gs[n] /\ p = d[n - 1] /\ q = d[n]
      OBVIOUS
    <3>3. /\ g \in Seq(Char) /\ q = p + Len(g) + 1 /\ s[q] = c
          /\ \A m \in 1 .. Len(g) : s[p + m] = g[m]
      BY <3>1, <3>2 DEF Parts, Part
    <3>4. Len(g) \in Nat /\ p \in Nat /\ q \in Nat /\ q <= l
      <4>1. Len(g) \in Nat
        BY <3>3, LenProperties
      <4>2. p \in Nat /\ q \in Nat /\ q <= l
        BY <1>5, <3>1, <3>2
      <4> QED BY <4>1, <4>2
    <3>5. f[n - 1] = p /\ f[n] = q
      BY <1>6, <3>1, <3>2
    <3>6. t[q] = c
      <4>1. q \in 1 .. l
        BY <1>2, <3>3, <3>4
      <4> QED BY <1>4, <3>3, <4>1
    <3>7. ASSUME NEW m \in 1 .. Len(g) PROVE t[p + m] = g[m]
      <4>1. p + m \in 1 .. l
        BY <1>2, <3>3, <3>4
      <4> QED BY <1>4, <3>3, <4>1
    <3> QED BY <3>2, <3>3, <3>5, <3>6, <3>7 DEF Part
  <2> QED BY <2>1, <2>2
<1>9. Parts(t, c, gs, f, k + 1)
  BY <1>4, <1>6, <1>7, <1>8 DEF Parts
<1>10. Rest(t, y, f[k + 1])
  BY <1>1, <1>4, <1>6 DEF Rest
<1> QED BY <1>9, <1>10

LEMMA LessOne == ASSUME NEW n \in Nat \ {0} PROVE n - 1 \in Nat /\ n = (n - 1) + 1
OBVIOUS

(* What the binding of join_addresses returns. *)
LEMMA JoinedParts ==
    ASSUME NEW xs \in Seq(Seq(Char)), xs # <<>>
    PROVE  \E d : /\ Parts(lua_join_addresses(xs), SPLITADDRCHAR, xs, d, Len(xs) - 1)
                  /\ Rest(lua_join_addresses(xs), xs[Len(xs)], d[Len(xs) - 1])
<1>1. PICK b, bs, l : b = Head(xs) /\ bs = Tail(xs) /\ l = Len(xs) - 1
  OBVIOUS
<1>2. /\ l \in Nat /\ Len(xs) = l + 1 /\ b = xs[1] /\ bs \in Seq(Seq(Char)) /\ Len(bs) = l
      /\ \A n \in 1 .. l : bs[n] = xs[n + 1]
  <2>1. Len(xs) \in Nat \ {0}
    BY EmptySeq
  <2>2. /\ Tail(xs) \in Seq(Seq(Char)) /\ Len(Tail(xs)) = Len(xs) - 1
        /\ \A n \in 1 .. Len(Tail(xs)) : Tail(xs)[n] = xs[n + 1]
    BY HeadTailProperties
  <2>3. Head(xs) = xs[1]
    BY <2>1
  <2>4. l \in Nat /\ Len(xs) = l + 1
    BY <1>1, <2>1, LessOne, Zenon
  <2> QED BY <1>1, <2>2, <2>3, <2>4
<1>3. DOMAIN bs = 1 .. l
  BY <1>2, LenProperties
<1>4. \A n \in 1 .. l + 1 : xs[n] \in Seq(Char)
  BY <1>2, ElementOfSeq
<1>5. lua_join_addresses(xs) = UpTo(b, bs, l)
  BY <1>1, <1>3, JoinIsJoinUp DEF UpTo
<1>6. JoinsFrom(b, bs, l)
  BY <1>2, <1>3, JoinUpSteps
<1> DEFINE Good(n) == \E d : /\ Parts(UpTo(b, bs, n), SPLITADDRCHAR, xs, d, n)
                             /\ Rest(UpTo(b, bs, n), xs[n + 1], d[n])
           S == {n \in Nat : n <= l => Good(n)}
<1>7. Good(0)
  <2>1. PICK d : d = [n \in 0 .. 0 |-> 0]
    OBVIOUS
  <2>2. b \in Seq(Char) /\ b = xs[0 + 1]
    <3>1. 0 + 1 = 1 /\ 1 \in 1 .. l + 1
      BY <1>2
    <3> QED BY <1>2, <1>4, <3>1
  <2>3. d[0] = 0 /\ d \in [0 .. 0 -> 0 .. Len(b)] /\ Len(b) \in Nat
    BY <2>1, <2>2
  <2>4. Parts(b, SPLITADDRCHAR, xs, d, 0)
    BY <2>2, <2>3 DEF Parts
  <2>5. Rest(b, b, d[0])
    BY <2>2, <2>3 DEF Rest
  <2> QED BY <1>6, <2>2, <2>4, <2>5 DEF JoinsFrom
<1>8. ASSUME NEW n \in Nat, n + 1 <= l, Good(n) PROVE Good(n + 1)
  <2>1. n \in 0 .. l - 1 /\ n + 1 \in 1 .. l /\ (n + 1) + 1 \in 1 .. l + 1
    BY <1>2, <1>8
  <2>2. PICK s, y, t : s = UpTo(b, bs, n) /\ y = xs[(n + 1) + 1] /\ t = UpTo(b, bs, n + 1)
    OBVIOUS
  <2>3. y \in Seq(Char) /\ y = bs[n + 1]
    BY <1>2, <1>4, <2>1, <2>2
  <2>4. t = s \o <<SPLITADDRCHAR>> \o y
    BY <1>6, <2>1, <2>2, <2>3 DEF JoinsFrom, join_addresses
  <2>5. PICK d : Parts(s, SPLITADDRCHAR, xs, d, n) /\ Rest(s, xs[n + 1], d[n])
    BY <1>8, <2>2
  <2>6. s \in Seq(Char) /\ SPLITADDRCHAR \in Char
    BY <2>5 DEF Parts, Char
  <2>7. Around(t, s, SPLITADDRCHAR, y)
    BY <2>3, <2>4, <2>6, GlueAround
  <2>8. \E f : Parts(t, SPLITADDRCHAR, xs, f, n + 1) /\ Rest(t, y, f[n + 1])
    BY <2>3, <2>5, <2>7, PartsGrow, Zenon
  <2> QED BY <2>2, <2>8
<1> HIDE DEF Good
<1>9. 0 \in S
  BY <1>7
<1>10. ASSUME NEW n \in Nat, n \in S PROVE n + 1 \in S
  <2>1. n + 1 <= l => n <= l
    BY <1>2
  <2> QED BY <1>8, <1>10, <2>1
<1> HIDE DEF S
<1>11. Nat \subseteq S
  BY <1>9, <1>10, SetInduction
<1>12. l \in S
  BY <1>2, <1>11
<1>13. Good(l)
  BY <1>2, <1>12 DEF S
<1> QED BY <1>1, <1>2, <1>5, <1>13 DEF Good

-----------------------------------------------------------------------------
(* c is nowhere in x. *)
Lacks(x, c) == \A m \in 1 .. Len(x) : x[m] # c

(* The n-th piece of s is the n-th of the texts that stand in it. *)
IsPiece(gs, d, fs, e, n) == n <= Len(fs) /\ e[n] = d[n] /\ (n > 0 => fs[n] = gs[n])

(* One piece: it begins where the text begins, and none of the two can be  *)
(* the longer one, since c ends both and is in neither.                    *)
LEMMA NextPiece ==
    ASSUME NEW s, NEW c, NEW gs, NEW d, NEW k \in Nat, Parts(s, c, gs, d, k),
           NEW fs, NEW e, CutCovers(s, c, fs, e),
           NEW n \in Nat, n + 1 <= k, n + 1 <= MaxPieces, Lacks(gs[n + 1], c),
           IsPiece(gs, d, fs, e, n)
    PROVE  IsPiece(gs, d, fs, e, n + 1)
<1>1. PICK g, a, b, l : g = gs[n + 1] /\ a = d[n] /\ b = d[n + 1] /\ l = Len(s)
  OBVIOUS
<1>2. /\ n \in 0 .. k /\ n + 1 \in 0 .. k /\ n + 1 \in 1 .. k /\ (n + 1) - 1 = n
      /\ MaxPieces \in Nat
  BY CodecAssumption
<1>3. s \in Seq(Char) /\ l \in Nat
  BY <1>1 DEF Parts
<1>4. a \in Nat /\ b \in Nat /\ b <= l
  BY <1>1, <1>2, <1>3 DEF Parts
<1>5. /\ g \in Seq(Char) /\ b = a + Len(g) + 1 /\ s[b] = c
      /\ \A m \in 1 .. Len(g) : s[a + m] = g[m]
  BY <1>1, <1>2 DEF Parts, Part
<1>6. Len(g) \in Nat
  BY <1>5, LenProperties
<1>7. \A m \in 1 .. Len(g) : g[m] # c
  BY <1>1 DEF Lacks
<1>8. Len(fs) \in Nat /\ n <= Len(fs) /\ e[n] = a
  BY <1>1 DEF CutCovers, IsPiece
<1>9. ~ Without(s, c, a + 1)
  <2>1. b \in a + 1 .. Len(s)
    BY <1>1, <1>4, <1>5, <1>6
  <2> QED BY <1>5, <2>1 DEF Without
<1>10. n + 1 <= Len(fs)
  <2> SUFFICES ASSUME ~ (n + 1 <= Len(fs)) PROVE FALSE
    OBVIOUS
  <2>1. Len(fs) = n /\ Len(fs) # MaxPieces
    BY <1>2, <1>8
  <2>2. Without(s, c, e[Len(fs)] + 1)
    BY <2>1 DEF CutCovers
  <2> QED BY <1>8, <1>9, <2>1, <2>2
<1>11. n + 1 \in 1 .. Len(fs) /\ n + 1 \in 0 .. Len(fs) /\ n \in 0 .. Len(fs)
  BY <1>8, <1>10
<1>12. PICK q : q = e[n + 1]
  OBVIOUS
<1>13. q \in Nat /\ q <= l
  BY <1>1, <1>3, <1>11, <1>12 DEF CutCovers
<1>14. Piece(s, c, fs, e, n + 1)
  BY <1>11 DEF CutCovers, Cover
<1>15. Inside(s, e, n + 1)
  BY <1>2, <1>11 DEF CutCovers, Inside
<1>16. PieceText(s, fs, e, n + 1)
  BY <1>3, <1>14, <1>15, PieceAt
<1>17. PICK x : x = fs[n + 1]
  OBVIOUS
<1>18. /\ x \in Seq(Char) /\ a < q /\ Len(x) = q - 1 - a
       /\ \A m \in 1 .. Len(x) : x[m] = s[a + m]
  BY <1>2, <1>8, <1>12, <1>16, <1>17 DEF PieceText
<1>19. (\A m \in a + 1 .. q - 1 : s[m] # c) /\ s[q] = c
  BY <1>2, <1>8, <1>9, <1>12, <1>14 DEF Piece
<1>20. q = b
  <2>1. ~ (b < q)
    <3> SUFFICES ASSUME b < q PROVE FALSE
      OBVIOUS
    <3>1. b \in a + 1 .. q - 1
      BY <1>4, <1>5, <1>6, <1>13
    <3> QED BY <1>5, <1>19, <3>1
  <2>2. ~ (q < b)
    <3> SUFFICES ASSUME q < b PROVE FALSE
      OBVIOUS
    <3>1. q - a \in 1 .. Len(g) /\ a + (q - a) = q
      BY <1>4, <1>5, <1>6, <1>13, <1>18
    <3>2. s[q] = g[q - a]
      BY <1>5, <3>1
    <3> QED BY <1>7, <1>19, <3>1, <3>2
  <2> QED BY <1>4, <1>13, <2>1, <2>2
<1>21. x = g
  <2>1. Len(x) = Len(g)
    BY <1>4, <1>5, <1>6, <1>18, <1>20
  <2>2. \A m \in 1 .. Len(x) : x[m] = g[m]
    BY <1>5, <1>18, <2>1
  <2> QED BY <1>5, <1>18, <2>1, <2>2, SeqEqual
<1> QED BY <1>1, <1>10, <1>12, <1>17, <1>20, <1>21 DEF IsPiece

(* The pieces of s are the texts that stand in it, as far as split_msg     *)
(* counts.                                                                 *)
LEMMA PiecesAre ==
    ASSUME NEW s, NEW c, NEW gs, NEW d, NEW k \in Nat, Parts(s, c, gs, d, k),
           NEW fs, NEW e, CutCovers(s, c, fs, e), \A n \in 1 .. k : Lacks(gs[n], c),
           NEW m \in Nat, m <= k, m <= MaxPieces
    PROVE  IsPiece(gs, d, fs, e, m)
<1> DEFINE S == {n \in Nat : n <= k /\ n <= MaxPieces => IsPiece(gs, d, fs, e, n)}
<1>1. 0 \in S
  <2>1. Len(fs) \in Nat /\ e[0] = 0 /\ d[0] = 0
    BY DEF CutCovers, Parts
  <2> QED BY <2>1 DEF IsPiece
<1>2. ASSUME NEW n \in Nat, n \in S PROVE n + 1 \in S
  <2> SUFFICES ASSUME n + 1 <= k, n + 1 <= MaxPieces PROVE IsPiece(gs, d, fs, e, n + 1)
    OBVIOUS
  <2>1. n <= k /\ n <= MaxPieces /\ n + 1 \in 1 .. k
    BY CodecAssumption
  <2>2. IsPiece(gs, d, fs, e, n) /\ Lacks(gs[n + 1], c)
    BY <1>2, <2>1
  <2> QED BY <2>2, NextPiece
<1> HIDE DEF S
<1>3. m \in S
  BY <1>1, <1>2, SetInduction
<1> QED BY <1>3 DEF S

(* No separator and no carriage return behind them: no piece more. *)
SamePieces(fs, gs, k) == Len(fs) = k /\ \A n \in 1 .. k : fs[n] = gs[n]
LEMMA AllPieces ==
    ASSUME NEW s, NEW c, NEW gs, NEW d, NEW k \in Nat, k <= MaxPieces, Parts(s, c, gs, d, k),
           NEW fs, NEW e, CutCovers(s, c, fs, e), \A n \in 1 .. k : Lacks(gs[n], c),
           Without(s, c, d[k] + 1), Without(s, CR, d[k] + 1)
    PROVE  SamePieces(fs, gs, k)
<1>0. MaxPieces \in Nat /\ k \in 0 .. k
  BY CodecAssumption
<1>1. ASSUME NEW m \in Nat, m <= k PROVE IsPiece(gs, d, fs, e, m)
  BY <1>0, <1>1, PiecesAre
<1>2. k <= Len(fs) /\ e[k] = d[k] /\ Len(fs) \in Nat
  BY <1>1 DEF IsPiece, CutCovers
<1>3. Len(fs) = k
  <2> SUFFICES ASSUME Len(fs) # k PROVE FALSE
    OBVIOUS
  <2>1. k + 1 \in 1 .. Len(fs) /\ k + 1 \in 0 .. Len(fs) /\ k \in 0 .. Len(fs) /\ (k + 1) - 1 = k
    BY <1>2
  <2>2. Piece(s, c, fs, e, k + 1) /\ Inside(s, e, k + 1)
    BY <2>1 DEF CutCovers, Cover, Inside
  <2>3. s \in Seq(Char) /\ Len(s) \in Nat /\ d[k] \in Nat
    BY <1>0 DEF Parts
  <2>4. PieceText(s, fs, e, k + 1)
    BY <2>2, <2>3, PieceAt
  <2>5. PICK q : q = e[k + 1]
    OBVIOUS
  <2>6. d[k] < q /\ q \in Nat /\ q <= Len(s)
    BY <1>2, <2>1, <2>2, <2>3, <2>4, <2>5 DEF PieceText, Inside
  <2>7. q \in d[k] + 1 .. Len(s)
    BY <2>3, <2>6
  <2>8. s[q] = c \/ s[q] = CR
    BY <2>2, <2>5 DEF Piece
  <2> QED BY <2>7, <2>8 DEF Without
<1>4. ASSUME NEW n \in 1 .. k PROVE fs[n] = gs[n]
  <2>1. n \in Nat /\ n <= k /\ n > 0
    OBVIOUS
  <2> QED BY <1>1, <2>1 DEF IsPiece
<1> QED BY <1>3, <1>4 DEF SamePieces

LEMMA RestLacks ==
    ASSUME NEW s \in Seq(Char), NEW x, NEW p \in Nat, Rest(s, x, p), NEW c, Lacks(x, c)
    PROVE  Without(s, c, p + 1)
<1>1. Len(x) \in Nat /\ Len(s) = p + Len(x) /\ (\A m \in 1 .. Len(x) : s[p + m] = x[m])
  BY LenProperties DEF Rest
<1>2. ASSUME NEW n \in p + 1 .. Len(s) PROVE s[n] # c
  <2>1. n - p \in 1 .. Len(x) /\ p + (n - p) = n
    BY <1>1
  <2> QED BY <1>1, <2>1 DEF Lacks
<1> QED BY <1>2 DEF Without

LEMMA FirstOnes ==
    ASSUME NEW T, NEW xs \in Seq(T), NEW k \in Nat, Len(xs) = k + 1
    PROVE  SubSeq(xs, 1, k) \in Seq(T) /\ SamePieces(SubSeq(xs, 1, k), xs, k)
<1> DEFINE hs == SubSeq(xs, 1, k)
<1>1. (\A n \in 1 .. k : xs[n] \in T) /\ k \in Int /\ 1 \in Int
  OBVIOUS
<1>2. /\ hs \in Seq(T) /\ Len(hs) = IF 1 <= k THEN k - 1 + 1 ELSE 0
      /\ \A n \in 1 .. k - 1 + 1 : hs[n] = xs[1 + n - 1]
  BY <1>1, SubSeqProperties
<1> HIDE DEF hs
<1>3. k - 1 + 1 = k /\ (\A n \in 1 .. k : 1 + n - 1 = n) /\ (~ (1 <= k) => k = 0)
  OBVIOUS
<1>4. hs \in Seq(T) /\ SamePieces(hs, xs, k)
  BY <1>2, <1>3 DEF SamePieces
<1> QED BY <1>4 DEF hs

(* Of the addresses joined, all but the last come back. *)
LEMMA SplitOfAddresses ==
    ASSUME NEW xs \in Seq(Seq(Char)), xs # <<>>, Len(xs) <= MaxPieces,
           \A n \in 1 .. Len(xs) : Lacks(xs[n], SPLITADDRCHAR) /\ Lacks(xs[n], CR)
    PROVE  split_msg(lua_join_addresses(xs), SPLITADDRCHAR) = Front(xs)
<1>1. PICK s, k, x : s = lua_join_addresses(xs) /\ k = Len(xs) - 1 /\ x = xs[Len(xs)]
  OBVIOUS
<1>2. Len(xs) \in Nat \ {0} /\ MaxPieces \in Nat
  BY EmptySeq, CodecAssumption
<1>3. k \in Nat /\ Len(xs) = k + 1
  BY <1>1, <1>2, LessOne, Zenon
<1>4. PICK d : Parts(s, SPLITADDRCHAR, xs, d, k) /\ Rest(s, x, d[k])
  BY <1>1, JoinedParts
<1>5. s \in Seq(Char) /\ k \in 0 .. k /\ d[k] \in Nat
  BY <1>3, <1>4 DEF Parts
<1>6. \A n \in 1 .. k : n \in 1 .. k + 1
  BY <1>3
<1>7. k + 1 \in 1 .. k + 1 /\ k <= MaxPieces
  BY <1>2, <1>3
<1>8. (\A n \in 1 .. k : Lacks(xs[n], SPLITADDRCHAR)) /\ Lacks(x, SPLITADDRCHAR) /\ Lacks(x, CR)
  BY <1>1, <1>3, <1>6, <1>7
<1>9. Without(s, SPLITADDRCHAR, d[k] + 1) /\ Without(s, CR, d[k] + 1)
  BY <1>4, <1>5, <1>8, RestLacks
<1>10. PICK fs : fs = split_msg(s, SPLITADDRCHAR)
  OBVIOUS
<1>11. PICK e : CutCovers(s, SPLITADDRCHAR, fs, e)
  BY <1>5, <1>10, SplitCovers
<1>12. Len(fs) = k /\ (\A n \in 1 .. k : fs[n] = xs[n]) /\ fs \in Seq(Seq(Char))
  <2>1. SamePieces(fs, xs, k)
    BY <1>3, <1>4, <1>7, <1>8, <1>9, <1>11, AllPieces
  <2> QED BY <1>11, <2>1 DEF CutCovers, SamePieces
<1>13. PICK hs : hs = SubSeq(xs, 1, k)
  OBVIOUS
<1>14. hs \in Seq(Seq(Char)) /\ SamePieces(hs, xs, k)
  BY <1>3, <1>13, FirstOnes
<1>15. hs = fs
  BY <1>12, <1>14, SeqEqual DEF SamePieces
<1> QED BY <1>1, <1>10, <1>13, <1>15 DEF Front

(* join_data's two texts come back. *)
LEMMA SplitOfData ==
    ASSUME NEW a \in Seq(Char), NEW b \in Seq(Char), NEW c \in Char, 2 <= MaxPieces,
           Lacks(a, c), Lacks(b, c)
    PROVE  /\ join_data(a, b, c) \in Seq(Char) /\ Last(join_data(a, b, c)) = c
           /\ split_msg(join_data(a, b, c), c) = <<a, b>>
<1>1. PICK t, u, gs : t = a \o <<c>> \o b /\ u = t \o <<c>> \o <<>> /\ gs = <<a, b>>
  OBVIOUS
<1>2. gs \in Seq(Seq(Char)) /\ Len(gs) = 2 /\ gs[1] = a /\ gs[2] = b
  BY <1>1
<1>3. Around(t, a, c, b) /\ t \in Seq(Char)
  BY <1>1, GlueAround DEF Around
<1>4. Around(u, t, c, <<>>) /\ u \in Seq(Char) /\ <<>> \in Seq(Char)
  <2>1. <<>> \in Seq(Char)
    OBVIOUS
  <2> QED BY <1>1, <1>3, <2>1, GlueAround DEF Around
<1>5. u = join_data(a, b, c)
  <2>1. t \o <<c>> \in Seq(Char)
    <3>1. <<c>> \in Seq(Char)
      BY OneChar
    <3> QED BY <1>3, <3>1, ConcatProperties
  <2>2. (t \o <<c>>) \o <<>> = t \o <<c>>
    BY <2>1, ConcatEmptySeq
  <2> QED BY <1>1, <2>2 DEF join_data
<1>6. PICK d : d = [n \in 0 .. 0 |-> 0]
  OBVIOUS
<1>7. Parts(a, c, gs, d, 0) /\ Rest(a, gs[0 + 1], d[0])
  <2>1. d[0] = 0 /\ Len(a) \in Nat
    BY <1>6
  <2>2. d \in [0 .. 0 -> 0 .. Len(a)] /\ 0 + 1 = 1
    BY <1>6, <2>1
  <2>3. Parts(a, c, gs, d, 0)
    BY <2>1, <2>2 DEF Parts
  <2>4. Rest(a, a, d[0])
    BY <2>1 DEF Rest
  <2> QED BY <1>2, <2>2, <2>3, <2>4
<1>8. PICK f : Parts(t, c, gs, f, 0 + 1) /\ Rest(t, b, f[0 + 1])
  BY <1>3, <1>7, PartsGrow
<1>9. 0 + 1 = 1 /\ 1 + 1 = 2
  OBVIOUS
<1>10. Parts(t, c, gs, f, 1) /\ Rest(t, gs[1 + 1], f[1])
  BY <1>2, <1>8, <1>9
<1>11. PICK h : Parts(u, c, gs, h, 1 + 1) /\ Rest(u, <<>>, h[1 + 1])
  BY <1>4, <1>10, PartsGrow
<1>12. Parts(u, c, gs, h, 2) /\ Rest(u, <<>>, h[2])
  BY <1>9, <1>11
<1>13. h[2] \in Nat /\ Lacks(<<>>, c) /\ Lacks(<<>>, CR)
  BY <1>4, <1>12 DEF Parts, Lacks
<1>14. Without(u, c, h[2] + 1) /\ Without(u, CR, h[2] + 1)
  BY <1>4, <1>12, <1>13, RestLacks
<1>15. PICK fs : fs = split_msg(u, c)
  OBVIOUS
<1>16. PICK e : CutCovers(u, c, fs, e)
  BY <1>4, <1>15, SplitCovers
<1>17. \A n \in 1 .. 2 : Lacks(gs[n], c)
  <2>1. \A n \in 1 .. 2 : n = 1 \/ n = 2
    OBVIOUS
  <2> QED BY <1>2, <2>1
<1>18. SamePieces(fs, gs, 2)
  BY <1>12, <1>14, <1>16, <1>17, AllPieces
<1>19. fs = gs
  <2>1. fs \in Seq(Seq(Char))
    BY <1>16 DEF CutCovers
  <2>2. Len(fs) = Len(gs) /\ \A n \in 1 .. Len(fs) : fs[n] = gs[n]
    BY <1>2, <1>18 DEF SamePieces
  <2>3. gs \in Seq(Seq(Char))
    BY <1>2
  <2> QED BY <2>1, <2>2, <2>3, SeqEqual, Zenon
<1>20. Last(u) = c
  <2>1. Len(u) = Len(t) + 1 + 0 /\ u[Len(t) + 1] = c /\ Len(t) \in Nat
    BY <1>3, <1>4 DEF Around
  <2>2. Last(u) = u[Len(u)]
    BY DEF Last
  <2> QED BY <2>1, <2>2
<1> QED BY <1>1, <1>4, <1>5, <1>15, <1>19, <1>20

-----------------------------------------------------------------------------
(* The field of k and v stands in t behind place p and ends at place q. *)
FieldIn(t, k, v, p, q) ==
    /\ q = p + Len(k) + Len(v) + 2
    /\ \A m \in 1 .. Len(k) : t[p + m] = k[m]
    /\ t[p + Len(k) + 1] = FSPLITTERCHAR
    /\ \A m \in 1 .. Len(v) : t[p + Len(k) + 1 + m] = v[m]
    /\ t[q] = SPLITADDRCHAR

(* The entries es stand in t, and behind them at most one character. *)
Fields(t, es, d) ==
    /\ t \in Seq(Char) /\ d \in [0 .. Len(es) -> 0 .. Len(t)] /\ d[0] = 0
    /\ \A n \in 1 .. Len(es) : FieldIn(t, es[n][1], es[n][2], d[n - 1], d[n])
    /\ Len(t) = d[Len(es)] \/ Len(t) = d[Len(es)] + 1
PackOf(t, es) == t = packData(es) \/ \E g \in Char : t = Append(packData(es), g)

(* t begins with s, and is at most one character longer. *)
Begins(t, s) ==
    /\ t \in Seq(Char) /\ (Len(t) = Len(s) \/ Len(t) = Len(s) + 1)
    /\ \A m \in 1 .. Len(s) : t[m] = s[m]
LEMMA StrayByte ==
    ASSUME NEW es, packData(es) \in Seq(Char), NEW t, PackOf(t, es)
    PROVE  Begins(t, packData(es))
<1>1. PICK s : s = packData(es) /\ s \in Seq(Char) /\ Len(s) \in Nat
  OBVIOUS
<1>2. CASE t = s
  BY <1>1, <1>2 DEF Begins
<1>3. ASSUME NEW g \in Char, t = Append(s, g) PROVE Begins(t, s)
  <2>1. t \in Seq(Char) /\ Len(t) = Len(s) + 1
    BY <1>1, <1>3
  <2>2. \A m \in 1 .. Len(s) : t[m] = s[m]
    BY <1>1, <1>3
  <2> QED BY <2>1, <2>2 DEF Begins
<1> QED BY <1>1, <1>2, <1>3 DEF PackOf

(* A field in a row, in the text that begins with it. *)
LEMMA FieldStands ==
    ASSUME NEW k \in Seq(Char), NEW v \in Seq(Char), NEW s \in Seq(Char), NEW t, Begins(t, s),
           NEW p \in Nat, NEW q \in 0 .. Len(s), StandsAt(s, Field(<<k, v>>), p, q)
    PROVE  FieldIn(t, k, v, p, q)
<1>1. PICK f, a, b, l : f = Field(<<k, v>>) /\ a = Len(k) /\ b = Len(v) /\ l = Len(s)
  OBVIOUS
<1>2. a \in Nat /\ b \in Nat /\ l \in Nat
  BY <1>1, LenProperties
<1>3. FieldOf(f, k, v, a, b)
  BY <1>1, FieldFacts
<1>4. /\ Len(f) = a + b + 2
      /\ (\A n \in 1 .. a : f[n] = k[n]) /\ f[a + 1] = FSPLITTERCHAR
      /\ (\A n \in 1 .. b : f[a + 1 + n] = v[n]) /\ f[a + b + 2] = SPLITADDRCHAR
  BY <1>3 DEF FieldOf
<1>5. q = p + (a + b + 2) /\ \A n \in 1 .. a + b + 2 : s[p + n] = f[n]
  BY <1>1, <1>4 DEF StandsAt
<1>6. \A n \in 1 .. a + b + 2 : t[p + n] = f[n]
  <2>1. ASSUME NEW n \in 1 .. a + b + 2 PROVE t[p + n] = f[n]
    <3>1. q <= l /\ p + n \in 1 .. l
      BY <1>1, <1>2, <1>5
    <3>2. t[p + n] = s[p + n]
      BY <1>1, <3>1 DEF Begins
    <3> QED BY <1>5, <3>2
  <2> QED BY <2>1
<1>7. q = p + a + b + 2
  BY <1>2, <1>5
<1>8. \A m \in 1 .. a : t[p + m] = k[m]
  <2>1. \A m \in 1 .. a : m \in 1 .. a + b + 2
    BY <1>2
  <2> QED BY <1>4, <1>6, <2>1
<1>9. t[p + a + 1] = FSPLITTERCHAR
  <2>1. a + 1 \in 1 .. a + b + 2 /\ p + (a + 1) = p + a + 1
    BY <1>2
  <2> QED BY <1>4, <1>6, <2>1
<1>10. ASSUME NEW m \in 1 .. b PROVE t[p + a + 1 + m] = v[m]
  <2>1. a + 1 + m \in 1 .. a + b + 2 /\ p + (a + 1 + m) = p + a + 1 + m
    BY <1>2
  <2> QED BY <1>4, <1>6, <2>1
<1>11. t[q] = SPLITADDRCHAR
  <2>1. a + b + 2 \in 1 .. a + b + 2 /\ p + (a + b + 2) = q
    BY <1>2, <1>7
  <2> QED BY <1>4, <1>6, <2>1
<1> QED BY <1>1, <1>7, <1>8, <1>9, <1>10, <1>11 DEF FieldIn

(* What packData returns, with or without a byte of the heap behind it. *)
LEMMA PackedFields ==
    ASSUME NEW es \in Seq(Seq(Char) \X Seq(Char)), Len(es) > 0, NEW t, PackOf(t, es)
    PROVE  \E d : Fields(t, es, d) /\ d[Len(es)] = Len(packData(es))
<1>0. Len(es) \in Nat
  BY LenProperties
<1>1. PICK l : l = Len(es) /\ l \in Nat /\ l > 0
  BY <1>0
<1>2. \A n \in 1 .. l : es[n] \in Seq(Char) \X Seq(Char)
  BY <1>1
<1>3. ASSUME NEW n \in 1 .. l
      PROVE  es[n][1] \in Seq(Char) /\ es[n][2] \in Seq(Char) /\ es[n] = <<es[n][1], es[n][2]>>
  BY <1>2
<1>4. PICK fs : fs = [n \in 1 .. l |-> Field(es[n])]
  OBVIOUS
<1>5. ASSUME NEW n \in 1 .. l PROVE fs[n] = Field(<<es[n][1], es[n][2]>>) /\ fs[n] \in Seq(Char)
  <2>1. PICK k, v : k = es[n][1] /\ v = es[n][2]
    OBVIOUS
  <2>2. k \in Seq(Char) /\ v \in Seq(Char) /\ fs[n] = Field(<<k, v>>)
    BY <1>3, <1>4, <2>1
  <2>3. Field(<<k, v>>) \in Seq(Char)
    BY <2>2, FieldFacts DEF FieldOf
  <2> QED BY <2>1, <2>2, <2>3
<1>6. fs \in Seq(Seq(Char)) /\ Len(fs) = l /\ fs # <<>>
  <2>1. \A n \in 1 .. l : Field(es[n]) \in Seq(Char)
    BY <1>4, <1>5
  <2>2. fs \in Seq(Seq(Char))
    BY <1>1, <1>4, <2>1
  <2>3. Len(fs) = l
    BY <1>1, <1>4
  <2> QED BY <1>1, <2>2, <2>3
<1>7. PICK s : s = packData(es)
  OBVIOUS
<1>8. s = FlattenSeq(fs)
  BY <1>1, <1>4, <1>7 DEF packData
<1>9. PICK d : Row(s, fs, d, l)
  BY <1>6, <1>8, FlattenRow
<1>10. /\ s \in Seq(Char) /\ d \in [0 .. l -> 0 .. Len(s)] /\ d[0] = 0 /\ d[l] = Len(s)
       /\ \A n \in 1 .. l : StandsAt(s, fs[n], d[n - 1], d[n])
  BY <1>9 DEF Row
<1>11. Begins(t, s)
  BY <1>7, <1>10, StrayByte
<1>12. t \in Seq(Char) /\ (Len(t) = d[l] \/ Len(t) = d[l] + 1)
  BY <1>10, <1>11 DEF Begins
<1>13. d \in [0 .. l -> 0 .. Len(t)]
  <2>1. Len(s) \in Nat /\ Len(t) \in Nat
    BY <1>10, <1>12
  <2>2. \A n \in 0 .. Len(s) : n \in 0 .. Len(t)
    BY <1>10, <1>12, <2>1
  <2> QED BY <1>10, <2>2
<1>14. ASSUME NEW n \in 1 .. l PROVE FieldIn(t, es[n][1], es[n][2], d[n - 1], d[n])
  <2>1. PICK k, v, p, q : k = es[n][1] /\ v = es[n][2] /\ p = d[n - 1] /\ q = d[n]
    OBVIOUS
  <2>2. n - 1 \in 0 .. l /\ n \in 0 .. l
    BY <1>1
  <2>3. k \in Seq(Char) /\ v \in Seq(Char) /\ p \in Nat /\ q \in 0 .. Len(s)
    <3>1. k \in Seq(Char) /\ v \in Seq(Char)
      BY <1>3, <2>1
    <3>2. p \in 0 .. Len(s) /\ q \in 0 .. Len(s)
      BY <1>10, <2>1, <2>2
    <3> QED BY <3>1, <3>2
  <2>4. StandsAt(s, Field(<<k, v>>), p, q)
    BY <1>5, <1>10, <2>1
  <2>5. FieldIn(t, k, v, p, q)
    BY <1>10, <1>11, <2>3, <2>4, FieldStands
  <2> QED BY <2>1, <2>5
<1>15. Fields(t, es, d)
  BY <1>1, <1>10, <1>12, <1>13, <1>14 DEF Fields
<1> QED BY <1>1, <1>7, <1>10, <1>15

-----------------------------------------------------------------------------
(* A key and a value without separators: the piece they make gives them    *)
(* back.                                                                   *)
Whole(g, k, v) ==
    Around(g, k, FSPLITTERCHAR, v) /\ Lacks(g, SPLITADDRCHAR) /\ Pair(g) = <<k, v>>
LEMMA PairOfPiece ==
    ASSUME NEW k \in Seq(Char), NEW v \in Seq(Char), Free(k), Free(v)
    PROVE  Whole(k \o <<FSPLITTERCHAR>> \o v, k, v)
<1>1. PICK g : g = k \o <<FSPLITTERCHAR>> \o v
  OBVIOUS
<1>2. Around(g, k, FSPLITTERCHAR, v)
  <2>1. FSPLITTERCHAR \in Char
    BY DEF Char
  <2> QED BY <1>1, <2>1, GlueAround
<1>3. PICK a, b : a = Len(k) /\ b = Len(v) /\ a \in Nat /\ b \in Nat
  BY LenProperties
<1>4. /\ g \in Seq(Char) /\ Len(g) = a + 1 + b
      /\ (\A m \in 1 .. a : g[m] = k[m]) /\ g[a + 1] = FSPLITTERCHAR
      /\ \A m \in 1 .. b : g[a + 1 + m] = v[m]
  BY <1>2, <1>3 DEF Around
<1>5. /\ \A m \in 1 .. a : k[m] # FSPLITTERCHAR /\ k[m] # SPLITADDRCHAR
      /\ \A m \in 1 .. b : v[m] # FSPLITTERCHAR /\ v[m] # SPLITADDRCHAR
      /\ FSPLITTERCHAR # SPLITADDRCHAR
  BY <1>3 DEF Free, FSPLITTERCHAR, SPLITADDRCHAR
<1>6. ASSUME NEW m \in 1 .. a + 1 + b PROVE g[m] # SPLITADDRCHAR
  <2>1. CASE m \in 1 .. a
    BY <1>4, <1>5, <2>1
  <2>2. CASE m = a + 1
    BY <1>4, <1>5, <2>2
  <2>3. CASE m > a + 1
    <3>1. m - (a + 1) \in 1 .. b /\ a + 1 + (m - (a + 1)) = m
      BY <1>3, <2>3
    <3> QED BY <1>4, <1>5, <3>1
  <2> QED BY <1>3, <2>1, <2>2, <2>3
<1>7. Lacks(g, SPLITADDRCHAR)
  BY <1>4, <1>6 DEF Lacks
<1>8. Pair(g) = <<SubSeq(g, 1, a), SubSeq(g, a + 2, a + 1 + b)>>
  <2>1. a + 1 \in 1 .. Len(g) /\ (a + 1) - 1 = a /\ (a + 1) + 1 = a + 2
    BY <1>3, <1>4
  <2>2. \A m \in 1 .. (a + 1) - 1 : g[m] # FSPLITTERCHAR
    BY <1>4, <1>5, <2>1
  <2>3. Pair(g) = <<SubSeq(g, 1, (a + 1) - 1), SubSeq(g, (a + 1) + 1, Len(g))>>
    BY <1>4, <2>1, <2>2, PairParts
  <2> QED BY <1>4, <2>1, <2>3
<1>9. SubSeq(g, 1, a) = k
  <2>1. 1 \in 1 .. Len(g) + 1 /\ a \in 1 - 1 .. Len(g)
    BY <1>3, <1>4
  <2>2. /\ SubSeq(g, 1, a) \in Seq(Char) /\ Len(SubSeq(g, 1, a)) = a - 1 + 1
        /\ \A m \in 1 .. a - 1 + 1 : SubSeq(g, 1, a)[m] = g[1 + m - 1]
    BY <1>4, <2>1, PartOf
  <2>3. PICK x : x = SubSeq(g, 1, a)
    OBVIOUS
  <2>4. a - 1 + 1 = a /\ \A m \in 1 .. a : 1 + m - 1 = m
    BY <1>3
  <2>5. x \in Seq(Char) /\ Len(x) = a /\ \A m \in 1 .. a : x[m] = k[m]
    BY <1>4, <2>2, <2>3, <2>4
  <2>6. x = k
    BY <1>3, <2>5, SeqEqual
  <2> QED BY <2>3, <2>6
<1>10. SubSeq(g, a + 2, a + 1 + b) = v
  <2>1. a + 2 \in 1 .. Len(g) + 1 /\ a + 1 + b \in (a + 2) - 1 .. Len(g)
    BY <1>3, <1>4
  <2>2. PICK x : x = SubSeq(g, a + 2, a + 1 + b)
    OBVIOUS
  <2>3. /\ x \in Seq(Char) /\ Len(x) = (a + 1 + b) - (a + 2) + 1
        /\ \A m \in 1 .. (a + 1 + b) - (a + 2) + 1 : x[m] = g[(a + 2) + m - 1]
    BY <1>4, <2>1, <2>2, PartOf
  <2>4. (a + 1 + b) - (a + 2) + 1 = b /\ \A m \in 1 .. b : (a + 2) + m - 1 = a + 1 + m
    BY <1>3
  <2>5. x \in Seq(Char) /\ Len(x) = b /\ \A m \in 1 .. b : x[m] = v[m]
    BY <1>4, <2>3, <2>4
  <2>6. x = v
    BY <1>3, <2>5, SeqEqual
  <2> QED BY <2>2, <2>6
<1> QED BY <1>1, <1>2, <1>7, <1>8, <1>9, <1>10 DEF Whole

(* A field holds one of each separator. *)
OneEach(t, k, p, q) ==
    /\ q \in Nat /\ p + Len(k) + 1 \in p + 1 .. q /\ q \in p + 1 .. q
    /\ \A m \in p + 1 .. q : t[m] = FSPLITTERCHAR <=> m = p + Len(k) + 1
    /\ \A m \in p + 1 .. q : t[m] = SPLITADDRCHAR <=> m = q
LEMMA OneOfEach ==
    ASSUME NEW k \in Seq(Char), NEW v \in Seq(Char), Free(k), Free(v), NEW t,
           NEW p \in Nat, NEW q, FieldIn(t, k, v, p, q)
    PROVE  OneEach(t, k, p, q)
<1>1. PICK a, b : a = Len(k) /\ b = Len(v) /\ a \in Nat /\ b \in Nat
  BY LenProperties
<1>2. /\ q = p + a + b + 2
      /\ (\A m \in 1 .. a : t[p + m] = k[m]) /\ t[p + a + 1] = FSPLITTERCHAR
      /\ (\A m \in 1 .. b : t[p + a + 1 + m] = v[m]) /\ t[q] = SPLITADDRCHAR
  BY <1>1 DEF FieldIn
<1>3. /\ \A m \in 1 .. a : k[m] # FSPLITTERCHAR /\ k[m] # SPLITADDRCHAR
      /\ \A m \in 1 .. b : v[m] # FSPLITTERCHAR /\ v[m] # SPLITADDRCHAR
      /\ FSPLITTERCHAR # SPLITADDRCHAR
  BY <1>1 DEF Free, FSPLITTERCHAR, SPLITADDRCHAR
<1>4. ASSUME NEW m \in p + 1 .. q, m # p + a + 1, m # q
      PROVE  t[m] # FSPLITTERCHAR /\ t[m] # SPLITADDRCHAR
  <2>1. CASE m < p + a + 1
    <3>1. m - p \in 1 .. a /\ p + (m - p) = m
      BY <1>1, <2>1
    <3> QED BY <1>2, <1>3, <3>1
  <2>2. CASE m > p + a + 1
    <3>1. m - (p + a + 1) \in 1 .. b /\ p + a + 1 + (m - (p + a + 1)) = m
      BY <1>1, <1>2, <1>4, <2>2
    <3> QED BY <1>2, <1>3, <3>1
  <2> QED BY <1>1, <1>4, <2>1, <2>2
<1>5. q \in Nat /\ p + a + 1 \in p + 1 .. q /\ q \in p + 1 .. q
  BY <1>1, <1>2
<1> QED BY <1>1, <1>2, <1>3, <1>4, <1>5 DEF OneEach

(* The places of c up to place p are n. *)
Before(t, c, p) == {m \in 1 .. p : t[m] = c}
CountIs(t, c, p, n) == IsFiniteSet(Before(t, c, p)) /\ Cardinality(Before(t, c, p)) = n
LEMMA CountGrows ==
    ASSUME NEW t, NEW c, NEW p \in Nat, NEW q \in Nat, NEW n \in Nat, CountIs(t, c, p, n),
           NEW x \in p + 1 .. q, \A m \in p + 1 .. q : t[m] = c <=> m = x
    PROVE  CountIs(t, c, q, n + 1)
<1>1. PICK A, B : A = Before(t, c, p) /\ B = Before(t, c, q)
  OBVIOUS
<1>2. x \notin A
  BY <1>1 DEF Before
<1>3. B = A \cup {x}
  <2>1. ASSUME NEW m \in B PROVE m \in A \cup {x}
    BY <1>1 DEF Before
  <2>2. ASSUME NEW m \in A \cup {x} PROVE m \in B
    BY <1>1 DEF Before
  <2> QED BY <2>1, <2>2
<1>4. IsFiniteSet(A) /\ Cardinality(A) = n
  BY <1>1 DEF CountIs
<1>5. IsFiniteSet(A \cup {x}) /\ Cardinality(A \cup {x}) = n + 1
  BY <1>2, <1>4, FS_AddElement
<1> QED BY <1>1, <1>3, <1>5 DEF CountIs

(* The parts of Fields. *)
Entries(es) == \A n \in 1 .. Len(es) : /\ es[n] = <<es[n][1], es[n][2]>>
                                       /\ es[n][1] \in Seq(Char) /\ es[n][2] \in Seq(Char)
                                       /\ Free(es[n][1]) /\ Free(es[n][2])
LEMMA FieldsCount ==
    ASSUME NEW t, NEW es, NEW d, NEW l \in Nat, l = Len(es), Entries(es), Fields(t, es, d), NEW r \in 0 .. l
    PROVE  CountIs(t, FSPLITTERCHAR, d[r], r) /\ CountIs(t, SPLITADDRCHAR, d[r], r)
<1> DEFINE S == {n \in Nat : n <= l => CountIs(t, FSPLITTERCHAR, d[n], n) /\ CountIs(t, SPLITADDRCHAR, d[n], n)}
<1>1. 0 \in S
  <2>1. d[0] = 0
    BY DEF Fields
  <2>2. \A c : Before(t, c, 0) = {}
    BY DEF Before
  <2>3. \A c : CountIs(t, c, 0, 0)
    BY <2>2, FS_EmptySet DEF CountIs
  <2> QED BY <2>1, <2>3
<1>2. ASSUME NEW n \in Nat, n \in S PROVE n + 1 \in S
  <2> SUFFICES ASSUME n + 1 <= l
               PROVE  CountIs(t, FSPLITTERCHAR, d[n + 1], n + 1) /\ CountIs(t, SPLITADDRCHAR, d[n + 1], n + 1)
    OBVIOUS
  <2>1. n <= l /\ n + 1 \in 1 .. l /\ n \in 0 .. l /\ (n + 1) - 1 = n
    OBVIOUS
  <2>2. PICK k, v, p, q : k = es[n + 1][1] /\ v = es[n + 1][2] /\ p = d[n] /\ q = d[n + 1]
    OBVIOUS
  <2>3. CountIs(t, FSPLITTERCHAR, p, n) /\ CountIs(t, SPLITADDRCHAR, p, n)
    BY <1>2, <2>1, <2>2
  <2>4. k \in Seq(Char) /\ v \in Seq(Char) /\ Free(k) /\ Free(v)
    BY <2>1, <2>2 DEF Entries
  <2>5. p \in Nat /\ FieldIn(t, k, v, p, q)
    <3>1. t \in Seq(Char) /\ d \in [0 .. l -> 0 .. Len(t)] /\ FieldIn(t, k, v, p, q)
      BY <2>1, <2>2 DEF Fields
    <3>2. p \in 0 .. Len(t)
      BY <2>1, <2>2, <3>1
    <3> QED BY <3>1, <3>2
  <2>6. /\ q \in Nat /\ p + Len(k) + 1 \in p + 1 .. q /\ q \in p + 1 .. q
        /\ \A m \in p + 1 .. q : t[m] = FSPLITTERCHAR <=> m = p + Len(k) + 1
        /\ \A m \in p + 1 .. q : t[m] = SPLITADDRCHAR <=> m = q
    <3>1. OneEach(t, k, p, q)
      BY <2>4, <2>5, OneOfEach
    <3> QED BY <3>1 DEF OneEach
  <2>7. CountIs(t, FSPLITTERCHAR, q, n + 1)
    BY <2>3, <2>5, <2>6, CountGrows
  <2>8. CountIs(t, SPLITADDRCHAR, q, n + 1)
    BY <2>3, <2>5, <2>6, CountGrows
  <2> QED BY <2>2, <2>7, <2>8
<1> HIDE DEF S
<1>3. r \in S /\ r <= l
  BY <1>1, <1>2, SetInduction
<1> QED BY <1>3 DEF S

(* No separator behind the last field. *)
NoStray(t, es, d) == Len(t) = d[Len(es)] + 1 =>
    t[d[Len(es)] + 1] # FSPLITTERCHAR /\ t[d[Len(es)] + 1] # SPLITADDRCHAR

(* unpackData does not refuse what was packed. *)
LEMMA PackedIsBalanced ==
    ASSUME NEW t, NEW es, NEW d, Len(es) \in Nat, Entries(es), Fields(t, es, d), NoStray(t, es, d)
    PROVE  Balanced(t)
<1>1. PICK l, z : l = Len(es) /\ z = d[l]
  OBVIOUS
<1>2. l \in Nat /\ l \in 0 .. l /\ z \in Nat /\ t \in Seq(Char) /\ (Len(t) = z \/ Len(t) = z + 1)
  BY <1>1 DEF Fields
<1>3. CountIs(t, FSPLITTERCHAR, z, l) /\ CountIs(t, SPLITADDRCHAR, z, l)
  BY <1>1, <1>2, FieldsCount
<1>4. ASSUME NEW c \in {FSPLITTERCHAR, SPLITADDRCHAR} PROVE Places(t, c, 1) = Before(t, c, z)
  <2>1. CASE Len(t) = z
    BY <2>1 DEF Places, Before
  <2>2. CASE Len(t) = z + 1
    <3>1. t[z + 1] # c
      BY <1>1, <1>4, <2>2 DEF NoStray
    <3>2. \A m \in 1 .. z + 1 : m \in 1 .. z \/ m = z + 1
      BY <1>2
    <3>3. \A m \in 1 .. z : m \in 1 .. z + 1
      BY <1>2
    <3> QED BY <2>2, <3>1, <3>2, <3>3 DEF Places, Before
  <2> QED BY <1>2, <2>1, <2>2
<1> QED BY <1>3, <1>4 DEF CountIs, Balanced

(* The pieces of a packed text. *)
PieceOf(e) == e[1] \o <<FSPLITTERCHAR>> \o e[2]
PackedPieces(t, es, gs, d, l) ==
    /\ Parts(t, SPLITADDRCHAR, gs, d, l)
    /\ \A n \in 1 .. l : Lacks(gs[n], SPLITADDRCHAR)
    /\ \A n \in 1 .. l : Pair(gs[n]) = es[n]
LEMMA PackedParts ==
    ASSUME NEW t, NEW es, NEW d, NEW l \in Nat, l = Len(es), Entries(es), Fields(t, es, d),
           NEW gs, gs = [n \in 1 .. l |-> PieceOf(es[n])]
    PROVE  PackedPieces(t, es, gs, d, l)
<1>1. /\ t \in Seq(Char) /\ d \in [0 .. l -> 0 .. Len(t)] /\ d[0] = 0
      /\ \A n \in 1 .. l : FieldIn(t, es[n][1], es[n][2], d[n - 1], d[n])
  BY DEF Fields
<1>2. ASSUME NEW n \in 1 .. l
      PROVE  /\ gs[n] \in Seq(Char) /\ Part(t, SPLITADDRCHAR, gs, d, n)
             /\ Lacks(gs[n], SPLITADDRCHAR) /\ Pair(gs[n]) = es[n]
  <2>1. PICK k, v, p, q, g : k = es[n][1] /\ v = es[n][2] /\ p = d[n - 1] /\ q = d[n] /\ g = gs[n]
    OBVIOUS
  <2>2. n - 1 \in 0 .. l /\ n \in 0 .. l
    OBVIOUS
  <2>3. p \in 0 .. Len(t) /\ q \in 0 .. Len(t) /\ Len(t) \in Nat
    BY <1>1, <2>1, <2>2
  <2>4. k \in Seq(Char) /\ v \in Seq(Char) /\ Free(k) /\ Free(v) /\ es[n] = <<k, v>>
    BY <2>1 DEF Entries
  <2>5. g = k \o <<FSPLITTERCHAR>> \o v
    BY <2>1 DEF PieceOf
  <2>6. Whole(g, k, v)
    BY <2>4, <2>5, PairOfPiece
  <2>7. PICK a, b : a = Len(k) /\ b = Len(v) /\ a \in Nat /\ b \in Nat
    BY <2>4, LenProperties
  <2>8. /\ g \in Seq(Char) /\ Len(g) = a + 1 + b
        /\ (\A m \in 1 .. a : g[m] = k[m]) /\ g[a + 1] = FSPLITTERCHAR
        /\ \A m \in 1 .. b : g[a + 1 + m] = v[m]
    BY <2>6, <2>7 DEF Whole, Around
  <2>9. FieldIn(t, k, v, p, q)
    BY <1>1, <2>1
  <2>10. /\ q = p + a + b + 2
         /\ (\A m \in 1 .. a : t[p + m] = k[m]) /\ t[p + a + 1] = FSPLITTERCHAR
         /\ (\A m \in 1 .. b : t[p + a + 1 + m] = v[m]) /\ t[q] = SPLITADDRCHAR
    BY <2>7, <2>9 DEF FieldIn
  <2>11. ASSUME NEW m \in 1 .. Len(g) PROVE t[p + m] = g[m]
    <3>1. CASE m \in 1 .. a
      BY <2>8, <2>10, <3>1
    <3>2. CASE m = a + 1
      <4>1. p + m = p + a + 1
        BY <2>3, <2>7, <3>2
      <4> QED BY <2>8, <2>10, <3>2, <4>1
    <3>3. CASE m > a + 1
      <4>1. PICK o : o = m - (a + 1)
        OBVIOUS
      <4>2. o \in 1 .. b /\ p + a + 1 + o = p + m /\ a + 1 + o = m
        BY <2>3, <2>7, <2>8, <3>3, <4>1
      <4> QED BY <2>8, <2>10, <4>2
    <3> QED BY <2>7, <2>8, <3>1, <3>2, <3>3
  <2>12. q = p + Len(g) + 1
    BY <2>3, <2>7, <2>8, <2>10
  <2>13. Part(t, SPLITADDRCHAR, gs, d, n)
    BY <2>1, <2>10, <2>11, <2>12 DEF Part
  <2> QED BY <2>1, <2>4, <2>6, <2>8, <2>13 DEF Whole
<1> QED BY <1>1, <1>2 DEF PackedPieces, Parts

(* A piece behind the last field is the stray byte, a carriage return: an  *)
(* empty text stands before it, and there is no second such piece.         *)
LEMMA StrayPiece ==
    ASSUME NEW t \in Seq(Char), NEW c, NEW fs, NEW e, CutCovers(t, c, fs, e),
           NEW l \in Nat, l <= Len(fs), Len(t) = e[l] \/ Len(t) = e[l] + 1,
           NEW n \in l + 1 .. Len(fs)
    PROVE  Pair(fs[n]) = Missing
<1>1. Len(fs) \in Nat /\ Len(t) \in Nat /\ \A m \in 0 .. Len(fs) : e[m] \in 0 .. Len(t)
  BY CutFacts
<1>2. ASSUME NEW m \in 1 .. Len(fs)
      PROVE  /\ fs[m] \in Seq(Char) /\ e[m - 1] \in Nat /\ e[m] \in Nat
             /\ e[m - 1] < e[m] /\ e[m] <= Len(t) /\ Len(fs[m]) = e[m] - 1 - e[m - 1]
  <2>1. PieceText(t, fs, e, m)
    BY PiecesAt
  <2>2. m - 1 \in 0 .. Len(fs) /\ m \in 0 .. Len(fs)
    BY <1>1
  <2>3. e[m] \in 0 .. Len(t) /\ e[m - 1] \in 0 .. Len(t)
    BY <1>1, <2>2
  <2> QED BY <1>1, <2>1, <2>3 DEF PieceText
<1>3. l + 1 \in 1 .. Len(fs) /\ (l + 1) - 1 = l
  BY <1>1
<1>4. e[l] \in Nat /\ e[l + 1] \in Nat /\ e[l] < e[l + 1] /\ e[l + 1] <= Len(t)
  BY <1>2, <1>3
<1>5. e[l + 1] = e[l] + 1 /\ Len(t) = e[l + 1]
  BY <1>1, <1>4
<1>6. n = l + 1
  <2> SUFFICES ASSUME n # l + 1 PROVE FALSE
    OBVIOUS
  <2>1. l + 2 \in 1 .. Len(fs) /\ (l + 2) - 1 = l + 1
    BY <1>1
  <2>2. e[l + 1] < e[l + 2] /\ e[l + 2] <= Len(t) /\ e[l + 2] \in Nat
    BY <1>2, <2>1
  <2> QED BY <1>4, <1>5, <2>2
<1>7. fs[n] \in Seq(Char) /\ Len(fs[n]) = 0
  <2>1. fs[l + 1] \in Seq(Char) /\ Len(fs[l + 1]) = e[l + 1] - 1 - e[l]
    BY <1>2, <1>3
  <2> QED BY <1>4, <1>5, <1>6, <2>1
<1>8. strchr(fs[n], FSPLITTERCHAR, 1) = 0
  <2>1. Places(fs[n], FSPLITTERCHAR, 1) = {}
    BY <1>7 DEF Places
  <2> QED BY <2>1 DEF strchr
<1> QED BY <1>8 DEF Pair

(* Unpacking what was packed. *)
Least(a, b) == IF a <= b THEN a ELSE b
LEMMA PackedComesBack ==
    ASSUME NEW t, NEW es, NEW d, NEW l \in Nat, l = Len(es), Entries(es), Fields(t, es, d),
           \A m, n \in 1 .. l : m # n => es[m][1] # es[n][1]
    PROVE  Settable(unpackData(t)) \ {Missing}
             = {es[n] : n \in 1 .. Least(l, MaxPieces)} \ {Missing}
<1>1. PICK gs : gs = [n \in 1 .. l |-> PieceOf(es[n])]
  OBVIOUS
<1>2. PICK M : M = Least(l, MaxPieces)
  OBVIOUS
<1>3. MaxPieces \in Nat /\ M \in Nat /\ M <= l /\ M <= MaxPieces /\ (M = l \/ M = MaxPieces)
  BY <1>2, CodecAssumption DEF Least
<1>4. PackedPieces(t, es, gs, d, l)
  BY <1>1, PackedParts
<1>5. t \in Seq(Char) /\ Len(t) \in Nat /\ (Len(t) = d[l] \/ Len(t) = d[l] + 1)
  BY DEF Fields
<1>6. PICK fs : fs = split_msg(t, SPLITADDRCHAR)
  OBVIOUS
<1>7. PICK e : CutCovers(t, SPLITADDRCHAR, fs, e)
  BY <1>5, <1>6, SplitCovers
<1>8. fs \in Seq(Seq(Char)) /\ Len(fs) \in Nat /\ Len(fs) <= MaxPieces
  BY <1>7 DEF CutCovers
<1>9. ASSUME NEW n \in Nat, n <= M PROVE IsPiece(gs, d, fs, e, n)
  <2>1. n <= l /\ n <= MaxPieces
    BY <1>3, <1>9
  <2>2. Parts(t, SPLITADDRCHAR, gs, d, l) /\ \A m \in 1 .. l : Lacks(gs[m], SPLITADDRCHAR)
    BY <1>4 DEF PackedPieces
  <2> QED BY <1>7, <2>1, <2>2, PiecesAre
<1>10. M <= Len(fs) /\ e[M] = d[M]
  BY <1>3, <1>9 DEF IsPiece
<1>11. ASSUME NEW n \in 1 .. M PROVE Pair(fs[n]) = es[n] /\ n \in 1 .. Len(fs) /\ n \in 1 .. l
  <2>1. n \in Nat /\ n <= M /\ n > 0 /\ n \in 1 .. l /\ n \in 1 .. Len(fs)
    BY <1>3, <1>8, <1>10
  <2>2. fs[n] = gs[n]
    BY <1>9, <2>1 DEF IsPiece
  <2> QED BY <1>4, <2>1, <2>2 DEF PackedPieces
<1>12. ASSUME NEW n \in M + 1 .. Len(fs) PROVE Pair(fs[n]) = Missing
  <2>1. M = l
    BY <1>3, <1>8
  <2>2. Len(t) = e[M] \/ Len(t) = e[M] + 1
    BY <1>5, <1>10, <2>1
  <2> QED BY <1>3, <1>5, <1>7, <1>10, <2>2, StrayPiece
<1> DEFINE K == {k \in 1 .. Len(fs) : \A j \in 1 .. k - 1 : Pair(fs[j])[1] # Pair(fs[k])[1]}
<1>13. Settable(unpackData(t)) = {Pair(fs[m]) : m \in K}
  BY <1>6, <1>8, UnpackedPairs
<1>14. ASSUME NEW n \in K PROVE Pair(fs[n]) = Missing \/ \E m \in 1 .. M : Pair(fs[n]) = es[m]
  <2>1. n \in 1 .. M \/ n \in M + 1 .. Len(fs)
    BY <1>3, <1>8
  <2> QED BY <1>11, <1>12, <2>1
<1>15. ASSUME NEW n \in 1 .. M PROVE n \in K
  <2>1. ASSUME NEW j \in 1 .. n - 1 PROVE Pair(fs[j])[1] # Pair(fs[n])[1]
    <3>1. j \in 1 .. M /\ j # n
      BY <1>3
    <3>2. Pair(fs[j]) = es[j] /\ Pair(fs[n]) = es[n] /\ j \in 1 .. l /\ n \in 1 .. l
      BY <1>11, <3>1
    <3> QED BY <3>1, <3>2
  <2> QED BY <1>11, <2>1
<1> HIDE DEF K
<1>16. {Pair(fs[m]) : m \in K} \ {Missing} = {es[n] : n \in 1 .. M} \ {Missing}
  <2>1. ASSUME NEW n \in 1 .. M PROVE n \in K /\ Pair(fs[n]) = es[n]
    BY <1>11, <1>15
  <2> QED BY <1>14, <2>1
<1> QED BY <1>2, <1>13, <1>16

-----------------------------------------------------------------------------
(* No key is stored twice. *)
KeysDiffer == \A m, n \in 1 .. Len(table) : m # n => table[m][1] # table[n][1]

(* What the caller holds at each stage, and where it came from. *)
Stages ==
    /\ pc \in {"idle", "packing"} => text = <<>>
    /\ pc \in {"idle", "addresses", "data", "received", "split"} => table = <<>>
    /\ pc \in {"received", "split", "unpacked"} => text \in Seq(Char)
    /\ pc = "packed" => IF table = <<>> THEN text = Nil ELSE PackOf(text, table)
    /\ pc = "unpacked" => /\ result = Settable(unpackData(text))
                          /\ table # <<>> => PackOf(text, table)
    /\ pc = "error" => \/ table = <<>> \/ text = <<>>
                       \/ PackOf(text, table) /\ ~ Balanced(text)
    /\ pc = "split" => pieces = split_msg(text, SPLITADDRCHAR)
    /\ pc = "addresses" => text = lua_join_addresses(joined)
    /\ pc = "data" => \E a, b \in Values, c \in {FSPLITTERCHAR, SPLITADDRCHAR} :
                         joined = <<a, b>> /\ text = join_data(a, b, c)

(* The inductive invariant. *)
CodecInv == TypeOK /\ KeysDiffer /\ Stages

LEMMA PackedIsText ==
    ASSUME NEW es \in Seq(Seq(Char) \X Seq(Char)), es # <<>>, NEW t, PackOf(t, es)
    PROVE  t \in Seq(Char)
<1>1. Len(es) > 0
  <2>1. Len(es) \in Nat \ {0}
    BY EmptySeq
  <2> QED BY <2>1
<1>2. PICK d : Fields(t, es, d)
  BY <1>1, PackedFields
<1> QED BY <1>2 DEF Fields

LEMMA PiecesAreTexts ==
    ASSUME NEW s \in Seq(Char), NEW c
    PROVE  split_msg(s, c) \in Seq(Seq(Char))
<1>1. PICK e : CutCovers(s, c, split_msg(s, c), e)
  BY SplitCovers
<1> QED BY <1>1 DEF CutCovers

LEMMA UnpackedType ==
    ASSUME NEW s \in Seq(Char)
    PROVE  Settable(unpackData(s)) \subseteq Seq(Char) \X Seq(Char)
<1>1. PICK fs : fs = split_msg(s, SPLITADDRCHAR)
  OBVIOUS
<1>2. fs \in Seq(Seq(Char))
  BY <1>1, PiecesAreTexts
<1> DEFINE K == {k \in 1 .. Len(fs) : \A j \in 1 .. k - 1 : Pair(fs[j])[1] # Pair(fs[k])[1]}
<1>3. Settable(unpackData(s)) = {Pair(fs[m]) : m \in K}
  BY <1>1, <1>2, UnpackedPairs
<1>4. ASSUME NEW m \in K PROVE Pair(fs[m]) \in Seq(Char) \X Seq(Char)
  <2>1. fs[m] \in Seq(Char)
    BY <1>2, ElementOfSeq
  <2> QED BY <2>1, PairFacts
<1> HIDE DEF K
<1> QED BY <1>3, <1>4, Zenon

LEMMA JoinedIsText ==
    ASSUME NEW xs \in Seq(Seq(Char))
    PROVE  lua_join_addresses(xs) \in Seq(Char) \cup {Nil}
<1>1. CASE xs = <<>>
  BY <1>1 DEF lua_join_addresses
<1>2. CASE xs # <<>>
  <2>1. PICK d : Parts(lua_join_addresses(xs), SPLITADDRCHAR, xs, d, Len(xs) - 1)
    BY <1>2, JoinedParts
  <2> QED BY <2>1 DEF Parts
<1> QED BY <1>1, <1>2

LEMMA DataIsText ==
    ASSUME NEW a \in Seq(Char), NEW b \in Seq(Char), NEW c \in Char
    PROVE  join_data(a, b, c) \in Seq(Char)
<1>1. <<c>> \in Seq(Char)
  BY OneChar
<1>2. a \o <<c>> \in Seq(Char)
  BY <1>1, ConcatProperties
<1>3. a \o <<c>> \o b \in Seq(Char)
  BY <1>2, ConcatProperties
<1>4. a \o <<c>> \o b \o <<c>> \in Seq(Char)
  BY <1>1, <1>3, ConcatProperties
<1> QED BY <1>4 DEF join_data

LEMMA CodecInit == Init => CodecInv
<1> SUFFICES ASSUME Init PROVE CodecInv
  OBVIOUS
<1>1. /\ pc = "idle" /\ table = <<>> /\ sTable = 1 /\ plain = TRUE
      /\ joined = <<>> /\ text = <<>> /\ pieces = <<>> /\ result = {}
  BY DEF Init
<1>2. TypeOK
  BY <1>1, CodecAssumption DEF TypeOK, i
<1>3. KeysDiffer /\ Stages
  BY <1>1 DEF KeysDiffer, Stages
<1> QED BY <1>2, <1>3 DEF CodecInv

(* The types of the loop over the table. *)
LEMMA GrowType ==
    ASSUME NEW n, NEW size \in Nat \ {0}
    PROVE  Grow(n, size) \in Nat \ {0}
BY DEF Grow

(* Storing an entry: its key is new. *)
LEMMA StoreKeeps ==
    ASSUME CodecInv, NEW k \in Keys, NEW v \in Values, Store(k, v)
    PROVE  CodecInv'
<1>1. /\ pc' = "packing" /\ table' = Append(table, <<k, v>>) /\ sTable' = Grow(i, sTable)
      /\ plain' = plain /\ joined' = joined /\ text' = text /\ pieces' = pieces /\ result' = result
      /\ pc \in {"idle", "packing"} /\ i < MaxEntries /\ \A n \in 1 .. Len(table) : table[n][1] # k
  BY DEF Store
<1>2. <<k, v>> \in Seq(Char) \X Seq(Char)
  BY CodecAssumption
<1>3. /\ table \in Seq(Seq(Char) \X Seq(Char)) /\ sTable \in Nat \ {0} /\ plain \in BOOLEAN
      /\ joined \in Seq(Seq(Char)) /\ text \in Seq(Char) \cup {Nil} /\ pieces \in Seq(Seq(Char))
      /\ result \subseteq Seq(Char) \X Seq(Char)
  BY DEF CodecInv, TypeOK
<1>4. PICK l : l = Len(table) /\ l \in Nat
  BY <1>3, LenProperties
<1>5. /\ table' \in Seq(Seq(Char) \X Seq(Char)) /\ Len(table') = l + 1 /\ table'[l + 1] = <<k, v>>
      /\ \A n \in 1 .. l : table'[n] = table[n]
  BY <1>1, <1>2, <1>3, <1>4, AppendProperties
<1>6. TypeOK'
  <2>1. sTable' \in Nat \ {0}
    BY <1>1, <1>3, GrowType
  <2>2. Len(table') <= MaxEntries
    BY <1>1, <1>4, <1>5, CodecAssumption DEF i
  <2> QED BY <1>1, <1>3, <1>5, <2>1, <2>2 DEF TypeOK, i
<1>7. KeysDiffer'
  <2> SUFFICES ASSUME NEW m \in 1 .. l + 1, NEW n \in 1 .. l + 1, m # n
               PROVE  table'[m][1] # table'[n][1]
    BY <1>5 DEF KeysDiffer
  <2>1. \A o \in 1 .. l + 1 : o \in 1 .. l \/ o = l + 1
    BY <1>4
  <2>2. \A o \in 1 .. l : table'[o][1] # k
    BY <1>1, <1>4, <1>5
  <2>3. table'[l + 1][1] = k
    BY <1>5
  <2>4. CASE m \in 1 .. l /\ n \in 1 .. l
    BY <1>4, <1>5, <2>4 DEF CodecInv, KeysDiffer
  <2> QED BY <2>1, <2>2, <2>3, <2>4
<1>8. Stages'
  BY <1>1 DEF CodecInv, Stages
<1> QED BY <1>6, <1>7, <1>8 DEF CodecInv

LEMMA ReadKeeps ==
    ASSUME CodecInv, Skip \/ Nested \/ NumberKey
    PROVE  CodecInv'
<1>1. /\ pc' \in {"packing", "crashed", "error"} /\ table' = table /\ sTable' = Grow(i, sTable)
      /\ plain' \in {plain, FALSE} /\ joined' = joined /\ text' = text /\ pieces' = pieces /\ result' = result
      /\ pc \in {"idle", "packing"}
  BY DEF Skip, Nested, NumberKey
<1>2. TypeOK'
  <2>1. sTable' \in Nat \ {0}
    BY <1>1, GrowType DEF CodecInv, TypeOK
  <2> QED BY <1>1, <2>1 DEF CodecInv, TypeOK, i
<1>3. KeysDiffer'
  BY <1>1 DEF CodecInv, KeysDiffer
<1>4. Stages'
  BY <1>1 DEF CodecInv, Stages
<1> QED BY <1>2, <1>3, <1>4 DEF CodecInv

LEMMA PackKeeps ==
    ASSUME CodecInv, Pack
    PROVE  CodecInv'
<1>1. /\ table' = table /\ sTable' = sTable /\ plain' = plain /\ joined' = joined
      /\ pieces' = pieces /\ result' = result /\ pc' \in {"packed", "crashed"}
  BY DEF Pack
<1>2. table \in Seq(Seq(Char) \X Seq(Char)) /\ Len(table) \in Nat
  BY LenProperties DEF CodecInv, TypeOK
<1>3. i = 0 <=> table = <<>>
  BY <1>2 DEF i
<1>4. \/ pc' = "crashed" /\ text' = text
      \/ pc' = "packed" /\ table = <<>> /\ text' = Nil
      \/ pc' = "packed" /\ table # <<>> /\ PackOf(text', table)
  <2>1. CASE pc' = "packed" /\ text' = IF i = 0 THEN Nil ELSE packData(table)
    BY <1>3, <2>1 DEF PackOf
  <2>2. CASE pc' = "packed" /\ i > 0 /\ \E g \in Char : text' = Append(packData(table), g)
    <3>1. i # 0
      BY <2>2 DEF i
    <3> QED BY <1>3, <2>2, <3>1 DEF PackOf
  <2>3. CASE (Overrun \/ FreesUnwritten) /\ pc' = "crashed" /\ UNCHANGED text
    BY <2>3
  <2> QED BY <2>1, <2>2, <2>3 DEF Pack
<1>5. text' \in Seq(Char) \cup {Nil}
  <2>1. CASE text' = text
    BY <2>1 DEF CodecInv, TypeOK
  <2>2. CASE text' = Nil
    BY <2>2
  <2>3. CASE table # <<>> /\ PackOf(text', table)
    <3>1. PICK t : t = text'
      OBVIOUS
    <3>2. t \in Seq(Char)
      BY <1>2, <2>3, <3>1, PackedIsText
    <3> QED BY <3>1, <3>2
  <2> QED BY <1>4, <2>1, <2>2, <2>3
<1>6. TypeOK'
  BY <1>1, <1>5 DEF CodecInv, TypeOK, i
<1>7. KeysDiffer'
  BY <1>1 DEF CodecInv, KeysDiffer
<1>8. Stages'
  <2>1. pc' = "packed" => IF table' = <<>> THEN text' = Nil ELSE PackOf(text', table')
    BY <1>1, <1>4
  <2> QED BY <1>1, <2>1 DEF Stages
<1> QED BY <1>6, <1>7, <1>8 DEF CodecInv

LEMMA JoinKeeps ==
    ASSUME CodecInv, JoinAddresses \/ JoinData
    PROVE  CodecInv'
<1>1. /\ pc = "idle" /\ table' = table /\ sTable' = sTable /\ plain' = plain
      /\ pieces' = pieces /\ result' = result
  BY DEF JoinAddresses, JoinData
<1>2. table = <<>>
  BY <1>1 DEF CodecInv, Stages
<1>3. /\ joined' \in Seq(Seq(Char)) /\ text' \in Seq(Char) \cup {Nil}
      /\ \/ pc' = "addresses" /\ text' = lua_join_addresses(joined')
         \/ /\ pc' = "data"
            /\ \E a, b \in Values, c \in {FSPLITTERCHAR, SPLITADDRCHAR} :
                  joined' = <<a, b>> /\ text' = join_data(a, b, c)
  <2>1. CASE JoinAddresses
    <3>1. PICK n \in 0 .. MaxJoined : \E xs \in [1 .. n -> Values] :
              joined' = xs /\ text' = lua_join_addresses(xs)
      BY <2>1 DEF JoinAddresses
    <3>2. PICK xs \in [1 .. n -> Values] : joined' = xs /\ text' = lua_join_addresses(xs)
      BY <3>1
    <3>3. xs \in Seq(Seq(Char))
      <4>1. n \in Nat
        BY CodecAssumption
      <4>2. xs = [m \in 1 .. n |-> xs[m]] /\ \A m \in 1 .. n : xs[m] \in Seq(Char)
        BY CodecAssumption
      <4>3. [m \in 1 .. n |-> xs[m]] \in Seq(Seq(Char))
        BY <4>1, <4>2
      <4> QED BY <4>2, <4>3, Zenon
    <3>4. lua_join_addresses(xs) \in Seq(Char) \cup {Nil}
      BY <3>3, JoinedIsText
    <3>5. pc' = "addresses"
      BY <2>1 DEF JoinAddresses
    <3> QED BY <3>2, <3>3, <3>4, <3>5
  <2>2. CASE JoinData
    <3>1. PICK a \in Values, b \in Values, c \in {FSPLITTERCHAR, SPLITADDRCHAR} :
              joined' = <<a, b>> /\ text' = join_data(a, b, c)
      BY <2>2 DEF JoinData
    <3>2. a \in Seq(Char) /\ b \in Seq(Char) /\ c \in Char
      BY <3>1, CodecAssumption DEF Char
    <3>3. join_data(a, b, c) \in Seq(Char)
      BY <3>2, DataIsText
    <3>4. <<a, b>> \in Seq(Seq(Char))
      BY <3>2
    <3>5. pc' = "data"
      BY <2>2 DEF JoinData
    <3> QED BY <3>1, <3>3, <3>4, <3>5
  <2> QED BY <2>1, <2>2
<1>4. TypeOK'
  BY <1>1, <1>3 DEF CodecInv, TypeOK, i
<1>5. KeysDiffer'
  BY <1>1 DEF CodecInv, KeysDiffer
<1>6. Stages'
  BY <1>1, <1>2, <1>3 DEF Stages
<1> QED BY <1>4, <1>5, <1>6 DEF CodecInv

LEMMA ReceiveKeeps ==
    ASSUME CodecInv, Receive
    PROVE  CodecInv'
<1>1. /\ pc = "idle" /\ pc' = "received" /\ text' \in Texts /\ table' = table /\ sTable' = sTable
      /\ plain' = plain /\ joined' = joined /\ pieces' = pieces /\ result' = result
  BY DEF Receive
<1>2. text' \in Seq(Char) /\ table = <<>>
  BY <1>1, CodecAssumption DEF CodecInv, Stages
<1>3. TypeOK'
  BY <1>1, <1>2 DEF CodecInv, TypeOK, i
<1>4. KeysDiffer' /\ Stages'
  BY <1>1, <1>2 DEF KeysDiffer, Stages
<1> QED BY <1>3, <1>4 DEF CodecInv

LEMMA UnpackKeeps ==
    ASSUME CodecInv, Unpack
    PROVE  CodecInv'
<1>1. /\ pc \in {"packed", "received"} /\ table' = table /\ sTable' = sTable /\ plain' = plain
      /\ joined' = joined /\ text' = text /\ pieces' = pieces
  BY DEF Unpack
<1>2. \/ text # Nil /\ pc' = "unpacked" /\ result' = Settable(unpackData(text))
      \/ text # Nil /\ ~ Balanced(text) /\ pc' = "error" /\ result' = result
      \/ pc' = "crashed" /\ result' = result
  BY DEF Unpack
<1>3. text # Nil => text \in Seq(Char) /\ (table # <<>> => PackOf(text, table))
  BY <1>1 DEF CodecInv, TypeOK, Stages
<1>4. result' \subseteq Seq(Char) \X Seq(Char)
  <2>1. CASE text # Nil /\ result' = Settable(unpackData(text))
    BY <1>3, <2>1, UnpackedType
  <2>2. CASE result' = result
    BY <2>2 DEF CodecInv, TypeOK
  <2> QED BY <1>2, <2>1, <2>2
<1>5. TypeOK'
  BY <1>1, <1>2, <1>4 DEF CodecInv, TypeOK, i
<1>6. KeysDiffer'
  BY <1>1 DEF CodecInv, KeysDiffer
<1>7. Stages'
  BY <1>1, <1>2, <1>3 DEF Stages
<1> QED BY <1>5, <1>6, <1>7 DEF CodecInv

LEMMA SplitKeeps ==
    ASSUME CodecInv, Split
    PROVE  CodecInv'
<1>1. /\ pc = "received" /\ pc' = "split" /\ pieces' = split_msg(text, SPLITADDRCHAR)
      /\ table' = table /\ sTable' = sTable /\ plain' = plain /\ joined' = joined
      /\ text' = text /\ result' = result
  BY DEF Split
<1>2. text \in Seq(Char) /\ table = <<>>
  BY <1>1 DEF CodecInv, Stages
<1>3. pieces' \in Seq(Seq(Char))
  BY <1>1, <1>2, PiecesAreTexts
<1>4. TypeOK'
  BY <1>1, <1>3 DEF CodecInv, TypeOK, i
<1>5. KeysDiffer' /\ Stages'
  BY <1>1, <1>2 DEF KeysDiffer, Stages
<1> QED BY <1>4, <1>5 DEF CodecInv

LEMMA ReturnKeeps ==
    ASSUME CodecInv, Return
    PROVE  CodecInv'
<1>1. /\ pc' = "idle" /\ table' = <<>> /\ sTable' = 1 /\ plain' = TRUE
      /\ joined' = <<>> /\ text' = <<>> /\ pieces' = <<>> /\ result' = {}
  BY DEF Return
<1>2. TypeOK'
  BY <1>1, CodecAssumption DEF TypeOK, i
<1>3. KeysDiffer' /\ Stages'
  BY <1>1 DEF KeysDiffer, Stages
<1> QED BY <1>2, <1>3 DEF CodecInv

LEMMA CodecStep == CodecInv /\ [Next]_vars => CodecInv'
<1> SUFFICES ASSUME CodecInv, [Next]_vars PROVE CodecInv'
  OBVIOUS
<1>1. CASE \E k \in Keys, v \in Values : Store(k, v)
  BY <1>1, StoreKeeps
<1>2. CASE Skip \/ Nested \/ NumberKey
  BY <1>2, ReadKeeps
<1>3. CASE Pack
  BY <1>3, PackKeeps
<1>4. CASE JoinAddresses \/ JoinData
  BY <1>4, JoinKeeps
<1>5. CASE Receive
  BY <1>5, ReceiveKeeps
<1>6. CASE Unpack
  BY <1>6, UnpackKeeps
<1>7. CASE Split
  BY <1>7, SplitKeeps
<1>8. CASE Return
  BY <1>8, ReturnKeeps
<1>9. CASE UNCHANGED vars
  BY <1>9 DEF vars, CodecInv, TypeOK, i, KeysDiffer, Stages
<1> QED BY <1>1, <1>2, <1>3, <1>4, <1>5, <1>6, <1>7, <1>8, <1>9 DEF Next

LEMMA CodecInvariant == Spec => []CodecInv
BY CodecInit, CodecStep, PTL DEF Spec

-----------------------------------------------------------------------------
LEMMA JoinsComeBack == CodecInv => SplitUndoesJoin
<1> SUFFICES ASSUME CodecInv, Len(joined) <= MaxPieces,
                    \A n \in 1 .. Len(joined) : Free(joined[n]) /\ CR \notin ToSet(joined[n])
             PROVE  /\ pc = "data" => split_msg(text, Last(text)) = joined
                    /\ pc = "addresses" /\ joined # <<>>
                         => split_msg(text, SPLITADDRCHAR) = Front(joined)
  BY DEF SplitUndoesJoin
<1>1. joined \in Seq(Seq(Char))
  BY DEF CodecInv, TypeOK
<1>2. \A n \in 1 .. Len(joined) : joined[n] \in Seq(Char)
  BY <1>1, ElementOfSeq
<1>3. ASSUME NEW n \in 1 .. Len(joined)
      PROVE  Lacks(joined[n], FSPLITTERCHAR) /\ Lacks(joined[n], SPLITADDRCHAR) /\ Lacks(joined[n], CR)
  <2>1. PICK x : x = joined[n] /\ x \in Seq(Char) /\ Free(x) /\ CR \notin ToSet(x)
    BY <1>2
  <2>2. DOMAIN x = 1 .. Len(x)
    BY <2>1, LenProperties
  <2>3. Lacks(x, CR)
    BY <2>1, <2>2 DEF ToSet, Lacks
  <2>4. Lacks(x, FSPLITTERCHAR) /\ Lacks(x, SPLITADDRCHAR)
    BY <2>1 DEF Free, Lacks
  <2> QED BY <2>1, <2>3, <2>4
<1>4. ASSUME pc = "data" PROVE split_msg(text, Last(text)) = joined
  <2>1. PICK a \in Values, b \in Values, c \in {FSPLITTERCHAR, SPLITADDRCHAR} :
            joined = <<a, b>> /\ text = join_data(a, b, c)
    BY <1>4 DEF CodecInv, Stages
  <2>2. a \in Seq(Char) /\ b \in Seq(Char) /\ c \in Char
    BY CodecAssumption DEF Char
  <2>3. Len(joined) = 2 /\ joined[1] = a /\ joined[2] = b
    BY <2>1
  <2>4. 1 \in 1 .. Len(joined) /\ 2 \in 1 .. Len(joined) /\ 2 <= MaxPieces
    BY <2>3
  <2>5. Lacks(a, c) /\ Lacks(b, c)
    BY <1>3, <2>3, <2>4
  <2> QED BY <2>1, <2>2, <2>4, <2>5, SplitOfData
<1>5. ASSUME pc = "addresses", joined # <<>>
      PROVE  split_msg(text, SPLITADDRCHAR) = Front(joined)
  <2>1. text = lua_join_addresses(joined)
    BY <1>5 DEF CodecInv, Stages
  <2> QED BY <1>1, <1>3, <1>5, <2>1, SplitOfAddresses
<1> QED BY <1>4, <1>5

LEMMA TableComesBack == CodecInv => RoundTrip
<1> SUFFICES ASSUME CodecInv, pc \in {"unpacked", "error"}, i > 0, text \notin {<<>>, Nil},
                    \A n \in 1 .. i : Free(table[n][1]) /\ Free(table[n][2]), ~ Stray
             PROVE  /\ pc = "unpacked"
                    /\ result \ {Missing}
                         = {table[n] : n \in 1 .. IF i <= MaxPieces THEN i ELSE MaxPieces} \ {Missing}
  BY DEF RoundTrip
<1>1. PICK l : l = Len(table) /\ l \in Nat /\ l > 0
  <2>1. Len(table) \in Nat
    BY LenProperties DEF CodecInv, TypeOK
  <2> QED BY <2>1 DEF i
<1>2. table \in Seq(Seq(Char) \X Seq(Char)) /\ table # <<>> /\ text \in Seq(Char)
  BY <1>1 DEF CodecInv, TypeOK
<1>3. /\ PackOf(text, table)
      /\ pc = "error" => ~ Balanced(text)
      /\ pc = "unpacked" => result = Settable(unpackData(text))
  BY <1>2 DEF CodecInv, Stages
<1>4. PICK d : Fields(text, table, d) /\ d[Len(table)] = Len(packData(table))
  BY <1>1, <1>2, <1>3, PackedFields
<1>5. Entries(table)
  <2>1. ASSUME NEW n \in 1 .. Len(table)
        PROVE  /\ table[n] = <<table[n][1], table[n][2]>>
               /\ table[n][1] \in Seq(Char) /\ table[n][2] \in Seq(Char)
    <3>1. table[n] \in Seq(Char) \X Seq(Char)
      BY <1>2, ElementOfSeq
    <3> QED BY <3>1
  <2> QED BY <2>1 DEF Entries, i
<1>6. NoStray(text, table, d)
  <2> SUFFICES ASSUME Len(text) = d[Len(table)] + 1
               PROVE  /\ text[d[Len(table)] + 1] # FSPLITTERCHAR
                      /\ text[d[Len(table)] + 1] # SPLITADDRCHAR
    BY DEF NoStray
  <2>1. PICK x : x = text[Len(text)]
    OBVIOUS
  <2>2. Len(text) > Len(packData(table))
    <3>1. Len(text) \in Nat
      BY <1>2, LenProperties
    <3>2. d[Len(table)] \in Nat
      BY <1>1, <1>2, <1>4, <3>1 DEF Fields
    <3> QED BY <1>4, <3>2
  <2>3. Free(<<x>>)
    BY <2>1, <2>2 DEF Stray, Last
  <2>4. 1 \in 1 .. Len(<<x>>) /\ <<x>>[1] = x
    OBVIOUS
  <2>5. x \notin {FSPLITTERCHAR, SPLITADDRCHAR}
    BY <2>3, <2>4 DEF Free
  <2> QED BY <2>1, <2>5
<1>7. pc = "unpacked"
  <2>1. Balanced(text)
    BY <1>1, <1>4, <1>5, <1>6, PackedIsBalanced
  <2> QED BY <1>3, <2>1
<1>8. \A m, n \in 1 .. l : m # n => table[m][1] # table[n][1]
  BY <1>1 DEF CodecInv, KeysDiffer
<1>9. Settable(unpackData(text)) \ {Missing} = {table[n] : n \in 1 .. Least(l, MaxPieces)} \ {Missing}
  BY <1>1, <1>4, <1>5, <1>8, PackedComesBack
<1>10. Least(l, MaxPieces) = IF i <= MaxPieces THEN i ELSE MaxPieces
  BY <1>1 DEF Least, i
<1> QED BY <1>3, <1>7, <1>9, <1>10

(* Whatever the tables, the texts and the limits: every variable of the    *)
(* codec keeps its type, so that packing, joining, splitting and unpacking *)
(* always end in a text, a list of texts or a set of pairs of texts.       *)
THEOREM CodecTypeCorrect == Spec => []TypeOK
<1>1. CodecInv => TypeOK
  BY DEF CodecInv
<1> QED BY <1>1, CodecInvariant, PTL

(* For every text received and every limit on the pieces: what split_msg   *)
(* returns covers the text up to the limit, each piece ended by the        *)
(* separator or, where none is left, by a carriage return.                 *)
THEOREM SplitTheorem == Spec => []SplitCoversText
<1>1. CodecInv => SplitCoversText
  <2>1. CASE pc = "split"
    BY <2>1, SplitCoversReceived DEF CodecInv, Stages
  <2>2. CASE pc # "split"
    BY <2>2 DEF SplitCoversText
  <2> QED BY <2>1, <2>2
<1> QED BY <1>1, CodecInvariant, PTL

(* For every text unpackData accepts: each pair of the Lua table stands in *)
(* the text, and it is the first field with its key.                       *)
THEOREM FirstValueTheorem == Spec => []FirstValueCounts
<1>1. CodecInv => FirstValueCounts
  <2>1. CASE pc = "unpacked"
    BY <2>1, FirstValueStands DEF CodecInv, Stages
  <2>2. CASE pc # "unpacked"
    BY <2>2 DEF FirstValueCounts
  <2> QED BY <2>1, <2>2
<1> QED BY <1>1, CodecInvariant, PTL

(* For every list of addresses and every two texts without separators and  *)
(* carriage returns: split_msg gives back what join_data joined, and all   *)
(* but the last of what join_addresses joined.                             *)
THEOREM JoinTheorem == Spec => []SplitUndoesJoin
BY JoinsComeBack, CodecInvariant, PTL

(* For every table whose keys and values hold no separator, with any byte  *)
(* of the heap behind the text but a separator: unpackData accepts what    *)
(* packData wrote and returns the table, as far as split_msg counts.       *)
THEOREM RoundTripTheorem == Spec => []RoundTrip
BY TableComesBack, CodecInvariant, PTL
===============================================================================
