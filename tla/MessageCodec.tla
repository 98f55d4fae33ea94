----------------------------- MODULE MessageCodec -----------------------------
(***************************************************************************)
(* The texts the peers exchange (src/libbacteria/net.c) and their Lua      *)
(* binding (src/libbacteria/lua/libnet.c): a table is packed into          *)
(* "key=value;" fields and unpacked again, addresses are joined and split  *)
(* at ';'.                                                                 *)
(*                                                                         *)
(* A text is a sequence of characters.  The characters that matter are the *)
(* two separators, the carriage return that split_msg falls back to and    *)
(* the byte that stands for a missing field; the others are Letters.       *)
(* Memory matters in two places: packData writes its terminator one place  *)
(* too far, so that one byte of the heap may follow the last field, and    *)
(* the binding grows its two arrays of pointers by a rule of its own, so   *)
(* that their size, what was written and what is freed are followed.       *)
(***************************************************************************)
EXTENDS Integers, Sequences, FiniteSets, SequencesExt

CONSTANTS Letters,     \* characters without a meaning
          Keys,        \* the keys of tables
          Values,      \* the values of tables, and the texts joined
          Texts,       \* the texts received
          MaxPieces,   \* max_splitted, 120 in the code
          MaxEntries,  \* bound on the entries of a table
          MaxJoined    \* bound on the addresses joined

FSPLITTERCHAR == "="
SPLITADDRCHAR == ";"
CR == "r"
IGNOREINFOBYTE == "i"
Char == Letters \cup {FSPLITTERCHAR, SPLITADDRCHAR, CR, IGNOREINFOBYTE}

ASSUME CodecAssumption ==
    /\ Keys \subseteq Seq(Char) /\ Values \subseteq Seq(Char) /\ Texts \subseteq Seq(Char)
    /\ MaxPieces \in Nat \ {0}
    /\ MaxEntries \in Nat /\ MaxJoined \in Nat

VARIABLES pc,      \* what the caller has got so far
          table,   \* the entries dataKeys and dataValues hold, in the order of lua_next
          sTable,  \* the size the two arrays were last given
          plain,   \* every entry so far was a string or a number
          joined,  \* the texts last joined
          text,    \* the packed, joined or received text, or Nil
          pieces,  \* what split_msg returned
          result   \* the Lua table unpackData returned: a set of pairs

vars == <<pc, table, sTable, plain, joined, text, pieces, result>>

(* The Lua value nil, where a text is expected. *)
Nil == <<"nil">>

(* i of lnet.packData: the entries stored, and the place of the terminator. *)
i == Len(table)

Init ==
    /\ pc = "idle"
    /\ table = <<>> /\ sTable = 1 /\ plain = TRUE
    /\ joined = <<>> /\ text = <<>> /\ pieces = <<>> /\ result = {}
-----------------------------------------------------------------------------
(* The places of c in s from place p on; the first of them, or 0. *)
Places(s, c, p) == {n \in p .. Len(s) : s[n] = c}
strchr(s, c, p) ==
    IF Places(s, c, p) = {} THEN 0
    ELSE CHOOSE n \in Places(s, c, p) : \A m \in Places(s, c, p) : n <= m

(* Mutant of split_msg: a carriage return always separates. *)
split_msgCR(s, c) ==
    LET from[p \in 1 .. Len(s) + 1] ==
            LET cr == strchr(s, CR, p)
                str == IF cr # 0 THEN cr ELSE strchr(s, c, p)
            IN  IF str = 0 THEN <<>> ELSE <<SubSeq(s, p, str - 1)>> \o from[str + 1]
    IN  from[1]

(* Mutant of split_msg: what follows the last separator is a piece too. *)
split_msgRest(s, c) ==
    LET from[p \in 1 .. Len(s) + 1] ==
            LET str == strchr(s, c, p)
            IN  IF str = 0 THEN <<SubSeq(s, p, Len(s))>>
                ELSE <<SubSeq(s, p, str - 1)>> \o from[str + 1]
    IN  from[1]

(* split_msg: the text before each separator, at most max_splitted pieces. *)
(* Where no separator follows, a carriage return is taken for one; what    *)
(* follows the last is no piece.                                           *)
split_msg(s, c) ==
    LET from[p \in 1 .. Len(s) + 1] ==
            LET str == IF strchr(s, c, p) # 0 THEN strchr(s, c, p) ELSE strchr(s, CR, p)
            IN  IF str = 0 THEN <<>> ELSE <<SubSeq(s, p, str - 1)>> \o from[str + 1]
        all == from[1]
    IN  IF Len(all) <= MaxPieces THEN all ELSE SubSeq(all, 1, MaxPieces)

(* packData: the fields one after the other. *)
Field(e) == e[1] \o <<FSPLITTERCHAR>> \o e[2] \o <<SPLITADDRCHAR>>
packData(es) == FlattenSeq([n \in 1 .. Len(es) |-> Field(es[n])])

(* One piece of a packed text.  A piece without '=' becomes IGNOREINFOBYTE *)
(* twice; no terminator follows the byte, so it stands for every text that *)
(* begins with it.                                                         *)
Missing == <<<<IGNOREINFOBYTE>>, <<IGNOREINFOBYTE>>>>
Pair(s) ==
    LET fs == strchr(s, FSPLITTERCHAR, 1)
    IN  IF fs = 0 THEN Missing
        ELSE <<SubSeq(s, 1, fs - 1), SubSeq(s, fs + 1, Len(s))>>

(* unpackData refuses a text in which the separators are not equally many. *)
Balanced(s) ==
    Cardinality(Places(s, FSPLITTERCHAR, 1)) = Cardinality(Places(s, SPLITADDRCHAR, 1))

(* Mutant of unpackData: the pairs are returned in the order of the text. *)
unpackDataForward(s) ==
    LET ss == split_msg(s, SPLITADDRCHAR)
    IN  [n \in 1 .. Len(ss) |-> Pair(ss[n])]

(* unpackData: the pairs, the last one first. *)
unpackData(s) ==
    LET ss == split_msg(s, SPLITADDRCHAR)
    IN  Reverse([n \in 1 .. Len(ss) |-> Pair(ss[n])])

(* The pairs entered into a Lua table one after the other: a later one     *)
(* replaces an earlier one of the same key.                                *)
Settable(ps) ==
    {ps[n] : n \in {m \in 1 .. Len(ps) : \A o \in m + 1 .. Len(ps) : ps[o][1] # ps[m][1]}}

(* Mutant of join_data: no separator after the second text. *)
join_dataBetween(a, b, c) == a \o <<c>> \o b

(* join_data puts the separator after both texts, join_addresses between   *)
(* them; the binding joins the first two addresses, the result with the    *)
(* third, and so on.                                                       *)
join_data(a, b, c) == a \o <<c>> \o b \o <<c>>
join_addresses(a, b) == a \o <<SPLITADDRCHAR>> \o b
lua_join_addresses(addrs) ==
    IF addrs = <<>> THEN Nil ELSE FoldLeft(join_addresses, Head(addrs), Tail(addrs))
-----------------------------------------------------------------------------
(* The pointers an array of 8 * size + 1 bytes has room for: glibc rounds  *)
(* a chunk with its header of 8 bytes up to a multiple of 16.              *)
Slots(size) == ((8 * size + 1 + 8 + 15) \div 16) * 2 - 1

(* Mutants of Grow: too late, and in the wrong direction. *)
GrowLate(n, size) == IF n > size + 1 THEN size + 2 ELSE size
GrowShrinks(n, size) == IF n > size THEN size - 2 ELSE size

(* Room for the next entry is made when i has passed the size. *)
Grow(n, size) == IF n > size THEN size + 2 ELSE size

(* lnet.packData, one turn of the loop over the table: strings and numbers *)
(* are stored as text.                                                     *)
Store(k, v) ==
    /\ pc \in {"idle", "packing"}
    /\ i < MaxEntries
    /\ \A n \in 1 .. Len(table) : table[n][1] # k
    /\ pc' = "packing"
    /\ table' = Append(table, <<k, v>>)
    /\ sTable' = Grow(i, sTable)
    /\ UNCHANGED <<plain, joined, text, pieces, result>>

(* A boolean, function or userdata is left out, after room was made for    *)
(* it.                                                                     *)
Skip ==
    /\ pc \in {"idle", "packing"}
    /\ i < MaxEntries
    /\ pc' = "packing"
    /\ sTable' = Grow(i, sTable)
    /\ plain' = FALSE
    /\ UNCHANGED <<table, joined, text, pieces, result>>

(* The value of a nested table stays on the stack, and lua_next is called  *)
(* on the key below it.                                                    *)
Nested ==
    /\ pc \in {"idle", "packing"}
    /\ i < MaxEntries
    /\ pc' = "crashed"
    /\ sTable' = Grow(i, sTable)
    /\ plain' = FALSE
    /\ UNCHANGED <<table, joined, text, pieces, result>>

(* The key of an entry is a number: lua_tostring makes it a string on the  *)
(* stack, which lua_next does not find in the table.                       *)
NumberKey ==
    /\ pc \in {"idle", "packing"}
    /\ i < MaxEntries
    /\ pc' = "error"
    /\ sTable' = Grow(i, sTable)
    /\ UNCHANGED <<table, plain, joined, text, pieces, result>>

(* The loop has written past its arrays, or frees dataKeys[0 .. sTable]    *)
(* where only 0 .. i were written.                                         *)
Overrun == i >= Slots(sTable)
FreesUnwritten == sTable > i

(* packData puts its terminator behind a block of one byte more than the   *)
(* text: it spills into the size of the next chunk when the block fills    *)
(* its own, of 24 bytes, 40, 56 and so on.                                 *)
Spills == Len(packData(table)) >= 23 /\ Len(packData(table)) % 16 = 7

(* The terminator, packData and the frees.  An empty table packs to nil.   *)
(* One byte of the heap may follow the text.  A crash that the broken heap *)
(* leads to later is taken to happen here.                                 *)
Pack ==
    /\ pc \in {"idle", "packing"}
    /\ \/ /\ pc' = "packed"
          /\ \/ text' = IF i = 0 THEN Nil ELSE packData(table)
             \/ i > 0 /\ \E g \in Char : text' = Append(packData(table), g)
       \/ (Overrun \/ FreesUnwritten \/ Spills) /\ pc' = "crashed" /\ UNCHANGED text
    /\ UNCHANGED <<table, sTable, plain, joined, pieces, result>>

(* lnet.join_addresses and lnet.join_data. *)
JoinAddresses ==
    /\ pc = "idle"
    /\ \E n \in 0 .. MaxJoined : \E addrs \in [1 .. n -> Values] :
          joined' = addrs /\ text' = lua_join_addresses(addrs)
    /\ pc' = "addresses"
    /\ UNCHANGED <<table, sTable, plain, pieces, result>>

JoinData ==
    /\ pc = "idle"
    /\ \E a, b \in Values, c \in {FSPLITTERCHAR, SPLITADDRCHAR} :
          joined' = <<a, b>> /\ text' = join_data(a, b, c)
    /\ pc' = "data"
    /\ UNCHANGED <<table, sTable, plain, pieces, result>>

(* A text that came over the network. *)
Receive ==
    /\ pc = "idle"
    /\ text' \in Texts
    /\ pc' = "received"
    /\ UNCHANGED <<table, sTable, plain, joined, pieces, result>>

(* lnet.unpackData.  The length that sizes the result is read              *)
(* uninitialised: the result may not fit, and the process may crash.       *)
Unpack ==
    /\ pc \in {"packed", "received"}
    /\ \/ text # Nil /\ Balanced(text) /\ pc' = "unpacked" /\ result' = Settable(unpackData(text))
       \/ text # Nil /\ ~ Balanced(text) /\ pc' = "error" /\ UNCHANGED result
       \/ (text = Nil \/ Balanced(text)) /\ pc' = "crashed" /\ UNCHANGED result
    /\ UNCHANGED <<table, sTable, plain, joined, text, pieces>>

(* split::split of the client, on a list of addresses. *)
Split ==
    /\ pc = "received"
    /\ pieces' = split_msg(text, SPLITADDRCHAR)
    /\ pc' = "split"
    /\ UNCHANGED <<table, sTable, plain, joined, text, result>>

(* The call returns to its script.  free_splitted frees every piece but    *)
(* the last and those before an empty one; what leaks is not followed.     *)
Return ==
    /\ pc \in {"packed", "addresses", "data", "unpacked", "split", "error"}
    /\ pc' = "idle"
    /\ table' = <<>> /\ sTable' = 1 /\ plain' = TRUE
    /\ joined' = <<>> /\ text' = <<>> /\ pieces' = <<>> /\ result' = {}

Next ==
    \/ \E k \in Keys, v \in Values : Store(k, v)
    \/ Skip \/ Nested \/ NumberKey \/ Pack
    \/ JoinAddresses \/ JoinData \/ Receive \/ Unpack \/ Split \/ Return

Spec == Init /\ [][Next]_vars
-----------------------------------------------------------------------------
TypeOK ==
    /\ pc \in {"idle", "packing", "packed", "addresses", "data", "received",
               "unpacked", "split", "error", "crashed"}
    /\ table \in Seq(Seq(Char) \X Seq(Char)) /\ i <= MaxEntries
    /\ sTable \in Nat \ {0} /\ plain \in BOOLEAN
    /\ joined \in Seq(Seq(Char)) /\ text \in Seq(Char) \cup {Nil}
    /\ pieces \in Seq(Seq(Char))
    /\ result \subseteq Seq(Char) \X Seq(Char)

(* The arrays of lnet.packData always have room for the terminator, which  *)
(* they owe to the rounding of malloc; and when no entry was left out,     *)
(* every pointer that is freed in the end was written.                     *)
PackingIsSafe == pc = "packing" => ~ Overrun /\ (plain => ~ FreesUnwritten)

(* Unpacking what was packed gives the table back, as far as split_msg     *)
(* counts, when no key or value holds a separator and the stray byte is    *)
(* none.  A carriage return in a value does no harm; as the stray byte it  *)
(* adds a field that is missing.                                           *)
Free(s) == \A n \in 1 .. Len(s) : s[n] \notin {FSPLITTERCHAR, SPLITADDRCHAR}
Stray == Len(text) > Len(packData(table)) /\ ~ Free(<<Last(text)>>)
RoundTrip ==
    pc \in {"unpacked", "error"} /\ i > 0 /\ text \notin {<<>>, Nil}
          /\ (\A n \in 1 .. i : Free(table[n][1]) /\ Free(table[n][2])) /\ ~ Stray
        => /\ pc = "unpacked"
           /\ result \ {Missing} = {table[n] : n \in 1 .. IF i <= MaxPieces THEN i ELSE MaxPieces} \ {Missing}

(* Every pair unpackData returns stands in the text, and where a key       *)
(* stands twice the first value counts: the reversed order of the pairs    *)
(* and the overwriting in the Lua table cancel out.                        *)
FieldAt(k, v, p) ==
    LET f == k \o <<FSPLITTERCHAR>> \o v
    IN  /\ p = 1 \/ text[p - 1] \in {SPLITADDRCHAR, CR}
        /\ p + Len(f) <= Len(text) /\ SubSeq(text, p, p + Len(f) - 1) = f
        /\ text[p + Len(f)] \in {SPLITADDRCHAR, CR}
KeyAt(k, p) ==
    LET f == k \o <<FSPLITTERCHAR>>
    IN  /\ p = 1 \/ text[p - 1] = SPLITADDRCHAR
        /\ SubSeq(text, p, p + Len(f) - 1) = f
FirstValueCounts ==
    pc = "unpacked" =>
        \A e \in result \ {Missing} : \E p \in 1 .. Len(text) :
            /\ FieldAt(e[1], e[2], p)
            /\ \A q \in 1 .. p - 1 : ~ KeyAt(e[1], q)

(* What split_msg returns covers the text: each piece is followed by its   *)
(* separator, or by a carriage return where no separator is left, and what *)
(* remains has neither, unless there are as many pieces as it returns.     *)
End[n \in 0 .. Len(pieces)] == IF n = 0 THEN 0 ELSE End[n - 1] + Len(pieces[n]) + 1
SplitCoversText ==
    pc = "split" =>
        /\ \A n \in 1 .. Len(pieces) :
              /\ End[n] <= Len(text)
              /\ SubSeq(text, End[n - 1] + 1, End[n] - 1) = pieces[n]
              /\ Places(pieces[n], SPLITADDRCHAR, 1) = {}
              /\ \/ text[End[n]] = SPLITADDRCHAR
                 \/ text[End[n]] = CR /\ Places(text, SPLITADDRCHAR, End[n]) = {}
        /\ \/ Len(pieces) = MaxPieces
           \/ \A n \in End[Len(pieces)] + 1 .. Len(text) : text[n] \notin {SPLITADDRCHAR, CR}

(* Splitting undoes joining: join_data's two texts come back, and of the   *)
(* addresses joined all but the last, which no separator follows.          *)
SplitUndoesJoin ==
    Len(joined) <= MaxPieces /\ (\A n \in 1 .. Len(joined) : Free(joined[n]) /\ CR \notin ToSet(joined[n])) =>
        /\ pc = "data" => split_msg(text, Last(text)) = joined
        /\ pc = "addresses" /\ joined # <<>> => split_msg(text, SPLITADDRCHAR) = Front(joined)
=============================================================================
