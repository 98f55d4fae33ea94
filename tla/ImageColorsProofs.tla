--------------------------- MODULE ImageColorsProofs ---------------------------
(***************************************************************************)
(* Proofs about the colour table, for every size of the table, every set   *)
(* of names and every number of images: the count stays within its bound,  *)
(* and the colour found under a name that fits is the one added last.      *)
(***************************************************************************)
EXTENDS ImageColors, FiniteSetTheorems, TLAPS

Hits(n) == {i \in Entries : Matches(colors[i], n)}

(* The latest entry of a short name n has the colour added last, and there *)
(* is none if none was added.                                              *)
LatestEntry(n) ==
    \/ Hits(n) = {} /\ latest[n] = 0
    \/ \E k \in Hits(n) : /\ \A j \in Hits(n) : j <= k
                          /\ colors[k].color = latest[n]

TableInv ==
    /\ CountBounded /\ adjacent \in BOOLEAN
    /\ colors = [i \in 0 .. MAXCOLORS |-> colors[i]]
    /\ latest = [n \in Names |-> latest[n]]
    /\ intact => cColors <= MAXCOLORS /\ \A n \in Names \ Long : LatestEntry(n)

(* The empty table satisfies the invariant. *)
LEMMA TableInit == Init => TableInv
<1> SUFFICES ASSUME Init PROVE TableInv
  OBVIOUS
<1>1. Entries = {}
  BY ColorAssumption DEF Init, Entries
<1>2. \A n \in Names : Hits(n) = {} /\ latest[n] = 0
  BY <1>1 DEF Init, Hits, NoneAdded
<1> QED BY <1>2, ColorAssumption DEF Init, TableInv, CountBounded, LatestEntry, NoneAdded

(* Actions that leave the table alone keep the invariant. *)
LEMMA TableUnchanged == TableInv /\ UNCHANGED tableVars => TableInv'
<1> SUFFICES ASSUME TableInv, UNCHANGED tableVars PROVE TableInv'
  OBVIOUS
<1>1. /\ colors' = colors /\ cColors' = cColors /\ adjacent' = adjacent
      /\ intact' = intact /\ latest' = latest
  BY DEF tableVars
<1>2. Entries' = Entries
  BY <1>1 DEF Entries
<1>3. \A n : Hits(n)' = Hits(n)
  BY <1>1, <1>2 DEF Hits
<1>4. \A n : LatestEntry(n)' <=> LatestEntry(n)
  BY <1>1, <1>3 DEF LatestEntry
<1> QED BY <1>1, <1>4 DEF TableInv, CountBounded

(* A colour that is set behind the entries in use changes none of them. *)
LEMMA SetBehind ==
    ASSUME TableInv, NEW o \in Objs, NEW i \in 0 .. MAXCOLORS, NEW m \in Names,
           SetColor(o, i, m)
    PROVE  TableInv'
<1>1. CountBounded' /\ adjacent' \in BOOLEAN
  BY ColorAssumption DEF TableInv, SetColor, CountBounded, CountAfter
<1>2. colors' = [j \in 0 .. MAXCOLORS |-> colors'[j]]
  BY DEF TableInv, SetColor, gdSetColor
<1>3. latest' = [n \in Names |-> latest'[n]]
  BY DEF TableInv, SetColor, NoneAdded
<1>4. ASSUME intact'
      PROVE  cColors' <= MAXCOLORS /\ \A n \in Names \ Long : LatestEntry(n)'
  <2>1. intact /\ cColors <= i /\ i < MAXCOLORS /\ latest' = latest
    BY <1>4 DEF SetColor
  <2>2. cColors' = cColors
    BY <2>1, ColorAssumption DEF SetColor, CountAfter
  <2> DEFINE e == Entry(m, Allocated(gd[o]))
  <2>a. colors' = [colors EXCEPT ![i] = e] /\ colors = [j \in 0 .. MAXCOLORS |-> colors[j]]
    BY DEF SetColor, gdSetColor, TableInv
  <2>b. \A j \in Entries : j \in 0 .. MAXCOLORS /\ j # i
    <3>1. cColors \in 0 .. 255
      BY DEF TableInv, CountBounded
    <3>2. MAXCOLORS \in Nat
      BY ColorAssumption
    <3> QED BY <2>1, <3>1, <3>2 DEF Entries
  <2> HIDE DEF e
  <2>3. \A j \in Entries : colors'[j] = colors[j]
    BY <2>a, <2>b
  <2>4. Entries' = Entries
    BY <2>2 DEF Entries
  <2>5. \A n : Hits(n)' = Hits(n)
    BY <2>3, <2>4 DEF Hits
  <2>6. \A n \in Names \ Long : LatestEntry(n)'
    BY <2>1, <2>3, <2>5 DEF LatestEntry, TableInv, Hits
  <2> QED BY <2>1, <2>2, <2>6 DEF TableInv
<1> QED BY <1>1, <1>2, <1>3, <1>4 DEF TableInv

(* A colour that is added becomes the latest entry of its name. *)
LEMMA AddLatest ==
    ASSUME TableInv, NEW o \in Objs, NEW m \in Names, AddColor(o, m)
    PROVE  TableInv'
<1> DEFINE c == Allocated(gd[o])
<1>0. cColors \in 0 .. MAXCOLORS /\ MAXCOLORS \in 1 .. 254
  <2>1. InTable(cColors) /\ cColors \in 0 .. 255
    BY DEF AddColor, TableInv, CountBounded
  <2> QED BY <2>1, ColorAssumption DEF InTable
<1>1. CountBounded' /\ adjacent' \in BOOLEAN
  <2>1. CountAfter(cColors, m) \in 0 .. 255 /\ adjacent' = adjacent
    BY <1>0, ColorAssumption DEF CountAfter, AddColor
  <2>2. CASE adjacent
    <3>1. cColors' \in 0 .. 255
      BY <2>1 DEF AddColor
    <3> QED BY <2>1, <2>2, <3>1 DEF CountBounded, TableInv
  <2>3. CASE ~adjacent
    <3>1. cColors' = (cColors + 1) % 256
      BY <2>3 DEF AddColor, CountAfter
    <3>2. cColors' = cColors + 1
      BY <1>0, <3>1
    <3>3. cColors' \in 0 .. 255 /\ cColors' <= MAXCOLORS + 1
      BY <1>0, <3>2
    <3> QED BY <2>1, <3>3 DEF CountBounded, TableInv
  <2> QED BY <2>2, <2>3
<1>2. colors' = [j \in 0 .. MAXCOLORS |-> colors'[j]]
  BY DEF TableInv, AddColor, gdSetColor
<1>3. latest' = [n \in Names |-> latest'[n]]
  BY DEF TableInv, AddColor, NoneAdded
<1>4. ASSUME intact'
      PROVE  cColors' <= MAXCOLORS /\ \A n \in Names \ Long : LatestEntry(n)'
  <2>1. intact /\ cColors < MAXCOLORS /\ latest' = [latest EXCEPT ![m] = c]
    BY <1>4 DEF AddColor
  <2>2. cColors' = (cColors + 1) % 256
    BY <1>0, <2>1 DEF AddColor, CountAfter
  <2>3. cColors' = cColors + 1
    BY <1>0, <2>1, <2>2
  <2>4. /\ colors'[cColors] = Entry(m, c)
        /\ \A j \in Entries : colors'[j] = colors[j]
    BY <1>0, <2>1 DEF AddColor, gdSetColor, TableInv, Entries
  <2>5. Entries' = Entries \cup {cColors}
    BY <1>0, <2>1, <2>3 DEF Entries
  <2>6. \A j \in Entries : j < cColors
    BY DEF Entries
  <2> HIDE DEF c
  <2>7. Entry(m, c).color = c /\ \A n \in Names \ Long : Matches(Entry(m, c), n) <=> n = m
    BY DEF Entry, Matches
  <2>8. ASSUME m \notin Long PROVE LatestEntry(m)'
    <3>1. Hits(m)' = Hits(m) \cup {cColors}
      BY <1>0, <2>4, <2>5, <2>6, <2>7, <2>8 DEF Hits
    <3>2. \A j \in Hits(m)' : j <= cColors
      BY <1>0, <2>6, <3>1 DEF Hits, Entries
    <3>3. colors'[cColors].color = latest'[m]
      BY <2>1, <2>4, <2>7 DEF TableInv
    <3> QED BY <3>1, <3>2, <3>3 DEF LatestEntry
  <2>9. ASSUME NEW n \in Names \ Long, n # m PROVE LatestEntry(n)'
    <3>1. Hits(n)' = Hits(n)
      BY <2>4, <2>5, <2>7, <2>9 DEF Hits
    <3>2. latest'[n] = latest[n]
      BY <2>1, <2>9 DEF TableInv
    <3>3. \A j \in Hits(n) : colors'[j] = colors[j]
      BY <2>4 DEF Hits
    <3>4. LatestEntry(n)
      BY <2>1 DEF TableInv
    <3> QED BY <3>1, <3>2, <3>3, <3>4 DEF LatestEntry
  <2> QED BY <1>0, <2>1, <2>3, <2>8, <2>9
<1> QED BY <1>1, <1>2, <1>3, <1>4 DEF TableInv

(* Every call of a script keeps it. *)
LEMMA TableStep == TableInv /\ [Next]_vars => TableInv'
<1> SUFFICES ASSUME TableInv, [Next]_vars PROVE TableInv'
  OBVIOUS
<1>1. CASE UNCHANGED vars
  BY <1>1, TableUnchanged DEF vars
<1>2. ASSUME NEW o \in Objs, NEW n \in Names, AddColor(o, n) PROVE TableInv'
  BY <1>2, AddLatest
<1>3. ASSUME NEW o \in Objs, NEW n \in Names, NEW i \in 0 .. MAXCOLORS, SetColor(o, i, n)
      PROVE  TableInv'
  BY <1>3, SetBehind
<1>4. ASSUME NEW o \in Objs, \/ InitImage(o) \/ InitImageFromFile(o) \/ ReopenFromFile(o)
                             \/ \E h \in Made : SetGD(o, h)
                             \/ GdFree(o) \/ UseBroken(o) \/ writeToFile(o) \/ GetColor(o)
                             \/ \E r \in Ranges : DrawRandomPixels(o, r)
                             \/ \E k \in Counts : DrawRandomLines(o, k)
      PROVE  TableInv'
  <2>1. UNCHANGED tableVars
    BY <1>4 DEF InitImage, InitImageFromFile, ReopenFromFile, NewImage, SetGD, GdFree,
                UseBroken, writeToFile, Crash, GetColor, DrawRandomPixels, DrawRandomLines
  <2> QED BY <2>1, TableUnchanged
<1>5. ASSUME gdGetRandStr \/ Roll \/ Stroke PROVE TableInv'
  <2>1. UNCHANGED tableVars
    BY <1>5 DEF gdGetRandStr, Crash, Roll, Stroke
  <2> QED BY <2>1, TableUnchanged
<1> QED BY <1>1, <1>2, <1>3, <1>4, <1>5 DEF Next

(* The colour table of images.c keeps its invariant: typed, counted within *)
(* its bound and, while intact, holding the latest colour of a short name. *)
THEOREM TableInvariant == Spec => []TableInv
BY TableInit, TableStep, PTL DEF Spec

(* The count of gdAddColor never gets further than one past the table,     *)
(* unless the counter itself is what the overrun writes to.                *)
THEOREM CountTheorem == Spec => []CountBounded
<1>1. TableInv => CountBounded
  BY DEF TableInv
<1> QED BY <1>1, TableInvariant, PTL

(* gdFoundColor gives the colour that gdAddColor stored last under a name  *)
(* that fits its entry, while the table is intact, among whatever names    *)
(* strncpy has left without an end.                                        *)
THEOREM FoundTheorem == Spec => []FoundIsLatest
<1>1. ASSUME TableInv, intact, NEW n \in Names \ Long PROVE gdFoundColor(n) = latest[n]
  <2>1. LatestEntry(n)
    BY <1>1 DEF TableInv
  <2>2. CASE Hits(n) = {} /\ latest[n] = 0
    BY <2>2 DEF gdFoundColor, Hits
  <2>3. ASSUME NEW k \in Hits(n), \A j \in Hits(n) : j <= k, colors[k].color = latest[n]
        PROVE  gdFoundColor(n) = latest[n]
    <3>1. Hits(n) # {} /\ \A j \in Hits(n) : j \in Int
      BY <2>3 DEF Hits, Entries
    <3>2. Max(Hits(n)) = k
      BY <2>3, <3>1 DEF Max
    <3> QED BY <2>3, <3>1, <3>2 DEF gdFoundColor, Hits
  <2> QED BY <2>1, <2>2, <2>3 DEF LatestEntry
<1>2. TableInv => FoundIsLatest
  BY <1>1 DEF FoundIsLatest
<1> QED BY <1>2, TableInvariant, PTL
-----------------------------------------------------------------------------
(* What struct image may hold. *)
Struct == [im : {"palette", "true", "null", "freed"}, width : Nat, used : 1 .. Palette]

EntrySet == [name : Names \cup {""} \cup {Stem[n] : n \in Long}, ended : BOOLEAN,
             color : -2 .. Palette]

(* Images are numbered in the order of their creation, and are never       *)
(* forgotten.                                                              *)
ImageInv ==
    /\ \E n \in 0 .. MaxImages : image \in [1 .. n -> Struct]
    /\ gd \in [Objs -> Made \cup {Nil, True}]
    /\ colors \in [0 .. MAXCOLORS -> EntrySet]
    /\ draw.op \in {"none", "roll", "strokes"}
    /\ process \in {"running", "crashed"}

(* No image, and blank entries, at first. *)
LEMMA ImageInit == Init => ImageInv
<1> SUFFICES ASSUME Init PROVE ImageInv
  OBVIOUS
<1>1. image \in [1 .. 0 -> Struct] /\ 0 \in 0 .. MaxImages
  BY ColorAssumption DEF Init
<1>2. Blank \in EntrySet
  BY ColorAssumption DEF Blank, EntrySet
<1>3. draw.op = "none"
  BY DEF Init, NoDraw
<1> QED BY <1>1, <1>2, <1>3 DEF Init, ImageInv

(* How many images there are. *)
LEMMA MadeCount ==
    ASSUME NEW n \in Nat, image \in [1 .. n -> Struct]
    PROVE  Made = 1 .. n /\ Cardinality(Made) = n
<1>1. Made = 1 .. n
  BY DEF Made
<1>2. Cardinality(1 .. n) = n
  BY FS_Interval
<1> QED BY <1>1, <1>2

(* A new image gets the next number, and the object its number or true. *)
LEMMA NewImageKeeps ==
    ASSUME ImageInv, NEW o \in Objs, NEW i \in Struct,
           NEW h \in {Cardinality(Made) + 1, True}, NewImage(o, h, i)
    PROVE  ImageInv'
<1>1. PICK n \in 0 .. MaxImages : image \in [1 .. n -> Struct]
  BY DEF ImageInv
<1>2. Made = 1 .. n /\ Cardinality(Made) = n
  BY <1>1, MadeCount
<1>3. n + 1 \in 0 .. MaxImages
  BY <1>2, ColorAssumption DEF NewImage
<1>4. image' \in [1 .. n + 1 -> Struct]
  <2>1. Made \cup {Cardinality(Made) + 1} = 1 .. n + 1
    BY <1>2
  <2>2. image' = [j \in 1 .. n + 1 |-> IF j \in 1 .. n THEN image[j] ELSE i]
    BY <1>2, <2>1 DEF NewImage
  <2> QED BY <1>1, <2>2
<1>5. Made' = 1 .. n + 1
  BY <1>4 DEF Made
<1>6. gd' \in [Objs -> Made' \cup {Nil, True}]
  <2>1. h \in Made' \cup {Nil, True} /\ Made \subseteq Made'
    BY <1>2, <1>5
  <2> QED BY <2>1 DEF ImageInv, NewImage
<1> QED BY <1>3, <1>4, <1>6 DEF ImageInv, NewImage, tableVars

(* Allocating a colour, or freeing, changes one struct. *)
LEMMA StructKeeps ==
    ASSUME NEW n \in Nat, image \in [1 .. n -> Struct], NEW i,
           \/ Allocate(i)
           \/ image' = [image EXCEPT ![i].im = "freed", ![i].width = 0]
    PROVE  image' \in [1 .. n -> Struct] /\ Made' = Made
<1>1. CASE i \in 1 .. n
  <2>1. image[i] \in Struct
    BY <1>1
  <2>2. \E e \in Struct : image' = [image EXCEPT ![i] = e]
    <3>1. CASE Allocate(i)
      <4> DEFINE u == IF image[i].im = "palette" /\ image[i].used < Palette
                      THEN image[i].used + 1 ELSE image[i].used
      <4>1. u \in 1 .. Palette
        BY <2>1, ColorAssumption DEF Struct
      <4>2. image' = [image EXCEPT ![i] = [image[i] EXCEPT !.used = u]]
        BY <1>1, <3>1 DEF Allocate
      <4> HIDE DEF u
      <4>3. [image[i] EXCEPT !.used = u] \in Struct
        BY <2>1, <4>1 DEF Struct
      <4> QED BY <4>2, <4>3
    <3>2. CASE image' = [image EXCEPT ![i].im = "freed", ![i].width = 0]
      <4>1. image' = [image EXCEPT ![i] = [image[i] EXCEPT !.im = "freed", !.width = 0]]
        BY <1>1, <3>2
      <4>2. [image[i] EXCEPT !.im = "freed", !.width = 0] \in Struct
        BY <2>1 DEF Struct
      <4> QED BY <4>1, <4>2
    <3> QED BY <3>1, <3>2
  <2> QED BY <2>2 DEF Made
<1>2. CASE i \notin 1 .. n
  <2>1. image' = image
    BY <1>2 DEF Allocate
  <2> QED BY <2>1 DEF Made
<1> QED BY <1>1, <1>2

(* What gdSetColor stores is an entry: the number of an allocated colour,  *)
(* the mark of a full palette or a true colour.                            *)
LEMMA SetColorKeeps ==
    ASSUME ImageInv, NEW o \in Objs, Usable(o), NEW i \in 0 .. MAXCOLORS, NEW n \in Names,
           gdSetColor(o, i, n)
    PROVE  /\ colors' \in [0 .. MAXCOLORS -> EntrySet] /\ Made' = Made
           /\ \E m \in 0 .. MaxImages : image' \in [1 .. m -> Struct]
<1>1. PICK m \in 0 .. MaxImages : image \in [1 .. m -> Struct]
  BY DEF ImageInv
<1>2. image[gd[o]] \in Struct
  BY <1>1 DEF Usable, Holds, Made
<1>3. Allocated(gd[o]) \in -2 .. Palette
  BY <1>2, ColorAssumption DEF Allocated, Packed, NoColor, Struct
<1>4. Entry(n, Allocated(gd[o])) \in EntrySet
  BY <1>3 DEF Entry, EntrySet
<1>5. colors' \in [0 .. MAXCOLORS -> EntrySet]
  BY <1>4 DEF gdSetColor, ImageInv
<1>6. m \in Nat
  BY ColorAssumption
<1>7. image' \in [1 .. m -> Struct] /\ Made' = Made
  BY <1>1, <1>6, StructKeeps DEF gdSetColor
<1> QED BY <1>5, <1>7

(* Every call of a script keeps the types. *)
LEMMA ImageStep == ImageInv /\ TableInv /\ [Next]_vars => ImageInv'
<1> SUFFICES ASSUME ImageInv, TableInv, [Next]_vars PROVE ImageInv'
  OBVIOUS
<1>0. PICK m \in 0 .. MaxImages : image \in [1 .. m -> Struct]
  BY DEF ImageInv
<1>a. m \in Nat /\ Made = 1 .. m
  BY <1>0, ColorAssumption DEF Made
<1>1. CASE UNCHANGED vars
  BY <1>1 DEF vars, tableVars, ImageInv, Made
<1>2. ASSUME NEW o \in Objs, InitImage(o) PROVE ImageInv'
  <2>1. Image("palette", 1, 1) \in Struct
    BY ColorAssumption DEF Image, Struct
  <2> QED BY <1>2, <2>1, NewImageKeeps DEF InitImage
<1>3. ASSUME NEW o \in Objs, InitImageFromFile(o) \/ ReopenFromFile(o) PROVE ImageInv'
  <2>1. PICK f \in Files, h \in {Cardinality(Made) + 1, True} :
            NewImage(o, h, Image(f[1], f[2], f[3]))
    BY <1>3 DEF InitImageFromFile, ReopenFromFile
  <2>2. f \in {"palette", "true", "null"} \X Nat \X (1 .. Palette)
    BY ColorAssumption
  <2>3. Image(f[1], f[2], f[3]) \in Struct
    BY <2>2 DEF Image, Struct
  <2> QED BY <2>1, <2>3, NewImageKeeps
<1>4. ASSUME NEW o \in Objs, NEW h \in Made, SetGD(o, h) PROVE ImageInv'
  BY <1>4 DEF SetGD, ImageInv, tableVars, Made
<1>5. ASSUME NEW o \in Objs, GdFree(o) \/ GetColor(o) PROVE ImageInv'
  <2>1. image' \in [1 .. m -> Struct] /\ Made' = Made
    BY <1>0, <1>5, <1>a, StructKeeps DEF GdFree, GetColor
  <2> QED BY <1>5, <2>1 DEF GdFree, GetColor, ImageInv, tableVars
<1>6. ASSUME NEW o \in Objs, UseBroken(o) \/ writeToFile(o) \/ gdGetRandStr PROVE ImageInv'
  BY <1>6 DEF UseBroken, writeToFile, gdGetRandStr, Crash, ImageInv, tableVars, Made
<1>7. ASSUME NEW o \in Objs, NEW n \in Names, AddColor(o, n) PROVE ImageInv'
  <2>1. cColors \in 0 .. MAXCOLORS
    <3>1. InTable(cColors) /\ cColors \in 0 .. 255
      BY <1>7 DEF AddColor, TableInv, CountBounded
    <3> QED BY <3>1, ColorAssumption DEF InTable
  <2> QED BY <1>7, <2>1, SetColorKeeps DEF AddColor, ImageInv
<1>8. ASSUME NEW o \in Objs, NEW n \in Names, NEW i \in 0 .. MAXCOLORS, SetColor(o, i, n)
      PROVE  ImageInv'
  BY <1>8, SetColorKeeps DEF SetColor, ImageInv
<1>9. ASSUME NEW o \in Objs, NEW r \in Ranges, DrawRandomPixels(o, r) PROVE ImageInv'
  BY <1>9 DEF DrawRandomPixels, ImageInv, NoDraw, tableVars, Made
<1>10. ASSUME NEW o \in Objs, NEW n \in Counts, DrawRandomLines(o, n) PROVE ImageInv'
  BY <1>10 DEF DrawRandomLines, Strokes, ImageInv, NoDraw, tableVars, Made
<1>11. CASE gdGetRandStr
  BY <1>11 DEF gdGetRandStr, Crash, ImageInv, tableVars, Made
<1>12. CASE Roll
  BY <1>12 DEF Roll, Strokes, ImageInv, NoDraw, tableVars, Made
<1>13. CASE Stroke
  <2>1. image' \in [1 .. m -> Struct] /\ Made' = Made
    BY <1>0, <1>13, <1>a, StructKeeps DEF Stroke, Made
  <2>2. draw'.op \in {"none", "roll", "strokes"} /\ process' \in {"running", "crashed"}
    BY <1>13 DEF Stroke, Strokes, NoDraw, ImageInv
  <2> QED BY <1>13, <2>1, <2>2 DEF Stroke, ImageInv, tableVars
<1> QED
  BY <1>1, <1>2, <1>3, <1>4, <1>5, <1>6, <1>7, <1>8, <1>9, <1>10, <1>11, <1>12, <1>13 DEF Next

(* The types: images keep their consecutive numbers within the bound, an   *)
(* object refers to one that was made, and no allocation leaves the        *)
(* palette.                                                                *)
THEOREM ImageTypeCorrect == Spec => []TypeOK
<1> DEFINE Inv == ImageInv /\ TableInv
<1>1. Init => Inv
  BY ImageInit, TableInit
<1>2. Inv /\ [Next]_vars => Inv'
  BY ImageStep, TableStep
<1>3. Inv => TypeOK
  <2> SUFFICES ASSUME Inv PROVE TypeOK
    OBVIOUS
  <2>1. PICK n \in 0 .. MaxImages : image \in [1 .. n -> Struct]
    BY DEF ImageInv
  <2>2. n \in Nat /\ n <= MaxImages
    BY ColorAssumption
  <2>3. Made = 1 .. n /\ Cardinality(Made) = n
    BY <2>1, <2>2, MadeCount
  <2>4. \A i \in Made : image[i] \in Struct
    BY <2>1, <2>3
  <2> QED BY <2>2, <2>3, <2>4 DEF ImageInv, TableInv, TypeOK, Struct, EntrySet
<1> QED BY <1>1, <1>2, <1>3, PTL DEF Spec
================================================================================
