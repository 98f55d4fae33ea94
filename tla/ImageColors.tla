------------------------------ MODULE ImageColors ------------------------------
(***************************************************************************)
(* Images as Lua scripts draw them: the objects of gd:new                  *)
(* (src/src/luasubmodules/gd.lua), the bindings of                         *)
(* src/libbacteria/lua/libimages.c and the colour table of                 *)
(* src/libbacteria/images/images.c, which all images of the process share. *)
(*                                                                         *)
(* Pixels and the red, green and blue of a colour are left out: a colour   *)
(* is the number libgd gives to it.  A Lua error leaves the state as it is *)
(* and is not a step.  C calls run to their end before the script goes on, *)
(* but the random drawings are taken step by step: they may not end.       *)
(***************************************************************************)
EXTENDS Integers, FiniteSetsExt

CONSTANTS Objs,      \* the gd objects of the scripts
          Names,     \* names of colours
          Code,      \* the first character of each name
          Long,      \* the names of MAXNAMECOLOR characters, 128, and more
          Stem,      \* the first MAXNAMECOLOR characters of each of them
          Rest,      \* the others, read as the bytes of an int; 0 if there are none
          MAXCOLORS, \* entries of the table, 128 in the code
          Palette,   \* colours of a palette image, 256 in libgd
          Files,     \* what a file may give: its kind of image, the width told,
                     \* and the colours it has
          MaxImages, \* bound on the images created
          UIntMod,   \* values of an unsigned int, 2^32 in the build
          RandMax,   \* RAND_MAX
          Ranges,    \* pairs <<min, max>> given to drawRandomPixels
          Counts     \* numbers of lines given to drawRandomLines

ASSUME ColorAssumption ==
    /\ MAXCOLORS \in 1 .. 254 /\ Palette \in Nat \ {0} /\ MaxImages \in Nat
    /\ Code \in [Names -> 1 .. 255]
    /\ Long \subseteq Names /\ Stem \in [Long -> STRING] /\ Rest \in [Long -> Nat]
    /\ UIntMod \in Nat \ {0} /\ RandMax \in Nat
    /\ Ranges \subseteq Int \X Int /\ Counts \subseteq Int
    /\ Files \subseteq {"palette", "true", "null"} \X Nat \X (1 .. Palette)

VARIABLES gd,       \* obj.gd of each object
          image,    \* the userdata made so far: struct image and its palette
          colors,   \* the table, with the entry one past its end
          cColors,  \* entries in use, an unsigned char
          adjacent, \* whether the build puts cColors right behind the table
          draw,     \* the random drawing under way
          process,  \* whether the process runs or has crashed
          intact,   \* history: the table was not overfilled, nor an entry replaced
          latest    \* history: the colour last added under each name, while intact

tableVars == <<colors, cColors, adjacent, intact, latest>>
vars == <<gd, image, draw, process, tableVars>>

Nil == 0             \* obj.gd = nil
True == -1           \* obj.gd = true
NoDraw == [op |-> "none"]
Blank == [name |-> "", ended |-> TRUE, color |-> 0]
Made == DOMAIN image
Packed == -2         \* a true colour: no palette is involved
NoColor == -1        \* what libgd returns when the palette is full

NoneAdded == [n \in Names |-> 0]

(* struct image: what im points to, the width it has been given, and the   *)
(* colours allocated in it.                                                *)
Image(im, w, n) == [im |-> im, width |-> w, used |-> n]

Init ==
    /\ gd = [o \in Objs |-> Nil]
    /\ image = <<>>
    /\ colors = [i \in 0 .. MAXCOLORS |-> Blank]
    /\ cColors = 0
    /\ adjacent \in BOOLEAN
    /\ draw = NoDraw /\ process = "running"
    /\ intact = TRUE
    /\ latest = NoneAdded

(* A call from a script: none is under way. *)
Idle == process = "running" /\ draw = NoDraw

Holds(o) == gd[o] \in Made
Usable(o) == Holds(o) /\ image[gd[o]].im \in {"palette", "true"}

NewImage(o, h, i) ==
    /\ Cardinality(Made) < MaxImages
    /\ image' = [j \in Made \cup {Cardinality(Made) + 1} |->
                     IF j \in Made THEN image[j] ELSE i]
    /\ gd' = [gd EXCEPT ![o] = h]
    /\ UNCHANGED <<draw, process, tableVars>>
-----------------------------------------------------------------------------
(* obj:initImage(): the background takes the first colour.  obj:clear() is *)
(* called nowhere and frees nothing: an image that was there is lost.      *)
InitImage(o) ==
    /\ Idle
    /\ NewImage(o, Cardinality(Made) + 1, Image("palette", 1, 1))

(* obj:initImageFromFile: libgd gives an image of either kind, or NULL.    *)
(* The width is the script's, not the file's.                              *)
InitImageFromFile(o) ==
    /\ Idle
    /\ \E f \in Files : NewImage(o, Cardinality(Made) + 1, Image(f[1], f[2], f[3]))

(* obj:reopenFromFile stores the result of initImageFromFile, true, over   *)
(* the image that was opened.                                              *)
ReopenFromFile(o) ==
    /\ Idle
    /\ \E f \in Files : NewImage(o, True, Image(f[1], f[2], f[3]))

(* obj:setGD(h), with a userdata the script has kept. *)
SetGD(o, h) ==
    /\ Idle
    /\ gd' = [gd EXCEPT ![o] = h]
    /\ UNCHANGED <<image, draw, process, tableVars>>

(* images.gdFree(obj.gd): the pointer stays. *)
GdFree(o) ==
    /\ Idle /\ Usable(o)
    /\ image' = [image EXCEPT ![gd[o]].im = "freed", ![gd[o]].width = 0]
    /\ UNCHANGED <<gd, draw, process, tableVars>>

(* Every function of the library follows the pointer without a test; a     *)
(* file that cannot be written and a string of no length crash as well.    *)
Crash ==
    /\ Idle
    /\ process' = "crashed"
    /\ UNCHANGED <<gd, image, draw, tableVars>>

UseBroken(o) == Holds(o) /\ ~Usable(o) /\ Crash

writeToFile(o) == Usable(o) /\ Crash

gdGetRandStr == Crash
-----------------------------------------------------------------------------
(* gdImageColorAllocateAlpha. *)
Allocated(i) ==
    IF image[i].im = "true" THEN Packed
    ELSE IF image[i].used < Palette THEN image[i].used ELSE NoColor

Allocate(i) ==
    image' = [image EXCEPT ![i].used =
                 IF image[i].im = "palette" /\ @ < Palette THEN @ + 1 ELSE @]

(* obj:getColor, getRandColor, and drawRect, drawLine and drawText, which  *)
(* make a colour when they are given none.                                 *)
GetColor(o) ==
    /\ Idle /\ Usable(o)
    /\ Allocate(gd[o])
    /\ UNCHANGED <<gd, draw, process, tableVars>>

(* Mutant of InTable: only negative numbers are refused. *)
InTableOpen(i) == 0 <= i

(* The test of gdSetColor. *)
InTable(i) == 0 <= i /\ i <= MAXCOLORS

(* cColors as gdSetColor leaves it: where the entry past the end is        *)
(* cColors itself, it takes the name's first character.                    *)
CountAfter(i, n) == IF i = MAXCOLORS /\ adjacent THEN Code[n] ELSE cColors

(* An entry: strncpy ends the name in the table with a zero only if it is  *)
(* shorter than the array it goes to.                                      *)
Entry(n, c) == [name |-> IF n \in Long THEN Stem[n] ELSE n, ended |-> n \notin Long,
                color |-> c]

gdSetColor(o, i, n) ==
    /\ colors' = [colors EXCEPT ![i] = Entry(n, Allocated(gd[o]))]
    /\ Allocate(gd[o])

(* obj:setColor(n, i, color). *)
SetColor(o, i, n) ==
    /\ Idle /\ Usable(o) /\ InTable(i)
    /\ gdSetColor(o, i, n)
    /\ cColors' = CountAfter(i, n)
    /\ intact' = (intact /\ cColors <= i /\ i < MAXCOLORS)
    /\ latest' = IF intact' THEN latest ELSE NoneAdded
    /\ UNCHANGED <<gd, draw, process, adjacent>>

(* obj:addColor(n, ...): beyond the end of the table nothing happens. *)
AddColor(o, n) ==
    /\ Idle /\ Usable(o) /\ InTable(cColors)
    /\ gdSetColor(o, cColors, n)
    /\ cColors' = (CountAfter(cColors, n) + 1) % 256
    /\ intact' = (intact /\ cColors < MAXCOLORS)
    /\ latest' = IF intact' THEN [latest EXCEPT ![n] = Allocated(gd[o])] ELSE NoneAdded
    /\ UNCHANGED <<gd, draw, process, adjacent>>

Entries == {i \in 0 .. MAXCOLORS : i < cColors}

(* strcmp(e.name, n) = 0.  A name without an end runs on into the colour   *)
(* behind it in struct gdColor.  (A colour with no zero byte, a true one   *)
(* or NoColor, lets it run into the next entry: taken to be no match.)     *)
Matches(e, n) ==
    \/ e.ended /\ n \notin Long /\ e.name = n
    \/ ~e.ended /\ n \in Long /\ e.name = Stem[n] /\ e.color = Rest[n]

(* Mutant of gdFoundColor: the table is searched from its beginning. *)
gdFoundColorFirst(n) ==
    LET hits == {i \in Entries : Matches(colors[i], n)}
    IN IF hits = {} THEN 0 ELSE colors[Min(hits)].color

(* obj:foundColor(n).  What lies behind the table is not looked at: it is  *)
(* only searched after an overrun.                                         *)
gdFoundColor(n) ==
    LET hits == {i \in Entries : Matches(colors[i], n)}
    IN IF hits = {} THEN 0 ELSE colors[Max(hits)].color
-----------------------------------------------------------------------------
Strokes(i, n) == IF n = 0 THEN NoDraw ELSE [op |-> "strokes", img |-> i, left |-> n]

(* An int of the binding passed as an unsigned int. *)
Unsigned(x) == x % UIntMod

(* obj:drawRandomPixels(min, max): nothing if min is above max; otherwise  *)
(* the number of pixels is drawn until it is at least min.                 *)
DrawRandomPixels(o, r) ==
    LET min == Unsigned(r[1])
        max == Unsigned(r[2])
    IN /\ Idle /\ Usable(o) /\ min <= max
       /\ draw' = IF min = 0 THEN NoDraw
                  ELSE [op |-> "roll", img |-> gd[o], min |-> min, max |-> max]
       /\ UNCHANGED <<gd, image, process, tableVars>>

(* Mutant of Roll: the remainder is taken by the smaller number. *)
RollSmall ==
    /\ draw.op = "roll"
    /\ \E c \in {k % draw.min : k \in 0 .. RandMax} :
           draw' = IF c < draw.min THEN draw ELSE Strokes(draw.img, c)
    /\ UNCHANGED <<gd, image, process, tableVars>>

(* count = rand() % max. *)
Roll ==
    /\ draw.op = "roll"
    /\ \E c \in {k % draw.max : k \in 0 .. RandMax} :
           draw' = IF c < draw.min THEN draw ELSE Strokes(draw.img, c)
    /\ UNCHANGED <<gd, image, process, tableVars>>

(* obj:drawRandomLines(n). *)
DrawRandomLines(o, n) ==
    /\ Idle /\ Usable(o)
    /\ draw' = Strokes(gd[o], Unsigned(n))
    /\ UNCHANGED <<gd, image, process, tableVars>>

(* A pixel or a line, each in a colour of its own.  A width of zero is     *)
(* divided by.                                                             *)
Stroke ==
    /\ draw.op = "strokes"
    /\ \/ /\ image[draw.img].width = 0
          /\ process' = "crashed" /\ draw' = NoDraw
          /\ image' = image
       \/ /\ image[draw.img].width # 0
          /\ Allocate(draw.img)
          /\ draw' = Strokes(draw.img, draw.left - 1)
          /\ process' = process
    /\ UNCHANGED <<gd, tableVars>>

Next ==
    \/ \E o \in Objs :
        \/ InitImage(o) \/ InitImageFromFile(o) \/ ReopenFromFile(o)
        \/ \E h \in Made : SetGD(o, h)
        \/ GdFree(o) \/ UseBroken(o) \/ writeToFile(o) \/ GetColor(o)
        \/ \E n \in Names : AddColor(o, n) \/ \E i \in 0 .. MAXCOLORS : SetColor(o, i, n)
        \/ \E r \in Ranges : DrawRandomPixels(o, r)
        \/ \E n \in Counts : DrawRandomLines(o, n)
    \/ gdGetRandStr \/ Roll \/ Stroke

(* A call under way goes on, and rand() gives in the end every value it can. *)
Fairness == WF_vars(Roll \/ Stroke) /\ SF_vars(Roll /\ draw' # draw)

Spec == Init /\ [][Next]_vars /\ Fairness
-----------------------------------------------------------------------------
(* Where cColors does not lie behind the table the count stops one past    *)
(* the table's size; where it does, the first overrun sets it to a         *)
(* character.                                                              *)
CountBounded == cColors \in 0 .. 255 /\ (~adjacent => cColors <= MAXCOLORS + 1)

(* The variables keep their types, and the count its bound. *)
TypeOK ==
    /\ gd \in [Objs -> Made \cup {Nil, True}]
    /\ Made = 1 .. Cardinality(Made) /\ Cardinality(Made) <= MaxImages
    /\ \A i \in Made : /\ image[i].im \in {"palette", "true", "null", "freed"}
                       /\ image[i].width \in Nat /\ image[i].used \in 1 .. Palette
    /\ \A i \in 0 .. MAXCOLORS : /\ colors[i].name \in Names \cup {""} \cup {Stem[n] : n \in Long}
                                 /\ colors[i].ended \in BOOLEAN
                                 /\ colors[i].color \in -2 .. Palette
    /\ DOMAIN colors = 0 .. MAXCOLORS
    /\ CountBounded
    /\ draw.op \in {"none", "roll", "strokes"}
    /\ process \in {"running", "crashed"}

(* gdFoundColor gives the colour that was added last under a name short    *)
(* enough for the table, or 0 when there was none, for as long as the      *)
(* table was not overfilled and no entry in use was replaced, whatever     *)
(* images were made, shared or freed and whatever longer names were        *)
(* stored.  A longer name is itself found only by accident.                *)
FoundIsLatest ==
    intact => \A n \in Names \ Long : gdFoundColor(n) = latest[n]

(* What rand() % max can reach. *)
Reachable == draw.min < draw.max /\ draw.min <= RandMax

(* A random drawing ends, unless its min, as an unsigned int, is not below *)
(* max or is above RAND_MAX: then gdDrawRandomPixels never returns.        *)
DrawingEnds ==
    /\ draw # NoDraw /\ (draw.op = "roll" => Reachable) ~> draw = NoDraw
    /\ [](draw.op = "roll" /\ ~Reachable => [](draw.op = "roll"))
===============================================================================
