---------------------------- MODULE MCImageColors ----------------------------
(* Instance of ImageColors: a table of two entries, palettes of two colours. *)
(* The name "a" starts with a character inside the table, the others behind  *)
(* it; "zz1" stands for one that is too long for an entry.  An unsigned int  *)
(* has five values, of which rand() gives three.                             *)
EXTENDS ImageColors

MCCode == [n \in Names |-> IF n = "a" THEN 1 ELSE 255]
MCFiles == {<<"true", 0, 1>>, <<"palette", 1, 2>>, <<"null", 1, 1>>}
MCStem == [n \in Long |-> "zz"]
MCRest == [n \in Long |-> 1]
MCRanges == {<<0, 1>>, <<1, 2>>, <<2, 2>>, <<-2, -1>>, <<-1, 2>>}
MCCounts == {0, -3}
==============================================================================
