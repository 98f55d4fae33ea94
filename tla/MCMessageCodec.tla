---------------------------- MODULE MCMessageCodec ----------------------------
(* Five keys and three values, with a separator and a carriage return:    *)
(* enough for the arrays of pointers to grow twice and for a table to have  *)
(* one field more than split_msg returns.                                   *)
EXTENDS MessageCodec

MCLetters == {"a", "b"}
MCKeys == {<<>>, <<"a">>, <<"b">>, <<"a", "b">>, <<"i">>}
MCValues == {<<>>, <<"r">>, <<";", "=">>}

(* Every text of up to six of the characters that matter to the parser. *)
MCTexts == BoundedSeq({"a", "=", ";", "r"}, 6)
===============================================================================
