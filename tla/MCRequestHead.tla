---------------------------- MODULE MCRequestHead ----------------------------
(***************************************************************************)
(* TLC instance of RequestHead: no body, or the line breaks a PNG has near *)
(* its start.                                                              *)
(***************************************************************************)
EXTENDS RequestHead

Pictures == {<<>>, <<Text, CR, LF, Text, LF>>}
=============================================================================
