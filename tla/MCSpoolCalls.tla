---------------------------- MODULE MCSpoolCalls ----------------------------
(* Bounded instance of SpoolCalls: two byte values, so that a lost, a      *)
(* duplicated or a reordered byte shows, and chunks of one to three bytes, *)
(* so that a chunk may fit, fill the buffer exactly, or cross the          *)
(* threshold with anything from an empty to a full buffer.                 *)
EXTENDS SpoolCalls

MCChunk == {<<>>, <<1>>, <<2>>, <<1, 2>>, <<2, 2, 1>>}
=============================================================================
