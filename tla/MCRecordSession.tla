--------------------------- MODULE MCRecordSession ---------------------------
(***************************************************************************)
(* An instance of RecordSession for TLC: two calls, pieces of text of one  *)
(* and two bytes and one byte that is not text, under a limit of two.      *)
(***************************************************************************)
EXTENDS RecordSession

MCChunk ==
    {[bytes |-> 1, text |-> TRUE], [bytes |-> 2, text |-> TRUE], [bytes |-> 1, text |-> FALSE]}

=============================================================================
