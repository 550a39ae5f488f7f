------------------------------- MODULE Chunks -------------------------------
(***************************************************************************)
(* How the parsers of src/record/protocols and the replay servers buffer.  *)
(*                                                                         *)
(* A value or frame crosses a socket as two equal elements, its halves, so *)
(* a chunk, which is any number of elements, can end inside one and can    *)
(* hold several.  A buffer starts at the beginning of a value, as the      *)
(* code's do.                                                              *)
(***************************************************************************)
EXTENDS Naturals, Sequences

Halves(value) == <<value, value>>

\* What a decoder applied until it returns null takes from a buffer, and leaves.
Decodable(buffer) == [k \in 1 .. Len(buffer) \div 2 |-> buffer[2 * k]]

Remainder(buffer) == SubSeq(buffer, 2 * (Len(buffer) \div 2) + 1, Len(buffer))

=============================================================================
