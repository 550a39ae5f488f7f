---------------------------- MODULE BodyCapture ----------------------------
(***************************************************************************)
(* captureAndForward of src/record/bodyBuffer.ts: the copy of a body kept  *)
(* for the recording while the body itself is piped on.  A chunk is its    *)
(* length in bytes and whether those bytes are text; pieces are cut where  *)
(* text can be cut, as decodeText reads the whole body at once.            *)
(***************************************************************************)
EXTENDS Naturals, Sequences

CONSTANTS
    Chunk,      \* [bytes, text] records
    MaxBytes,   \* MAX_BODY_BYTES
    NoText      \* null

ASSUME ChunkAssumption ==
    /\ Chunk \subseteq [bytes : Nat \ {0}, text : BOOLEAN]
    /\ NoText \notin Seq(Chunk)

ASSUME MaxBytesAssumption == MaxBytes \in Nat

NewCapture == [retained |-> <<>>, retainedBytes |-> 0, totalBytes |-> 0, truncated |-> FALSE]

\* Mutants: the limit is checked a chunk too late; what was kept stays kept.
CapturedLate(capture, chunk) ==
    LET total == capture.totalBytes + chunk.bytes
    IN  IF capture.truncated \/ capture.retainedBytes > MaxBytes
        THEN [retained |-> <<>>, retainedBytes |-> 0, totalBytes |-> total, truncated |-> TRUE]
        ELSE [capture EXCEPT !.totalBytes = total,
                             !.retained = Append(@, chunk),
                             !.retainedBytes = @ + chunk.bytes]

CapturedAsPrefix(capture, chunk) ==
    LET total == capture.totalBytes + chunk.bytes
    IN  IF capture.retainedBytes + chunk.bytes > MaxBytes
        THEN [capture EXCEPT !.totalBytes = total]
        ELSE [capture EXCEPT !.totalBytes = total,
                             !.retained = Append(@, chunk),
                             !.retainedBytes = @ + chunk.bytes]

\* The 'data' listener: past the limit everything kept is dropped, for good.
Captured(capture, chunk) ==
    LET total == capture.totalBytes + chunk.bytes
    IN  IF capture.truncated
        THEN [capture EXCEPT !.totalBytes = total]
        ELSE IF capture.retainedBytes + chunk.bytes > MaxBytes
        THEN [retained |-> <<>>, retainedBytes |-> 0, totalBytes |-> total, truncated |-> TRUE]
        ELSE [capture EXCEPT !.totalBytes = total,
                             !.retained = Append(@, chunk),
                             !.retainedBytes = @ + chunk.bytes]

\* decodeText: an empty body and one that is not text have none.
Decoded(body) ==
    IF body = <<>> \/ \E k \in DOMAIN body : ~ body[k].text THEN NoText ELSE body

\* What the 'end' listener resolves with.
TextOf(capture) == IF capture.truncated THEN NoText ELSE Decoded(capture.retained)

=============================================================================
