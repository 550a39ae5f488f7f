-------------------------------- MODULE Resp --------------------------------
(***************************************************************************)
(* What the Redis recorder and the Redis replay server share of            *)
(* src/record/protocols/resp.ts.  Buffers are those of Chunks.             *)
(***************************************************************************)

\* toCommand: an array with elements and a non-blank simple string are commands.  A
\* bare line decodes as 'unsupported', which the comment above toCommand overlooks:
\* an inline command is not one to this code.  <<>> stands for null.
toCommand(value) == IF value.kind \in {"array", "simple"} THEN value.words ELSE <<>>

IsCommand(value) == toCommand(value) # <<>>

\* What a client expects a reply to, since Redis replies to it: arrays and lines that
\* are not blank.
Asks(value) == value.words # <<>>

Inline(value) == Asks(value) /\ ~ IsCommand(value)

\* encode: a reply the recorder could not read goes out as an error.
encode(reply, unsupported) == IF reply.kind = "unsupported" THEN unsupported ELSE reply

=============================================================================
