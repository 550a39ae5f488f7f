--------------------------- MODULE ReplayService ---------------------------
(***************************************************************************)
(* What `cvx replay` promises of every dependency it stands in for, in the *)
(* words of README.md ("Replay refuses to guess") and of replay/README.md  *)
(* ("Fidelity"): a call that was recorded is answered with its recorded    *)
(* replies in recorded order, the last one repeating once the recording is *)
(* exhausted, and a call that was not recorded is answered with an error.  *)
(* Nothing is said of connections, buffers or counters: a server of        *)
(* src/replay implements this module when the answers it gives, in the     *)
(* order it gives them, are a behaviour of Spec.                           *)
(***************************************************************************)
EXTENDS Naturals, Sequences, FiniteSets

CONSTANTS
    Signature,      \* what a call is filed under
    Reply,          \* what can have been recorded
    NoRecording,    \* the error answering a call nobody recorded
    Recorded        \* [Signature -> Seq(Reply)], in recorded order

VARIABLE history    \* every answer given so far, oldest first

Answer == [sig : Signature, reply : Reply \union {NoRecording}]

\* The answer to the n-th call of one signature.
Promised(sig, n) ==
    LET replies == Recorded[sig]
    IN  IF replies = <<>>         THEN NoRecording
        ELSE IF n <= Len(replies) THEN replies[n]
        ELSE replies[Len(replies)]

CallsOf(sig) == {k \in DOMAIN history : history[k].sig = sig}

-----------------------------------------------------------------------------

Init == history = <<>>

Call(sig) ==
    history' = Append(history,
                      [sig   |-> sig,
                       reply |-> Promised(sig, Cardinality(CallsOf(sig)) + 1)])

Next == \E sig \in Signature : Call(sig)

Spec == Init /\ [][Next]_history

=============================================================================
