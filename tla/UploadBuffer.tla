---------------------------- MODULE UploadBuffer ----------------------------
(***************************************************************************)
(* What an upload session promises: one buffer that only grows, each chunk *)
(* appended whole at its end, until it is closed into a blob holding       *)
(* exactly those bytes, or dropped.  This is the session of                *)
(* MemoryRegistry, the implementation that states the contract under one   *)
(* mutex.  The module Uploads implements it until two requests race; from  *)
(* then on, void, nothing is promised.                                     *)
(***************************************************************************)
EXTENDS Naturals, Sequences

CONSTANTS Byte, MaxLen, None

VARIABLES
    buffer,     \* the session's bytes, or None when it is not open
    stored,     \* the bytes of the blob it was closed into, or None
    void        \* has the contract ended?

bufferVars == <<buffer, stored, void>>

Extends(s, t) == Len(s) <= Len(t) /\ SubSeq(t, 1, Len(s)) = s

Contents == UNION {[1..n -> Byte] : n \in 0..MaxLen}

Init == buffer = None /\ stored = None /\ void = FALSE

Open == buffer = None /\ buffer' = <<>> /\ UNCHANGED <<stored, void>>

AppendChunk(s) ==
    /\ buffer # None /\ Extends(buffer, s)
    /\ buffer' = s
    /\ UNCHANGED <<stored, void>>

\* The closing request may carry a last chunk.
Close(s) ==
    /\ buffer # None /\ Extends(buffer, s)
    /\ buffer' = None
    /\ stored' = s
    /\ UNCHANGED void

Cancel == buffer # None /\ buffer' = None /\ UNCHANGED <<stored, void>>

\* The contract is over, or ends here.
Void == void' = TRUE

Next ==
    \/ Open \/ Cancel \/ Void
    \/ \E s \in Contents : AppendChunk(s) \/ Close(s)

Spec == Init /\ [][Next]_bufferVars
=============================================================================
