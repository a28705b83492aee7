----------------------------- MODULE MCUploads -----------------------------
(* Small instances of Uploads for TLC: blobs of two frames.  An honest       *)
(* client sends the same content however often it retries; a careless one    *)
(* may send other frames the second time.                                    *)
EXTENDS Uploads, FiniteSets, TLC

CONSTANTS a, b, c, q1, q2

Honest == <<{a}, {b}>>
Careless == <<{a, c}, {a, b}>>

\* A client that sends a request only when the last was answered or broken off.
OneClient == Cardinality({q \in Req : req[q].pc # "idle" /\ ~req[q].gone}) <= 1

ReqSymmetry == Permutations(Req)
=============================================================================
