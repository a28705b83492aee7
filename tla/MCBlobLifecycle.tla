-------------------------- MODULE MCBlobLifecycle --------------------------
(* Small instances of BlobLifecycle for TLC.                               *)
EXTENDS BlobLifecycle, TLC

CONSTANTS d1, r1, m1, q1, q2, p1, s1

OneLayer == (m1 :> {d1})
NoForeign == [m \in Manifest |-> {}]
OneShard == [d \in Digest |-> s1]

ReqSymmetry == Permutations(Req)
=============================================================================
