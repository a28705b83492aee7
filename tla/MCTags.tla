------------------------------- MODULE MCTags -------------------------------
(* Small instances of Tags for TLC: m1 is an image, m2 an index that lists  *)
(* it, m3 an artifact whose subject it is; t1 is an ordinary tag, t2 the    *)
(* legacy cosign tag that spells m1.                                        *)
EXTENDS Tags, TLC

CONSTANTS m1, m2, m3, t1, t2, q1, q2, p1

IndexOfM1 == [m \in Manifest |-> IF m = m2 THEN {m1} ELSE {}]
SubjectM1 == [m \in Manifest |-> IF m = m3 THEN m1 ELSE None]
CosignT2 == [t \in Tag |-> IF t = t2 THEN m1 ELSE None]

ReqSymmetry == Permutations(Req)
=============================================================================
