----------------------------- MODULE MCVersions -----------------------------
(* Small instances of Versions for TLC: three builds that know every step   *)
(* up to their own version, one that registers none, as the code does       *)
(* today, and one that registers a step beyond itself.                      *)
EXTENDS Versions, TLC

CONSTANTS r1, r2, r3

Chain(v) == [version |-> v, steps |-> 1..v]
Builds == {Chain(1), Chain(2), Chain(3),
           [version |-> 2, steps |-> {}],
           [version |-> 2, steps |-> 1..3]}

ASSUME OneChain

RecordSymmetry == Permutations(Record)
=============================================================================
