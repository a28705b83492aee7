------------------------------ MODULE MCRepos ------------------------------
(* Small instances of Repos for TLC: two incarnations of the name.          *)
EXTENDS Repos, TLC

CONSTANTS q1, q2

ReqSymmetry == Permutations(Req)
=============================================================================
