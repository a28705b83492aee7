----------------------------- MODULE MCListing -----------------------------
(* Small instances of Listing for TLC.  Repository 2 is asked about; 3 is    *)
(* its neighbour in key order and 30 has the last id there is.  Digests a    *)
(* and c are sha256, b is sha512; tag "x" is a prefix of tag "xy".           *)
EXTENDS Listing

A == <<1, 5>>
B == <<2, 1, 30>>
C == <<1, 30>>
X == <<5>>
XY == <<5, 6>>
Y == <<6>>

Row(t, repo, name, a, b, at) ==
    [t |-> t, repo |-> repo, name |-> name, a |-> a, b |-> b, at |-> at]

T(repo, name) == Row("T", repo, name, <<>>, <<>>, 0)
N(name) == Row("n", None, name, <<>>, <<>>, 0)
M(repo, a) == Row("M", repo, <<>>, a, <<>>, 0)
G(repo, a, name) == Row("G", repo, name, a, <<>>, 0)
S(repo, a, b) == Row("S", repo, <<>>, a, b, 0)
F(repo, a, b, type) == Row("F", repo, type, a, b, 0)
H(repo, name, at, a) == Row("H", repo, name, a, <<>>, at)
J(repo, a, at, name) == Row("J", repo, name, a, <<>>, at)
U == Row("U", None, <<0>>, <<>>, <<>>, 0)
V == Row("v", None, <<>>, <<>>, <<>>, 0)

Asked == [repo |-> 2, tag |-> X, digest |-> A, type |-> <<7>>, needle |-> <<6>>]

TagRows == {T(2, X), T(2, XY), T(2, Y), T(30, X), U}

Rows == [tags |-> TagRows,
         details |-> TagRows,
         count |-> TagRows,
         catalog |-> {N(X), N(XY), N(Y), V},
         search |-> {N(X), N(<<5, 5>>), N(XY), N(<<5, 7>>), N(Y)},
         manifests |-> {M(2, A), M(2, B), M(2, C), M(3, A)},
         untagged |-> {M(2, A), M(2, B), M(2, C), G(2, A, X)},
         tags_of |-> {G(2, A, X), G(2, A, Y), G(2, C, X), G(3, A, X)},
         parents |-> {S(2, A, B), S(2, A, C), S(2, C, A), S(30, A, B)},
         referrers |-> {F(2, A, A, <<7>>), F(2, A, B, <<8>>), F(2, A, C, <<7>>), F(2, B, A, <<7>>)},
         history |-> {H(2, X, 1, A), H(2, X, 1, C), H(2, X, 2, A), H(2, XY, 1, A), H(3, X, 1, A)},
         manifest_history |-> {J(2, A, 1, X), J(2, A, 1, XY), J(2, A, 2, X), J(2, C, 1, X)}]

From == [k \in DOMAIN Rows |->
    CASE k \in {"history", "manifest_history"} -> {[at |-> 2, last |-> None]}
      [] k \in {"manifests", "untagged", "parents", "referrers"} -> {A}
      [] OTHER -> {X}]
=============================================================================
