----------------------------- MODULE MCRequests -----------------------------
(* Small instances of Requests for TLC: requests that exercise the routers,  *)
(* the gate and the download, each with the rest of the scene held plain.    *)
EXTENDS Requests

Digest == <<"sha256", ":", "h64">>
X == <<"x">>

Plain == [mode |-> "open", read |-> None, write |-> None, method |-> "GET",
          header |-> None, path |-> V2, range |-> None, size |-> 0]

UpTo(S, n) == UNION {[1..k -> S] : k \in 1..n}
Under(root, pieces) == root \o Join(pieces, "/")
InV2 == V2 \o <<"/">>

-----------------------------------------------------------------------------
(* Paths                                                                    *)

Pieces == {<<>>, X, <<"X">>, <<"blobs">>, <<"uploads">>, <<"manifests">>, <<"tags">>, <<"list">>,
           <<"x", "%2F", "y">>}
Long == {X, <<"blobs">>, <<"uploads">>, <<"manifests">>}
Few == {X, <<"_", "catalog">>, <<"referrers">>, Digest}

V2Paths ==
    {Under(InV2, p) : p \in UpTo(Pieces, 4) \cup [1..5 -> Long] \cup UpTo(Few, 3)}

NamePaths ==
    {InV2 \o name \o <<"/", "tags", "/", "list">> : name \in UpTo({"x", ".", "_", "-", "X"}, 5) \cup [1..6 -> {"x", "_"}]}

Resources == {<<w>> : w \in {"repositories", "tags", "manifests", "tag-history", "pull-counts", "purge", "x"}}
Remainders ==
    {<<>>, <<"/">>, <<"/", "/">>, <<"/", "x">>, <<"/", "x", "/">>, <<"/", "x", "/", "/">>,
     <<"/", "x", "/", "tags">>, <<"/", "tags">>, <<"/", "x", "@", "y">>, <<"/", "x", "@", "y", "/">>,
     <<"/", "x", "@", "y", "@", "y">>, <<"/", "x", "%40", "y">>, <<"/", "@", "y">>, <<"/", "x", "@">>,
     <<"/", "X", "@", "y">>, <<"/", "x", "%2F", "y", "@", "y">>, <<"/", "x", "@", "y", "%2F", "y">>,
     <<"/", "x", "/", "manifests", "@">> \o Digest, <<"/", "x", "@", "sha256", ":", "x">>}

OtherPaths ==
    {V2, InV2, Api, <<"/">>, <<"/", "api">>, <<"/", "api", "/">>, <<"/", "api", "/", "x">>,
     <<"/", "api", "/", "v1">>, <<"/", "v2", "x">>, <<"/", "x">>}

Routing ==
    {[Plain EXCEPT !.path = p] :
        p \in V2Paths \cup NamePaths \cup {Api \o r \o s : r \in Resources, s \in Remainders} \cup OtherPaths}

-----------------------------------------------------------------------------
(* Credentials                                                              *)

K1 == <<1>>
K2 == <<1, 2>>
Generated == [read |-> <<8>>, write |-> <<9>>]

Header(scheme, user, password, decodes) ==
    [scheme |-> scheme, user |-> user, password |-> password, decodes |-> decodes]

Headers ==
    {None, Header("digest", K1, <<>>, TRUE), Header("basic", K1, <<>>, FALSE)}
    \cup {Header("bearer", k, <<>>, TRUE) : k \in {<<>>, K1, K2, <<1, 1, 1>>, <<1, 2, 1, 2>>, <<8>>, <<9>>}}
    \cup {Header("basic", u, p, TRUE) : u \in {<<>>, K1}, p \in {<<>>, K1, K2}}

Guarded ==
    {InV2 \o <<"x", "/", "manifests", "/", "y">>, InV2 \o <<"x", "/", "blobs", "/">> \o Digest,
     InV2 \o <<"x", "/", "blobs", "/", "uploads", "/">>, InV2 \o <<"x", "/", "blobs", "/", "uploads", "/", "y">>,
     InV2 \o <<"x", "/", "referrers", "/">> \o Digest, InV2 \o <<"x", "/", "manifests", "/", ".">>,
     Api \o <<"repositories", "/", "x">>, Api \o <<"purge">>, <<"/">>}

Credentials ==
    {[Plain EXCEPT !.mode = mode, !.read = read, !.write = write, !.method = m, !.header = h, !.path = p] :
        mode \in {"open", "public-pull", "private"}, read \in {None, K1, <<Space>>}, write \in {None, K1, K2},
        m \in Methods, h \in Headers, p \in Guarded}

-----------------------------------------------------------------------------
(* Downloads                                                                *)

RangeOf(unit, comma, dash, first, last) ==
    [unit |-> unit, comma |-> comma, dash |-> dash, first |-> first, last |-> last]

Ranges ==
    {None, RangeOf("items", FALSE, TRUE, 0, 1), RangeOf("bytes", TRUE, TRUE, 0, 1), RangeOf("bytes", FALSE, FALSE, 0, None)}
    \cup {RangeOf("bytes", FALSE, TRUE, f, l) : f \in {None, 0, 1, 2, 3, 5, Junk}, l \in {None, 0, 1, 2, 9, Junk}}

Downloads ==
    {[Plain EXCEPT !.path = InV2 \o <<n, "/", "blobs", "/">> \o Digest, !.method = m, !.range = r, !.size = s] :
        n \in {"x", "y"}, m \in {"GET", "HEAD"}, r \in Ranges, s \in {0, 1, 3, 5}}

AllScenes == Routing \cup Credentials \cup Downloads
=============================================================================
