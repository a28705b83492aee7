------------------------------- MODULE Paths -------------------------------
(***************************************************************************)
(* What a request path means: the name, tag and digest grammars of         *)
(* summ-server/src/reference.rs and the two routers of app.rs.  A path is a *)
(* sequence of tokens.  A token is one character or one word that the code  *)
(* compares as a whole ("blobs", "uploads"); "%2F" and "%40" are the        *)
(* percent-encoded "/" and "@"; "h64" and "h128" are lower-case hex of the  *)
(* two digest lengths.  Lengths are counted in tokens.                      *)
(***************************************************************************)
EXTENDS Integers, Sequences, SequencesExt

CONSTANTS
    MAX_NAME_LEN,    \* longest repository name
    MAX_TAG_LEN      \* longest tag

Lower == {"x", "y", "blobs", "uploads", "manifests", "tags", "list", "referrers",
          "catalog", "sha256", "sha512", "h64", "h128", "v2", "api", "v1",
          "repositories", "purge", "tag-history", "pull-counts"}
Upper == {"X"}

-----------------------------------------------------------------------------
(* Strings                                                                  *)

\* str::split: always at least one piece, empty pieces kept.
Split(s, sep) ==
    LET seps == SelectSeq([i \in DOMAIN s |-> i], LAMBDA i : s[i] = sep)
        marks == <<0>> \o seps \o <<Len(s) + 1>>
    IN  [k \in 1..Len(marks) - 1 |-> SubSeq(s, marks[k] + 1, marks[k + 1] - 1)]

\* Vec::join.
Join(pieces, sep) ==
    FoldLeft(LAMBDA acc, p : acc \o <<sep>> \o p, Head(pieces), Tail(pieces))

DropLast(s, n) == SubSeq(s, 1, Len(s) - n)

HasToken(s, c) == \E i \in DOMAIN s : s[i] = c

\* str::split_once and rsplit_once: the two halves around a separator that occurs.
Around(s, i) == [left |-> SubSeq(s, 1, i - 1), right |-> SubSeq(s, i + 1, Len(s))]
split_once(s, c) == Around(s, CHOOSE i \in DOMAIN s : s[i] = c /\ \A j \in 1..i - 1 : s[j] # c)
rsplit_once(s, c) == Around(s, CHOOSE i \in DOMAIN s : s[i] = c /\ \A j \in i + 1..Len(s) : s[j] # c)

\* query.rs: percent-decoding of one path segment.
path_decode(s) ==
    [i \in DOMAIN s |-> CASE s[i] = "%2F" -> "/" [] s[i] = "%40" -> "@" [] OTHER -> s[i]]

-----------------------------------------------------------------------------
(* The grammars, as reference.rs decides them                               *)

\* A broken variant: nothing counts the underscores.
ScanUnderscores(at, c) ==
    CASE at = "bad" -> "bad"
      [] c \in Lower -> "run"
      [] at = "run" /\ c = "." -> "start"
      [] at \in {"run", "_"} /\ c = "_" -> "_"
      [] at \in {"run", "-"} /\ c = "-" -> "-"
      [] OTHER -> "bad"

\* The scan of one name component: what was read last decides what may follow.
\* "start" also stands for "just after a dot": an alphanumeric must follow.
ScanNext(at, c) ==
    CASE at = "bad" -> "bad"
      [] c \in Lower -> "run"
      [] at = "run" /\ c = "." -> "start"
      [] at = "run" /\ c = "_" -> "_"
      [] at = "_" /\ c = "_" -> "__"
      [] at \in {"run", "-"} /\ c = "-" -> "-"
      [] OTHER -> "bad"

valid_name_component(s) == FoldLeft(ScanNext, "start", s) = "run"

valid_name(s) ==
    /\ s # <<>> /\ Len(s) <= MAX_NAME_LEN
    /\ LET components == Split(s, "/")
       IN  \A i \in DOMAIN components : valid_name_component(components[i])

valid_tag(s) ==
    /\ s # <<>> /\ Len(s) <= MAX_TAG_LEN
    /\ s[1] \in Lower \cup Upper \cup {"_"}
    /\ \A i \in DOMAIN s : s[i] \in Lower \cup Upper \cup {".", "_", "-"}

\* Digest::from_str behind parse_digest's own checks.
parse_digest(s) ==
    /\ HasToken(s, ":")
    /\ LET d == split_once(s, ":")
       IN  /\ d.left # <<>> /\ d.right # <<>>
           /\ \A i \in DOMAIN d.right : d.right[i] \in Lower
           /\ \/ d.left = <<"sha256">> /\ d.right = <<"h64">>
              \/ d.left = <<"sha512">> /\ d.right = <<"h128">>

\* A reference with a colon is offered as a digest and is never read as a tag.
parse_reference(s) ==
    CASE HasToken(s, ":") -> IF parse_digest(s) THEN "digest" ELSE "bad_digest"
      [] OTHER            -> IF valid_tag(s) THEN "tag" ELSE "bad_tag"

-----------------------------------------------------------------------------
(* The routers                                                              *)

\* An endpoint: its kind, its repository name and what follows the name
\* (a reference, a digest, an upload id), each empty where the kind has none.
Endpoint(kind, name, arg) == [kind |-> kind, name |-> name, arg |-> arg]
NoMatch == Endpoint("NoMatch", <<>>, <<>>)
InvalidName == Endpoint("InvalidName", <<>>, <<>>)

Named(kind, name, arg) == IF valid_name(name) THEN Endpoint(kind, name, arg) ELSE InvalidName

\* An endpoint routed by the suffix: the name is the first `count` segments.
name_of(kind, segments, count, arg) ==
    IF count < 1 THEN NoMatch ELSE Named(kind, Join(SubSeq(segments, 1, count), "/"), arg)

\* The segments of what follows "/v2/": decoded after the split, one trailing
\* empty segment dropped.
Segments(rest) ==
    LET raw == Split(rest, "/")
        all == [i \in DOMAIN raw |-> path_decode(raw[i])]
    IN  IF Last(all) = <<>> THEN DropLast(all, 1) ELSE all

\* The suffix table, longest form first.
Suffixed(s) ==
    LET n == Len(s)
        at(k) == s[n - k]
    IN  CASE n >= 4 /\ at(2) = <<"blobs">> /\ at(1) = <<"uploads">> -> name_of("Upload", s, n - 3, at(0))
          [] n >= 3 /\ at(1) = <<"blobs">> /\ at(0) = <<"uploads">> -> name_of("Uploads", s, n - 2, <<>>)
          [] n >= 3 /\ at(1) = <<"manifests">> -> name_of("Manifest", s, n - 2, at(0))
          [] n >= 3 /\ at(1) = <<"blobs">> /\ at(0) # <<"uploads">> -> name_of("Blob", s, n - 2, at(0))
          [] n >= 3 /\ at(1) = <<"tags">> /\ at(0) = <<"list">> -> name_of("TagList", s, n - 2, <<>>)
          [] n >= 3 /\ at(1) = <<"referrers">> -> name_of("Referrers", s, n - 2, at(0))
          [] OTHER -> NoMatch

\* What follows "/v2" in the path.
route(rest) ==
    CASE rest \in {<<>>, <<"/">>} -> Endpoint("Base", <<>>, <<>>)
      [] OTHER ->
           LET s == Segments(Tail(rest))
           IN  CASE \E i \in DOMAIN s : s[i] = <<>> -> NoMatch
                 [] s = << <<"_", "catalog">> >> -> Endpoint("Catalog", <<>>, <<>>)
                 [] OTHER -> Suffixed(s)

\* The name of an API path: everything after the resource, decoded.
api_name(kind, raw, arg) ==
    IF raw = <<>> THEN NoMatch ELSE Named(kind, path_decode(raw), arg)

\* What follows "/api/v1/" in the path: a resource, then a name to the end of
\* the path, split at the last "@" where the resource takes a reference.
api_route(rest) ==
    LET pieces == Split(rest, "/")
        resource == Head(pieces)
        after == SubSeq(rest, Len(resource) + 2, Len(rest))
        remainder == IF after # <<>> /\ Last(after) = "/" THEN DropLast(after, 1) ELSE after
        at == rsplit_once(remainder, "@")
        pinned == HasToken(remainder, "@")
    IN  CASE resource = <<"repositories">> /\ remainder = <<>> -> Endpoint("Repositories", <<>>, <<>>)
          [] resource = <<"repositories">> /\ remainder # <<>> -> api_name("Repository", remainder, <<>>)
          [] resource = <<"tags">> -> api_name("Tags", remainder, <<>>)
          [] resource = <<"manifests">> /\ pinned -> api_name("ManifestInfo", at.left, path_decode(at.right))
          [] resource = <<"manifests">> /\ ~pinned -> api_name("Manifests", remainder, <<>>)
          [] resource = <<"tag-history">> /\ pinned -> api_name("TagHistory", at.left, path_decode(at.right))
          [] resource = <<"pull-counts">> /\ pinned -> api_name("PinnedCounts", at.left, path_decode(at.right))
          [] resource = <<"pull-counts">> /\ ~pinned -> api_name("PullCounts", remainder, <<>>)
          [] resource = <<"purge">> /\ remainder = <<>> -> Endpoint("Purge", <<>>, <<>>)
          [] OTHER -> NoMatch

\* The web UI answers a path it has no asset for with its shell.
Shell == Endpoint("Shell", <<>>, <<>>)

\* axum's route table, and the fallback for what it does not hold.
V2 == <<"/", "v2">>
Api == <<"/", "api", "/", "v1", "/">>
Routed(path) ==
    CASE path = V2 \/ IsPrefix(V2 \o <<"/">>, path) -> route(SubSeq(path, 3, Len(path)))
      [] IsStrictPrefix(Api, path) -> api_route(SubSeq(path, 6, Len(path)))
      [] IsPrefix(<<"/", "api", "/">>, path) /\ ~IsStrictPrefix(Api, path) -> NoMatch
      [] OTHER -> Shell

-----------------------------------------------------------------------------
(* What the paths mean, stated without a scan or an order of cases: the     *)
(* grammar of the names as the distribution specification writes it, and    *)
(* every way a path can be read as the spelling of an endpoint.             *)

\* [a-z0-9]+((\.|_|__|-+)[a-z0-9]+)*: begins and ends with an alphanumeric,
\* and what stands between two neighbouring alphanumerics is a separator.
Separator(s) == s \in {<<>>, <<".">>, <<"_">>, <<"_", "_">>} \/ \A i \in DOMAIN s : s[i] = "-"
IsComponent(s) ==
    /\ s # <<>> /\ s[1] \in Lower /\ s[Len(s)] \in Lower
    /\ \A i, j \in DOMAIN s :
          (i < j /\ s[i] \in Lower /\ s[j] \in Lower /\ \A k \in i + 1..j - 1 : s[k] \notin Lower)
          => Separator(SubSeq(s, i + 1, j - 1))
IsName(s) ==
    /\ Len(s) \in 1..MAX_NAME_LEN
    /\ \E cuts \in SUBSET {i \in DOMAIN s : s[i] = "/"} :
          LET ends == cuts \cup {0, Len(s) + 1}
          IN  \A i, j \in ends : (i < j /\ \A k \in ends : ~(i < k /\ k < j))
                                   => IsComponent(SubSeq(s, i + 1, j - 1))

\* Every cut of a path into a left part, a fixed middle and a right part that
\* holds no `stop`.
Cuts(path, middle, stop) ==
    {[left |-> SubSeq(path, 1, i), right |-> SubSeq(path, i + Len(middle) + 1, Len(path))] :
        i \in {i \in 0..Len(path) - Len(middle) :
                 /\ SubSeq(path, i + 1, i + Len(middle)) = middle
                 /\ \A k \in i + Len(middle) + 1..Len(path) : path[k] # stop}}

\* The endpoints that a cut spells: a name on the left, an argument on the right.
Spelled(kind, cuts) ==
    {Endpoint(kind, path_decode(c.left), path_decode(c.right)) :
        c \in {c \in cuts : IsName(path_decode(c.left))}}

Bare(path) == IF path # <<>> /\ Last(path) = "/" THEN DropLast(path, 1) ELSE path

\* With and without the one trailing slash that both routers forgive.
V2Readings(path) ==
    LET p == Bare(path)
        With(kind, middle) ==
            {e \in Spelled(kind, Cuts(p, middle, "/")) : e.arg # <<>> /\ ~(kind = "Blob" /\ e.arg = <<"uploads">>)}
        Without(kind, middle) == {e \in Spelled(kind, Cuts(p, middle, "/")) : e.arg = <<>>}
    IN  {Endpoint("Catalog", <<>>, <<>>) : c \in {p} \cap {<<"_", "catalog">>}}
        \cup With("Manifest", <<"/", "manifests", "/">>)
        \cup With("Blob", <<"/", "blobs", "/">>)
        \cup With("Upload", <<"/", "blobs", "/", "uploads", "/">>)
        \cup With("Referrers", <<"/", "referrers", "/">>)
        \cup Without("Uploads", <<"/", "blobs", "/", "uploads">>)
        \cup Without("TagList", <<"/", "tags", "/", "list">>)

ApiReadings(path) ==
    LET p == Bare(path)
        Below(word) == {SubSeq(p, 3, Len(p)) : q \in {q \in {p} : IsPrefix(<<word, "/">>, q)}}
        Alone(kind, word) == {Endpoint(kind, <<>>, <<>>) :
                                 q \in {path} \cap {<<word>>, <<word, "/">>, <<word, "/", "/">>}}
        All(kind, word) == UNION {Spelled(kind, {[left |-> r, right |-> <<>>]}) : r \in Below(word)}
        At(kind, word) == UNION {Spelled(kind, Cuts(r, <<"@">>, "@")) : r \in Below(word)}
    IN  Alone("Repositories", "repositories") \cup Alone("Purge", "purge")
        \cup All("Repository", "repositories") \cup All("Tags", "tags")
        \cup All("Manifests", "manifests") \cup At("ManifestInfo", "manifests")
        \cup At("TagHistory", "tag-history")
        \cup All("PullCounts", "pull-counts") \cup At("PinnedCounts", "pull-counts")

Readings(path) ==
    CASE path \in {V2, V2 \o <<"/">>} -> {Endpoint("Base", <<>>, <<>>)}
      [] IsStrictPrefix(V2 \o <<"/">>, path) -> V2Readings(SubSeq(path, 4, Len(path)))
      [] IsPrefix(Api, path) -> ApiReadings(SubSeq(path, 6, Len(path)))
      [] ~IsPrefix(V2 \o <<"/">>, path) /\ ~IsPrefix(Api, path) /\ path # V2 ->
           IF IsPrefix(<<"/", "api", "/">>, path) THEN {} ELSE {Shell}
=============================================================================
