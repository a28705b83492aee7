------------------------------ MODULE Listing ------------------------------
(***************************************************************************)
(* One client walks a listing page by page while others write.  Nothing on *)
(* the server survives between two pages but the rows themselves: a page   *)
(* is a scan of one key range from the cursor the last response named, and *)
(* some requests take several scans, or a scan and a lookup per row, with  *)
(* writes falling between any two.                                         *)
(*                                                                         *)
(* A row is what a key and its value say: its type, repository, name (of a *)
(* tag, a repository or an artifact type), digests a and b, and instant.   *)
(* The engine sees only its key.  What the walk must have shown is stated  *)
(* on rows.                                                                *)
(***************************************************************************)
EXTENDS Engine

CONSTANTS
    Universe,       \* for each kind of listing, the rows writers put and remove
    Ask,            \* [repo, tag, digest, type, needle]: what the client asks about
    Ns,             \* the values of ?n= a client sends, None when it sends none
    Start,          \* for each kind, the first cursors a client may name
    DefaultPage, MaxPage,
    SearchStep, SearchCeiling,
    CountStep, CountCeiling,
    MaxWrites

Kind == DOMAIN Universe
Kinds == {"tags", "details", "count", "catalog", "search", "manifests", "untagged", "tags_of",
          "parents", "referrers", "history", "manifest_history"}
History == {"history", "manifest_history"}
Counting == {"count"}
UnderV2 == {"tags", "catalog", "referrers"}

ASSUME BoundsAssumption ==
    /\ {DefaultPage, MaxPage, SearchStep, SearchCeiling, CountStep, CountCeiling}
         \subseteq Nat \ {0}
    /\ DefaultPage <= MaxPage
    /\ MaxWrites \in Nat /\ Ns \subseteq Nat \cup {None}

Byte == 0..MaxByte
InRepo == {"T", "M", "G", "S", "F", "H", "J"}

\* Rows are made of byte strings; those of a repository name it.
ASSUME RowAssumption ==
    /\ None \notin Byte
    /\ \A kind \in Kind : \A r \in Universe[kind] :
          /\ r.t \in InRepo \cup {"n", "U", "v"}
          /\ IF r.t \in InRepo THEN r.repo \in Byte ELSE r.repo = None
          /\ {r.name, r.a, r.b} \subseteq Seq(Byte) /\ r.at \in Byte

\* A digest is as long as its algorithm says; a tag is not empty and holds no TAG_END.
IsDigest(d) == d \in Seq(Byte) /\ d # <<>> /\ Len(d) = encoded_len_of(d[1])
IsTag(t) == t \in Seq(Byte \ {TAG_END}) /\ t # <<>>

\* What Digest, Tag and the clock give: no instant is the epoch.
ASSUME FieldAssumption ==
    \A kind \in Kind : \A r \in Universe[kind] :
        /\ r.t \in {"M", "G", "S", "F", "H", "J"} => IsDigest(r.a)
        /\ r.t \in {"S", "F"} => IsDigest(r.b)
        /\ r.t \in {"T", "G", "H", "J"} => IsTag(r.name)
        /\ r.t \in {"H", "J"} => r.at > 0

\* Where a client may resume.
Instant == [at : Byte, last : Seq(Byte) \cup {None}]
Cursors(kind) == IF kind \in History THEN Instant ELSE Seq(Byte)

ASSUME AskAssumption ==
    /\ None \notin Nat /\ None \notin Seq(Byte) /\ None \notin Instant
    /\ None \notin [digest : Seq(Byte), used : Nat]
    /\ Kind \subseteq Kinds /\ \A kind \in Kind : IsFiniteSet(Universe[kind])
    /\ Ask.repo \in Byte /\ IsTag(Ask.tag) /\ IsDigest(Ask.digest) /\ Ask.needle \in Seq(Byte)
    /\ \A kind \in Kind : Start[kind] \subseteq Cursors(kind)

VARIABLES
    rows,       \* the store
    walk,       \* the client's walk, and the request under way
    seen,       \* what the pages have shown, in order
    stable,     \* the rows there since the walk began (history)
    ever,       \* the rows there at any time since then (history)
    writes

vars == <<rows, walk, seen, stable, ever, writes>>

----------------------------------------------------------------------------
(* Rows and their keys.                                                    *)

KeyOf(r) ==
    CASE r.t = "T" -> tag(r.repo, r.name)
      [] r.t = "n" -> repo_by_name(r.name)
      [] r.t = "M" -> manifest(r.repo, r.a)
      [] r.t = "G" -> manifest_tag(r.repo, r.a, r.name)
      [] r.t = "S" -> child_parent(r.repo, r.a, r.b)
      [] r.t = "F" -> referrer(r.repo, r.a, r.b)
      [] r.t = "H" -> tag_history(r.repo, r.name, r.at, r.a)
      [] r.t = "J" -> manifest_tag_history(r.repo, r.a, r.at, r.name)
      [] r.t = "U" -> <<PREFIX_UPLOAD>> \o r.name
      [] r.t = "v" -> <<PREFIX_DB_VERSION>>

\* A key has one value.
ASSUME KeyAssumption ==
    \A kind \in Kind : \A r, s \in Universe[kind] : KeyOf(r) = KeyOf(s) => r = s

AllKeys == {KeyOf(r) : r \in rows}
ValueAt(key) == CHOOSE r \in rows : KeyOf(r) = key

----------------------------------------------------------------------------
(* What each listing scans, how it reads a position off a key, and how it  *)
(* makes a cursor of the position a client hands back.                     *)

RangeOf(kind) ==
    CASE kind \in {"tags", "details", "count"} -> tags_in_repo(Ask.repo)
      [] kind \in {"catalog", "search"} -> repos_by_name
      [] kind \in {"manifests", "untagged"} -> manifests_in_repo(Ask.repo)
      [] kind = "tags_of" -> tags_of_manifest(Ask.repo, Ask.digest)
      [] kind = "parents" -> parents_of(Ask.repo, Ask.digest)
      [] kind = "referrers" -> referrers_of(Ask.repo, Ask.digest)
      [] kind = "history" -> tag_history_of(Ask.repo, Ask.tag)
      [] kind = "manifest_history" -> manifest_tag_history_of(Ask.repo, Ask.digest)

PosOf(kind, key) ==
    CASE kind \in {"tags", "details", "count"} -> parse_tag_suffix(key)
      [] kind \in {"catalog", "search"} -> parse_repo_name(key)
      [] kind \in {"manifests", "untagged"} -> digest_after_repo(key)
      [] kind = "tags_of" -> parse_manifest_tag_suffix(key, Ask.digest)
      [] kind \in {"parents", "referrers"} -> second_digest_after_repo(key)
      [] kind = "history" -> tag_history_suffix(key, RangeOf(kind))
      [] kind = "manifest_history" -> manifest_tag_history_suffix(key, RangeOf(kind))

Resume(kind, p) ==
    CASE kind = "history" -> tag_history(Ask.repo, Ask.tag, p.at, p.last)
      [] kind = "manifest_history" -> manifest_tag_history(Ask.repo, Ask.digest, p.at, p.last)

ResumeInstant(kind, p) ==
    CASE kind = "history" -> tag_history_before(Ask.repo, Ask.tag, p.at)
      [] kind = "manifest_history" -> manifest_tag_history_before(Ask.repo, Ask.digest, p.at)

\* Of a history: before alone filters, before and last resume exactly.
HistoryCursor(kind, p) ==
    IF p.last = None THEN ResumeInstant(kind, p) ELSE Resume(kind, p)

CursorAt(kind, p) ==
    IF p = None THEN None
    ELSE CASE kind \in History -> HistoryCursor(kind, p)
      [] kind \in {"tags", "details", "count"} -> tag(Ask.repo, p)
      [] kind \in {"catalog", "search"} -> repo_by_name(p)
      [] kind \in {"manifests", "untagged"} -> manifest(Ask.repo, p)
      [] kind = "tags_of" -> manifest_tag(Ask.repo, Ask.digest, p)
      [] kind = "parents" -> child_parent(Ask.repo, Ask.digest, p)
      [] kind = "referrers" -> referrer(Ask.repo, Ask.digest, p)

Unclamped(kind, n) ==
    IF n = None THEN DefaultPage
    ELSE IF n = 0 /\ kind \notin UnderV2 THEN 1 ELSE n

\* pagination::parse under /v2/, page_params under /api/v1/.
LimitOf(kind, n) ==
    IF n = None THEN DefaultPage
    ELSE IF n > MaxPage THEN MaxPage
    ELSE IF n = 0 /\ kind \notin UnderV2 THEN 1 ELSE n

ExplicitZero(kind, n) == n = 0 /\ kind \in UnderV2

----------------------------------------------------------------------------
Init ==
    \E kind \in Kind, n \in Ns : \E from \in {None} \cup Start[kind] :
        /\ rows \in SUBSET Universe[kind]
        /\ walk = [kind |-> kind, n |-> n, from |-> from, token |-> from, pc |-> "ready",
                   page |-> <<>>, items |-> <<>>, more |-> None, examined |-> 0,
                   at |-> None, count |-> 0, complete |-> FALSE, cut |-> FALSE]
        /\ seen = <<>>
        /\ stable = rows /\ ever = rows
        /\ writes = 0

Limit == LimitOf(walk.kind, walk.n)
Page == Scan(AllKeys, RangeOf(walk.kind), CursorAt(walk.kind, walk.token), Limit)
Positions(ks) == [i \in 1..Len(ks) |-> PosOf(walk.kind, ks[i])]

\* The response: its items, and the cursor it names, None to end the walk.
Respond(items, next, cut) ==
    /\ seen' = seen \o items
    /\ walk' = [walk EXCEPT !.token = next, !.cut = cut,
                            !.pc = IF next = None THEN "done" ELSE "ready",
                            !.page = <<>>, !.items = <<>>, !.more = None,
                            !.examined = 0, !.at = None]

Continue(w) == walk' = w /\ UNCHANGED seen

NextPos(page) == IF page.next = None THEN None ELSE PosOf(walk.kind, page.next)

----------------------------------------------------------------------------
(* Listings that are one scan.                                             *)

\* The items of a sequence at some of its places, in order.
AtPlaces(s, places) ==
    [j \in 1..Cardinality(places) |->
        s[CHOOSE i \in places : Cardinality({h \in places : h < i}) = j - 1]]

\* The artifactType filter runs inside the page: the cursor follows the edges.
Matching(ks) ==
    AtPlaces(ks, {i \in 1..Len(ks) : walk.kind = "referrers" /\ Ask.type # None
                                       => ValueAt(ks[i]).name = Ask.type})

ReadPage(kind) ==
    /\ walk.pc = "ready" /\ walk.kind = kind
    /\ \E page \in {Page} :
        Respond(Positions(Matching(page.keys)),
                IF ExplicitZero(walk.kind, walk.n) THEN None ELSE NextPos(page), FALSE)
    /\ UNCHANGED <<rows, stable, ever, writes>>

ListTags == ReadPage("tags")
SearchRepos == ReadPage("catalog")
ListManifests == ReadPage("manifests")
TagsOfManifest == ReadPage("tags_of")
ParentsOfManifest == ReadPage("parents")
Referrers == ReadPage("referrers")
TagHistory == ReadPage("history")
ManifestTagHistory == ReadPage("manifest_history")

----------------------------------------------------------------------------
(* Listings that look each row of the scan up again.                       *)

ReadRows(kind) ==
    /\ walk.pc = "ready" /\ walk.kind = kind
    /\ \E page \in {Page} :
        Continue([walk EXCEPT !.pc = "lookup", !.page = Positions(page.keys), !.items = <<>>,
                  !.more = NextPos(page)])
    /\ UNCHANGED <<rows, stable, ever, writes>>

TagDetails == ReadRows("details")
UntaggedManifests == ReadRows("untagged")

KeptUnseen(p) == TRUE

\* get_tag; and for untagged_manifests the probe of G.
Kept(p) ==
    IF walk.kind = "details" THEN tag(Ask.repo, p) \in AllKeys
    ELSE ~exists_prefix(AllKeys, tags_of_manifest(Ask.repo, p))

LookUp ==
    /\ walk.pc = "lookup" /\ walk.page # <<>>
    /\ LET p == Head(walk.page) IN
        Continue([walk EXCEPT !.page = Tail(walk.page),
                  !.items = IF Kept(p) THEN Append(walk.items, p) ELSE walk.items])
    /\ UNCHANGED <<rows, stable, ever, writes>>

\* The cursor of details is its last item; a page whose every tag was deleted
\* meanwhile has none, and ends the walk.
ServeRows ==
    /\ walk.pc = "lookup" /\ walk.page = <<>>
    /\ LET next == IF walk.kind = "untagged" \/ walk.more = None THEN walk.more
                   ELSE IF walk.items = <<>> THEN None ELSE Last(walk.items)
       IN  Respond(walk.items, next, walk.more # None /\ next = None)
    /\ UNCHANGED <<rows, stable, ever, writes>>

----------------------------------------------------------------------------
(* search_repos_containing: steps of a scan, up to a ceiling, until one     *)
(* match more than the page holds has been met.                             *)

HasPart(name, part) ==
    \E i \in 0..(Len(name) - Len(part)) : SubSeq(name, i + 1, i + Len(part)) = part

SearchRestarts ==
    /\ walk.pc = "ready" /\ walk.kind = "search"
    /\ Continue([walk EXCEPT !.pc = "scan", !.at = None, !.items = <<>>, !.examined = 0])
    /\ UNCHANGED <<rows, stable, ever, writes>>

SearchStart ==
    /\ walk.pc = "ready" /\ walk.kind = "search"
    /\ Continue([walk EXCEPT !.pc = "scan", !.at = CursorAt("search", walk.token),
                 !.items = <<>>, !.examined = 0])
    /\ UNCHANGED <<rows, stable, ever, writes>>

Smaller(i, j) == IF i < j THEN i ELSE j
StepSize == Smaller(SearchStep, SearchCeiling - walk.examined)

StoppedAtMatch(page, items) == IF items = <<>> THEN None ELSE Last(items)
\* The cursor when the ceiling stops the walk: the last name examined.
Stopped(page, items) == NextPos(page)

SearchScan ==
    /\ walk.pc = "scan" /\ walk.kind = "search"
    /\ \E page \in {Scan(AllKeys, repos_by_name, walk.at, StepSize)} :
       LET names == Positions(page.keys)
           hits == AtPlaces(names, {i \in 1..Len(names) : HasPart(names[i], Ask.needle)})
           all == walk.items \o hits
           examined == walk.examined + Len(page.keys)
       IN  \/ /\ Len(all) > Limit
              /\ Respond(SubSeq(all, 1, Limit), all[Limit], FALSE)
           \/ /\ Len(all) <= Limit /\ page.next = None
              /\ Respond(all, None, FALSE)
           \/ /\ Len(all) <= Limit /\ page.next # None /\ examined >= SearchCeiling
              /\ Respond(all, Stopped(page, all), FALSE)
           \/ /\ Len(all) <= Limit /\ page.next # None /\ examined < SearchCeiling
              /\ Continue([walk EXCEPT !.items = all, !.examined = examined, !.at = page.next])
    /\ UNCHANGED <<rows, stable, ever, writes>>

----------------------------------------------------------------------------
(* count_to_ceiling.                                                       *)

CountedOutEarly(count, next) == count >= CountCeiling
CountedOut(count, next) == next # None /\ count >= CountCeiling

CountScan ==
    /\ walk.pc = "ready" /\ walk.kind \in Counting
    /\ \E page \in {Scan(AllKeys, RangeOf(walk.kind), walk.at, CountStep)} :
       LET count == walk.count + Len(page.keys) IN
           IF page.next = None \/ CountedOut(count, page.next)
           THEN Continue([walk EXCEPT !.pc = "done", !.count = count,
                          !.complete = ~CountedOut(count, page.next)])
           ELSE Continue([walk EXCEPT !.count = count, !.at = CursorAt("count", PosOf("count", page.next))])
    /\ UNCHANGED <<rows, stable, ever, writes>>

----------------------------------------------------------------------------
(* Writers.                                                                *)

Wrote(after) ==
    /\ writes < MaxWrites /\ walk.pc # "done"
    /\ writes' = writes + 1
    /\ rows' = after
    /\ stable' = stable \cap after
    /\ ever' = ever \cup after
    /\ UNCHANGED <<walk, seen>>

Put(r) == r \notin rows /\ Wrote(rows \cup {r})
Drop(r) == r \in rows /\ Wrote(rows \ {r})

SweepRanges(repo) ==
    {manifests_in_repo(repo), manifest_bodies_in_repo(repo), tags_in_repo(repo),
     manifest_tags_in_repo(repo), blobs_in_repo(repo), children_in_repo(repo),
     referrers_in_repo(repo), tag_history_in_repo(repo), manifest_tag_history_in_repo(repo)}
        \cup {counters_in_repo_scope(s, repo) : s \in {SCOPE_MANIFEST, SCOPE_TAG, SCOPE_REPO}}

\* What plan_repo_sweep_finish leaves.
Swept(repo) ==
    {r \in rows : \A p \in SweepRanges(repo) : KeyOf(r) \in DeletePrefix(AllKeys, p)}

\* The sweep of another repository, as one batch.
Sweep(repo) == Wrote(Swept(repo))

Neighbours == {r.repo : r \in rows} \ {Ask.repo, None}

WalkStep ==
    \/ ListTags \/ SearchRepos \/ ListManifests \/ TagsOfManifest \/ ParentsOfManifest
    \/ Referrers \/ TagHistory \/ ManifestTagHistory
    \/ TagDetails \/ UntaggedManifests \/ LookUp \/ ServeRows
    \/ SearchStart \/ SearchScan
    \/ CountScan

Finished == walk.pc = "done" /\ UNCHANGED vars

Next ==
    \/ WalkStep
    \/ \E r \in Universe[walk.kind] : Put(r) \/ Drop(r)
    \/ \E repo \in Neighbours : Sweep(repo)
    \/ Finished

Spec == Init /\ [][Next]_vars
----------------------------------------------------------------------------
(* The same listings as the in-memory registry gives them: over its maps,  *)
(* which know no keys.                                                     *)

\* What a listing is about, and the position of a row in it.
Wanted(kind, r) ==
    CASE kind \in {"tags", "details", "count"} -> r.t = "T" /\ r.repo = Ask.repo
      [] kind = "catalog" -> r.t = "n"
      [] kind = "search" -> r.t = "n" /\ HasPart(r.name, Ask.needle)
      [] kind = "manifests" -> r.t = "M" /\ r.repo = Ask.repo
      [] kind = "untagged" -> r.t = "M" /\ r.repo = Ask.repo
      [] kind = "tags_of" -> r.t = "G" /\ r.repo = Ask.repo /\ r.a = Ask.digest
      [] kind = "parents" -> r.t = "S" /\ r.repo = Ask.repo /\ r.a = Ask.digest
      [] kind = "referrers" -> r.t = "F" /\ r.repo = Ask.repo /\ r.a = Ask.digest
      [] kind = "history" -> r.t = "H" /\ r.repo = Ask.repo /\ r.name = Ask.tag
      [] kind = "manifest_history" -> r.t = "J" /\ r.repo = Ask.repo /\ r.a = Ask.digest

RowPos(kind, r) ==
    CASE kind \in {"tags", "details", "count", "catalog", "search", "tags_of"} -> r.name
      [] kind \in {"manifests", "untagged"} -> r.a
      [] kind \in {"parents", "referrers"} -> r.b
      [] kind = "history" -> [at |-> r.at, last |-> r.a]
      [] kind = "manifest_history" -> [at |-> r.at, last |-> r.name]

\* Newest first, ties by the other half of the key; and the order of bytes.
Precedes(kind, p, q) ==
    IF kind \in History
    THEN p.at > q.at \/ (p.at = q.at /\ LexLess(p.last, q.last))
    ELSE LexLess(p, q)

\* Strictly after the cursor.
After(kind, token, p) ==
    CASE token = None -> TRUE
      [] token # None /\ kind \in History ->
           p.at < token.at \/ (token.last # None /\ p.at = token.at /\ LexLess(token.last, p.last))
      [] OTHER -> LexLess(token, p)

\* paginate, and the same sort and cut in referrers and tag_history.  For the
\* listings the in-memory registry does not have (untagged manifests, tags and
\* parents of a manifest) the reference is that cut of the rows asked for.
MemoryRows(kind, token, limit) ==
    LET all == {r \in rows : Wanted(kind, r) /\ After(kind, token, RowPos(kind, r))}
        before(r) == {s \in all : Precedes(kind, RowPos(kind, s), RowPos(kind, r))}
        sorted == [i \in 1..Cardinality(all) |->
                      CHOOSE r \in all : Cardinality(before(r)) = i - 1]
    IN  [page |-> SubSeq(sorted, 1, Smaller(limit, Len(sorted))), more |-> Len(sorted) > limit]

MemoryPage(kind, token, limit) ==
    LET got == MemoryRows(kind, token, limit)
        kept == AtPlaces(got.page, {i \in 1..Len(got.page) :
                    kind = "referrers" /\ Ask.type # None => got.page[i].name = Ask.type})
    IN  [items |-> [i \in 1..Len(kept) |-> RowPos(kind, kept[i])],
         next |-> IF got.more THEN RowPos(kind, Last(got.page)) ELSE None]

----------------------------------------------------------------------------
(* Properties.                                                             *)

(* No page holds more than the cap, whatever ?n= asks for, and every       *)
(* position a page shows could be read off its key.                        *)
TypeOK ==
    /\ rows \subseteq Universe[walk.kind]
    /\ stable \subseteq rows /\ rows \subseteq ever
    /\ walk.pc \in {"ready", "lookup", "scan", "done"}
    /\ None \notin {seen[i] : i \in 1..Len(seen)}
    /\ Len(walk.page) <= MaxPage /\ Len(walk.items) <= MaxPage
    /\ writes \in 0..MaxWrites

(* The two implementations of the seam agree: whatever the store holds and *)
(* wherever the client resumes, the page a scan of the encoded keys yields *)
(* is the page the in-memory registry takes from its maps.                 *)
PagesAgree ==
    walk.pc = "ready" /\ walk.kind \notin {"search"} \cup Counting /\ Limit > 0 =>
        LET page == Page IN
        [items |-> Positions(Matching(page.keys)), next |-> NextPos(page)]
            = MemoryPage(walk.kind, walk.token, Limit)

(* The pages of a walk go strictly forward in the order of the listing: no *)
(* row is shown twice and none out of order, whatever is written between.  *)
PagesAscend ==
    \A i \in 1..(Len(seen) - 1) : Precedes(walk.kind, seen[i], seen[i + 1])

\* Whether a row is one the walk was asked for.
Due(r) ==
    /\ Wanted(walk.kind, r) /\ After(walk.kind, walk.from, RowPos(walk.kind, r))
    /\ walk.kind = "referrers" /\ Ask.type # None => r.name = Ask.type

Tagged(S, m) == \E g \in S : g.t = "G" /\ g.repo = m.repo /\ g.a = m.a

(* A walk that came to its end has shown every row that was there all the  *)
(* time, however many were added and removed around it.  The exception is  *)
(* a page of tag details all of whose tags were deleted under it, which    *)
(* carries no cursor although more follow.                                 *)
WalkComplete ==
    walk.pc = "done" /\ walk.kind \notin Counting /\ ~walk.cut
      /\ ~ExplicitZero(walk.kind, walk.n) =>
        \A r \in stable :
            Due(r) /\ (walk.kind = "untagged" => ~Tagged(ever, r)) =>
                \E i \in 1..Len(seen) : seen[i] = RowPos(walk.kind, r)

(* Nothing is shown that was not asked for: every position is that of a    *)
(* row of the listing that was in the store during the walk, and an        *)
(* untagged manifest was not tagged throughout.                            *)
OnlyAskedFor ==
    \A i \in 1..Len(seen) :
        \E r \in ever : /\ Due(r) /\ RowPos(walk.kind, r) = seen[i]
                        /\ walk.kind = "untagged" => ~Tagged(stable, r)

(* A tally that claims to be complete lies between the rows there all the  *)
(* time and those there at any time; one that does not has reached the     *)
(* ceiling.                                                                *)
TallyHonest ==
    walk.kind \in Counting /\ walk.pc = "done" =>
        LET Count(S) == Cardinality({r \in S : Wanted(walk.kind, r)}) IN
        IF walk.complete
        THEN Count(stable) <= walk.count /\ walk.count <= Count(ever)
        ELSE CountCeiling <= walk.count /\ CountCeiling < Count(ever)

(* A sweep takes all of the dead repository's rows and not one of any      *)
(* other: the ranges it deletes end exactly where the prefix does.         *)
SweepExact ==
    \A repo \in Neighbours : Swept(repo) = {r \in rows : r.repo # repo}
=============================================================================
