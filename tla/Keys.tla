-------------------------------- MODULE Keys --------------------------------
(***************************************************************************)
(* The keys of the metadata store.  A key is a sequence of bytes, and the  *)
(* order of the bytes is the order of every listing, so the layout is kept *)
(* component by component; only the widths shrink.  A repository id, a     *)
(* timestamp, a day and a shard are one byte each, and a digest is its     *)
(* algorithm byte and one or two more: the two lengths a digest may have   *)
(* stay different.  MaxByte stands for 0xff.                               *)
(***************************************************************************)
EXTENDS Naturals, Sequences

CONSTANT MaxByte, None

\* The type bytes, in the order of their letters.
PREFIX_COUNTER == 1              \* A
PREFIX_BLOB == 2                 \* B
PREFIX_BLOB_MARK == 3            \* C
PREFIX_DEAD_REPO == 4            \* D
PREFIX_REFERRER == 5             \* F
PREFIX_MANIFEST_TAG == 6         \* G
PREFIX_TAG_HISTORY == 7          \* H
PREFIX_MANIFEST_TAG_HISTORY == 8 \* J
PREFIX_MANIFEST == 9             \* M
PREFIX_REPO_BLOB == 10           \* P
PREFIX_BLOB_REF == 11            \* R
PREFIX_CHILD_PARENT == 12        \* S
PREFIX_TAG == 13                 \* T
PREFIX_UPLOAD == 14              \* U
PREFIX_MANIFEST_BODY == 15       \* Z
PREFIX_REPO_BY_ID == 16          \* i
PREFIX_REPO_BY_NAME == 17        \* n
PREFIX_DB_VERSION == 18          \* v

SCOPE_MANIFEST == 1
SCOPE_REPO == 2
SCOPE_TAG == 3

ASSUME ByteAssumption == MaxByte \in Nat /\ MaxByte > PREFIX_DB_VERSION

\* Sorts below every byte of a tag.
TAG_END == 0
REPO_LEN == 1

----------------------------------------------------------------------------
(* Digests.                                                                *)

ALGO_SHA256 == 1
ALGO_SHA512 == 2

encoded_len_of(algo) ==
    CASE algo = ALGO_SHA256 -> 2 [] algo = ALGO_SHA512 -> 3 [] OTHER -> None

\* The digest at the head of buf and the bytes it takes, or None.
decode(buf) ==
    IF buf = <<>> \/ encoded_len_of(buf[1]) = None THEN None
    ELSE LET n == encoded_len_of(buf[1]) IN
         IF Len(buf) < n THEN None ELSE [digest |-> SubSeq(buf, 1, n), used |-> n]

\* key.get(n..): None when the key is shorter.
Rest(key, n) == IF Len(key) < n THEN None ELSE SubSeq(key, n + 1, Len(key))

\* strip_prefix.
Stripped(key, prefix) ==
    IF Len(key) >= Len(prefix) /\ SubSeq(key, 1, Len(prefix)) = prefix
    THEN Rest(key, Len(prefix)) ELSE None

----------------------------------------------------------------------------
(* Manifests, tags and the edges between them.                             *)

start_repo(prefix, repo) == <<prefix, repo>>

manifest(repo, d) == start_repo(PREFIX_MANIFEST, repo) \o d
manifest_body(repo, d) == start_repo(PREFIX_MANIFEST_BODY, repo) \o d
manifests_in_repo(repo) == start_repo(PREFIX_MANIFEST, repo)
manifest_bodies_in_repo(repo) == start_repo(PREFIX_MANIFEST_BODY, repo)

tag(repo, t) == start_repo(PREFIX_TAG, repo) \o t
tags_in_repo(repo) == start_repo(PREFIX_TAG, repo)
parse_tag_suffix(key) ==
    IF key[1] # PREFIX_TAG THEN None ELSE Rest(key, 1 + REPO_LEN)

tags_of_manifest(repo, d) == start_repo(PREFIX_MANIFEST_TAG, repo) \o d
manifest_tag(repo, d, t) == tags_of_manifest(repo, d) \o t
manifest_tags_in_repo(repo) == start_repo(PREFIX_MANIFEST_TAG, repo)
parse_manifest_tag_suffix(key, d) == Rest(key, 1 + REPO_LEN + Len(d))

parents_of(repo, child) == start_repo(PREFIX_CHILD_PARENT, repo) \o child
child_parent(repo, child, parent) == parents_of(repo, child) \o parent
children_in_repo(repo) == start_repo(PREFIX_CHILD_PARENT, repo)

referrers_of(repo, subject) == start_repo(PREFIX_REFERRER, repo) \o subject
referrer(repo, subject, d) == referrers_of(repo, subject) \o d
referrers_in_repo(repo) == start_repo(PREFIX_REFERRER, repo)

DigestAt(key, n) ==
    LET rest == Rest(key, n) IN
    IF rest = None \/ decode(rest) = None THEN None ELSE decode(rest).digest

digest_after_repo(key) == DigestAt(key, 1 + REPO_LEN)
second_digest_after_repo(key) ==
    LET first == digest_after_repo(key) IN
    IF first = None THEN None ELSE DigestAt(key, 1 + REPO_LEN + Len(first))

----------------------------------------------------------------------------
(* Blobs.                                                                  *)

blob(d) == <<PREFIX_BLOB>> \o d
blob_mark(d) == <<PREFIX_BLOB_MARK>> \o d
blob_refs(d) == <<PREFIX_BLOB_REF>> \o d
blob_refs_in_repo(d, repo) == blob_refs(d) \o <<repo>>
blob_ref(d, repo, m) == blob_refs_in_repo(d, repo) \o m
blob_ref_target(key) ==
    LET d == DigestAt(key, 1)
        m == IF d = None THEN None ELSE DigestAt(key, 1 + Len(d) + REPO_LEN)
    IN  IF m = None THEN None ELSE [repo |-> key[2 + Len(d)], manifest |-> m]

blobs_in_repo(repo) == start_repo(PREFIX_REPO_BLOB, repo)
repo_blob(repo, d) == blobs_in_repo(repo) \o d

----------------------------------------------------------------------------
(* History: the instant is stored complemented, so that newer sorts first. *)

desc_time(at) == <<MaxByte - at>>
read_desc_time(b) == MaxByte - b
\* Strictly before at.
JustBefore(at) == desc_time(IF at = 0 THEN 0 ELSE at - 1)

tag_history_in_repo(repo) == start_repo(PREFIX_TAG_HISTORY, repo)
tag_history_of(repo, t) == tag_history_in_repo(repo) \o t \o <<TAG_END>>
tag_history(repo, t, at, d) == tag_history_of(repo, t) \o desc_time(at) \o d
tag_history_before(repo, t, at) == tag_history_of(repo, t) \o JustBefore(at)
tag_history_suffix(key, prefix) ==
    LET rest == Stripped(key, prefix) IN
    IF rest = None \/ Len(rest) < 1 \/ DigestAt(rest, 1) = None THEN None
    ELSE [at |-> read_desc_time(rest[1]), last |-> DigestAt(rest, 1)]

manifest_tag_history_in_repo(repo) == start_repo(PREFIX_MANIFEST_TAG_HISTORY, repo)
manifest_tag_history_of(repo, d) == manifest_tag_history_in_repo(repo) \o d
manifest_tag_history(repo, d, at, t) ==
    manifest_tag_history_of(repo, d) \o desc_time(at) \o t
manifest_tag_history_before(repo, d, at) ==
    manifest_tag_history_of(repo, d) \o JustBefore(at)
manifest_tag_history_suffix(key, prefix) ==
    LET rest == Stripped(key, prefix) IN
    IF rest = None \/ Len(rest) < 1 THEN None
    ELSE [at |-> read_desc_time(rest[1]), last |-> Rest(rest, 1)]

----------------------------------------------------------------------------
(* Counters.                                                               *)

counters_in_repo_scope(scope, repo) == <<PREFIX_COUNTER, scope, repo>>
counters_of_manifest(repo, d) == counters_in_repo_scope(SCOPE_MANIFEST, repo) \o d
counters_of_tag(repo, t) == counters_in_repo_scope(SCOPE_TAG, repo) \o t \o <<TAG_END>>
counters_of_repo(repo) == counters_in_repo_scope(SCOPE_REPO, repo)
\* counter_manifest, counter_tag and counter_repo: a subject's prefix, a bucket.
push_bucket(prefix, day, shard) == prefix \o <<day, shard>>
\* Without a shard, and so before every shard of the day.
counters_from_day(prefix, day) == prefix \o <<day>>
counter_suffix(key, prefix) ==
    LET rest == Stripped(key, prefix) IN
    IF rest = None \/ Len(rest) # 2 THEN None ELSE [day |-> rest[1], shard |-> rest[2]]

----------------------------------------------------------------------------
(* Repositories.                                                           *)

repos_by_name == <<PREFIX_REPO_BY_NAME>>
repo_by_name(name) == repos_by_name \o name
parse_repo_name(key) ==
    IF key[1] # PREFIX_REPO_BY_NAME THEN None ELSE Rest(key, 1)
=============================================================================
