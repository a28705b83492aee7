------------------------------- MODULE Engine -------------------------------
(***************************************************************************)
(* What the metadata engines promise about an ordered set of keys: a page  *)
(* of a prefix scan, a probe for a prefix, and the deletion of one.  Both  *)
(* engines walk the same way; where they differ the RocksDB one is taken,  *)
(* with the prefix filter it builds from the key layout: an iterator that  *)
(* seeks a key in the filter's domain returns no key outside its group.    *)
(***************************************************************************)
EXTENDS Keys, SequencesExt

LexLess(j, k) ==
    \/ IsStrictPrefix(j, k)
    \/ \E i \in 1..Len(j) :
        i <= Len(k) /\ j[i] < k[i] /\ SubSeq(j, 1, i - 1) = SubSeq(k, 1, i - 1)

\* The keys of a set in order.
Sorted(S) ==
    [i \in 1..Cardinality(S) |->
        CHOOSE k \in S : Cardinality({j \in S : LexLess(j, k)}) = i - 1]

Starts(key, prefix) == IsPrefix(prefix, key)

----------------------------------------------------------------------------
(* The prefix filter.                                                      *)

RepoGroupDeep == 2 + REPO_LEN
\* M, Z, T, P, H and J group on the repository.
RepoGroup == 1 + REPO_LEN

\* The length of the group of a key by its type, None for types with none.
GroupLen(key) ==
    LET DigestLen(n) == IF Len(key) < n THEN None ELSE encoded_len_of(key[n])
        Plus(n, l) == IF l = None THEN None ELSE n + l
    IN  CASE key[1] = PREFIX_BLOB_REF -> Plus(1, DigestLen(2))
          [] key[1] \in {PREFIX_MANIFEST_TAG, PREFIX_CHILD_PARENT, PREFIX_REFERRER} ->
               Plus(1 + REPO_LEN, DigestLen(2 + REPO_LEN))
          [] key[1] = PREFIX_COUNTER /\ Len(key) > 1 ->
               IF key[2] = SCOPE_MANIFEST
               THEN Plus(2 + REPO_LEN, DigestLen(3 + REPO_LEN)) ELSE 2 + REPO_LEN
          [] key[1] \in {PREFIX_MANIFEST, PREFIX_MANIFEST_BODY, PREFIX_TAG,
                         PREFIX_REPO_BLOB, PREFIX_TAG_HISTORY,
                         PREFIX_MANIFEST_TAG_HISTORY} -> RepoGroup
          [] OTHER -> None

summ_prefix_len(key) == IF key = <<>> THEN None ELSE GroupLen(key)
summ_in_domain(key) == summ_prefix_len(key) # None /\ Len(key) >= summ_prefix_len(key)
summ_transform(key) == IF summ_in_domain(key) THEN SubSeq(key, 1, summ_prefix_len(key)) ELSE key

\* prefix_same_as_start: an iterator stays in the group of the key it seeks.  A
\* seek the filter cannot classify is bounded by the range alone.
SameGroup(seek, key) ==
    summ_in_domain(seek) => summ_transform(key) = summ_transform(seek)

----------------------------------------------------------------------------
(* Reading.                                                                *)

\* The keys a walk meets from the cursor on, up to the first one outside the
\* prefix: a cursor before the range ends the walk at once.
Walk(keys, prefix, after) ==
    LET seek == IF after = None THEN prefix ELSE after
        From == {k \in keys : /\ IF after = None THEN ~LexLess(k, prefix) ELSE LexLess(after, k)
                              /\ SameGroup(seek, k)}
    IN  Sorted({k \in From : \A j \in From : Starts(j, prefix) \/ LexLess(k, j)})

\* scan, scan_keys: read one past the limit, and its predecessor is the cursor.
Scan(keys, prefix, after, limit) ==
    LET w == Walk(keys, prefix, after) IN
    IF limit = 0 THEN [keys |-> <<>>, next |-> None]
    ELSE IF Len(w) > limit
         THEN [keys |-> SubSeq(w, 1, limit), next |-> w[limit]]
         ELSE [keys |-> w, next |-> None]

exists_prefix(keys, prefix) == Walk(keys, prefix, None) # <<>>

----------------------------------------------------------------------------
(* Deleting a prefix, through the half-open range [prefix, successor).      *)

BumpLast(prefix) == [prefix EXCEPT ![Len(prefix)] = @ + 1]

NoCarry(prefix) == [prefix EXCEPT ![Len(prefix)] = (@ + 1) % (MaxByte + 1)]

\* Trailing 0xff bytes carry; a prefix of nothing else has no successor.
prefix_successor(prefix) ==
    LET low == {i \in 1..Len(prefix) : prefix[i] < MaxByte} IN
    IF low = {} THEN None
    ELSE BumpLast(SubSeq(prefix, 1, CHOOSE i \in low : \A j \in low : j <= i))

DeletePrefix(keys, prefix) ==
    LET end == prefix_successor(prefix) IN
    IF end = None THEN {k \in keys : ~Starts(k, prefix)}
    ELSE {k \in keys : LexLess(k, prefix) \/ ~LexLess(k, end)}
=============================================================================
