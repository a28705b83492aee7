---------------------------- MODULE ListingProofs ----------------------------
(***************************************************************************)
(* Proofs about Listing and the ranges of Engine, for all keys, rows and   *)
(* writes: what a range deletion deletes; that a scan returns the keys of  *)
(* its range after the cursor in order; that every listing's range holds   *)
(* its rows and no other; and, from the invariant WalkInv, what a walk of  *)
(* pages shows while others write.                                         *)
(***************************************************************************)
EXTENDS Listing, SequenceTheorems, FiniteSetTheorems, WellFoundedInduction, TLAPS

----------------------------------------------------------------------------
(* The order of keys.                                                       *)

\* Two sequences that agree up to n.
Agree(s, t, n) == \A i \in 1..n : s[i] = t[i]

\* Prefixes of the same length are equal when they agree at every place.
LEMMA SubSeqAgree ==
    ASSUME NEW s \in Seq(Byte), NEW t \in Seq(Byte), NEW n \in Nat, n <= Len(s), n <= Len(t)
    PROVE  SubSeq(s, 1, n) = SubSeq(t, 1, n) <=> Agree(s, t, n)
<1>1. /\ SubSeq(s, 1, n) \in Seq(Byte) /\ Len(SubSeq(s, 1, n)) = n
      /\ \A i \in 1..n : SubSeq(s, 1, n)[i] = s[i]
  OBVIOUS
<1>2. /\ SubSeq(t, 1, n) \in Seq(Byte) /\ Len(SubSeq(t, 1, n)) = n
      /\ \A i \in 1..n : SubSeq(t, 1, n)[i] = t[i]
  OBVIOUS
<1>. DEFINE u == SubSeq(s, 1, n)
            v == SubSeq(t, 1, n)
<1>. HIDE DEF u, v
<1>3. ASSUME Agree(s, t, n) PROVE u = v
  <2>1. u \in Seq(Byte) /\ v \in Seq(Byte) /\ Len(u) = Len(v)
    BY <1>1, <1>2 DEF u, v
  <2>2. \A i \in 1..Len(u) : u[i] = v[i]
    BY <1>1, <1>2, <1>3 DEF u, v, Agree
  <2>. QED  BY <2>1, <2>2, SeqEqual
<1>4. ASSUME u = v PROVE Agree(s, t, n)
  BY <1>1, <1>2, <1>4 DEF u, v, Agree
<1>. QED  BY <1>3, <1>4 DEF u, v

\* A key starts with a prefix when it is as long and agrees with it.
LEMMA StartsAgree ==
    ASSUME NEW key \in Seq(Byte), NEW prefix \in Seq(Byte)
    PROVE  Starts(key, prefix) <=> Len(prefix) <= Len(key) /\ Agree(prefix, key, Len(prefix))
BY SubSeqAgree DEF Starts, IsPrefix

\* One key is below another when it is a part of it, or smaller where they
\* first differ.
LEMMA LessAgree ==
    ASSUME NEW j \in Seq(Byte), NEW k \in Seq(Byte)
    PROVE  LexLess(j, k) <=>
              \/ Len(j) < Len(k) /\ Agree(j, k, Len(j))
              \/ \E i \in 1..Len(j) : i <= Len(k) /\ j[i] < k[i] /\ Agree(j, k, i - 1)
<1>1. IsStrictPrefix(j, k) <=> Len(j) < Len(k) /\ Agree(j, k, Len(j))
  <2>1. IsPrefix(j, k) <=> Len(j) <= Len(k) /\ Agree(j, k, Len(j))
    BY SubSeqAgree DEF IsPrefix
  <2>2. Len(j) = Len(k) /\ Agree(j, k, Len(j)) => j = k
    BY SeqEqual DEF Agree
  <2>. QED  BY <2>1, <2>2 DEF IsStrictPrefix
<1>2. ASSUME NEW i \in 1..Len(j), i <= Len(k)
      PROVE  SubSeq(j, 1, i - 1) = SubSeq(k, 1, i - 1) <=> Agree(j, k, i - 1)
  <2>1. i - 1 \in Nat /\ i - 1 <= Len(j) /\ i - 1 <= Len(k)
    BY <1>2
  <2>. QED  BY <2>1, SubSeqAgree
<1>. QED  BY <1>1, <1>2 DEF LexLess

\* Where two keys first differ.
LEMMA FirstDifference ==
    ASSUME NEW D, D \subseteq Nat, D # {}
    PROVE  \E d \in D : \A e \in D : d <= e
<1>1. PICK d \in D : \A e \in D : ~(<<e, d>> \in OpToRel(<, Nat))
  BY NatLessThanWellFounded, WFMin
<1>2. \A e \in D : ~(e < d)
  <2>. SUFFICES ASSUME NEW e \in D, e < d PROVE FALSE
    OBVIOUS
  <2>1. <<e, d>> \in Nat \X Nat /\ <<e, d>>[1] = e /\ <<e, d>>[2] = d
    OBVIOUS
  <2>. QED  BY <1>1, <2>1 DEF OpToRel
<1>. QED  BY <1>2

\* A prefix that is not all 0xff: its successor has the same bytes up to the
\* last one below 0xff, which is one more, and nothing after it.
LEMMA SuccessorShape ==
    ASSUME NEW prefix \in Seq(Byte), prefix_successor(prefix) # None
    PROVE  \E n \in 1..Len(prefix) :
              /\ prefix[n] < MaxByte /\ \A i \in n + 1..Len(prefix) : prefix[i] = MaxByte
              /\ prefix_successor(prefix) \in Seq(Byte) /\ Len(prefix_successor(prefix)) = n
              /\ Agree(prefix, prefix_successor(prefix), n - 1)
              /\ prefix_successor(prefix)[n] = prefix[n] + 1
<1>. DEFINE low == {i \in 1..Len(prefix) : prefix[i] < MaxByte}
<1>1. low # {}
  BY DEF prefix_successor
<1>2. \E n \in low : \A j \in low : j <= n
  <2>. DEFINE D == {Len(prefix) - i : i \in low}
  <2>1. PICK d \in D : \A e \in D : d <= e
    <3>1. D \subseteq Nat /\ D # {}
      BY <1>1
    <3>. QED  BY <3>1, FirstDifference
  <2>2. PICK n \in low : d = Len(prefix) - n
    OBVIOUS
  <2>3. ASSUME NEW j \in low PROVE j <= n
    <3>1. Len(prefix) - n <= Len(prefix) - j
      BY <2>1, <2>2
    <3>2. Len(prefix) \in Nat /\ n \in Nat /\ j \in Nat
      OBVIOUS
    <3>. QED  BY <3>1, <3>2
  <2>. QED  BY <2>3
<1>3. PICK n : n = CHOOSE i \in low : \A j \in low : j <= i
  OBVIOUS
<1>4. n \in low /\ \A j \in low : j <= n
  BY <1>2, <1>3
<1>5. n \in 1..Len(prefix) /\ prefix[n] < MaxByte
  BY <1>4
<1>6. ASSUME NEW i \in n + 1..Len(prefix) PROVE prefix[i] = MaxByte
  <2>1. i \notin low /\ i \in 1..Len(prefix)
    BY <1>4, <1>5
  <2>2. prefix[i] \in Byte /\ ~(prefix[i] < MaxByte)
    BY <2>1
  <2>. QED  BY <2>2, ByteAssumption DEF Byte
<1>. DEFINE head == SubSeq(prefix, 1, n)
<1>7. head \in Seq(Byte) /\ Len(head) = n /\ \A i \in 1..n : head[i] = prefix[i]
  BY <1>5
<1>8. prefix_successor(prefix) = BumpLast(head)
  BY <1>1, <1>3 DEF prefix_successor
<1>. HIDE DEF head, low
<1>9. prefix[n] + 1 \in Byte
  BY <1>5, ByteAssumption DEF Byte
<1>10. BumpLast(head) = [head EXCEPT ![n] = prefix[n] + 1]
  <2>1. BumpLast(head) = [head EXCEPT ![Len(head)] = head[Len(head)] + 1]
    BY DEF BumpLast
  <2>2. Len(head) = n /\ head[n] = prefix[n]
    BY <1>5, <1>7
  <2>. QED  BY <2>1, <2>2
<1>11. /\ BumpLast(head) \in Seq(Byte) /\ Len(BumpLast(head)) = n
       /\ \A i \in 1..n : BumpLast(head)[i] = IF i = n THEN prefix[n] + 1 ELSE head[i]
  BY <1>5, <1>7, <1>9, <1>10, ExceptSeq
<1>12. Agree(prefix, BumpLast(head), n - 1) /\ BumpLast(head)[n] = prefix[n] + 1
  BY <1>5, <1>7, <1>11 DEF Agree
<1>. QED  BY <1>5, <1>6, <1>8, <1>11, <1>12

\* A key lies in the range from a prefix to its successor exactly when it
\* starts with the prefix.
LEMMA RangeIsPrefix ==
    ASSUME NEW prefix \in Seq(Byte), prefix_successor(prefix) # None, NEW key \in Seq(Byte)
    PROVE  Starts(key, prefix) <=>
              ~LexLess(key, prefix) /\ LexLess(key, prefix_successor(prefix))
<1>1. PICK n \in 1..Len(prefix) :
              /\ prefix[n] < MaxByte /\ \A i \in n + 1..Len(prefix) : prefix[i] = MaxByte
              /\ prefix_successor(prefix) \in Seq(Byte) /\ Len(prefix_successor(prefix)) = n
              /\ Agree(prefix, prefix_successor(prefix), n - 1)
              /\ prefix_successor(prefix)[n] = prefix[n] + 1
  BY SuccessorShape
<1>2. PICK end : end = prefix_successor(prefix)
  OBVIOUS
<1>b. /\ \A i \in 1..Len(prefix) : prefix[i] \in Byte
      /\ \A i \in 1..Len(key) : key[i] \in Byte
      /\ Byte \subseteq Nat /\ \A x \in Byte : x <= MaxByte
      /\ MaxByte \in Nat /\ Len(key) \in Nat /\ Len(prefix) \in Nat
  <2>1. Byte \subseteq Nat /\ (\A x \in Byte : x <= MaxByte) /\ MaxByte \in Nat
    BY ByteAssumption DEF Byte
  <2>2. /\ \A i \in 1..Len(prefix) : prefix[i] \in Byte
        /\ \A i \in 1..Len(key) : key[i] \in Byte
        /\ Len(key) \in Nat /\ Len(prefix) \in Nat
    OBVIOUS
  <2>. QED  BY <2>1, <2>2
<1>3. ASSUME Starts(key, prefix) PROVE ~LexLess(key, prefix) /\ LexLess(key, end)
  <2>1. Len(prefix) <= Len(key) /\ Agree(prefix, key, Len(prefix))
    BY <1>3, StartsAgree
  <2>2. ~LexLess(key, prefix)
    <3>1. ASSUME NEW i \in 1..Len(key), i <= Len(prefix) PROVE ~(key[i] < prefix[i])
      <4>1. i \in 1..Len(prefix)
        BY <1>b, <3>1
      <4>2. key[i] = prefix[i] /\ key[i] \in Nat
        BY <1>b, <2>1, <4>1 DEF Agree
      <4>. QED  BY <4>2
    <3>2. ~(Len(key) < Len(prefix))
      BY <1>b, <2>1
    <3>. QED  BY <3>1, <3>2, LessAgree
  <2>3. n \in 1..Len(key) /\ n <= Len(end) /\ key[n] < end[n] /\ Agree(key, end, n - 1)
    <3>1. n \in 1..Len(key) /\ n <= Len(end)
      BY <1>1, <1>2, <1>b, <2>1
    <3>2. key[n] = prefix[n] /\ end[n] = prefix[n] + 1 /\ prefix[n] \in Nat
      BY <1>1, <1>2, <1>b, <2>1 DEF Agree
    <3>3. Agree(key, end, n - 1)
      BY <1>1, <1>2, <1>b, <2>1 DEF Agree
    <3>. QED  BY <3>1, <3>2, <3>3
  <2>. QED  BY <1>1, <1>2, <2>2, <2>3, LessAgree
<1>4. ASSUME ~LexLess(key, prefix), LexLess(key, end) PROVE Starts(key, prefix)
  <2>0. ~(Len(key) < Len(prefix) /\ Agree(key, prefix, Len(key)))
    BY <1>4, LessAgree
  <2>c. \A i \in 1..Len(key) : i <= Len(prefix) /\ Agree(key, prefix, i - 1) => ~(key[i] < prefix[i])
    BY <1>4, LessAgree
  <2>1. n <= Len(key) /\ Agree(prefix, key, n)
    <3>1. CASE Len(key) < Len(end) /\ Agree(key, end, Len(key))
      BY <1>1, <1>2, <1>b, <2>0, <3>1 DEF Agree
    <3>2. ASSUME NEW i \in 1..Len(key), i <= Len(end), key[i] < end[i], Agree(key, end, i - 1)
          PROVE  n <= Len(key) /\ Agree(prefix, key, n)
      <4>1. i <= Len(prefix) /\ Agree(key, prefix, i - 1)
        BY <1>1, <1>2, <1>b, <3>2 DEF Agree
      <4>2. ~(key[i] < prefix[i])
        BY <2>c, <4>1
      <4>3. i = n
        BY <1>1, <1>2, <1>b, <3>2, <4>2 DEF Agree
      <4>4. key[n] = prefix[n]
        <5>1. key[n] \in Nat /\ prefix[n] \in Nat /\ key[n] < prefix[n] + 1
          BY <1>1, <1>2, <1>b, <3>2, <4>3
        <5>. QED  BY <4>2, <4>3, <5>1
      <4>. QED  BY <1>b, <4>1, <4>3, <4>4 DEF Agree
    <3>. QED  BY <1>1, <1>2, <1>4, <3>1, <3>2, LessAgree
  <2>. DEFINE D == {i \in 1..Len(prefix) : i > Len(key) \/ key[i] # prefix[i]}
  <2>2. CASE D = {}
    <3>1. Len(prefix) <= Len(key)
      <4>. SUFFICES ASSUME Len(prefix) > Len(key) PROVE FALSE
        BY <1>b
      <4>1. Len(prefix) \in D
        BY <1>b
      <4>. QED  BY <2>2, <4>1
    <3>2. Agree(prefix, key, Len(prefix))
      BY <2>2 DEF Agree
    <3>. QED  BY <3>1, <3>2, StartsAgree
  <2>3. CASE D # {}
    <3>1. PICK d \in D : \A e \in D : d <= e
      <4>1. D \subseteq Nat
        OBVIOUS
      <4>. QED  BY <2>3, <4>1, FirstDifference
    <3>2. d \in 1..Len(prefix) /\ (d > Len(key) \/ key[d] # prefix[d])
      BY <3>1
    <3>3. \A i \in 1..d - 1 : i <= Len(key) /\ key[i] = prefix[i]
      <4>. SUFFICES ASSUME NEW i \in 1..d - 1, ~(i <= Len(key) /\ key[i] = prefix[i]) PROVE FALSE
        OBVIOUS
      <4>1. i \in 1..Len(prefix) /\ ~(d <= i)
        BY <3>2
      <4>2. i \in D
        BY <1>b, <4>1
      <4>. QED  BY <3>1, <4>1, <4>2
    <3>4. d > n
      BY <1>b, <2>1, <3>2 DEF Agree
    <3>5. prefix[d] = MaxByte
      BY <1>1, <1>b, <3>2, <3>4
    <3>6. CASE d > Len(key)
      <4>1. Len(key) < Len(prefix) /\ \A i \in 1..Len(key) : i \in 1..d - 1
        BY <1>b, <3>2, <3>6
      <4>. QED  BY <2>0, <3>3, <4>1 DEF Agree
    <3>7. CASE ~(d > Len(key))
      <4>1. d \in 1..Len(key) /\ key[d] < prefix[d]
        <5>1. d \in 1..Len(key)
          BY <1>b, <3>2, <3>7
        <5>2. key[d] \in Nat /\ key[d] <= MaxByte /\ key[d] # MaxByte
          BY <1>b, <3>2, <3>5, <3>7, <5>1
        <5>. QED  BY <1>b, <3>5, <5>1, <5>2
      <4>2. d <= Len(prefix) /\ Agree(key, prefix, d - 1)
        BY <3>2, <3>3 DEF Agree
      <4>. QED  BY <2>c, <4>1, <4>2
    <3>. QED  BY <3>6, <3>7
  <2>. QED  BY <2>2, <2>3
<1>. QED  BY <1>2, <1>3, <1>4

\* Deleting the range from a prefix to its successor deletes the keys that
\* start with the prefix and no others, whatever bytes the prefix ends in
\* (rocks_engine.rs prefix_successor, the batch's delete_prefix).
THEOREM DeletePrefixExact ==
    ASSUME NEW keys \in SUBSET Seq(Byte), NEW prefix \in Seq(Byte)
    PROVE  DeletePrefix(keys, prefix) = {k \in keys : ~Starts(k, prefix)}
<1>1. CASE prefix_successor(prefix) = None
  BY <1>1 DEF DeletePrefix
<1>2. CASE prefix_successor(prefix) # None
  <2>1. \A k \in keys : Starts(k, prefix) <=>
              ~LexLess(k, prefix) /\ LexLess(k, prefix_successor(prefix))
    BY <1>2, RangeIsPrefix
  <2>. QED  BY <1>2, <2>1 DEF DeletePrefix
<1>. QED  BY <1>1, <1>2

----------------------------------------------------------------------------
(* The sweep.                                                               *)

\* The type byte of the rows of a repository.
TypeByte(t) ==
    CASE t = "T" -> PREFIX_TAG
      [] t = "M" -> PREFIX_MANIFEST
      [] t = "G" -> PREFIX_MANIFEST_TAG
      [] t = "S" -> PREFIX_CHILD_PARENT
      [] t = "F" -> PREFIX_REFERRER
      [] t = "H" -> PREFIX_TAG_HISTORY
      [] t = "J" -> PREFIX_MANIFEST_TAG_HISTORY

\* A key that begins with a type byte and a repository.
Headed(key, p, repo) == key \in Seq(Byte) /\ Len(key) >= 2 /\ key[1] = p /\ key[2] = repo

\* What follows the head of a key does not change it.
LEMMA HeadKept ==
    ASSUME NEW p, NEW repo, NEW s, Headed(s, p, repo), NEW u \in Seq(Byte)
    PROVE  Headed(s \o u, p, repo)
<1>1. s \o u \in Seq(Byte) /\ Len(s \o u) = Len(s) + Len(u)
  BY ConcatProperties DEF Headed
<1>2. (s \o u)[1] = s[1] /\ (s \o u)[2] = s[2]
  BY ConcatProperties DEF Headed
<1>. QED  BY <1>1, <1>2 DEF Headed

\* The key of a row of a repository begins with its type and the repository.
LEMMA KeyInRepo ==
    ASSUME NEW kind \in Kind, NEW r \in Universe[kind], r.t \in InRepo
    PROVE  Headed(KeyOf(r), TypeByte(r.t), r.repo)
<1>1. /\ r.repo \in Byte /\ r.name \in Seq(Byte) /\ r.a \in Seq(Byte) /\ r.b \in Seq(Byte)
      /\ r.at \in Byte
  BY RowAssumption
<1>2. <<TAG_END>> \in Seq(Byte) /\ desc_time(r.at) \in Seq(Byte)
  <2>1. MaxByte - r.at \in Byte /\ 0 \in Byte
    BY <1>1, ByteAssumption DEF Byte
  <2>. QED  BY <2>1 DEF desc_time, TAG_END
<1>3. ASSUME NEW p \in 1..18 PROVE Headed(start_repo(p, r.repo), p, r.repo)
  <2>1. p \in Byte
    BY ByteAssumption DEF Byte, PREFIX_DB_VERSION
  <2>. QED  BY <1>1, <2>1 DEF start_repo, Headed
<1>4. CASE r.t = "T"
  <2>0. Headed(start_repo(PREFIX_TAG, r.repo), PREFIX_TAG, r.repo)
    BY <1>3 DEF PREFIX_TAG
  <2>1. Headed(start_repo(PREFIX_TAG, r.repo) \o r.name, PREFIX_TAG, r.repo)
    BY <1>1, <1>2, <2>0, HeadKept
  <2>. QED  BY <1>4, <2>1 DEF KeyOf, TypeByte, tag
<1>5. CASE r.t = "M"
  <2>0. Headed(start_repo(PREFIX_MANIFEST, r.repo), PREFIX_MANIFEST, r.repo)
    BY <1>3 DEF PREFIX_MANIFEST
  <2>1. Headed(start_repo(PREFIX_MANIFEST, r.repo) \o r.a, PREFIX_MANIFEST, r.repo)
    BY <1>1, <1>2, <2>0, HeadKept
  <2>. QED  BY <1>5, <2>1 DEF KeyOf, TypeByte, manifest
<1>6. CASE r.t = "G"
  <2>0. Headed(start_repo(PREFIX_MANIFEST_TAG, r.repo), PREFIX_MANIFEST_TAG, r.repo)
    BY <1>3 DEF PREFIX_MANIFEST_TAG
  <2>1. Headed(start_repo(PREFIX_MANIFEST_TAG, r.repo) \o r.a, PREFIX_MANIFEST_TAG, r.repo)
    BY <1>1, <1>2, <2>0, HeadKept
  <2>2. Headed(start_repo(PREFIX_MANIFEST_TAG, r.repo) \o r.a \o r.name,
               PREFIX_MANIFEST_TAG, r.repo)
    BY <1>1, <1>2, <2>1, HeadKept
  <2>. QED  BY <1>6, <2>2 DEF KeyOf, TypeByte, manifest_tag, tags_of_manifest
<1>7. CASE r.t = "S"
  <2>0. Headed(start_repo(PREFIX_CHILD_PARENT, r.repo), PREFIX_CHILD_PARENT, r.repo)
    BY <1>3 DEF PREFIX_CHILD_PARENT
  <2>1. Headed(start_repo(PREFIX_CHILD_PARENT, r.repo) \o r.a, PREFIX_CHILD_PARENT, r.repo)
    BY <1>1, <1>2, <2>0, HeadKept
  <2>2. Headed(start_repo(PREFIX_CHILD_PARENT, r.repo) \o r.a \o r.b, PREFIX_CHILD_PARENT, r.repo)
    BY <1>1, <1>2, <2>1, HeadKept
  <2>. QED  BY <1>7, <2>2 DEF KeyOf, TypeByte, child_parent, parents_of
<1>8. CASE r.t = "F"
  <2>0. Headed(start_repo(PREFIX_REFERRER, r.repo), PREFIX_REFERRER, r.repo)
    BY <1>3 DEF PREFIX_REFERRER
  <2>1. Headed(start_repo(PREFIX_REFERRER, r.repo) \o r.a, PREFIX_REFERRER, r.repo)
    BY <1>1, <1>2, <2>0, HeadKept
  <2>2. Headed(start_repo(PREFIX_REFERRER, r.repo) \o r.a \o r.b, PREFIX_REFERRER, r.repo)
    BY <1>1, <1>2, <2>1, HeadKept
  <2>. QED  BY <1>8, <2>2 DEF KeyOf, TypeByte, referrer, referrers_of
<1>9. CASE r.t = "H"
  <2>0. Headed(start_repo(PREFIX_TAG_HISTORY, r.repo), PREFIX_TAG_HISTORY, r.repo)
    BY <1>3 DEF PREFIX_TAG_HISTORY
  <2>1. Headed(start_repo(PREFIX_TAG_HISTORY, r.repo) \o r.name, PREFIX_TAG_HISTORY, r.repo)
    BY <1>1, <1>2, <2>0, HeadKept
  <2>2. Headed(start_repo(PREFIX_TAG_HISTORY, r.repo) \o r.name \o <<TAG_END>>,
               PREFIX_TAG_HISTORY, r.repo)
    BY <1>1, <1>2, <2>1, HeadKept
  <2>3. Headed(start_repo(PREFIX_TAG_HISTORY, r.repo) \o r.name \o <<TAG_END>> \o desc_time(r.at),
               PREFIX_TAG_HISTORY, r.repo)
    BY <1>1, <1>2, <2>2, HeadKept
  <2>4. Headed(start_repo(PREFIX_TAG_HISTORY, r.repo) \o r.name \o <<TAG_END>> \o desc_time(r.at) \o r.a,
               PREFIX_TAG_HISTORY, r.repo)
    BY <1>1, <1>2, <2>3, HeadKept
  <2>. QED  BY <1>9, <2>4 DEF KeyOf, TypeByte, tag_history, tag_history_of, tag_history_in_repo
<1>10. CASE r.t = "J"
  <2>0. Headed(start_repo(PREFIX_MANIFEST_TAG_HISTORY, r.repo), PREFIX_MANIFEST_TAG_HISTORY, r.repo)
    BY <1>3 DEF PREFIX_MANIFEST_TAG_HISTORY
  <2>1. Headed(start_repo(PREFIX_MANIFEST_TAG_HISTORY, r.repo) \o r.a,
               PREFIX_MANIFEST_TAG_HISTORY, r.repo)
    BY <1>1, <1>2, <2>0, HeadKept
  <2>2. Headed(start_repo(PREFIX_MANIFEST_TAG_HISTORY, r.repo) \o r.a \o desc_time(r.at),
               PREFIX_MANIFEST_TAG_HISTORY, r.repo)
    BY <1>1, <1>2, <2>1, HeadKept
  <2>3. Headed(start_repo(PREFIX_MANIFEST_TAG_HISTORY, r.repo) \o r.a \o desc_time(r.at) \o r.name,
               PREFIX_MANIFEST_TAG_HISTORY, r.repo)
    BY <1>1, <1>2, <2>2, HeadKept
  <2>. QED  BY <1>10, <2>3 DEF KeyOf, TypeByte, manifest_tag_history,
            manifest_tag_history_of, manifest_tag_history_in_repo
<1>. QED  BY <1>4, <1>5, <1>6, <1>7, <1>8, <1>9, <1>10 DEF InRepo

\* The keys of the other rows begin with bytes that no sweep touches.
LEMMA KeyElsewhere ==
    ASSUME NEW kind \in Kind, NEW r \in Universe[kind], r.t \notin InRepo
    PROVE  /\ KeyOf(r) \in Seq(Byte) /\ Len(KeyOf(r)) >= 1
           /\ KeyOf(r)[1] \in {PREFIX_REPO_BY_NAME, PREFIX_UPLOAD, PREFIX_DB_VERSION}
<1>1. r.t \in {"n", "U", "v"} /\ r.name \in Seq(Byte)
  BY RowAssumption
<1>2. ASSUME NEW p \in 1..18
      PROVE  /\ <<p>> \in Seq(Byte) /\ <<p>> \o r.name \in Seq(Byte)
             /\ Len(<<p>> \o r.name) >= 1 /\ (<<p>> \o r.name)[1] = p
  <2>1. p \in Byte
    BY ByteAssumption DEF Byte, PREFIX_DB_VERSION
  <2>2. <<p>> \in Seq(Byte) /\ Len(<<p>>) = 1 /\ <<p>>[1] = p
    BY <2>1
  <2>. QED  BY <1>1, <2>2, ConcatProperties
<1>3. CASE r.t = "n"
  BY <1>2, <1>3 DEF KeyOf, repo_by_name, repos_by_name, PREFIX_REPO_BY_NAME
<1>4. CASE r.t = "U"
  BY <1>2, <1>4 DEF KeyOf, PREFIX_UPLOAD
<1>5. CASE r.t = "v"
  BY <1>2, <1>5 DEF KeyOf, PREFIX_DB_VERSION
<1>. QED  BY <1>1, <1>3, <1>4, <1>5

\* The ranges a sweep deletes: the nine types keyed by repository, and counters.
SweptByte ==
    {PREFIX_MANIFEST, PREFIX_MANIFEST_BODY, PREFIX_TAG, PREFIX_MANIFEST_TAG, PREFIX_REPO_BLOB,
     PREFIX_CHILD_PARENT, PREFIX_REFERRER, PREFIX_TAG_HISTORY, PREFIX_MANIFEST_TAG_HISTORY}

\* The ranges a sweep deletes.
LEMMA SweepRangesAre ==
    ASSUME NEW repo
    PROVE  SweepRanges(repo) = {<<p, repo>> : p \in SweptByte}
              \cup {<<PREFIX_COUNTER, s, repo>> : s \in {SCOPE_MANIFEST, SCOPE_TAG, SCOPE_REPO}}
BY DEF SweepRanges, SweptByte, start_repo, manifests_in_repo, manifest_bodies_in_repo,
   tags_in_repo, manifest_tags_in_repo, blobs_in_repo, children_in_repo, referrers_in_repo,
   tag_history_in_repo, manifest_tag_history_in_repo, counters_in_repo_scope

\* A row's key lies in a range of the sweep exactly when the row is the
\* repository's.
LEMMA SweptExactly ==
    ASSUME NEW kind \in Kind, NEW r \in Universe[kind], NEW repo \in Byte
    PROVE  (\E p \in SweepRanges(repo) : Starts(KeyOf(r), p)) <=> r.repo = repo
<1>. USE DEF PREFIX_MANIFEST, PREFIX_MANIFEST_BODY, PREFIX_TAG, PREFIX_MANIFEST_TAG,
         PREFIX_REPO_BLOB, PREFIX_CHILD_PARENT, PREFIX_REFERRER, PREFIX_TAG_HISTORY,
         PREFIX_MANIFEST_TAG_HISTORY, PREFIX_COUNTER, PREFIX_REPO_BY_NAME, PREFIX_UPLOAD,
         PREFIX_DB_VERSION, SCOPE_MANIFEST, SCOPE_TAG, SCOPE_REPO
<1>1. KeyOf(r) \in Seq(Byte)
  BY KeyInRepo, KeyElsewhere DEF Headed
<1>2. \A n \in 0..18 : n \in Byte
  BY ByteAssumption DEF Byte
<1>3. ASSUME NEW p \in SweptByte
      PROVE  Starts(KeyOf(r), <<p, repo>>)
               <=> Len(KeyOf(r)) >= 2 /\ KeyOf(r)[1] = p /\ KeyOf(r)[2] = repo
  <2>1. <<p, repo>> \in Seq(Byte) /\ Len(<<p, repo>>) = 2
        /\ <<p, repo>>[1] = p /\ <<p, repo>>[2] = repo
    BY <1>2 DEF SweptByte
  <2>2. PICK q : q = <<p, repo>>
    OBVIOUS
  <2>3. Starts(KeyOf(r), q) <=> 2 <= Len(KeyOf(r)) /\ Agree(q, KeyOf(r), 2)
    BY <1>1, <2>1, <2>2, StartsAgree
  <2>4. Agree(q, KeyOf(r), 2) <=> q[1] = KeyOf(r)[1] /\ q[2] = KeyOf(r)[2]
    <3>1. 1..2 = {1, 2}
      OBVIOUS
    <3>. QED  BY ONLY <3>1 DEF Agree
  <2>. QED  BY <1>1, <2>1, <2>2, <2>3, <2>4
<1>4. ASSUME NEW s \in {SCOPE_MANIFEST, SCOPE_TAG, SCOPE_REPO}
      PROVE  Starts(KeyOf(r), <<PREFIX_COUNTER, s, repo>>)
               => Len(KeyOf(r)) >= 1 /\ KeyOf(r)[1] = PREFIX_COUNTER
  <2>1. /\ <<PREFIX_COUNTER, s, repo>> \in Seq(Byte) /\ Len(<<PREFIX_COUNTER, s, repo>>) = 3
        /\ <<PREFIX_COUNTER, s, repo>>[1] = PREFIX_COUNTER
    BY <1>2
  <2>2. PICK q : q = <<PREFIX_COUNTER, s, repo>>
    OBVIOUS
  <2>3. Starts(KeyOf(r), q) => 3 <= Len(KeyOf(r)) /\ Agree(q, KeyOf(r), 3)
    BY <1>1, <2>1, <2>2, StartsAgree
  <2>4. Agree(q, KeyOf(r), 3) => q[1] = KeyOf(r)[1]
    BY DEF Agree
  <2>. QED  BY <1>1, <2>1, <2>2, <2>3, <2>4
<1>r. SweepRanges(repo) = {<<p, repo>> : p \in SweptByte}
         \cup {<<PREFIX_COUNTER, s, repo>> : s \in {SCOPE_MANIFEST, SCOPE_TAG, SCOPE_REPO}}
  BY SweepRangesAre
<1>5. CASE r.t \in InRepo
  <2>1. Len(KeyOf(r)) >= 2 /\ KeyOf(r)[1] = TypeByte(r.t) /\ KeyOf(r)[2] = r.repo
    BY <1>5, KeyInRepo DEF Headed
  <2>2. TypeByte(r.t) \in SweptByte /\ TypeByte(r.t) # PREFIX_COUNTER
    BY <1>5 DEF TypeByte, InRepo, SweptByte
  <2>3. ASSUME r.repo = repo PROVE \E p \in SweepRanges(repo) : Starts(KeyOf(r), p)
    <3>1. <<TypeByte(r.t), repo>> \in SweepRanges(repo)
      BY <1>r, <2>2
    <3>2. Starts(KeyOf(r), <<TypeByte(r.t), repo>>)
      BY <1>3, <2>1, <2>2, <2>3
    <3>. QED  BY <3>1, <3>2
  <2>4. ASSUME NEW p \in SweepRanges(repo), Starts(KeyOf(r), p) PROVE r.repo = repo
    <3>1. CASE \E b \in SweptByte : p = <<b, repo>>
      BY <1>3, <2>1, <2>4, <3>1
    <3>2. CASE \E s \in {SCOPE_MANIFEST, SCOPE_TAG, SCOPE_REPO} : p = <<PREFIX_COUNTER, s, repo>>
      BY <1>4, <2>1, <2>2, <2>4, <3>2
    <3>. QED  BY <1>r, <3>1, <3>2
  <2>. QED  BY <2>3, <2>4
<1>6. CASE r.t \notin InRepo
  <2>1. KeyOf(r)[1] \notin SweptByte /\ KeyOf(r)[1] # PREFIX_COUNTER
    BY <1>6, KeyElsewhere DEF SweptByte
  <2>2. r.repo # repo
    BY <1>6, RowAssumption
  <2>3. ASSUME NEW p \in SweepRanges(repo), Starts(KeyOf(r), p) PROVE FALSE
    <3>1. CASE \E b \in SweptByte : p = <<b, repo>>
      BY <1>3, <2>1, <2>3, <3>1
    <3>2. CASE \E s \in {SCOPE_MANIFEST, SCOPE_TAG, SCOPE_REPO} : p = <<PREFIX_COUNTER, s, repo>>
      BY <1>4, <2>1, <2>3, <3>2
    <3>. QED  BY <1>r, <3>1, <3>2
  <2>. QED  BY <2>2, <2>3
<1>. QED  BY <1>5, <1>6

\* The walk is of one kind, and the store holds rows of its universe.
RowsInv ==
    "kind" \in DOMAIN walk /\ walk.kind \in Kind /\ rows \subseteq Universe[walk.kind]

\* Whatever the store holds and wherever the walk is, the sweep of a dead
\* repository takes all of its rows and not one of any other, for every number
\* of repositories, the one with the greatest id among them, and every key they
\* may have (delete.rs plan_repo_sweep_finish).
THEOREM SweepSafe == Spec => []SweepExact
<1>1. Init => RowsInv
  BY DEF Init, RowsInv
<1>2. RowsInv /\ [Next]_vars => RowsInv'
  <2>. SUFFICES ASSUME RowsInv, [Next]_vars PROVE RowsInv'
    OBVIOUS
  <2>1. CASE WalkStep
    BY <2>1 DEF RowsInv, WalkStep, ListTags, SearchRepos, ListManifests, TagsOfManifest,
       ParentsOfManifest, Referrers, TagHistory, ManifestTagHistory, ReadPage, TagDetails,
       UntaggedManifests, ReadRows, LookUp, ServeRows, SearchStart, SearchScan, CountScan,
       Respond, Continue
  <2>2. ASSUME NEW r \in Universe[walk.kind], Put(r) \/ Drop(r) PROVE RowsInv'
    BY <2>2 DEF RowsInv, Put, Drop, Wrote
  <2>3. ASSUME NEW repo \in Neighbours, Sweep(repo) PROVE RowsInv'
    BY <2>3 DEF RowsInv, Sweep, Wrote, Swept
  <2>4. CASE UNCHANGED vars
    BY <2>4 DEF RowsInv, vars
  <2>. QED  BY <2>1, <2>2, <2>3, <2>4 DEF Next, Finished
<1>3. RowsInv => SweepExact
  <2>. SUFFICES ASSUME RowsInv, NEW repo \in Neighbours
                PROVE  Swept(repo) = {r \in rows : r.repo # repo}
    BY DEF SweepExact
  <2>1. repo \in Byte
    BY RowAssumption DEF RowsInv, Neighbours
  <2>2. AllKeys \subseteq Seq(Byte)
    BY KeyInRepo, KeyElsewhere DEF RowsInv, AllKeys, Headed
  <2>3. SweepRanges(repo) \subseteq Seq(Byte)
    <3>1. \A n \in 0..18 : n \in Byte
      BY ByteAssumption DEF Byte, PREFIX_DB_VERSION
    <3>2. \A p \in SweptByte : <<p, repo>> \in Seq(Byte)
      BY <2>1, <3>1 DEF SweptByte, PREFIX_MANIFEST, PREFIX_MANIFEST_BODY, PREFIX_TAG,
         PREFIX_MANIFEST_TAG, PREFIX_REPO_BLOB, PREFIX_CHILD_PARENT, PREFIX_REFERRER,
         PREFIX_TAG_HISTORY, PREFIX_MANIFEST_TAG_HISTORY
    <3>3. \A s \in {SCOPE_MANIFEST, SCOPE_TAG, SCOPE_REPO} : <<PREFIX_COUNTER, s, repo>> \in Seq(Byte)
      BY <2>1, <3>1 DEF PREFIX_COUNTER, SCOPE_MANIFEST, SCOPE_TAG, SCOPE_REPO
    <3>. QED  BY <3>2, <3>3, SweepRangesAre
  <2>4. ASSUME NEW r \in rows
        PROVE  (\A p \in SweepRanges(repo) : KeyOf(r) \in DeletePrefix(AllKeys, p)) <=> r.repo # repo
    <3>1. KeyOf(r) \in AllKeys
      BY DEF AllKeys
    <3>2. \A p \in SweepRanges(repo) : DeletePrefix(AllKeys, p) = {k \in AllKeys : ~Starts(k, p)}
      BY <2>2, <2>3, DeletePrefixExact
    <3>3. (\E p \in SweepRanges(repo) : Starts(KeyOf(r), p)) <=> r.repo = repo
      BY <2>1, SweptExactly DEF RowsInv
    <3>. QED  BY <3>1, <3>2, <3>3
  <2>. QED  BY <2>4 DEF Swept
<1>. QED  BY <1>1, <1>2, <1>3, PTL DEF Spec
----------------------------------------------------------------------------
(* Keys are totally ordered, and a common prefix does not change the order. *)

\* The place where one key is below another: the bytes before it agree, and
\* there the first ends or is smaller.
LessAt(j, k, i) ==
    /\ i \in 1..Len(k) /\ i - 1 <= Len(j)
    /\ Agree(j, k, i - 1)
    /\ i > Len(j) \/ j[i] < k[i]

\* The bytes of a key are numbers.
LEMMA ByteNat ==
    ASSUME NEW s \in Seq(Byte)
    PROVE  Len(s) \in Nat /\ \A i \in 1..Len(s) : s[i] \in Nat /\ s[i] \in Byte
<1>1. Len(s) \in Nat /\ \A i \in 1..Len(s) : s[i] \in Byte
  OBVIOUS
<1>2. Byte \subseteq Nat
  BY ByteAssumption DEF Byte
<1>. QED  BY <1>1, <1>2

\* One key is below another exactly when there is such a place.
LEMMA LessWhere ==
    ASSUME NEW j \in Seq(Byte), NEW k \in Seq(Byte)
    PROVE  LexLess(j, k) <=> \E i \in Nat : LessAt(j, k, i)
<1>1. Len(j) \in Nat /\ Len(k) \in Nat
  OBVIOUS
<1>2. ASSUME Len(j) < Len(k), Agree(j, k, Len(j)) PROVE LessAt(j, k, Len(j) + 1)
  <2>1. Len(j) + 1 - 1 = Len(j) /\ Len(j) + 1 \in 1..Len(k) /\ Len(j) + 1 > Len(j)
    BY <1>1, <1>2
  <2>. QED  BY <1>2, <2>1, <1>1 DEF LessAt
<1>3. ASSUME NEW i \in 1..Len(j), i <= Len(k), j[i] < k[i], Agree(j, k, i - 1)
      PROVE  LessAt(j, k, i)
  BY <1>1, <1>3 DEF LessAt
<1>4. ASSUME NEW i \in Nat, LessAt(j, k, i)
      PROVE  \/ Len(j) < Len(k) /\ Agree(j, k, Len(j))
             \/ \E h \in 1..Len(j) : h <= Len(k) /\ j[h] < k[h] /\ Agree(j, k, h - 1)
  <2>1. CASE i > Len(j)
    <3>1. i - 1 = Len(j) /\ Len(j) < Len(k)
      BY <1>1, <1>4, <2>1 DEF LessAt
    <3>. QED  BY <1>4, <3>1 DEF LessAt
  <2>2. CASE ~(i > Len(j))
    <3>1. i \in 1..Len(j) /\ i <= Len(k) /\ j[i] < k[i] /\ Agree(j, k, i - 1)
      BY <1>1, <1>4, <2>2 DEF LessAt
    <3>. QED  BY <3>1
  <2>. QED  BY <2>1, <2>2
<1>5. ASSUME LexLess(j, k) PROVE \E i \in Nat : LessAt(j, k, i)
  <2>1. CASE Len(j) < Len(k) /\ Agree(j, k, Len(j))
    <3>1. Len(j) + 1 \in Nat
      BY <1>1
    <3>. QED  BY <1>2, <2>1, <3>1
  <2>2. CASE \E i \in 1..Len(j) : i <= Len(k) /\ j[i] < k[i] /\ Agree(j, k, i - 1)
    <3>1. PICK i \in 1..Len(j) : i <= Len(k) /\ j[i] < k[i] /\ Agree(j, k, i - 1)
      BY <2>2
    <3>2. i \in Nat /\ LessAt(j, k, i)
      BY <1>3, <3>1
    <3>. QED  BY <3>2
  <2>. QED  BY <1>5, <2>1, <2>2, LessAgree
<1>6. ASSUME NEW i \in Nat, LessAt(j, k, i) PROVE LexLess(j, k)
  BY <1>4, <1>6, LessAgree
<1>. QED  BY <1>5, <1>6

\* No key is below itself.
LEMMA LexIrreflexive ==
    ASSUME NEW k \in Seq(Byte)
    PROVE  ~LexLess(k, k)
<1>. SUFFICES ASSUME NEW i \in Nat, LessAt(k, k, i) PROVE FALSE
  BY LessWhere
<1>1. i \in 1..Len(k) /\ (i > Len(k) \/ k[i] < k[i])
  BY DEF LessAt
<1>2. k[i] \in Nat /\ Len(k) \in Nat
  BY <1>1, ByteNat
<1>. QED  BY <1>1, <1>2

\* The order of keys is transitive.
LEMMA LexTransitive ==
    ASSUME NEW j \in Seq(Byte), NEW k \in Seq(Byte), NEW l \in Seq(Byte),
           LexLess(j, k), LexLess(k, l)
    PROVE  LexLess(j, l)
<1>1. PICK i \in Nat : LessAt(j, k, i)
  BY LessWhere
<1>2. PICK h \in Nat : LessAt(k, l, h)
  BY LessWhere
<1>b. /\ Len(j) \in Nat /\ Len(k) \in Nat /\ Len(l) \in Nat
      /\ \A n \in 1..Len(j) : j[n] \in Nat
      /\ \A n \in 1..Len(k) : k[n] \in Nat
      /\ \A n \in 1..Len(l) : l[n] \in Nat
  BY ByteNat
<1>3. CASE i < h
  <2>1. i \in 1..Len(l) /\ i - 1 <= Len(j) /\ i \in 1..h - 1 /\ (i > Len(j) \/ j[i] < k[i])
    BY <1>1, <1>2, <1>3, <1>b DEF LessAt
  <2>2. k[i] = l[i]
    BY <1>2, <2>1 DEF LessAt, Agree
  <2>3. Agree(j, l, i - 1)
    <3>. SUFFICES ASSUME NEW n \in 1..i - 1 PROVE j[n] = l[n]
      BY DEF Agree
    <3>1. n \in 1..h - 1
      BY <2>1
    <3>. QED  BY <1>1, <1>2, <3>1 DEF LessAt, Agree
  <2>4. LessAt(j, l, i)
    BY <2>1, <2>2, <2>3 DEF LessAt
  <2>. QED  BY <2>4, LessWhere
<1>4. CASE h < i
  <2>1. h \in 1..Len(l) /\ h - 1 <= Len(j) /\ h \in 1..i - 1 /\ h \in 1..Len(j) /\ k[h] < l[h]
    BY <1>1, <1>2, <1>4, <1>b DEF LessAt
  <2>2. j[h] = k[h]
    BY <1>1, <2>1 DEF LessAt, Agree
  <2>3. Agree(j, l, h - 1)
    <3>. SUFFICES ASSUME NEW n \in 1..h - 1 PROVE j[n] = l[n]
      BY DEF Agree
    <3>1. n \in 1..i - 1
      BY <2>1
    <3>. QED  BY <1>1, <1>2, <3>1 DEF LessAt, Agree
  <2>4. LessAt(j, l, h)
    BY <2>1, <2>2, <2>3 DEF LessAt
  <2>. QED  BY <2>4, LessWhere
<1>5. CASE i = h
  <2>1. i \in 1..Len(l) /\ i - 1 <= Len(j) /\ k[i] < l[i] /\ i \in 1..Len(k)
    BY <1>1, <1>2, <1>5, <1>b DEF LessAt
  <2>2. i > Len(j) \/ j[i] < l[i]
    <3>1. CASE i > Len(j)
      BY <3>1
    <3>2. CASE ~(i > Len(j))
      <4>1. j[i] < k[i] /\ i \in 1..Len(j)
        BY <1>1, <1>b, <3>2, <2>1 DEF LessAt
      <4>2. j[i] \in Nat /\ k[i] \in Nat /\ l[i] \in Nat
        BY <1>b, <2>1, <4>1
      <4>. QED  BY <2>1, <4>1, <4>2
    <3>. QED  BY <3>1, <3>2
  <2>3. Agree(j, l, i - 1)
    BY <1>1, <1>2, <1>5 DEF LessAt, Agree
  <2>4. LessAt(j, l, i)
    BY <2>1, <2>2, <2>3 DEF LessAt
  <2>. QED  BY <2>4, LessWhere
<1>. QED  BY <1>3, <1>4, <1>5

\* Of two keys one is below the other.
LEMMA LexTotal ==
    ASSUME NEW j \in Seq(Byte), NEW k \in Seq(Byte), j # k
    PROVE  LexLess(j, k) \/ LexLess(k, j)
<1>b. /\ Len(j) \in Nat /\ Len(k) \in Nat
      /\ \A n \in 1..Len(j) : j[n] \in Nat
      /\ \A n \in 1..Len(k) : k[n] \in Nat
  BY ByteNat
<1>. DEFINE D == {n \in Nat : n >= 1 /\ (n > Len(j) \/ n > Len(k) \/ j[n] # k[n])}
<1>1. D \subseteq Nat /\ Len(j) + 1 \in D
  BY <1>b
<1>2. PICK d \in D : \A e \in D : d <= e
  <2>1. D # {}
    BY <1>1
  <2>. HIDE DEF D
  <2>. QED  BY <1>1, <2>1, FirstDifference
<1>3. d \in Nat /\ d >= 1 /\ (d > Len(j) \/ d > Len(k) \/ j[d] # k[d])
  BY <1>2
<1>4. ASSUME NEW n \in 1..d - 1 PROVE n <= Len(j) /\ n <= Len(k) /\ j[n] = k[n]
  <2>1. n \in Nat /\ n >= 1 /\ ~(d <= n)
    BY <1>3
  <2>2. n \notin D
    BY <1>2, <2>1
  <2>. QED  BY <1>b, <2>1, <2>2
<1>5. d - 1 <= Len(j) /\ d - 1 <= Len(k)
  <2>1. CASE d = 1
    BY <1>b, <2>1
  <2>2. CASE d # 1
    <3>1. d - 1 \in 1..d - 1
      BY <1>3, <2>2
    <3>. QED  BY <1>4, <3>1
  <2>. QED  BY <2>1, <2>2
<1>6. Agree(j, k, d - 1) /\ Agree(k, j, d - 1)
  BY <1>4 DEF Agree
<1>7. CASE d > Len(j) /\ d > Len(k)
  <2>1. Len(j) = d - 1 /\ Len(k) = d - 1
    BY <1>3, <1>5, <1>7, <1>b
  <2>2. j = k
    BY <1>6, <2>1, SeqEqual DEF Agree
  <2>. QED  BY <2>2
<1>8. CASE d > Len(j) /\ ~(d > Len(k))
  <2>1. LessAt(j, k, d)
    BY <1>3, <1>5, <1>6, <1>8, <1>b DEF LessAt
  <2>. QED  BY <1>3, <2>1, LessWhere
<1>9. CASE ~(d > Len(j)) /\ d > Len(k)
  <2>1. LessAt(k, j, d)
    BY <1>3, <1>5, <1>6, <1>9, <1>b DEF LessAt
  <2>. QED  BY <1>3, <2>1, LessWhere
<1>10. CASE ~(d > Len(j)) /\ ~(d > Len(k))
  <2>1. d \in 1..Len(j) /\ d \in 1..Len(k) /\ j[d] # k[d]
    BY <1>3, <1>10, <1>b
  <2>2. j[d] \in Nat /\ k[d] \in Nat
    BY <1>b, <2>1
  <2>3. j[d] < k[d] \/ k[d] < j[d]
    BY <2>1, <2>2
  <2>4. LessAt(j, k, d) \/ LessAt(k, j, d)
    BY <1>3, <1>5, <1>6, <2>1, <2>3, <1>b DEF LessAt
  <2>. QED  BY <1>3, <2>4, LessWhere
<1>. QED  BY <1>7, <1>8, <1>9, <1>10

\* What keys hold after a common prefix orders them.
LEMMA ConcatLess ==
    ASSUME NEW p \in Seq(Byte), NEW a \in Seq(Byte), NEW b \in Seq(Byte)
    PROVE  LexLess(p \o a, p \o b) <=> LexLess(a, b)
<1>. DEFINE j == p \o a
            k == p \o b
            n == Len(p)
<1>1. /\ j \in Seq(Byte) /\ k \in Seq(Byte) /\ n \in Nat
      /\ Len(j) = n + Len(a) /\ Len(k) = n + Len(b)
      /\ \A i \in 1..n : j[i] = k[i]
      /\ \A i \in 1..Len(a) : j[n + i] = a[i]
      /\ \A i \in 1..Len(b) : k[n + i] = b[i]
  <2>1. /\ j \in Seq(Byte) /\ k \in Seq(Byte) /\ n \in Nat
        /\ Len(j) = n + Len(a) /\ Len(k) = n + Len(b)
        /\ \A i \in 1..Len(j) : j[i] = IF i <= n THEN p[i] ELSE a[i - n]
        /\ \A i \in 1..Len(k) : k[i] = IF i <= n THEN p[i] ELSE b[i - n]
    BY ConcatProperties
  <2>2. Len(a) \in Nat /\ Len(b) \in Nat
    OBVIOUS
  <2>. HIDE DEF j, k, n
  <2>3. \A i \in 1..n : i \in 1..Len(j) /\ i \in 1..Len(k) /\ i <= n
    BY <2>1, <2>2
  <2>4. \A i \in 1..Len(a) : n + i \in 1..Len(j) /\ ~(n + i <= n) /\ n + i - n = i
    BY <2>1, <2>2
  <2>5. \A i \in 1..Len(b) : n + i \in 1..Len(k) /\ ~(n + i <= n) /\ n + i - n = i
    BY <2>1, <2>2
  <2>6. \A i \in 1..n : j[i] = p[i] /\ k[i] = p[i]
    BY <2>1, <2>3
  <2>7. \A i \in 1..Len(a) : j[n + i] = a[i]
    BY <2>1, <2>4
  <2>8. \A i \in 1..Len(b) : k[n + i] = b[i]
    BY <2>1, <2>5
  <2>. QED  BY <2>1, <2>6, <2>7, <2>8
<1>b. /\ Len(a) \in Nat /\ Len(b) \in Nat
      /\ \A i \in 1..Len(a) : a[i] \in Nat
      /\ \A i \in 1..Len(b) : b[i] \in Nat
  BY ByteNat
<1>. HIDE DEF j, k, n
<1>2. ASSUME NEW i \in Nat, LessAt(a, b, i) PROVE LessAt(j, k, n + i)
  <2>1. n + i \in 1..Len(k) /\ n + i - 1 <= Len(j)
    BY <1>1, <1>2, <1>b DEF LessAt
  <2>2. Agree(j, k, n + i - 1)
    <3>. SUFFICES ASSUME NEW h \in 1..n + i - 1 PROVE j[h] = k[h]
      BY DEF Agree
    <3>1. CASE h <= n
      BY <1>1, <3>1
    <3>2. CASE ~(h <= n)
      <4>1. h - n \in 1..i - 1 /\ h - n \in 1..Len(a) /\ h - n \in 1..Len(b) /\ n + (h - n) = h
        BY <1>1, <1>2, <1>b, <3>2 DEF LessAt
      <4>2. a[h - n] = b[h - n]
        BY <1>2, <4>1 DEF LessAt, Agree
      <4>. QED  BY <1>1, <4>1, <4>2
    <3>. QED  BY <3>1, <3>2
  <2>3. n + i > Len(j) \/ j[n + i] < k[n + i]
    <3>1. CASE i > Len(a)
      BY <1>1, <1>b, <3>1
    <3>2. CASE ~(i > Len(a))
      <4>1. i \in 1..Len(a) /\ i \in 1..Len(b) /\ a[i] < b[i]
        BY <1>2, <1>b, <3>2 DEF LessAt
      <4>. QED  BY <1>1, <4>1
    <3>. QED  BY <3>1, <3>2
  <2>4. PICK m \in Nat : m = n + i
    BY <1>1
  <2>a. m - 1 = n + i - 1
    BY <1>1, <2>4
  <2>5. m \in 1..Len(k) /\ m - 1 <= Len(j) /\ Agree(j, k, m - 1) /\ (m > Len(j) \/ j[m] < k[m])
    BY <2>1, <2>2, <2>3, <2>4, <2>a
  <2>6. LessAt(j, k, m)
    BY <2>5 DEF LessAt
  <2>. QED  BY <2>4, <2>6
<1>3. ASSUME NEW h \in Nat, LessAt(j, k, h) PROVE h - n \in Nat /\ LessAt(a, b, h - n)
  <2>1. h > n
    <3>. SUFFICES ASSUME h <= n PROVE FALSE
      BY <1>1
    <3>1. h \in 1..n /\ ~(h > Len(j)) /\ j[h] < k[h]
      BY <1>1, <1>3, <1>b DEF LessAt
    <3>2. j[h] = k[h] /\ j[h] \in Nat
      <4>1. h \in 1..Len(j)
        BY <1>1, <1>b, <3>1
      <4>2. j[h] \in Nat
        BY <1>1, <4>1, ByteNat
      <4>. QED  BY <1>1, <3>1, <4>2
    <3>. QED  BY <3>1, <3>2
  <2>2. /\ h - n \in 1..Len(b) /\ h - n - 1 <= Len(a) /\ n + (h - n) = h /\ h - n \in Nat
        /\ n + (h - n - 1) = h - 1
    BY <1>1, <1>3, <1>b, <2>1 DEF LessAt
  <2>3. Agree(a, b, h - n - 1)
    <3>. SUFFICES ASSUME NEW i \in 1..h - n - 1 PROVE a[i] = b[i]
      BY DEF Agree
    <3>1. i \in 1..Len(a) /\ i \in 1..Len(b) /\ n + i \in 1..h - 1
      BY <1>1, <1>b, <2>2, <2>1
    <3>2. j[n + i] = k[n + i]
      BY <1>3, <3>1 DEF LessAt, Agree
    <3>. QED  BY <1>1, <3>1, <3>2
  <2>4. h - n > Len(a) \/ a[h - n] < b[h - n]
    <3>1. CASE h > Len(j)
      BY <1>1, <1>b, <2>2, <3>1
    <3>2. CASE ~(h > Len(j))
      <4>1. h - n \in 1..Len(a) /\ j[h] < k[h]
        BY <1>1, <1>3, <1>b, <2>1, <2>2, <3>2 DEF LessAt
      <4>. QED  BY <1>1, <2>2, <4>1
    <3>. QED  BY <3>1, <3>2
  <2>. QED  BY <2>2, <2>3, <2>4 DEF LessAt
<1>4. LexLess(a, b) => LexLess(j, k)
  <2>. SUFFICES ASSUME LexLess(a, b) PROVE LexLess(j, k)
    OBVIOUS
  <2>1. PICK i \in Nat : LessAt(a, b, i)
    BY LessWhere
  <2>2. n + i \in Nat /\ LessAt(j, k, n + i)
    BY <1>1, <1>2, <2>1
  <2>. QED  BY <1>1, <2>2, LessWhere
<1>5. LexLess(j, k) => LexLess(a, b)
  <2>. SUFFICES ASSUME LexLess(j, k) PROVE LexLess(a, b)
    OBVIOUS
  <2>1. PICK h \in Nat : LessAt(j, k, h)
    BY <1>1, LessWhere
  <2>2. h - n \in Nat /\ LessAt(a, b, h - n)
    BY <1>3, <2>1
  <2>. QED  BY <2>2, LessWhere
<1>. QED  BY <1>4, <1>5 DEF j, k
----------------------------------------------------------------------------
(* Keys with a prefix lie together.                                         *)

\* A key starts with a prefix when something follows it.
LEMMA StartsConcat ==
    ASSUME NEW p \in Seq(Byte), NEW s \in Seq(Byte)
    PROVE  Starts(p \o s, p) /\ p \o s \in Seq(Byte)
<1>. DEFINE k == p \o s
<1>1. /\ k \in Seq(Byte) /\ Len(k) = Len(p) + Len(s)
      /\ \A i \in 1..Len(k) : k[i] = IF i <= Len(p) THEN p[i] ELSE s[i - Len(p)]
  BY ConcatProperties
<1>2. Len(p) \in Nat /\ Len(s) \in Nat
  OBVIOUS
<1>. HIDE DEF k
<1>3. Len(p) <= Len(k) /\ Agree(p, k, Len(p))
  BY <1>1, <1>2 DEF Agree
<1>4. Starts(k, p)
  BY <1>1, <1>3, StartsAgree
<1>. QED  BY <1>1, <1>4 DEF k

\* A key that starts with a prefix is not below it.
LEMMA StartsNotLess ==
    ASSUME NEW k \in Seq(Byte), NEW p \in Seq(Byte), Starts(k, p)
    PROVE  ~LexLess(k, p)
<1>. SUFFICES ASSUME NEW i \in Nat, LessAt(k, p, i) PROVE FALSE
  BY LessWhere
<1>1. Len(p) <= Len(k) /\ Agree(p, k, Len(p))
  BY StartsAgree
<1>2. Len(k) \in Nat /\ Len(p) \in Nat /\ \A n \in 1..Len(p) : p[n] \in Nat
  BY ByteNat
<1>3. i \in 1..Len(p) /\ k[i] < p[i]
  BY <1>1, <1>2 DEF LessAt
<1>4. k[i] = p[i] /\ p[i] \in Nat
  BY <1>1, <1>2, <1>3 DEF Agree
<1>. QED  BY <1>3, <1>4

\* A key past a prefix that does not start with it is past all that do.
LEMMA PastPrefix ==
    ASSUME NEW k \in Seq(Byte), NEW j \in Seq(Byte), NEW p \in Seq(Byte),
           Starts(k, p), ~Starts(j, p), ~LexLess(j, p)
    PROVE  LexLess(k, j)
<1>b. /\ Len(k) \in Nat /\ Len(p) \in Nat /\ Len(j) \in Nat
      /\ \A n \in 1..Len(p) : p[n] \in Nat
  BY ByteNat
<1>1. Len(p) <= Len(k) /\ Agree(p, k, Len(p))
  BY StartsAgree
<1>2. j # p
  <2>1. Starts(p, p)
    BY <1>b, StartsAgree DEF Agree
  <2>. QED  BY <2>1
<1>3. PICK i \in Nat : LessAt(p, j, i)
  <2>1. LexLess(p, j)
    BY <1>2, LexTotal
  <2>. QED  BY <2>1, LessWhere
<1>4. i <= Len(p)
  <2>. SUFFICES ASSUME i > Len(p) PROVE FALSE
    BY <1>b
  <2>1. i - 1 = Len(p) /\ Len(p) <= Len(j)
    BY <1>3, <1>b DEF LessAt
  <2>2. Agree(p, j, Len(p))
    BY <1>3, <2>1 DEF LessAt
  <2>. QED  BY <2>1, <2>2, StartsAgree
<1>5. i \in 1..Len(p) /\ i \in 1..Len(j) /\ p[i] < j[i]
  BY <1>3, <1>4, <1>b DEF LessAt
<1>6. k[i] = p[i]
  BY <1>1, <1>5 DEF Agree
<1>7. Agree(k, j, i - 1)
  <2>. SUFFICES ASSUME NEW n \in 1..i - 1 PROVE k[n] = j[n]
    BY DEF Agree
  <2>1. n \in 1..Len(p)
    BY <1>5, <1>b
  <2>2. k[n] = p[n]
    BY <1>1, <2>1 DEF Agree
  <2>. QED  BY <1>3, <2>2 DEF LessAt, Agree
<1>8. LessAt(k, j, i)
  BY <1>1, <1>5, <1>6, <1>7, <1>b DEF LessAt
<1>. QED  BY <1>8, LessWhere

----------------------------------------------------------------------------
(* Ranks: how many elements of a set lie below one enumerates the set.      *)

\* R orders S strictly and totally.
Orders(R, S) ==
    /\ \A x \in S : <<x, x>> \notin R
    /\ \A x, y, z \in S : <<x, y>> \in R /\ <<y, z>> \in R => <<x, z>> \in R
    /\ \A x, y \in S : x # y => <<x, y>> \in R \/ <<y, x>> \in R

Below(R, S, x) == {y \in S : <<y, x>> \in R}

\* What is lower has the smaller rank, and every rank but the last is taken.
LEMMA Ranks ==
    ASSUME NEW S, IsFiniteSet(S), NEW R, Orders(R, S)
    PROVE  /\ Cardinality(S) \in Nat
           /\ \A x \in S : Cardinality(Below(R, S, x)) \in 0..Cardinality(S) - 1
           /\ \A x, y \in S : <<x, y>> \in R
                 <=> Cardinality(Below(R, S, x)) < Cardinality(Below(R, S, y))
           /\ \A i \in 1..Cardinality(S) :
                 \E x \in S : Cardinality(Below(R, S, x)) = i - 1
<1>. DEFINE rank(x) == Cardinality(Below(R, S, x))
            n == Cardinality(S)
<1>1. n \in Nat
  BY FS_CardinalityType
<1>2. \A x \in S : IsFiniteSet(Below(R, S, x)) /\ rank(x) \in Nat
  <2>. SUFFICES ASSUME NEW x \in S PROVE IsFiniteSet(Below(R, S, x)) /\ rank(x) \in Nat
    OBVIOUS
  <2>1. Below(R, S, x) \in SUBSET S
    BY DEF Below
  <2>2. IsFiniteSet(Below(R, S, x))
    BY <2>1, FS_Subset
  <2>. QED  BY <2>2, FS_CardinalityType
<1>3. ASSUME NEW x \in S, NEW y \in S, <<x, y>> \in R PROVE rank(x) < rank(y)
  <2>1. Below(R, S, x) \in SUBSET Below(R, S, y)
    BY <1>3 DEF Below, Orders
  <2>2. x \in Below(R, S, y) /\ x \notin Below(R, S, x)
    BY <1>3 DEF Below, Orders
  <2>3. rank(x) <= rank(y) /\ rank(x) # rank(y)
    BY <1>2, <2>1, <2>2, FS_Subset
  <2>4. rank(x) \in Nat /\ rank(y) \in Nat
    BY <1>2
  <2>. QED  BY <2>3, <2>4
<1>4. \A x \in S : rank(x) \in 0..n - 1
  <2>. SUFFICES ASSUME NEW x \in S PROVE rank(x) \in 0..n - 1
    OBVIOUS
  <2>1. Below(R, S, x) \in SUBSET S /\ x \notin Below(R, S, x)
    BY DEF Below, Orders
  <2>2. rank(x) <= n /\ rank(x) # n
    BY <2>1, FS_Subset
  <2>3. rank(x) \in Nat
    BY <1>2
  <2>. QED  BY <1>1, <2>2, <2>3
<1>5. ASSUME NEW x \in S, NEW y \in S, rank(x) = rank(y) PROVE x = y
  <2>. SUFFICES ASSUME x # y PROVE FALSE
    OBVIOUS
  <2>1. <<x, y>> \in R \/ <<y, x>> \in R
    BY DEF Orders
  <2>2. rank(x) < rank(y) \/ rank(y) < rank(x)
    BY <1>3, <2>1
  <2>3. rank(x) \in Nat /\ rank(y) \in Nat
    BY <1>2
  <2>. QED  BY <1>5, <2>2, <2>3
<1>6. \A x, y \in S : <<x, y>> \in R <=> rank(x) < rank(y)
  <2>. SUFFICES ASSUME NEW x \in S, NEW y \in S, rank(x) < rank(y) PROVE <<x, y>> \in R
    BY <1>3
  <2>1. rank(x) \in Nat /\ rank(y) \in Nat
    BY <1>2
  <2>2. x # y /\ ~(<<y, x>> \in R)
    BY <1>3, <2>1
  <2>. QED  BY <2>2 DEF Orders
<1>7. \A i \in 1..n : \E x \in S : rank(x) = i - 1
  <2>. DEFINE f == [x \in S |-> rank(x)]
              V == 0..n - 1
  <2>1. f \in Injection(S, V)
    <3>1. f \in [S -> V]
      BY <1>4
    <3>2. \A x, y \in S : f[x] = f[y] => x = y
      BY <1>5
    <3>. HIDE DEF f, V
    <3>. QED  BY <3>1, <3>2 DEF Injection, IsInjective
  <2>2. IsFiniteSet(V) /\ Cardinality(V) = n
    BY <1>1, FS_Interval, SMTT(20)
  <2>3. f \in Surjection(S, V)
    <3>. HIDE DEF f, V
    <3>. QED  BY <2>1, <2>2, FS_Injection
  <2>. SUFFICES ASSUME NEW i \in 1..n PROVE \E x \in S : rank(x) = i - 1
    OBVIOUS
  <2>4. i - 1 \in V
    BY <1>1
  <2>5. \E x \in S : f[x] = i - 1
    <3>. HIDE DEF f, V
    <3>. QED  BY <2>3, <2>4 DEF Surjection
  <2>. QED  BY <2>5
<1>. QED  BY <1>1, <1>4, <1>6, <1>7
\* The order of keys on a set of them, as a relation.
LexOn(S) == {pr \in S \X S : LexLess(pr[1], pr[2])}

\* The byte order is a strict total order on any set of keys.
LEMMA LexOrders ==
    ASSUME NEW S \in SUBSET Seq(Byte)
    PROVE  /\ Orders(LexOn(S), S)
           /\ \A x \in S : Below(LexOn(S), S, x) = {j \in S : LexLess(j, x)}
           /\ \A x, y \in S : <<x, y>> \in LexOn(S) <=> LexLess(x, y)
<1>1. \A x, y \in S : <<x, y>> \in LexOn(S) <=> LexLess(x, y)
  BY DEF LexOn
<1>2. \A x \in S : <<x, x>> \notin LexOn(S)
  BY <1>1, LexIrreflexive
<1>3. \A x, y, z \in S : <<x, y>> \in LexOn(S) /\ <<y, z>> \in LexOn(S) => <<x, z>> \in LexOn(S)
  <2>. SUFFICES ASSUME NEW x \in S, NEW y \in S, NEW z \in S, LexLess(x, y), LexLess(y, z)
                PROVE  LexLess(x, z)
    BY <1>1
  <2>. QED  BY LexTransitive
<1>4. \A x, y \in S : x # y => <<x, y>> \in LexOn(S) \/ <<y, x>> \in LexOn(S)
  BY <1>1, LexTotal
<1>5. \A x \in S : Below(LexOn(S), S, x) = {j \in S : LexLess(j, x)}
  BY <1>1 DEF Below
<1>. QED  BY <1>1, <1>2, <1>3, <1>4, <1>5 DEF Orders

\* Sorted enumerates a finite set of keys, each once, in strictly ascending
\* order: the order in which an engine's iterator meets them.
THEOREM SortedExact ==
    ASSUME NEW S \in SUBSET Seq(Byte), IsFiniteSet(S)
    PROVE  /\ Sorted(S) \in Seq(S) /\ Len(Sorted(S)) = Cardinality(S)
           /\ \A i \in 1..Len(Sorted(S)) :
                 Cardinality({j \in S : LexLess(j, Sorted(S)[i])}) = i - 1
           /\ \A i, h \in 1..Len(Sorted(S)) : i < h => LexLess(Sorted(S)[i], Sorted(S)[h])
           /\ \A k \in S : \E i \in 1..Len(Sorted(S)) : Sorted(S)[i] = k
<1>. DEFINE R == LexOn(S)
            n == Cardinality(S)
            rank(x) == Cardinality({j \in S : LexLess(j, x)})
            w == Sorted(S)
<1>1. /\ n \in Nat
      /\ \A x \in S : rank(x) \in 0..n - 1
      /\ \A x, y \in S : LexLess(x, y) <=> rank(x) < rank(y)
      /\ \A i \in 1..n : \E x \in S : rank(x) = i - 1
  <2>1. /\ Orders(R, S)
        /\ \A x \in S : Below(R, S, x) = {j \in S : LexLess(j, x)}
        /\ \A x, y \in S : <<x, y>> \in R <=> LexLess(x, y)
    BY LexOrders
  <2>. HIDE DEF R
  <2>2. /\ n \in Nat
        /\ \A x \in S : Cardinality(Below(R, S, x)) \in 0..n - 1
        /\ \A x, y \in S : <<x, y>> \in R
                 <=> Cardinality(Below(R, S, x)) < Cardinality(Below(R, S, y))
        /\ \A i \in 1..n : \E x \in S : Cardinality(Below(R, S, x)) = i - 1
    BY <2>1, Ranks
  <2>. QED  BY <2>1, <2>2
<1>2. w = [i \in 1..n |-> CHOOSE k \in S : rank(k) = i - 1]
  BY DEF Sorted
<1>. HIDE DEF n, rank, w
<1>3. \A i \in 1..n : w[i] \in S /\ rank(w[i]) = i - 1
  BY <1>1, <1>2
<1>4. w \in Seq(S) /\ Len(w) = n
  <2>1. w \in [1..n -> S]
    BY <1>2, <1>3
  <2>. QED  BY <1>1, <2>1
<1>5. \A i, h \in 1..n : i < h => LexLess(w[i], w[h])
  <2>. SUFFICES ASSUME NEW i \in 1..n, NEW h \in 1..n, i < h PROVE LexLess(w[i], w[h])
    OBVIOUS
  <2>1. rank(w[i]) = i - 1 /\ rank(w[h]) = h - 1 /\ w[i] \in S /\ w[h] \in S
    BY <1>3
  <2>2. i - 1 < h - 1
    BY <1>1
  <2>. QED  BY <1>1, <2>1, <2>2
<1>6. \A k \in S : \E i \in 1..n : w[i] = k
  <2>. SUFFICES ASSUME NEW k \in S PROVE \E i \in 1..n : w[i] = k
    OBVIOUS
  <2>1. rank(k) \in 0..n - 1
    BY <1>1
  <2>2. PICK m : m = rank(k)
    OBVIOUS
  <2>3. PICK i \in 1..n : rank(k) = i - 1
    <3>1. m + 1 \in 1..n /\ m = m + 1 - 1 /\ m \in Nat /\ n \in Nat
      BY <1>1, <2>1, <2>2
    <3>2. PICK i : i = m + 1
      OBVIOUS
    <3>3. i \in 1..n /\ rank(k) = i - 1
      BY <2>2, <3>1, <3>2
    <3>. QED  BY <3>3
  <2>4. w[i] \in S /\ rank(w[i]) = rank(k) /\ rank(k) \in Nat
    BY <1>3, <2>1, <2>3
  <2>5. ~LexLess(w[i], k) /\ ~LexLess(k, w[i])
    BY <1>1, <2>4
  <2>6. w[i] \in Seq(Byte) /\ k \in Seq(Byte)
    BY <2>4
  <2>. QED  BY <2>5, <2>6, LexTotal
<1>. QED  BY <1>3, <1>4, <1>5, <1>6 DEF w, n, rank

\* The place the j-th of some places is at.
Place(places, j) == CHOOSE i \in places : Cardinality({h \in places : h < i}) = j - 1

\* Taking the items at some places keeps those and their order.
LEMMA AtPlacesExact ==
    ASSUME NEW X, NEW s \in Seq(X), NEW I \in SUBSET (1..Len(s))
    PROVE  /\ Cardinality(I) \in Nat /\ Cardinality(I) <= Len(s)
           /\ AtPlaces(s, I) \in Seq(X) /\ Len(AtPlaces(s, I)) = Cardinality(I)
           /\ \A j \in 1..Cardinality(I) :
                 Place(I, j) \in I /\ AtPlaces(s, I)[j] = s[Place(I, j)]
           /\ \A j, h \in 1..Cardinality(I) : j < h => Place(I, j) < Place(I, h)
           /\ \A i \in I : \E j \in 1..Cardinality(I) : Place(I, j) = i
<1>. DEFINE R == {pr \in I \X I : pr[1] < pr[2]}
            n == Cardinality(I)
            rank(x) == Cardinality({h \in I : h < x})
<1>0. Len(s) \in Nat /\ I \subseteq Nat /\ \A i \in I : s[i] \in X
  OBVIOUS
<1>1. IsFiniteSet(I) /\ n <= Len(s)
  <2>1. IsFiniteSet(1..Len(s)) /\ Cardinality(1..Len(s)) = IF 1 > Len(s) THEN 0 ELSE Len(s) - 1 + 1
    BY <1>0, FS_Interval, SMTT(30)
  <2>2. Cardinality(1..Len(s)) = Len(s)
    BY <1>0, <2>1
  <2>. QED  BY <2>1, <2>2, FS_Subset
<1>2. /\ n \in Nat
      /\ \A x \in I : rank(x) \in 0..n - 1
      /\ \A x, y \in I : x < y <=> rank(x) < rank(y)
      /\ \A i \in 1..n : \E x \in I : rank(x) = i - 1
  <2>0. \A x, y \in I : <<x, y>> \in R <=> x < y
    OBVIOUS
  <2>. HIDE DEF R
  <2>1. Orders(R, I)
    BY <1>0, <2>0 DEF Orders
  <2>2. \A x \in I : Below(R, I, x) = {h \in I : h < x}
    BY <2>0 DEF Below
  <2>3. /\ n \in Nat
        /\ \A x \in I : Cardinality(Below(R, I, x)) \in 0..n - 1
        /\ \A x, y \in I : <<x, y>> \in R
                 <=> Cardinality(Below(R, I, x)) < Cardinality(Below(R, I, y))
        /\ \A i \in 1..n : \E x \in I : Cardinality(Below(R, I, x)) = i - 1
    BY <1>1, <2>1, Ranks
  <2>. QED  BY <2>0, <2>2, <2>3
<1>. HIDE DEF rank, R
<1>3. \A j : Place(I, j) = CHOOSE i \in I : rank(i) = j - 1
  BY DEF Place, rank
<1>4. \A j \in 1..n : Place(I, j) \in I /\ rank(Place(I, j)) = j - 1
  BY <1>2, <1>3
<1>5. AtPlaces(s, I) = [j \in 1..n |-> s[Place(I, j)]]
  BY DEF AtPlaces, Place
<1>. HIDE DEF n
<1>6. AtPlaces(s, I) \in Seq(X) /\ Len(AtPlaces(s, I)) = n
  <2>1. AtPlaces(s, I) \in [1..n -> X]
    BY <1>0, <1>4, <1>5
  <2>. QED  BY <1>2, <2>1
<1>7. \A j \in 1..n : AtPlaces(s, I)[j] = s[Place(I, j)]
  BY <1>5
<1>8. \A j, h \in 1..n : j < h => Place(I, j) < Place(I, h)
  <2>. SUFFICES ASSUME NEW j \in 1..n, NEW h \in 1..n, j < h PROVE Place(I, j) < Place(I, h)
    OBVIOUS
  <2>1. /\ rank(Place(I, j)) = j - 1 /\ rank(Place(I, h)) = h - 1
        /\ Place(I, j) \in I /\ Place(I, h) \in I
    BY <1>4
  <2>2. j - 1 < h - 1
    BY <1>2
  <2>. QED  BY <1>2, <2>1, <2>2
<1>9. \A i \in I : \E j \in 1..n : Place(I, j) = i
  <2>. SUFFICES ASSUME NEW i \in I PROVE \E j \in 1..n : Place(I, j) = i
    OBVIOUS
  <2>1. rank(i) \in 0..n - 1
    BY <1>2
  <2>2. PICK m : m = rank(i)
    OBVIOUS
  <2>3. PICK j \in 1..n : rank(i) = j - 1
    <3>1. m + 1 \in 1..n /\ m = m + 1 - 1 /\ m \in Nat /\ n \in Nat
      BY <1>2, <2>1, <2>2
    <3>2. PICK j : j = m + 1
      OBVIOUS
    <3>3. j \in 1..n /\ rank(i) = j - 1
      BY <2>2, <3>1, <3>2
    <3>. QED  BY <3>3
  <2>4. Place(I, j) \in I /\ rank(Place(I, j)) = rank(i) /\ rank(i) \in Nat
    BY <1>4, <2>1, <2>3
  <2>a. ~(rank(Place(I, j)) < rank(i)) /\ ~(rank(i) < rank(Place(I, j)))
    BY <2>4
  <2>5. ~(Place(I, j) < i) /\ ~(i < Place(I, j))
    BY <1>2, <2>4, <2>a
  <2>6. Place(I, j) \in Nat /\ i \in Nat
    BY <1>0, <2>4
  <2>. QED  BY <2>5, <2>6
<1>. QED  BY <1>1, <1>2, <1>4, <1>6, <1>7, <1>8, <1>9 DEF n

----------------------------------------------------------------------------
(* A page of a scan.                                                        *)

\* The prefix filter passes every key of a range, wherever in it the seek is.
Grouped(prefix) ==
    \A s, k \in Seq(Byte) : Starts(s, prefix) /\ Starts(k, prefix) => SameGroup(s, k)

\* What a scan has left to show.
Ahead(keys, prefix, after) ==
    {k \in keys : Starts(k, prefix) /\ (after = None \/ LexLess(after, k))}

\* A walk meets the keys of the range after the cursor, all of them, in order,
\* whatever lies before and after the range.
LEMMA WalkExact ==
    ASSUME NEW keys \in SUBSET Seq(Byte), NEW prefix \in Seq(Byte), Grouped(prefix),
           NEW after, after = None \/ (after \in Seq(Byte) /\ Starts(after, prefix))
    PROVE  Walk(keys, prefix, after) = Sorted(Ahead(keys, prefix, after))
<1>. DEFINE seek == IF after = None THEN prefix ELSE after
            Met == {k \in keys : /\ IF after = None THEN ~LexLess(k, prefix) ELSE LexLess(after, k)
                                 /\ SameGroup(seek, k)}
            Out == {k \in Met : \A j \in Met : Starts(j, prefix) \/ LexLess(k, j)}
<1>1. Walk(keys, prefix, after) = Sorted(Out)
  BY DEF Walk
<1>2. seek \in Seq(Byte) /\ Starts(seek, prefix)
  <2>1. Starts(prefix, prefix)
    BY StartsAgree DEF Agree
  <2>. QED  BY <2>1
<1>. HIDE DEF seek
<1>3. \A k \in Met : ~LexLess(k, prefix)
  <2>. SUFFICES ASSUME NEW k \in Met, LexLess(k, prefix) PROVE FALSE
    OBVIOUS
  <2>1. after # None /\ LexLess(after, k) /\ k \in Seq(Byte)
    OBVIOUS
  <2>2. LexLess(after, prefix)
    BY <2>1, LexTransitive
  <2>. QED  BY <2>1, <2>2, StartsNotLess
<1>4. ASSUME NEW k \in Out PROVE k \in Ahead(keys, prefix, after)
  <2>1. k \in Met /\ k \in keys /\ (Starts(k, prefix) \/ LexLess(k, k))
    BY <1>4
  <2>2. Starts(k, prefix)
    BY <2>1, LexIrreflexive
  <2>3. after = None \/ LexLess(after, k)
    BY <2>1
  <2>. QED  BY <2>1, <2>2, <2>3 DEF Ahead
<1>5. ASSUME NEW k \in Ahead(keys, prefix, after) PROVE k \in Out
  <2>1. k \in keys /\ Starts(k, prefix) /\ (after = None \/ LexLess(after, k)) /\ k \in Seq(Byte)
    BY DEF Ahead
  <2>2. SameGroup(seek, k)
    BY <1>2, <2>1 DEF Grouped
  <2>3. ~LexLess(k, prefix)
    BY <2>1, StartsNotLess
  <2>4. k \in Met
    BY <2>1, <2>2, <2>3
  <2>5. ASSUME NEW j \in Met PROVE Starts(j, prefix) \/ LexLess(k, j)
    <3>1. ~LexLess(j, prefix) /\ j \in Seq(Byte)
      BY <1>3
    <3>. HIDE DEF Met
    <3>. QED  BY <2>1, <3>1, PastPrefix
  <2>. QED  BY <2>4, <2>5
<1>6. Out = Ahead(keys, prefix, after)
  BY <1>4, <1>5
<1>. QED  BY <1>1, <1>6

\* The first of a set of keys, as many as the limit allows, and the last of them
\* as the cursor when some are left.
FirstOf(all, limit, page) ==
    /\ page.keys \in Seq(all) /\ Len(page.keys) <= limit
    /\ \A i \in 1..Len(page.keys) : page.keys[i] = Sorted(all)[i]
    /\ \A i, h \in 1..Len(page.keys) : i < h => LexLess(page.keys[i], page.keys[h])
    /\ Len(page.keys) = IF Cardinality(all) > limit THEN limit ELSE Cardinality(all)
    /\ IF page.next = None
       THEN \A k \in all : \E i \in 1..Len(page.keys) : page.keys[i] = k
       ELSE /\ Len(page.keys) = limit /\ page.next = page.keys[limit]
            /\ \A k \in all : \/ \E i \in 1..Len(page.keys) : page.keys[i] = k
                              \/ LexLess(page.next, k)
            /\ \E k \in all : LexLess(page.next, k)
    /\ page.next = None <=> Cardinality(all) <= limit

\* A page of a scan is the least keys of the range past the cursor, as many as
\* the limit allows, in order; it names a cursor exactly when more follow, and
\* then the last key shown (rocks_engine.rs seek, walk, scan).
THEOREM ScanExact ==
    ASSUME NEW keys \in SUBSET Seq(Byte), IsFiniteSet(keys), None \notin Seq(Byte),
           NEW prefix \in Seq(Byte), Grouped(prefix),
           NEW after, after = None \/ (after \in Seq(Byte) /\ Starts(after, prefix)),
           NEW limit \in Nat, limit > 0
    PROVE  FirstOf(Ahead(keys, prefix, after), limit, Scan(keys, prefix, after, limit))
<1>. DEFINE all == Ahead(keys, prefix, after)
            w == Sorted(all)
            page == Scan(keys, prefix, after, limit)
<1>1. all \in SUBSET Seq(Byte) /\ IsFiniteSet(all)
  <2>1. all \in SUBSET keys
    BY DEF Ahead
  <2>. QED  BY <2>1, FS_Subset
<1>2. page = IF Len(w) > limit THEN [keys |-> SubSeq(w, 1, limit), next |-> w[limit]]
             ELSE [keys |-> w, next |-> None]
  <2>1. Walk(keys, prefix, after) = w
    BY WalkExact
  <2>2. limit # 0
    OBVIOUS
  <2>. HIDE DEF w
  <2>. QED  BY <2>1, <2>2 DEF Scan
<1>. HIDE DEF all, page
<1>3. /\ w \in Seq(all) /\ Len(w) = Cardinality(all) /\ Len(w) \in Nat
      /\ \A i, h \in 1..Len(w) : i < h => LexLess(w[i], w[h])
      /\ \A k \in all : \E i \in 1..Len(w) : w[i] = k
  <2>1. /\ w \in Seq(all) /\ Len(w) = Cardinality(all)
        /\ \A i, h \in 1..Len(w) : i < h => LexLess(w[i], w[h])
        /\ \A k \in all : \E i \in 1..Len(w) : w[i] = k
    BY <1>1, SortedExact
  <2>. HIDE DEF w
  <2>. QED  BY <2>1
<1>. HIDE DEF w
<1>4. CASE Len(w) > limit
  <2>1. /\ page.keys = SubSeq(w, 1, limit) /\ page.next = w[limit] /\ limit \in 1..Len(w)
        /\ limit + 1 \in 1..Len(w) /\ limit < limit + 1
    BY <1>2, <1>3, <1>4
  <2>2. /\ page.keys \in Seq(all) /\ Len(page.keys) = limit
        /\ \A i \in 1..limit : page.keys[i] = w[i]
    BY <1>3, <2>1
  <2>3. page.next # None /\ page.next \in all
    <3>1. w[limit] \in all
      BY <1>3, <2>1
    <3>. QED  BY <1>1, <2>1, <3>1
  <2>4. page.next = page.keys[limit]
    BY <2>1, <2>2
  <2>5. \A i, h \in 1..limit : i < h => LexLess(page.keys[i], page.keys[h])
    BY <1>3, <1>4, <2>2
  <2>6. ASSUME NEW k \in all
        PROVE  (\E i \in 1..limit : page.keys[i] = k) \/ LexLess(page.next, k)
    <3>1. PICK i \in 1..Len(w) : w[i] = k
      BY <1>3
    <3>2. CASE i <= limit
      <4>1. i \in 1..limit
        BY <1>3, <3>2
      <4>. QED  BY <2>2, <3>1, <4>1
    <3>3. CASE ~(i <= limit)
      <4>1. limit < i
        BY <1>3, <3>3
      <4>. QED  BY <1>3, <2>1, <3>1, <4>1
    <3>. QED  BY <3>2, <3>3
  <2>7. \E k \in all : LexLess(page.next, k)
    <3>1. w[limit + 1] \in all /\ LexLess(page.next, w[limit + 1])
      BY <1>3, <2>1
    <3>. QED  BY <3>1
  <2>8. Cardinality(all) > limit /\ ~(Cardinality(all) <= limit)
    BY <1>3, <1>4
  <2>9. page.next = None <=> Cardinality(all) <= limit
    BY <2>3, <2>8
  <2>10. limit <= limit
    OBVIOUS
  <2>. QED  BY <2>2, <2>3, <2>4, <2>5, <2>6, <2>7, <2>8, <2>9, <2>10 DEF FirstOf, all, w, page
<1>5. CASE ~(Len(w) > limit)
  <2>1. page.keys = w /\ page.next = None
    BY <1>2, <1>5
  <2>2. Cardinality(all) <= limit /\ ~(Cardinality(all) > limit) /\ Len(w) <= limit
    BY <1>3, <1>5
  <2>3. page.next = None <=> Cardinality(all) <= limit
    BY <2>1, <2>2
  <2>. QED  BY <1>3, <2>1, <2>2, <2>3 DEF FirstOf, all, w, page
<1>. QED  BY <1>4, <1>5
----------------------------------------------------------------------------
(* Prefixes, digests and tags inside keys.                                  *)

\* Heads of the same length are compared byte by byte, and then what follows.
LEMMA StartsStrip ==
    ASSUME NEW p \in Seq(Byte), NEW q \in Seq(Byte), Len(p) = Len(q),
           NEW x \in Seq(Byte), NEW y \in Seq(Byte)
    PROVE  Starts(p \o x, q \o y) <=> p = q /\ Starts(x, y)
<1>. DEFINE k == p \o x
            l == q \o y
            n == Len(p)
<1>1. /\ k \in Seq(Byte) /\ Len(k) = n + Len(x)
      /\ l \in Seq(Byte) /\ Len(l) = n + Len(y)
      /\ \A i \in 1..n + Len(x) : k[i] = IF i <= n THEN p[i] ELSE x[i - n]
      /\ \A i \in 1..n + Len(y) : l[i] = IF i <= n THEN q[i] ELSE y[i - n]
  <2>1. /\ k \in Seq(Byte) /\ Len(k) = Len(p) + Len(x)
        /\ \A i \in 1..Len(p) + Len(x) : k[i] = IF i <= Len(p) THEN p[i] ELSE x[i - Len(p)]
    BY ConcatProperties
  <2>2. /\ l \in Seq(Byte) /\ Len(l) = Len(q) + Len(y)
        /\ \A i \in 1..Len(q) + Len(y) : l[i] = IF i <= Len(q) THEN q[i] ELSE y[i - Len(q)]
    BY ConcatProperties
  <2>3. n = Len(p) /\ n = Len(q)
    OBVIOUS
  <2>. HIDE DEF n, k, l
  <2>. QED  BY <2>1, <2>2, <2>3
<1>2. n \in Nat /\ Len(x) \in Nat /\ Len(y) \in Nat
  OBVIOUS
<1>. HIDE DEF k, l
<1>3. Starts(k, l) <=> n + Len(y) <= n + Len(x) /\ Agree(l, k, n + Len(y))
  BY <1>1, StartsAgree
<1>4. Starts(x, y) <=> Len(y) <= Len(x) /\ Agree(y, x, Len(y))
  BY StartsAgree
<1>. HIDE DEF n
<1>5. ASSUME Starts(k, l) PROVE p = q /\ Starts(x, y)
  <2>1. Len(y) <= Len(x) /\ \A i \in 1..n + Len(y) : l[i] = k[i]
    BY <1>2, <1>3, <1>5 DEF Agree
  <2>2. \A i \in 1..n : p[i] = q[i]
    <3>. SUFFICES ASSUME NEW i \in 1..n PROVE p[i] = q[i]
      OBVIOUS
    <3>1. i \in 1..n + Len(y) /\ i \in 1..n + Len(x) /\ i <= n
      BY <1>2
    <3>. QED  BY <1>1, <2>1, <3>1
  <2>3. p = q
    BY <2>2, SeqEqual DEF n
  <2>4. Agree(y, x, Len(y))
    <3>. SUFFICES ASSUME NEW i \in 1..Len(y) PROVE y[i] = x[i]
      BY DEF Agree
    <3>1. n + i \in 1..n + Len(y) /\ n + i \in 1..n + Len(x) /\ ~(n + i <= n) /\ n + i - n = i
      BY <1>2, <2>1
    <3>2. l[n + i] = y[i]
      BY <1>1, <1>2, <3>1
    <3>3. k[n + i] = x[i]
      BY <1>1, <1>2, <3>1
    <3>. QED  BY <2>1, <3>1, <3>2, <3>3
  <2>. QED  BY <1>4, <2>1, <2>3, <2>4
<1>6. ASSUME p = q, Starts(x, y) PROVE Starts(k, l)
  <2>1. Len(y) <= Len(x) /\ \A i \in 1..Len(y) : y[i] = x[i]
    BY <1>4, <1>6 DEF Agree
  <2>2. Agree(l, k, n + Len(y))
    <3>. SUFFICES ASSUME NEW i \in 1..n + Len(y) PROVE l[i] = k[i]
      BY DEF Agree
    <3>1. i \in 1..n + Len(x) /\ i \in Nat
      BY <1>2, <2>1
    <3>2. CASE i <= n
      BY <1>1, <1>6, <3>1, <3>2
    <3>3. CASE ~(i <= n)
      <4>1. i - n \in 1..Len(y)
        BY <1>2, <3>1, <3>3
      <4>. QED  BY <1>1, <2>1, <3>1, <3>3, <4>1
    <3>. QED  BY <3>2, <3>3
  <2>3. n + Len(y) <= n + Len(x)
    BY <1>2, <2>1
  <2>. QED  BY <1>3, <2>2, <2>3
<1>. QED  BY <1>5, <1>6 DEF k, l

\* Everything starts with nothing.
LEMMA StartsNothing ==
    ASSUME NEW s \in Seq(Byte)
    PROVE  Starts(s, <<>>)
<1>1. <<>> \in Seq(Byte) /\ Len(<<>>) = 0
  OBVIOUS
<1>2. PICK e \in Seq(Byte) : e = <<>> /\ Len(e) = 0
  BY <1>1
<1>3. Starts(s, e) <=> Len(e) <= Len(s) /\ Agree(e, s, Len(e))
  BY StartsAgree
<1>. QED  BY <1>2, <1>3 DEF Agree

\* The lengths of digests.
LEMMA DigestLengths ==
    ASSUME NEW d, IsDigest(d)
    PROVE  d \in Seq(Byte) /\ Len(d) \in {2, 3} /\ d[1] \in Byte /\ Len(d) = encoded_len_of(d[1])
<1>1. d \in Seq(Byte) /\ Len(d) \in Nat /\ Len(d) = encoded_len_of(d[1])
  BY DEF IsDigest
<1>2. d[1] \in Byte
  <2>1. Len(d) # 0
    BY <1>1 DEF IsDigest
  <2>. QED  BY <1>1, <2>1
<1>3. None \notin Nat
  BY AskAssumption
<1>. QED  BY <1>1, <1>2, <1>3 DEF encoded_len_of, ALGO_SHA256, ALGO_SHA512

\* No digest is the beginning of another: the algorithm fixes the length.
LEMMA DigestHead ==
    ASSUME NEW d, IsDigest(d), NEW e, IsDigest(e), NEW s \in Seq(Byte)
    PROVE  Starts(d \o s, e) <=> d = e
<1>1. d \in Seq(Byte) /\ Len(d) \in {2, 3} /\ Len(d) = encoded_len_of(d[1])
  BY DigestLengths
<1>2. e \in Seq(Byte) /\ Len(e) \in {2, 3} /\ Len(e) = encoded_len_of(e[1])
  BY DigestLengths
<1>. DEFINE k == d \o s
<1>3. /\ k \in Seq(Byte) /\ Len(k) = Len(d) + Len(s)
      /\ \A i \in 1..Len(d) + Len(s) : k[i] = IF i <= Len(d) THEN d[i] ELSE s[i - Len(d)]
  BY <1>1, ConcatProperties
<1>4. d = e => Starts(k, e)
  BY <1>1, StartsConcat
<1>. HIDE DEF k
<1>5. ASSUME Starts(k, e) PROVE d = e
  <2>1. Len(e) <= Len(k) /\ \A i \in 1..Len(e) : e[i] = k[i]
    BY <1>2, <1>3, <1>5, StartsAgree DEF Agree
  <2>2. 1 \in 1..Len(e) /\ 1 \in 1..Len(d) + Len(s) /\ 1 <= Len(d) /\ Len(s) \in Nat
    BY <1>1, <1>2
  <2>3. e[1] = d[1]
    BY <1>3, <2>1, <2>2
  <2>4. Len(d) = Len(e)
    BY <1>1, <1>2, <2>3
  <2>5. \A i \in 1..Len(d) : d[i] = e[i]
    <3>. SUFFICES ASSUME NEW i \in 1..Len(d) PROVE d[i] = e[i]
      OBVIOUS
    <3>1. i \in 1..Len(d) + Len(s) /\ i <= Len(d) /\ i \in 1..Len(e)
      BY <1>1, <2>2, <2>4
    <3>. QED  BY <1>3, <2>1, <3>1
  <2>. QED  BY <1>1, <1>2, <2>4, <2>5, SeqEqual
<1>. QED  BY <1>4, <1>5 DEF k

\* A tag is closed by a byte no tag holds, so none is the beginning of another.
LEMMA TagHead ==
    ASSUME NEW t, IsTag(t), NEW u, IsTag(u), NEW s \in Seq(Byte)
    PROVE  Starts(t \o (<<TAG_END>> \o s), u \o <<TAG_END>>) <=> t = u
<1>0. 0 \in Byte /\ <<TAG_END>> \in Seq(Byte) /\ Len(<<TAG_END>>) = 1 /\ <<TAG_END>>[1] = 0
  BY ByteAssumption DEF Byte, TAG_END
<1>1. /\ t \in Seq(Byte) /\ Len(t) \in Nat /\ \A i \in 1..Len(t) : t[i] # 0
      /\ u \in Seq(Byte) /\ Len(u) \in Nat /\ \A i \in 1..Len(u) : u[i] # 0
  <2>1. /\ t \in Seq(Byte \ {0}) /\ u \in Seq(Byte \ {0})
        /\ \A i \in 1..Len(t) : t[i] \in Byte \ {0}
        /\ \A i \in 1..Len(u) : u[i] \in Byte \ {0}
    BY DEF IsTag, TAG_END
  <2>2. t \in Seq(Byte) /\ u \in Seq(Byte)
    <3>1. Byte \ {0} \subseteq Byte
      OBVIOUS
    <3>. QED  BY <2>1, <3>1, SeqMonotonic
  <2>. QED  BY <2>1, <2>2
<1>. DEFINE x == <<TAG_END>> \o s
            k == t \o x
            l == u \o <<TAG_END>>
<1>2. /\ x \in Seq(Byte) /\ Len(x) = 1 + Len(s) /\ x[1] = 0 /\ Len(s) \in Nat
  BY <1>0, ConcatProperties
<1>3. /\ k \in Seq(Byte) /\ Len(k) = Len(t) + Len(x)
      /\ \A i \in 1..Len(t) + Len(x) : k[i] = IF i <= Len(t) THEN t[i] ELSE x[i - Len(t)]
  <2>. HIDE DEF x
  <2>. QED  BY <1>1, <1>2, ConcatProperties
<1>4. /\ l \in Seq(Byte) /\ Len(l) = Len(u) + 1
      /\ \A i \in 1..Len(u) + 1 : l[i] = IF i <= Len(u) THEN u[i] ELSE <<TAG_END>>[i - Len(u)]
  <2>1. PICK z \in Seq(Byte) : z = <<TAG_END>> /\ Len(z) = 1
    BY <1>0
  <2>2. /\ u \o z \in Seq(Byte) /\ Len(u \o z) = Len(u) + Len(z)
        /\ \A i \in 1..Len(u) + Len(z) : (u \o z)[i] = IF i <= Len(u) THEN u[i] ELSE z[i - Len(u)]
    BY <1>1, ConcatProperties
  <2>. QED  BY <2>1, <2>2
<1>5. l[Len(u) + 1] = 0 /\ k[Len(t) + 1] = 0
  <2>1. Len(u) + 1 \in 1..Len(u) + 1 /\ ~(Len(u) + 1 <= Len(u)) /\ Len(u) + 1 - Len(u) = 1
    BY <1>1
  <2>2. Len(t) + 1 \in 1..Len(t) + Len(x) /\ ~(Len(t) + 1 <= Len(t)) /\ Len(t) + 1 - Len(t) = 1
    BY <1>1, <1>2
  <2>. HIDE DEF k, l, x
  <2>3. l[Len(u) + 1] = <<TAG_END>>[1]
    BY <1>4, <2>1
  <2>4. k[Len(t) + 1] = x[1]
    BY <1>3, <2>2
  <2>. QED  BY <1>0, <1>2, <2>3, <2>4
<1>6. ASSUME t = u PROVE Starts(k, l)
  <2>1. k = (t \o <<TAG_END>>) \o s
    BY <1>0, <1>1, ConcatAssociative, SMTT(20)
  <2>. QED  BY <1>4, <1>6, <2>1, StartsConcat
<1>. HIDE DEF k, l, x
<1>7. ASSUME Starts(k, l) PROVE t = u
  <2>1. Len(l) <= Len(k) /\ \A i \in 1..Len(u) + 1 : l[i] = k[i]
    BY <1>3, <1>4, <1>7, StartsAgree DEF Agree
  <2>2. ~(Len(t) < Len(u))
    <3>. SUFFICES ASSUME Len(t) < Len(u) PROVE FALSE
      OBVIOUS
    <3>1. Len(t) + 1 \in 1..Len(u) + 1 /\ Len(t) + 1 <= Len(u) /\ Len(t) + 1 \in 1..Len(u)
      BY <1>1
    <3>2. l[Len(t) + 1] = u[Len(t) + 1]
      BY <1>4, <3>1
    <3>3. l[Len(t) + 1] = 0
      BY <1>5, <2>1, <3>1
    <3>. QED  BY <1>1, <3>1, <3>2, <3>3
  <2>3. ~(Len(u) < Len(t))
    <3>. SUFFICES ASSUME Len(u) < Len(t) PROVE FALSE
      OBVIOUS
    <3>1. Len(u) + 1 \in 1..Len(t) + Len(x) /\ Len(u) + 1 <= Len(t) /\ Len(u) + 1 \in 1..Len(t)
          /\ Len(u) + 1 \in 1..Len(u) + 1
      BY <1>1, <1>2
    <3>2. k[Len(u) + 1] = t[Len(u) + 1]
      BY <1>3, <3>1
    <3>3. k[Len(u) + 1] = 0
      BY <1>5, <2>1, <3>1
    <3>. QED  BY <1>1, <3>1, <3>2, <3>3
  <2>4. Len(t) = Len(u)
    BY <1>1, <2>2, <2>3
  <2>5. \A i \in 1..Len(t) : t[i] = u[i]
    <3>. SUFFICES ASSUME NEW i \in 1..Len(t) PROVE t[i] = u[i]
      OBVIOUS
    <3>1. i \in 1..Len(t) + Len(x) /\ i <= Len(t) /\ i \in 1..Len(u) + 1 /\ i <= Len(u)
      BY <1>1, <1>2, <2>4
    <3>. QED  BY <1>3, <1>4, <2>1, <3>1
  <2>. QED  BY <1>1, <2>4, <2>5, SeqEqual
<1>. QED  BY <1>6, <1>7 DEF k, l, x
----------------------------------------------------------------------------
(* What the listings scan: the ranges, the keys of their rows, positions.   *)

\* The type of the rows of a listing of a repository, and what its range fixes
\* after the repository.
TypeOf(kind) ==
    CASE kind \in {"tags", "details", "count"} -> "T"
      [] kind \in {"manifests", "untagged"} -> "M"
      [] kind = "tags_of" -> "G"
      [] kind = "parents" -> "S"
      [] kind = "referrers" -> "F"
      [] kind = "history" -> "H"
      [] kind = "manifest_history" -> "J"

Fixed(kind) ==
    CASE kind \in {"tags", "details", "count", "manifests", "untagged"} -> <<>>
      [] kind \in {"tags_of", "parents", "referrers", "manifest_history"} -> Ask.digest
      [] kind = "history" -> Ask.tag \o <<TAG_END>>

ByName == {"catalog", "search"}

\* What follows the repository in the key of a row.
Body(r) ==
    CASE r.t = "T" -> r.name
      [] r.t = "M" -> r.a
      [] r.t = "G" -> r.a \o r.name
      [] r.t \in {"S", "F"} -> r.a \o r.b
      [] r.t = "H" -> r.name \o (<<TAG_END>> \o (desc_time(r.at) \o r.a))
      [] r.t = "J" -> r.a \o (desc_time(r.at) \o r.name)

\* The rows of a listing, before any filter.
Listed(kind, r) == IF kind = "search" THEN r.t = "n" ELSE Wanted(kind, r)

\* Positions, and the bytes that follow the range in the key of one.
Pos(kind) == IF kind \in History THEN [at : Byte, last : Seq(Byte)] ELSE Seq(Byte)
Enc(kind, p) == IF kind \in History THEN desc_time(p.at) \o p.last ELSE p

\* The bytes used in keys are bytes.
LEMMA SmallBytes ==
    /\ \A n \in 0..18 : n \in Byte
    /\ <<TAG_END>> \in Seq(Byte)
    /\ \A at \in Byte : desc_time(at) \in Seq(Byte) /\ Len(desc_time(at)) = 1
                          /\ desc_time(at)[1] = MaxByte - at /\ MaxByte - at \in Byte
<1>1. \A n \in 0..18 : n \in Byte
  BY ByteAssumption DEF Byte, PREFIX_DB_VERSION
<1>2. <<TAG_END>> \in Seq(Byte)
  BY <1>1 DEF TAG_END
<1>3. \A at \in Byte : MaxByte - at \in Byte
  BY ByteAssumption DEF Byte
<1>. QED  BY <1>1, <1>2, <1>3 DEF desc_time

\* What the fields of a row are.
LEMMA RowFields ==
    ASSUME NEW kind \in Kind, NEW r \in Universe[kind]
    PROVE  /\ r.name \in Seq(Byte) /\ r.a \in Seq(Byte) /\ r.b \in Seq(Byte) /\ r.at \in Byte
           /\ desc_time(r.at) \in Seq(Byte)
           /\ r.t \in InRepo => r.repo \in Byte
<1>1. r.name \in Seq(Byte) /\ r.a \in Seq(Byte) /\ r.b \in Seq(Byte) /\ r.at \in Byte
      /\ (r.t \in InRepo => r.repo \in Byte)
  BY RowAssumption
<1>. QED  BY <1>1, SmallBytes

\* Joining byte strings.
LEMMA Joined ==
    ASSUME NEW x \in Seq(Byte), NEW y \in Seq(Byte)
    PROVE  x \o y \in Seq(Byte)
BY ConcatProperties

\* Joining three of them.
LEMMA Joined3 ==
    ASSUME NEW x \in Seq(Byte), NEW y \in Seq(Byte), NEW z \in Seq(Byte)
    PROVE  (x \o y) \o z = x \o (y \o z)
BY ConcatAssociative

\* The key of a row of a repository: its type, the repository, its body.
LEMMA KeyParts ==
    ASSUME NEW kind \in Kind, NEW r \in Universe[kind], r.t \in InRepo
    PROVE  Body(r) \in Seq(Byte) /\ KeyOf(r) = <<TypeByte(r.t), r.repo>> \o Body(r)
<1>1. /\ r.name \in Seq(Byte) /\ r.a \in Seq(Byte) /\ r.b \in Seq(Byte) /\ r.at \in Byte
      /\ desc_time(r.at) \in Seq(Byte) /\ r.repo \in Byte
  BY RowFields
<1>2. ASSUME NEW p \in 1..18 PROVE <<p, r.repo>> \in Seq(Byte)
  <2>1. p \in Byte
    BY SmallBytes
  <2>. QED  BY <1>1, <2>1
<1>3. <<TAG_END>> \in Seq(Byte)
  BY SmallBytes
<1>4. CASE r.t = "T"
  BY <1>1, <1>4 DEF KeyOf, Body, TypeByte, tag, start_repo
<1>5. CASE r.t = "M"
  BY <1>1, <1>5 DEF KeyOf, Body, TypeByte, manifest, start_repo
<1>6. CASE r.t = "G"
  <2>a. <<PREFIX_MANIFEST_TAG, r.repo>> \in Seq(Byte)
    BY <1>2 DEF PREFIX_MANIFEST_TAG
  <2>1. PICK h : h = <<PREFIX_MANIFEST_TAG, r.repo>> /\ h \in Seq(Byte)
    BY <2>a
  <2>2. (h \o r.a) \o r.name = h \o (r.a \o r.name) /\ r.a \o r.name \in Seq(Byte)
    BY <1>1, <2>1, Joined, Joined3, ZenonT(40)
  <2>. QED  BY <1>6, <2>1, <2>2 DEF KeyOf, Body, TypeByte, manifest_tag, tags_of_manifest, start_repo
<1>7. CASE r.t = "S"
  <2>a. <<PREFIX_CHILD_PARENT, r.repo>> \in Seq(Byte)
    BY <1>2 DEF PREFIX_CHILD_PARENT
  <2>1. PICK h : h = <<PREFIX_CHILD_PARENT, r.repo>> /\ h \in Seq(Byte)
    BY <2>a
  <2>2. (h \o r.a) \o r.b = h \o (r.a \o r.b) /\ r.a \o r.b \in Seq(Byte)
    BY <1>1, <2>1, Joined, Joined3, ZenonT(40)
  <2>. QED  BY <1>7, <2>1, <2>2 DEF KeyOf, Body, TypeByte, child_parent, parents_of, start_repo
<1>8. CASE r.t = "F"
  <2>a. <<PREFIX_REFERRER, r.repo>> \in Seq(Byte)
    BY <1>2 DEF PREFIX_REFERRER
  <2>1. PICK h : h = <<PREFIX_REFERRER, r.repo>> /\ h \in Seq(Byte)
    BY <2>a
  <2>2. (h \o r.a) \o r.b = h \o (r.a \o r.b) /\ r.a \o r.b \in Seq(Byte)
    BY <1>1, <2>1, Joined, Joined3, ZenonT(40)
  <2>. QED  BY <1>8, <2>1, <2>2 DEF KeyOf, Body, TypeByte, referrer, referrers_of, start_repo
<1>9. CASE r.t = "H"
  <2>a. <<PREFIX_TAG_HISTORY, r.repo>> \in Seq(Byte)
    BY <1>2 DEF PREFIX_TAG_HISTORY
  <2>1. PICK h : h = <<PREFIX_TAG_HISTORY, r.repo>> /\ h \in Seq(Byte)
    BY <2>a
  <2>2. PICK n, e, x, d : /\ n = r.name /\ e = <<TAG_END>> /\ x = desc_time(r.at) /\ d = r.a
                          /\ n \in Seq(Byte) /\ e \in Seq(Byte) /\ x \in Seq(Byte) /\ d \in Seq(Byte)
    BY <1>1, <1>3
  <2>3. KeyOf(r) = (((h \o n) \o e) \o x) \o d
    BY <1>9, <2>1, <2>2 DEF KeyOf, tag_history, tag_history_of, tag_history_in_repo, start_repo
  <2>4. Body(r) = n \o (e \o (x \o d)) /\ h = <<TypeByte(r.t), r.repo>>
    BY <1>9, <2>1, <2>2 DEF Body, TypeByte
  <2>5. /\ (((h \o n) \o e) \o x) \o d = h \o (n \o (e \o (x \o d)))
        /\ n \o (e \o (x \o d)) \in Seq(Byte)
    <3>1. PICK g : g = h \o n /\ g \in Seq(Byte)
      BY <2>1, <2>2, Joined
    <3>2. PICK f : f = g \o e /\ f \in Seq(Byte)
      BY <2>2, <3>1, Joined
    <3>3. PICK y : y = x \o d /\ y \in Seq(Byte)
      BY <2>2, Joined
    <3>4. PICK z : z = e \o y /\ z \in Seq(Byte)
      BY <2>2, <3>3, Joined
    <3>5. n \o z \in Seq(Byte)
      BY <2>2, <3>4, Joined
    <3>6. (f \o x) \o d = f \o (x \o d)
      <4>1. f \in Seq(Byte) /\ x \in Seq(Byte) /\ d \in Seq(Byte)
        BY <2>2, <3>2
      <4>. QED  BY ONLY <4>1, Joined3
    <3>7. (g \o e) \o y = g \o (e \o y)
      <4>1. g \in Seq(Byte) /\ e \in Seq(Byte) /\ y \in Seq(Byte)
        BY <2>2, <3>1, <3>3
      <4>. QED  BY ONLY <4>1, Joined3
    <3>8. (h \o n) \o z = h \o (n \o z)
      <4>1. h \in Seq(Byte) /\ n \in Seq(Byte) /\ z \in Seq(Byte)
        BY <2>1, <2>2, <3>4
      <4>. QED  BY ONLY <4>1, Joined3
    <3>. QED  BY <3>1, <3>2, <3>3, <3>4, <3>5, <3>6, <3>7, <3>8
  <2>. QED  BY <2>3, <2>4, <2>5
<1>10. CASE r.t = "J"
  <2>a. <<PREFIX_MANIFEST_TAG_HISTORY, r.repo>> \in Seq(Byte)
    BY <1>2 DEF PREFIX_MANIFEST_TAG_HISTORY
  <2>1. PICK h : h = <<PREFIX_MANIFEST_TAG_HISTORY, r.repo>> /\ h \in Seq(Byte)
    BY <2>a
  <2>2. PICK n, x, d : /\ n = r.name /\ x = desc_time(r.at) /\ d = r.a
                       /\ n \in Seq(Byte) /\ x \in Seq(Byte) /\ d \in Seq(Byte)
    BY <1>1
  <2>3. KeyOf(r) = ((h \o d) \o x) \o n
    BY <1>10, <2>1, <2>2 DEF KeyOf, manifest_tag_history, manifest_tag_history_of,
       manifest_tag_history_in_repo, start_repo
  <2>4. Body(r) = d \o (x \o n) /\ h = <<TypeByte(r.t), r.repo>>
    BY <1>10, <2>1, <2>2 DEF Body, TypeByte
  <2>5. ((h \o d) \o x) \o n = h \o (d \o (x \o n)) /\ d \o (x \o n) \in Seq(Byte)
    <3>1. PICK g : g = h \o d /\ g \in Seq(Byte)
      BY <2>1, <2>2, Joined
    <3>2. PICK y : y = x \o n /\ y \in Seq(Byte)
      BY <2>2, Joined
    <3>3. d \o y \in Seq(Byte)
      BY <2>2, <3>2, Joined
    <3>4. (g \o x) \o n = g \o (x \o n)
      <4>1. g \in Seq(Byte) /\ x \in Seq(Byte) /\ n \in Seq(Byte)
        BY <2>2, <3>1
      <4>. QED  BY ONLY <4>1, Joined3
    <3>5. (h \o d) \o y = h \o (d \o y)
      <4>1. h \in Seq(Byte) /\ d \in Seq(Byte) /\ y \in Seq(Byte)
        BY <2>1, <2>2, <3>2
      <4>. QED  BY ONLY <4>1, Joined3
    <3>. QED  BY <3>1, <3>2, <3>3, <3>4, <3>5
  <2>. QED  BY <2>3, <2>4, <2>5
<1>. QED  BY <1>4, <1>5, <1>6, <1>7, <1>8, <1>9, <1>10 DEF InRepo

\* What a tag and a digest that are asked about are.
LEMMA Asked ==
    /\ Ask.repo \in Byte /\ Ask.tag \in Seq(Byte) /\ Ask.digest \in Seq(Byte)
    /\ Len(Ask.digest) \in {2, 3}
    /\ Ask.tag \o <<TAG_END>> \in Seq(Byte)
<1>1. Ask.repo \in Byte /\ IsTag(Ask.tag) /\ IsDigest(Ask.digest)
  BY AskAssumption
<1>2. Ask.digest \in Seq(Byte) /\ Len(Ask.digest) \in {2, 3}
  BY <1>1, DigestLengths
<1>3. Ask.tag \in Seq(Byte)
  <2>1. Ask.tag \in Seq(Byte \ {TAG_END}) /\ Byte \ {TAG_END} \subseteq Byte
    BY <1>1 DEF IsTag
  <2>. QED  BY <2>1, SeqMonotonic
<1>. QED  BY <1>1, <1>2, <1>3, SmallBytes, ConcatProperties

\* The range of a listing: its type, the repository, and what it fixes.
LEMMA RangeParts ==
    ASSUME NEW kind \in Kinds \ ByName
    PROVE  /\ Fixed(kind) \in Seq(Byte)
           /\ <<TypeByte(TypeOf(kind)), Ask.repo>> \in Seq(Byte)
           /\ RangeOf(kind) = <<TypeByte(TypeOf(kind)), Ask.repo>> \o Fixed(kind)
           /\ RangeOf(kind) \in Seq(Byte)
<1>1. /\ Ask.repo \in Byte /\ Ask.tag \in Seq(Byte) /\ Ask.digest \in Seq(Byte)
      /\ Ask.tag \o <<TAG_END>> \in Seq(Byte)
  BY Asked
<1>2. Fixed(kind) \in Seq(Byte)
  BY <1>1 DEF Fixed, Kinds, ByName
<1>3. TypeByte(TypeOf(kind)) \in Byte
  BY SmallBytes DEF TypeByte, TypeOf, Kinds, ByName, PREFIX_TAG, PREFIX_MANIFEST,
     PREFIX_MANIFEST_TAG, PREFIX_CHILD_PARENT, PREFIX_REFERRER, PREFIX_TAG_HISTORY,
     PREFIX_MANIFEST_TAG_HISTORY
<1>a. PICK b \in Byte, c \in Byte : b = TypeByte(TypeOf(kind)) /\ c = Ask.repo
  BY <1>1, <1>3
<1>4. PICK h : h = <<TypeByte(TypeOf(kind)), Ask.repo>> /\ h \in Seq(Byte)
  <2>1. <<b, c>> \in Seq(Byte)
    OBVIOUS
  <2>. QED  BY <1>a, <2>1
<1>5. h \o <<>> = h
  BY ConcatEmptySeq
<1>6. CASE kind \in {"tags", "details", "count"}
  <2>1. h = tags_in_repo(Ask.repo) /\ Fixed(kind) = <<>> /\ RangeOf(kind) = tags_in_repo(Ask.repo)
    BY <1>4, <1>6 DEF tags_in_repo, start_repo, TypeOf, TypeByte, Fixed, RangeOf
  <2>. QED  BY <1>2, <1>4, <1>5, <2>1
<1>7. CASE kind \in {"manifests", "untagged"}
  <2>1. /\ h = manifests_in_repo(Ask.repo) /\ Fixed(kind) = <<>>
        /\ RangeOf(kind) = manifests_in_repo(Ask.repo)
    BY <1>4, <1>7 DEF manifests_in_repo, start_repo, TypeOf, TypeByte, Fixed, RangeOf
  <2>. QED  BY <1>2, <1>4, <1>5, <2>1
<1>8. CASE kind \in {"tags_of", "parents", "referrers", "manifest_history"}
  <2>1. RangeOf(kind) = h \o Ask.digest /\ Fixed(kind) = Ask.digest
    BY <1>4, <1>8 DEF tags_of_manifest, parents_of, referrers_of, manifest_tag_history_of,
       manifest_tag_history_in_repo, start_repo, TypeOf, TypeByte, Fixed, RangeOf
  <2>. QED  BY <1>1, <1>2, <1>4, <2>1, ConcatProperties
<1>9. CASE kind = "history"
  <2>1. RangeOf(kind) = (h \o Ask.tag) \o <<TAG_END>> /\ Fixed(kind) = Ask.tag \o <<TAG_END>>
    BY <1>4, <1>9 DEF tag_history_of, tag_history_in_repo, start_repo, TypeOf, TypeByte, Fixed, RangeOf
  <2>2. (h \o Ask.tag) \o <<TAG_END>> = h \o (Ask.tag \o <<TAG_END>>)
    BY <1>1, <1>4, SmallBytes, Joined3, ZenonT(40)
  <2>3. h \o (Ask.tag \o <<TAG_END>>) \in Seq(Byte)
    BY <1>1, <1>4, Joined
  <2>. QED  BY <1>2, <1>4, <2>1, <2>2, <2>3
<1>. QED  BY <1>6, <1>7, <1>8, <1>9 DEF Kinds, ByName

\* The range of the listings of repositories.
LEMMA NameRange ==
    ASSUME NEW kind \in ByName
    PROVE  /\ RangeOf(kind) = <<PREFIX_REPO_BY_NAME>> /\ RangeOf(kind) \in Seq(Byte)
           /\ Len(RangeOf(kind)) = 1 /\ RangeOf(kind)[1] = PREFIX_REPO_BY_NAME
<1>1. RangeOf(kind) = <<PREFIX_REPO_BY_NAME>>
  BY DEF RangeOf, ByName, repos_by_name
<1>2. PREFIX_REPO_BY_NAME \in Byte
  BY SmallBytes DEF PREFIX_REPO_BY_NAME
<1>. QED  BY <1>1, <1>2

\* A row's key lies in the range of a listing exactly when the row is one of
\* it: no tag that another continues, no digest of another length and no
\* neighbouring repository or type is taken in, and none is left out.
LEMMA KeyInRange ==
    ASSUME NEW kind \in Kind, NEW r \in Universe[kind]
    PROVE  Starts(KeyOf(r), RangeOf(kind)) <=> Listed(kind, r)
<1>. USE DEF PREFIX_MANIFEST, PREFIX_TAG, PREFIX_MANIFEST_TAG, PREFIX_CHILD_PARENT,
         PREFIX_REFERRER, PREFIX_TAG_HISTORY, PREFIX_MANIFEST_TAG_HISTORY,
         PREFIX_REPO_BY_NAME, PREFIX_UPLOAD, PREFIX_DB_VERSION
<1>0. kind \in Kinds
  BY AskAssumption
<1>1. KeyOf(r) \in Seq(Byte) /\ Len(KeyOf(r)) >= 1
  BY KeyInRepo, KeyElsewhere DEF Headed
<1>2. CASE kind \in ByName
  <2>1. Starts(KeyOf(r), RangeOf(kind)) <=> KeyOf(r)[1] = PREFIX_REPO_BY_NAME
    <3>1. /\ RangeOf(kind) \in Seq(Byte) /\ Len(RangeOf(kind)) = 1
          /\ RangeOf(kind)[1] = PREFIX_REPO_BY_NAME
      BY <1>2, NameRange
    <3>2. Starts(KeyOf(r), RangeOf(kind)) <=> 1 <= Len(KeyOf(r)) /\ Agree(RangeOf(kind), KeyOf(r), 1)
      BY <1>1, <3>1, StartsAgree
    <3>3. Agree(RangeOf(kind), KeyOf(r), 1) <=> RangeOf(kind)[1] = KeyOf(r)[1]
      <4>1. 1..1 = {1}
        OBVIOUS
      <4>. QED  BY ONLY <4>1 DEF Agree
    <3>. QED  BY <1>1, <3>1, <3>2, <3>3
  <2>2. CASE r.t \in InRepo
    <3>1. KeyOf(r)[1] = TypeByte(r.t)
      BY <2>2, KeyInRepo DEF Headed
    <3>2. TypeByte(r.t) # PREFIX_REPO_BY_NAME /\ r.t # "n"
      BY <2>2 DEF TypeByte, InRepo
    <3>. QED  BY <1>2, <2>1, <3>1, <3>2 DEF Listed, Wanted, ByName
  <2>3. CASE r.t \notin InRepo
    <3>1. r.t \in {"n", "U", "v"} /\ r.name \in Seq(Byte)
      BY <2>3, RowAssumption
    <3>2. ASSUME NEW p \in 1..18 PROVE (<<p>> \o r.name)[1] = p
      <4>1. <<p>> \in Seq(Byte) /\ Len(<<p>>) = 1 /\ <<p>>[1] = p
        BY SmallBytes
      <4>. QED  BY <3>1, <4>1, ConcatProperties
    <3>3. r.t = "n" <=> KeyOf(r)[1] = PREFIX_REPO_BY_NAME
      <4>1. CASE r.t = "n"
        BY <3>2, <4>1 DEF KeyOf, repo_by_name, repos_by_name
      <4>2. CASE r.t = "U"
        <5>1. KeyOf(r)[1] = PREFIX_UPLOAD
          BY <3>2, <4>2 DEF KeyOf
        <5>. QED  BY <4>2, <5>1
      <4>3. CASE r.t = "v"
        <5>1. KeyOf(r)[1] = PREFIX_DB_VERSION
          BY <4>3 DEF KeyOf
        <5>. QED  BY <4>3, <5>1
      <4>. QED  BY <3>1, <4>1, <4>2, <4>3
    <3>. QED  BY <1>2, <2>1, <3>3 DEF Listed, Wanted, ByName
  <2>. QED  BY <2>2, <2>3
<1>3. CASE kind \notin ByName
  <2>0. kind \in Kinds \ ByName
    BY <1>0, <1>3
  <2>1. PICK h \in Seq(Byte), f \in Seq(Byte) :
            /\ h = <<TypeByte(TypeOf(kind)), Ask.repo>> /\ f = Fixed(kind)
            /\ RangeOf(kind) = h \o f /\ RangeOf(kind) \in Seq(Byte)
    BY <2>0, RangeParts
  <2>2. Len(h) = 2 /\ h[1] = TypeByte(TypeOf(kind)) /\ h[2] = Ask.repo
    BY <2>1
  <2>3. CASE r.t \in InRepo
    <3>1. PICK b \in Seq(Byte) : b = Body(r) /\ KeyOf(r) = <<TypeByte(r.t), r.repo>> \o b
      BY <2>3, KeyParts
    <3>2. PICK g : g = <<TypeByte(r.t), r.repo>> /\ Len(g) = 2 /\ g \in Seq(Byte)
      <4>1. r.repo \in Byte
        BY <2>3, RowFields
      <4>2. TypeByte(r.t) \in Byte
        BY <2>3, SmallBytes, SMTT(30) DEF TypeByte, InRepo
      <4>3. PICK x \in Byte, y \in Byte : x = TypeByte(r.t) /\ y = r.repo
        BY <4>1, <4>2
      <4>4. <<x, y>> \in Seq(Byte) /\ Len(<<x, y>>) = 2
        OBVIOUS
      <4>. QED  BY <4>3, <4>4
    <3>3. Starts(KeyOf(r), RangeOf(kind)) <=> g = h /\ Starts(b, f)
      <4>1. KeyOf(r) = g \o b /\ RangeOf(kind) = h \o f /\ Len(g) = Len(h)
        BY <2>1, <2>2, <3>1, <3>2
      <4>2. Starts(g \o b, h \o f) <=> g = h /\ Starts(b, f)
        BY ONLY h \in Seq(Byte), f \in Seq(Byte), b \in Seq(Byte), <3>2, <4>1, StartsStrip
      <4>. QED  BY <4>1, <4>2
    <3>4. g = h <=> r.t = TypeOf(kind) /\ r.repo = Ask.repo
      <4>1. g = h <=> TypeByte(r.t) = TypeByte(TypeOf(kind)) /\ r.repo = Ask.repo
        BY <2>1, <3>2
      <4>2. TypeOf(kind) \in InRepo
        BY <2>0 DEF TypeOf, Kinds, ByName, InRepo
      <4>3. \A t, u \in InRepo : TypeByte(t) = TypeByte(u) => t = u
        BY DEF TypeByte, InRepo
      <4>. QED  BY <2>3, <4>1, <4>2, <4>3
    <3>5. CASE kind \in {"tags", "details", "count"}
      <4>1. Starts(b, f)
        BY <2>1, <3>5, StartsNothing DEF Fixed
      <4>. QED  BY <3>3, <3>4, <3>5, <4>1 DEF Listed, Wanted, TypeOf
    <3>6. CASE kind \in {"manifests", "untagged"}
      <4>1. Starts(b, f)
        BY <2>1, <3>6, StartsNothing DEF Fixed
      <4>. QED  BY <3>3, <3>4, <3>6, <4>1 DEF Listed, Wanted, TypeOf
    <3>7. CASE kind \in {"tags_of", "parents", "referrers", "manifest_history"}
      <4>1. f = Ask.digest /\ IsDigest(Ask.digest)
        BY <2>1, <3>7, AskAssumption DEF Fixed
      <4>2. TypeOf(kind) \in {"G", "S", "F", "J"}
        BY <3>7 DEF TypeOf
      <4>3. ASSUME r.t = TypeOf(kind) PROVE Starts(b, f) <=> r.a = Ask.digest
        <5>1. IsDigest(r.a)
          BY <4>2, <4>3, FieldAssumption
        <5>2. \E x \in Seq(Byte) : b = r.a \o x
          <6>1. /\ r.name \in Seq(Byte) /\ r.b \in Seq(Byte)
                /\ desc_time(r.at) \o r.name \in Seq(Byte)
            BY RowFields, ConcatProperties
          <6>. QED  BY <3>1, <4>2, <4>3, <6>1 DEF Body
        <5>. QED  BY <4>1, <5>1, <5>2, DigestHead
      <4>. QED  BY <3>3, <3>4, <3>7, <4>3 DEF Listed, Wanted, TypeOf
    <3>8. CASE kind = "history"
      <4>1. f = Ask.tag \o <<TAG_END>> /\ IsTag(Ask.tag) /\ TypeOf(kind) = "H"
        BY <2>1, <3>8, AskAssumption DEF Fixed, TypeOf
      <4>2. ASSUME r.t = "H" PROVE Starts(b, f) <=> r.name = Ask.tag
        <5>1. IsTag(r.name)
          BY <4>2, FieldAssumption
        <5>2. desc_time(r.at) \o r.a \in Seq(Byte)
          BY RowFields, ConcatProperties
        <5>3. b = r.name \o (<<TAG_END>> \o (desc_time(r.at) \o r.a))
          BY <3>1, <4>2 DEF Body
        <5>4. Starts(r.name \o (<<TAG_END>> \o (desc_time(r.at) \o r.a)), Ask.tag \o <<TAG_END>>)
                <=> r.name = Ask.tag
          BY <4>1, <5>1, <5>2, TagHead, ZenonT(40)
        <5>. QED  BY <4>1, <5>3, <5>4
      <4>. QED  BY <3>3, <3>4, <3>8, <4>1, <4>2 DEF Listed, Wanted
    <3>. QED  BY <2>0, <3>5, <3>6, <3>7, <3>8 DEF Kinds, ByName
  <2>4. CASE r.t \notin InRepo
    <3>1. KeyOf(r)[1] \in {PREFIX_REPO_BY_NAME, PREFIX_UPLOAD, PREFIX_DB_VERSION}
      BY <2>4, KeyElsewhere
    <3>2. TypeByte(TypeOf(kind)) \notin {PREFIX_REPO_BY_NAME, PREFIX_UPLOAD, PREFIX_DB_VERSION}
      BY <2>0 DEF TypeByte, TypeOf, Kinds, ByName
    <3>3. ~Starts(KeyOf(r), RangeOf(kind))
      <4>. SUFFICES ASSUME Starts(KeyOf(r), RangeOf(kind)) PROVE FALSE
        OBVIOUS
      <4>1. /\ Len(RangeOf(kind)) = 2 + Len(f) /\ Len(f) \in Nat
            /\ \A i \in 1..2 + Len(f) : RangeOf(kind)[i] = IF i <= 2 THEN h[i] ELSE f[i - 2]
        BY <2>1, <2>2, ConcatProperties
      <4>2. 1 \in 1..2 + Len(f)
        BY <4>1
      <4>3. RangeOf(kind)[1] = h[1]
        BY <4>1, <4>2
      <4>4. RangeOf(kind)[1] = KeyOf(r)[1]
        <5>1. Agree(RangeOf(kind), KeyOf(r), Len(RangeOf(kind)))
          BY <1>1, <2>1, StartsAgree
        <5>. QED  BY <4>1, <4>2, <5>1 DEF Agree
      <4>. QED  BY <2>2, <3>1, <3>2, <4>3, <4>4
    <3>4. ~Listed(kind, r)
      BY <2>0, <2>4 DEF Listed, Wanted, Kinds, ByName, InRepo
    <3>. QED  BY <3>3, <3>4
  <2>. QED  BY <2>3, <2>4
<1>. QED  BY <1>2, <1>3
----------------------------------------------------------------------------
(* The prefix filter keeps every range together.                           *)

\* Two keys that begin alike begin with the same bytes.
LEMMA SharedBytes ==
    ASSUME NEW prefix \in Seq(Byte), NEW s \in Seq(Byte), Starts(s, prefix)
    PROVE  /\ Len(s) \in Nat /\ Len(prefix) \in Nat /\ Len(s) >= Len(prefix)
           /\ \A i \in 1..Len(prefix) : s[i] = prefix[i]
BY StartsAgree DEF Agree

\* A range whose keys are all grouped on no more than the range's own bytes.
LEMMA GroupedOn ==
    ASSUME NEW prefix \in Seq(Byte), NEW n \in Nat, n <= Len(prefix),
           \A s \in Seq(Byte) : Starts(s, prefix) => summ_prefix_len(s) = n
    PROVE  Grouped(prefix)
<1>. SUFFICES ASSUME NEW s \in Seq(Byte), NEW k \in Seq(Byte), Starts(s, prefix), Starts(k, prefix)
              PROVE  SameGroup(s, k)
  BY DEF Grouped
<1>1. summ_prefix_len(s) = n /\ summ_prefix_len(k) = n
  OBVIOUS
<1>2. Len(s) >= n /\ Len(k) >= n /\ Agree(s, k, n)
  BY SharedBytes, SMTT(20) DEF Agree
<1>3. SubSeq(s, 1, n) = SubSeq(k, 1, n)
  BY <1>2, SubSeqAgree
<1>. QED  BY <1>1, <1>2, <1>3 DEF SameGroup, summ_transform, summ_in_domain

\* A range whose keys are in no group.
LEMMA GroupedOnNothing ==
    ASSUME NEW prefix \in Seq(Byte),
           \A s \in Seq(Byte) : Starts(s, prefix) => summ_prefix_len(s) = None
    PROVE  Grouped(prefix)
BY DEF Grouped, SameGroup, summ_in_domain

\* Ranges of whole repositories.
LEMMA RepoRangeGrouped ==
    ASSUME NEW prefix \in Seq(Byte), Len(prefix) >= 2,
           prefix[1] \in {PREFIX_MANIFEST, PREFIX_TAG, PREFIX_TAG_HISTORY, PREFIX_MANIFEST_TAG_HISTORY}
    PROVE  Grouped(prefix)
<1>1. ASSUME NEW s \in Seq(Byte), Starts(s, prefix) PROVE summ_prefix_len(s) = 2
  <2>1. s[1] = prefix[1] /\ Len(s) >= 2 /\ Len(s) \in Nat
    BY <1>1, SharedBytes
  <2>2. s # <<>>
    BY <2>1
  <2>. QED  BY <2>1, <2>2 DEF summ_prefix_len, GroupLen, RepoGroup, REPO_LEN, PREFIX_MANIFEST,
       PREFIX_TAG, PREFIX_TAG_HISTORY, PREFIX_MANIFEST_TAG_HISTORY, PREFIX_BLOB_REF,
       PREFIX_MANIFEST_TAG, PREFIX_CHILD_PARENT, PREFIX_REFERRER, PREFIX_COUNTER
<1>2. Len(prefix) \in Nat
  OBVIOUS
<1>. QED  BY <1>1, <1>2, GroupedOn

\* Ranges of one digest.
LEMMA DigestRangeGrouped ==
    ASSUME NEW prefix \in Seq(Byte), NEW h \in Seq(Byte), Len(h) = 2, NEW d, IsDigest(d),
           prefix = h \o d,
           h[1] \in {PREFIX_MANIFEST_TAG, PREFIX_CHILD_PARENT, PREFIX_REFERRER}
    PROVE  Grouped(prefix)
<1>1. d \in Seq(Byte) /\ Len(d) \in {2, 3} /\ Len(d) = encoded_len_of(d[1]) /\ Len(d) \in Nat
  BY DigestLengths
<1>2. /\ Len(prefix) = 2 + Len(d)
      /\ \A i \in 1..2 + Len(d) : prefix[i] = IF i <= 2 THEN h[i] ELSE d[i - 2]
  <2>1. /\ Len(h \o d) = Len(h) + Len(d)
        /\ \A i \in 1..Len(h) + Len(d) : (h \o d)[i] = IF i <= Len(h) THEN h[i] ELSE d[i - Len(h)]
    BY <1>1, ConcatProperties
  <2>. QED  BY <2>1
<1>3. prefix[1] = h[1] /\ prefix[3] = d[1]
  <2>1. 1 \in 1..2 + Len(d) /\ 3 \in 1..2 + Len(d) /\ 3 - 2 = 1
    BY <1>1
  <2>. QED  BY <1>2, <2>1
<1>4. ASSUME NEW s \in Seq(Byte), Starts(s, prefix) PROVE summ_prefix_len(s) = 2 + Len(d)
  <2>1. s[1] = h[1] /\ s[3] = d[1] /\ Len(s) >= 3 /\ Len(s) \in Nat
    <3>1. 1 \in 1..Len(prefix) /\ 3 \in 1..Len(prefix)
      BY <1>1, <1>2
    <3>2. Len(s) \in Nat /\ Len(s) >= Len(prefix) /\ \A i \in 1..Len(prefix) : s[i] = prefix[i]
      BY <1>4, SharedBytes
    <3>. QED  BY <1>1, <1>2, <1>3, <3>1, <3>2
  <2>2. s # <<>>
    BY <2>1
  <2>3. None \notin Nat
    BY AskAssumption
  <2>4. encoded_len_of(s[3]) = Len(d) /\ encoded_len_of(s[3]) # None /\ ~(Len(s) < 3)
    BY <1>1, <2>1, <2>3
  <2>5. /\ s[1] \in {PREFIX_MANIFEST_TAG, PREFIX_CHILD_PARENT, PREFIX_REFERRER}
        /\ s[1] # PREFIX_BLOB_REF
    BY <2>1 DEF PREFIX_BLOB_REF, PREFIX_MANIFEST_TAG, PREFIX_CHILD_PARENT, PREFIX_REFERRER
  <2>6. GroupLen(s) = 2 + encoded_len_of(s[3])
    BY <2>4, <2>5, SMTT(20) DEF GroupLen, REPO_LEN, PREFIX_COUNTER, PREFIX_MANIFEST,
       PREFIX_MANIFEST_BODY, PREFIX_TAG, PREFIX_REPO_BLOB, PREFIX_TAG_HISTORY,
       PREFIX_MANIFEST_TAG_HISTORY, PREFIX_BLOB_REF, PREFIX_MANIFEST_TAG, PREFIX_CHILD_PARENT,
       PREFIX_REFERRER
  <2>. QED  BY <2>2, <2>4, <2>6 DEF summ_prefix_len
<1>5. 2 + Len(d) \in Nat /\ 2 + Len(d) <= Len(prefix)
  BY <1>1, <1>2
<1>. QED  BY <1>4, <1>5, GroupedOn

\* The prefix filter of the RocksDB engine cuts no listing short.
LEMMA RangesGrouped ==
    ASSUME NEW kind \in Kinds
    PROVE  RangeOf(kind) \in Seq(Byte) /\ Grouped(RangeOf(kind))
<1>1. CASE kind \in ByName
  <2>1. /\ RangeOf(kind) \in Seq(Byte) /\ Len(RangeOf(kind)) = 1
        /\ RangeOf(kind)[1] = PREFIX_REPO_BY_NAME
    BY <1>1, NameRange
  <2>2. ASSUME NEW s \in Seq(Byte), Starts(s, RangeOf(kind)) PROVE summ_prefix_len(s) = None
    <3>1. s[1] = PREFIX_REPO_BY_NAME
      BY <2>1, <2>2, SharedBytes
    <3>. QED  BY <3>1 DEF summ_prefix_len, GroupLen, PREFIX_BLOB_REF, PREFIX_MANIFEST_TAG,
         PREFIX_CHILD_PARENT, PREFIX_REFERRER, PREFIX_COUNTER, PREFIX_MANIFEST,
         PREFIX_MANIFEST_BODY, PREFIX_TAG, PREFIX_REPO_BLOB, PREFIX_TAG_HISTORY,
         PREFIX_MANIFEST_TAG_HISTORY, PREFIX_REPO_BY_NAME
  <2>. QED  BY <2>1, <2>2, GroupedOnNothing
<1>2. CASE kind \notin ByName
  <2>0. kind \in Kinds \ ByName
    BY <1>2
  <2>1. PICK h \in Seq(Byte), f \in Seq(Byte) :
            /\ h = <<TypeByte(TypeOf(kind)), Ask.repo>> /\ f = Fixed(kind)
            /\ RangeOf(kind) = h \o f /\ RangeOf(kind) \in Seq(Byte)
    BY <2>0, RangeParts
  <2>2. Len(h) = 2 /\ h[1] = TypeByte(TypeOf(kind))
    BY <2>1
  <2>3. Len(RangeOf(kind)) >= 2 /\ RangeOf(kind)[1] = h[1]
    <3>1. /\ Len(h \o f) = Len(h) + Len(f) /\ Len(f) \in Nat
          /\ \A i \in 1..Len(h) + Len(f) : (h \o f)[i] = IF i <= Len(h) THEN h[i] ELSE f[i - Len(h)]
      BY ConcatProperties
    <3>2. 1 \in 1..Len(h) + Len(f) /\ 1 <= Len(h)
      BY <2>2, <3>1
    <3>. QED  BY <2>1, <2>2, <3>1, <3>2
  <2>4. CASE kind \in {"tags", "details", "count", "manifests", "untagged", "history", "manifest_history"}
    <3>1. TypeByte(TypeOf(kind)) \in {PREFIX_MANIFEST, PREFIX_TAG, PREFIX_TAG_HISTORY,
                                      PREFIX_MANIFEST_TAG_HISTORY}
      BY <2>4 DEF TypeByte, TypeOf
    <3>. QED  BY <2>1, <2>2, <2>3, <3>1, RepoRangeGrouped
  <2>5. CASE kind \in {"tags_of", "parents", "referrers"}
    <3>1. TypeByte(TypeOf(kind)) \in {PREFIX_MANIFEST_TAG, PREFIX_CHILD_PARENT, PREFIX_REFERRER}
      BY <2>5 DEF TypeByte, TypeOf
    <3>2. f = Ask.digest /\ IsDigest(f)
      BY <2>1, <2>5, AskAssumption DEF Fixed
    <3>. QED  BY <2>1, <2>2, <3>1, <3>2, DigestRangeGrouped
  <2>. QED  BY <2>0, <2>4, <2>5 DEF Kinds, ByName
<1>. QED  BY <1>1, <1>2
----------------------------------------------------------------------------
(* Positions and cursors.                                                  *)

\* The cursor of a position of the listing: its range and the position's bytes.
LEMMA CursorShape ==
    ASSUME NEW kind \in Kinds, NEW p \in Pos(kind)
    PROVE  /\ p # None /\ Enc(kind, p) \in Seq(Byte)
           /\ CursorAt(kind, p) = RangeOf(kind) \o Enc(kind, p)
<1>0. None \notin Seq(Byte) /\ None \notin Instant
  BY AskAssumption
<1>1. CASE kind \notin History
  <2>1. p \in Seq(Byte) /\ p # None
    BY <1>0, <1>1 DEF Pos
  <2>. QED  BY <1>1, <2>1 DEF Enc, CursorAt, RangeOf, Kinds, History, tag, repo_by_name, manifest,
       manifest_tag, child_parent, referrer, tags_in_repo, manifests_in_repo
<1>2. CASE kind \in History
  <2>1. p \in [at : Byte, last : Seq(Byte)]
    BY <1>2 DEF Pos
  <2>2. p.at \in Byte /\ p.last \in Seq(Byte) /\ p.last # None
    BY <1>0, <2>1
  <2>3. p \in Instant
    BY <2>1 DEF Instant
  <2>4. PICK x, y, g : /\ x = desc_time(p.at) /\ y = p.last /\ g = RangeOf(kind)
                       /\ x \in Seq(Byte) /\ y \in Seq(Byte) /\ g \in Seq(Byte)
    BY <2>2, SmallBytes, RangesGrouped
  <2>5. (g \o x) \o y = g \o (x \o y) /\ x \o y \in Seq(Byte)
    <3>1. g \in Seq(Byte) /\ x \in Seq(Byte) /\ y \in Seq(Byte)
      BY <2>4
    <3>. QED  BY ONLY <3>1, Joined, Joined3
  <2>6. CursorAt(kind, p) = Resume(kind, p)
    BY <1>0, <1>2, <2>2, <2>3 DEF CursorAt, HistoryCursor, History
  <2>7. Resume(kind, p) = (RangeOf(kind) \o desc_time(p.at)) \o p.last
    BY <1>2 DEF Resume, RangeOf, History, tag_history, manifest_tag_history
  <2>8. Enc(kind, p) = x \o y
    BY <1>2, <2>4 DEF Enc
  <2>. QED  BY <1>0, <2>3, <2>4, <2>5, <2>6, <2>7, <2>8
<1>. QED  BY <1>1, <1>2

\* The position of a row of the listing, which may be handed back as a cursor
\* and then is the row's own key.
LEMMA RowIsCursor ==
    ASSUME NEW kind \in Kind, NEW r \in Universe[kind], Listed(kind, r)
    PROVE  /\ RowPos(kind, r) \in Pos(kind) /\ CursorAt(kind, RowPos(kind, r)) = KeyOf(r)
           /\ kind \in {"manifests", "untagged", "parents", "referrers"} => IsDigest(RowPos(kind, r))
           /\ kind = "history" => IsDigest(RowPos(kind, r).last)
           /\ kind \in History => RowPos(kind, r).at > 0 /\ RowPos(kind, r).last # <<>>
<1>0. kind \in Kinds
  BY AskAssumption
<1>1. r.name \in Seq(Byte) /\ r.a \in Seq(Byte) /\ r.b \in Seq(Byte) /\ r.at \in Byte
  BY RowFields
<1>2. RowPos(kind, r) \in Pos(kind)
  BY <1>0, <1>1 DEF RowPos, Pos, Kinds, History
<1>3. CASE kind \notin History
  <2>1. RowPos(kind, r) # None
    BY <1>0, <1>2, CursorShape
  <2>2. CursorAt(kind, RowPos(kind, r)) = KeyOf(r)
    BY <1>0, <1>3, <2>1 DEF CursorAt, RowPos, KeyOf, Listed, Wanted, Kinds, History
  <2>3. kind \in {"manifests", "untagged", "parents", "referrers"} => IsDigest(RowPos(kind, r))
    BY FieldAssumption DEF RowPos, Listed, Wanted
  <2>. QED  BY <1>2, <1>3, <2>2, <2>3 DEF History
<1>4. CASE kind \in History
  <2>1. RowPos(kind, r).last \in Seq(Byte) /\ RowPos(kind, r).at = r.at
    BY <1>1, <1>4 DEF RowPos, History
  <2>2. RowPos(kind, r).last # None /\ RowPos(kind, r) # None
    BY <1>0, <1>2, <2>1, CursorShape, AskAssumption
  <2>3. CursorAt(kind, RowPos(kind, r)) = Resume(kind, RowPos(kind, r))
    BY <1>4, <2>2 DEF CursorAt, HistoryCursor, History
  <2>4. Resume(kind, RowPos(kind, r)) = KeyOf(r)
    BY <1>4 DEF Resume, RowPos, KeyOf, Listed, Wanted, History
  <2>5. kind = "history" => IsDigest(RowPos(kind, r).last)
    BY FieldAssumption DEF RowPos, Listed, Wanted
  <2>6. RowPos(kind, r).at > 0 /\ RowPos(kind, r).last # <<>>
    BY <1>4, FieldAssumption DEF RowPos, Listed, Wanted, History, IsDigest, IsTag
  <2>. QED  BY <1>2, <1>4, <2>3, <2>4, <2>5, <2>6 DEF History
<1>. QED  BY <1>3, <1>4

\* Taking the head of a string off it.
LEMMA RestConcat ==
    ASSUME NEW g \in Seq(Byte), NEW x \in Seq(Byte)
    PROVE  /\ Rest(g \o x, Len(g)) = x /\ Stripped(g \o x, g) = x
           /\ SubSeq(g \o x, 1, Len(g)) = g
<1>. DEFINE k == g \o x
<1>1. /\ k \in Seq(Byte) /\ Len(k) = Len(g) + Len(x) /\ Len(g) \in Nat /\ Len(x) \in Nat
      /\ \A i \in 1..Len(g) + Len(x) : k[i] = IF i <= Len(g) THEN g[i] ELSE x[i - Len(g)]
  BY ConcatProperties
<1>. HIDE DEF k
<1>2. SubSeq(k, 1, Len(g)) = g
  <2>1. Agree(k, g, Len(g))
    <3>. SUFFICES ASSUME NEW i \in 1..Len(g) PROVE k[i] = g[i]
      BY DEF Agree
    <3>1. i \in 1..Len(g) + Len(x) /\ i <= Len(g)
      BY <1>1
    <3>. QED  BY <1>1, <3>1
  <2>2. Len(g) <= Len(k)
    BY <1>1
  <2>3. SubSeq(k, 1, Len(g)) = SubSeq(g, 1, Len(g))
    BY <1>1, <2>1, <2>2, SubSeqAgree
  <2>. QED  BY <2>3, SubSeqFull
<1>3. SubSeq(k, Len(g) + 1, Len(k)) = x
  <2>1. PICK n : n = Len(g) /\ n \in Nat
    BY <1>1
  <2>2. PICK l : l = Len(k) /\ l \in Nat /\ l = n + Len(x)
    BY <1>1, <2>1
  <2>3. \A i \in n + 1..l : k[i] \in Byte
    BY <1>1, <2>1, <2>2
  <2>4. /\ SubSeq(k, n + 1, l) \in Seq(Byte)
        /\ Len(SubSeq(k, n + 1, l)) = IF n + 1 <= l THEN l - (n + 1) + 1 ELSE 0
        /\ \A i \in 1..l - (n + 1) + 1 : SubSeq(k, n + 1, l)[i] = k[n + 1 + i - 1]
    BY <2>1, <2>2, <2>3, SubSeqProperties
  <2>5. Len(SubSeq(k, n + 1, l)) = Len(x)
    BY <1>1, <2>1, <2>2, <2>4
  <2>6. ASSUME NEW i \in 1..Len(x) PROVE SubSeq(k, n + 1, l)[i] = x[i]
    <3>1. i \in 1..l - (n + 1) + 1 /\ n + 1 + i - 1 = n + i /\ n + i \in 1..n + Len(x)
          /\ ~(n + i <= n) /\ n + i - n = i
      BY <1>1, <2>1, <2>2
    <3>2. SubSeq(k, n + 1, l)[i] = k[n + i]
      BY <2>4, <3>1
    <3>3. k[n + i] = x[n + i - n]
      BY <1>1, <2>1, <3>1
    <3>. QED  BY <3>1, <3>2, <3>3
  <2>7. SubSeq(k, n + 1, l) = x
    BY <2>4, <2>5, <2>6, SeqEqual
  <2>. QED  BY <2>1, <2>2, <2>7
<1>4. Rest(k, Len(g)) = x
  BY <1>1, <1>3 DEF Rest
<1>5. Stripped(k, g) = x
  BY <1>1, <1>2, <1>4 DEF Stripped
<1>. QED  BY <1>2, <1>4, <1>5 DEF k

\* Reading the digest at the head of a string.
LEMMA DecodeHead ==
    ASSUME NEW d, IsDigest(d), NEW x \in Seq(Byte)
    PROVE  decode(d \o x) # None /\ decode(d \o x).digest = d
<1>1. d \in Seq(Byte) /\ Len(d) \in {2, 3} /\ Len(d) = encoded_len_of(d[1])
  BY DigestLengths
<1>2. None \notin Nat
  BY AskAssumption
<1>3. PICK k : k = d \o x /\ k \in Seq(Byte) /\ Len(k) = Len(d) + Len(x) /\ k[1] = d[1]
  <2>1. /\ d \o x \in Seq(Byte) /\ Len(d \o x) = Len(d) + Len(x) /\ Len(x) \in Nat
        /\ \A i \in 1..Len(d) + Len(x) : (d \o x)[i] = IF i <= Len(d) THEN d[i] ELSE x[i - Len(d)]
    BY <1>1, ConcatProperties
  <2>2. 1 \in 1..Len(d) + Len(x) /\ 1 <= Len(d)
    BY <1>1, <2>1
  <2>3. (d \o x)[1] = d[1]
    BY <2>1, <2>2
  <2>. QED  BY <2>1, <2>3
<1>4. k # <<>> /\ encoded_len_of(k[1]) = Len(d) /\ Len(d) # None /\ ~(Len(k) < Len(d))
  BY <1>1, <1>2, <1>3
<1>5. SubSeq(k, 1, Len(d)) = d
  BY <1>1, <1>3, RestConcat
<1>6. decode(k) = [digest |-> d, used |-> Len(d)]
  BY <1>4, <1>5 DEF decode
<1>7. decode(k) # None
  <2>1. [digest |-> d, used |-> Len(d)] \in [digest : Seq(Byte), used : Nat]
    BY <1>1
  <2>. QED  BY <1>6, <2>1, AskAssumption
<1>. QED  BY <1>3, <1>6, <1>7

\* A position is read off a key as it was written to it.
LEMMA PosInverts ==
    ASSUME NEW kind \in Kind, NEW r \in Universe[kind], Listed(kind, r)
    PROVE  PosOf(kind, KeyOf(r)) = RowPos(kind, r)
<1>0. kind \in Kinds /\ None \notin Seq(Byte) /\ None \notin Nat
  BY AskAssumption
<1>. DEFINE p == RowPos(kind, r)
            k == KeyOf(r)
            g == RangeOf(kind)
            x == Enc(kind, p)
<1>1. p \in Pos(kind) /\ x \in Seq(Byte) /\ k = g \o x
  BY <1>0, RowIsCursor, CursorShape
<1>2. g \in Seq(Byte) /\ Len(g) \in Nat
  BY <1>0, RangesGrouped
<1>. HIDE DEF p, k, g, x
<1>3. /\ k \in Seq(Byte) /\ Len(k) = Len(g) + Len(x) /\ Len(x) \in Nat
      /\ Rest(k, Len(g)) = x /\ Stripped(k, g) = x
  BY <1>1, <1>2, ConcatProperties, RestConcat
<1>4. ASSUME Len(g) >= 1 PROVE k[1] = g[1]
  <2>1. /\ Len(g \o x) = Len(g) + Len(x)
        /\ \A i \in 1..Len(g) + Len(x) : (g \o x)[i] = IF i <= Len(g) THEN g[i] ELSE x[i - Len(g)]
    BY <1>1, <1>2, ConcatProperties
  <2>2. 1 \in 1..Len(g) + Len(x) /\ 1 <= Len(g)
    BY <1>2, <1>3, <1>4
  <2>. QED  BY <1>1, <2>1, <2>2
<1>5. ASSUME NEW d, IsDigest(d) PROVE decode(d) # None /\ decode(d).digest = d
  <2>1. d \in Seq(Byte) /\ <<>> \in Seq(Byte)
    BY <1>5, DigestLengths
  <2>2. d \o <<>> = d
    BY <2>1, ConcatEmptySeq
  <2>3. PICK e : e = <<>> /\ e \in Seq(Byte)
    BY <2>1
  <2>4. decode(d \o e) # None /\ decode(d \o e).digest = d
    BY <1>5, <2>3, DecodeHead
  <2>. QED  BY <2>2, <2>3, <2>4
<1>6. CASE kind \in ByName
  <2>1. Len(g) = 1 /\ g[1] = PREFIX_REPO_BY_NAME
    BY <1>6, NameRange DEF g
  <2>2. x = p
    BY <1>6 DEF x, Enc, History, ByName
  <2>3. parse_repo_name(k) = p
    BY <1>3, <1>4, <2>1, <2>2 DEF parse_repo_name
  <2>. QED  BY <1>6, <2>3 DEF PosOf, ByName, k, p
<1>7. CASE kind \notin ByName
  <2>0. kind \in Kinds \ ByName
    BY <1>0, <1>7
  <2>1. PICK h, f : /\ h = <<TypeByte(TypeOf(kind)), Ask.repo>> /\ f = Fixed(kind)
                    /\ h \in Seq(Byte) /\ f \in Seq(Byte) /\ g = h \o f
    BY <2>0, RangeParts DEF g
  <2>2. Len(h) = 2 /\ h[1] = TypeByte(TypeOf(kind))
    BY <2>1
  <2>3. Len(g) = 2 + Len(f) /\ Len(f) \in Nat /\ g[1] = h[1]
    <3>1. /\ Len(h \o f) = Len(h) + Len(f) /\ Len(f) \in Nat
          /\ \A i \in 1..Len(h) + Len(f) : (h \o f)[i] = IF i <= Len(h) THEN h[i] ELSE f[i - Len(h)]
      BY <2>1, ConcatProperties
    <3>2. 1 \in 1..Len(h) + Len(f) /\ 1 <= Len(h)
      BY <2>2, <3>1
    <3>3. (h \o f)[1] = h[1]
      BY <3>1, <3>2
    <3>. QED  BY <2>1, <2>2, <3>1, <3>3
  <2>4. CASE kind \in {"tags", "details", "count"}
    <3>1. Len(f) = 0 /\ h[1] = PREFIX_TAG
      BY <2>1, <2>2, <2>4 DEF Fixed, TypeOf, TypeByte
    <3>2. x = p
      BY <2>4 DEF x, Enc, History
    <3>3. parse_tag_suffix(k) = p
      BY <1>3, <1>4, <2>3, <3>1, <3>2 DEF parse_tag_suffix, REPO_LEN
    <3>. QED  BY <2>4, <3>3 DEF PosOf, k, p
  <2>5. CASE kind \in {"manifests", "untagged"}
    <3>1. Len(f) = 0
      BY <2>1, <2>5 DEF Fixed
    <3>2. x = p /\ IsDigest(p)
      BY <2>5, RowIsCursor DEF x, p, Enc, History
    <3>3. Rest(k, 2) = p /\ p # None
      BY <1>0, <1>1, <1>3, <2>3, <3>1, <3>2
    <3>4. digest_after_repo(k) = p
      BY <1>5, <3>2, <3>3 DEF digest_after_repo, DigestAt, REPO_LEN
    <3>. QED  BY <2>5, <3>4 DEF PosOf, k, p
  <2>6. CASE kind = "tags_of"
    <3>1. f = Ask.digest
      BY <2>1, <2>6 DEF Fixed
    <3>2. x = p
      BY <2>6 DEF x, Enc, History
    <3>3. parse_manifest_tag_suffix(k, Ask.digest) = p
      BY <1>3, <2>3, <3>1, <3>2 DEF parse_manifest_tag_suffix, REPO_LEN
    <3>. QED  BY <2>6, <3>3 DEF PosOf, k, p
  <2>7. CASE kind \in {"parents", "referrers"}
    <3>1. f = Ask.digest /\ IsDigest(f)
      BY <2>1, <2>7, AskAssumption DEF Fixed
    <3>2. x = p /\ IsDigest(p)
      BY <2>7, RowIsCursor DEF x, p, Enc, History
    <3>3. PICK y : y = f \o x /\ y \in Seq(Byte)
      BY <1>1, <2>1, Joined
    <3>4. k = h \o y
      <4>1. h \in Seq(Byte) /\ f \in Seq(Byte) /\ x \in Seq(Byte)
        BY <1>1, <2>1
      <4>2. (h \o f) \o x = h \o (f \o x)
        BY ONLY <4>1, Joined3
      <4>. QED  BY <1>1, <2>1, <3>3, <4>2
    <3>5. Rest(k, 2) = y /\ y # None
      BY <1>0, <2>1, <2>2, <3>3, <3>4, RestConcat
    <3>6. decode(y) # None /\ decode(y).digest = f
      BY <1>1, <3>1, <3>3, DecodeHead
    <3>7. digest_after_repo(k) = f /\ f # None
      BY <1>0, <2>1, <3>5, <3>6 DEF digest_after_repo, DigestAt, REPO_LEN
    <3>8. Rest(k, 2 + Len(f)) = p /\ p # None
      BY <1>0, <1>1, <1>3, <2>3, <3>2
    <3>9. second_digest_after_repo(k) = p
      BY <1>5, <3>2, <3>7, <3>8 DEF second_digest_after_repo, DigestAt, REPO_LEN
    <3>. QED  BY <2>7, <3>9 DEF PosOf, k, p
  <2>8. CASE kind \in History
    <3>1. /\ p \in [at : Byte, last : Seq(Byte)] /\ p.at \in Byte /\ p.last \in Seq(Byte)
          /\ p = [at |-> p.at, last |-> p.last]
      BY <1>1, <2>8 DEF Pos
    <3>2. PICK t : t = desc_time(p.at) /\ t \in Seq(Byte) /\ Len(t) = 1 /\ t[1] = MaxByte - p.at
      BY <3>1, SmallBytes
    <3>3. x = t \o p.last
      BY <2>8, <3>2 DEF x, Enc
    <3>4. Rest(x, 1) = p.last
      BY <3>1, <3>2, <3>3, RestConcat
    <3>5. Len(x) >= 1 /\ x[1] = MaxByte - p.at
      <4>0. PICK l : l = p.last /\ l \in Seq(Byte)
        BY <3>1
      <4>1. /\ Len(t \o l) = Len(t) + Len(l) /\ Len(l) \in Nat
            /\ \A i \in 1..Len(t) + Len(l) : (t \o l)[i] = IF i <= Len(t) THEN t[i] ELSE l[i - Len(t)]
        <5>1. t \in Seq(Byte) /\ l \in Seq(Byte)
          BY <3>2, <4>0
        <5>. QED  BY ONLY <5>1, ConcatProperties
      <4>2. 1 \in 1..Len(t) + Len(l) /\ 1 <= Len(t)
        BY <3>2, <4>1
      <4>3. (t \o l)[1] = t[1]
        BY <4>1, <4>2
      <4>. QED  BY <3>2, <3>3, <4>0, <4>1, <4>3
    <3>6. read_desc_time(x[1]) = p.at
      BY <3>1, <3>5, ByteAssumption DEF read_desc_time, Byte
    <3>7. x # None /\ ~(Len(x) < 1) /\ Stripped(k, RangeOf(kind)) = x
      BY <1>0, <1>1, <1>3, <3>5 DEF g
    <3>8. CASE kind = "history"
      <4>1. IsDigest(p.last)
        BY <3>8, RowIsCursor DEF p
      <4>2. DigestAt(x, 1) = p.last /\ p.last # None
        BY <1>0, <1>5, <3>1, <3>4, <4>1 DEF DigestAt
      <4>3. tag_history_suffix(k, RangeOf(kind)) = [at |-> p.at, last |-> p.last]
        BY <3>6, <3>7, <4>2 DEF tag_history_suffix
      <4>. QED  BY <3>1, <3>8, <4>3 DEF PosOf, k, p
    <3>9. CASE kind = "manifest_history"
      <4>1. manifest_tag_history_suffix(k, RangeOf(kind)) = [at |-> p.at, last |-> p.last]
        BY <3>4, <3>6, <3>7 DEF manifest_tag_history_suffix
      <4>. QED  BY <3>1, <3>9, <4>1 DEF PosOf, k, p
    <3>. QED  BY <2>8, <3>8, <3>9 DEF History
  <2>. QED  BY <2>0, <2>4, <2>5, <2>6, <2>7, <2>8 DEF Kinds, ByName, History
<1>. QED  BY <1>6, <1>7
----------------------------------------------------------------------------
(* The order of a listing is the order of its keys.                        *)

\* A string of one byte, and of none.
LEMMA OneByte ==
    ASSUME NEW x \in Byte
    PROVE  <<x>> \in Seq(Byte) /\ Len(<<x>>) = 1 /\ <<x>>[1] = x
OBVIOUS

\* The empty byte string.
LEMMA NoByte == <<>> \in Seq(Byte) /\ Len(<<>>) = 0
OBVIOUS

\* Strings that begin with one byte each.
LEMMA SmallerHead ==
    ASSUME NEW x \in Byte, NEW y \in Byte, x < y, NEW a \in Seq(Byte), NEW b \in Seq(Byte)
    PROVE  LexLess(<<x>> \o a, <<y>> \o b)
<1>1. PICK s, t : /\ s = <<x>> /\ t = <<y>> /\ s \in Seq(Byte) /\ t \in Seq(Byte)
                  /\ Len(s) = 1 /\ Len(t) = 1 /\ s[1] = x /\ t[1] = y
  BY OneByte
<1>2. PICK j : j = s \o a /\ j \in Seq(Byte) /\ Len(j) >= 1 /\ j[1] = x /\ Len(j) \in Nat
  <2>1. s \in Seq(Byte)
    BY <1>1
  <2>2. /\ s \o a \in Seq(Byte) /\ Len(s \o a) = Len(s) + Len(a) /\ Len(a) \in Nat
        /\ \A i \in 1..Len(s) + Len(a) : (s \o a)[i] = IF i <= Len(s) THEN s[i] ELSE a[i - Len(s)]
    BY <2>1, ConcatProperties
  <2>3. 1 \in 1..Len(s) + Len(a) /\ 1 <= Len(s)
    BY <1>1, <2>2
  <2>4. (s \o a)[1] = s[1]
    BY <2>2, <2>3
  <2>5. Len(s \o a) >= 1 /\ Len(s \o a) \in Nat
    BY <1>1, <2>2
  <2>. QED  BY <1>1, <2>2, <2>4, <2>5
<1>3. PICK k : k = t \o b /\ k \in Seq(Byte) /\ Len(k) >= 1 /\ k[1] = y /\ Len(k) \in Nat
  <2>1. t \in Seq(Byte)
    BY <1>1
  <2>2. /\ t \o b \in Seq(Byte) /\ Len(t \o b) = Len(t) + Len(b) /\ Len(b) \in Nat
        /\ \A i \in 1..Len(t) + Len(b) : (t \o b)[i] = IF i <= Len(t) THEN t[i] ELSE b[i - Len(t)]
    BY <2>1, ConcatProperties
  <2>3. 1 \in 1..Len(t) + Len(b) /\ 1 <= Len(t)
    BY <1>1, <2>2
  <2>4. (t \o b)[1] = t[1]
    BY <2>2, <2>3
  <2>5. Len(t \o b) >= 1 /\ Len(t \o b) \in Nat
    BY <1>1, <2>2
  <2>. QED  BY <1>1, <2>2, <2>4, <2>5
<1>4. LexLess(j, k)
  <2>1. 1 \in 1..Len(j) /\ 1 <= Len(k) /\ j[1] < k[1]
    BY <1>2, <1>3
  <2>2. Agree(j, k, 1 - 1)
    BY DEF Agree
  <2>3. \E i \in 1..Len(j) : i <= Len(k) /\ j[i] < k[i] /\ Agree(j, k, i - 1)
    BY <2>1, <2>2
  <2>. QED  BY <1>2, <1>3, <2>3, LessAgree
<1>. QED  BY <1>1, <1>2, <1>3, <1>4

\* Of strings with a first byte, a smaller one is less.
LEMMA HeadLess ==
    ASSUME NEW x \in Byte, NEW y \in Byte, NEW a \in Seq(Byte), NEW b \in Seq(Byte)
    PROVE  LexLess(<<x>> \o a, <<y>> \o b) <=> x < y \/ (x = y /\ LexLess(a, b))
<1>0. x \in Nat /\ y \in Nat
  BY ByteAssumption DEF Byte
<1>1. CASE x < y
  BY <1>1, SmallerHead
<1>2. CASE x = y
  <2>1. PICK s : s = <<x>> /\ s \in Seq(Byte)
    BY OneByte
  <2>2. LexLess(s \o a, s \o b) <=> LexLess(a, b)
    BY <2>1, ConcatLess
  <2>. QED  BY <1>0, <1>2, <2>1, <2>2
<1>3. CASE y < x
  <2>1. PICK s, t : s = <<x>> /\ t = <<y>> /\ s \in Seq(Byte) /\ t \in Seq(Byte)
    BY OneByte
  <2>2. PICK j : j = s \o a /\ j \in Seq(Byte)
    BY <2>1, Joined
  <2>3. PICK k : k = t \o b /\ k \in Seq(Byte)
    BY <2>1, Joined
  <2>4. LexLess(k, j)
    BY <1>3, <2>1, <2>2, <2>3, SmallerHead
  <2>5. ~LexLess(j, k)
    BY <2>2, <2>3, <2>4, LexTransitive, LexIrreflexive
  <2>. QED  BY <1>0, <1>3, <2>1, <2>2, <2>3, <2>5
<1>. QED  BY <1>0, <1>1, <1>2, <1>3

\* The empty string comes before every other.
LEMMA EmptyLess ==
    ASSUME NEW b \in Seq(Byte)
    PROVE  LexLess(<<>>, b) <=> b # <<>>
<1>1. PICK e : e = <<>> /\ e \in Seq(Byte) /\ Len(e) = 0
  BY NoByte
<1>2. LexLess(e, b) <=> \/ Len(e) < Len(b) /\ Agree(e, b, Len(e))
                        \/ \E i \in 1..Len(e) : i <= Len(b) /\ e[i] < b[i] /\ Agree(e, b, i - 1)
  BY <1>1, LessAgree
<1>3. Agree(e, b, Len(e)) /\ ~\E i \in 1..Len(e) : TRUE
  BY <1>1 DEF Agree
<1>4. b # <<>> <=> 0 < Len(b)
  OBVIOUS
<1>. QED  BY <1>1, <1>2, <1>3, <1>4

\* Every cursor a client may name is in the range of its listing, and resumes
\* it strictly after the position it stands for.
LEMMA AfterIsLess ==
    ASSUME NEW kind \in Kind, NEW tok \in Cursors(kind)
    PROVE  /\ tok # None /\ CursorAt(kind, tok) \in Seq(Byte)
           /\ Starts(CursorAt(kind, tok), RangeOf(kind))
           /\ \A r \in Universe[kind] : Listed(kind, r) =>
                (After(kind, tok, RowPos(kind, r)) <=> LexLess(CursorAt(kind, tok), KeyOf(r)))
<1>0. kind \in Kinds /\ None \notin Seq(Byte) /\ None \notin Instant
  BY AskAssumption
<1>1. PICK g : g = RangeOf(kind) /\ g \in Seq(Byte)
  BY <1>0, RangesGrouped
<1>2. tok # None
  BY <1>0 DEF Cursors
<1>3. ASSUME NEW x \in Seq(Byte), CursorAt(kind, tok) = g \o x,
             \A r \in Universe[kind] : Listed(kind, r) =>
                (After(kind, tok, RowPos(kind, r)) <=> LexLess(x, Enc(kind, RowPos(kind, r))))
      PROVE  /\ CursorAt(kind, tok) \in Seq(Byte)
             /\ Starts(CursorAt(kind, tok), RangeOf(kind))
             /\ \A r \in Universe[kind] : Listed(kind, r) =>
                  (After(kind, tok, RowPos(kind, r)) <=> LexLess(CursorAt(kind, tok), KeyOf(r)))
  <2>1. CursorAt(kind, tok) \in Seq(Byte) /\ Starts(CursorAt(kind, tok), g)
    BY <1>1, <1>3, StartsConcat
  <2>2. ASSUME NEW r \in Universe[kind], Listed(kind, r)
        PROVE  After(kind, tok, RowPos(kind, r)) <=> LexLess(CursorAt(kind, tok), KeyOf(r))
    <3>1. PICK y : y = Enc(kind, RowPos(kind, r)) /\ y \in Seq(Byte) /\ KeyOf(r) = g \o y
      BY <1>0, <1>1, <2>2, RowIsCursor, CursorShape
    <3>2. LexLess(g \o x, g \o y) <=> LexLess(x, y)
      <4>1. g \in Seq(Byte) /\ x \in Seq(Byte) /\ y \in Seq(Byte)
        BY <1>1, <3>1
      <4>. QED  BY ONLY <4>1, ConcatLess
    <3>. QED  BY <1>3, <2>2, <3>1, <3>2
  <2>. QED  BY <1>1, <2>1, <2>2
<1>4. CASE kind \notin History
  <2>1. tok \in Seq(Byte) /\ tok \in Pos(kind) /\ Enc(kind, tok) = tok
    BY <1>4 DEF Cursors, Pos, Enc
  <2>2. CursorAt(kind, tok) = g \o tok
    BY <1>0, <1>1, <2>1, CursorShape
  <2>3. \A r \in Universe[kind] : Listed(kind, r) =>
            (After(kind, tok, RowPos(kind, r)) <=> LexLess(tok, Enc(kind, RowPos(kind, r))))
    BY <1>2, <1>4 DEF After, Enc
  <2>. QED  BY <1>2, <1>3, <2>1, <2>2, <2>3
<1>5. CASE kind \in History
  <2>1. tok \in Instant /\ tok.at \in Byte
    BY <1>5 DEF Cursors, Instant
  <2>2. ASSUME NEW r \in Universe[kind], Listed(kind, r)
        PROVE  /\ RowPos(kind, r).at \in Byte /\ RowPos(kind, r).at > 0 /\ RowPos(kind, r).at \in Nat
               /\ RowPos(kind, r).last \in Seq(Byte) /\ RowPos(kind, r).last # <<>>
               /\ MaxByte - RowPos(kind, r).at \in Byte
               /\ Enc(kind, RowPos(kind, r)) = <<MaxByte - RowPos(kind, r).at>> \o RowPos(kind, r).last
    <3>1. RowPos(kind, r) \in [at : Byte, last : Seq(Byte)]
      BY <1>5, <2>2, RowIsCursor DEF Pos
    <3>2. RowPos(kind, r).at > 0 /\ RowPos(kind, r).last # <<>>
      BY <1>5, <2>2, RowIsCursor
    <3>3. Enc(kind, RowPos(kind, r)) = <<MaxByte - RowPos(kind, r).at>> \o RowPos(kind, r).last
      BY <1>5 DEF Enc, desc_time
    <3>4. \A n \in Byte : MaxByte - n \in Byte /\ n \in Nat
      BY ByteAssumption DEF Byte
    <3>. QED  BY <3>1, <3>2, <3>3, <3>4
  <2>3. \A n \in Byte : MaxByte - n \in Byte /\ n \in Nat
    BY ByteAssumption DEF Byte
  <2>4. CASE tok.last # None
    <3>1. tok.last \in Seq(Byte) /\ tok \in Pos(kind)
      BY <1>5, <2>1, <2>4 DEF Instant, Pos
    <3>2. PICK x : /\ x = Enc(kind, tok) /\ x \in Seq(Byte) /\ CursorAt(kind, tok) = g \o x
                   /\ x = <<MaxByte - tok.at>> \o tok.last
      BY <1>0, <1>1, <1>5, <3>1, CursorShape DEF Enc, desc_time
    <3>3. ASSUME NEW r \in Universe[kind], Listed(kind, r)
          PROVE  After(kind, tok, RowPos(kind, r)) <=> LexLess(x, Enc(kind, RowPos(kind, r)))
      <4>1. PICK b, l, c, m : /\ b = MaxByte - RowPos(kind, r).at /\ l = RowPos(kind, r).last
                              /\ c = MaxByte - tok.at /\ m = tok.last
                              /\ b \in Byte /\ c \in Byte /\ l \in Seq(Byte) /\ m \in Seq(Byte)
        BY <2>1, <2>2, <2>3, <3>1, <3>3
      <4>2. LexLess(<<c>> \o m, <<b>> \o l) <=> c < b \/ (c = b /\ LexLess(m, l))
        BY <4>1, HeadLess
      <4>3. After(kind, tok, RowPos(kind, r)) <=>
              \/ RowPos(kind, r).at < tok.at
              \/ RowPos(kind, r).at = tok.at /\ LexLess(tok.last, RowPos(kind, r).last)
        BY <1>2, <1>5, <2>4 DEF After
      <4>4. /\ RowPos(kind, r).at < tok.at <=> c < b
            /\ RowPos(kind, r).at = tok.at <=> c = b
        <5>1. PICK n \in Nat, o \in Nat : n = RowPos(kind, r).at /\ o = tok.at
          BY <2>1, <2>2, <2>3, <3>3
        <5>2. b = MaxByte - n /\ c = MaxByte - o /\ MaxByte \in Nat
          BY <4>1, <5>1, ByteAssumption
        <5>3. (n < o <=> c < b) /\ (n = o <=> c = b)
          BY <5>2
        <5>. QED  BY <5>1, <5>3
      <4>. QED  BY <2>2, <3>2, <3>3, <4>1, <4>2, <4>3, <4>4
    <3>. QED  BY <1>2, <1>3, <3>2, <3>3
  <2>5. CASE tok.last = None
    <3>1. PICK a : a = (IF tok.at = 0 THEN 0 ELSE tok.at - 1) /\ a \in Byte /\ MaxByte - a \in Byte
      BY <2>1, <2>3, ByteAssumption DEF Byte
    <3>2. PICK x : x = desc_time(a) /\ x \in Seq(Byte) /\ CursorAt(kind, tok) = g \o x
      <4>1. CursorAt(kind, tok) = ResumeInstant(kind, tok)
        BY <1>2, <1>5, <2>5 DEF CursorAt, HistoryCursor, History
      <4>2. ResumeInstant(kind, tok) = RangeOf(kind) \o desc_time(a)
        BY <1>5, <3>1 DEF ResumeInstant, RangeOf, History, tag_history_before,
           manifest_tag_history_before, JustBefore
      <4>. QED  BY <1>1, <3>1, <4>1, <4>2, SmallBytes
    <3>3. ASSUME NEW r \in Universe[kind], Listed(kind, r)
          PROVE  After(kind, tok, RowPos(kind, r)) <=> LexLess(x, Enc(kind, RowPos(kind, r)))
      <4>1. PICK b, l, c, m : /\ b = MaxByte - RowPos(kind, r).at /\ l = RowPos(kind, r).last
                              /\ c = MaxByte - a /\ m = <<>>
                              /\ b \in Byte /\ c \in Byte /\ l \in Seq(Byte) /\ m \in Seq(Byte)
        BY <2>2, <3>1, <3>3, NoByte
      <4>2. LexLess(<<c>> \o m, <<b>> \o l) <=> c < b \/ (c = b /\ LexLess(m, l))
        BY <4>1, HeadLess
      <4>3. LexLess(m, l)
        BY <2>2, <3>3, <4>1, EmptyLess
      <4>4. After(kind, tok, RowPos(kind, r)) <=> RowPos(kind, r).at < tok.at
        BY <1>2, <1>5, <2>5 DEF After
      <4>5. RowPos(kind, r).at < tok.at <=> c < b \/ c = b
        <5>1. PICK n \in Nat, o \in Nat : n = RowPos(kind, r).at /\ o = tok.at /\ n > 0
          BY <2>1, <2>2, <2>3, <3>3
        <5>2. b = MaxByte - n /\ c = MaxByte - a /\ MaxByte \in Nat /\ a \in Nat
          BY <2>3, <3>1, <4>1, <5>1, ByteAssumption
        <5>3. a = IF o = 0 THEN 0 ELSE o - 1
          BY <3>1, <5>1
        <5>4. n < o <=> c < b \/ c = b
          BY <5>1, <5>2, <5>3
        <5>. QED  BY <5>1, <5>4
      <4>6. <<c>> \o m = x
        <5>1. PICK s : s = <<c>> /\ s \in Seq(Byte)
          BY <4>1, OneByte
        <5>2. s \o <<>> = s
          BY <5>1, ConcatEmptySeq
        <5>. QED  BY <3>2, <4>1, <5>1, <5>2 DEF desc_time
      <4>. QED  BY <2>2, <3>3, <4>1, <4>2, <4>3, <4>4, <4>5, <4>6
    <3>. QED  BY <1>2, <1>3, <3>2, <3>3
  <2>. QED  BY <2>4, <2>5
<1>. QED  BY <1>4, <1>5
----------------------------------------------------------------------------
(* Pages, in terms of rows.                                                *)

\* The positions of a listing's rows, and the cursors a walk may hold.
Spots(kind) == {RowPos(kind, r) : r \in {s \in Universe[kind] : Listed(kind, s)}}
Tokens(kind) == Cursors(kind) \cup {None}

\* A position of a row is a cursor a client may hand back.
LEMMA SpotFacts ==
    ASSUME NEW kind \in Kind, NEW p \in Spots(kind)
    PROVE  p \in Pos(kind) /\ p \in Cursors(kind) /\ p # None /\ p \in Tokens(kind)
<1>1. p \in Pos(kind)
  BY RowIsCursor DEF Spots
<1>2. p \in Cursors(kind)
  BY <1>1 DEF Pos, Cursors, Instant
<1>3. p # None
  BY <1>2, AfterIsLess
<1>. QED  BY <1>1, <1>2, <1>3 DEF Tokens

\* A row comes before another exactly when it is before it as a cursor; and
\* the order is strict and total.
LEMMA PosOrder ==
    ASSUME NEW kind \in Kind, NEW p \in Pos(kind), NEW q \in Pos(kind)
    PROVE  /\ Precedes(kind, p, q) <=> After(kind, p, q)
           /\ ~Precedes(kind, p, p)
           /\ p # q => Precedes(kind, p, q) \/ Precedes(kind, q, p)
<1>0. kind \in Kinds /\ p # None /\ None \notin Seq(Byte)
  BY AskAssumption, CursorShape
<1>1. CASE kind \notin History
  <2>1. p \in Seq(Byte) /\ q \in Seq(Byte)
    BY <1>1 DEF Pos
  <2>. QED  BY <1>0, <1>1, <2>1, LexIrreflexive, LexTotal DEF Precedes, After
<1>2. CASE kind \in History
  <2>1. /\ p \in [at : Byte, last : Seq(Byte)] /\ q \in [at : Byte, last : Seq(Byte)]
        /\ p = [at |-> p.at, last |-> p.last] /\ q = [at |-> q.at, last |-> q.last]
    BY <1>2 DEF Pos
  <2>2. /\ p.at \in Nat /\ q.at \in Nat /\ p.last \in Seq(Byte) /\ q.last \in Seq(Byte)
        /\ p.last # None
    BY <1>0, <2>1, ByteAssumption DEF Byte
  <2>3. Precedes(kind, p, q) <=> After(kind, p, q)
    <3>1. Precedes(kind, p, q) <=> p.at > q.at \/ (p.at = q.at /\ LexLess(p.last, q.last))
      BY <1>2 DEF Precedes
    <3>2. After(kind, p, q) <=> q.at < p.at \/ (p.last # None /\ q.at = p.at /\ LexLess(p.last, q.last))
      BY <1>0, <1>2 DEF After
    <3>3. p.at > q.at <=> q.at < p.at
      BY <2>2
    <3>. QED  BY <2>2, <3>1, <3>2, <3>3
  <2>4. ~Precedes(kind, p, p)
    BY <1>2, <2>2, LexIrreflexive DEF Precedes
  <2>5. ASSUME p # q PROVE Precedes(kind, p, q) \/ Precedes(kind, q, p)
    <3>1. p.at # q.at \/ p.last # q.last
      BY <2>1, <2>5
    <3>2. p.last # q.last => LexLess(p.last, q.last) \/ LexLess(q.last, p.last)
      BY <2>2, LexTotal
    <3>3. p.at > q.at \/ q.at > p.at \/ (p.at = q.at /\ p.last # q.last)
      BY <2>2, <3>1
    <3>. QED  BY <1>2, <3>2, <3>3 DEF Precedes
  <2>. QED  BY <2>3, <2>4, <2>5
<1>. QED  BY <1>1, <1>2

\* What comes after a position that is after the cursor is after the cursor.
LEMMA AfterTransitive ==
    ASSUME NEW kind \in Kind, NEW tok \in Tokens(kind), NEW p \in Pos(kind), NEW q \in Pos(kind),
           After(kind, tok, p), Precedes(kind, p, q)
    PROVE  After(kind, tok, q)
<1>0. None \notin Seq(Byte)
  BY AskAssumption
<1>1. CASE tok = None
  BY <1>1 DEF After
<1>2. CASE tok # None /\ kind \notin History
  <2>1. p \in Seq(Byte) /\ q \in Seq(Byte) /\ tok \in Seq(Byte)
    BY <1>2 DEF Pos, Tokens, Cursors
  <2>2. LexLess(tok, p) /\ LexLess(p, q)
    BY <1>2 DEF After, Precedes
  <2>3. LexLess(tok, q)
    BY <2>1, <2>2, LexTransitive
  <2>. QED  BY <1>2, <2>3 DEF After
<1>3. CASE tok # None /\ kind \in History
  <2>1. /\ p \in [at : Byte, last : Seq(Byte)] /\ q \in [at : Byte, last : Seq(Byte)]
        /\ tok \in Instant
    BY <1>3 DEF Pos, Tokens, Cursors
  <2>2. /\ p.at \in Nat /\ q.at \in Nat /\ tok.at \in Nat
        /\ p.last \in Seq(Byte) /\ q.last \in Seq(Byte) /\ (tok.last # None => tok.last \in Seq(Byte))
    BY <2>1, ByteAssumption DEF Byte, Instant
  <2>3. p.at < tok.at \/ (tok.last # None /\ p.at = tok.at /\ LexLess(tok.last, p.last))
    BY <1>3 DEF After
  <2>4. p.at > q.at \/ (p.at = q.at /\ LexLess(p.last, q.last))
    BY <1>3 DEF Precedes
  <2>5. tok.last # None /\ LexLess(tok.last, p.last) /\ LexLess(p.last, q.last)
          => LexLess(tok.last, q.last)
    BY <2>2, LexTransitive
  <2>6. q.at < tok.at \/ (tok.last # None /\ q.at = tok.at /\ LexLess(tok.last, q.last))
    BY <2>2, <2>3, <2>4, <2>5
  <2>. QED  BY <1>3, <2>6 DEF After
<1>. QED  BY <1>1, <1>2, <1>3

\* The order of positions is transitive.
LEMMA PosTransitive ==
    ASSUME NEW kind \in Kind, NEW p \in Pos(kind), NEW q \in Pos(kind), NEW s \in Pos(kind),
           Precedes(kind, p, q), Precedes(kind, q, s)
    PROVE  Precedes(kind, p, s)
<1>1. p \in Tokens(kind)
  BY DEF Pos, Tokens, Cursors, Instant
<1>2. After(kind, p, q)
  BY PosOrder
<1>3. After(kind, p, s)
  BY <1>1, <1>2, AfterTransitive
<1>. QED  BY <1>3, PosOrder

\* The rows of the store that a listing has yet to show from a cursor on.
Fresh(kind, tok) == {r \in rows : Listed(kind, r) /\ After(kind, tok, RowPos(kind, r))}

\* The key of a row stands for it.
LEMMA KeyStands ==
    ASSUME NEW kind \in Kind, rows \subseteq Universe[kind], NEW r \in rows
    PROVE  KeyOf(r) \in AllKeys /\ ValueAt(KeyOf(r)) = r
<1>1. KeyOf(r) \in AllKeys
  BY DEF AllKeys
<1>2. \A s \in rows : KeyOf(s) = KeyOf(r) => s = r
  BY KeyAssumption
<1>3. ValueAt(KeyOf(r)) \in rows /\ KeyOf(ValueAt(KeyOf(r))) = KeyOf(r)
  BY DEF ValueAt
<1>. QED  BY <1>1, <1>2, <1>3

\* Rows are as many as their keys.
LEMMA SameNumber ==
    ASSUME NEW kind \in Kind, NEW S \in SUBSET Universe[kind]
    PROVE  /\ IsFiniteSet(S) /\ IsFiniteSet({KeyOf(r) : r \in S}) /\ Cardinality(S) \in Nat
           /\ Cardinality({KeyOf(r) : r \in S}) = Cardinality(S)
<1>1. IsFiniteSet(S)
  BY AskAssumption, FS_Subset
<1>. DEFINE T == {KeyOf(r) : r \in S}
            f == [r \in S |-> KeyOf(r)]
<1>2. f \in [S -> T] /\ (\A x, y \in S : f[x] = f[y] => x = y) /\ \A t \in T : \E s \in S : f[s] = t
  BY KeyAssumption
<1>. HIDE DEF T, f
<1>3. f \in Injection(S, T) /\ f \in Surjection(S, T)
  BY <1>2 DEF Injection, IsInjective, Surjection
<1>4. IsFiniteSet(T) /\ Cardinality(T) = Cardinality(S)
  BY <1>1, <1>3, FS_Surjection
<1>. QED  BY <1>1, <1>4, FS_CardinalityType DEF T

\* What a scan from a cursor finds ahead of it are the keys of those rows.
LEMMA FreshKeys ==
    ASSUME NEW kind \in Kind, rows \subseteq Universe[kind], NEW tok \in Tokens(kind)
    PROVE  /\ AllKeys \in SUBSET Seq(Byte) /\ IsFiniteSet(AllKeys)
           /\ \/ CursorAt(kind, tok) = None
              \/ CursorAt(kind, tok) \in Seq(Byte) /\ Starts(CursorAt(kind, tok), RangeOf(kind))
           /\ Ahead(AllKeys, RangeOf(kind), CursorAt(kind, tok)) = {KeyOf(r) : r \in Fresh(kind, tok)}
<1>0. None \notin Seq(Byte)
  BY AskAssumption
<1>1. \A r \in rows : KeyOf(r) \in Seq(Byte)
  BY KeyInRepo, KeyElsewhere DEF Headed
<1>2. AllKeys \in SUBSET Seq(Byte) /\ IsFiniteSet(AllKeys)
  BY <1>1, SameNumber DEF AllKeys
<1>3. CASE tok = None
  <2>1. CursorAt(kind, tok) = None
    BY <1>3 DEF CursorAt
  <2>2. \A p : After(kind, tok, p)
    BY <1>3 DEF After
  <2>3. Ahead(AllKeys, RangeOf(kind), CursorAt(kind, tok)) = {KeyOf(r) : r \in Fresh(kind, tok)}
    BY <2>1, <2>2, KeyInRange DEF Ahead, AllKeys, Fresh
  <2>. QED  BY <1>2, <2>1, <2>3
<1>4. CASE tok # None
  <2>1. tok \in Cursors(kind)
    BY <1>4 DEF Tokens
  <2>2. /\ CursorAt(kind, tok) \in Seq(Byte) /\ Starts(CursorAt(kind, tok), RangeOf(kind))
        /\ \A r \in Universe[kind] : Listed(kind, r) =>
             (After(kind, tok, RowPos(kind, r)) <=> LexLess(CursorAt(kind, tok), KeyOf(r)))
    BY <2>1, AfterIsLess
  <2>3. CursorAt(kind, tok) # None
    BY <1>0, <2>2
  <2>4. Ahead(AllKeys, RangeOf(kind), CursorAt(kind, tok)) = {KeyOf(r) : r \in Fresh(kind, tok)}
    BY <2>2, <2>3, KeyInRange DEF Ahead, AllKeys, Fresh
  <2>. QED  BY <1>2, <2>2, <2>4
<1>. QED  BY <1>3, <1>4

\* Rows of a listing are ordered as their keys are.
LEMMA RowOrder ==
    ASSUME NEW kind \in Kind, NEW r \in Universe[kind], NEW s \in Universe[kind],
           Listed(kind, r), Listed(kind, s)
    PROVE  Precedes(kind, RowPos(kind, r), RowPos(kind, s)) <=> LexLess(KeyOf(r), KeyOf(s))
<1>1. /\ RowPos(kind, r) \in Pos(kind) /\ RowPos(kind, s) \in Pos(kind)
      /\ CursorAt(kind, RowPos(kind, r)) = KeyOf(r)
  BY RowIsCursor
<1>2. RowPos(kind, r) \in Cursors(kind)
  BY <1>1 DEF Pos, Cursors, Instant
<1>3. After(kind, RowPos(kind, r), RowPos(kind, s)) <=> LexLess(KeyOf(r), KeyOf(s))
  BY <1>1, <1>2, AfterIsLess
<1>. QED  BY <1>1, <1>3, PosOrder

\* What a page of a listing is made of: rs are its rows.
PageRows(kind, tok, limit, page, rs) ==
    /\ rs \in Seq(Fresh(kind, tok)) /\ page.keys \in Seq(Seq(Byte))
    /\ Len(rs) = Len(page.keys) /\ Len(rs) <= limit
    /\ \A i \in 1..Len(rs) : /\ page.keys[i] = KeyOf(rs[i])
                             /\ PosOf(kind, page.keys[i]) = RowPos(kind, rs[i])
    /\ \A i, h \in 1..Len(rs) : i < h => Precedes(kind, RowPos(kind, rs[i]), RowPos(kind, rs[h]))
    /\ \A i \in 1..Len(rs) :
          Cardinality({s \in Fresh(kind, tok) :
                         Precedes(kind, RowPos(kind, s), RowPos(kind, rs[i]))}) = i - 1
    /\ Len(rs) = IF Cardinality(Fresh(kind, tok)) > limit THEN limit
                 ELSE Cardinality(Fresh(kind, tok))
    /\ page.next = None <=> Cardinality(Fresh(kind, tok)) <= limit
    /\ IF page.next = None
       THEN \A r \in Fresh(kind, tok) : \E i \in 1..Len(rs) : rs[i] = r
       ELSE /\ Len(rs) = limit /\ page.next = KeyOf(rs[limit]) /\ page.next = page.keys[limit]
            /\ \A r \in Fresh(kind, tok) :
                  \/ \E i \in 1..Len(rs) : rs[i] = r
                  \/ Precedes(kind, RowPos(kind, rs[limit]), RowPos(kind, r))
            /\ \E r \in Fresh(kind, tok) : Precedes(kind, RowPos(kind, rs[limit]), RowPos(kind, r))

\* A page of any of the twelve listings holds the next rows of the listing after
\* the cursor, in its order and no more than the limit; and it names a cursor
\* exactly when rows are left, all of which then lie beyond it, whatever else the
\* store holds (keys.rs, the listings of discovery.rs, tags.rs, referrers.rs).
THEOREM PageExact ==
    ASSUME NEW kind \in Kind, rows \subseteq Universe[kind], NEW tok \in Tokens(kind),
           NEW limit \in Nat, limit > 0
    PROVE  \E rs : PageRows(kind, tok, limit,
                            Scan(AllKeys, RangeOf(kind), CursorAt(kind, tok), limit), rs)
<1>0. kind \in Kinds /\ None \notin Seq(Byte)
  BY AskAssumption
<1>1. RangeOf(kind) \in Seq(Byte) /\ Grouped(RangeOf(kind))
  BY <1>0, RangesGrouped
<1>2. /\ AllKeys \in SUBSET Seq(Byte) /\ IsFiniteSet(AllKeys)
      /\ \/ CursorAt(kind, tok) = None
         \/ CursorAt(kind, tok) \in Seq(Byte) /\ Starts(CursorAt(kind, tok), RangeOf(kind))
      /\ Ahead(AllKeys, RangeOf(kind), CursorAt(kind, tok)) = {KeyOf(r) : r \in Fresh(kind, tok)}
  BY FreshKeys
<1>3. PICK after : after = CursorAt(kind, tok)
  OBVIOUS
<1>4. PICK page : page = Scan(AllKeys, RangeOf(kind), CursorAt(kind, tok), limit)
  OBVIOUS
<1>5. PICK all : all = {KeyOf(r) : r \in Fresh(kind, tok)}
  OBVIOUS
<1>6. /\ page.keys \in Seq(all) /\ Len(page.keys) <= limit
      /\ \A i \in 1..Len(page.keys) : page.keys[i] = Sorted(all)[i]
      /\ \A i, h \in 1..Len(page.keys) : i < h => LexLess(page.keys[i], page.keys[h])
      /\ Len(page.keys) = IF Cardinality(all) > limit THEN limit ELSE Cardinality(all)
      /\ IF page.next = None
         THEN \A k \in all : \E i \in 1..Len(page.keys) : page.keys[i] = k
         ELSE /\ Len(page.keys) = limit /\ page.next = page.keys[limit]
              /\ \A k \in all : \/ \E i \in 1..Len(page.keys) : page.keys[i] = k
                                \/ LexLess(page.next, k)
              /\ \E k \in all : LexLess(page.next, k)
      /\ page.next = None <=> Cardinality(all) <= limit
  <2>1. after = None \/ (after \in Seq(Byte) /\ Starts(after, RangeOf(kind)))
    BY <1>2, <1>3
  <2>2. /\ page = Scan(AllKeys, RangeOf(kind), after, limit)
        /\ all = Ahead(AllKeys, RangeOf(kind), after)
    BY <1>2, <1>3, <1>4, <1>5
  <2>3. PICK ks, g : ks = AllKeys /\ g = RangeOf(kind)
    OBVIOUS
  <2>4. /\ ks \in SUBSET Seq(Byte) /\ IsFiniteSet(ks) /\ None \notin Seq(Byte) /\ g \in Seq(Byte)
        /\ Grouped(g) /\ (after = None \/ (after \in Seq(Byte) /\ Starts(after, g)))
        /\ limit \in Nat /\ limit > 0
    BY <1>0, <1>1, <1>2, <2>1, <2>3
  <2>5. page = Scan(ks, g, after, limit) /\ all = Ahead(ks, g, after)
    BY <2>2, <2>3
  <2>6. FirstOf(Ahead(ks, g, after), limit, Scan(ks, g, after, limit))
    BY ONLY <2>4, ScanExact
  <2>7. FirstOf(all, limit, page)
    BY <2>5, <2>6
  <2>. QED  BY <2>7 DEF FirstOf
<1>. DEFINE F == Fresh(kind, tok)
            n == Len(page.keys)
            rs == [i \in 1..n |-> ValueAt(page.keys[i])]
<1>7. F \in SUBSET Universe[kind] /\ F \in SUBSET rows /\ \A r \in F : Listed(kind, r)
  BY DEF Fresh
<1>8. n \in Nat /\ all \in SUBSET Seq(Byte)
  BY <1>2, <1>5, <1>6 DEF Ahead
<1>9. \A i \in 1..n : page.keys[i] \in all /\ rs[i] \in F /\ page.keys[i] = KeyOf(rs[i])
  <2>. SUFFICES ASSUME NEW i \in 1..n
                PROVE  page.keys[i] \in all /\ rs[i] \in F /\ page.keys[i] = KeyOf(rs[i])
    OBVIOUS
  <2>1. page.keys[i] \in all
    BY <1>6
  <2>2. PICK r \in F : page.keys[i] = KeyOf(r)
    BY <1>5, <2>1
  <2>3. ValueAt(KeyOf(r)) = r
    BY <1>7, <2>2, KeyStands
  <2>. QED  BY <2>1, <2>2, <2>3
<1>10. rs \in Seq(F) /\ Len(rs) = n
  <2>1. rs \in [1..n -> F]
    <3>. HIDE DEF F, n
    <3>. QED  BY <1>9
  <2>. HIDE DEF F, n, rs
  <2>. QED  BY <1>8, <2>1
<1>11. /\ IsFiniteSet(F) /\ IsFiniteSet(all) /\ Cardinality(F) \in Nat
       /\ Cardinality(all) = Cardinality(F)
  BY <1>5, <1>7, SameNumber
<1>12. \A r, s \in F : Precedes(kind, RowPos(kind, r), RowPos(kind, s)) <=> LexLess(KeyOf(r), KeyOf(s))
  BY <1>7, RowOrder
<1>13. \A i \in 1..n : PosOf(kind, page.keys[i]) = RowPos(kind, rs[i])
  BY <1>7, <1>9, PosInverts
<1>. HIDE DEF F, n, rs
<1>14. \A i, h \in 1..n : i < h => Precedes(kind, RowPos(kind, rs[i]), RowPos(kind, rs[h]))
  BY <1>6, <1>9, <1>12 DEF n
<1>15. \A i \in 1..n :
          Cardinality({s \in F : Precedes(kind, RowPos(kind, s), RowPos(kind, rs[i]))}) = i - 1
  <2>. SUFFICES ASSUME NEW i \in 1..n
                PROVE  Cardinality({s \in F :
                          Precedes(kind, RowPos(kind, s), RowPos(kind, rs[i]))}) = i - 1
    OBVIOUS
  <2>. DEFINE B == {s \in F : Precedes(kind, RowPos(kind, s), RowPos(kind, rs[i]))}
              K == {j \in all : LexLess(j, page.keys[i])}
  <2>1. K = {KeyOf(r) : r \in B}
    BY <1>5, <1>9, <1>12 DEF F
  <2>2. B \in SUBSET Universe[kind]
    BY <1>7
  <2>. HIDE DEF B
  <2>3. Cardinality(K) = Cardinality(B)
    BY <2>1, <2>2, SameNumber
  <2>4. Cardinality(K) = i - 1
    <3>1. i \in 1..Len(Sorted(all)) /\ page.keys[i] = Sorted(all)[i]
      <4>1. Len(Sorted(all)) = Cardinality(all)
        BY <1>8, <1>11, SortedExact
      <4>2. n <= Cardinality(all)
        BY <1>6, <1>8, <1>11 DEF n
      <4>. QED  BY <1>6, <1>8, <1>11, <4>1, <4>2 DEF n
    <3>. QED  BY <1>8, <1>11, <3>1, SortedExact
  <2>. QED  BY <2>3, <2>4 DEF B
<1>16. ASSUME page.next = None PROVE \A r \in F : \E i \in 1..n : rs[i] = r
  <2>. SUFFICES ASSUME NEW r \in F PROVE \E i \in 1..n : rs[i] = r
    OBVIOUS
  <2>1. KeyOf(r) \in all
    BY <1>5 DEF F
  <2>2. PICK i \in 1..n : page.keys[i] = KeyOf(r)
    BY <1>6, <1>16, <2>1 DEF n
  <2>3. rs[i] = r
    BY <1>7, <1>9, <2>2, KeyAssumption
  <2>. QED  BY <2>3
<1>17. ASSUME page.next # None
       PROVE  /\ n = limit /\ page.next = KeyOf(rs[limit]) /\ page.next = page.keys[limit]
              /\ \A r \in F : \/ \E i \in 1..n : rs[i] = r
                              \/ Precedes(kind, RowPos(kind, rs[limit]), RowPos(kind, r))
              /\ \E r \in F : Precedes(kind, RowPos(kind, rs[limit]), RowPos(kind, r))
  <2>1. n = limit /\ page.next = page.keys[limit]
    BY <1>6, <1>17 DEF n
  <2>2. limit \in 1..n
    BY <2>1
  <2>3. page.next = KeyOf(rs[limit]) /\ rs[limit] \in F
    BY <1>9, <2>1, <2>2
  <2>4. ASSUME NEW r \in F
        PROVE  \/ \E i \in 1..n : rs[i] = r
               \/ Precedes(kind, RowPos(kind, rs[limit]), RowPos(kind, r))
    <3>1. KeyOf(r) \in all
      BY <1>5 DEF F
    <3>2. CASE \E i \in 1..n : page.keys[i] = KeyOf(r)
      BY <1>7, <1>9, <3>2, KeyAssumption
    <3>3. CASE LexLess(page.next, KeyOf(r))
      BY <1>12, <2>3, <3>3
    <3>. QED  BY <1>6, <1>17, <3>1, <3>2, <3>3 DEF n
  <2>5. \E r \in F : Precedes(kind, RowPos(kind, rs[limit]), RowPos(kind, r))
    <3>1. PICK k \in all : LexLess(page.next, k)
      BY <1>6, <1>17
    <3>2. PICK r \in F : k = KeyOf(r)
      BY <1>5 DEF F
    <3>. QED  BY <1>12, <2>3, <3>1, <3>2
  <2>. QED  BY <2>1, <2>3, <2>4, <2>5
<1>18. page.keys \in Seq(Seq(Byte))
  BY <1>6, <1>8, SeqMonotonic
<1>19. PageRows(kind, tok, limit, page, rs)
  <2>1. /\ rs \in Seq(Fresh(kind, tok)) /\ page.keys \in Seq(Seq(Byte))
        /\ Len(rs) = Len(page.keys) /\ Len(rs) <= limit
        /\ \A i \in 1..Len(rs) : /\ page.keys[i] = KeyOf(rs[i])
                                 /\ PosOf(kind, page.keys[i]) = RowPos(kind, rs[i])
    BY <1>6, <1>9, <1>10, <1>13, <1>18 DEF F, n
  <2>2. /\ Len(rs) = IF Cardinality(Fresh(kind, tok)) > limit THEN limit
                     ELSE Cardinality(Fresh(kind, tok))
        /\ page.next = None <=> Cardinality(Fresh(kind, tok)) <= limit
    BY <1>6, <1>10, <1>11 DEF F, n
  <2>. QED  BY <1>10, <1>14, <1>15, <1>16, <1>17, <2>1, <2>2 DEF PageRows, F
<1>. QED  BY <1>4, <1>19
----------------------------------------------------------------------------
(* The invariant of a walk.  It is stated of a walk w that has shown s      *)
(* while st were there throughout and ev at some time.                      *)

Walks(kind) ==
    [kind : {kind}, n : Ns, from : Tokens(kind), token : Tokens(kind),
     pc : {"ready", "lookup", "scan", "done"}, page : Seq(Spots(kind)), items : Seq(Spots(kind)),
     more : Spots(kind) \cup {None}, examined : Nat, at : Seq(Byte) \cup {None}, count : Nat,
     complete : BOOLEAN, cut : BOOLEAN]

\* What the walk holds and has shown, and which request it is in.
Held(w, s) ==
    /\ w.kind \in Kind /\ w \in Walks(w.kind) /\ s \in Seq(Spots(w.kind))
    /\ Len(w.page) + Len(w.items) <= MaxPage
    /\ w.pc # "lookup" => w.page = <<>>
    /\ w.pc = "lookup" => w.kind \in {"details", "untagged"}
    /\ w.pc = "scan" => w.kind = "search"

\* A sequence of positions in order; all of it after a cursor; none of it
\* after one; one cursor at or past another.
Ascends(kind, s) == \A i, j \in 1..Len(s) : i < j => Precedes(kind, s[i], s[j])
Beyond(kind, s, q) == \A i \in 1..Len(s) : After(kind, q, s[i])
Behind(kind, s, q) ==
    \A i \in 1..Len(s) : \A p \in Spots(kind) : After(kind, q, p) => Precedes(kind, s[i], p)
Later(kind, q, t) == \A p \in Spots(kind) : After(kind, q, p) => After(kind, t, p)

Shows(kind, s, r) == \E i \in 1..Len(s) : s[i] = RowPos(kind, r)

DueFor(w, r) ==
    /\ Wanted(w.kind, r) /\ After(w.kind, w.from, RowPos(w.kind, r))
    /\ w.kind = "referrers" /\ Ask.type # None => r.name = Ask.type

\* Every position is that of a row the walk was asked for; of one of the listing.
Found(w, st, ev, s) ==
    \A i \in 1..Len(s) : \E r \in ev : /\ DueFor(w, r) /\ RowPos(w.kind, r) = s[i]
                                       /\ w.kind = "untagged" => ~Tagged(st, r)
Drawn(w, ev, s) ==
    \A i \in 1..Len(s) : \E r \in ev : Wanted(w.kind, r) /\ RowPos(w.kind, r) = s[i]

\* What the walk must show, unless it is excused.
Owed(w, st, ev) == {r \in st : DueFor(w, r) /\ (w.kind = "untagged" => ~Tagged(ev, r))}
Excused(w) == w.kind \in Counting \/ ExplicitZero(w.kind, w.n)

Forward(w, s, st, ev) ==
    /\ Ascends(w.kind, s) /\ Found(w, st, ev, s)
    /\ w.pc # "done" => Behind(w.kind, s, w.token) /\ Later(w.kind, w.token, w.from)

ReadyInv(w, s, st, ev) ==
    w.pc = "ready" /\ ~Excused(w) =>
        \A r \in Owed(w, st, ev) :
            Shows(w.kind, s, r) \/ After(w.kind, w.token, RowPos(w.kind, r))

LookupInv(w, s, st, ev) ==
    w.pc = "lookup" =>
        /\ Ascends(w.kind, w.items) /\ Ascends(w.kind, w.page)
        /\ \A i \in 1..Len(w.items), j \in 1..Len(w.page) : Precedes(w.kind, w.items[i], w.page[j])
        /\ Beyond(w.kind, w.items, w.token) /\ Beyond(w.kind, w.page, w.token)
        /\ Found(w, st, ev, w.items) /\ Drawn(w, ev, w.page)
        /\ w.more # None => /\ Behind(w.kind, w.items, w.more) /\ Behind(w.kind, w.page, w.more)
                            /\ Later(w.kind, w.more, w.token)
        /\ \A r \in Owed(w, st, ev) :
              \/ Shows(w.kind, s, r) \/ Shows(w.kind, w.items, r) \/ Shows(w.kind, w.page, r)
              \/ w.more # None /\ After(w.kind, w.more, RowPos(w.kind, r))

\* The search has come to position q.
ScanAt(w, s, st, ev, q) ==
    /\ w.at = CursorAt(w.kind, q) /\ Later(w.kind, q, w.token)
    /\ Ascends(w.kind, w.items) /\ Beyond(w.kind, w.items, w.token)
    /\ Behind(w.kind, w.items, q) /\ Found(w, st, ev, w.items)
    /\ \A r \in Owed(w, st, ev) :
          \/ Shows(w.kind, s, r) \/ Shows(w.kind, w.items, r)
          \/ After(w.kind, q, RowPos(w.kind, r))

ScanInv(w, s, st, ev) ==
    w.pc = "scan" =>
        /\ Len(w.items) <= LimitOf(w.kind, w.n) /\ w.examined < SearchCeiling
        /\ \E q \in Spots(w.kind) \cup {w.token} : ScanAt(w, s, st, ev, q)

\* The tally has come to position q.
Passed(R, q) == {r \in R : Listed("count", r) /\ ~After("count", q, RowPos("count", r))}
TallyAt(w, st, ev, q) ==
    /\ w.at = CursorAt("count", q)
    /\ Cardinality(Passed(st, q)) <= w.count
    /\ w.count <= Cardinality(Passed(ev, q))

TallyInv(w, st, ev) ==
    w.kind = "count" /\ w.pc = "ready" => \E q \in Spots("count") \cup {None} : TallyAt(w, st, ev, q)

\* The end of a walk and of a tally.
Ended(w, s, st, ev) ==
    w.pc = "done" /\ ~Excused(w) /\ ~w.cut => \A r \in Owed(w, st, ev) : Shows(w.kind, s, r)

Counted(R) == Cardinality({r \in R : Listed("count", r)})
Tallied(w, st, ev) ==
    w.kind = "count" /\ w.pc = "done" =>
        IF w.complete THEN Counted(st) <= w.count /\ w.count <= Counted(ev)
        ELSE CountCeiling <= w.count /\ CountCeiling < Counted(ev)

WalkOK(w, s, st, ev) ==
    /\ Held(w, s) /\ Forward(w, s, st, ev)
    /\ ReadyInv(w, s, st, ev) /\ LookupInv(w, s, st, ev) /\ ScanInv(w, s, st, ev)
    /\ TallyInv(w, st, ev) /\ Ended(w, s, st, ev) /\ Tallied(w, st, ev)

StoreOK ==
    /\ stable \subseteq rows /\ rows \subseteq ever /\ ever \subseteq Universe[walk.kind]
    /\ writes \in 0..MaxWrites

WalkInv == StoreOK /\ WalkOK(walk, seen, stable, ever)

\* The fields of a walk.
LEMMA WalkFields ==
    ASSUME NEW kind, NEW w \in Walks(kind)
    PROVE  /\ w.kind = kind /\ w.n \in Ns /\ w.from \in Tokens(kind) /\ w.token \in Tokens(kind)
           /\ w.pc \in {"ready", "lookup", "scan", "done"}
           /\ w.page \in Seq(Spots(kind)) /\ w.items \in Seq(Spots(kind))
           /\ w.more \in Spots(kind) \cup {None} /\ w.examined \in Nat
           /\ w.at \in Seq(Byte) \cup {None} /\ w.count \in Nat
           /\ w.complete \in BOOLEAN /\ w.cut \in BOOLEAN
BY DEF Walks

\* The items of two sequences put together.
LEMMA Together ==
    ASSUME NEW X, NEW s \in Seq(X), NEW t \in Seq(X)
    PROVE  /\ s \o t \in Seq(X) /\ Len(s \o t) = Len(s) + Len(t)
           /\ \A i \in 1..Len(s \o t) :
                 \/ i \in 1..Len(s) /\ (s \o t)[i] = s[i]
                 \/ i > Len(s) /\ i - Len(s) \in 1..Len(t) /\ (s \o t)[i] = t[i - Len(s)]
           /\ \A i \in 1..Len(s) : i \in 1..Len(s \o t) /\ (s \o t)[i] = s[i]
           /\ \A i \in 1..Len(t) : i + Len(s) \in 1..Len(s \o t) /\ (s \o t)[i + Len(s)] = t[i]
<1>1. /\ s \o t \in Seq(X) /\ Len(s \o t) = Len(s) + Len(t) /\ Len(s) \in Nat /\ Len(t) \in Nat
      /\ \A i \in 1..Len(s) + Len(t) : (s \o t)[i] = IF i <= Len(s) THEN s[i] ELSE t[i - Len(s)]
  BY ConcatProperties
<1>2. PICK u : u = s \o t
  OBVIOUS
<1>3. ASSUME NEW i \in 1..Len(u)
      PROVE  \/ i \in 1..Len(s) /\ u[i] = s[i]
             \/ i > Len(s) /\ i - Len(s) \in 1..Len(t) /\ u[i] = t[i - Len(s)]
  <2>1. i \in 1..Len(s) + Len(t) /\ i \in Nat
    BY <1>1, <1>2
  <2>2. u[i] = IF i <= Len(s) THEN s[i] ELSE t[i - Len(s)]
    BY <1>1, <1>2, <2>1
  <2>3. i <= Len(s) => i \in 1..Len(s)
    BY <1>1, <2>1
  <2>4. ~(i <= Len(s)) => i > Len(s) /\ i - Len(s) \in 1..Len(t)
    BY <1>1, <2>1
  <2>. QED  BY <2>2, <2>3, <2>4
<1>4. ASSUME NEW i \in 1..Len(s) PROVE i \in 1..Len(u) /\ u[i] = s[i]
  <2>1. i \in 1..Len(s) + Len(t) /\ i <= Len(s)
    BY <1>1
  <2>. QED  BY <1>1, <1>2, <2>1
<1>5. ASSUME NEW i \in 1..Len(t) PROVE i + Len(s) \in 1..Len(u) /\ u[i + Len(s)] = t[i]
  <2>1. i + Len(s) \in 1..Len(s) + Len(t) /\ ~(i + Len(s) <= Len(s)) /\ i + Len(s) - Len(s) = i
    BY <1>1
  <2>. QED  BY <1>1, <1>2, <2>1
<1>. QED  BY <1>1, <1>2, <1>3, <1>4, <1>5

\* Putting together sequences of positions.
LEMMA JoinAscends ==
    ASSUME NEW kind, NEW s \in Seq(Spots(kind)), NEW t \in Seq(Spots(kind)), Ascends(kind, s),
           Ascends(kind, t),
           \A i \in 1..Len(s), j \in 1..Len(t) : Precedes(kind, s[i], t[j])
    PROVE  Ascends(kind, s \o t)
<1>1. PICK u : u = s \o t
  OBVIOUS
<1>2. /\ Len(s) \in Nat /\ Len(t) \in Nat
      /\ \A i \in 1..Len(u) :
            \/ i \in 1..Len(s) /\ u[i] = s[i]
            \/ i > Len(s) /\ i - Len(s) \in 1..Len(t) /\ u[i] = t[i - Len(s)]
  BY <1>1, Together
<1>. SUFFICES ASSUME NEW i \in 1..Len(u), NEW j \in 1..Len(u), i < j
              PROVE  Precedes(kind, u[i], u[j])
  BY <1>1 DEF Ascends
<1>3. CASE j \in 1..Len(s)
  <2>1. i \in 1..Len(s) /\ ~(i > Len(s)) /\ ~(j > Len(s))
    BY <1>2, <1>3
  <2>2. u[i] = s[i] /\ u[j] = s[j]
    BY <1>2, <2>1
  <2>. QED  BY <1>3, <2>1, <2>2 DEF Ascends
<1>4. CASE ~(j \in 1..Len(s)) /\ i \in 1..Len(s)
  <2>1. ~(i > Len(s))
    BY <1>2, <1>4
  <2>2. u[i] = s[i] /\ j - Len(s) \in 1..Len(t) /\ u[j] = t[j - Len(s)]
    BY <1>2, <1>4, <2>1
  <2>. QED  BY <1>4, <2>2
<1>5. CASE ~(j \in 1..Len(s)) /\ ~(i \in 1..Len(s))
  <2>1. /\ i - Len(s) \in 1..Len(t) /\ u[i] = t[i - Len(s)]
        /\ j - Len(s) \in 1..Len(t) /\ u[j] = t[j - Len(s)]
    BY <1>2, <1>5
  <2>2. i - Len(s) < j - Len(s)
    BY <1>2
  <2>. QED  BY <2>1, <2>2 DEF Ascends
<1>. QED  BY <1>3, <1>4, <1>5

\* What holds of the positions of two sequences holds of both put together.
LEMMA JoinRest ==
    ASSUME NEW kind, NEW s \in Seq(Spots(kind)), NEW t \in Seq(Spots(kind))
    PROVE  /\ \A q : Behind(kind, s, q) /\ Behind(kind, t, q) => Behind(kind, s \o t, q)
           /\ \A q : Beyond(kind, s, q) /\ Beyond(kind, t, q) => Beyond(kind, s \o t, q)
           /\ \A w, st, ev : Found(w, st, ev, s) /\ Found(w, st, ev, t) => Found(w, st, ev, s \o t)
           /\ \A r : Shows(kind, s \o t, r) <=> Shows(kind, s, r) \/ Shows(kind, t, r)
<1>1. PICK u : u = s \o t
  OBVIOUS
<1>2. /\ \A i \in 1..Len(u) :
            \/ i \in 1..Len(s) /\ u[i] = s[i]
            \/ i > Len(s) /\ i - Len(s) \in 1..Len(t) /\ u[i] = t[i - Len(s)]
      /\ \A i \in 1..Len(s) : i \in 1..Len(u) /\ u[i] = s[i]
      /\ \A i \in 1..Len(t) : i + Len(s) \in 1..Len(u) /\ u[i + Len(s)] = t[i]
  BY <1>1, Together
<1>3. ASSUME NEW q, Behind(kind, s, q), Behind(kind, t, q) PROVE Behind(kind, u, q)
  BY <1>2, <1>3 DEF Behind
<1>4. ASSUME NEW q, Beyond(kind, s, q), Beyond(kind, t, q) PROVE Beyond(kind, u, q)
  BY <1>2, <1>4 DEF Beyond
<1>5. ASSUME NEW w, NEW st, NEW ev, Found(w, st, ev, s), Found(w, st, ev, t)
      PROVE  Found(w, st, ev, u)
  <2>. SUFFICES ASSUME NEW i \in 1..Len(u)
                PROVE  \E r \in ev : /\ DueFor(w, r) /\ RowPos(w.kind, r) = u[i]
                                     /\ w.kind = "untagged" => ~Tagged(st, r)
    BY DEF Found
  <2>1. CASE i \in 1..Len(s) /\ u[i] = s[i]
    BY <1>5, <2>1 DEF Found
  <2>2. CASE i - Len(s) \in 1..Len(t) /\ u[i] = t[i - Len(s)]
    BY <1>5, <2>2 DEF Found
  <2>. QED  BY <1>2, <2>1, <2>2
<1>6. ASSUME NEW r PROVE Shows(kind, u, r) <=> Shows(kind, s, r) \/ Shows(kind, t, r)
  <2>1. ASSUME Shows(kind, u, r) PROVE Shows(kind, s, r) \/ Shows(kind, t, r)
    BY <1>2, <2>1 DEF Shows
  <2>2. ASSUME Shows(kind, s, r) PROVE Shows(kind, u, r)
    BY <1>2, <2>2 DEF Shows
  <2>3. ASSUME Shows(kind, t, r) PROVE Shows(kind, u, r)
    BY <1>2, <2>3 DEF Shows
  <2>. QED  BY <2>1, <2>2, <2>3
<1>. QED  BY <1>1, <1>3, <1>4, <1>5, <1>6
----------------------------------------------------------------------------
(* Steps of a walk keep the invariant.                                     *)

\* What a response may hold: rows of the listing past the token, in order, and
\* a cursor none of them is past.
Servable(w, st, ev, items, next) ==
    /\ items \in Seq(Spots(w.kind)) /\ next \in Spots(w.kind) \cup {None}
    /\ Ascends(w.kind, items) /\ Beyond(w.kind, items, w.token) /\ Found(w, st, ev, items)
    /\ next # None => Behind(w.kind, items, next) /\ Later(w.kind, next, w.token)

\* Whatever is owed has been shown, or lies past the cursor.
Reaches(w, s, st, ev, items, next) ==
    \A r \in Owed(w, st, ev) : \/ Shows(w.kind, s, r) \/ Shows(w.kind, items, r)
                               \/ next # None /\ After(w.kind, next, RowPos(w.kind, r))

Served(w, next, cut) ==
    [w EXCEPT !.token = next, !.cut = cut, !.pc = IF next = None THEN "done" ELSE "ready",
              !.page = <<>>, !.items = <<>>, !.more = None, !.examined = 0, !.at = None]

\* What a walk is asked for depends on its kind and where it began.
LEMMA SameQuestion ==
    ASSUME NEW w, NEW x, x.kind = w.kind, x.from = w.from, x.n = w.n
    PROVE  /\ Excused(x) <=> Excused(w)
           /\ \A st, ev : Owed(x, st, ev) = Owed(w, st, ev)
           /\ \A st, ev, s : Found(x, st, ev, s) <=> Found(w, st, ev, s)
           /\ \A ev, s : Drawn(x, ev, s) <=> Drawn(w, ev, s)
<1>1. \A r : DueFor(x, r) <=> DueFor(w, r)
  BY DEF DueFor
<1>2. Excused(x) <=> Excused(w)
  BY DEF Excused
<1>3. \A st, ev : Owed(x, st, ev) = Owed(w, st, ev)
  BY <1>1 DEF Owed
<1>4. \A st, ev, s : Found(x, st, ev, s) <=> Found(w, st, ev, s)
  BY <1>1 DEF Found
<1>5. \A ev, s : Drawn(x, ev, s) <=> Drawn(w, ev, s)
  BY DEF Drawn
<1>. QED  BY <1>2, <1>3, <1>4, <1>5

\* A response of a walk keeps the invariant.
LEMMA Responds ==
    ASSUME NEW w, NEW s, NEW st, NEW ev, WalkOK(w, s, st, ev), w.pc # "done", w.kind # "count",
           NEW items, NEW next, NEW cut \in BOOLEAN, Servable(w, st, ev, items, next),
           cut => next = None,
           Excused(w) \/ cut \/ Reaches(w, s, st, ev, items, next)
    PROVE  WalkOK(Served(w, next, cut), s \o items, st, ev)
<1>1. w.kind \in Kind /\ w \in Walks(w.kind) /\ s \in Seq(Spots(w.kind))
  BY DEF WalkOK, Held
<1>2. items \in Seq(Spots(w.kind)) /\ next \in Spots(w.kind) \cup {None}
  BY DEF Servable
<1>3. next \in Tokens(w.kind)
  BY <1>1, <1>2, SpotFacts DEF Tokens
<1>4. PICK x : x = Served(w, next, cut)
  OBVIOUS
<1>5. /\ x.kind = w.kind /\ x.n = w.n /\ x.from = w.from /\ x.token = next /\ x.cut = cut
      /\ x.pc = IF next = None THEN "done" ELSE "ready"
      /\ x.page = <<>> /\ x.items = <<>> /\ x.more = None /\ x.examined = 0 /\ x.at = None
      /\ x \in Walks(w.kind)
  <2>1. <<>> \in Seq(Spots(w.kind))
    OBVIOUS
  <2>2. PICK p : p = (IF next = None THEN "done" ELSE "ready") /\ p \in {"ready", "lookup", "scan", "done"}
    OBVIOUS
  <2>3. PICK e : e = <<>> /\ e \in Seq(Spots(w.kind))
    BY <2>1
  <2>4. x = [w EXCEPT !.token = next, !.cut = cut, !.pc = p, !.page = e, !.items = e, !.more = None,
                      !.examined = 0, !.at = None]
    BY <1>4, <2>2, <2>3 DEF Served
  <2>5. /\ x.kind = w.kind /\ x.n = w.n /\ x.from = w.from /\ x.token = next /\ x.cut = cut
        /\ x.pc = p /\ x.page = e /\ x.items = e /\ x.more = None /\ x.examined = 0 /\ x.at = None
    BY <1>1, <2>4 DEF Walks
  <2>6. x \in Walks(w.kind)
    BY <1>1, <1>3, <2>2, <2>3, <2>4, ZenonT(40) DEF Walks
  <2>. QED  BY <2>2, <2>3, <2>5, <2>6
<1>6. PICK t : t = s \o items
  OBVIOUS
<1>7. t \in Seq(Spots(w.kind))
  BY <1>1, <1>2, <1>6, Together
<1>8. Held(x, t)
  <2>1. Len(x.page) + Len(x.items) <= MaxPage
    BY <1>5, BoundsAssumption
  <2>. QED  BY <1>1, <1>5, <1>7, <2>1 DEF Held
<1>9. Ascends(w.kind, s) /\ Found(w, st, ev, s) /\ Behind(w.kind, s, w.token)
      /\ Later(w.kind, w.token, w.from)
  BY DEF WalkOK, Forward
<1>10. Ascends(w.kind, t)
  <2>1. \A i \in 1..Len(s), j \in 1..Len(items) : Precedes(w.kind, s[i], items[j])
    <3>1. \A j \in 1..Len(items) : items[j] \in Spots(w.kind)
      BY <1>2
    <3>. QED  BY <1>9, <3>1 DEF Behind, Servable, Beyond
  <2>. QED  BY <1>1, <1>2, <1>6, <1>9, <2>1, JoinAscends DEF Servable
<1>11. Found(w, st, ev, t)
  BY <1>1, <1>2, <1>6, <1>9, JoinRest DEF Servable
<1>12. ASSUME next # None PROVE Behind(w.kind, t, next) /\ Later(w.kind, next, w.from)
  <2>1. Behind(w.kind, items, next) /\ Later(w.kind, next, w.token)
    BY <1>12 DEF Servable
  <2>2. Behind(w.kind, s, next)
    BY <1>9, <2>1 DEF Behind, Later
  <2>3. Behind(w.kind, t, next)
    BY <1>1, <1>2, <1>6, <2>1, <2>2, JoinRest
  <2>4. Later(w.kind, next, w.from)
    BY <1>9, <2>1 DEF Later
  <2>. QED  BY <2>3, <2>4
<1>13. Forward(x, t, st, ev)
  <2>1. Found(x, st, ev, t)
    BY <1>5, <1>11, SameQuestion
  <2>. QED  BY <1>5, <1>10, <1>12, <2>1 DEF Forward
<1>14. ASSUME ~Excused(x), ~cut, NEW r \in Owed(x, st, ev)
       PROVE  Shows(w.kind, t, r) \/ (next # None /\ After(w.kind, next, RowPos(w.kind, r)))
  <2>1. ~Excused(w) /\ r \in Owed(w, st, ev)
    BY <1>5, <1>14, SameQuestion
  <2>2. \/ Shows(w.kind, s, r) \/ Shows(w.kind, items, r)
        \/ next # None /\ After(w.kind, next, RowPos(w.kind, r))
    BY <1>14, <2>1 DEF Reaches
  <2>. QED  BY <1>1, <1>2, <1>6, <2>2, JoinRest
<1>15. ReadyInv(x, t, st, ev)
  BY <1>5, <1>14 DEF ReadyInv
<1>16. Ended(x, t, st, ev)
  BY <1>5, <1>14 DEF Ended
<1>17. LookupInv(x, t, st, ev) /\ ScanInv(x, t, st, ev)
  BY <1>5 DEF LookupInv, ScanInv
<1>18. TallyInv(x, st, ev) /\ Tallied(x, st, ev)
  BY <1>5 DEF TallyInv, Tallied
<1>. QED  BY <1>4, <1>6, <1>8, <1>13, <1>15, <1>16, <1>17, <1>18 DEF WalkOK

\* Writes around a walk keep the invariant.
LEMMA WritesAround ==
    ASSUME NEW w, NEW s, NEW st, NEW ev, WalkOK(w, s, st, ev), w.pc # "done",
           NEW st2, NEW ev2, st2 \subseteq st, ev \subseteq ev2, st \subseteq ev,
           ev2 \subseteq Universe[w.kind]
    PROVE  WalkOK(w, s, st2, ev2)
<1>1. w.kind \in Kind /\ w \in Walks(w.kind) /\ s \in Seq(Spots(w.kind))
  BY DEF WalkOK, Held
<1>2. Owed(w, st2, ev2) \subseteq Owed(w, st, ev)
  BY DEF Owed, Tagged
<1>3. ASSUME NEW z, Found(w, st, ev, z) PROVE Found(w, st2, ev2, z)
  <2>. SUFFICES ASSUME NEW i \in 1..Len(z)
                PROVE  \E r \in ev2 : /\ DueFor(w, r) /\ RowPos(w.kind, r) = z[i]
                                      /\ w.kind = "untagged" => ~Tagged(st2, r)
    BY DEF Found
  <2>1. PICK r \in ev : /\ DueFor(w, r) /\ RowPos(w.kind, r) = z[i]
                        /\ w.kind = "untagged" => ~Tagged(st, r)
    BY <1>3 DEF Found
  <2>2. ~Tagged(st, r) => ~Tagged(st2, r)
    BY DEF Tagged
  <2>. QED  BY <2>1, <2>2
<1>4. \A z : Drawn(w, ev, z) => Drawn(w, ev2, z)
  BY DEF Drawn
<1>5. Forward(w, s, st2, ev2)
  BY <1>3 DEF WalkOK, Forward
<1>6. ReadyInv(w, s, st2, ev2)
  BY <1>2 DEF WalkOK, ReadyInv
<1>7. LookupInv(w, s, st2, ev2)
  <2>. SUFFICES ASSUME w.pc = "lookup" PROVE LookupInv(w, s, st2, ev2)
    BY DEF LookupInv
  <2>1. LookupInv(w, s, st, ev)
    BY DEF WalkOK
  <2>2. Found(w, st2, ev2, w.items) /\ Drawn(w, ev2, w.page)
    BY <1>3, <1>4, <2>1 DEF LookupInv
  <2>. QED  BY <1>2, <2>1, <2>2 DEF LookupInv
<1>8. ScanInv(w, s, st2, ev2)
  <2>. SUFFICES ASSUME w.pc = "scan" PROVE ScanInv(w, s, st2, ev2)
    BY DEF ScanInv
  <2>1. /\ Len(w.items) <= LimitOf(w.kind, w.n) /\ w.examined < SearchCeiling
        /\ \E q \in Spots(w.kind) \cup {w.token} : ScanAt(w, s, st, ev, q)
    BY DEF WalkOK, ScanInv
  <2>2. PICK q \in Spots(w.kind) \cup {w.token} : ScanAt(w, s, st, ev, q)
    BY <2>1
  <2>3. Found(w, st2, ev2, w.items)
    BY <1>3, <2>2 DEF ScanAt
  <2>4. ScanAt(w, s, st2, ev2, q)
    BY <1>2, <2>2, <2>3 DEF ScanAt
  <2>. QED  BY <2>1, <2>4 DEF ScanInv
<1>9. TallyInv(w, st2, ev2)
  <2>. SUFFICES ASSUME w.kind = "count", w.pc = "ready" PROVE TallyInv(w, st2, ev2)
    BY DEF TallyInv
  <2>1. PICK q \in Spots("count") \cup {None} : TallyAt(w, st, ev, q)
    BY DEF WalkOK, TallyInv
  <2>2. IsFiniteSet(Universe["count"])
    BY <1>1, AskAssumption
  <2>3. Passed(st2, q) \subseteq Passed(st, q) /\ Passed(ev, q) \subseteq Passed(ev2, q)
        /\ Passed(ev2, q) \subseteq Universe["count"] /\ Passed(st, q) \subseteq Universe["count"]
    BY DEF Passed
  <2>4. /\ Cardinality(Passed(st2, q)) <= Cardinality(Passed(st, q))
        /\ Cardinality(Passed(ev, q)) <= Cardinality(Passed(ev2, q))
        /\ Cardinality(Passed(st2, q)) \in Nat /\ Cardinality(Passed(st, q)) \in Nat
        /\ Cardinality(Passed(ev, q)) \in Nat /\ Cardinality(Passed(ev2, q)) \in Nat
    BY <2>2, <2>3, FS_Subset, FS_CardinalityType
  <2>5. w.count \in Nat
    BY <1>1, WalkFields
  <2>6. TallyAt(w, st2, ev2, q)
    BY <2>1, <2>4, <2>5 DEF TallyAt
  <2>. QED  BY <2>6 DEF TallyInv
<1>10. Ended(w, s, st2, ev2) /\ Tallied(w, st2, ev2)
  BY DEF Ended, Tallied
<1>. QED  BY <1>5, <1>6, <1>7, <1>8, <1>9, <1>10 DEF WalkOK
----------------------------------------------------------------------------
(* Pages, in terms of positions.                                           *)

ReadOff(kind, ks) == [i \in 1..Len(ks) |-> PosOf(kind, ks[i])]
NextOf(kind, page) == IF page.next = None THEN None ELSE PosOf(kind, page.next)

\* What a page shows and the position it names, from a cursor on.
PageHolds(kind, tok, limit, page, ps, np) ==
    /\ ps \in Seq(Spots(kind)) /\ Len(ps) <= limit /\ np \in Spots(kind) \cup {None}
    /\ page.keys \in Seq(Seq(Byte)) /\ Len(page.keys) = Len(ps)
    /\ \A i \in 1..Len(ps) : \E r \in Fresh(kind, tok) :
          RowPos(kind, r) = ps[i] /\ ValueAt(page.keys[i]) = r
    /\ Ascends(kind, ps) /\ Beyond(kind, ps, tok)
    /\ np = None <=> page.next = None
    /\ np # None => /\ page.next = CursorAt(kind, np) /\ Behind(kind, ps, np) /\ Later(kind, np, tok)
    /\ \A r \in Fresh(kind, tok) :
          \/ \E i \in 1..Len(ps) : RowPos(kind, r) = ps[i] /\ ValueAt(page.keys[i]) = r
          \/ np # None /\ After(kind, np, RowPos(kind, r))

\* The positions a page shows and the one it names, from those of its rows.
LEMMA PagePositions ==
    ASSUME NEW kind \in Kind, rows \subseteq Universe[kind], NEW tok \in Tokens(kind),
           NEW limit \in Nat, limit > 0, NEW page,
           page = Scan(AllKeys, RangeOf(kind), CursorAt(kind, tok), limit)
    PROVE  PageHolds(kind, tok, limit, page, ReadOff(kind, page.keys), NextOf(kind, page))
<1>1. PICK rs : PageRows(kind, tok, limit, page, rs)
  BY PageExact
<1>. DEFINE F == Fresh(kind, tok)
            n == Len(rs)
            ps == ReadOff(kind, page.keys)
            np == NextOf(kind, page)
<1>2. /\ rs \in Seq(F) /\ page.keys \in Seq(Seq(Byte)) /\ n = Len(page.keys) /\ n <= limit
      /\ \A i \in 1..n : page.keys[i] = KeyOf(rs[i]) /\ PosOf(kind, page.keys[i]) = RowPos(kind, rs[i])
      /\ \A i, h \in 1..n : i < h => Precedes(kind, RowPos(kind, rs[i]), RowPos(kind, rs[h]))
  BY <1>1 DEF PageRows
<1>3. n \in Nat /\ \A i \in 1..n : rs[i] \in F
  BY <1>2
<1>4. /\ F \subseteq rows /\ F \subseteq Universe[kind]
      /\ \A r \in F : Listed(kind, r) /\ After(kind, tok, RowPos(kind, r))
  BY DEF Fresh
<1>5. \A r \in F : RowPos(kind, r) \in Spots(kind) /\ ValueAt(KeyOf(r)) = r
  BY <1>4, KeyStands DEF Spots
<1>. HIDE DEF F
<1>6. ps \in [1..n -> Spots(kind)] /\ \A i \in 1..n : ps[i] = RowPos(kind, rs[i])
  BY <1>2, <1>3, <1>5 DEF ReadOff
<1>. HIDE DEF ps, n, np
<1>7. ps \in Seq(Spots(kind)) /\ Len(ps) = n
  BY <1>3, <1>6
<1>8. \A i \in 1..n : ps[i] \in Spots(kind) /\ ps[i] \in Pos(kind)
  BY <1>6, SpotFacts
<1>9. \A i \in 1..n : \E r \in F : RowPos(kind, r) = ps[i] /\ ValueAt(page.keys[i]) = r
  BY <1>2, <1>3, <1>5, <1>6
<1>10. Ascends(kind, ps)
  BY <1>2, <1>6, <1>7 DEF Ascends
<1>11. Beyond(kind, ps, tok)
  BY <1>3, <1>4, <1>6, <1>7 DEF Beyond
<1>12. CASE page.next = None
  <2>1. np = None
    BY <1>12 DEF np, NextOf
  <2>2. \A r \in F : \E i \in 1..n : rs[i] = r
    BY <1>1, <1>12 DEF PageRows, F, n
  <2>3. \A r \in F : \E i \in 1..n : RowPos(kind, r) = ps[i] /\ ValueAt(page.keys[i]) = r
    <3>. SUFFICES ASSUME NEW r \in F
                  PROVE  \E i \in 1..n : RowPos(kind, r) = ps[i] /\ ValueAt(page.keys[i]) = r
      OBVIOUS
    <3>1. PICK i \in 1..n : rs[i] = r
      BY <2>2
    <3>2. page.keys[i] = KeyOf(r) /\ ps[i] = RowPos(kind, r) /\ ValueAt(KeyOf(r)) = r
      BY <1>2, <1>5, <1>6, <3>1
    <3>. QED  BY <3>2
  <2>. QED  BY <1>2, <1>7, <1>9, <1>10, <1>11, <1>12, <2>1, <2>3 DEF PageHolds, F, ps, np, n
<1>13. CASE page.next # None
  <2>1. /\ n = limit /\ page.next = KeyOf(rs[limit]) /\ page.next = page.keys[limit]
        /\ \A r \in F : \/ \E i \in 1..n : rs[i] = r
                        \/ Precedes(kind, RowPos(kind, rs[limit]), RowPos(kind, r))
    BY <1>1, <1>13 DEF PageRows, F, n
  <2>2. limit \in 1..n
    BY <2>1
  <2>3. np = RowPos(kind, rs[limit]) /\ np = ps[limit] /\ np \in Spots(kind)
    BY <1>2, <1>6, <1>8, <1>13, <2>1, <2>2 DEF np, NextOf
  <2>4. np # None /\ np \in Pos(kind) /\ np \in Tokens(kind)
    BY <2>3, SpotFacts
  <2>5. page.next = CursorAt(kind, np)
    BY <1>3, <1>4, <2>1, <2>2, <2>3, RowIsCursor
  <2>6. Behind(kind, ps, np)
    <3>. SUFFICES ASSUME NEW i \in 1..n, NEW p \in Spots(kind), After(kind, np, p)
                  PROVE  Precedes(kind, ps[i], p)
      BY <1>7 DEF Behind
    <3>1. p \in Pos(kind) /\ Precedes(kind, np, p)
      BY <2>4, SpotFacts, PosOrder
    <3>2. CASE i = limit
      BY <2>3, <3>1, <3>2
    <3>3. CASE i # limit
      <4>1. i < limit
        BY <1>3, <2>1, <3>3
      <4>2. Precedes(kind, ps[i], np)
        BY <1>7, <1>10, <2>2, <2>3, <4>1 DEF Ascends
      <4>. QED  BY <1>8, <2>4, <3>1, <4>2, PosTransitive
    <3>. QED  BY <3>2, <3>3
  <2>7. Later(kind, np, tok)
    <3>. SUFFICES ASSUME NEW p \in Spots(kind), After(kind, np, p) PROVE After(kind, tok, p)
      BY DEF Later
    <3>1. p \in Pos(kind) /\ Precedes(kind, np, p)
      BY <2>4, SpotFacts, PosOrder
    <3>2. After(kind, tok, np)
      BY <1>7, <1>11, <2>2, <2>3 DEF Beyond
    <3>. QED  BY <2>4, <3>1, <3>2, AfterTransitive
  <2>8. ASSUME NEW r \in F
        PROVE  \/ \E i \in 1..n : RowPos(kind, r) = ps[i] /\ ValueAt(page.keys[i]) = r
               \/ np # None /\ After(kind, np, RowPos(kind, r))
    <3>1. CASE \E i \in 1..n : rs[i] = r
      BY <1>2, <1>5, <1>6, <3>1
    <3>2. CASE Precedes(kind, RowPos(kind, rs[limit]), RowPos(kind, r))
      <4>1. RowPos(kind, r) \in Pos(kind)
        BY <1>5, SpotFacts
      <4>. QED  BY <2>3, <2>4, <3>2, <4>1, PosOrder
    <3>. QED  BY <2>1, <3>1, <3>2
  <2>. QED  BY <1>2, <1>7, <1>9, <1>10, <1>11, <1>13, <2>3, <2>4, <2>5, <2>6, <2>7, <2>8
            DEF PageHolds, F, ps, np, n
<1>. QED  BY <1>12, <1>13

\* A selection from a page keeps the order of the page.
LEMMA Selected ==
    ASSUME NEW kind, NEW ps \in Seq(Spots(kind)), NEW I \in SUBSET (1..Len(ps))
    PROVE  /\ AtPlaces(ps, I) \in Seq(Spots(kind)) /\ Len(AtPlaces(ps, I)) <= Len(ps)
           /\ \A j \in 1..Len(AtPlaces(ps, I)) : \E i \in I : AtPlaces(ps, I)[j] = ps[i]
           /\ \A i \in I : \E j \in 1..Len(AtPlaces(ps, I)) : AtPlaces(ps, I)[j] = ps[i]
           /\ Ascends(kind, ps) => Ascends(kind, AtPlaces(ps, I))
           /\ \A q : Beyond(kind, ps, q) => Beyond(kind, AtPlaces(ps, I), q)
           /\ \A q : Behind(kind, ps, q) => Behind(kind, AtPlaces(ps, I), q)
<1>1. PICK u, c : u = AtPlaces(ps, I) /\ c = Cardinality(I)
  OBVIOUS
<1>2. /\ c \in Nat /\ c <= Len(ps) /\ u \in Seq(Spots(kind)) /\ Len(u) = c
      /\ \A j \in 1..c : Place(I, j) \in I /\ u[j] = ps[Place(I, j)]
      /\ \A j, h \in 1..c : j < h => Place(I, j) < Place(I, h)
      /\ \A i \in I : \E j \in 1..c : Place(I, j) = i
  BY <1>1, AtPlacesExact
<1>3. \A j \in 1..c : \E i \in I : u[j] = ps[i]
  BY <1>2
<1>4. \A i \in I : \E j \in 1..c : u[j] = ps[i]
  BY <1>2
<1>5. ASSUME Ascends(kind, ps) PROVE Ascends(kind, u)
  <2>. SUFFICES ASSUME NEW j \in 1..c, NEW h \in 1..c, j < h PROVE Precedes(kind, u[j], u[h])
    BY <1>2 DEF Ascends
  <2>1. Place(I, j) \in 1..Len(ps) /\ Place(I, h) \in 1..Len(ps) /\ Place(I, j) < Place(I, h)
    BY <1>2
  <2>. QED  BY <1>2, <1>5, <2>1 DEF Ascends
<1>6. \A q : Beyond(kind, ps, q) => Beyond(kind, u, q)
  BY <1>2, <1>3 DEF Beyond
<1>7. \A q : Behind(kind, ps, q) => Behind(kind, u, q)
  BY <1>2, <1>3 DEF Behind
<1>. QED  BY <1>1, <1>2, <1>3, <1>4, <1>5, <1>6, <1>7

\* Selecting keys and reading their positions off, or the other way round.
LEMMA SelectedKeys ==
    ASSUME NEW kind, NEW ks \in Seq(Seq(Byte)), NEW I \in SUBSET (1..Len(ks))
    PROVE  ReadOff(kind, AtPlaces(ks, I)) = AtPlaces(ReadOff(kind, ks), I)
<1>1. /\ AtPlaces(ks, I) \in Seq(Seq(Byte)) /\ Len(AtPlaces(ks, I)) = Cardinality(I)
      /\ \A j \in 1..Cardinality(I) : Place(I, j) \in I /\ AtPlaces(ks, I)[j] = ks[Place(I, j)]
  BY AtPlacesExact
<1>2. PICK u : u = AtPlaces(ks, I)
  OBVIOUS
<1>3. PICK c : c = Cardinality(I)
  OBVIOUS
<1>4. ReadOff(kind, u) = [j \in 1..c |-> PosOf(kind, u[j])]
  BY <1>1, <1>2, <1>3 DEF ReadOff
<1>5. \A i \in I : ReadOff(kind, ks)[i] = PosOf(kind, ks[i])
  BY DEF ReadOff
<1>6. AtPlaces(ReadOff(kind, ks), I) = [j \in 1..c |-> ReadOff(kind, ks)[Place(I, j)]]
  BY <1>3 DEF AtPlaces, Place
<1>7. \A j \in 1..c : ReadOff(kind, ks)[Place(I, j)] = PosOf(kind, u[j])
  BY <1>1, <1>2, <1>3, <1>5
<1>. QED  BY <1>2, <1>4, <1>6, <1>7
----------------------------------------------------------------------------
(* The steps that serve a page from one scan.                              *)

\* The bounds are positive.
LEMMA Bounds ==
    /\ DefaultPage \in Nat /\ MaxPage \in Nat /\ SearchStep \in Nat /\ SearchCeiling \in Nat
    /\ CountStep \in Nat /\ CountCeiling \in Nat /\ MaxWrites \in Nat
    /\ DefaultPage > 0 /\ MaxPage > 0 /\ SearchStep > 0 /\ SearchCeiling > 0 /\ CountStep > 0
    /\ CountCeiling > 0 /\ DefaultPage <= MaxPage
<1>1. \A n \in Nat \ {0} : n \in Nat /\ n > 0
  OBVIOUS
<1>. QED  BY <1>1, BoundsAssumption

\* A page has room for one row at least, unless none was asked for, and for no
\* more than the cap.
LEMMA LimitFacts ==
    ASSUME NEW kind, NEW n \in Ns
    PROVE  /\ LimitOf(kind, n) \in Nat /\ LimitOf(kind, n) <= MaxPage
           /\ LimitOf(kind, n) = 0 <=> ExplicitZero(kind, n)
<1>1. n \in Nat \/ n = None
  BY BoundsAssumption
<1>2. None \notin Nat
  BY AskAssumption
<1>3. CASE n = None
  <2>1. n # 0
    BY <1>2, <1>3
  <2>2. LimitOf(kind, n) = DefaultPage
    BY <1>3 DEF LimitOf
  <2>. QED  BY <2>1, <2>2, Bounds DEF ExplicitZero
<1>4. CASE n \in Nat
  <2>1. n # None
    BY <1>2, <1>4
  <2>. QED  BY <1>4, <2>1, Bounds DEF LimitOf, ExplicitZero
<1>. QED  BY <1>1, <1>3, <1>4

\* What is due is of the listing.
LEMMA DueListed ==
    ASSUME NEW w, NEW r, Wanted(w.kind, r)
    PROVE  Listed(w.kind, r)
BY DEF Listed, Wanted

\* What the request under way has left to show.
LEMMA OwedFresh ==
    ASSUME StoreOK, NEW r \in Owed(walk, stable, ever), NEW tok,
           After(walk.kind, tok, RowPos(walk.kind, r))
    PROVE  r \in Fresh(walk.kind, tok)
<1>1. r \in rows /\ Wanted(walk.kind, r)
  BY DEF StoreOK, Owed, DueFor
<1>. QED  BY <1>1, DueListed DEF Fresh

\* Rows ahead have positions, and were there at some time of the walk.
LEMMA FreshFacts ==
    ASSUME StoreOK, NEW tok, NEW r \in Fresh(walk.kind, tok)
    PROVE  /\ r \in rows /\ r \in ever /\ r \in Universe[walk.kind] /\ Listed(walk.kind, r)
           /\ After(walk.kind, tok, RowPos(walk.kind, r))
           /\ RowPos(walk.kind, r) \in Spots(walk.kind)
<1>1. /\ r \in rows /\ r \in ever /\ r \in Universe[walk.kind] /\ Listed(walk.kind, r)
      /\ After(walk.kind, tok, RowPos(walk.kind, r))
  BY DEF StoreOK, Fresh
<1>. QED  BY <1>1 DEF Spots

\* A response that may be given keeps the invariant.
LEMMA Response ==
    ASSUME WalkInv, walk.pc # "done", walk.kind # "count",
           NEW items, NEW next, NEW cut \in BOOLEAN,
           Servable(walk, stable, ever, items, next), cut => next = None,
           Excused(walk) \/ cut \/ Reaches(walk, seen, stable, ever, items, next),
           Respond(items, next, cut), UNCHANGED <<rows, stable, ever, writes>>
    PROVE  WalkInv'
<1>1. WalkOK(Served(walk, next, cut), seen \o items, stable, ever)
  BY Responds DEF WalkInv
<1>2. walk' = Served(walk, next, cut) /\ seen' = seen \o items
  BY DEF Respond, Served
<1>3. WalkOK(walk', seen', stable', ever')
  BY <1>1, <1>2
<1>4. Served(walk, next, cut).kind = walk.kind
  <2>1. walk \in Walks(walk.kind)
    BY DEF WalkInv, WalkOK, Held
  <2>. QED  BY <2>1 DEF Served, Walks
<1>5. StoreOK'
  BY <1>2, <1>4 DEF WalkInv, StoreOK
<1>. QED  BY <1>3, <1>5 DEF WalkInv

\* And so does a step that only moves the request on.
LEMMA Continued ==
    ASSUME WalkInv, NEW w, w.kind = walk.kind, WalkOK(w, seen, stable, ever),
           Continue(w), UNCHANGED <<rows, stable, ever, writes>>
    PROVE  WalkInv'
<1>1. walk' = w /\ seen' = seen
  BY DEF Continue
<1>2. WalkOK(walk', seen', stable', ever')
  BY <1>1
<1>3. StoreOK'
  BY <1>1 DEF WalkInv, StoreOK
<1>. QED  BY <1>2, <1>3 DEF WalkInv

\* The listings that are one scan.
OneScan == {"tags", "catalog", "manifests", "tags_of", "parents", "referrers"} \cup History

\* A page that is one scan.
LEMMA ReadPageStep ==
    ASSUME WalkInv, NEW kind \in OneScan, ReadPage(kind)
    PROVE  WalkInv'
<1>1. /\ walk.pc = "ready" /\ walk.kind = kind /\ kind \in Kind /\ walk \in Walks(kind)
      /\ rows \subseteq Universe[kind] /\ StoreOK /\ UNCHANGED <<rows, stable, ever, writes>>
  BY DEF WalkInv, WalkOK, Held, StoreOK, ReadPage
<1>2. PICK page : /\ page = Page
                  /\ Respond(Positions(Matching(page.keys)),
                        IF ExplicitZero(walk.kind, walk.n) THEN None ELSE NextPos(page), FALSE)
  BY DEF ReadPage
<1>3. walk.n \in Ns /\ walk.token \in Tokens(kind)
  BY <1>1, WalkFields
<1>4. PICK limit : limit = Limit
  OBVIOUS
<1>5. /\ limit \in Nat /\ (limit = 0 <=> ExplicitZero(kind, walk.n))
      /\ page = Scan(AllKeys, RangeOf(kind), CursorAt(kind, walk.token), limit)
  BY <1>1, <1>2, <1>3, <1>4, LimitFacts DEF Limit, Page
<1>. DEFINE wants(key) == kind = "referrers" /\ Ask.type # None => ValueAt(key).name = Ask.type
            I == {i \in 1..Len(page.keys) : wants(page.keys[i])}
            ps == ReadOff(kind, page.keys)
            np == NextOf(kind, page)
<1>6. /\ Positions(Matching(page.keys)) = ReadOff(kind, AtPlaces(page.keys, I))
      /\ NextPos(page) = np
  BY <1>1 DEF Positions, Matching, ReadOff, NextOf, NextPos
<1>. HIDE DEF wants
<1>7. kind \notin {"count", "search", "untagged", "details"}
  BY DEF OneScan, History
<1>8. CASE limit = 0
  <2>1. page = [keys |-> <<>>, next |-> None]
    BY <1>5, <1>8 DEF Scan
  <2>2. page.keys = <<>> /\ page.keys \in Seq(Seq(Byte)) /\ Len(page.keys) = 0
    BY <2>1
  <2>3. I \in SUBSET (1..Len(page.keys))
    OBVIOUS
  <2>4. AtPlaces(page.keys, I) \in Seq(Seq(Byte)) /\ Len(AtPlaces(page.keys, I)) = 0
    <3>1. PICK u, J : u = page.keys /\ J = I /\ u \in Seq(Seq(Byte)) /\ J \in SUBSET (1..Len(u)) /\ Len(u) = 0
      BY <2>2, <2>3
    <3>2. /\ AtPlaces(u, J) \in Seq(Seq(Byte)) /\ Len(AtPlaces(u, J)) = Cardinality(J)
          /\ Cardinality(J) \in Nat /\ Cardinality(J) <= Len(u)
      BY <3>1, AtPlacesExact
    <3>. QED  BY <3>1, <3>2
  <2>5. PICK items : items = Positions(Matching(page.keys)) /\ items \in Seq(Spots(kind)) /\ Len(items) = 0
    <3>1. PICK u : u = AtPlaces(page.keys, I) /\ Len(u) = 0
      BY <2>4
    <3>2. PICK v : v = ReadOff(kind, u)
      OBVIOUS
    <3>3. v \in [1..0 -> Spots(kind)]
      BY <3>1, <3>2 DEF ReadOff
    <3>4. v \in Seq(Spots(kind)) /\ Len(v) = 0
      BY <3>3
    <3>. QED  BY <1>6, <3>1, <3>2, <3>4
  <2>6. Excused(walk) /\ ExplicitZero(walk.kind, walk.n)
    BY <1>1, <1>5, <1>8 DEF Excused
  <2>7. Respond(items, None, FALSE)
    BY <1>2, <2>5, <2>6
  <2>8. Servable(walk, stable, ever, items, None)
    BY <1>1, <2>5 DEF Servable, Ascends, Beyond, Found
  <2>. QED  BY <1>1, <1>7, <2>6, <2>7, <2>8, Response
<1>9. CASE limit > 0
  <2>0. ~ExplicitZero(walk.kind, walk.n)
    BY <1>1, <1>5, <1>9
  <2>1. PageHolds(kind, walk.token, limit, page, ps, np)
    <3>1. /\ kind \in Kind /\ rows \subseteq Universe[kind] /\ walk.token \in Tokens(kind)
          /\ limit \in Nat /\ limit > 0
          /\ page = Scan(AllKeys, RangeOf(kind), CursorAt(kind, walk.token), limit)
      BY <1>1, <1>3, <1>5, <1>9
    <3>. QED  BY ONLY <3>1, PagePositions
  <2>. HIDE DEF ps, np
  <2>2. /\ ps \in Seq(Spots(kind)) /\ page.keys \in Seq(Seq(Byte)) /\ Len(page.keys) = Len(ps)
        /\ np \in Spots(kind) \cup {None}
        /\ Ascends(kind, ps) /\ Beyond(kind, ps, walk.token)
        /\ np # None => Behind(kind, ps, np) /\ Later(kind, np, walk.token)
    BY <2>1 DEF PageHolds
  <2>3. /\ I \in SUBSET (1..Len(ps)) /\ I \in SUBSET (1..Len(page.keys))
        /\ \A i \in 1..Len(ps) : i \in I <=> wants(page.keys[i])
    BY <2>2
  <2>. HIDE DEF I
  <2>4. PICK items : items = AtPlaces(ps, I)
    OBVIOUS
  <2>5. items = Positions(Matching(page.keys))
    BY <1>6, <2>2, <2>3, <2>4, SelectedKeys DEF ps
  <2>6. /\ items \in Seq(Spots(kind))
        /\ \A j \in 1..Len(items) : \E i \in I : items[j] = ps[i]
        /\ \A i \in I : \E j \in 1..Len(items) : items[j] = ps[i]
        /\ Ascends(kind, items) /\ Beyond(kind, items, walk.token)
        /\ np # None => Behind(kind, items, np)
    BY <2>2, <2>3, <2>4, Selected
  <2>7. Respond(items, np, FALSE)
    BY <1>2, <1>6, <2>0, <2>5
  <2>8. Later(kind, walk.token, walk.from)
    BY <1>1 DEF WalkInv, WalkOK, Forward
  <2>9. Found(walk, stable, ever, items)
    <3>. SUFFICES ASSUME NEW j \in 1..Len(items)
                  PROVE  \E r \in ever : DueFor(walk, r) /\ RowPos(kind, r) = items[j]
      BY <1>1, <1>7 DEF Found
    <3>1. PICK i \in I : items[j] = ps[i]
      BY <2>6
    <3>2. PICK r \in Fresh(kind, walk.token) : RowPos(kind, r) = ps[i] /\ ValueAt(page.keys[i]) = r
      BY <2>1, <2>3 DEF PageHolds
    <3>3. /\ r \in ever /\ Listed(kind, r) /\ After(kind, walk.token, RowPos(kind, r))
          /\ RowPos(kind, r) \in Spots(kind)
      BY <1>1, FreshFacts
    <3>4. Wanted(kind, r) /\ After(kind, walk.from, RowPos(kind, r))
      BY <1>7, <2>8, <3>3 DEF Listed, Later
    <3>5. kind = "referrers" /\ Ask.type # None => r.name = Ask.type
      BY <2>3, <3>2 DEF wants
    <3>. QED  BY <1>1, <3>1, <3>2, <3>3, <3>4, <3>5 DEF DueFor
  <2>10. Servable(walk, stable, ever, items, np)
    BY <1>1, <2>2, <2>6, <2>9 DEF Servable
  <2>11. ASSUME ~Excused(walk) PROVE Reaches(walk, seen, stable, ever, items, np)
    <3>. SUFFICES ASSUME NEW r \in Owed(walk, stable, ever), ~Shows(kind, seen, r)
                  PROVE  \/ Shows(kind, items, r)
                         \/ np # None /\ After(kind, np, RowPos(kind, r))
      BY <1>1 DEF Reaches
    <3>1. After(kind, walk.token, RowPos(kind, r))
      BY <1>1, <2>11 DEF WalkInv, WalkOK, ReadyInv
    <3>2. r \in Fresh(kind, walk.token)
      BY <1>1, <3>1, OwedFresh
    <3>3. \/ \E i \in 1..Len(ps) : RowPos(kind, r) = ps[i] /\ ValueAt(page.keys[i]) = r
          \/ np # None /\ After(kind, np, RowPos(kind, r))
      BY <2>1, <3>2 DEF PageHolds
    <3>4. ASSUME NEW i \in 1..Len(ps), RowPos(kind, r) = ps[i], ValueAt(page.keys[i]) = r
          PROVE  Shows(kind, items, r)
      <4>1. wants(page.keys[i])
        BY <1>1, <3>4 DEF Owed, DueFor, wants
      <4>2. i \in I
        BY <2>3, <4>1
      <4>. QED  BY <2>6, <3>4, <4>2 DEF Shows
    <3>. QED  BY <3>3, <3>4
  <2>. QED  BY <1>1, <1>7, <2>7, <2>10, <2>11, Response
<1>10. limit = 0 \/ limit > 0
  BY <1>5
<1>. QED  BY <1>8, <1>9, <1>10
----------------------------------------------------------------------------
(* The steps that look the rows of a scan up again.                        *)

\* The last of positions in order is a cursor none of them is past.
LEMMA LastBehind ==
    ASSUME NEW kind \in Kind, NEW s \in Seq(Spots(kind)), s # <<>>, Ascends(kind, s),
           NEW tok \in Tokens(kind), Beyond(kind, s, tok)
    PROVE  /\ s[Len(s)] \in Spots(kind) /\ s[Len(s)] # None
           /\ Behind(kind, s, s[Len(s)]) /\ Later(kind, s[Len(s)], tok)
<1>1. PICK n, q : n = Len(s) /\ q = s[n] /\ n \in Nat /\ n > 0
  <2>1. Len(s) \in Nat /\ Len(s) # 0
    OBVIOUS
  <2>. QED  BY <2>1
<1>2. n \in 1..n /\ q \in Spots(kind)
  BY <1>1
<1>3. q # None /\ q \in Pos(kind) /\ q \in Tokens(kind)
  BY <1>2, SpotFacts
<1>4. ASSUME NEW p \in Spots(kind), After(kind, q, p) PROVE p \in Pos(kind) /\ Precedes(kind, q, p)
  BY <1>3, <1>4, SpotFacts, PosOrder
<1>5. ASSUME NEW i \in 1..n, NEW p \in Spots(kind), After(kind, q, p) PROVE Precedes(kind, s[i], p)
  <2>1. CASE i = n
    BY <1>1, <1>4, <1>5, <2>1
  <2>2. CASE i # n
    <3>1. i < n
      BY <1>1, <2>2
    <3>2. Precedes(kind, s[i], q)
      BY <1>1, <1>2, <3>1 DEF Ascends
    <3>3. s[i] \in Pos(kind)
      BY <1>1, SpotFacts
    <3>. QED  BY <1>3, <1>4, <1>5, <3>2, <3>3, PosTransitive
  <2>. QED  BY <2>1, <2>2
<1>6. Behind(kind, s, q)
  BY <1>1, <1>5 DEF Behind
<1>7. Later(kind, q, tok)
  <2>1. After(kind, tok, q)
    BY <1>1, <1>2 DEF Beyond
  <2>. QED  BY <1>3, <1>4, <2>1, AfterTransitive DEF Later
<1>. QED  BY <1>1, <1>2, <1>3, <1>6, <1>7

\* The probe of G finds a row exactly when the manifest is tagged.
LEMMA ProbeExact ==
    ASSUME NEW kind \in Kind, rows \subseteq Universe[kind], NEW d, IsDigest(d)
    PROVE  exists_prefix(AllKeys, tags_of_manifest(Ask.repo, d))
             <=> \E g \in rows : g.t = "G" /\ g.repo = Ask.repo /\ g.a = d
<1>1. d \in Seq(Byte) /\ Ask.repo \in Byte /\ None \notin Seq(Byte)
  BY DigestLengths, AskAssumption
<1>2. PICK h : h = <<PREFIX_MANIFEST_TAG, Ask.repo>> /\ h \in Seq(Byte) /\ Len(h) = 2
               /\ h[1] = PREFIX_MANIFEST_TAG /\ h[2] = Ask.repo
  <2>1. PREFIX_MANIFEST_TAG \in Byte
    BY SmallBytes DEF PREFIX_MANIFEST_TAG
  <2>2. PICK x \in Byte, y \in Byte : x = PREFIX_MANIFEST_TAG /\ y = Ask.repo
    BY <1>1, <2>1
  <2>3. <<x, y>> \in Seq(Byte) /\ Len(<<x, y>>) = 2 /\ <<x, y>>[1] = x /\ <<x, y>>[2] = y
    OBVIOUS
  <2>. QED  BY <2>2, <2>3
<1>3. PICK prefix : prefix = h \o d /\ prefix = tags_of_manifest(Ask.repo, d) /\ prefix \in Seq(Byte)
  BY <1>1, <1>2, Joined DEF tags_of_manifest, start_repo
<1>4. Grouped(prefix)
  BY <1>2, <1>3, DigestRangeGrouped
<1>5. /\ AllKeys \in SUBSET Seq(Byte) /\ IsFiniteSet(AllKeys)
  <2>1. \A r \in rows : KeyOf(r) \in Seq(Byte)
    BY KeyInRepo, KeyElsewhere DEF Headed
  <2>. QED  BY <2>1, SameNumber DEF AllKeys
<1>6. PICK A : A = Ahead(AllKeys, prefix, None)
  OBVIOUS
<1>7. A = {k \in AllKeys : Starts(k, prefix)}
  BY <1>6 DEF Ahead
<1>8. Walk(AllKeys, prefix, None) = Sorted(A)
  BY <1>3, <1>4, <1>5, <1>6, WalkExact
<1>9. A \in SUBSET Seq(Byte) /\ IsFiniteSet(A)
  BY <1>5, <1>7, FS_Subset
<1>10. Sorted(A) # <<>> <=> A # {}
  <2>1. /\ Sorted(A) \in Seq(A) /\ Len(Sorted(A)) = Cardinality(A)
    BY <1>9, SortedExact
  <2>2. Cardinality(A) = 0 <=> A = {}
    BY <1>9, FS_EmptySet
  <2>3. Sorted(A) = <<>> <=> Len(Sorted(A)) = 0
    BY <2>1
  <2>. QED  BY <2>1, <2>2, <2>3
<1>11. ASSUME NEW g \in rows
       PROVE  Starts(KeyOf(g), prefix) <=> g.t = "G" /\ g.repo = Ask.repo /\ g.a = d
  <2>1. CASE g.t \in InRepo
    <3>1. PICK b \in Seq(Byte) : b = Body(g) /\ KeyOf(g) = <<TypeByte(g.t), g.repo>> \o b
      BY <2>1, KeyParts
    <3>2. PICK e : e = <<TypeByte(g.t), g.repo>> /\ Len(e) = 2 /\ e \in Seq(Byte)
      <4>1. g.repo \in Byte
        BY <2>1, RowFields
      <4>2. TypeByte(g.t) \in Byte
        BY <2>1, SmallBytes DEF TypeByte, InRepo, PREFIX_MANIFEST, PREFIX_TAG, PREFIX_MANIFEST_TAG,
             PREFIX_CHILD_PARENT, PREFIX_REFERRER, PREFIX_TAG_HISTORY, PREFIX_MANIFEST_TAG_HISTORY
      <4>3. PICK x \in Byte, y \in Byte : x = TypeByte(g.t) /\ y = g.repo
        BY <4>1, <4>2
      <4>4. <<x, y>> \in Seq(Byte) /\ Len(<<x, y>>) = 2
        OBVIOUS
      <4>. QED  BY <4>3, <4>4
    <3>3. Starts(KeyOf(g), prefix) <=> e = h /\ Starts(b, d)
      <4>1. /\ e \in Seq(Byte) /\ b \in Seq(Byte) /\ h \in Seq(Byte) /\ d \in Seq(Byte)
            /\ Len(e) = Len(h)
        BY <1>1, <1>2, <3>2
      <4>2. Starts(e \o b, h \o d) <=> e = h /\ Starts(b, d)
        BY ONLY <4>1, StartsStrip
      <4>. QED  BY <1>3, <3>1, <3>2, <4>2
    <3>4. e = h <=> g.t = "G" /\ g.repo = Ask.repo
      <4>1. TypeByte(g.t) = PREFIX_MANIFEST_TAG <=> g.t = "G"
        BY <2>1 DEF TypeByte, InRepo, PREFIX_MANIFEST, PREFIX_TAG, PREFIX_MANIFEST_TAG,
             PREFIX_CHILD_PARENT, PREFIX_REFERRER, PREFIX_TAG_HISTORY, PREFIX_MANIFEST_TAG_HISTORY
      <4>. QED  BY <1>2, <3>2, <4>1
    <3>5. ASSUME g.t = "G" PROVE Starts(b, d) <=> g.a = d
      <4>1. IsDigest(g.a) /\ g.name \in Seq(Byte)
        BY <3>5, FieldAssumption, RowFields
      <4>2. b = g.a \o g.name
        BY <3>1, <3>5 DEF Body
      <4>. QED  BY <4>1, <4>2, DigestHead
    <3>. QED  BY <3>3, <3>4, <3>5
  <2>2. CASE g.t \notin InRepo
    <3>1. KeyOf(g)[1] \in {PREFIX_REPO_BY_NAME, PREFIX_UPLOAD, PREFIX_DB_VERSION}
      BY <2>2, KeyElsewhere
    <3>2. ~Starts(KeyOf(g), prefix)
      <4>. SUFFICES ASSUME Starts(KeyOf(g), prefix) PROVE FALSE
        OBVIOUS
      <4>1. KeyOf(g) \in Seq(Byte)
        BY <1>5 DEF AllKeys
      <4>2. Len(prefix) \in Nat /\ \A i \in 1..Len(prefix) : KeyOf(g)[i] = prefix[i]
        BY <1>3, <4>1, SharedBytes
      <4>3. 1 \in 1..Len(prefix) /\ prefix[1] = h[1]
        <5>1. /\ Len(prefix) = 2 + Len(d) /\ Len(d) \in Nat
              /\ \A i \in 1..2 + Len(d) : prefix[i] = IF i <= 2 THEN h[i] ELSE d[i - 2]
          BY <1>1, <1>2, <1>3, ConcatProperties
        <5>2. 1 \in 1..2 + Len(d)
          BY <5>1
        <5>. QED  BY <5>1, <5>2
      <4>. QED  BY <1>2, <3>1, <4>2, <4>3
                DEF PREFIX_REPO_BY_NAME, PREFIX_UPLOAD, PREFIX_DB_VERSION, PREFIX_MANIFEST_TAG
    <3>. QED  BY <2>2, <3>2 DEF InRepo
  <2>. QED  BY <2>1, <2>2
<1>12. A # {} <=> \E g \in rows : g.t = "G" /\ g.repo = Ask.repo /\ g.a = d
  BY <1>7, <1>11 DEF AllKeys
<1>. QED  BY <1>3, <1>8, <1>10, <1>12 DEF exists_prefix

\* The listings that look their rows up again.
Looked == {"details", "untagged"}

\* What the lookup keeps: a tag still there; a manifest no tag points at.
LEMMA KeptExact ==
    ASSUME StoreOK, walk.kind \in Kind, walk.kind \in Looked, NEW r \in ever, Wanted(walk.kind, r)
    PROVE  /\ walk.kind = "details" /\ r \in stable => Kept(RowPos(walk.kind, r))
           /\ walk.kind = "untagged" =>
                (Kept(RowPos(walk.kind, r)) <=> ~Tagged(rows, r))
<1>1. r \in Universe[walk.kind] /\ rows \subseteq Universe[walk.kind] /\ stable \subseteq rows
  BY DEF StoreOK
<1>2. ASSUME walk.kind = "details", r \in stable PROVE Kept(RowPos(walk.kind, r))
  <2>1. r.t = "T" /\ r.repo = Ask.repo /\ RowPos(walk.kind, r) = r.name /\ r \in rows
    BY <1>1, <1>2 DEF Wanted, RowPos
  <2>2. KeyOf(r) = tag(Ask.repo, r.name) /\ KeyOf(r) \in AllKeys
    BY <2>1 DEF KeyOf, AllKeys
  <2>. QED  BY <1>2, <2>1, <2>2 DEF Kept
<1>3. ASSUME walk.kind = "untagged" PROVE Kept(RowPos(walk.kind, r)) <=> ~Tagged(rows, r)
  <2>1. r.t = "M" /\ r.repo = Ask.repo /\ RowPos(walk.kind, r) = r.a
    BY <1>3 DEF Wanted, RowPos
  <2>2. IsDigest(r.a)
    BY <1>1, <2>1, FieldAssumption
  <2>3. exists_prefix(AllKeys, tags_of_manifest(Ask.repo, r.a))
          <=> \E g \in rows : g.t = "G" /\ g.repo = Ask.repo /\ g.a = r.a
    BY <1>1, <2>2, ProbeExact
  <2>4. Kept(r.a) <=> ~exists_prefix(AllKeys, tags_of_manifest(Ask.repo, r.a))
    BY <1>3 DEF Kept
  <2>. QED  BY <2>1, <2>3, <2>4 DEF Tagged
<1>. QED  BY <1>2, <1>3

\* The scan of a listing that looks its rows up.
LEMMA ReadRowsStep ==
    ASSUME WalkInv, NEW kind \in Looked, ReadRows(kind)
    PROVE  WalkInv'
<1>1. /\ walk.pc = "ready" /\ walk.kind = kind /\ kind \in Kind /\ walk \in Walks(kind)
      /\ seen \in Seq(Spots(kind))
      /\ rows \subseteq Universe[kind] /\ StoreOK /\ UNCHANGED <<rows, stable, ever, writes>>
  BY DEF WalkInv, WalkOK, Held, StoreOK, ReadRows
<1>2. PICK page : /\ page = Page
                  /\ Continue([walk EXCEPT !.pc = "lookup", !.page = Positions(page.keys),
                                           !.items = <<>>, !.more = NextPos(page)])
  BY DEF ReadRows
<1>3. walk.n \in Ns /\ walk.token \in Tokens(kind)
  BY <1>1, WalkFields
<1>4. PICK limit : limit = Limit
  OBVIOUS
<1>5. /\ limit \in Nat /\ limit <= MaxPage
      /\ page = Scan(AllKeys, RangeOf(kind), CursorAt(kind, walk.token), limit)
      /\ limit = 0 <=> ExplicitZero(kind, walk.n)
  BY <1>1, <1>2, <1>3, <1>4, LimitFacts DEF Limit, Page
<1>6. ~ExplicitZero(kind, walk.n) /\ kind # "count" /\ kind # "search" /\ kind # "referrers"
  BY DEF ExplicitZero, UnderV2, Looked
<1>7. limit > 0
  BY <1>5, <1>6
<1>8. PICK ps, np : ps = ReadOff(kind, page.keys) /\ np = NextOf(kind, page)
  OBVIOUS
<1>9. ps = Positions(page.keys) /\ np = NextPos(page)
  BY <1>1, <1>8 DEF Positions, ReadOff, NextOf, NextPos
<1>10. PageHolds(kind, walk.token, limit, page, ps, np)
  <2>1. /\ kind \in Kind /\ rows \subseteq Universe[kind] /\ walk.token \in Tokens(kind)
        /\ limit \in Nat /\ limit > 0
        /\ page = Scan(AllKeys, RangeOf(kind), CursorAt(kind, walk.token), limit)
    BY <1>1, <1>3, <1>5, <1>7
  <2>2. PageHolds(kind, walk.token, limit, page, ReadOff(kind, page.keys), NextOf(kind, page))
    BY ONLY <2>1, PagePositions
  <2>. QED  BY <1>8, <2>2
<1>11. /\ ps \in Seq(Spots(kind)) /\ Len(ps) <= limit /\ np \in Spots(kind) \cup {None}
       /\ Ascends(kind, ps) /\ Beyond(kind, ps, walk.token)
       /\ np # None => Behind(kind, ps, np) /\ Later(kind, np, walk.token)
  BY <1>10 DEF PageHolds
<1>12. PICK e : e = <<>> /\ e \in Seq(Spots(kind)) /\ Len(e) = 0
  <2>1. <<>> \in Seq(Spots(kind)) /\ Len(<<>>) = 0
    OBVIOUS
  <2>. QED  BY ONLY <2>1
<1>13. PICK x : x = [walk EXCEPT !.pc = "lookup", !.page = ps, !.items = e, !.more = np]
  OBVIOUS
<1>14. Continue(x)
  BY <1>2, <1>9, <1>12, <1>13
<1>15. /\ x \in Walks(kind) /\ x.kind = kind /\ x.n = walk.n /\ x.from = walk.from
       /\ x.token = walk.token /\ x.pc = "lookup" /\ x.page = ps /\ x.items = e /\ x.more = np
  BY <1>1, <1>11, <1>12, <1>13 DEF Walks
<1>16. Held(x, seen)
  <2>1. Len(ps) + Len(e) <= MaxPage
    BY <1>5, <1>11, <1>12, Bounds
  <2>. QED  BY <1>1, <1>15, <2>1 DEF Held, Looked
<1>17. Forward(x, seen, stable, ever)
  BY <1>1, <1>15, SameQuestion DEF WalkInv, WalkOK, Forward
<1>18. LookupInv(x, seen, stable, ever)
  <2>1. /\ Ascends(kind, e) /\ Beyond(kind, e, walk.token) /\ Found(x, stable, ever, e)
        /\ \A q : Behind(kind, e, q)
    BY <1>12 DEF Ascends, Beyond, Found, Behind
  <2>2. \A i \in 1..Len(e), j \in 1..Len(ps) : Precedes(kind, e[i], ps[j])
    BY <1>12
  <2>3. Drawn(x, ever, ps)
    <3>. SUFFICES ASSUME NEW i \in 1..Len(ps)
                  PROVE  \E r \in ever : Wanted(kind, r) /\ RowPos(kind, r) = ps[i]
      BY <1>15 DEF Drawn
    <3>1. PICK r \in Fresh(kind, walk.token) : RowPos(kind, r) = ps[i]
      BY <1>10 DEF PageHolds
    <3>2. r \in ever /\ Listed(kind, r)
      BY <1>1, FreshFacts
    <3>. QED  BY <1>6, <3>1, <3>2 DEF Listed
  <2>4. ASSUME NEW r \in Owed(x, stable, ever)
        PROVE  \/ Shows(kind, seen, r) \/ Shows(kind, ps, r)
               \/ np # None /\ After(kind, np, RowPos(kind, r))
    <3>1. r \in Owed(walk, stable, ever)
      BY <1>1, <1>15, SameQuestion
    <3>2. ~Excused(walk)
      BY <1>1, <1>6 DEF Excused, Counting
    <3>3. Shows(kind, seen, r) \/ After(kind, walk.token, RowPos(kind, r))
      BY <1>1, <3>1, <3>2 DEF WalkInv, WalkOK, ReadyInv
    <3>4. ASSUME After(kind, walk.token, RowPos(kind, r))
          PROVE  Shows(kind, ps, r) \/ (np # None /\ After(kind, np, RowPos(kind, r)))
      <4>1. r \in Fresh(kind, walk.token)
        BY <1>1, <3>1, <3>4, OwedFresh
      <4>2. \/ \E i \in 1..Len(ps) : RowPos(kind, r) = ps[i]
            \/ np # None /\ After(kind, np, RowPos(kind, r))
        BY <1>10, <4>1 DEF PageHolds
      <4>. QED  BY <4>2 DEF Shows
    <3>. QED  BY <3>3, <3>4
  <2>. QED  BY <1>11, <1>15, <2>1, <2>2, <2>3, <2>4 DEF LookupInv
<1>19. /\ ReadyInv(x, seen, stable, ever) /\ ScanInv(x, seen, stable, ever)
       /\ TallyInv(x, stable, ever) /\ Ended(x, seen, stable, ever) /\ Tallied(x, stable, ever)
  BY <1>15 DEF ReadyInv, ScanInv, TallyInv, Ended, Tallied
<1>20. WalkOK(x, seen, stable, ever)
  BY <1>16, <1>17, <1>18, <1>19 DEF WalkOK
<1>. QED  BY <1>1, <1>14, <1>15, <1>20, Continued

\* The lookup of one row.
LEMMA LookUpStep ==
    ASSUME WalkInv, LookUp
    PROVE  WalkInv'
<1>. DEFINE kind == walk.kind
            tok == walk.token
            more == walk.more
            page == walk.page
            items == walk.items
<1>1. /\ walk.pc = "lookup" /\ page # <<>> /\ kind \in Kind /\ walk \in Walks(kind)
      /\ seen \in Seq(Spots(kind)) /\ StoreOK /\ UNCHANGED <<rows, stable, ever, writes>>
      /\ kind \in Looked
  BY DEF WalkInv, WalkOK, Held, LookUp, Looked
<1>2. /\ page \in Seq(Spots(kind)) /\ items \in Seq(Spots(kind))
      /\ Len(page) + Len(items) <= MaxPage
  BY <1>1, WalkFields DEF WalkInv, WalkOK, Held
<1>3. /\ Ascends(kind, items) /\ Ascends(kind, page)
      /\ \A i \in 1..Len(items), j \in 1..Len(page) : Precedes(kind, items[i], page[j])
      /\ Beyond(kind, items, tok) /\ Beyond(kind, page, tok)
      /\ Found(walk, stable, ever, items) /\ Drawn(walk, ever, page)
      /\ more # None => /\ Behind(kind, items, more) /\ Behind(kind, page, more)
                        /\ Later(kind, more, tok)
      /\ \A r \in Owed(walk, stable, ever) :
            \/ Shows(kind, seen, r) \/ Shows(kind, items, r) \/ Shows(kind, page, r)
            \/ more # None /\ After(kind, more, RowPos(kind, r))
  BY <1>1 DEF WalkInv, WalkOK, LookupInv
<1>4. PICK p, rest : p = Head(page) /\ rest = Tail(page)
  OBVIOUS
<1>5. Continue([walk EXCEPT !.page = rest, !.items = IF Kept(p) THEN Append(items, p) ELSE items])
  BY <1>4 DEF LookUp
<1>. HIDE DEF kind, tok, more, page, items
<1>6. /\ Len(page) \in Nat /\ Len(page) > 0 /\ 1 \in 1..Len(page) /\ p = page[1] /\ p \in Spots(kind)
      /\ rest \in Seq(Spots(kind)) /\ Len(rest) = Len(page) - 1
      /\ \A i \in 1..Len(rest) : rest[i] = page[i + 1] /\ i + 1 \in 1..Len(page) /\ 1 < i + 1
  <2>1. Len(page) \in Nat /\ Len(page) # 0
    BY <1>1, <1>2
  <2>2. Head(page) = page[1] /\ page[1] \in Spots(kind) /\ 1 \in 1..Len(page)
    BY <1>1, <1>2, <2>1
  <2>3. /\ Tail(page) \in Seq(Spots(kind)) /\ Len(Tail(page)) = Len(page) - 1
        /\ \A i \in 1..Len(Tail(page)) : Tail(page)[i] = page[i + 1]
    BY <1>1, <1>2, HeadTailProperties
  <2>4. \A i \in 1..Len(rest) : rest[i] = page[i + 1] /\ i + 1 \in 1..Len(page) /\ 1 < i + 1
    BY <1>4, <2>1, <2>3
  <2>. QED  BY <1>4, <2>1, <2>2, <2>3, <2>4
<1>7. PICK one : one = IF Kept(p) THEN <<p>> ELSE <<>>
  OBVIOUS
<1>8. /\ one \in Seq(Spots(kind)) /\ Len(one) \in Nat /\ Len(one) <= 1
      /\ \A i \in 1..Len(one) : one[i] = p /\ Kept(p)
      /\ Kept(p) => 1 \in 1..Len(one) /\ one[1] = p
  <2>1. CASE Kept(p)
    <3>1. one = <<p>> /\ Len(one) = 1 /\ one \in Seq(Spots(kind)) /\ one[1] = p
      BY <1>6, <1>7, <2>1
    <3>2. \A i \in 1..Len(one) : i = 1
      BY <3>1
    <3>. QED  BY <2>1, <3>1, <3>2
  <2>2. CASE ~Kept(p)
    <3>1. one = <<>> /\ Len(one) = 0 /\ one \in Seq(Spots(kind))
      BY <1>7, <2>2
    <3>. QED  BY <2>2, <3>1
  <2>. QED  BY <2>1, <2>2
<1>9. PICK kept : kept = items \o one
  OBVIOUS
<1>10. kept = IF Kept(p) THEN Append(items, p) ELSE items
  <2>1. Append(items, p) = items \o <<p>> /\ items \o <<>> = items
    BY <1>2, <1>6, AppendIsConcat, ConcatEmptySeq
  <2>. QED  BY <1>7, <1>9, <2>1
<1>11. kept \in Seq(Spots(kind)) /\ Len(kept) = Len(items) + Len(one) /\ Len(items) \in Nat
  BY <1>2, <1>8, <1>9, Together
<1>12. PICK x : x = [walk EXCEPT !.page = rest, !.items = kept]
  OBVIOUS
<1>13. Continue(x)
  BY <1>5, <1>10, <1>12
<1>14. /\ x \in Walks(kind) /\ x.kind = kind /\ x.n = walk.n /\ x.from = walk.from
       /\ x.token = tok /\ x.pc = "lookup" /\ x.page = rest /\ x.items = kept /\ x.more = more
  BY <1>1, <1>6, <1>11, <1>12 DEF Walks, tok, more
<1>15. kind = walk.kind /\ tok = walk.token
  BY DEF kind, tok
<1>16. Held(x, seen)
  <2>1. Len(rest) + Len(kept) <= MaxPage
    BY <1>2, <1>6, <1>8, <1>11, Bounds
  <2>. QED  BY <1>1, <1>14, <2>1 DEF Held, Looked
<1>17. Forward(x, seen, stable, ever)
  <2>1. Found(x, stable, ever, seen) <=> Found(walk, stable, ever, seen)
    BY <1>14, <1>15, SameQuestion
  <2>. QED  BY <1>1, <1>14, <1>15, <2>1 DEF WalkInv, WalkOK, Forward
<1>18. Ascends(kind, kept)
  <2>1. Ascends(kind, one)
    <3>1. \A i, j \in 1..Len(one) : ~(i < j)
      BY <1>8
    <3>. QED  BY <3>1 DEF Ascends
  <2>2. \A i \in 1..Len(items), j \in 1..Len(one) : Precedes(kind, items[i], one[j])
    BY <1>3, <1>6, <1>8
  <2>. QED  BY <1>2, <1>3, <1>8, <1>9, <2>1, <2>2, JoinAscends
<1>19. Ascends(kind, rest)
  <2>. SUFFICES ASSUME NEW i \in 1..Len(rest), NEW j \in 1..Len(rest), i < j
                PROVE  Precedes(kind, rest[i], rest[j])
    BY DEF Ascends
  <2>1. i + 1 < j + 1
    OBVIOUS
  <2>. QED  BY <1>3, <1>6, <2>1 DEF Ascends
<1>20. ASSUME NEW i \in 1..Len(kept), NEW j \in 1..Len(rest) PROVE Precedes(kind, kept[i], rest[j])
  <2>1. \/ i \in 1..Len(items) /\ kept[i] = items[i]
        \/ i - Len(items) \in 1..Len(one) /\ kept[i] = one[i - Len(items)]
    BY <1>2, <1>8, <1>9, Together
  <2>2. rest[j] = page[j + 1] /\ j + 1 \in 1..Len(page) /\ 1 < j + 1
    BY <1>6
  <2>3. CASE i \in 1..Len(items) /\ kept[i] = items[i]
    BY <1>3, <2>2, <2>3
  <2>4. CASE i - Len(items) \in 1..Len(one) /\ kept[i] = one[i - Len(items)]
    <3>1. kept[i] = page[1]
      BY <1>6, <1>8, <2>4
    <3>. QED  BY <1>3, <1>6, <2>2, <3>1 DEF Ascends
  <2>. QED  BY <2>1, <2>3, <2>4
<1>21. Beyond(kind, kept, tok) /\ Beyond(kind, rest, tok)
  <2>1. Beyond(kind, one, tok)
    BY <1>3, <1>6, <1>8 DEF Beyond
  <2>2. Beyond(kind, rest, tok)
    BY <1>3, <1>6 DEF Beyond
  <2>. QED  BY <1>2, <1>3, <1>8, <1>9, <2>1, <2>2, JoinRest
<1>22. PICK r0 \in ever : Wanted(kind, r0) /\ RowPos(kind, r0) = p
  BY <1>3, <1>6, <1>15 DEF Drawn
<1>23. Found(walk, stable, ever, kept) /\ Drawn(walk, ever, rest)
  <2>1. Drawn(walk, ever, rest)
    BY <1>3, <1>6, <1>15 DEF Drawn
  <2>2. ASSUME Kept(p) PROVE DueFor(walk, r0) /\ (kind = "untagged" => ~Tagged(stable, r0))
    <3>1. Later(kind, tok, walk.from) /\ After(kind, tok, p)
      BY <1>1, <1>3, <1>6, <1>15 DEF WalkInv, WalkOK, Forward, Beyond
    <3>2. After(kind, walk.from, RowPos(kind, r0)) /\ kind # "referrers"
      BY <1>1, <1>6, <1>22, <3>1 DEF Later, Looked
    <3>3. kind = "untagged" => ~Tagged(rows, r0)
      BY <1>1, <1>15, <1>22, <2>2, KeptExact
    <3>4. Tagged(stable, r0) => Tagged(rows, r0)
      BY <1>1 DEF Tagged, StoreOK
    <3>. QED  BY <1>15, <1>22, <3>2, <3>3, <3>4 DEF DueFor
  <2>3. Found(walk, stable, ever, one)
    BY <1>8, <1>15, <1>22, <2>2 DEF Found
  <2>. QED  BY <1>2, <1>3, <1>8, <1>9, <2>1, <2>3, JoinRest
<1>24. ASSUME more # None
       PROVE  Behind(kind, kept, more) /\ Behind(kind, rest, more) /\ Later(kind, more, tok)
  <2>1. Behind(kind, one, more) /\ Behind(kind, rest, more)
    BY <1>3, <1>6, <1>8, <1>24 DEF Behind
  <2>. QED  BY <1>2, <1>3, <1>8, <1>9, <1>24, <2>1, JoinRest
<1>25. ASSUME NEW r \in Owed(walk, stable, ever)
       PROVE  \/ Shows(kind, seen, r) \/ Shows(kind, kept, r) \/ Shows(kind, rest, r)
              \/ more # None /\ After(kind, more, RowPos(kind, r))
  <2>1. Shows(kind, items, r) \/ Shows(kind, one, r) => Shows(kind, kept, r)
    BY <1>2, <1>8, <1>9, JoinRest
  <2>2. ASSUME Shows(kind, page, r) PROVE Shows(kind, one, r) \/ Shows(kind, rest, r)
    <3>1. PICK i \in 1..Len(page) : page[i] = RowPos(kind, r)
      BY <2>2 DEF Shows
    <3>2. CASE i = 1
      <4>1. RowPos(kind, r) = p
        BY <1>6, <3>1, <3>2
      <4>2. r \in stable /\ r \in ever /\ Wanted(kind, r) /\ (kind = "untagged" => ~Tagged(ever, r))
        BY <1>1, <1>15 DEF Owed, DueFor, StoreOK
      <4>3. kind = "untagged" => ~Tagged(rows, r)
        BY <1>1, <4>2 DEF Tagged, StoreOK
      <4>4. Kept(p)
        BY <1>1, <1>15, <4>1, <4>2, <4>3, KeptExact DEF Looked
      <4>. QED  BY <1>8, <4>1, <4>4 DEF Shows
    <3>3. CASE i # 1
      <4>1. i - 1 \in 1..Len(rest) /\ i - 1 + 1 = i
        BY <1>6, <3>3
      <4>2. rest[i - 1] = page[i]
        BY <1>6, <4>1
      <4>. QED  BY <3>1, <4>1, <4>2 DEF Shows
    <3>. QED  BY <3>2, <3>3
  <2>. QED  BY <1>3, <2>1, <2>2
<1>26. LookupInv(x, seen, stable, ever)
  <2>1. /\ Owed(x, stable, ever) = Owed(walk, stable, ever)
        /\ Found(x, stable, ever, kept) /\ Drawn(x, ever, rest)
    BY <1>14, <1>15, <1>23, SameQuestion
  <2>. QED  BY <1>14, <1>18, <1>19, <1>20, <1>21, <1>24, <1>25, <2>1 DEF LookupInv
<1>27. /\ ReadyInv(x, seen, stable, ever) /\ ScanInv(x, seen, stable, ever)
       /\ TallyInv(x, stable, ever) /\ Ended(x, seen, stable, ever) /\ Tallied(x, stable, ever)
  BY <1>14 DEF ReadyInv, ScanInv, TallyInv, Ended, Tallied
<1>28. WalkOK(x, seen, stable, ever)
  BY <1>16, <1>17, <1>26, <1>27 DEF WalkOK
<1>. QED  BY <1>1, <1>13, <1>14, <1>15, <1>28, Continued

\* The page once every row has been looked up.
LEMMA ServeRowsStep ==
    ASSUME WalkInv, ServeRows
    PROVE  WalkInv'
<1>. DEFINE kind == walk.kind
            tok == walk.token
            more == walk.more
            items == walk.items
<1>1. /\ walk.pc = "lookup" /\ walk.page = <<>> /\ kind \in Kind /\ walk \in Walks(kind)
      /\ StoreOK /\ UNCHANGED <<rows, stable, ever, writes>> /\ kind \in Looked
  BY DEF WalkInv, WalkOK, Held, ServeRows, Looked
<1>2. items \in Seq(Spots(kind)) /\ more \in Spots(kind) \cup {None} /\ tok \in Tokens(kind)
  BY <1>1, WalkFields
<1>3. /\ Ascends(kind, items) /\ Beyond(kind, items, tok) /\ Found(walk, stable, ever, items)
      /\ more # None => Behind(kind, items, more) /\ Later(kind, more, tok)
      /\ \A r \in Owed(walk, stable, ever) :
            \/ Shows(kind, seen, r) \/ Shows(kind, items, r) \/ Shows(kind, walk.page, r)
            \/ more # None /\ After(kind, more, RowPos(kind, r))
  BY <1>1 DEF WalkInv, WalkOK, LookupInv
<1>4. PICK next : next = IF kind = "untagged" \/ more = None THEN more
                         ELSE IF items = <<>> THEN None ELSE items[Len(items)]
  OBVIOUS
<1>5. PICK cut : cut = (more # None /\ next = None) /\ cut \in BOOLEAN
  OBVIOUS
<1>6. Respond(items, next, cut)
  BY <1>4, <1>5 DEF ServeRows, Last
<1>7. \A r : ~Shows(kind, walk.page, r)
  <2>1. Len(walk.page) = 0
    BY <1>1
  <2>. QED  BY <2>1 DEF Shows
<1>8. kind # "count" /\ kind = walk.kind /\ tok = walk.token
  BY <1>1 DEF Looked
<1>. HIDE DEF kind, tok, more, items
<1>9. CASE next = more
  <2>1. Servable(walk, stable, ever, items, next)
    BY <1>2, <1>3, <1>8, <1>9 DEF Servable
  <2>2. Reaches(walk, seen, stable, ever, items, next)
    BY <1>3, <1>7, <1>8, <1>9 DEF Reaches
  <2>3. cut => next = None
    BY <1>5
  <2>. QED  BY <1>1, <1>5, <1>6, <1>8, <2>1, <2>2, <2>3, Response
<1>10. CASE next # more /\ items = <<>>
  <2>1. next = None /\ more # None /\ cut
    BY <1>4, <1>5, <1>10
  <2>2. Servable(walk, stable, ever, items, next)
    BY <1>2, <1>3, <1>8, <2>1 DEF Servable
  <2>. QED  BY <1>1, <1>5, <1>6, <1>8, <2>1, <2>2, Response
<1>11. CASE next # more /\ items # <<>>
  <2>1. next = items[Len(items)] /\ more # None
    BY <1>4, <1>11
  <2>2. /\ next \in Spots(kind) /\ next # None /\ Behind(kind, items, next) /\ Later(kind, next, tok)
    BY <1>1, <1>2, <1>3, <1>11, <2>1, LastBehind
  <2>3. Servable(walk, stable, ever, items, next)
    BY <1>2, <1>3, <1>8, <2>2 DEF Servable
  <2>4. ASSUME NEW r \in Owed(walk, stable, ever), After(kind, more, RowPos(kind, r))
        PROVE  After(kind, next, RowPos(kind, r))
    <3>1. r \in Universe[kind] /\ Listed(kind, r)
      BY <1>1, <1>8, DueListed DEF Owed, DueFor, StoreOK
    <3>2. RowPos(kind, r) \in Spots(kind)
      BY <3>1 DEF Spots
    <3>3. Len(items) \in 1..Len(items)
      BY <1>2, <1>11
    <3>4. Precedes(kind, next, RowPos(kind, r))
      BY <1>3, <2>1, <2>4, <3>2, <3>3 DEF Behind
    <3>. QED  BY <1>1, <2>2, <3>2, <3>4, SpotFacts, PosOrder
  <2>5. Reaches(walk, seen, stable, ever, items, next)
    BY <1>3, <1>7, <1>8, <2>2, <2>4 DEF Reaches
  <2>6. ~cut
    BY <1>5, <2>2
  <2>. QED  BY <1>1, <1>5, <1>6, <1>8, <2>3, <2>5, <2>6, Response
<1>. QED  BY <1>9, <1>10, <1>11
----------------------------------------------------------------------------
(* The steps of a search.                                                  *)

\* A cursor is a key or none.
LEMMA CursorKey ==
    ASSUME NEW kind \in Kind, NEW tok \in Tokens(kind)
    PROVE  CursorAt(kind, tok) \in Seq(Byte) \cup {None}
<1>1. CASE tok = None
  BY <1>1 DEF CursorAt
<1>2. CASE tok # None
  <2>1. tok \in Cursors(kind)
    BY <1>2 DEF Tokens
  <2>. QED  BY <2>1, AfterIsLess
<1>. QED  BY <1>1, <1>2

\* The beginning of a sequence of positions.
LEMMA Taken ==
    ASSUME NEW kind, NEW s \in Seq(Spots(kind)), NEW n \in 1..Len(s)
    PROVE  /\ SubSeq(s, 1, n) \in Seq(Spots(kind)) /\ Len(SubSeq(s, 1, n)) = n
           /\ \A i \in 1..n : SubSeq(s, 1, n)[i] = s[i] /\ i \in 1..Len(s)
           /\ Ascends(kind, s) => Ascends(kind, SubSeq(s, 1, n))
           /\ \A q : Beyond(kind, s, q) => Beyond(kind, SubSeq(s, 1, n), q)
           /\ \A w, st, ev : Found(w, st, ev, s) => Found(w, st, ev, SubSeq(s, 1, n))
<1>1. Len(s) \in Nat /\ n \in Nat /\ n > 0 /\ n <= Len(s) /\ \A i \in 1..n : i \in 1..Len(s)
  OBVIOUS
<1>2. PICK u : u = SubSeq(s, 1, n)
  OBVIOUS
<1>3. \A i \in 1..n : s[i] \in Spots(kind)
  BY <1>1
<1>4. /\ u \in Seq(Spots(kind)) /\ Len(u) = IF 1 <= n THEN n - 1 + 1 ELSE 0
      /\ \A i \in 1..n - 1 + 1 : u[i] = s[1 + i - 1]
  BY <1>1, <1>2, <1>3, SubSeqProperties
<1>5. Len(u) = n /\ \A i \in 1..n : u[i] = s[i]
  <2>1. n - 1 + 1 = n /\ 1 <= n
    BY <1>1
  <2>2. ASSUME NEW i \in 1..n PROVE u[i] = s[i]
    <3>1. i \in 1..n - 1 + 1 /\ 1 + i - 1 = i
      BY <2>1
    <3>. QED  BY <1>4, <3>1
  <2>. QED  BY <1>4, <2>1, <2>2
<1>6. Ascends(kind, s) => Ascends(kind, u)
  BY <1>1, <1>5 DEF Ascends
<1>7. \A q : Beyond(kind, s, q) => Beyond(kind, u, q)
  BY <1>1, <1>5 DEF Beyond
<1>8. ASSUME NEW w, NEW st, NEW ev, Found(w, st, ev, s) PROVE Found(w, st, ev, u)
  <2>. SUFFICES ASSUME NEW i \in 1..n
                PROVE  \E r \in ev : /\ DueFor(w, r) /\ RowPos(w.kind, r) = u[i]
                                     /\ w.kind = "untagged" => ~Tagged(st, r)
    BY <1>5 DEF Found
  <2>1. u[i] = s[i] /\ i \in 1..Len(s)
    BY <1>1, <1>5
  <2>. QED  BY <1>8, <2>1 DEF Found
<1>. QED  BY <1>1, <1>2, <1>4, <1>5, <1>6, <1>7, <1>8

\* A search begins at the token.
LEMMA SearchStartStep ==
    ASSUME WalkInv, SearchStart
    PROVE  WalkInv'
<1>1. /\ walk.pc = "ready" /\ walk.kind = "search" /\ "search" \in Kind /\ walk \in Walks("search")
      /\ seen \in Seq(Spots("search")) /\ walk.page = <<>>
      /\ UNCHANGED <<rows, stable, ever, writes>>
  BY DEF WalkInv, WalkOK, Held, SearchStart
<1>2. walk.n \in Ns /\ walk.token \in Tokens("search")
  BY <1>1, WalkFields
<1>3. PICK e : e = <<>> /\ e \in Seq(Spots("search")) /\ Len(e) = 0
  <2>1. <<>> \in Seq(Spots("search")) /\ Len(<<>>) = 0
    OBVIOUS
  <2>. QED  BY ONLY <2>1
<1>4. PICK c : c = CursorAt("search", walk.token) /\ c \in Seq(Byte) \cup {None}
  BY <1>1, <1>2, CursorKey
<1>5. PICK x : x = [walk EXCEPT !.pc = "scan", !.at = c, !.items = e, !.examined = 0]
  OBVIOUS
<1>6. Continue(x)
  BY <1>3, <1>4, <1>5 DEF SearchStart
<1>7. /\ x \in Walks("search") /\ x.kind = "search" /\ x.n = walk.n /\ x.from = walk.from
      /\ x.token = walk.token /\ x.pc = "scan" /\ x.page = walk.page /\ x.items = e /\ x.at = c
      /\ x.examined = 0
  BY <1>1, <1>3, <1>4, <1>5 DEF Walks
<1>8. Held(x, seen)
  <2>1. Len(x.page) + Len(x.items) <= MaxPage
    BY <1>1, <1>3, <1>7, Bounds
  <2>. QED  BY <1>1, <1>7, <2>1 DEF Held
<1>9. Forward(x, seen, stable, ever)
  <2>1. Found(x, stable, ever, seen) <=> Found(walk, stable, ever, seen)
    BY <1>1, <1>7, SameQuestion
  <2>. QED  BY <1>1, <1>7, <2>1 DEF WalkInv, WalkOK, Forward
<1>10. ScanInv(x, seen, stable, ever)
  <2>1. Len(e) <= LimitOf("search", x.n) /\ 0 < SearchCeiling
    BY <1>2, <1>3, <1>7, LimitFacts, Bounds
  <2>2. ~Excused(walk)
    BY <1>1 DEF Excused, Counting, ExplicitZero, UnderV2
  <2>3. \A r \in Owed(x, stable, ever) :
            Shows("search", seen, r) \/ After("search", walk.token, RowPos("search", r))
    BY <1>1, <1>7, <2>2, SameQuestion DEF WalkInv, WalkOK, ReadyInv
  <2>4. /\ Ascends("search", e) /\ Beyond("search", e, walk.token) /\ Found(x, stable, ever, e)
        /\ Behind("search", e, walk.token) /\ Later("search", walk.token, walk.token)
    BY <1>3 DEF Ascends, Beyond, Found, Behind, Later
  <2>5. ScanAt(x, seen, stable, ever, x.token)
    BY <1>4, <1>7, <2>3, <2>4 DEF ScanAt
  <2>. QED  BY <1>7, <2>1, <2>5 DEF ScanInv
<1>11. /\ ReadyInv(x, seen, stable, ever) /\ LookupInv(x, seen, stable, ever)
       /\ TallyInv(x, stable, ever) /\ Ended(x, seen, stable, ever) /\ Tallied(x, stable, ever)
  BY <1>7 DEF ReadyInv, LookupInv, TallyInv, Ended, Tallied
<1>12. WalkOK(x, seen, stable, ever)
  BY <1>8, <1>9, <1>10, <1>11 DEF WalkOK
<1>. QED  BY <1>1, <1>6, <1>7, <1>12, Continued

\* What a step of a search has: the matches so far, what is left of the names.
Gathered(w, s, st, ev, all, np) ==
    /\ all \in Seq(Spots(w.kind)) /\ np \in Spots(w.kind) \cup {None}
    /\ Ascends(w.kind, all) /\ Beyond(w.kind, all, w.token) /\ Found(w, st, ev, all)
    /\ np # None => Behind(w.kind, all, np) /\ Later(w.kind, np, w.token)
    /\ Reaches(w, s, st, ev, all, np)

\* A step of a search adds the names that match, in order, and misses none.
LEMMA SearchGathers ==
    ASSUME WalkInv, walk.pc = "scan", walk.kind = "search",
           NEW step \in Nat, step > 0, NEW page, page = Scan(AllKeys, repos_by_name, walk.at, step),
           NEW ps, ps = ReadOff("search", page.keys), NEW np, np = NextOf("search", page),
           NEW I, I = {i \in 1..Len(ps) : HasPart(ps[i], Ask.needle)}
    PROVE  /\ Gathered(walk, seen, stable, ever, walk.items \o AtPlaces(ps, I), np)
           /\ np = None <=> page.next = None
           /\ np # None => page.next = CursorAt("search", np)
           /\ Len(page.keys) = Len(ps) /\ ps \in Seq(Spots("search"))
<1>. DEFINE kind == "search"
            tok == walk.token
            items == walk.items
<1>1. /\ kind \in Kind /\ walk \in Walks(kind) /\ StoreOK /\ rows \subseteq Universe[kind]
      /\ walk.kind = kind
  BY DEF WalkInv, WalkOK, Held, StoreOK
<1>2. tok \in Tokens(kind) /\ items \in Seq(Spots(kind))
  BY <1>1, WalkFields
<1>3. PICK q \in Spots(kind) \cup {tok} : ScanAt(walk, seen, stable, ever, q)
  BY DEF WalkInv, WalkOK, ScanInv
<1>4. /\ walk.at = CursorAt(kind, q) /\ Later(kind, q, tok)
      /\ Ascends(kind, items) /\ Beyond(kind, items, tok)
      /\ Behind(kind, items, q) /\ Found(walk, stable, ever, items)
      /\ \A r \in Owed(walk, stable, ever) :
            \/ Shows(kind, seen, r) \/ Shows(kind, items, r)
            \/ After(kind, q, RowPos(kind, r))
  BY <1>1, <1>3 DEF ScanAt
<1>5. q \in Tokens(kind)
  BY <1>1, <1>2, <1>3, SpotFacts
<1>6. page = Scan(AllKeys, RangeOf(kind), CursorAt(kind, q), step)
  BY <1>4 DEF RangeOf
<1>. HIDE DEF kind, tok, items
<1>7. PageHolds(kind, q, step, page, ps, np)
  <2>1. kind \in Kind /\ rows \subseteq Universe[kind] /\ q \in Tokens(kind) /\ step \in Nat /\ step > 0
    BY <1>1, <1>5
  <2>2. PageHolds(kind, q, step, page, ReadOff(kind, page.keys), NextOf(kind, page))
    BY ONLY <1>6, <2>1, PagePositions
  <2>. QED  BY <2>2 DEF kind
<1>8. /\ ps \in Seq(Spots(kind)) /\ np \in Spots(kind) \cup {None} /\ Len(page.keys) = Len(ps)
      /\ Ascends(kind, ps) /\ Beyond(kind, ps, q)
      /\ (np = None <=> page.next = None)
      /\ np # None => page.next = CursorAt(kind, np) /\ Behind(kind, ps, np) /\ Later(kind, np, q)
  BY <1>7 DEF PageHolds
<1>9. PICK hits, all : hits = AtPlaces(ps, I) /\ all = items \o hits
  OBVIOUS
<1>10. I \in SUBSET (1..Len(ps))
  OBVIOUS
<1>11. /\ hits \in Seq(Spots(kind))
       /\ \A j \in 1..Len(hits) : \E i \in I : hits[j] = ps[i]
       /\ \A i \in I : \E j \in 1..Len(hits) : hits[j] = ps[i]
       /\ Ascends(kind, hits) /\ Beyond(kind, hits, q)
       /\ np # None => Behind(kind, hits, np)
  <2>1. ps \in Seq(Spots(kind)) /\ I \in SUBSET (1..Len(ps))
    BY <1>8, <1>10
  <2>2. /\ hits \in Seq(Spots(kind))
        /\ \A j \in 1..Len(hits) : \E i \in I : hits[j] = ps[i]
        /\ \A i \in I : \E j \in 1..Len(hits) : hits[j] = ps[i]
        /\ Ascends(kind, ps) => Ascends(kind, hits)
        /\ \A o : Beyond(kind, ps, o) => Beyond(kind, hits, o)
        /\ \A o : Behind(kind, ps, o) => Behind(kind, hits, o)
    BY ONLY <1>9, <2>1, Selected
  <2>. QED  BY <1>8, <2>2
<1>12. all \in Seq(Spots(kind))
  BY <1>2, <1>9, <1>11, Together
<1>13. \A j \in 1..Len(hits) : hits[j] \in Spots(kind)
  BY <1>11
<1>14. Ascends(kind, all)
  <2>1. \A i \in 1..Len(items), j \in 1..Len(hits) : Precedes(kind, items[i], hits[j])
    BY <1>4, <1>11, <1>13 DEF Behind, Beyond
  <2>2. /\ items \in Seq(Spots(kind)) /\ hits \in Seq(Spots(kind))
        /\ Ascends(kind, items) /\ Ascends(kind, hits)
    BY <1>2, <1>4, <1>11
  <2>3. Ascends(kind, items \o hits)
    BY ONLY <2>1, <2>2, JoinAscends
  <2>. QED  BY <1>9, <2>3
<1>15. Beyond(kind, all, tok)
  <2>1. Beyond(kind, hits, tok)
    BY <1>4, <1>11, <1>13 DEF Beyond, Later
  <2>. QED  BY <1>2, <1>4, <1>9, <1>11, <2>1, JoinRest
<1>16. Found(walk, stable, ever, all)
  <2>1. Found(walk, stable, ever, hits)
    <3>. SUFFICES ASSUME NEW j \in 1..Len(hits)
                  PROVE  \E r \in ever : DueFor(walk, r) /\ RowPos(kind, r) = hits[j]
      BY <1>1 DEF Found, kind
    <3>1. PICK i \in I : hits[j] = ps[i]
      BY <1>11
    <3>2. PICK r \in Fresh(kind, q) : RowPos(kind, r) = ps[i]
      BY <1>7, <1>10, <3>1 DEF PageHolds
    <3>3. /\ r \in ever /\ Listed(kind, r) /\ After(kind, q, RowPos(kind, r))
          /\ RowPos(kind, r) \in Spots(kind)
      BY <1>1, <3>2, FreshFacts
    <3>4. RowPos(kind, r) = r.name /\ HasPart(ps[i], Ask.needle) /\ r.t = "n"
      BY <3>1, <3>3 DEF RowPos, Listed, kind
    <3>5. Wanted(kind, r)
      BY <3>2, <3>4 DEF Wanted, kind
    <3>6. Later(kind, tok, walk.from)
      BY <1>1 DEF WalkInv, WalkOK, Forward, tok
    <3>7. After(kind, walk.from, RowPos(kind, r))
      BY <1>4, <3>3, <3>6 DEF Later
    <3>. QED  BY <1>1, <3>1, <3>2, <3>3, <3>5, <3>7 DEF DueFor, kind
  <2>. QED  BY <1>2, <1>4, <1>9, <1>11, <2>1, JoinRest
<1>17. ASSUME np # None PROVE Behind(kind, all, np) /\ Later(kind, np, tok)
  <2>1. Behind(kind, items, np)
    BY <1>4, <1>8, <1>17 DEF Behind, Later
  <2>2. Later(kind, np, tok)
    BY <1>4, <1>8, <1>17 DEF Later
  <2>. QED  BY <1>2, <1>9, <1>11, <1>17, <2>1, <2>2, JoinRest
<1>18. ASSUME NEW r \in Owed(walk, stable, ever)
       PROVE  \/ Shows(kind, seen, r) \/ Shows(kind, all, r)
              \/ np # None /\ After(kind, np, RowPos(kind, r))
  <2>1. Shows(kind, items, r) \/ Shows(kind, hits, r) => Shows(kind, all, r)
    BY <1>2, <1>9, <1>11, JoinRest
  <2>2. ASSUME After(kind, q, RowPos(kind, r))
        PROVE  Shows(kind, hits, r) \/ (np # None /\ After(kind, np, RowPos(kind, r)))
    <3>1. r \in Fresh(kind, q)
      BY <1>1, <2>2, OwedFresh
    <3>2. \/ \E i \in 1..Len(ps) : RowPos(kind, r) = ps[i]
          \/ np # None /\ After(kind, np, RowPos(kind, r))
      BY <1>7, <3>1 DEF PageHolds
    <3>3. ASSUME NEW i \in 1..Len(ps), RowPos(kind, r) = ps[i] PROVE Shows(kind, hits, r)
      <4>1. Wanted(kind, r)
        BY <1>1 DEF Owed, DueFor
      <4>2. HasPart(ps[i], Ask.needle)
        BY <3>3, <4>1 DEF Wanted, RowPos, kind
      <4>3. i \in I
        BY <4>2
      <4>. QED  BY <1>11, <3>3, <4>3 DEF Shows
    <3>. QED  BY <3>2, <3>3
  <2>. QED  BY <1>4, <2>1, <2>2
<1>19. Gathered(walk, seen, stable, ever, all, np)
  <2>1. Reaches(walk, seen, stable, ever, all, np)
    BY <1>1, <1>18 DEF Reaches
  <2>. QED  BY <1>1, <1>8, <1>12, <1>14, <1>15, <1>16, <1>17, <2>1 DEF Gathered, tok
<1>. QED  BY <1>8, <1>9, <1>19 DEF kind, items

\* A step of a search.
LEMMA SearchScanStep ==
    ASSUME WalkInv, SearchScan
    PROVE  WalkInv'
<1>. DEFINE kind == "search"
<1>1. /\ walk.pc = "scan" /\ walk.kind = kind /\ kind \in Kind /\ walk \in Walks(kind)
      /\ seen \in Seq(Spots(kind)) /\ StoreOK /\ walk.page = <<>>
      /\ UNCHANGED <<rows, stable, ever, writes>>
  BY DEF WalkInv, WalkOK, Held, SearchScan
<1>2. walk.n \in Ns /\ walk.token \in Tokens(kind) /\ walk.examined \in Nat
  BY <1>1, WalkFields
<1>3. PICK limit : limit = Limit /\ limit = LimitOf(kind, walk.n)
  BY <1>1 DEF Limit
<1>4. limit \in Nat /\ limit > 0 /\ limit <= MaxPage
  <2>1. /\ limit \in Nat /\ limit <= MaxPage /\ (limit = 0 <=> ExplicitZero(kind, walk.n))
    BY <1>2, <1>3, LimitFacts
  <2>2. ~ExplicitZero(kind, walk.n)
    BY DEF ExplicitZero, UnderV2
  <2>. QED  BY <2>1, <2>2
<1>5. PICK step : step = StepSize /\ step \in Nat /\ step > 0
  <2>1. walk.examined < SearchCeiling
    BY <1>1 DEF WalkInv, WalkOK, ScanInv
  <2>2. SearchCeiling - walk.examined \in Nat /\ SearchCeiling - walk.examined > 0
    BY <1>2, <2>1, Bounds
  <2>. QED  BY <2>2, Bounds DEF StepSize, Smaller
<1>6. PICK page, ps, np, I, all :
         /\ page = Scan(AllKeys, repos_by_name, walk.at, step)
         /\ ps = ReadOff(kind, page.keys) /\ np = NextOf(kind, page)
         /\ I = {i \in 1..Len(ps) : HasPart(ps[i], Ask.needle)}
         /\ all = walk.items \o AtPlaces(ps, I)
  OBVIOUS
<1>7. ps = Positions(page.keys) /\ np = NextPos(page)
  BY <1>1, <1>6 DEF Positions, ReadOff, NextOf, NextPos
<1>8. LET examined == walk.examined + Len(page.keys) IN
       \/ /\ Len(all) > limit
          /\ Respond(SubSeq(all, 1, limit), all[limit], FALSE)
       \/ /\ Len(all) <= limit /\ page.next = None
          /\ Respond(all, None, FALSE)
       \/ /\ Len(all) <= limit /\ page.next # None /\ examined >= SearchCeiling
          /\ Respond(all, np, FALSE)
       \/ /\ Len(all) <= limit /\ page.next # None /\ examined < SearchCeiling
          /\ Continue([walk EXCEPT !.items = all, !.examined = examined, !.at = page.next])
  BY <1>3, <1>5, <1>6, <1>7 DEF SearchScan, Stopped
<1>9. /\ Gathered(walk, seen, stable, ever, all, np)
      /\ np = None <=> page.next = None
      /\ np # None => page.next = CursorAt(kind, np)
      /\ Len(page.keys) = Len(ps) /\ ps \in Seq(Spots(kind))
  BY <1>1, <1>5, <1>6, SearchGathers, ZenonT(40)
<1>. HIDE DEF kind
<1>10. /\ all \in Seq(Spots(kind)) /\ np \in Spots(kind) \cup {None}
       /\ Ascends(kind, all) /\ Beyond(kind, all, walk.token) /\ Found(walk, stable, ever, all)
       /\ np # None => Behind(kind, all, np) /\ Later(kind, np, walk.token)
       /\ Reaches(walk, seen, stable, ever, all, np)
  BY <1>1, <1>9 DEF Gathered
<1>11. kind # "count"
  BY DEF kind
<1>12. CASE Len(all) > limit /\ Respond(SubSeq(all, 1, limit), all[limit], FALSE)
  <2>1. limit \in 1..Len(all)
    BY <1>4, <1>10, <1>12
  <2>2. PICK u, q : u = SubSeq(all, 1, limit) /\ q = all[limit]
    OBVIOUS
  <2>3. /\ u \in Seq(Spots(kind)) /\ Len(u) = limit /\ \A i \in 1..limit : u[i] = all[i]
        /\ Ascends(kind, u) /\ Beyond(kind, u, walk.token) /\ Found(walk, stable, ever, u)
    BY <1>10, <2>1, <2>2, Taken
  <2>4. u # <<>> /\ u[Len(u)] = q
    <3>1. limit \in 1..limit /\ Len(u) # 0
      BY <1>4, <2>3
    <3>. QED  BY <2>2, <2>3, <3>1
  <2>5. q \in Spots(kind) /\ q # None /\ Behind(kind, u, q) /\ Later(kind, q, walk.token)
    BY <1>1, <1>2, <2>3, <2>4, LastBehind
  <2>6. Servable(walk, stable, ever, u, q)
    BY <1>1, <2>3, <2>5 DEF Servable
  <2>7. Reaches(walk, seen, stable, ever, u, q)
    <3>. SUFFICES ASSUME NEW r \in Owed(walk, stable, ever), ~Shows(kind, seen, r)
                  PROVE  Shows(kind, u, r) \/ After(kind, q, RowPos(kind, r))
      BY <1>1, <2>5 DEF Reaches
    <3>1. r \in Universe[kind] /\ Listed(kind, r)
      BY <1>1, DueListed DEF Owed, DueFor, StoreOK
    <3>2. RowPos(kind, r) \in Spots(kind)
      BY <3>1 DEF Spots
    <3>3. Precedes(kind, q, RowPos(kind, r)) => After(kind, q, RowPos(kind, r))
      BY <1>1, <2>5, <3>2, SpotFacts, PosOrder
    <3>4. CASE Shows(kind, all, r)
      <4>1. PICK i \in 1..Len(all) : all[i] = RowPos(kind, r)
        BY <3>4 DEF Shows
      <4>2. CASE i <= limit
        <5>1. i \in 1..limit
          BY <1>4, <4>2
        <5>. QED  BY <2>3, <4>1, <5>1 DEF Shows
      <4>3. CASE limit < i
        BY <1>10, <2>1, <2>2, <3>3, <4>1, <4>3 DEF Ascends
      <4>. QED  BY <1>4, <4>2, <4>3
    <3>5. CASE np # None /\ After(kind, np, RowPos(kind, r))
      <4>1. Precedes(kind, all[limit], RowPos(kind, r))
        BY <1>10, <2>1, <3>2, <3>5 DEF Behind
      <4>. QED  BY <2>2, <3>3, <4>1
    <3>. QED  BY <1>1, <1>10, <3>4, <3>5 DEF Reaches
  <2>8. Respond(u, q, FALSE)
    BY <1>12, <2>2
  <2>. QED  BY <1>1, <1>11, <2>6, <2>7, <2>8, Response
<1>13. CASE page.next = None /\ Respond(all, None, FALSE)
  <2>1. np = None
    BY <1>9, <1>13
  <2>2. Servable(walk, stable, ever, all, np)
    BY <1>1, <1>10 DEF Servable
  <2>. QED  BY <1>1, <1>10, <1>11, <1>13, <2>1, <2>2, Response
<1>14. CASE Respond(all, np, FALSE)
  <2>1. Servable(walk, stable, ever, all, np)
    BY <1>1, <1>10 DEF Servable
  <2>. QED  BY <1>1, <1>10, <1>11, <1>14, <2>1, Response
<1>15. ASSUME NEW examined, examined = walk.examined + Len(page.keys), Len(all) <= limit,
              page.next # None, examined < SearchCeiling,
              Continue([walk EXCEPT !.items = all, !.examined = examined, !.at = page.next])
       PROVE  WalkInv'
  <2>1. np # None /\ np \in Spots(kind) /\ page.next = CursorAt(kind, np)
    BY <1>9, <1>10, <1>15 DEF kind
  <2>2. examined \in Nat /\ Len(all) \in Nat
    BY <1>2, <1>9, <1>10, <1>15
  <2>3. page.next \in Seq(Byte) \cup {None}
    BY <1>1, <2>1, SpotFacts, CursorKey
  <2>4. PICK c : c = page.next
    OBVIOUS
  <2>5. PICK x : x = [walk EXCEPT !.items = all, !.examined = examined, !.at = c]
    OBVIOUS
  <2>6. /\ x \in Walks(kind) /\ x.kind = kind /\ x.n = walk.n /\ x.from = walk.from
        /\ x.token = walk.token /\ x.pc = "scan" /\ x.page = walk.page /\ x.items = all /\ x.at = c
        /\ x.examined = examined
    BY <1>1, <1>10, <2>2, <2>3, <2>4, <2>5 DEF Walks
  <2>7. Held(x, seen)
    <3>1. Len(x.page) + Len(x.items) <= MaxPage
      <4>1. Len(x.page) = 0
        BY <1>1, <2>6
      <4>. QED  BY <1>4, <1>15, <2>2, <2>6, <4>1, Bounds
    <3>. QED  BY <1>1, <2>6, <3>1 DEF Held, kind
  <2>8. Forward(x, seen, stable, ever)
    <3>1. Found(x, stable, ever, seen) <=> Found(walk, stable, ever, seen)
      BY <1>1, <2>6, SameQuestion
    <3>. QED  BY <1>1, <2>6, <3>1 DEF WalkInv, WalkOK, Forward
  <2>9. ScanAt(x, seen, stable, ever, np)
    <3>1. /\ Owed(x, stable, ever) = Owed(walk, stable, ever)
          /\ Found(x, stable, ever, all)
      BY <1>1, <1>10, <2>6, SameQuestion
    <3>2. \A r \in Owed(walk, stable, ever) :
             \/ Shows(kind, seen, r) \/ Shows(kind, all, r) \/ After(kind, np, RowPos(kind, r))
      BY <1>1, <1>10 DEF Reaches
    <3>. QED  BY <1>10, <2>1, <2>4, <2>6, <3>1, <3>2 DEF ScanAt
  <2>10. ScanInv(x, seen, stable, ever)
    BY <1>3, <1>15, <2>1, <2>6, <2>9 DEF ScanInv
  <2>11. /\ ReadyInv(x, seen, stable, ever) /\ LookupInv(x, seen, stable, ever)
         /\ TallyInv(x, stable, ever) /\ Ended(x, seen, stable, ever) /\ Tallied(x, stable, ever)
    BY <2>6 DEF ReadyInv, LookupInv, TallyInv, Ended, Tallied
  <2>12. WalkOK(x, seen, stable, ever)
    BY <2>7, <2>8, <2>10, <2>11 DEF WalkOK
  <2>13. Continue(x)
    BY <1>15, <2>4, <2>5
  <2>. QED  BY <1>1, <2>6, <2>12, <2>13, Continued
<1>. QED  BY <1>8, <1>12, <1>13, <1>14, <1>15
----------------------------------------------------------------------------
(* The tally.                                                              *)

\* Counting two sets apart, and together.
LEMMA Parts ==
    ASSUME NEW U, IsFiniteSet(U), NEW A \in SUBSET U, NEW B \in SUBSET U, NEW C \in SUBSET U
    PROVE  /\ Cardinality(A) \in Nat /\ Cardinality(B) \in Nat /\ Cardinality(C) \in Nat
           /\ C \subseteq A \cup B => Cardinality(C) <= Cardinality(A) + Cardinality(B)
           /\ A \cup B \subseteq C /\ A \cap B = {}
                => Cardinality(A) + Cardinality(B) <= Cardinality(C)
<1>1. IsFiniteSet(A) /\ IsFiniteSet(B) /\ IsFiniteSet(C)
  BY FS_Subset
<1>2. Cardinality(A) \in Nat /\ Cardinality(B) \in Nat /\ Cardinality(C) \in Nat
  BY <1>1, FS_CardinalityType
<1>3. /\ IsFiniteSet(A \cup B)
      /\ Cardinality(A \cup B) = Cardinality(A) + Cardinality(B) - Cardinality(A \cap B)
  BY <1>1, FS_Union
<1>4. Cardinality(A \cap B) \in Nat /\ Cardinality(A \cup B) \in Nat
  <2>1. IsFiniteSet(A \cap B)
    BY <1>1, FS_Subset
  <2>. QED  BY <1>3, <2>1, FS_CardinalityType
<1>5. ASSUME C \subseteq A \cup B PROVE Cardinality(C) <= Cardinality(A) + Cardinality(B)
  <2>1. Cardinality(C) <= Cardinality(A \cup B)
    BY <1>3, <1>5, FS_Subset
  <2>. QED  BY <1>2, <1>3, <1>4, <2>1
<1>6. ASSUME A \cup B \subseteq C, A \cap B = {}
      PROVE  Cardinality(A) + Cardinality(B) <= Cardinality(C)
  <2>1. Cardinality(A \cup B) <= Cardinality(C)
    BY <1>1, <1>6, FS_Subset
  <2>2. Cardinality(A \cap B) = 0
    BY <1>6, FS_EmptySet
  <2>. QED  BY <1>2, <1>3, <1>4, <2>1, <2>2
<1>. QED  BY <1>2, <1>5, <1>6

\* What a page adds to a tally that has come to q.
Adds(q, page, np) ==
    LET n == Len(page.keys) IN
    /\ n \in Nat
    /\ page.next = None => /\ Counted(stable) <= Cardinality(Passed(stable, q)) + n
                           /\ Cardinality(Passed(ever, q)) + n <= Counted(ever)
    /\ page.next # None =>
          /\ np \in Spots("count") /\ Cardinality(Passed(ever, q)) + n < Counted(ever)
          /\ Cardinality(Passed(stable, np)) <= Cardinality(Passed(stable, q)) + n
          /\ Cardinality(Passed(ever, q)) + n <= Cardinality(Passed(ever, np))

\* A page of a tally counts every row between the old position and the new once.
LEMMA TallyPage ==
    ASSUME "count" \in Kind, walk.kind = "count", StoreOK, NEW q \in Tokens("count"),
           NEW page, page = Scan(AllKeys, RangeOf("count"), CursorAt("count", q), CountStep)
    PROVE  Adds(q, page, PosOf("count", page.next))
<1>. DEFINE kind == "count"
            F == Fresh(kind, q)
            U == Universe[kind]
            n == Len(page.keys)
            ps == ReadOff(kind, page.keys)
            np == NextOf(kind, page)
            listed(R) == {r \in R : Listed(kind, r)}
<1>1. /\ kind \in Kind /\ rows \subseteq U /\ stable \subseteq rows /\ rows \subseteq ever
      /\ ever \subseteq U /\ IsFiniteSet(U)
  BY AskAssumption DEF StoreOK
<1>2. CountStep \in Nat /\ CountStep > 0
  BY Bounds
<1>. HIDE DEF U, kind
<1>3. PICK rs : PageRows(kind, q, CountStep, page, rs)
  BY <1>1, <1>2, PageExact DEF kind, U
<1>4. PageHolds(kind, q, CountStep, page, ps, np)
  <2>1. kind \in Kind /\ rows \subseteq Universe[kind] /\ q \in Tokens(kind)
        /\ page = Scan(AllKeys, RangeOf(kind), CursorAt(kind, q), CountStep)
    BY <1>1 DEF kind, U
  <2>. QED  BY ONLY <1>2, <2>1, PagePositions
<1>5. /\ rs \in Seq(F) /\ Len(rs) = n /\ n \in Nat
      /\ \A i \in 1..n : PosOf(kind, page.keys[i]) = RowPos(kind, rs[i])
      /\ \A i, h \in 1..n : i < h => Precedes(kind, RowPos(kind, rs[i]), RowPos(kind, rs[h]))
      /\ n = IF Cardinality(F) > CountStep THEN CountStep ELSE Cardinality(F)
      /\ page.next = None <=> Cardinality(F) <= CountStep
  <2>1. rs \in Seq(F) /\ Len(rs) = n
    BY <1>3 DEF PageRows
  <2>. QED  BY <1>3, <2>1 DEF PageRows
<1>6. /\ F \in SUBSET U /\ F \subseteq rows /\ Cardinality(F) \in Nat
      /\ \A r \in F : Listed(kind, r) /\ After(kind, q, RowPos(kind, r))
      /\ \A r \in F : RowPos(kind, r) \in Spots(kind)
  <2>1. /\ F \in SUBSET U /\ F \subseteq rows
        /\ \A r \in F : Listed(kind, r) /\ After(kind, q, RowPos(kind, r))
    BY <1>1 DEF Fresh
  <2>2. Cardinality(F) \in Nat
    BY <1>1, <2>1, FS_Subset, FS_CardinalityType
  <2>. QED  BY <2>1, <2>2 DEF Spots, U
<1>7. \A i \in 1..n : rs[i] \in F /\ ps[i] = RowPos(kind, rs[i])
  BY <1>5 DEF ReadOff
<1>8. \A R, t : Passed(R, t) = {r \in R : Listed(kind, r) /\ ~After(kind, t, RowPos(kind, r))}
  BY DEF Passed, kind
<1>9. \A R : Counted(R) = Cardinality(listed(R))
  BY DEF Counted, kind
<1>. HIDE DEF F, n, ps, np
<1>10. Cardinality(Passed(ever, q)) + Cardinality(F) <= Counted(ever)
  <2>1. Passed(ever, q) \in SUBSET U /\ listed(ever) \in SUBSET U
    BY <1>1, <1>8
  <2>2. Passed(ever, q) \cup F \subseteq listed(ever) /\ Passed(ever, q) \cap F = {}
    BY <1>1, <1>6, <1>8
  <2>. QED  BY <1>1, <1>6, <1>9, <2>1, <2>2, Parts
<1>11. Counted(stable) <= Cardinality(Passed(stable, q)) + Cardinality(F)
  <2>1. Passed(stable, q) \in SUBSET U /\ listed(stable) \in SUBSET U
    BY <1>1, <1>8
  <2>2. listed(stable) \subseteq Passed(stable, q) \cup F
    BY <1>1, <1>8 DEF F, Fresh
  <2>. QED  BY <1>1, <1>6, <1>9, <2>1, <2>2, Parts
<1>12. Cardinality(Passed(ever, q)) \in Nat
  <2>1. Passed(ever, q) \in SUBSET U
    BY <1>1, <1>8
  <2>. QED  BY <1>1, <2>1, FS_Subset, FS_CardinalityType
<1>13. Counted(ever) \in Nat
  <2>1. listed(ever) \in SUBSET U
    BY <1>1
  <2>. QED  BY <1>1, <1>9, <2>1, FS_Subset, FS_CardinalityType
<1>14. CASE page.next = None
  <2>1. n = Cardinality(F)
    BY <1>2, <1>5, <1>6, <1>14
  <2>. QED  BY <1>5, <1>10, <1>11, <1>14, <2>1 DEF Adds, n
<1>15. CASE page.next # None
  <2>1. n < Cardinality(F)
    BY <1>2, <1>5, <1>6, <1>15
  <2>2. Cardinality(Passed(ever, q)) + n < Counted(ever)
    BY <1>5, <1>6, <1>10, <1>12, <1>13, <2>1
  <2>3. /\ np # None /\ np \in Spots(kind) /\ Behind(kind, ps, np) /\ Later(kind, np, q)
        /\ Len(ps) = n /\ \A r \in F : (\E i \in 1..n : rs[i] = r) \/ After(kind, np, RowPos(kind, r))
    <3>1. /\ np # None /\ np \in Spots(kind) /\ Behind(kind, ps, np) /\ Later(kind, np, q)
          /\ Len(ps) = n
      BY <1>4, <1>15 DEF PageHolds, n
    <3>2. /\ page.next = page.keys[CountStep] /\ n = CountStep
          /\ \A r \in F : \/ \E i \in 1..n : rs[i] = r
                          \/ Precedes(kind, RowPos(kind, rs[CountStep]), RowPos(kind, r))
      BY <1>3, <1>5, <1>15 DEF PageRows, F
    <3>3. CountStep \in 1..n
      BY <1>2, <3>2
    <3>4. np = RowPos(kind, rs[CountStep])
      BY <1>5, <1>15, <3>2, <3>3 DEF np, NextOf
    <3>5. ASSUME NEW r \in F, Precedes(kind, RowPos(kind, rs[CountStep]), RowPos(kind, r))
          PROVE  After(kind, np, RowPos(kind, r))
      BY <1>1, <1>6, <3>1, <3>4, <3>5, SpotFacts, PosOrder
    <3>. QED  BY <3>1, <3>2, <3>5
  <2>. DEFINE G == {rs[i] : i \in 1..n}
  <2>4. G \in SUBSET F /\ Cardinality(G) = n
    <3>1. G \in SUBSET F
      BY <1>7
    <3>. DEFINE f == [i \in 1..n |-> rs[i]]
    <3>2. ASSUME NEW i \in 1..n, NEW h \in 1..n, rs[i] = rs[h] PROVE i = h
      <4>1. RowPos(kind, rs[i]) \in Pos(kind)
        BY <1>1, <1>6, <1>7, SpotFacts
      <4>2. ~Precedes(kind, RowPos(kind, rs[i]), RowPos(kind, rs[h]))
            /\ ~Precedes(kind, RowPos(kind, rs[h]), RowPos(kind, rs[i]))
        BY <1>1, <3>2, <4>1, PosOrder
      <4>3. ~(i < h) /\ ~(h < i)
        BY <1>5, <4>2
      <4>. QED  BY <1>5, <4>3
    <3>3. f \in [1..n -> G] /\ (\A x, y \in 1..n : f[x] = f[y] => x = y)
          /\ \A t \in G : \E s \in 1..n : f[s] = t
      BY <3>2
    <3>. HIDE DEF f, G
    <3>4. f \in Injection(1..n, G) /\ f \in Surjection(1..n, G)
      BY <3>3 DEF Injection, IsInjective, Surjection
    <3>5. IsFiniteSet(1..n) /\ Cardinality(1..n) = n
      <4>1. 1 \in Int /\ n \in Int
        BY <1>5
      <4>2. IsFiniteSet(1..n) /\ Cardinality(1..n) = IF 1 > n THEN 0 ELSE n - 1 + 1
        BY ONLY <4>1, FS_Interval
      <4>3. n = IF 1 > n THEN 0 ELSE n - 1 + 1
        BY <1>5
      <4>. QED  BY <4>2, <4>3
    <3>6. Cardinality(G) = Cardinality(1..n)
      BY <3>4, <3>5, FS_Surjection
    <3>. QED  BY <3>1, <3>5, <3>6 DEF G
  <2>. HIDE DEF G
  <2>5. G \in SUBSET U
    BY <1>6, <2>4
  <2>6. Cardinality(Passed(stable, np)) <= Cardinality(Passed(stable, q)) + n
    <3>1. Passed(stable, np) \in SUBSET U /\ Passed(stable, q) \in SUBSET U
      BY <1>1, <1>8
    <3>2. ASSUME NEW r \in Passed(stable, np) PROVE r \in Passed(stable, q) \cup G
      <4>1. r \in stable /\ r \in rows /\ Listed(kind, r) /\ ~After(kind, np, RowPos(kind, r))
        BY <1>1, <1>8, <3>2
      <4>2. CASE After(kind, q, RowPos(kind, r))
        <5>1. r \in F
          BY <4>1, <4>2 DEF F, Fresh
        <5>. QED  BY <2>3, <4>1, <5>1 DEF G
      <4>. QED  BY <1>8, <4>1, <4>2
    <3>. QED  BY <1>1, <2>4, <2>5, <3>1, <3>2, Parts
  <2>7. Cardinality(Passed(ever, q)) + n <= Cardinality(Passed(ever, np))
    <3>1. Passed(ever, np) \in SUBSET U /\ Passed(ever, q) \in SUBSET U
      BY <1>1, <1>8
    <3>2. Passed(ever, q) \cap G = {}
      BY <1>6, <1>8, <2>4
    <3>3. Passed(ever, q) \subseteq Passed(ever, np)
      <4>. SUFFICES ASSUME NEW r \in Passed(ever, q) PROVE ~After(kind, np, RowPos(kind, r))
        BY <1>8
      <4>1. r \in U /\ Listed(kind, r) /\ ~After(kind, q, RowPos(kind, r))
        BY <1>1, <1>8
      <4>2. RowPos(kind, r) \in Spots(kind)
        BY <4>1 DEF Spots, U
      <4>. QED  BY <2>3, <4>1, <4>2 DEF Later
    <3>4. G \subseteq Passed(ever, np)
      <4>. SUFFICES ASSUME NEW i \in 1..n PROVE rs[i] \in Passed(ever, np)
        BY DEF G
      <4>1. rs[i] \in ever /\ Listed(kind, rs[i]) /\ RowPos(kind, rs[i]) \in Spots(kind)
        BY <1>1, <1>6, <1>7
      <4>2. ASSUME After(kind, np, RowPos(kind, rs[i])) PROVE FALSE
        <5>1. Precedes(kind, ps[i], RowPos(kind, rs[i])) /\ ps[i] = RowPos(kind, rs[i])
          BY <1>7, <2>3, <4>1, <4>2 DEF Behind
        <5>. QED  BY <1>1, <4>1, <5>1, SpotFacts, PosOrder
      <4>. QED  BY <1>8, <4>1, <4>2
    <3>. QED  BY <1>1, <2>4, <2>5, <3>1, <3>2, <3>3, <3>4, Parts
  <2>8. np = PosOf("count", page.next)
    BY <1>15 DEF np, NextOf, kind
  <2>. QED  BY <1>5, <1>15, <2>2, <2>3, <2>6, <2>7, <2>8 DEF Adds, n, kind
<1>. QED  BY <1>14, <1>15

\* A step of a tally.
LEMMA CountScanStep ==
    ASSUME WalkInv, CountScan
    PROVE  WalkInv'
<1>. DEFINE kind == "count"
<1>1. /\ walk.pc = "ready" /\ walk.kind = kind /\ kind \in Kind /\ walk \in Walks(kind)
      /\ seen \in Seq(Spots(kind)) /\ StoreOK /\ walk.page = <<>>
      /\ UNCHANGED <<rows, stable, ever, writes>>
      /\ Len(walk.page) + Len(walk.items) <= MaxPage
  BY DEF WalkInv, WalkOK, Held, CountScan, Counting
<1>2. walk.count \in Nat
  BY <1>1, WalkFields
<1>3. PICK q \in Spots(kind) \cup {None} : TallyAt(walk, stable, ever, q)
  BY <1>1 DEF WalkInv, WalkOK, TallyInv
<1>4. /\ walk.at = CursorAt(kind, q) /\ Cardinality(Passed(stable, q)) <= walk.count
      /\ walk.count <= Cardinality(Passed(ever, q))
  BY <1>3 DEF TallyAt
<1>5. q \in Tokens(kind)
  BY <1>1, <1>3, SpotFacts DEF Tokens
<1>6. PICK page, n, count, np :
         /\ page = Scan(AllKeys, RangeOf(kind), walk.at, CountStep) /\ n = Len(page.keys)
         /\ count = walk.count + n /\ np = PosOf(kind, page.next)
  OBVIOUS
<1>7. IF page.next = None \/ CountedOut(count, page.next)
      THEN Continue([walk EXCEPT !.pc = "done", !.count = count,
                                 !.complete = ~CountedOut(count, page.next)])
      ELSE Continue([walk EXCEPT !.count = count, !.at = CursorAt(kind, np)])
  BY <1>1, <1>6 DEF CountScan
<1>8. Adds(q, page, np)
  BY <1>1, <1>4, <1>5, <1>6, TallyPage
<1>9. /\ n \in Nat
      /\ page.next = None => /\ Counted(stable) <= Cardinality(Passed(stable, q)) + n
                             /\ Cardinality(Passed(ever, q)) + n <= Counted(ever)
      /\ page.next # None =>
            /\ np \in Spots(kind) /\ Cardinality(Passed(ever, q)) + n < Counted(ever)
            /\ Cardinality(Passed(stable, np)) <= Cardinality(Passed(stable, q)) + n
            /\ Cardinality(Passed(ever, q)) + n <= Cardinality(Passed(ever, np))
  BY <1>6, <1>8 DEF Adds
<1>10. ASSUME NEW R \in SUBSET ever
       PROVE  /\ Counted(R) \in Nat /\ \A t : Cardinality(Passed(R, t)) \in Nat
  <2>1. IsFiniteSet(Universe[kind])
    BY <1>1, AskAssumption
  <2>2. R \subseteq Universe[kind]
    BY <1>1 DEF StoreOK
  <2>3. {r \in R : Listed("count", r)} \subseteq Universe[kind]
    BY <2>2
  <2>4. \A t : Passed(R, t) \subseteq Universe[kind]
    BY <2>2 DEF Passed
  <2>. QED  BY <2>1, <2>3, <2>4, FS_Subset, FS_CardinalityType DEF Counted
<1>11. stable \in SUBSET ever /\ ever \in SUBSET ever
  BY <1>1 DEF StoreOK
<1>12. /\ Counted(stable) \in Nat /\ Counted(ever) \in Nat /\ count \in Nat
       /\ Cardinality(Passed(stable, q)) \in Nat /\ Cardinality(Passed(ever, q)) \in Nat
       /\ Cardinality(Passed(stable, np)) \in Nat /\ Cardinality(Passed(ever, np)) \in Nat
  BY <1>2, <1>6, <1>9, <1>10, <1>11
<1>13. Ascends(kind, seen) /\ Found(walk, stable, ever, seen)
       /\ Behind(kind, seen, walk.token) /\ Later(kind, walk.token, walk.from)
  BY <1>1 DEF WalkInv, WalkOK, Forward
<1>14. Excused(walk)
  BY <1>1 DEF Excused, Counting
<1>15. CASE page.next = None \/ CountedOut(count, page.next)
  <2>1. PICK c : c = ~CountedOut(count, page.next) /\ c \in BOOLEAN
    BY DEF CountedOut
  <2>2. PICK x : x = [walk EXCEPT !.pc = "done", !.count = count, !.complete = c]
    OBVIOUS
  <2>3. Continue(x)
    BY <1>7, <1>15, <2>1, <2>2
  <2>4. /\ x \in Walks(kind) /\ x.kind = kind /\ x.n = walk.n /\ x.from = walk.from
        /\ x.token = walk.token /\ x.pc = "done" /\ x.page = walk.page /\ x.items = walk.items
        /\ x.count = count /\ x.complete = c
    BY <1>1, <1>12, <2>1, <2>2 DEF Walks
  <2>5. Held(x, seen)
    BY <1>1, <2>4 DEF Held
  <2>6. Excused(x) /\ Found(x, stable, ever, seen)
    BY <1>1, <1>13, <1>14, <2>4, SameQuestion
  <2>7. Forward(x, seen, stable, ever)
    BY <1>13, <2>4, <2>6 DEF Forward
  <2>8. Tallied(x, stable, ever)
    <3>1. CASE CountedOut(count, page.next)
      <4>1. page.next # None /\ count >= CountCeiling /\ ~c
        BY <2>1, <3>1 DEF CountedOut
      <4>2. CountCeiling <= count /\ CountCeiling < Counted(ever)
        <5>1. PICK P, C : P = Cardinality(Passed(ever, q)) /\ C = Counted(ever)
          OBVIOUS
        <5>2. /\ P \in Nat /\ C \in Nat /\ P + n < C /\ walk.count <= P /\ n \in Nat
              /\ walk.count \in Nat /\ count = walk.count + n /\ CountCeiling \in Nat
              /\ count >= CountCeiling
          BY <1>2, <1>4, <1>6, <1>9, <1>12, <4>1, <5>1, Bounds
        <5>3. CountCeiling <= count /\ CountCeiling < C
          BY ONLY <5>2
        <5>. QED  BY <5>1, <5>3
      <4>. QED  BY <2>4, <4>1, <4>2 DEF Tallied
    <3>2. CASE ~CountedOut(count, page.next)
      <4>1. page.next = None /\ c
        BY <1>15, <2>1, <3>2
      <4>2. Counted(stable) <= count /\ count <= Counted(ever)
        BY <1>2, <1>4, <1>6, <1>9, <1>12, <4>1, SMTT(20)
      <4>. QED  BY <2>4, <4>1, <4>2 DEF Tallied
    <3>. QED  BY <3>1, <3>2
  <2>9. /\ ReadyInv(x, seen, stable, ever) /\ LookupInv(x, seen, stable, ever)
        /\ ScanInv(x, seen, stable, ever) /\ TallyInv(x, stable, ever)
        /\ Ended(x, seen, stable, ever)
    BY <2>4, <2>6 DEF ReadyInv, LookupInv, ScanInv, TallyInv, Ended
  <2>10. WalkOK(x, seen, stable, ever)
    BY <2>5, <2>7, <2>8, <2>9 DEF WalkOK
  <2>. QED  BY <1>1, <2>3, <2>4, <2>10, Continued
<1>16. CASE ~(page.next = None \/ CountedOut(count, page.next))
  <2>1. page.next # None /\ np \in Spots(kind)
    BY <1>9, <1>16
  <2>2. PICK c : c = CursorAt(kind, np) /\ c \in Seq(Byte) \cup {None}
    BY <1>1, <2>1, SpotFacts, CursorKey
  <2>3. PICK x : x = [walk EXCEPT !.count = count, !.at = c]
    OBVIOUS
  <2>4. Continue(x)
    BY <1>7, <1>16, <2>2, <2>3
  <2>5. /\ x \in Walks(kind) /\ x.kind = kind /\ x.n = walk.n /\ x.from = walk.from
        /\ x.token = walk.token /\ x.pc = "ready" /\ x.page = walk.page /\ x.items = walk.items
        /\ x.count = count /\ x.at = c
    BY <1>1, <1>12, <2>2, <2>3 DEF Walks
  <2>6. Held(x, seen)
    BY <1>1, <2>5 DEF Held
  <2>7. Excused(x) /\ Found(x, stable, ever, seen)
    BY <1>1, <1>13, <1>14, <2>5, SameQuestion
  <2>8. Forward(x, seen, stable, ever)
    BY <1>13, <2>5, <2>7 DEF Forward
  <2>9. TallyAt(x, stable, ever, np)
    <3>1. Cardinality(Passed(stable, np)) <= count /\ count <= Cardinality(Passed(ever, np))
      BY <1>2, <1>4, <1>6, <1>9, <1>12, <2>1, SMTT(20)
    <3>. QED  BY <2>2, <2>5, <3>1 DEF TallyAt
  <2>10. TallyInv(x, stable, ever)
    BY <2>1, <2>9 DEF TallyInv
  <2>11. /\ ReadyInv(x, seen, stable, ever) /\ LookupInv(x, seen, stable, ever)
         /\ ScanInv(x, seen, stable, ever) /\ Tallied(x, stable, ever)
         /\ Ended(x, seen, stable, ever)
    BY <2>5, <2>7 DEF ReadyInv, LookupInv, ScanInv, Tallied, Ended
  <2>12. WalkOK(x, seen, stable, ever)
    BY <2>6, <2>8, <2>10, <2>11 DEF WalkOK
  <2>. QED  BY <1>1, <2>4, <2>5, <2>12, Continued
<1>. QED  BY <1>15, <1>16
----------------------------------------------------------------------------
(* The walk keeps its invariant.                                           *)

\* A walk begins in it.
LEMMA WalkBegins ==
    ASSUME Init
    PROVE  WalkInv
<1>1. PICK kind \in Kind, n \in Ns : \E from \in {None} \cup Start[kind] :
        /\ rows \in SUBSET Universe[kind]
        /\ walk = [kind |-> kind, n |-> n, from |-> from, token |-> from, pc |-> "ready",
                   page |-> <<>>, items |-> <<>>, more |-> None, examined |-> 0,
                   at |-> None, count |-> 0, complete |-> FALSE, cut |-> FALSE]
        /\ seen = <<>>
        /\ stable = rows /\ ever = rows
        /\ writes = 0
  BY DEF Init
<1>2. PICK from \in {None} \cup Start[kind] :
        /\ rows \in SUBSET Universe[kind]
        /\ walk = [kind |-> kind, n |-> n, from |-> from, token |-> from, pc |-> "ready",
                   page |-> <<>>, items |-> <<>>, more |-> None, examined |-> 0,
                   at |-> None, count |-> 0, complete |-> FALSE, cut |-> FALSE]
        /\ seen = <<>>
        /\ stable = rows /\ ever = rows
        /\ writes = 0
  BY <1>1
<1>3. from \in Tokens(kind)
  BY AskAssumption DEF Tokens
<1>4. PICK e : e = <<>> /\ e \in Seq(Spots(kind)) /\ Len(e) = 0
  <2>1. <<>> \in Seq(Spots(kind)) /\ Len(<<>>) = 0
    OBVIOUS
  <2>. QED  BY ONLY <2>1
<1>5. /\ walk.kind = kind /\ walk.n = n /\ walk.from = from /\ walk.token = from /\ walk.pc = "ready"
      /\ walk.page = e /\ walk.items = e /\ walk.at = None /\ walk.count = 0
      /\ walk \in Walks(kind)
  BY <1>2, <1>3, <1>4 DEF Walks
<1>6. StoreOK
  BY <1>2, <1>5, Bounds DEF StoreOK
<1>7. Held(walk, seen)
  <2>1. Len(e) + Len(e) <= MaxPage
    BY <1>4, Bounds
  <2>. QED  BY <1>2, <1>4, <1>5, <2>1 DEF Held
<1>8. Forward(walk, seen, stable, ever)
  <2>1. Len(seen) = 0
    BY <1>2
  <2>. QED  BY <1>5, <2>1 DEF Forward, Ascends, Found, Behind, Later
<1>9. ReadyInv(walk, seen, stable, ever)
  BY <1>5 DEF ReadyInv, Owed, DueFor
<1>10. TallyInv(walk, stable, ever)
  <2>. SUFFICES ASSUME kind = "count" PROVE TallyAt(walk, stable, ever, None)
    BY <1>5 DEF TallyInv
  <2>1. \A R : Passed(R, None) = {}
    BY DEF Passed, After
  <2>2. Cardinality({}) = 0
    BY FS_EmptySet
  <2>. QED  BY <1>5, <2>1, <2>2 DEF TallyAt, CursorAt
<1>11. /\ LookupInv(walk, seen, stable, ever) /\ ScanInv(walk, seen, stable, ever)
       /\ Ended(walk, seen, stable, ever) /\ Tallied(walk, stable, ever)
  BY <1>5 DEF LookupInv, ScanInv, Ended, Tallied
<1>. QED  BY <1>6, <1>7, <1>8, <1>9, <1>10, <1>11 DEF WalkInv, WalkOK

\* A writer's step.
LEMMA WroteStep ==
    ASSUME WalkInv, NEW after \in SUBSET Universe[walk.kind], Wrote(after)
    PROVE  WalkInv'
<1>1. /\ writes < MaxWrites /\ walk.pc # "done" /\ writes' = writes + 1 /\ rows' = after
      /\ stable' = stable \cap after /\ ever' = ever \cup after /\ walk' = walk /\ seen' = seen
  BY DEF Wrote
<1>2. /\ stable \subseteq rows /\ rows \subseteq ever /\ ever \subseteq Universe[walk.kind]
      /\ writes \in 0..MaxWrites /\ WalkOK(walk, seen, stable, ever)
  BY DEF WalkInv, StoreOK
<1>3. WalkOK(walk, seen, stable \cap after, ever \cup after)
  <2>1. /\ stable \cap after \subseteq stable /\ ever \subseteq ever \cup after /\ stable \subseteq ever
        /\ ever \cup after \subseteq Universe[walk.kind]
    BY <1>2
  <2>. QED  BY <1>1, <1>2, <2>1, WritesAround
<1>4. WalkOK(walk', seen', stable', ever')
  BY <1>1, <1>3
<1>5. StoreOK'
  <2>1. writes + 1 \in 0..MaxWrites
    BY <1>1, <1>2, Bounds
  <2>. QED  BY <1>1, <1>2, <2>1 DEF StoreOK
<1>. QED  BY <1>4, <1>5 DEF WalkInv

\* Every step of the walk and of the writers around it keeps the invariant.
LEMMA WalkGoesOn ==
    ASSUME WalkInv, [Next]_vars
    PROVE  WalkInv'
<1>. USE DEF OneScan, History, Looked
<1>1. CASE WalkStep
  <2>1. CASE ListTags
    BY <2>1, ReadPageStep DEF ListTags
  <2>2. CASE SearchRepos
    BY <2>2, ReadPageStep DEF SearchRepos
  <2>3. CASE ListManifests
    BY <2>3, ReadPageStep DEF ListManifests
  <2>4. CASE TagsOfManifest
    BY <2>4, ReadPageStep DEF TagsOfManifest
  <2>5. CASE ParentsOfManifest
    BY <2>5, ReadPageStep DEF ParentsOfManifest
  <2>6. CASE Referrers
    BY <2>6, ReadPageStep DEF Referrers
  <2>7. CASE TagHistory
    BY <2>7, ReadPageStep DEF TagHistory
  <2>8. CASE ManifestTagHistory
    BY <2>8, ReadPageStep DEF ManifestTagHistory
  <2>9. CASE TagDetails
    BY <2>9, ReadRowsStep DEF TagDetails
  <2>10. CASE UntaggedManifests
    BY <2>10, ReadRowsStep DEF UntaggedManifests
  <2>11. CASE LookUp
    BY <2>11, LookUpStep
  <2>12. CASE ServeRows
    BY <2>12, ServeRowsStep
  <2>13. CASE SearchStart
    BY <2>13, SearchStartStep
  <2>14. CASE SearchScan
    BY <2>14, SearchScanStep
  <2>15. CASE CountScan
    BY <2>15, CountScanStep
  <2>. QED  BY <1>1, <2>1, <2>2, <2>3, <2>4, <2>5, <2>6, <2>7, <2>8, <2>9, <2>10, <2>11, <2>12,
               <2>13, <2>14, <2>15 DEF WalkStep
<1>2. rows \subseteq Universe[walk.kind]
  BY DEF WalkInv, StoreOK
<1>3. ASSUME NEW r \in Universe[walk.kind], Put(r) PROVE WalkInv'
  <2>1. rows \cup {r} \in SUBSET Universe[walk.kind] /\ Wrote(rows \cup {r})
    BY <1>2, <1>3 DEF Put
  <2>. QED  BY <2>1, WroteStep
<1>4. ASSUME NEW r \in Universe[walk.kind], Drop(r) PROVE WalkInv'
  <2>1. rows \ {r} \in SUBSET Universe[walk.kind] /\ Wrote(rows \ {r})
    BY <1>2, <1>4 DEF Drop
  <2>. QED  BY <2>1, WroteStep
<1>5. ASSUME NEW repo \in Neighbours, Sweep(repo) PROVE WalkInv'
  <2>1. Swept(repo) \subseteq rows
    BY DEF Swept
  <2>2. Swept(repo) \in SUBSET Universe[walk.kind] /\ Wrote(Swept(repo))
    BY <1>2, <1>5, <2>1 DEF Sweep
  <2>. QED  BY <2>2, WroteStep
<1>6. CASE UNCHANGED vars
  <2>1. /\ rows' = rows /\ walk' = walk /\ seen' = seen /\ stable' = stable /\ ever' = ever
        /\ writes' = writes
    BY <1>6 DEF vars
  <2>2. WalkOK(walk', seen', stable', ever')
    BY <2>1 DEF WalkInv
  <2>3. StoreOK'
    BY <2>1 DEF WalkInv, StoreOK
  <2>. QED  BY <2>2, <2>3 DEF WalkInv
<1>. QED  BY <1>1, <1>3, <1>4, <1>5, <1>6 DEF Next, Finished

\* From any cursor a client may name, with any page size and any writes between
\* two scans, a walk keeps its invariant: what it has shown is in order, was asked
\* for and was there, and what was there throughout is shown or still ahead, of
\* the token, of the page being looked up or of the scan under way.
THEOREM WalkInvariant == Spec => []WalkInv
<1>1. Init => WalkInv
  BY WalkBegins
<1>2. WalkInv /\ [Next]_vars => WalkInv'
  BY WalkGoesOn
<1>. QED  BY <1>1, <1>2, PTL DEF Spec
----------------------------------------------------------------------------
(* The in-memory registry.                                                 *)

\* Rows of a listing are put in order by their positions.
RowsOn(kind, F) == {p \in F \X F : Precedes(kind, RowPos(kind, p[1]), RowPos(kind, p[2]))}

\* The order of positions is a strict total order of the rows ahead.
LEMMA RowsOrdered ==
    ASSUME NEW kind \in Kind, rows \subseteq Universe[kind], NEW tok
    PROVE  /\ IsFiniteSet(Fresh(kind, tok))
           /\ Orders(RowsOn(kind, Fresh(kind, tok)), Fresh(kind, tok))
           /\ \A x \in Fresh(kind, tok) : Below(RowsOn(kind, Fresh(kind, tok)), Fresh(kind, tok), x)
                = {s \in Fresh(kind, tok) : Precedes(kind, RowPos(kind, s), RowPos(kind, x))}
<1>. DEFINE F == Fresh(kind, tok)
            R == RowsOn(kind, F)
<1>1. F \subseteq rows /\ F \subseteq Universe[kind] /\ \A r \in F : Listed(kind, r)
  BY DEF Fresh
<1>. HIDE DEF F
<1>2. IsFiniteSet(F)
  BY <1>1, AskAssumption, FS_Subset
<1>3. \A x, y \in F : <<x, y>> \in R <=> Precedes(kind, RowPos(kind, x), RowPos(kind, y))
  BY DEF RowsOn
<1>4. \A p \in R : p \in F \X F
  BY DEF RowsOn
<1>. HIDE DEF R
<1>5. \A x \in F : RowPos(kind, x) \in Pos(kind) /\ CursorAt(kind, RowPos(kind, x)) = KeyOf(x)
  BY <1>1, RowIsCursor
<1>6. \A x, y \in F : x # y => RowPos(kind, x) # RowPos(kind, y)
  BY <1>1, <1>5, KeyAssumption
<1>7. \A x \in F : <<x, x>> \notin R
  BY <1>3, <1>5, PosOrder
<1>8. \A x, y \in F : x # y => <<x, y>> \in R \/ <<y, x>> \in R
  BY <1>3, <1>5, <1>6, PosOrder
<1>9. \A x, y, z \in F : <<x, y>> \in R /\ <<y, z>> \in R => <<x, z>> \in R
  BY <1>3, <1>5, PosTransitive
<1>10. Orders(R, F)
  BY <1>4, <1>7, <1>8, <1>9 DEF Orders
<1>11. \A x \in F : Below(R, F, x) = {s \in F : Precedes(kind, RowPos(kind, s), RowPos(kind, x))}
  BY <1>3 DEF Below
<1>. QED  BY <1>2, <1>10, <1>11 DEF F, R

\* The page the in-memory registry takes is made of the same rows.
LEMMA MemoryExact ==
    ASSUME NEW kind \in Kind, kind # "search", rows \subseteq Universe[kind], NEW tok \in Tokens(kind),
           NEW limit \in Nat, limit > 0, NEW page, NEW rs, PageRows(kind, tok, limit, page, rs)
    PROVE  MemoryRows(kind, tok, limit) = [page |-> rs, more |-> page.next # None]
<1>. DEFINE F == {r \in rows : Wanted(kind, r) /\ After(kind, tok, RowPos(kind, r))}
            N == Cardinality(F)
            n == Len(rs)
            before(r) == {s \in F : Precedes(kind, RowPos(kind, s), RowPos(kind, r))}
            sorted == [i \in 1..N |-> CHOOSE r \in F : Cardinality(before(r)) = i - 1]
<1>1. F = Fresh(kind, tok)
  BY DEF Fresh, Listed
<1>2. MemoryRows(kind, tok, limit)
        = [page |-> SubSeq(sorted, 1, Smaller(limit, Len(sorted))), more |-> Len(sorted) > limit]
  BY DEF MemoryRows
<1>. HIDE DEF F
<1>3. /\ IsFiniteSet(F) /\ Orders(RowsOn(kind, F), F)
      /\ \A x \in F : Below(RowsOn(kind, F), F, x) = before(x)
  BY <1>1, RowsOrdered
<1>4. /\ rs \in Seq(F) /\ \A i \in 1..n : Cardinality(before(rs[i])) = i - 1
      /\ n = IF N > limit THEN limit ELSE N
      /\ page.next = None <=> N <= limit
  BY <1>1 DEF PageRows
<1>5. /\ N \in Nat
      /\ \A x \in F : Cardinality(before(x)) \in 0..N - 1
      /\ \A x, y \in F : <<x, y>> \in RowsOn(kind, F) <=> Cardinality(before(x)) < Cardinality(before(y))
      /\ \A i \in 1..N : \E x \in F : Cardinality(before(x)) = i - 1
  <2>1. PICK R : R = RowsOn(kind, F)
    OBVIOUS
  <2>2. IsFiniteSet(F) /\ Orders(R, F) /\ \A x \in F : Below(R, F, x) = before(x)
    BY <1>3, <2>1
  <2>. HIDE DEF before
  <2>3. /\ N \in Nat
        /\ \A x \in F : Cardinality(Below(R, F, x)) \in 0..N - 1
        /\ \A x, y \in F : <<x, y>> \in R
              <=> Cardinality(Below(R, F, x)) < Cardinality(Below(R, F, y))
        /\ \A i \in 1..N : \E x \in F : Cardinality(Below(R, F, x)) = i - 1
    BY <2>2, Ranks
  <2>4. ASSUME NEW i \in 1..N PROVE \E x \in F : Cardinality(before(x)) = i - 1
    <3>1. PICK x \in F : Cardinality(Below(R, F, x)) = i - 1
      BY <2>3
    <3>. QED  BY <2>2, <3>1
  <2>5. ASSUME NEW x \in F, NEW y \in F
        PROVE  <<x, y>> \in R <=> Cardinality(before(x)) < Cardinality(before(y))
    <3>1. Below(R, F, x) = before(x) /\ Below(R, F, y) = before(y)
      BY <2>2
    <3>. QED  BY <2>3, <3>1
  <2>6. ASSUME NEW x \in F PROVE Cardinality(before(x)) \in 0..N - 1
    <3>1. Below(R, F, x) = before(x)
      BY <2>2
    <3>. QED  BY <2>3, <3>1
  <2>. QED  BY <2>1, <2>3, <2>4, <2>5, <2>6
<1>. HIDE DEF before
<1>6. ASSUME NEW x \in F, NEW y \in F, Cardinality(before(x)) = Cardinality(before(y)) PROVE x = y
  <2>1. ~(Cardinality(before(x)) < Cardinality(before(y)))
        /\ ~(Cardinality(before(y)) < Cardinality(before(x)))
    BY <1>5, <1>6
  <2>2. <<x, y>> \notin RowsOn(kind, F) /\ <<y, x>> \notin RowsOn(kind, F)
    BY <1>5, <2>1
  <2>. QED  BY <1>3, <2>2 DEF Orders
<1>7. \A i \in 1..N : sorted[i] \in F /\ Cardinality(before(sorted[i])) = i - 1
  BY <1>5
<1>8. sorted \in Seq(F) /\ Len(sorted) = N
  <2>1. sorted \in [1..N -> F]
    BY <1>7
  <2>. QED  BY <1>5, <2>1
<1>. HIDE DEF sorted, N, n
<1>9. n \in Nat /\ n <= N /\ Smaller(limit, N) = n /\ \A i \in 1..n : i \in 1..N
  BY <1>4, <1>5 DEF Smaller
<1>10. \A i \in 1..n : sorted[i] = rs[i]
  <2>. SUFFICES ASSUME NEW i \in 1..n PROVE sorted[i] = rs[i]
    OBVIOUS
  <2>1. i \in 1..N /\ rs[i] \in F
    BY <1>4, <1>9 DEF n
  <2>. QED  BY <1>4, <1>6, <1>7, <2>1
<1>11. SubSeq(sorted, 1, n) = rs
  <2>1. PICK u : u = SubSeq(sorted, 1, n)
    OBVIOUS
  <2>2. \A i \in 1..n : sorted[i] \in F
    BY <1>7, <1>9
  <2>3. /\ u \in Seq(F) /\ Len(u) = IF 1 <= n THEN n - 1 + 1 ELSE 0
        /\ \A i \in 1..n - 1 + 1 : u[i] = sorted[1 + i - 1]
    BY <1>9, <2>1, <2>2, SubSeqProperties
  <2>4. Len(u) = n
    BY <1>9, <2>3
  <2>5. ASSUME NEW i \in 1..n PROVE u[i] = rs[i]
    <3>1. i \in 1..n - 1 + 1 /\ 1 + i - 1 = i
      BY <1>9
    <3>. QED  BY <1>10, <2>3, <3>1
  <2>6. rs \in Seq(F) /\ Len(rs) = n
    BY <1>4 DEF n
  <2>. QED  BY <2>1, <2>3, <2>4, <2>5, <2>6, SeqEqual
<1>12. Len(sorted) > limit <=> page.next # None
  BY <1>4, <1>5, <1>8
<1>. QED  BY <1>2, <1>8, <1>9, <1>11, <1>12

\* The page of a scan is the page the in-memory registry takes.
LEMMA PageAgrees ==
    ASSUME WalkInv, walk.pc = "ready", walk.kind \notin {"search"} \cup Counting, Limit > 0
    PROVE  [items |-> Positions(Matching(Page.keys)), next |-> NextPos(Page)]
             = MemoryPage(walk.kind, walk.token, Limit)
<1>1. PICK kind, tok, limit, page :
         kind = walk.kind /\ tok = walk.token /\ limit = Limit /\ page = Page
  OBVIOUS
<1>2. /\ kind \in Kind /\ walk \in Walks(kind) /\ rows \subseteq Universe[kind] /\ kind # "search"
  BY <1>1 DEF WalkInv, WalkOK, Held, StoreOK
<1>3. tok \in Tokens(kind) /\ limit \in Nat /\ limit > 0
  BY <1>1, <1>2, WalkFields, LimitFacts DEF Limit
<1>4. page = Scan(AllKeys, RangeOf(kind), CursorAt(kind, tok), limit)
  BY <1>1 DEF Page
<1>5. PICK rs : PageRows(kind, tok, limit, page, rs)
  BY <1>2, <1>3, <1>4, PageExact
<1>6. MemoryRows(kind, tok, limit) = [page |-> rs, more |-> page.next # None]
  BY <1>2, <1>3, <1>5, MemoryExact
<1>. DEFINE F == Fresh(kind, tok)
            n == Len(rs)
            I == {i \in 1..n : kind = "referrers" /\ Ask.type # None => rs[i].name = Ask.type}
<1>7. /\ rs \in Seq(F) /\ n = Len(page.keys) /\ page.keys \in Seq(Seq(Byte)) /\ n \in Nat
      /\ \A i \in 1..n : page.keys[i] = KeyOf(rs[i]) /\ PosOf(kind, page.keys[i]) = RowPos(kind, rs[i])
  BY <1>5 DEF PageRows
<1>8. \A i \in 1..n : rs[i] \in rows /\ ValueAt(page.keys[i]) = rs[i]
  <2>1. \A r \in F : r \in rows /\ ValueAt(KeyOf(r)) = r
    BY <1>2, KeyStands DEF Fresh
  <2>2. \A i \in 1..n : rs[i] \in F
    BY <1>7
  <2>. QED  BY <1>7, <2>1, <2>2
<1>9. I = {i \in 1..Len(page.keys) : kind = "referrers" /\ Ask.type # None
                                        => ValueAt(page.keys[i]).name = Ask.type}
  BY <1>7, <1>8
<1>10. Positions(Matching(page.keys)) = ReadOff(kind, AtPlaces(page.keys, I))
  BY <1>1, <1>9 DEF Positions, Matching, ReadOff
<1>11. I \in SUBSET (1..n)
  OBVIOUS
<1>. HIDE DEF I, F, n
<1>12. PICK keys, kept : keys = AtPlaces(page.keys, I) /\ kept = AtPlaces(rs, I)
  OBVIOUS
<1>13. PICK c : c = Cardinality(I)
  OBVIOUS
<1>14. /\ Len(keys) = c /\ \A j \in 1..c : Place(I, j) \in I /\ keys[j] = page.keys[Place(I, j)]
  BY <1>7, <1>11, <1>12, <1>13, AtPlacesExact
<1>15. /\ Len(kept) = c /\ \A j \in 1..c : Place(I, j) \in I /\ kept[j] = rs[Place(I, j)]
  <2>1. rs \in Seq(F) /\ I \in SUBSET (1..Len(rs))
    BY <1>7, <1>11 DEF n
  <2>. QED  BY ONLY <1>12, <1>13, <2>1, AtPlacesExact, SMTT(20)
<1>16. \A j \in 1..c : PosOf(kind, keys[j]) = RowPos(kind, kept[j])
  BY <1>7, <1>11, <1>14, <1>15
<1>17. ReadOff(kind, keys) = [i \in 1..Len(kept) |-> RowPos(kind, kept[i])]
  BY <1>14, <1>15, <1>16 DEF ReadOff
<1>18. NextPos(page) = IF page.next # None THEN RowPos(kind, Last(rs)) ELSE None
  <2>1. CASE page.next = None
    BY <2>1 DEF NextPos
  <2>2. CASE page.next # None
    <3>1. Len(rs) = limit /\ page.next = page.keys[limit]
      BY <1>5, <2>2 DEF PageRows
    <3>2. limit \in 1..n
      BY <1>3, <3>1 DEF n
    <3>. QED  BY <1>1, <1>7, <2>2, <3>1, <3>2 DEF NextPos, Last
  <2>. QED  BY <2>1, <2>2
<1>19. MemoryPage(kind, tok, limit)
         = [items |-> [i \in 1..Len(kept) |-> RowPos(kind, kept[i])],
            next |-> IF page.next # None THEN RowPos(kind, Last(rs)) ELSE None]
  <2>1. PICK got : got = MemoryRows(kind, tok, limit) /\ got.page = rs /\ got.more = (page.next # None)
    BY <1>6
  <2>2. kept = AtPlaces(got.page, {i \in 1..Len(got.page) :
                  kind = "referrers" /\ Ask.type # None => got.page[i].name = Ask.type})
    BY <1>12, <2>1 DEF I, n
  <2>3. MemoryPage(kind, tok, limit)
          = [items |-> [i \in 1..Len(kept) |-> RowPos(kind, kept[i])],
             next |-> IF got.more THEN RowPos(kind, Last(got.page)) ELSE None]
    BY <2>1, <2>2, Zenon DEF MemoryPage
  <2>. QED  BY <2>1, <2>3
<1>20. [items |-> Positions(Matching(page.keys)), next |-> NextPos(page)] = MemoryPage(kind, tok, limit)
  BY <1>10, <1>12, <1>17, <1>18, <1>19
<1>. QED  BY <1>1, <1>20

----------------------------------------------------------------------------
(* The properties of the walk.                                             *)

\* No page holds more than the cap whatever ?n= asks for, and every position that
\* is shown could be read off its key (api.rs page_params, pagination.rs parse,
\* the suffix parsers of keys.rs).
THEOREM ListingTypeOK == Spec => []TypeOK
<1>1. WalkInv => TypeOK
  <2>. SUFFICES ASSUME WalkInv PROVE TypeOK
    OBVIOUS
  <2>1. /\ walk.kind \in Kind /\ walk \in Walks(walk.kind) /\ seen \in Seq(Spots(walk.kind))
        /\ Len(walk.page) + Len(walk.items) <= MaxPage /\ StoreOK
    BY DEF WalkInv, WalkOK, Held
  <2>2. /\ walk.page \in Seq(Spots(walk.kind)) /\ walk.items \in Seq(Spots(walk.kind))
        /\ walk.pc \in {"ready", "lookup", "scan", "done"}
    BY <2>1, WalkFields
  <2>3. Len(walk.page) \in Nat /\ Len(walk.items) \in Nat
    BY <2>2
  <2>4. Len(walk.page) <= MaxPage /\ Len(walk.items) <= MaxPage
    <3>1. PICK a, b : a = Len(walk.page) /\ b = Len(walk.items)
      OBVIOUS
    <3>2. a \in Nat /\ b \in Nat /\ a + b <= MaxPage /\ MaxPage \in Nat
      BY <2>1, <2>3, <3>1, Bounds
    <3>3. a <= MaxPage /\ b <= MaxPage
      BY ONLY <3>2
    <3>. QED  BY <3>1, <3>3
  <2>5. None \notin {seen[i] : i \in 1..Len(seen)}
    <3>1. \A i \in 1..Len(seen) : seen[i] \in Spots(walk.kind)
      BY <2>1
    <3>. QED  BY <2>1, <3>1, SpotFacts
  <2>. QED  BY <2>1, <2>2, <2>4, <2>5 DEF TypeOK, StoreOK
<1>. QED  BY <1>1, WalkInvariant, PTL

\* The page a scan of the encoded keys yields is the page the in-memory registry
\* takes from its maps, for all rows, cursors and limits: the two implementations
\* of the seam agree (memory.rs paginate against rocks_engine.rs scan).
THEOREM PagesAgreeAlways == Spec => []PagesAgree
<1>1. WalkInv => PagesAgree
  BY PageAgrees DEF PagesAgree
<1>. QED  BY <1>1, WalkInvariant, PTL

\* The pages of a walk go strictly forward: no row is shown twice and none out of
\* order, however many are written and removed between the pages.
THEOREM WalkAscends == Spec => []PagesAscend
<1>1. WalkInv => PagesAscend
  <2>. SUFFICES ASSUME WalkInv, NEW i \in 1..(Len(seen) - 1)
                PROVE  Precedes(walk.kind, seen[i], seen[i + 1])
    BY DEF PagesAscend
  <2>1. Ascends(walk.kind, seen) /\ seen \in Seq(Spots(walk.kind))
    BY DEF WalkInv, WalkOK, Forward, Held
  <2>2. Len(seen) \in Nat
    BY <2>1
  <2>3. i \in 1..Len(seen) /\ i + 1 \in 1..Len(seen) /\ i < i + 1
    BY <2>2
  <2>. QED  BY <2>1, <2>3 DEF Ascends
<1>. QED  BY <1>1, WalkInvariant, PTL

\* A walk that came to its end has shown every row that was there all the time,
\* through one scan a page, lookups of each row, or the steps of a search, except
\* for a page of tag details whose every tag was deleted under it (backend.rs
\* tag_details, api.rs).
THEOREM WalkIsComplete == Spec => []WalkComplete
<1>1. WalkInv => WalkComplete
  <2>. SUFFICES ASSUME WalkInv, walk.pc = "done", walk.kind \notin Counting, ~walk.cut,
                       ~ExplicitZero(walk.kind, walk.n), NEW r \in stable, Due(r),
                       walk.kind = "untagged" => ~Tagged(ever, r)
                PROVE  \E i \in 1..Len(seen) : seen[i] = RowPos(walk.kind, r)
    BY DEF WalkComplete
  <2>1. r \in Owed(walk, stable, ever)
    BY DEF Owed, Due, DueFor
  <2>2. Shows(walk.kind, seen, r)
    BY <2>1 DEF WalkInv, WalkOK, Ended, Excused
  <2>. QED  BY <2>2 DEF Shows
<1>. QED  BY <1>1, WalkInvariant, PTL

\* Nothing is shown that was not asked for or was never there, and no manifest is
\* listed as untagged that was tagged throughout (referrers.rs artifactType
\* filter, discovery.rs untagged_manifests).
THEOREM WalkOnlyAskedFor == Spec => []OnlyAskedFor
<1>1. WalkInv => OnlyAskedFor
  <2>. SUFFICES ASSUME WalkInv, NEW i \in 1..Len(seen)
                PROVE  \E r \in ever : /\ Due(r) /\ RowPos(walk.kind, r) = seen[i]
                                       /\ walk.kind = "untagged" => ~Tagged(stable, r)
    BY DEF OnlyAskedFor
  <2>1. Found(walk, stable, ever, seen)
    BY DEF WalkInv, WalkOK, Forward
  <2>2. \A r : DueFor(walk, r) => Due(r)
    BY DEF Due, DueFor
  <2>. QED  BY <2>1, <2>2 DEF Found
<1>. QED  BY <1>1, WalkInvariant, PTL

\* A tally that claims to be complete lies between the rows there all the time and
\* those there at any time; one that does not has reached the ceiling, and more
\* were there (backend.rs count_to_ceiling).
THEOREM TallyIsHonest == Spec => []TallyHonest
<1>1. WalkInv => TallyHonest
  <2>. SUFFICES ASSUME WalkInv, walk.kind \in Counting, walk.pc = "done" PROVE TallyHonest
    BY DEF TallyHonest
  <2>1. walk.kind = "count"
    BY DEF Counting
  <2>2. \A S : Counted(S) = Cardinality({r \in S : Wanted(walk.kind, r)})
    BY <2>1 DEF Counted, Listed
  <2>3. IF walk.complete THEN Counted(stable) <= walk.count /\ walk.count <= Counted(ever)
        ELSE CountCeiling <= walk.count /\ CountCeiling < Counted(ever)
    BY <2>1 DEF WalkInv, WalkOK, Tallied
  <2>. QED  BY <2>2, <2>3 DEF TallyHonest
<1>. QED  BY <1>1, WalkInvariant, PTL
=============================================================================
