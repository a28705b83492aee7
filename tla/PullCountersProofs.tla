------------------------- MODULE PullCountersProofs -------------------------
(***************************************************************************)
(* Proofs about PullCounters, for any number of names, bodies, subjects,   *)
(* hours and ids: the accumulator stays within its cap, and every pull and *)
(* every byte is in exactly one place until the code gives it up.          *)
(*                                                                         *)
(* The invariant CountInv says what each place may hold, and that together *)
(* they hold what is owed.  A sum is the number of its units, so that what *)
(* one step changes in it is a fact about finite sets.                     *)
(***************************************************************************)
EXTENDS PullCounters, SequenceTheorems, FiniteSetTheorems, TLAPS

----------------------------------------------------------------------------
(* The invariant.                                                          *)

Ids == 1..Len(owner)
Groups == [repo : Names, subject : Subjects, day : 0..LastDay]
Buckets == {b \in [Hours -> Counts] : \A h \in Hours : b[h] = Clip(b[h])}

\* The repositories: a name has an id that was minted for it, or none.
ReposOK ==
    /\ owner \in Seq(Names) /\ Len(owner) <= MaxIds
    /\ repos \in [Names -> Ids \cup {None}]
    /\ \A name \in Names : repos[name] # None => owner[repos[name]] = name
    /\ dead \in SUBSET (Ids \ {repos[name] : name \in Names})

\* The accumulator, a finite map within its cap.
MapOK(m) ==
    /\ DOMAIN m \in SUBSET BucketKeys /\ m \in [DOMAIN m -> Counts]
    /\ IsFiniteSet(DOMAIN m) /\ Cardinality(DOMAIN m) <= MAX_BUCKETS
DirtyOK == MapOK(dirty) /\ dropped \in Nat

\* The store holds buckets under the counter keys of ids that were minted.
StoredOK ==
    /\ stored \in [DOMAIN stored -> Buckets]
    /\ \A key \in DOMAIN stored :
          \E id \in Ids, s \in Subjects, day \in 0..LastDay : key = CounterKey(id, s, day)

\* A put of the batch: unless the range was swept since, what it puts is what is
\* stored now with the deltas added.
PutOK(p) ==
    /\ p.id \in Ids /\ p.group \in Groups /\ p.bucket \in Buckets
    /\ p.group \notin flush.todo /\ owner[p.id] = p.group.repo
    /\ p.id \in Kept => p.bucket = Fold(p.id, p.group)

\* The fold under way: every delta is still to be read or has its put, once.
FlushOK ==
    /\ flush = [pc |-> flush.pc, deltas |-> flush.deltas, todo |-> flush.todo,
                batch |-> flush.batch]
    /\ flush.pc \in {"idle", "fold"} /\ (flush.pc = "idle" => flush = Idle)
    /\ DOMAIN flush.deltas \in SUBSET BucketKeys
    /\ flush.deltas \in [DOMAIN flush.deltas -> Counts]
    /\ flush.todo \in SUBSET Groups
    /\ \A k \in DOMAIN flush.deltas :
          Group(k) \in flush.todo \/ \E p \in flush.batch : p.group = Group(k)
    /\ \A p \in flush.batch : PutOK(p)
    /\ \A p, q \in flush.batch : p.group = q.group => p = q

RestOK ==
    /\ now \in 0..MaxHour /\ enabled \in BOOLEAN
    /\ bodies \in [Bodies -> BodyStates \cup {None}]

OwedOK == owed \in [BucketKeys -> Counts]

\* What is owed, hour by hour and count by count.
Held(k, f) == Pile([id \in Kept |-> HeldUnder(id, k)[f]], Kept)
Open(k, f) == Pile([b \in Bodies |-> OpenIn(b, k)[f]], Bodies)
Balanced ==
    \A k \in BucketKeys, f \in DOMAIN Zero :
        owed[k][f] = Open(k, f) + Held(k, f) + Tally(dirty, k)[f] + Tally(flush.deltas, k)[f]

CountInv == ReposOK /\ DirtyOK /\ StoredOK /\ FlushOK /\ RestOK /\ OwedOK /\ Balanced

----------------------------------------------------------------------------
(* Sums.                                                                   *)

\* The units f puts on S.
Units(f, S) == UNION {{x} \X (1..f[x]) : x \in S}

\* Those of one member.
LEMMA UnitsOfOne ==
    ASSUME NEW x, NEW n \in Nat
    PROVE  IsFiniteSet({x} \X (1..n)) /\ Cardinality({x} \X (1..n)) = n
<1>1. IsFiniteSet({x}) /\ Cardinality({x}) = 1
  BY FS_Singleton
<1>2. IsFiniteSet(1..n) /\ Cardinality(1..n) = n
  BY FS_Interval
<1>3. PICK X, Y : X = {x} /\ Y = 1..n
  OBVIOUS
<1>4. IsFiniteSet(X \X Y) /\ Cardinality(X \X Y) = Cardinality(X) * Cardinality(Y)
  BY <1>1, <1>2, <1>3, FS_Product
<1>. QED  BY <1>1, <1>2, <1>3, <1>4

\* A sum of naturals over a finite set is a natural.
LEMMA PileNat ==
    ASSUME NEW S, IsFiniteSet(S), NEW f, \A x \in S : f[x] \in Nat
    PROVE  IsFiniteSet(Units(f, S)) /\ Pile(f, S) = Cardinality(Units(f, S)) /\ Pile(f, S) \in Nat
<1>. DEFINE g == [x \in S |-> {x} \X (1..f[x])]
            T == {{x} \X (1..f[x]) : x \in S}
<1>1. g \in Surjection(S, T)
  BY DEF Surjection
<1>2. IsFiniteSet(T)
  <2>. HIDE DEF g, T
  <2>. QED  BY <1>1, FS_Surjection
<1>3. ASSUME NEW t \in T PROVE IsFiniteSet(t)
  <2>1. PICK x \in S : t = {x} \X (1..f[x])
    OBVIOUS
  <2>2. f[x] \in Nat
    OBVIOUS
  <2>. QED  BY ONLY <2>1, <2>2, UnitsOfOne
<1>4. IsFiniteSet(UNION T)
  <2>. HIDE DEF T
  <2>. QED  BY <1>2, <1>3, FS_UNION
<1>. QED  BY <1>4, FS_CardinalityType DEF Units, Pile

\* Members with the same parts have the same sum.
LEMMA PileSame ==
    ASSUME NEW S, NEW f, NEW g, \A x \in S : f[x] = g[x]
    PROVE  Pile(f, S) = Pile(g, S)
<1>1. {{x} \X (1..f[x]) : x \in S} = {{x} \X (1..g[x]) : x \in S}
  OBVIOUS
<1>. QED  BY <1>1 DEF Pile

\* A sum is one part and the sum of the others.
LEMMA PileSplit ==
    ASSUME NEW S, IsFiniteSet(S), NEW f, \A x \in S : f[x] \in Nat, NEW a \in S
    PROVE  Pile(f, S) = f[a] + Pile(f, S \ {a})
<1>. DEFINE A == {a} \X (1..f[a])
            B == Units(f, S \ {a})
<1>1. IsFiniteSet(A) /\ Cardinality(A) = f[a]
  BY UnitsOfOne
<1>2. IsFiniteSet(S \ {a}) /\ \A x \in S \ {a} : f[x] \in Nat
  BY FS_RemoveElement
<1>3. IsFiniteSet(B) /\ Pile(f, S \ {a}) = Cardinality(B) /\ Cardinality(B) \in Nat
  BY <1>2, PileNat
<1>4. Units(f, S) = A \cup B
  BY DEF Units
<1>5. A \cap B = {}
  BY DEF Units
<1>6. Pile(f, S) = Cardinality(A \cup B)
  BY <1>4 DEF Pile, Units
<1>. HIDE DEF A, B
<1>7. Cardinality(A \cup B) = Cardinality(A) + Cardinality(B) - Cardinality({})
  BY <1>1, <1>3, <1>5, FS_Union
<1>. QED  BY <1>1, <1>3, <1>6, <1>7, FS_EmptySet

\* A sum of nothing.
LEMMA PileZero ==
    ASSUME NEW S, NEW f, \A x \in S : f[x] = 0
    PROVE  Pile(f, S) = 0
<1>1. UNION {{x} \X (1..f[x]) : x \in S} = {}
  <2>. SUFFICES ASSUME NEW x \in S PROVE {x} \X (1..f[x]) = {}
    OBVIOUS
  <2>. QED  BY 1..0 = {}
<1>. QED  BY <1>1, FS_EmptySet DEF Pile

\* A sum of one part.
LEMMA PileOne ==
    ASSUME NEW a, NEW f, f[a] \in Nat
    PROVE  Pile(f, {a}) = f[a]
<1>1. IsFiniteSet({a}) /\ \A x \in {a} : f[x] \in Nat
  BY FS_Singleton
<1>2. Pile(f, {a}) = f[a] + Pile(f, {a} \ {a})
  BY <1>1, PileSplit
<1>3. Pile(f, {a} \ {a}) = 0
  BY PileZero
<1>. QED  BY <1>2, <1>3

\* Two sums that differ in one part.
LEMMA PileChange ==
    ASSUME NEW S, IsFiniteSet(S), NEW f, NEW g, \A x \in S : f[x] \in Nat /\ g[x] \in Nat,
           NEW a \in S, \A x \in S \ {a} : f[x] = g[x]
    PROVE  Pile(g, S) = Pile(f, S) - f[a] + g[a] /\ Pile(f, S) \in Nat /\ Pile(g, S) \in Nat
<1>1. Pile(f, S) = f[a] + Pile(f, S \ {a}) /\ Pile(g, S) = g[a] + Pile(g, S \ {a})
  BY PileSplit
<1>2. Pile(f, S \ {a}) = Pile(g, S \ {a})
  BY PileSame
<1>3. Pile(f, S) \in Nat /\ Pile(g, S) \in Nat
  BY PileNat
<1>4. IsFiniteSet(S \ {a}) /\ \A x \in S \ {a} : f[x] \in Nat
  BY FS_RemoveElement
<1>5. Pile(f, S \ {a}) \in Nat
  BY <1>4, PileNat
<1>. QED  BY <1>1, <1>2, <1>3, <1>5

----------------------------------------------------------------------------
(* Hours and days.                                                         *)

\* Division by a positive number.
LEMMA Division ==
    ASSUME NEW n \in Nat, n > 0, NEW s \in Nat, NEW t \in Nat, s <= t
    PROVE  s % n \in 0..n - 1 /\ s \div n \in Nat /\ s \div n <= t \div n
<1>1. s % n \in 0..n - 1
  OBVIOUS
<1>2. s \div n \in Nat
  OBVIOUS
<1>3. s \div n <= t \div n
  OBVIOUS
<1>. QED  BY <1>1, <1>2, <1>3

\* A later hour is of the same day or of a later one.
LEMMA DaysGo ==
    ASSUME NEW s \in Nat, NEW t \in Nat, s <= t
    PROVE  /\ day_bucket(s) \in Nat /\ hour_of_day(s) \in Hours
           /\ day_bucket(s) <= day_bucket(t)
<1>1. HoursPerDay \in Nat /\ HoursPerDay > 0
  BY CounterAssumption
<1>2. /\ s % HoursPerDay \in 0..HoursPerDay - 1 /\ s \div HoursPerDay \in Nat
      /\ s \div HoursPerDay <= t \div HoursPerDay
  BY <1>1, Division
<1>. QED  BY <1>2 DEF day_bucket, hour_of_day, Hours

\* The key of a subject at an hour of the run.
LEMMA KeyTyped ==
    ASSUME NEW name \in Names, NEW s \in Subjects, NEW t \in 0..MaxHour
    PROVE  Key(name, s, t) \in BucketKeys
<1>1. MaxHour \in Nat /\ t \in Nat /\ t <= MaxHour
  BY CounterAssumption
<1>2. day_bucket(t) \in Nat /\ hour_of_day(t) \in Hours /\ day_bucket(t) <= day_bucket(MaxHour)
      /\ day_bucket(MaxHour) \in Nat
  BY <1>1, DaysGo
<1>. QED  BY <1>2 DEF Key, BucketKeys, LastDay

----------------------------------------------------------------------------
(* Keys.                                                                   *)

\* The scope and the middle of a subject's keys.
ScopeOf(s) ==
    CASE s.kind = "manifest" -> SCOPE_MANIFEST
      [] s.kind = "tag" -> SCOPE_TAG
      [] s.kind = "repo" -> SCOPE_REPO
Middle(s) ==
    CASE s.kind = "manifest" -> s.of
      [] s.kind = "tag" -> s.of \o <<TAG_END>>
      [] s.kind = "repo" -> <<>>

\* The kinds of a subject.
LEMMA SubjectKinds ==
    ASSUME NEW s \in Subjects
    PROVE  \/ s.kind = "manifest" /\ s.of \in Seq(Nat) /\ s = Manifest(s.of)
           \/ s.kind = "tag" /\ s.of \in Seq(Nat) /\ s = Tag(s.of)
           \/ s.kind = "repo" /\ s = Repo
<1>1. Digests \cup Tags \subseteq Seq(Nat)
  <2>1. \A q \in Seq(0..MaxByte) : q \in Seq(Nat)
    BY ByteAssumption
  <2>. QED  BY <2>1, ValueAssumption
<1>2. CASE s \in [kind : {"manifest"}, of : Digests]
  BY <1>1, <1>2 DEF Manifest
<1>3. CASE s \in [kind : {"tag"}, of : Tags]
  BY <1>1, <1>3 DEF Tag
<1>4. CASE s = [kind |-> "repo", of |-> None]
  BY <1>4 DEF Repo
<1>. QED  BY <1>2, <1>3, <1>4 DEF Subjects

\* A key: type, scope, id, subject, day and shard.
LEMMA KeyParts ==
    ASSUME NEW id \in Nat, NEW s \in Subjects, NEW day \in Nat
    PROVE  /\ Middle(s) \in Seq(Nat) /\ ScopeOf(s) \in {SCOPE_MANIFEST, SCOPE_TAG, SCOPE_REPO}
           /\ CounterKey(id, s, day)
                = (<<PREFIX_COUNTER, ScopeOf(s), id>> \o Middle(s)) \o <<day, SHARD>>
<1>0. ScopeOf(s) \in {SCOPE_MANIFEST, SCOPE_TAG, SCOPE_REPO}
  BY SubjectKinds DEF ScopeOf
<1>a. PREFIX_COUNTER \in Nat /\ ScopeOf(s) \in Nat
  BY <1>0 DEF PREFIX_COUNTER, SCOPE_MANIFEST, SCOPE_TAG, SCOPE_REPO
<1>b. <<PREFIX_COUNTER, ScopeOf(s), id>> \in Seq(Nat)
  BY <1>a
<1>1. PICK h : h = <<PREFIX_COUNTER, ScopeOf(s), id>> /\ h \in Seq(Nat)
  BY <1>b
<1>2. <<TAG_END>> \in Seq(Nat) /\ <<>> \in Seq(Nat)
  BY DEF TAG_END
<1>3. Middle(s) \in Seq(Nat) /\ prefix_of(id, s) = h \o Middle(s)
  <2>1. CASE s.kind = "manifest"
    <3>1. s.of \in Seq(Nat)
      BY <2>1, SubjectKinds
    <3>. QED  BY <1>1, <2>1, <3>1
              DEF Middle, ScopeOf, prefix_of, counters_of_manifest, counters_in_repo_scope
  <2>2. CASE s.kind = "tag"
    <3>1. s.of \in Seq(Nat)
      BY <2>2, SubjectKinds
    <3>2. /\ (h \o s.of) \o <<TAG_END>> = h \o (s.of \o <<TAG_END>>)
          /\ s.of \o <<TAG_END>> \in Seq(Nat)
      <4>1. PICK a, z : a = s.of /\ z = <<TAG_END>> /\ a \in Seq(Nat) /\ z \in Seq(Nat)
        BY <1>2, <3>1
      <4>2. (h \o a) \o z = h \o (a \o z)
        <5>1. h \in Seq(Nat) /\ a \in Seq(Nat) /\ z \in Seq(Nat)
          BY <1>1, <4>1
        <5>. QED  BY ONLY <5>1, ConcatAssociative, SMTT(20)
      <4>3. a \o z \in Seq(Nat)
        BY <4>1, ConcatProperties
      <4>. QED  BY <4>1, <4>2, <4>3
    <3>. QED  BY <1>1, <2>2, <3>2
              DEF Middle, ScopeOf, prefix_of, counters_of_tag, counters_in_repo_scope
  <2>3. CASE s.kind = "repo"
    <3>1. h \o <<>> = h
      BY <1>1, ConcatEmptySeq
    <3>. QED  BY <1>1, <1>2, <2>3, <3>1
              DEF Middle, ScopeOf, prefix_of, counters_of_repo, counters_in_repo_scope
  <2>. QED  BY <2>1, <2>2, <2>3, SubjectKinds
<1>. QED  BY <1>0, <1>1, <1>3 DEF CounterKey, push_bucket

\* Where the parts of a key are.
MadeOf(k, id, s, day) ==
    /\ k \in Seq(Nat) /\ Len(k) = Len(Middle(s)) + 5 /\ Len(Middle(s)) \in Nat
    /\ k[1] = PREFIX_COUNTER /\ k[2] = ScopeOf(s) /\ k[3] = id /\ k[Len(k) - 1] = day
    /\ \A i \in 1..Len(Middle(s)) : k[i + 3] = Middle(s)[i]

\* A key has its parts there.
LEMMA KeyBytes ==
    ASSUME NEW id \in Nat, NEW s \in Subjects, NEW day \in Nat
    PROVE  MadeOf(CounterKey(id, s, day), id, s, day)
<1>0. PICK k : k = CounterKey(id, s, day)
  OBVIOUS
<1>1. PICK m, c : m = Middle(s) /\ c = ScopeOf(s)
  OBVIOUS
<1>a. Middle(s) \in Seq(Nat) /\ ScopeOf(s) \in {SCOPE_MANIFEST, SCOPE_TAG, SCOPE_REPO}
  BY KeyParts
<1>2. m \in Seq(Nat) /\ c \in Nat
  BY <1>1, <1>a DEF SCOPE_MANIFEST, SCOPE_TAG, SCOPE_REPO
<1>3. PICK n : n = Len(m) /\ n \in Nat
  BY <1>2
<1>4. <<PREFIX_COUNTER, c, id>> \in Seq(Nat) /\ <<day, SHARD>> \in Seq(Nat)
  BY <1>2 DEF PREFIX_COUNTER, SHARD
<1>5. PICK h, e : /\ h = <<PREFIX_COUNTER, c, id>> /\ e = <<day, SHARD>>
                  /\ h \in Seq(Nat) /\ e \in Seq(Nat)
  BY <1>4
<1>6. /\ Len(h) = 3 /\ Len(e) = 2 /\ h[1] = PREFIX_COUNTER /\ h[2] = c /\ h[3] = id
      /\ e[1] = day
  BY <1>5
<1>7. k = (h \o m) \o e
  BY <1>0, <1>1, <1>5, KeyParts
<1>8. PICK u : u = h \o m
  OBVIOUS
<1>9. /\ u \in Seq(Nat) /\ Len(u) = Len(h) + Len(m)
      /\ \A i \in 1..Len(h) + Len(m) : u[i] = IF i <= Len(h) THEN h[i] ELSE m[i - Len(h)]
  BY <1>2, <1>5, <1>8, ConcatProperties
<1>10. /\ k \in Seq(Nat) /\ Len(k) = Len(u) + Len(e)
       /\ \A i \in 1..Len(u) + Len(e) : k[i] = IF i <= Len(u) THEN u[i] ELSE e[i - Len(u)]
  BY <1>5, <1>7, <1>8, <1>9, ConcatProperties
<1>11. /\ Len(k) = 5 + n
       /\ \A i \in 1..3 + n : u[i] = IF i <= 3 THEN h[i] ELSE m[i - 3]
       /\ \A i \in 1..5 + n : k[i] = IF i <= 3 + n THEN u[i] ELSE e[i - (3 + n)]
  BY ONLY <1>3, <1>6, <1>9, <1>10, SMTT(20)
<1>12. k[1] = PREFIX_COUNTER /\ k[2] = c /\ k[3] = id
  BY <1>3, <1>6, <1>11
<1>13. k[Len(k) - 1] = day
  BY <1>3, <1>6, <1>11
<1>14. \A i \in 1..n : k[i + 3] = m[i]
  BY <1>3, <1>11
<1>. QED  BY <1>0, <1>1, <1>3, <1>10, <1>11, <1>12, <1>13, <1>14 DEF MadeOf

\* Two buckets have different keys.
LEMMA KeysApart ==
    ASSUME NEW i \in Nat, NEW j \in Nat, NEW s \in Subjects, NEW t \in Subjects,
           NEW d \in Nat, NEW e \in Nat, CounterKey(i, s, d) = CounterKey(j, t, e)
    PROVE  i = j /\ s = t /\ d = e
<1>1. PICK k : k = CounterKey(i, s, d) /\ k = CounterKey(j, t, e)
  OBVIOUS
<1>a. MadeOf(k, i, s, d) /\ MadeOf(k, j, t, e)
  BY <1>1, KeyBytes
<1>2. /\ Len(k) = Len(Middle(s)) + 5 /\ Len(Middle(s)) \in Nat
      /\ k[2] = ScopeOf(s) /\ k[3] = i /\ k[Len(k) - 1] = d
      /\ \A x \in 1..Len(Middle(s)) : k[x + 3] = Middle(s)[x]
  BY <1>a DEF MadeOf
<1>3. /\ Len(k) = Len(Middle(t)) + 5 /\ Len(Middle(t)) \in Nat
      /\ k[2] = ScopeOf(t) /\ k[3] = j /\ k[Len(k) - 1] = e
      /\ \A x \in 1..Len(Middle(t)) : k[x + 3] = Middle(t)[x]
  BY <1>a DEF MadeOf
<1>4. i = j /\ d = e /\ ScopeOf(s) = ScopeOf(t) /\ Len(Middle(s)) = Len(Middle(t))
  BY <1>2, <1>3
<1>5. Middle(s) = Middle(t)
  <2>1. Middle(s) \in Seq(Nat) /\ Middle(t) \in Seq(Nat)
    BY KeyParts
  <2>2. \A x \in 1..Len(Middle(s)) : Middle(s)[x] = Middle(t)[x]
    BY <1>2, <1>3, <1>4
  <2>. QED  BY <1>4, <2>1, <2>2, SeqEqual
<1>6. s.kind = t.kind
  BY <1>4, SubjectKinds DEF ScopeOf, SCOPE_MANIFEST, SCOPE_TAG, SCOPE_REPO
<1>7. CASE s.kind = "manifest"
  <2>1. s = Manifest(s.of) /\ t = Manifest(t.of)
    BY <1>6, <1>7, SubjectKinds
  <2>2. s.of = t.of
    BY <1>5, <1>6, <1>7 DEF Middle
  <2>. QED  BY <1>4, <2>1, <2>2
<1>8. CASE s.kind = "tag"
  <2>1. s.of \in Seq(Nat) /\ s = Tag(s.of) /\ t.of \in Seq(Nat) /\ t = Tag(t.of)
    BY <1>6, <1>8, SubjectKinds
  <2>2. s.of \o <<TAG_END>> = t.of \o <<TAG_END>>
    BY <1>5, <1>6, <1>8 DEF Middle
  <2>3. <<TAG_END>> \in Seq(Nat)
    BY DEF TAG_END
  <2>4. s.of = t.of
    BY <2>1, <2>2, <2>3, ConcatSimplifications
  <2>. QED  BY <1>4, <2>1, <2>4
<1>9. CASE s.kind = "repo"
  <2>1. s = Repo /\ t = Repo
    BY <1>6, <1>9, SubjectKinds
  <2>. QED  BY <1>4, <2>1
<1>. QED  BY <1>7, <1>8, <1>9, SubjectKinds

\* Prefixes of the same length are equal when they agree at every place.
LEMMA SameHead ==
    ASSUME NEW s \in Seq(Nat), NEW t \in Seq(Nat), NEW n \in Nat, n <= Len(s), n <= Len(t)
    PROVE  SubSeq(s, 1, n) = SubSeq(t, 1, n) <=> \A i \in 1..n : s[i] = t[i]
<1>a. PICK u, v : u = SubSeq(s, 1, n) /\ v = SubSeq(t, 1, n)
  OBVIOUS
<1>1. u \in Seq(Nat) /\ Len(u) = n /\ \A i \in 1..n : u[i] = s[i]
  BY <1>a, SMTT(20)
<1>2. v \in Seq(Nat) /\ Len(v) = n /\ \A i \in 1..n : v[i] = t[i]
  BY <1>a, SMTT(20)
<1>3. ASSUME \A i \in 1..n : s[i] = t[i] PROVE u = v
  BY <1>1, <1>2, <1>3, SeqEqual
<1>. QED  BY <1>a, <1>1, <1>2, <1>3

\* A key that is smaller where it first differs is below.
LEMMA IsBelow ==
    ASSUME NEW s \in Seq(Nat), NEW t \in Seq(Nat), NEW i \in 1..Len(s), i <= Len(t),
           s[i] < t[i], \A h \in 1..i - 1 : s[h] = t[h]
    PROVE  LexLess(s, t)
<1>1. i - 1 \in Nat /\ i - 1 <= Len(s) /\ i - 1 <= Len(t)
  OBVIOUS
<1>2. SubSeq(s, 1, i - 1) = SubSeq(t, 1, i - 1)
  BY <1>1, SameHead
<1>. QED  BY <1>2 DEF LexLess

\* A longer key that is smaller nowhere is not below.
LEMMA NotBelow ==
    ASSUME NEW s \in Seq(Nat), NEW t \in Seq(Nat), Len(t) < Len(s),
           \A i \in 1..Len(t) : (\A h \in 1..i - 1 : s[h] = t[h]) => t[i] <= s[i]
    PROVE  ~LexLess(s, t)
<1>1. ~IsStrictPrefix(s, t)
  BY DEF IsStrictPrefix, IsPrefix
<1>2. ASSUME NEW i \in 1..Len(s), i <= Len(t), s[i] < t[i],
             SubSeq(s, 1, i - 1) = SubSeq(t, 1, i - 1)
      PROVE  FALSE
  <2>1. i - 1 \in Nat /\ i - 1 <= Len(s) /\ i - 1 <= Len(t) /\ i \in 1..Len(t)
    BY <1>2
  <2>2. \A h \in 1..i - 1 : s[h] = t[h]
    BY <1>2, <2>1, SameHead
  <2>3. s[i] \in Nat /\ t[i] \in Nat
    BY ONLY <2>1, i \in 1..Len(s), s \in Seq(Nat), t \in Seq(Nat)
  <2>4. t[i] <= s[i]
    BY <2>1, <2>2
  <2>. QED  BY <1>2, <2>3, <2>4
<1>. QED  BY <1>1, <1>2 DEF LexLess

\* What a deletion of a repository's range leaves: the keys of another one.
LEMMA OthersSpared ==
    ASSUME NEW id \in 0..MaxByte, NEW j \in 0..MaxByte, j # id,
           NEW scope \in {SCOPE_MANIFEST, SCOPE_TAG, SCOPE_REPO},
           NEW s \in Subjects, NEW day \in Nat, NEW keys, CounterKey(j, s, day) \in keys
    PROVE  CounterKey(j, s, day) \in DeletePrefix(keys, counters_in_repo_scope(scope, id))
<1>1. PICK k, c : k = CounterKey(j, s, day) /\ c = ScopeOf(s)
  OBVIOUS
<1>2. MaxByte \in Nat /\ MaxByte > 18 /\ id \in Nat /\ j \in Nat /\ scope \in 1..3
  BY ByteAssumption DEF PREFIX_DB_VERSION, SCOPE_MANIFEST, SCOPE_TAG, SCOPE_REPO
<1>3. /\ k \in Seq(Nat) /\ Len(k) >= 5 /\ Len(k) \in Nat /\ c \in 1..3
      /\ k[1] = 1 /\ k[2] = c /\ k[3] = j
  <2>1. MadeOf(k, j, s, day) /\ c \in {SCOPE_MANIFEST, SCOPE_TAG, SCOPE_REPO}
    BY <1>1, <1>2, KeyBytes, KeyParts
  <2>. QED  BY <1>1, <2>1 DEF MadeOf, PREFIX_COUNTER, SCOPE_MANIFEST, SCOPE_TAG, SCOPE_REPO
<1>4. PICK p : p = counters_in_repo_scope(scope, id)
  OBVIOUS
<1>5. p = <<1, scope, id>>
  BY <1>4 DEF counters_in_repo_scope, PREFIX_COUNTER
<1>6. p \in Seq(Nat) /\ Len(p) = 3 /\ p[1] = 1 /\ p[2] = scope /\ p[3] = id
  BY <1>2, <1>5
<1>7. PICK end : end = prefix_successor(p)
  OBVIOUS
<1>8. /\ end \in Seq(Nat) /\ end[1] = 1
      /\ \/ id < MaxByte /\ Len(end) = 3 /\ end[2] = scope /\ end[3] = id + 1
         \/ id = MaxByte /\ Len(end) = 2 /\ end[2] = scope + 1
  <2>. DEFINE low == {i \in 1..Len(p) : p[i] < MaxByte}
              top == CHOOSE i \in low : \A h \in low : h <= i
  <2>1. low \in SUBSET (1..3) /\ 1 \in low /\ 2 \in low /\ (3 \in low <=> id < MaxByte)
    BY <1>2, <1>6
  <2>2. top = IF id < MaxByte THEN 3 ELSE 2
    <3>. HIDE DEF low
    <3>1. \A i, h : /\ i \in low /\ \A x \in low : x <= i
                    /\ h \in low /\ \A x \in low : x <= h
                    => i = h
      BY <2>1
    <3>2. \E i \in low : /\ \A h \in low : h <= i
                         /\ i = IF id < MaxByte THEN 3 ELSE 2
      BY <1>2, <2>1
    <3>3. top \in low /\ \A h \in low : h <= top
      BY <3>2
    <3>. QED  BY <3>1, <3>2, <3>3
  <2>3. end = BumpLast(SubSeq(p, 1, top))
    BY <1>7, <2>1 DEF prefix_successor
  <2>. HIDE DEF low, top
  <2>4. CASE id < MaxByte
    <3>1. SubSeq(p, 1, 3) = p
      BY <1>6, SubSeqFull
    <3>2. end = [p EXCEPT ![3] = id + 1]
      BY <1>6, <2>2, <2>3, <2>4, <3>1 DEF BumpLast
    <3>. QED  BY <1>2, <1>6, <2>4, <3>2
  <2>5. CASE id = MaxByte
    <3>1. PICK q : q = SubSeq(p, 1, 2)
      OBVIOUS
    <3>2. q \in Seq(Nat) /\ Len(q) = 2 /\ q[1] = 1 /\ q[2] = scope
      BY ONLY <1>6, <3>1, SMTT(20)
    <3>3. top = 2 /\ end = BumpLast(q)
      BY <1>2, <2>2, <2>3, <2>5, <3>1
    <3>4. end = [q EXCEPT ![2] = scope + 1]
      BY <3>2, <3>3 DEF BumpLast
    <3>5. end \in Seq(Nat) /\ Len(end) = 2 /\ end[1] = 1 /\ end[2] = scope + 1
      BY <1>2, <3>2, <3>4
    <3>. QED  BY <2>5, <3>5
  <2>. QED  BY <1>2, <2>4, <2>5
<1>9. end # None /\ end \in Seq(Nat)
  BY <1>2, <1>8, ValueAssumption
<1>10. LexLess(k, p) \/ ~LexLess(k, end)
  <2>1. CASE c < scope
    <3>1. 2 \in 1..Len(k) /\ 2 <= Len(p) /\ k[2] < p[2] /\ \A h \in 1..2 - 1 : k[h] = p[h]
      BY ONLY <1>2, <1>3, <1>6, <2>1, SMTT(20)
    <3>. QED  BY <1>3, <1>6, <3>1, IsBelow
  <2>2. CASE c = scope /\ j < id
    <3>1. 3 \in 1..Len(k) /\ 3 <= Len(p) /\ k[3] < p[3] /\ \A h \in 1..3 - 1 : k[h] = p[h]
      BY ONLY <1>2, <1>3, <1>6, <2>2, SMTT(20)
    <3>. QED  BY <1>3, <1>6, <3>1, IsBelow
  <2>3. CASE c > scope \/ (c = scope /\ id < j)
    <3>0. Len(end) = 3 \/ Len(end) = 2
      BY <1>8
    <3>1. Len(end) < Len(k)
      <4>1. Len(k) \in Nat /\ Len(k) >= 5
        BY <1>3
      <4>2. PICK a, b : a = Len(end) /\ b = Len(k)
        OBVIOUS
      <4>3. (a = 3 \/ a = 2) /\ b \in Nat /\ b >= 5
        BY <3>0, <4>1, <4>2
      <4>4. a < b
        BY <4>3
      <4>. QED  BY <4>2, <4>4
    <3>2. \A i \in 1..Len(end) : (\A h \in 1..i - 1 : k[h] = end[h]) => end[i] <= k[i]
      <4>1. CASE id < MaxByte /\ Len(end) = 3 /\ end[2] = scope /\ end[3] = id + 1
        <5>. SUFFICES ASSUME NEW i \in 1..3, \A h \in 1..i - 1 : k[h] = end[h]
                      PROVE  end[i] <= k[i]
          BY <4>1
        <5>1. CASE i = 1
          <6>1. k[1] = 1 /\ end[1] = 1
            BY <1>3, <1>8
          <6>. QED  BY ONLY <5>1, <6>1
        <5>2. CASE i = 2
          BY <1>2, <1>3, <2>3, <4>1, <5>2
        <5>3. CASE i = 3
          <6>1. k[2] = end[2]
            BY <5>3
          <6>. QED  BY <1>2, <1>3, <2>3, <4>1, <5>3, <6>1
        <5>. QED  BY <5>1, <5>2, <5>3
      <4>2. CASE id = MaxByte /\ Len(end) = 2 /\ end[2] = scope + 1
        <5>. SUFFICES ASSUME NEW i \in 1..2, \A h \in 1..i - 1 : k[h] = end[h]
                      PROVE  end[i] <= k[i]
          BY <4>2
        <5>1. CASE i = 1
          <6>1. k[1] = 1 /\ end[1] = 1
            BY <1>3, <1>8
          <6>. QED  BY ONLY <5>1, <6>1
        <5>2. CASE i = 2
          <6>1. k[2] = c /\ end[2] = scope + 1
            BY <1>3, <4>2
          <6>2. scope + 1 <= c
            <7>1. c \in 1..3
              BY <1>3
            <7>. QED  BY ONLY <1>2, <2>3, <4>2, <7>1, j \in 0..MaxByte
          <6>. QED  BY ONLY <5>2, <6>1, <6>2
        <5>. QED  BY <5>1, <5>2
      <4>. QED  BY <1>8, <4>1, <4>2
    <3>. QED  BY <1>3, <1>9, <3>1, <3>2, NotBelow
  <2>. QED  BY <1>2, <1>3, <2>1, <2>2, <2>3
<1>. QED  BY <1>1, <1>4, <1>7, <1>9, <1>10 DEF DeletePrefix

----------------------------------------------------------------------------
(* Counts, buckets and what lies where.                                    *)

\* The three counts.
LEMMA Fields == DOMAIN Zero = {"manifest_pulls", "blob_pulls", "bytes_out"}
BY DEF Zero

\* What counts are.
LEMMA CountsAre ==
    ASSUME NEW c
    PROVE  c \in Counts <=> /\ c = [f \in DOMAIN Zero |-> c[f]]
                            /\ \A f \in DOMAIN Zero : c[f] \in Nat
BY DEF Counts

\* The counts of one response.
LEMMA PullCounts ==
    /\ Zero \in Counts /\ \A f \in DOMAIN Zero : Zero[f] = 0
    /\ ManifestPull \in Counts
    /\ \A n \in Nat : BlobPull(n) \in Counts
<1>1. Zero = [f \in DOMAIN Zero |-> 0]
  BY Fields DEF Zero
<1>2. Zero \in Counts /\ \A f \in DOMAIN Zero : Zero[f] = 0
  BY <1>1 DEF Counts
<1>3. ManifestPull \in Counts
  BY <1>2 DEF ManifestPull, Counts
<1>4. ASSUME NEW n \in Nat PROVE BlobPull(n) \in Counts
  BY <1>2 DEF BlobPull, Counts
<1>. QED  BY <1>2, <1>3, <1>4

\* Sums of counts.
LEMMA PlusFacts ==
    ASSUME NEW a \in Counts, NEW b \in Counts
    PROVE  Plus(a, b) \in Counts /\ \A f \in DOMAIN Zero : Plus(a, b)[f] = a[f] + b[f]
BY DEF Plus, Counts

\* Differences of counts.
LEMMA MinusFacts ==
    ASSUME NEW a, NEW b
    PROVE  /\ Minus(a, b) = [f \in DOMAIN Zero |-> a[f] - b[f]]
           /\ \A f \in DOMAIN Zero : Minus(a, b)[f] = a[f] - b[f]
BY DEF Minus

\* Saturation.
LEMMA ClipFacts ==
    ASSUME NEW c \in Counts
    PROVE  /\ Clip(c) \in Counts /\ Clip(Clip(c)) = Clip(c)
           /\ \A f \in DOMAIN Zero : /\ Clip(c)[f] <= c[f] /\ Clip(c)[f] \in Nat
                                     /\ Excess(c)[f] = c[f] - Clip(c)[f]
<1>0. MaxCount \in Nat
  BY CounterAssumption
<1>1. \A f \in DOMAIN Zero : c[f] \in Nat
  BY DEF Counts
<1>2. PICK m, b : /\ m = (IF c["manifest_pulls"] > MaxCount THEN MaxCount ELSE c["manifest_pulls"])
                  /\ b = (IF c["blob_pulls"] > MaxCount THEN MaxCount ELSE c["blob_pulls"])
  OBVIOUS
<1>3. /\ m \in Nat /\ m <= c["manifest_pulls"] /\ m <= MaxCount
      /\ b \in Nat /\ b <= c["blob_pulls"] /\ b <= MaxCount
  BY <1>0, <1>1, <1>2, Fields
<1>4. Clip(c) = [c EXCEPT !["manifest_pulls"] = m, !["blob_pulls"] = b]
  BY <1>2 DEF Clip, Counts
<1>5. PICK d : d = Clip(c)
  OBVIOUS
<1>6. /\ d \in Counts /\ d["manifest_pulls"] = m /\ d["blob_pulls"] = b
      /\ d["bytes_out"] = c["bytes_out"]
  BY <1>3, <1>4, <1>5, Fields DEF Counts
<1>7. Clip(d) = d
  <2>0. /\ (IF d["manifest_pulls"] > MaxCount THEN MaxCount ELSE d["manifest_pulls"]) = m
        /\ (IF d["blob_pulls"] > MaxCount THEN MaxCount ELSE d["blob_pulls"]) = b
    BY <1>0, <1>3, <1>6
  <2>1. Clip(d) = [d EXCEPT !["manifest_pulls"] = m, !["blob_pulls"] = b]
    BY <1>6, <2>0 DEF Clip, Counts
  <2>. QED  BY <1>6, <2>1, Fields DEF Counts
<1>8. \A f \in DOMAIN Zero : d[f] <= c[f] /\ d[f] \in Nat
  BY <1>1, <1>3, <1>6, Fields
<1>. QED  BY <1>5, <1>6, <1>7, <1>8 DEF Excess

\* What a map of counts has for a key.
LEMMA TallyFacts ==
    ASSUME NEW m, m \in [DOMAIN m -> Counts], NEW k
    PROVE  /\ Tally(m, k) \in Counts
           /\ \A f \in DOMAIN Zero : Tally(m, k)[f] \in Nat
<1>1. Tally(m, k) \in Counts
  BY PullCounts DEF Tally
<1>. QED  BY <1>1 DEF Counts

\* The bucket stored for a group.
LEMMA BucketFacts ==
    ASSUME StoredOK, NEW id, NEW g
    PROVE  /\ BucketOf(id, g) \in Buckets /\ BucketOf(id, g) \in [Hours -> Counts]
           /\ EmptyBucket \in Buckets
<1>1. EmptyBucket \in Buckets
  <2>1. Clip(Zero) = Zero
    <3>1. MaxCount \in Nat /\ ~(0 > MaxCount)
      BY CounterAssumption
    <3>2. Zero["manifest_pulls"] = 0 /\ Zero["blob_pulls"] = 0
      BY PullCounts, Fields
    <3>3. Clip(Zero) = [Zero EXCEPT !["manifest_pulls"] = 0, !["blob_pulls"] = 0]
      BY <3>1, <3>2 DEF Clip
    <3>. QED  BY <3>2, <3>3, PullCounts, Fields DEF Counts
  <2>. QED  BY <2>1, PullCounts DEF EmptyBucket, Buckets
<1>2. BucketOf(id, g) \in Buckets
  BY <1>1 DEF BucketOf, StoredOK
<1>. QED  BY <1>1, <1>2 DEF Buckets

\* What is held under an id.
LEMMA HeldFacts ==
    ASSUME StoredOK, NEW id, NEW k \in BucketKeys
    PROVE  /\ HeldUnder(id, k) \in Counts
           /\ \A f \in DOMAIN Zero : HeldUnder(id, k)[f] \in Nat
<1>1. k.hour \in Hours
  BY DEF BucketKeys
<1>2. HeldUnder(id, k) \in Counts
  BY <1>1, BucketFacts, PullCounts DEF HeldUnder
<1>. QED  BY <1>2 DEF Counts

\* What an open body has counted.
LEMMA OpenFacts ==
    ASSUME RestOK, NEW b \in Bodies, NEW k
    PROVE  /\ OpenIn(b, k) \in Counts
           /\ \A f \in DOMAIN Zero : OpenIn(b, k)[f] \in Nat
<1>1. bodies[b] # None => bodies[b].bytes \in Nat
  BY CounterAssumption DEF RestOK, BodyStates
<1>2. OpenIn(b, k) \in Counts
  BY <1>1, PullCounts DEF OpenIn
<1>. QED  BY <1>2 DEF Counts

\* The ids not yet swept are some of those minted.
LEMMA KeptFacts ==
    ASSUME ReposOK
    PROVE  /\ Kept \in SUBSET Ids /\ IsFiniteSet(Kept)
           /\ Ids \in SUBSET (0..MaxByte) /\ Ids \in SUBSET Nat
<1>1. Kept \in SUBSET Ids
  BY DEF ReposOK, Kept
<1>2. Len(owner) \in Nat /\ Len(owner) <= MaxByte /\ MaxByte \in Nat
  BY ByteAssumption, CounterAssumption, ValueAssumption DEF ReposOK
<1>3. IsFiniteSet(Ids)
  BY <1>2, FS_Interval DEF Ids
<1>4. Ids \in SUBSET (0..MaxByte) /\ Ids \in SUBSET Nat
  BY <1>2 DEF Ids
<1>. QED  BY <1>1, <1>3, <1>4, FS_Subset

\* The parts of the balance are numbers.
LEMMA PartsNat ==
    ASSUME ReposOK, StoredOK, RestOK, NEW k \in BucketKeys, NEW f \in DOMAIN Zero
    PROVE  Held(k, f) \in Nat /\ Open(k, f) \in Nat
<1>1. PICK h, o : /\ h = [id \in Kept |-> HeldUnder(id, k)[f]]
                  /\ o = [b \in Bodies |-> OpenIn(b, k)[f]]
  OBVIOUS
<1>2. (\A id \in Kept : h[id] \in Nat) /\ (\A b \in Bodies : o[b] \in Nat)
  BY <1>1, HeldFacts, OpenFacts
<1>3. Pile(h, Kept) \in Nat
  BY <1>2, KeptFacts, PileNat
<1>4. Pile(o, Bodies) \in Nat
  BY <1>2, ValueAssumption, PileNat
<1>. QED  BY <1>1, <1>3, <1>4 DEF Held, Open

\* The balance, count by count, is the balance of the buckets.
LEMMA BalancedConserves ==
    ASSUME CountInv
    PROVE  Conserved
<1>. USE DEF CountInv
<1>. SUFFICES ASSUME NEW k \in BucketKeys
              PROVE  owed[k] = Plus(Plus(OpenBodies[k], HeldBy(Kept)[k]),
                                    Plus(Tally(dirty, k), Tally(flush.deltas, k)))
  BY DEF Conserved
<1>1. PICK o, h, d, l : /\ o = OpenBodies[k] /\ h = HeldBy(Kept)[k] /\ d = Tally(dirty, k)
                        /\ l = Tally(flush.deltas, k)
  OBVIOUS
<1>2. o = [f \in DOMAIN Zero |-> Open(k, f)] /\ h = [f \in DOMAIN Zero |-> Held(k, f)]
  BY <1>1 DEF OpenBodies, HeldBy, Open, Held
<1>3. o \in Counts /\ h \in Counts
  BY <1>2, PartsNat DEF Counts
<1>4. d \in Counts /\ l \in Counts /\ owed[k] \in Counts
  BY <1>1, TallyFacts DEF DirtyOK, MapOK, FlushOK, OwedOK
<1>5. \A f \in DOMAIN Zero : owed[k][f] = o[f] + h[f] + d[f] + l[f]
  BY <1>1, <1>2 DEF Balanced
<1>6. PICK x, y : x = Plus(o, h) /\ y = Plus(d, l)
  OBVIOUS
<1>7. /\ x \in Counts /\ y \in Counts
      /\ \A f \in DOMAIN Zero : x[f] = o[f] + h[f] /\ y[f] = d[f] + l[f]
  BY <1>3, <1>4, <1>6, PlusFacts
<1>8. PICK z : z = Plus(x, y)
  OBVIOUS
<1>9. z \in Counts /\ \A f \in DOMAIN Zero : z[f] = x[f] + y[f]
  BY <1>7, <1>8, PlusFacts
<1>10. \A f \in DOMAIN Zero : owed[k][f] = z[f]
  <2>. TAKE f \in DOMAIN Zero
  <2>1. o[f] \in Nat /\ h[f] \in Nat /\ d[f] \in Nat /\ l[f] \in Nat
    BY <1>3, <1>4 DEF Counts
  <2>. QED  BY <1>5, <1>7, <1>9, <2>1
<1>11. owed[k] = z
  BY <1>4, <1>9, <1>10 DEF Counts
<1>. QED  BY <1>1, <1>6, <1>8, <1>11

\* The invariant has the types.
LEMMA InvTypes ==
    ASSUME CountInv
    PROVE  TypeOK
<1>. USE DEF CountInv
<1>1. \A name \in Names : repos[name] \in Ids \cup {None}
  BY DEF ReposOK
<1>2. \A key \in DOMAIN stored, h \in Hours :
        stored[key][h] \in Counts /\ stored[key][h] = Clip(stored[key][h])
  BY DEF StoredOK, Buckets
<1>3. \A b \in Bodies : bodies[b] \in BodyStates \cup {None}
  BY DEF RestOK
<1>. QED  BY <1>1, <1>2, <1>3 DEF TypeOK, ReposOK, DirtyOK, MapOK, FlushOK, RestOK, Ids

----------------------------------------------------------------------------
(* The start.                                                              *)

\* The names in the order of their first ids.
LEMMA FirstOwners ==
    ASSUME NEW s, s = SetToSeq(Names)
    PROVE  /\ s \in Seq(Names) /\ Len(s) = Cardinality(Names) /\ Len(s) \in Nat
           /\ \A name \in Names : \E i \in DOMAIN s : s[i] = name
<1>1. PICK n : n = Cardinality(Names) /\ n \in Nat /\ ExistsBijection(1..n, Names)
  BY ValueAssumption, FS_CardinalityType
<1>2. PICK g \in Bijection(1..n, Names) : TRUE
  BY <1>1 DEF ExistsBijection
<1>3. g \in [1..n -> Names] /\ IsInjective(g)
  BY <1>2 DEF Bijection, Injection, IsInjective
<1>4. s \in [1..n -> Names] /\ IsInjective(s)
  BY <1>1, <1>3 DEF SetToSeq
<1>5. s \in Injection(1..n, Names)
  BY <1>4 DEF Injection, IsInjective
<1>6. Cardinality(1..n) = Cardinality(Names)
  BY <1>1, FS_Interval
<1>7. s \in Surjection(1..n, Names)
  BY <1>5, <1>6, ValueAssumption, FS_Injection
<1>8. \A name \in Names : \E i \in 1..n : s[i] = name
  BY <1>7 DEF Surjection
<1>. QED  BY <1>1, <1>4, <1>8

\* At first nothing was pulled and nothing is stored.
LEMMA CountsBegin == Init => CountInv
<1>. SUFFICES ASSUME Init PROVE CountInv
  OBVIOUS
<1>0. DOMAIN dirty = {} /\ DOMAIN stored = {} /\ dirty = <<>> /\ stored = <<>>
      /\ flush = Idle /\ flush.deltas = <<>> /\ flush.todo = {} /\ flush.batch = {}
      /\ flush.pc = "idle"
      /\ DOMAIN flush.deltas = {}
  BY DEF Init, Idle
<1>1. ReposOK
  <2>1. /\ owner \in Seq(Names) /\ Len(owner) = Cardinality(Names) /\ Len(owner) \in Nat
        /\ \A name \in Names : \E i \in DOMAIN owner : owner[i] = name
    BY FirstOwners DEF Init
  <2>2. DOMAIN owner = Ids
    BY <2>1 DEF Ids
  <2>3. \A name \in Names : repos[name] \in Ids /\ owner[repos[name]] = name
    BY <2>1, <2>2 DEF Init
  <2>4. repos \in [Names -> Ids \cup {None}]
    BY <2>3 DEF Init
  <2>5. Len(owner) <= MaxIds
    BY <2>1, CounterAssumption
  <2>6. dead \in SUBSET (Ids \ {repos[name] : name \in Names})
    BY DEF Init
  <2>. QED  BY <2>1, <2>3, <2>4, <2>5, <2>6 DEF ReposOK
<1>2. DirtyOK
  <2>1. IsFiniteSet({}) /\ Cardinality({}) = 0 /\ MAX_BUCKETS \in Nat
    BY FS_EmptySet, CounterAssumption
  <2>2. Cardinality(DOMAIN dirty) <= MAX_BUCKETS
    BY <1>0, <2>1
  <2>. QED  BY <1>0, <2>1, <2>2 DEF DirtyOK, MapOK, Init
<1>3. StoredOK
  BY <1>0 DEF StoredOK
<1>4. FlushOK
  BY <1>0 DEF FlushOK, Idle
<1>5. RestOK
  <2>1. MaxHour \in Nat
    BY CounterAssumption
  <2>. QED  BY <2>1 DEF RestOK, Init
<1>6. OwedOK
  BY PullCounts DEF OwedOK, Init
<1>7. Balanced
  <2>. SUFFICES ASSUME NEW k \in BucketKeys, NEW f \in DOMAIN Zero
                PROVE  owed[k][f] = Open(k, f) + Held(k, f) + Tally(dirty, k)[f]
                                      + Tally(flush.deltas, k)[f]
    BY DEF Balanced
  <2>0. Zero[f] = 0
    BY PullCounts
  <2>1. owed[k][f] = 0 /\ Tally(dirty, k)[f] = 0 /\ Tally(flush.deltas, k)[f] = 0
    BY <1>0, <2>0 DEF Init, Tally
  <2>2. Open(k, f) = 0
    <3>1. \A b \in Bodies : [x \in Bodies |-> OpenIn(x, k)[f]][b] = 0
      BY <2>0 DEF OpenIn, Init
    <3>. QED  BY <3>1, PileZero DEF Open
  <2>3. Held(k, f) = 0
    <3>1. k.hour \in Hours
      BY DEF BucketKeys
    <3>2. \A id \in Kept : [x \in Kept |-> HeldUnder(x, k)[f]][id] = 0
      BY <1>0, <2>0, <3>1 DEF HeldUnder, BucketOf, EmptyBucket
    <3>. QED  BY <3>2, PileZero DEF Held
  <2>. QED  BY <2>1, <2>2, <2>3
<1>. QED  BY <1>1, <1>2, <1>3, <1>4, <1>5, <1>6, <1>7 DEF CountInv

----------------------------------------------------------------------------
(* What a step leaves alone.                                               *)

\* The parts of the balance are numbers, as one formula.
NatParts == \A k \in BucketKeys, f \in DOMAIN Zero : Held(k, f) \in Nat /\ Open(k, f) \in Nat

\* The balance is made of numbers.
LEMMA PartsAre == ReposOK /\ StoredOK /\ RestOK => NatParts
BY PartsNat DEF NatParts

\* The history is a map of counts, when it is a map and balances.
OwedShape == owed = [k \in BucketKeys |-> [f \in DOMAIN Zero |-> owed[k][f]]]

\* So only the shape of what is owed has to be shown of a step.
LEMMA Settled ==
    ReposOK /\ DirtyOK /\ StoredOK /\ FlushOK /\ RestOK /\ OwedShape /\ Balanced => CountInv
<1>. SUFFICES ASSUME ReposOK, DirtyOK, StoredOK, FlushOK, RestOK, OwedShape, Balanced
              PROVE  OwedOK
  BY DEF CountInv
<1>1. \A k \in BucketKeys, f \in DOMAIN Zero : owed[k][f] \in Nat
  <2>. SUFFICES ASSUME NEW k \in BucketKeys, NEW f \in DOMAIN Zero PROVE owed[k][f] \in Nat
    OBVIOUS
  <2>1. Held(k, f) \in Nat /\ Open(k, f) \in Nat
    BY PartsNat
  <2>2. Tally(dirty, k)[f] \in Nat /\ Tally(flush.deltas, k)[f] \in Nat
    BY TallyFacts DEF DirtyOK, MapOK, FlushOK
  <2>. QED  BY <2>1, <2>2 DEF Balanced
<1>2. PICK v : v = owed
  OBVIOUS
<1>3. v = [k \in BucketKeys |-> [f \in DOMAIN Zero |-> v[k][f]]]
  BY <1>2 DEF OwedShape
<1>4. \A k \in BucketKeys : v[k] \in Counts
  BY <1>1, <1>2, <1>3 DEF Counts
<1>. QED  BY <1>2, <1>3, <1>4 DEF OwedOK

\* After a step, likewise.
LEMMA SettledNext ==
    ASSUME ReposOK', DirtyOK', StoredOK', FlushOK', RestOK', OwedShape', Balanced'
    PROVE  CountInv'
BY Settled, PTL

\* What is held, while nobody writes the store or the names.
LEMMA HeldStays ==
    ASSUME UNCHANGED <<repos, owner, dead, stored>>
    PROVE  /\ Kept' = Kept /\ \A k, f : Held(k, f)' = Held(k, f)
           /\ \A id, g : BucketOf(id, g)' = BucketOf(id, g)
<1>1. Kept' = Kept /\ \A id, g : BucketOf(id, g)' = BucketOf(id, g)
  BY DEF Kept, BucketOf
<1>2. \A k, f : Held(k, f)' = Held(k, f)
  BY DEF Held, HeldUnder, BucketOf, Kept
<1>. QED  BY <1>1, <1>2

\* What the open bodies have counted, while none moves.
LEMMA OpenStays ==
    ASSUME UNCHANGED bodies
    PROVE  \A k, f : Open(k, f)' = Open(k, f)
BY DEF Open, OpenIn

\* The names.
LEMMA ReposStay ==
    ASSUME ReposOK, UNCHANGED <<repos, owner, dead>>
    PROVE  ReposOK' /\ Ids' = Ids
BY DEF ReposOK, Ids

\* The accumulator.
LEMMA DirtyStays ==
    ASSUME DirtyOK, UNCHANGED <<dirty, dropped>>
    PROVE  DirtyOK'
BY DEF DirtyOK, MapOK

\* The store.
LEMMA StoredStays ==
    ASSUME StoredOK, UNCHANGED <<stored, owner>>
    PROVE  StoredOK'
BY DEF StoredOK, Ids

\* The fold under way.
LEMMA FlushStays ==
    ASSUME FlushOK, UNCHANGED <<flush, repos, owner, dead, stored>>
    PROVE  FlushOK'
<1>1. Kept' = Kept /\ Ids' = Ids /\ \A id, g : Fold(id, g)' = Fold(id, g)
  BY DEF Kept, Ids, Fold, BucketOf
<1>2. \A p : PutOK(p)' = PutOK(p)
  BY <1>1 DEF PutOK
<1>. QED  BY <1>2 DEF FlushOK

\* The clock and the bodies.
LEMMA RestStays ==
    ASSUME RestOK, UNCHANGED <<now, enabled, bodies>>
    PROVE  RestOK'
BY DEF RestOK

\* The history.
LEMMA OwedStays ==
    ASSUME OwedOK
    PROVE  OwedShape /\ (UNCHANGED owed => OwedShape')
<1>1. OwedShape
  BY DEF OwedOK, OwedShape, Counts
<1>2. UNCHANGED owed => OwedShape'
  BY <1>1 DEF OwedShape
<1>. QED  BY <1>1, <1>2

----------------------------------------------------------------------------
(* Recording.                                                              *)

\* What one add does to the map: the count is added to its key and to no other,
\* unless the key is new and the map full.
AddsTo(d, out, key, c) ==
    /\ MapOK(out.dirty) /\ out.dropped \in Nat
    /\ out = [dirty |-> out.dirty, dropped |-> out.dropped]
    /\ \A k : k # key => (k \in DOMAIN out.dirty <=> k \in DOMAIN d)
    /\ \A k : Tally(out.dirty, k) = IF k = key /\ key \in DOMAIN out.dirty
                                    THEN Plus(Tally(d, k), c) ELSE Tally(d, k)

\* That is what add does.
LEMMA Adds ==
    ASSUME NEW d, MapOK(d), NEW n \in Nat, NEW key \in BucketKeys, NEW c \in Counts
    PROVE  AddsTo(d, add([dirty |-> d, dropped |-> n], key, c), key, c)
<1>1. PICK acc, out : acc = [dirty |-> d, dropped |-> n] /\ out = add(acc, key, c)
  OBVIOUS
<1>2. acc.dirty = d /\ acc.dropped = n
  BY <1>1
<1>3. MAX_BUCKETS \in Nat
  BY CounterAssumption
<1>4. DOMAIN d \in SUBSET BucketKeys /\ IsFiniteSet(DOMAIN d) /\ Cardinality(DOMAIN d) \in Nat
  BY FS_CardinalityType DEF MapOK
<1>5. CASE key \in DOMAIN d
  <2>1. out = [dirty |-> [d EXCEPT ![key] = Plus(@, c)], dropped |-> n]
    BY <1>1, <1>2, <1>5 DEF add
  <2>2. d[key] \in Counts /\ Plus(d[key], c) \in Counts
    BY <1>5, PlusFacts DEF MapOK
  <2>3. PICK e : e = [d EXCEPT ![key] = Plus(@, c)]
    OBVIOUS
  <2>4. DOMAIN e = DOMAIN d /\ e \in [DOMAIN d -> Counts] /\ e[key] = Plus(d[key], c)
        /\ \A k \in DOMAIN d : k # key => e[k] = d[k]
    BY <1>5, <2>2, <2>3 DEF MapOK
  <2>5. MapOK(e)
    BY <2>4 DEF MapOK
  <2>6. out.dirty = e /\ out.dropped = n
    BY <2>1, <2>3
  <2>. QED  BY <1>1, <1>5, <2>1, <2>4, <2>5, <2>6 DEF AddsTo, Tally
<1>6. CASE key \notin DOMAIN d /\ Cardinality(DOMAIN d) >= MAX_BUCKETS
  <2>1. out = [dirty |-> d, dropped |-> n + 1]
    BY <1>1, <1>2, <1>6 DEF add
  <2>. QED  BY <1>1, <1>6, <2>1 DEF AddsTo, Tally
<1>7. CASE key \notin DOMAIN d /\ ~(Cardinality(DOMAIN d) >= MAX_BUCKETS)
  <2>1. PICK e : e = [k \in DOMAIN d \cup {key} |-> IF k = key THEN c ELSE d[k]]
    OBVIOUS
  <2>2. out = [dirty |-> e, dropped |-> n]
    BY <1>1, <1>2, <1>7, <2>1 DEF add
  <2>3. out.dirty = e /\ out.dropped = n
    BY <2>2
  <2>4. /\ DOMAIN e = DOMAIN d \cup {key} /\ e \in [DOMAIN d \cup {key} -> Counts]
        /\ e[key] = c /\ \A k \in DOMAIN d : e[k] = d[k]
    BY <1>7, <2>1 DEF MapOK
  <2>5. /\ IsFiniteSet(DOMAIN d \cup {key})
        /\ Cardinality(DOMAIN d \cup {key}) = Cardinality(DOMAIN d) + 1
    BY <1>4, <1>7, FS_AddElement
  <2>6. MapOK(e)
    BY <1>3, <1>4, <1>7, <2>4, <2>5 DEF MapOK
  <2>7. Plus(Zero, c) = c
    BY PullCounts DEF Plus, Counts
  <2>8. \A k : Tally(e, k) = IF k = key THEN Plus(Tally(d, k), c) ELSE Tally(d, k)
    BY <1>7, <2>4, <2>7 DEF Tally
  <2>. QED  BY <1>1, <2>2, <2>3, <2>4, <2>6, <2>8 DEF AddsTo
<1>. QED  BY <1>5, <1>6, <1>7

\* The subjects a pull is counted for.
LEMMA SubjectsTyped ==
    /\ \A d \in Digests : Manifest(d) \in Subjects
    /\ \A t \in Tags : Tag(t) \in Subjects
    /\ Repo \in Subjects
    /\ \A d, t : Manifest(d) # Tag(t) /\ Manifest(d) # Repo /\ Tag(t) # Repo
<1>1. \A d \in Digests : Manifest(d) \in Subjects
  BY DEF Manifest, Subjects
<1>2. \A t \in Tags : Tag(t) \in Subjects
  BY DEF Tag, Subjects
<1>3. Repo \in Subjects
  BY DEF Repo, Subjects
<1>4. \A d, t : Manifest(d) # Tag(t) /\ Manifest(d) # Repo /\ Tag(t) # Repo
  <2>1. \A d, t : Manifest(d).kind = "manifest" /\ Tag(t).kind = "tag" /\ Repo.kind = "repo"
    BY DEF Manifest, Tag, Repo
  <2>. QED  BY <2>1
<1>. QED  BY <1>1, <1>2, <1>3, <1>4

\* What is owed grows where it is counted.
LEMMA OweFacts ==
    ASSUME NEW keys, NEW c \in Counts, Owe(keys, c), OwedOK
    PROVE  /\ OwedShape'
           /\ \A k \in BucketKeys, f \in DOMAIN Zero :
                 owed'[k][f] = owed[k][f] + (IF k \in keys THEN c[f] ELSE 0)
<1>1. \A k \in BucketKeys : owed[k] \in Counts
  BY DEF OwedOK
<1>2. owed' = [k \in BucketKeys |-> IF k \in keys THEN Plus(owed[k], c) ELSE owed[k]]
  BY DEF Owe
<1>3. \A k \in BucketKeys : Plus(owed[k], c) \in Counts
                              /\ \A f \in DOMAIN Zero : Plus(owed[k], c)[f] = owed[k][f] + c[f]
  BY <1>1, PlusFacts
<1>4. \A k \in BucketKeys : owed'[k] \in Counts
  BY <1>1, <1>2, <1>3
<1>5. \A k \in BucketKeys, f \in DOMAIN Zero : owed[k][f] \in Nat
  BY <1>1 DEF Counts
<1>6. \A k \in BucketKeys, f \in DOMAIN Zero :
         owed'[k][f] = owed[k][f] + (IF k \in keys THEN c[f] ELSE 0)
  BY <1>2, <1>3, <1>5
<1>7. OwedShape'
  <2>1. PICK v : v = owed'
    OBVIOUS
  <2>2. \A k \in BucketKeys : v[k] = [f \in DOMAIN Zero |-> v[k][f]]
    BY <1>4, <2>1 DEF Counts
  <2>3. v = [k \in BucketKeys |-> v[k]]
    BY <1>2, <2>1
  <2>4. v = [k \in BucketKeys |-> [f \in DOMAIN Zero |-> v[k][f]]]
    BY <2>2, <2>3
  <2>. QED  BY <2>1, <2>4 DEF OwedShape
<1>. QED  BY <1>6, <1>7

\* The balance before a step, and its parts.
LEMMA BalanceNow ==
    ASSUME CountInv, NEW k \in BucketKeys, NEW f \in DOMAIN Zero
    PROVE  /\ owed[k][f] = Open(k, f) + Held(k, f) + Tally(dirty, k)[f] + Tally(flush.deltas, k)[f]
           /\ owed[k][f] \in Nat /\ Open(k, f) \in Nat /\ Held(k, f) \in Nat
           /\ Tally(dirty, k)[f] \in Nat /\ Tally(flush.deltas, k)[f] \in Nat
<1>. USE DEF CountInv
<1>1. Held(k, f) \in Nat /\ Open(k, f) \in Nat
  BY PartsNat
<1>2. Tally(dirty, k)[f] \in Nat /\ Tally(flush.deltas, k)[f] \in Nat
  BY TallyFacts DEF DirtyOK, MapOK, FlushOK
<1>3. owed[k][f] = Open(k, f) + Held(k, f) + Tally(dirty, k)[f] + Tally(flush.deltas, k)[f]
  BY DEF Balanced
<1>. QED  BY ONLY <1>1, <1>2, <1>3

\* A manifest pull.
LEMMA PullKeeps ==
    ASSUME CountInv, NEW name \in Names, NEW d \in Digests, NEW t \in Tags \cup {None},
           record_manifest_pull(name, t, d)
    PROVE  CountInv'
<1>. USE DEF CountInv
<1>1. PICK km, kt, kr : /\ km = Key(name, Manifest(d), now) /\ kt = Key(name, Tag(t), now)
                        /\ kr = Key(name, Repo, now)
  OBVIOUS
<1>2. now \in 0..MaxHour
  BY DEF RestOK
<1>3. km \in BucketKeys /\ kr \in BucketKeys /\ (t # None => kt \in BucketKeys)
  BY <1>1, <1>2, SubjectsTyped, KeyTyped
<1>4. km # kt /\ km # kr /\ kt # kr
  <2>1. km.subject = Manifest(d) /\ kt.subject = Tag(t) /\ kr.subject = Repo
    BY <1>1 DEF Key
  <2>. QED  BY <2>1, SubjectsTyped
<1>5. PICK a1 : a1 = add(Accumulator, km, ManifestPull)
  OBVIOUS
<1>6. PICK a2 : a2 = IF t = None THEN a1 ELSE add(a1, kt, ManifestPull)
  OBVIOUS
<1>7. PICK a3 : a3 = add(a2, kr, ManifestPull)
  OBVIOUS
<1>8. PICK keys : keys = (IF t = None THEN {km, kr} ELSE {km, kt, kr}) \cap DOMAIN dirty'
  OBVIOUS
<1>9. /\ dirty' = a3.dirty /\ dropped' = a3.dropped
      /\ Owe(keys, ManifestPull)
      /\ UNCHANGED <<now, enabled, repos, owner, dead, bodies, flush, stored>>
  BY <1>1, <1>5, <1>6, <1>7, <1>8 DEF record_manifest_pull, Record
<1>10. AddsTo(dirty, a1, km, ManifestPull)
  BY <1>3, <1>5, Adds, PullCounts DEF DirtyOK, Accumulator
<1>11. /\ MapOK(a2.dirty) /\ a2.dropped \in Nat /\ a2 = [dirty |-> a2.dirty, dropped |-> a2.dropped]
       /\ \A k : k # kt \/ t = None => (k \in DOMAIN a2.dirty <=> k \in DOMAIN a1.dirty)
       /\ \A k : Tally(a2.dirty, k) = IF t # None /\ k = kt /\ kt \in DOMAIN a2.dirty
                                      THEN Plus(Tally(a1.dirty, k), ManifestPull)
                                      ELSE Tally(a1.dirty, k)
  <2>0. MapOK(a1.dirty) /\ a1.dropped \in Nat /\ a1 = [dirty |-> a1.dirty, dropped |-> a1.dropped]
    BY <1>10 DEF AddsTo
  <2>1. CASE t = None
    BY <1>6, <2>0, <2>1
  <2>2. CASE t # None
    <3>1. AddsTo(a1.dirty, add([dirty |-> a1.dirty, dropped |-> a1.dropped], kt, ManifestPull),
                 kt, ManifestPull)
      BY <1>3, <2>0, <2>2, Adds, PullCounts
    <3>2. AddsTo(a1.dirty, a2, kt, ManifestPull)
      BY <1>6, <2>0, <2>2, <3>1
    <3>. QED  BY <2>2, <3>2 DEF AddsTo
  <2>. QED  BY <2>1, <2>2
<1>12. AddsTo(a2.dirty, a3, kr, ManifestPull)
  <2>1. AddsTo(a2.dirty, add([dirty |-> a2.dirty, dropped |-> a2.dropped], kr, ManifestPull),
               kr, ManifestPull)
    BY <1>3, <1>11, Adds, PullCounts
  <2>. QED  BY <1>7, <1>11, <2>1
<1>13. \A k : Tally(dirty', k) = IF k \in keys THEN Plus(Tally(dirty, k), ManifestPull)
                                 ELSE Tally(dirty, k)
  <2>1. /\ \A k : k # km => (k \in DOMAIN a1.dirty <=> k \in DOMAIN dirty)
        /\ \A k : Tally(a1.dirty, k) = IF k = km /\ km \in DOMAIN a1.dirty
                                       THEN Plus(Tally(dirty, k), ManifestPull) ELSE Tally(dirty, k)
    BY <1>10 DEF AddsTo
  <2>2. /\ \A k : k # kr => (k \in DOMAIN a3.dirty <=> k \in DOMAIN a2.dirty)
        /\ \A k : Tally(a3.dirty, k) = IF k = kr /\ kr \in DOMAIN a3.dirty
                                       THEN Plus(Tally(a2.dirty, k), ManifestPull)
                                       ELSE Tally(a2.dirty, k)
    BY <1>12 DEF AddsTo
  <2>. QED  BY ONLY <1>4, <1>8, <1>9, <1>11, <2>1, <2>2
<1>14. DirtyOK'
  BY <1>9, <1>12 DEF AddsTo, DirtyOK, MapOK
<1>15. ReposOK' /\ StoredOK' /\ FlushOK' /\ RestOK'
  BY <1>9, ReposStay, StoredStays, FlushStays, RestStays
<1>16. /\ OwedShape'
       /\ \A k \in BucketKeys, f \in DOMAIN Zero :
             owed'[k][f] = owed[k][f] + (IF k \in keys THEN ManifestPull[f] ELSE 0)
  BY <1>9, OweFacts, PullCounts
<1>17. Balanced'
  <2>. SUFFICES ASSUME NEW k \in BucketKeys, NEW f \in DOMAIN Zero
                PROVE  owed'[k][f] = Open(k, f)' + Held(k, f)' + Tally(dirty', k)[f]
                                      + Tally(flush'.deltas, k)[f]
    BY DEF Balanced, Tally
  <2>1. Open(k, f)' = Open(k, f) /\ Held(k, f)' = Held(k, f) /\ flush' = flush
    BY <1>9, OpenStays, HeldStays
  <2>2. /\ owed[k][f] = Open(k, f) + Held(k, f) + Tally(dirty, k)[f] + Tally(flush.deltas, k)[f]
        /\ owed[k][f] \in Nat /\ Open(k, f) \in Nat /\ Held(k, f) \in Nat
        /\ Tally(dirty, k)[f] \in Nat /\ Tally(flush.deltas, k)[f] \in Nat
    BY BalanceNow
  <2>3. ManifestPull[f] \in Nat
    BY PullCounts DEF Counts
  <2>4. Plus(Tally(dirty, k), ManifestPull)[f] = Tally(dirty, k)[f] + ManifestPull[f]
    BY DEF Plus
  <2>5. Tally(dirty', k)[f] = Tally(dirty, k)[f] + (IF k \in keys THEN ManifestPull[f] ELSE 0)
    BY <1>13, <2>2, <2>3, <2>4
  <2>6. owed'[k][f] = owed[k][f] + (IF k \in keys THEN ManifestPull[f] ELSE 0)
    BY <1>16
  <2>. QED  BY ONLY <2>1, <2>2, <2>3, <2>5, <2>6
<1>. QED  BY <1>14, <1>15, <1>16, <1>17, SettledNext

----------------------------------------------------------------------------
(* Blob responses.                                                         *)

\* What open bodies have counted are numbers, as one formula.
OpenNats == \A b \in Bodies, k \in BucketKeys, f \in DOMAIN Zero : OpenIn(b, k)[f] \in Nat

\* They are.
LEMMA OpenNat == RestOK => OpenNats
BY OpenFacts DEF OpenNats

\* They are after a step.
LEMMA OpenNatNext ==
    ASSUME RestOK'
    PROVE  OpenNats'
BY OpenNat, PTL

\* One body moves.
LEMMA OpenChange ==
    ASSUME RestOK, RestOK', NEW b \in Bodies, \A c \in Bodies \ {b} : bodies'[c] = bodies[c],
           NEW k \in BucketKeys, NEW f \in DOMAIN Zero
    PROVE  /\ Open(k, f)' = Open(k, f) - OpenIn(b, k)[f] + OpenIn(b, k)'[f]
           /\ OpenIn(b, k)[f] \in Nat /\ OpenIn(b, k)'[f] \in Nat
<1>1. PICK o, p : o = [c \in Bodies |-> OpenIn(c, k)[f]] /\ p = [c \in Bodies |-> OpenIn(c, k)'[f]]
  OBVIOUS
<1>2. \A c \in Bodies : o[c] \in Nat /\ p[c] \in Nat
  BY <1>1, OpenNat, OpenNatNext DEF OpenNats
<1>3. \A c \in Bodies \ {b} : o[c] = p[c]
  BY <1>1 DEF OpenIn
<1>4. Pile(p, Bodies) = Pile(o, Bodies) - o[b] + p[b]
  BY ONLY <1>2, <1>3, PileChange, ValueAssumption, b \in Bodies
<1>5. Open(k, f) = Pile(o, Bodies) /\ Open(k, f)' = Pile(p, Bodies)
  BY <1>1 DEF Open
<1>. QED  BY <1>1, <1>2, <1>4, <1>5

\* The key of an open body.
LEMMA BodyKey ==
    ASSUME RestOK, NEW b \in Bodies, bodies[b] # None
    PROVE  /\ bodies[b] \in BodyStates /\ bodies[b].bytes \in Nat
           /\ Key(bodies[b].repo, Repo, bodies[b].at) \in BucketKeys
<1>1. bodies[b] \in BodyStates
  BY DEF RestOK
<1>2. bodies[b].repo \in Names /\ bodies[b].at \in 0..MaxHour /\ bodies[b].bytes \in Nat
  BY <1>1, CounterAssumption DEF BodyStates
<1>. QED  BY <1>1, <1>2, KeyTyped, SubjectsTyped

\* The counts of a blob response, one by one.
LEMMA BlobCounts ==
    ASSUME NEW n \in Nat, NEW f \in DOMAIN Zero
    PROVE  /\ BlobPull(n) \in Counts /\ BlobPull(n)[f] \in Nat
           /\ [Zero EXCEPT !.bytes_out = 1] \in Counts
           /\ BlobPull(n + 1)[f] = BlobPull(n)[f] + [Zero EXCEPT !.bytes_out = 1][f]
<1>1. PICK z : z = Zero
  OBVIOUS
<1>2. z \in [DOMAIN Zero -> Nat] /\ \A g \in DOMAIN Zero : z[g] = 0
  BY <1>1, PullCounts DEF Counts
<1>3. PICK one : one = [Zero EXCEPT !.bytes_out = 1]
  OBVIOUS
<1>4. /\ one \in [DOMAIN Zero -> Nat]
      /\ \A g \in DOMAIN Zero : one[g] = IF g = "bytes_out" THEN 1 ELSE 0
  BY <1>1, <1>2, <1>3
<1>5. ASSUME NEW m \in Nat
      PROVE  /\ BlobPull(m) \in [DOMAIN Zero -> Nat]
             /\ \A g \in DOMAIN Zero : BlobPull(m)[g] = IF g = "bytes_out" THEN m
                                                        ELSE IF g = "blob_pulls" THEN 1 ELSE 0
  BY <1>1, <1>2, Fields DEF BlobPull
<1>6. BlobPull(n) \in Counts /\ BlobPull(n)[f] \in Nat
  BY <1>5 DEF Counts
<1>7. BlobPull(n + 1)[f] = BlobPull(n)[f] + one[f]
  <2>1. n + 1 \in Nat
    OBVIOUS
  <2>2. BlobPull(n)[f] = IF f = "bytes_out" THEN n ELSE IF f = "blob_pulls" THEN 1 ELSE 0
    BY <1>5
  <2>3. BlobPull(n + 1)[f] = IF f = "bytes_out" THEN n + 1 ELSE IF f = "blob_pulls" THEN 1 ELSE 0
    BY <1>5, <2>1
  <2>4. one[f] = IF f = "bytes_out" THEN 1 ELSE 0
    BY <1>4
  <2>. QED  BY ONLY <2>2, <2>3, <2>4, n \in Nat
<1>. QED  BY <1>3, <1>4, <1>6, <1>7 DEF Counts

\* A blob response starts.
LEMMA MeterKeeps ==
    ASSUME CountInv, NEW b \in Bodies, NEW name \in Names, meter_blob(b, name)
    PROVE  CountInv'
<1>. USE DEF CountInv
<1>1. PICK key, new : key = Key(name, Repo, now) /\ new = [repo |-> name, at |-> now, bytes |-> 0]
  OBVIOUS
<1>2. /\ bodies[b] = None /\ bodies' = [bodies EXCEPT ![b] = new]
      /\ Owe({key}, BlobPull(0))
      /\ UNCHANGED <<now, enabled, repos, owner, dead, dirty, dropped, flush, stored>>
  BY <1>1 DEF meter_blob
<1>3. now \in 0..MaxHour /\ bodies \in [Bodies -> BodyStates \cup {None}]
  BY DEF RestOK
<1>4. key \in BucketKeys
  BY <1>1, <1>3, KeyTyped, SubjectsTyped
<1>5. new \in BodyStates /\ new # None
  BY <1>1, <1>3, CounterAssumption, ValueAssumption DEF BodyStates
<1>6. RestOK'
  BY <1>2, <1>3, <1>5 DEF RestOK
<1>7. ReposOK' /\ DirtyOK' /\ StoredOK' /\ FlushOK'
  BY <1>2, ReposStay, DirtyStays, StoredStays, FlushStays
<1>8. /\ OwedShape'
      /\ \A k \in BucketKeys, f \in DOMAIN Zero :
            owed'[k][f] = owed[k][f] + (IF k \in {key} THEN BlobPull(0)[f] ELSE 0)
  BY <1>2, OweFacts, PullCounts
<1>9. Balanced'
  <2>. SUFFICES ASSUME NEW k \in BucketKeys, NEW f \in DOMAIN Zero
                PROVE  owed'[k][f] = Open(k, f)' + Held(k, f)' + Tally(dirty', k)[f]
                                      + Tally(flush'.deltas, k)[f]
    BY DEF Balanced, Tally
  <2>1. Held(k, f)' = Held(k, f) /\ flush' = flush /\ dirty' = dirty
    BY <1>2, HeldStays
  <2>2. /\ owed[k][f] = Open(k, f) + Held(k, f) + Tally(dirty, k)[f] + Tally(flush.deltas, k)[f]
        /\ owed[k][f] \in Nat /\ Open(k, f) \in Nat /\ Held(k, f) \in Nat
        /\ Tally(dirty, k)[f] \in Nat /\ Tally(flush.deltas, k)[f] \in Nat
    BY BalanceNow
  <2>3. \A c \in Bodies \ {b} : bodies'[c] = bodies[c]
    BY <1>2, <1>3
  <2>4. /\ Open(k, f)' = Open(k, f) - OpenIn(b, k)[f] + OpenIn(b, k)'[f]
        /\ OpenIn(b, k)[f] \in Nat /\ OpenIn(b, k)'[f] \in Nat
    BY <1>6, <2>3, OpenChange
  <2>5. OpenIn(b, k)[f] = 0
    BY <1>2, PullCounts DEF OpenIn
  <2>6. OpenIn(b, k)'[f] = IF k \in {key} THEN BlobPull(0)[f] ELSE 0
    <3>1. bodies'[b] = new /\ new.repo = name /\ new.at = now /\ new.bytes = 0
      BY <1>1, <1>2, <1>3
    <3>2. OpenIn(b, k)' = IF k = key THEN BlobPull(0) ELSE Zero
      BY <1>1, <1>5, <3>1 DEF OpenIn
    <3>. QED  BY <3>2, PullCounts
  <2>7. owed'[k][f] = owed[k][f] + (IF k \in {key} THEN BlobPull(0)[f] ELSE 0)
    BY <1>8
  <2>. QED  BY ONLY <2>1, <2>2, <2>4, <2>5, <2>6, <2>7
<1>. QED  BY <1>6, <1>7, <1>8, <1>9, SettledNext

\* A chunk goes out.
LEMMA PollKeeps ==
    ASSUME CountInv, NEW b \in Bodies, poll_next(b)
    PROVE  CountInv'
<1>. USE DEF CountInv
<1>1. PICK old, key, one : /\ old = bodies[b] /\ key = Key(old.repo, Repo, old.at)
                           /\ one = [Zero EXCEPT !.bytes_out = 1]
  OBVIOUS
<1>2. /\ old # None /\ old.bytes < MaxChunks /\ bodies' = [bodies EXCEPT ![b].bytes = @ + 1]
      /\ Owe({key}, one)
      /\ UNCHANGED <<now, enabled, repos, owner, dead, dirty, dropped, flush, stored>>
  BY <1>1 DEF poll_next
<1>3. /\ bodies \in [Bodies -> BodyStates \cup {None}] /\ old \in BodyStates
      /\ old.bytes \in Nat /\ key \in BucketKeys
  BY <1>1, <1>2, BodyKey DEF RestOK
<1>4. PICK new : new = [old EXCEPT !.bytes = @ + 1]
  OBVIOUS
<1>5. /\ new \in BodyStates /\ new # None /\ new.repo = old.repo /\ new.at = old.at
      /\ new.bytes = old.bytes + 1
  <2>1. MaxChunks \in Nat
    BY CounterAssumption
  <2>2. old.bytes + 1 \in 0..MaxChunks
    BY <1>2, <1>3, <2>1
  <2>. QED  BY <1>3, <1>4, <2>2, ValueAssumption DEF BodyStates
<1>6. bodies' = [bodies EXCEPT ![b] = new]
  BY <1>1, <1>2, <1>3, <1>4
<1>7. RestOK'
  BY <1>2, <1>3, <1>5, <1>6 DEF RestOK
<1>8. ReposOK' /\ DirtyOK' /\ StoredOK' /\ FlushOK'
  BY <1>2, ReposStay, DirtyStays, StoredStays, FlushStays
<1>9. one \in Counts
  BY <1>1, BlobCounts, Fields
<1>10. /\ OwedShape'
       /\ \A k \in BucketKeys, f \in DOMAIN Zero :
             owed'[k][f] = owed[k][f] + (IF k \in {key} THEN one[f] ELSE 0)
  BY <1>2, <1>9, OweFacts
<1>11. Balanced'
  <2>. SUFFICES ASSUME NEW k \in BucketKeys, NEW f \in DOMAIN Zero
                PROVE  owed'[k][f] = Open(k, f)' + Held(k, f)' + Tally(dirty', k)[f]
                                      + Tally(flush'.deltas, k)[f]
    BY DEF Balanced, Tally
  <2>1. Held(k, f)' = Held(k, f) /\ flush' = flush /\ dirty' = dirty
    BY <1>2, HeldStays
  <2>2. /\ owed[k][f] = Open(k, f) + Held(k, f) + Tally(dirty, k)[f] + Tally(flush.deltas, k)[f]
        /\ owed[k][f] \in Nat /\ Open(k, f) \in Nat /\ Held(k, f) \in Nat
        /\ Tally(dirty, k)[f] \in Nat /\ Tally(flush.deltas, k)[f] \in Nat
    BY BalanceNow
  <2>3. \A c \in Bodies \ {b} : bodies'[c] = bodies[c]
    BY <1>3, <1>6
  <2>4. /\ Open(k, f)' = Open(k, f) - OpenIn(b, k)[f] + OpenIn(b, k)'[f]
        /\ OpenIn(b, k)[f] \in Nat /\ OpenIn(b, k)'[f] \in Nat
    BY <1>7, <2>3, OpenChange
  <2>5. OpenIn(b, k) = IF k = key THEN BlobPull(old.bytes) ELSE Zero
    BY <1>1, <1>2 DEF OpenIn
  <2>6. OpenIn(b, k)' = IF k = key THEN BlobPull(old.bytes + 1) ELSE Zero
    <3>1. bodies'[b] = new
      BY <1>3, <1>6
    <3>. QED  BY <1>1, <1>5, <3>1 DEF OpenIn
  <2>7. OpenIn(b, k)'[f] = OpenIn(b, k)[f] + (IF k \in {key} THEN one[f] ELSE 0)
    <3>1. BlobPull(old.bytes + 1)[f] = BlobPull(old.bytes)[f] + one[f]
      BY <1>1, <1>3, BlobCounts
    <3>2. Zero[f] = 0
      BY PullCounts
    <3>. QED  BY <2>5, <2>6, <3>1, <3>2
  <2>8. owed'[k][f] = owed[k][f] + (IF k \in {key} THEN one[f] ELSE 0)
    BY <1>10
  <2>9. (IF k \in {key} THEN one[f] ELSE 0) \in Nat
    BY <1>9 DEF Counts
  <2>. QED  BY ONLY <2>1, <2>2, <2>4, <2>7, <2>8, <2>9
<1>. QED  BY <1>7, <1>8, <1>10, <1>11, SettledNext

\* A body is dropped: what it counted goes to the accumulator, or is given up.
LEMMA DropKeeps ==
    ASSUME CountInv, NEW b \in Bodies, drop(b)
    PROVE  CountInv'
<1>. USE DEF CountInv
<1>1. PICK old, key, c : /\ old = bodies[b] /\ key = Key(old.repo, Repo, old.at)
                         /\ c = BlobPull(old.bytes)
  OBVIOUS
<1>2. PICK acc : acc = add(Accumulator, key, c)
  OBVIOUS
<1>3. /\ old # None /\ bodies' = [bodies EXCEPT ![b] = None]
      /\ dirty' = acc.dirty /\ dropped' = acc.dropped
      /\ owed' = IF key \in DOMAIN dirty' THEN owed ELSE [owed EXCEPT ![key] = Minus(@, c)]
      /\ UNCHANGED <<now, enabled, repos, owner, dead, flush, stored>>
  BY <1>1, <1>2 DEF drop, record_blob_bytes, Record
<1>4. /\ bodies \in [Bodies -> BodyStates \cup {None}] /\ old.bytes \in Nat /\ key \in BucketKeys
  BY <1>1, <1>3, BodyKey DEF RestOK
<1>5. c \in Counts
  BY <1>1, <1>4, PullCounts
<1>6. AddsTo(dirty, acc, key, c)
  BY <1>2, <1>4, <1>5, Adds DEF DirtyOK, Accumulator
<1>7. DirtyOK'
  BY <1>3, <1>6 DEF AddsTo, DirtyOK, MapOK
<1>8. RestOK'
  BY <1>3, <1>4 DEF RestOK
<1>9. ReposOK' /\ StoredOK' /\ FlushOK'
  BY <1>3, ReposStay, StoredStays, FlushStays
<1>10. /\ OwedShape'
       /\ \A k \in BucketKeys, f \in DOMAIN Zero :
             owed'[k][f] = owed[k][f] - (IF k = key /\ key \notin DOMAIN dirty' THEN c[f] ELSE 0)
  <2>1. PICK v, w : v = owed /\ w = owed'
    OBVIOUS
  <2>2. v \in [BucketKeys -> Counts]
    BY <2>1 DEF OwedOK
  <2>3. CASE key \in DOMAIN dirty'
    <3>1. UNCHANGED owed
      BY <1>3, <2>3
    <3>2. \A k \in BucketKeys, f \in DOMAIN Zero : v[k][f] \in Nat
      BY <2>2 DEF Counts
    <3>. QED  BY <2>1, <2>3, <3>1, <3>2, OwedStays
  <2>4. CASE key \notin DOMAIN dirty'
    <3>1. w = [v EXCEPT ![key] = Minus(@, c)]
      BY <1>3, <2>1, <2>4
    <3>2. /\ Minus(v[key], c) = [f \in DOMAIN Zero |-> v[key][f] - c[f]]
          /\ \A f \in DOMAIN Zero : Minus(v[key], c)[f] = v[key][f] - c[f]
      BY MinusFacts
    <3>3. /\ w[key] = Minus(v[key], c) /\ \A k \in BucketKeys \ {key} : w[k] = v[k]
          /\ w = [k \in BucketKeys |-> w[k]]
      BY <1>4, <2>2, <3>1
    <3>4. \A k \in BucketKeys : v[k] = [f \in DOMAIN Zero |-> v[k][f]]
      BY <2>2 DEF Counts
    <3>5. \A k \in BucketKeys : w[k] = [f \in DOMAIN Zero |-> w[k][f]]
      BY <3>2, <3>3, <3>4
    <3>6. w = [k \in BucketKeys |-> [f \in DOMAIN Zero |-> w[k][f]]]
      BY <3>3, <3>5
    <3>7. \A k \in BucketKeys, f \in DOMAIN Zero : v[k][f] \in Nat
      BY <2>2 DEF Counts
    <3>8. \A k \in BucketKeys, f \in DOMAIN Zero :
             w[k][f] = v[k][f] - (IF k = key THEN c[f] ELSE 0)
      BY <3>2, <3>3, <3>7
    <3>. QED  BY <2>1, <2>4, <3>6, <3>8 DEF OwedShape
  <2>. QED  BY <2>3, <2>4
<1>11. Balanced'
  <2>. SUFFICES ASSUME NEW k \in BucketKeys, NEW f \in DOMAIN Zero
                PROVE  owed'[k][f] = Open(k, f)' + Held(k, f)' + Tally(dirty', k)[f]
                                      + Tally(flush'.deltas, k)[f]
    BY DEF Balanced, Tally
  <2>1. Held(k, f)' = Held(k, f) /\ flush' = flush
    BY <1>3, HeldStays
  <2>2. /\ owed[k][f] = Open(k, f) + Held(k, f) + Tally(dirty, k)[f] + Tally(flush.deltas, k)[f]
        /\ owed[k][f] \in Nat /\ Open(k, f) \in Nat /\ Held(k, f) \in Nat
        /\ Tally(dirty, k)[f] \in Nat /\ Tally(flush.deltas, k)[f] \in Nat
    BY BalanceNow
  <2>3. \A d \in Bodies \ {b} : bodies'[d] = bodies[d]
    BY <1>3, <1>4
  <2>4. /\ Open(k, f)' = Open(k, f) - OpenIn(b, k)[f] + OpenIn(b, k)'[f]
        /\ OpenIn(b, k)[f] \in Nat /\ OpenIn(b, k)'[f] \in Nat
    BY <1>8, <2>3, OpenChange
  <2>5. OpenIn(b, k)[f] = IF k = key THEN c[f] ELSE 0
    BY <1>1, <1>3, PullCounts DEF OpenIn
  <2>6. OpenIn(b, k)'[f] = 0
    BY <1>3, <1>4, PullCounts DEF OpenIn
  <2>7. c[f] \in Nat
    BY <1>5 DEF Counts
  <2>8. Tally(dirty', k)[f] = Tally(dirty, k)[f]
                                + (IF k = key /\ key \in DOMAIN dirty' THEN c[f] ELSE 0)
    <3>1. Tally(dirty', k) = IF k = key /\ key \in DOMAIN dirty'
                             THEN Plus(Tally(dirty, k), c) ELSE Tally(dirty, k)
      BY <1>3, <1>6 DEF AddsTo
    <3>2. Plus(Tally(dirty, k), c)[f] = Tally(dirty, k)[f] + c[f]
      BY DEF Plus
    <3>. QED  BY <2>2, <3>1, <3>2
  <2>9. owed'[k][f] = owed[k][f] - (IF k = key /\ key \notin DOMAIN dirty' THEN c[f] ELSE 0)
    BY <1>10
  <2>. QED  BY ONLY <2>1, <2>2, <2>4, <2>5, <2>6, <2>7, <2>8, <2>9
<1>. QED  BY <1>7, <1>8, <1>9, <1>10, <1>11, SettledNext

----------------------------------------------------------------------------
(* The flush.                                                              *)

\* The clock.
LEMMA TickKeeps ==
    ASSUME CountInv, Tick
    PROVE  CountInv'
<1>. USE DEF CountInv
<1>1. /\ now < MaxHour /\ now' = now + 1
      /\ UNCHANGED <<enabled, repos, owner, dead, dirty, dropped, bodies, flush, stored, owed>>
  BY DEF Tick
<1>2. RestOK'
  <2>1. MaxHour \in Nat /\ now \in 0..MaxHour
    BY CounterAssumption DEF RestOK
  <2>2. now' \in 0..MaxHour
    BY <1>1, <2>1
  <2>. QED  BY <1>1, <2>2 DEF RestOK
<1>3. ReposOK' /\ DirtyOK' /\ StoredOK' /\ FlushOK'
  BY <1>1, ReposStay, DirtyStays, StoredStays, FlushStays
<1>4. OwedShape'
  BY <1>1, OwedStays
<1>5. Balanced'
  <2>1. \A k, f : Open(k, f)' = Open(k, f) /\ Held(k, f)' = Held(k, f)
    BY <1>1, OpenStays, HeldStays
  <2>. QED  BY <1>1, <2>1 DEF Balanced, Tally
<1>. QED  BY <1>2, <1>3, <1>4, <1>5, SettledNext

\* A step that changes none of the state.
LEMMA StutterKeeps ==
    ASSUME CountInv, UNCHANGED vars
    PROVE  CountInv'
<1>. USE DEF CountInv
<1>1. UNCHANGED <<now, enabled, repos, owner, dead, dirty, dropped, bodies, flush, stored, owed>>
  BY DEF vars
<1>3. ReposOK' /\ DirtyOK' /\ StoredOK' /\ FlushOK' /\ RestOK'
  BY <1>1, ReposStay, DirtyStays, StoredStays, FlushStays, RestStays
<1>4. OwedShape'
  BY <1>1, OwedStays
<1>5. Balanced'
  <2>1. \A k, f : Open(k, f)' = Open(k, f) /\ Held(k, f)' = Held(k, f)
    BY <1>1, OpenStays, HeldStays
  <2>. QED  BY <1>1, <2>1 DEF Balanced, Tally
<1>. QED  BY <1>3, <1>4, <1>5, SettledNext

\* What is given up.
LEMMA GiveUpFacts ==
    ASSUME NEW amount, GiveUp(amount)
    PROVE  /\ OwedShape'
           /\ \A k \in BucketKeys, f \in DOMAIN Zero : owed'[k][f] = owed[k][f] - amount[k][f]
<1>1. PICK v, w : v = owed /\ w = owed'
  OBVIOUS
<1>2. w = [k \in BucketKeys |-> Minus(v[k], amount[k])]
  BY <1>1 DEF GiveUp
<1>3. \A k \in BucketKeys : /\ w[k] = [f \in DOMAIN Zero |-> v[k][f] - amount[k][f]]
                            /\ \A f \in DOMAIN Zero : w[k][f] = v[k][f] - amount[k][f]
  BY <1>2, MinusFacts
<1>4. \A k \in BucketKeys : w[k] = [f \in DOMAIN Zero |-> w[k][f]]
  BY <1>3
<1>5. w = [k \in BucketKeys |-> [f \in DOMAIN Zero |-> w[k][f]]]
  BY <1>2, <1>4
<1>. QED  BY <1>1, <1>3, <1>5 DEF OwedShape

\* The fold at rest.
LEMMA IdleFacts ==
    /\ Idle.pc = "idle" /\ Idle.deltas = <<>> /\ Idle.todo = {} /\ Idle.batch = {}
    /\ DOMAIN Idle.deltas = {} /\ \A k : Tally(Idle.deltas, k) = Zero
BY DEF Idle, Tally

\* It is a legal state of the flush.
LEMMA IdleNext ==
    ASSUME flush' = Idle
    PROVE  FlushOK'
BY IdleFacts DEF FlushOK, Idle

\* The keys of a group.
LEMMA GroupFacts ==
    /\ \A k \in BucketKeys :
          Group(k) \in Groups /\ k.hour \in Hours /\ k = InGroup(Group(k), k.hour)
    /\ \A g \in Groups, h \in Hours :
          InGroup(g, h) \in BucketKeys /\ Group(InGroup(g, h)) = g /\ InGroup(g, h).hour = h
    /\ \A g \in Groups : g.repo \in Names /\ g.subject \in Subjects /\ g.day \in 0..LastDay
<1>1. \A k \in BucketKeys : Group(k) \in Groups /\ k.hour \in Hours /\ k = InGroup(Group(k), k.hour)
  BY DEF BucketKeys, Group, Groups, InGroup
<1>2. \A g \in Groups, h \in Hours :
        InGroup(g, h) \in BucketKeys /\ Group(InGroup(g, h)) = g /\ InGroup(g, h).hour = h
  BY DEF BucketKeys, Group, Groups, InGroup
<1>3. \A g \in Groups : g.repo \in Names /\ g.subject \in Subjects /\ g.day \in 0..LastDay
  BY DEF Groups
<1>. QED  BY <1>1, <1>2, <1>3

\* The drain hands the whole map over.
LEMMA DrainKeeps ==
    ASSUME CountInv, drain
    PROVE  CountInv'
<1>. USE DEF CountInv
<1>1. /\ flush.pc = "idle" /\ dropped' = 0 /\ dirty' = <<>>
      /\ flush' = IF DOMAIN dirty = {} THEN flush
                  ELSE [pc |-> "fold", deltas |-> dirty, batch |-> {},
                        todo |-> {Group(key) : key \in DOMAIN dirty}]
      /\ UNCHANGED <<now, enabled, repos, owner, dead, bodies, stored, owed>>
  BY DEF drain
<1>2. flush = Idle
  BY <1>1 DEF FlushOK
<1>3. MapOK(dirty) /\ DOMAIN dirty \in SUBSET BucketKeys /\ dirty \in [DOMAIN dirty -> Counts]
  BY DEF DirtyOK, MapOK
<1>4. DirtyOK'
  <2>1. IsFiniteSet({}) /\ Cardinality({}) = 0 /\ MAX_BUCKETS \in Nat
    BY FS_EmptySet, CounterAssumption
  <2>2. DOMAIN dirty' = {}
    BY <1>1
  <2>3. Cardinality(DOMAIN dirty') <= MAX_BUCKETS
    BY <2>1, <2>2
  <2>4. dirty' \in [DOMAIN dirty' -> Counts]
    BY <1>1, <2>2
  <2>. QED  BY <1>1, <2>1, <2>2, <2>3, <2>4 DEF DirtyOK, MapOK
<1>5. ReposOK' /\ StoredOK' /\ RestOK'
  BY <1>1, ReposStay, StoredStays, RestStays
<1>6. FlushOK'
  <2>1. CASE DOMAIN dirty = {}
    BY <1>1, <1>2, <2>1, IdleNext
  <2>2. CASE DOMAIN dirty # {}
    <3>1. /\ flush' = [pc |-> flush'.pc, deltas |-> flush'.deltas, todo |-> flush'.todo,
                       batch |-> flush'.batch]
          /\ flush'.pc = "fold" /\ flush'.deltas = dirty /\ flush'.batch = {}
          /\ flush'.todo = {Group(key) : key \in DOMAIN dirty}
      BY <1>1, <2>2
    <3>2. flush'.todo \in SUBSET Groups
      BY <1>3, <3>1, GroupFacts
    <3>. QED  BY <1>3, <3>1, <3>2 DEF FlushOK
  <2>. QED  BY <2>1, <2>2
<1>7. OwedShape'
  BY <1>1, OwedStays
<1>8. Balanced'
  <2>. SUFFICES ASSUME NEW k \in BucketKeys, NEW f \in DOMAIN Zero
                PROVE  owed'[k][f] = Open(k, f)' + Held(k, f)' + Tally(dirty', k)[f]
                                      + Tally(flush'.deltas, k)[f]
    BY DEF Balanced, Tally
  <2>1. Open(k, f)' = Open(k, f) /\ Held(k, f)' = Held(k, f) /\ owed' = owed
    BY <1>1, OpenStays, HeldStays
  <2>2. /\ owed[k][f] = Open(k, f) + Held(k, f) + Tally(dirty, k)[f] + Tally(flush.deltas, k)[f]
        /\ owed[k][f] \in Nat /\ Open(k, f) \in Nat /\ Held(k, f) \in Nat
        /\ Tally(dirty, k)[f] \in Nat /\ Tally(flush.deltas, k)[f] \in Nat
    BY BalanceNow
  <2>3. Zero[f] = 0
    BY PullCounts
  <2>4. Tally(dirty', k) = Zero /\ Tally(flush.deltas, k) = Zero
    BY <1>1, <1>2, IdleFacts DEF Tally
  <2>5. Tally(flush'.deltas, k) = Tally(dirty, k)
    <3>1. CASE DOMAIN dirty = {}
      BY <1>1, <2>4, <3>1 DEF Tally
    <3>2. CASE DOMAIN dirty # {}
      BY <1>1, <3>2
    <3>. QED  BY <3>1, <3>2
  <2>. QED  BY ONLY <2>1, <2>2, <2>3, <2>4, <2>5
<1>. QED  BY <1>4, <1>5, <1>6, <1>7, <1>8, SettledNext

\* A failed flush gives its interval up.
LEMMA FailureKeeps ==
    ASSUME CountInv, FlushFails
    PROVE  CountInv'
<1>. USE DEF CountInv
<1>1. /\ GiveUp(Total(flush.deltas)) /\ flush' = Idle
      /\ UNCHANGED <<now, enabled, repos, owner, dead, dirty, dropped, bodies, stored>>
  BY DEF FlushFails
<1>2. ReposOK' /\ DirtyOK' /\ StoredOK' /\ FlushOK' /\ RestOK'
  BY <1>1, ReposStay, DirtyStays, StoredStays, IdleNext, RestStays
<1>3. PICK lost : lost = Total(flush.deltas)
  OBVIOUS
<1>4. OwedShape' /\ \A k \in BucketKeys, f \in DOMAIN Zero : owed'[k][f] = owed[k][f] - lost[k][f]
  BY <1>1, <1>3, GiveUpFacts
<1>5. Balanced'
  <2>. SUFFICES ASSUME NEW k \in BucketKeys, NEW f \in DOMAIN Zero
                PROVE  owed'[k][f] = Open(k, f)' + Held(k, f)' + Tally(dirty', k)[f]
                                      + Tally(flush'.deltas, k)[f]
    BY DEF Balanced, Tally
  <2>1. Open(k, f)' = Open(k, f) /\ Held(k, f)' = Held(k, f) /\ dirty' = dirty
    BY <1>1, OpenStays, HeldStays
  <2>2. /\ owed[k][f] = Open(k, f) + Held(k, f) + Tally(dirty, k)[f] + Tally(flush.deltas, k)[f]
        /\ owed[k][f] \in Nat /\ Open(k, f) \in Nat /\ Held(k, f) \in Nat
        /\ Tally(dirty, k)[f] \in Nat /\ Tally(flush.deltas, k)[f] \in Nat
    BY BalanceNow
  <2>3. Tally(flush'.deltas, k)[f] = 0
    BY <1>1, IdleFacts, PullCounts
  <2>4. lost[k] = Tally(flush.deltas, k)
    BY <1>3 DEF Total
  <2>5. owed'[k][f] = owed[k][f] - Tally(flush.deltas, k)[f]
    BY <1>4, <2>4
  <2>. QED  BY ONLY <2>1, <2>2, <2>3, <2>5
<1>. QED  BY <1>2, <1>4, <1>5, SettledNext

\* What a fold makes of a bucket.
LEMMA FoldFacts ==
    ASSUME StoredOK, FlushOK, NEW id, NEW g
    PROVE  /\ Fold(id, g) \in Buckets
           /\ \A h \in Hours : Fold(id, g)[h]
                 = Clip(Plus(BucketOf(id, g)[h], Tally(flush.deltas, InGroup(g, h))))
<1>1. PICK b, new : b = BucketOf(id, g) /\ new = Fold(id, g)
  OBVIOUS
<1>2. b \in [Hours -> Counts]
  BY <1>1, BucketFacts
<1>3. \A h \in Hours : ~(h >= HoursPerDay)
  BY CounterAssumption DEF Hours
<1>4. \A h \in Hours : bucket_add(b, h, Tally(flush.deltas, InGroup(g, h)))[h]
                          = Clip(Plus(b[h], Tally(flush.deltas, InGroup(g, h))))
  BY <1>2, <1>3 DEF bucket_add
<1>5. \A h \in Hours : new[h] = Clip(Plus(b[h], Tally(flush.deltas, InGroup(g, h))))
  BY <1>1, <1>4 DEF Fold
<1>6. \A h \in Hours : new[h] \in Counts /\ Clip(new[h]) = new[h]
  <2>. TAKE h \in Hours
  <2>1. Plus(b[h], Tally(flush.deltas, InGroup(g, h))) \in Counts
    BY <1>2, PlusFacts, TallyFacts DEF FlushOK
  <2>. QED  BY <1>5, <2>1, ClipFacts
<1>7. new = [h \in Hours |-> new[h]]
  BY <1>1 DEF Fold
<1>. QED  BY <1>1, <1>5, <1>6, <1>7 DEF Buckets

\* A group of a repository that is gone: its deltas are given up.
LEMMA LostGroupKeeps ==
    ASSUME CountInv, flush.pc = "fold", NEW group \in flush.todo,
           NEW gone, gone = {key \in DOMAIN flush.deltas : Group(key) = group},
           flush' = [flush EXCEPT !.todo = @ \ {group},
                                  !.deltas = [k \in DOMAIN @ \ gone |-> @[k]]],
           GiveUp([k \in BucketKeys |-> IF k \in gone THEN flush.deltas[k] ELSE Zero]),
           UNCHANGED <<now, enabled, repos, owner, dead, dirty, dropped, bodies, stored>>
    PROVE  CountInv'
<1>. USE DEF CountInv
<1>1. PICK pc, old, todo, batch :
        flush = [pc |-> pc, deltas |-> old, todo |-> todo, batch |-> batch]
  BY DEF FlushOK
<1>2. flush.pc = pc /\ flush.deltas = old /\ flush.todo = todo /\ flush.batch = batch
  BY <1>1
<1>3. PICK new : new = [k \in DOMAIN old \ gone |-> old[k]]
  OBVIOUS
<1>4. flush' = [pc |-> pc, deltas |-> new, todo |-> todo \ {group}, batch |-> batch]
  BY <1>1, <1>2, <1>3
<1>5. /\ flush'.pc = pc /\ flush'.deltas = new /\ flush'.todo = todo \ {group}
      /\ flush'.batch = batch
  BY ONLY <1>4
<1>6. ReposOK' /\ DirtyOK' /\ StoredOK' /\ RestOK' /\ Ids' = Ids
  BY ReposStay, DirtyStays, StoredStays, RestStays
<1>7. \A k : Tally(new, k) = IF k \in gone THEN Zero ELSE Tally(old, k)
  BY <1>3 DEF Tally
<1>8. FlushOK'
  <2>1. /\ DOMAIN new \in SUBSET BucketKeys /\ new \in [DOMAIN new -> Counts]
        /\ todo \ {group} \in SUBSET Groups
    BY <1>2, <1>3 DEF FlushOK
  <2>2. \A k \in DOMAIN new : Group(k) \in todo \ {group} \/ \E p \in batch : p.group = Group(k)
    BY <1>2, <1>3 DEF FlushOK
  <2>3. ASSUME NEW p \in batch PROVE PutOK(p)'
    <3>1. /\ p.id \in Ids /\ p.group \in Groups /\ p.bucket \in Buckets
          /\ p.group \notin todo /\ owner[p.id] = p.group.repo
          /\ p.id \in Kept => p.bucket = Fold(p.id, p.group)
      BY <1>2, <2>3 DEF FlushOK, PutOK
    <3>2. \A h \in Hours : InGroup(p.group, h) \notin gone
      BY <1>2, <3>1, GroupFacts
    <3>3. \A h \in Hours : Tally(new, InGroup(p.group, h)) = Tally(old, InGroup(p.group, h))
      BY <1>7, <3>2
    <3>4. BucketOf(p.id, p.group)' = BucketOf(p.id, p.group) /\ Kept' = Kept
      BY HeldStays
    <3>5. Fold(p.id, p.group)' = Fold(p.id, p.group)
      <4>1. Fold(p.id, p.group)' = [h \in Hours |-> bucket_add(BucketOf(p.id, p.group), h,
                                                      Tally(new, InGroup(p.group, h)))[h]]
        BY <1>5, <3>4 DEF Fold
      <4>2. Fold(p.id, p.group) = [h \in Hours |-> bucket_add(BucketOf(p.id, p.group), h,
                                                      Tally(old, InGroup(p.group, h)))[h]]
        BY <1>2 DEF Fold
      <4>. QED  BY <3>3, <4>1, <4>2
    <3>. QED  BY <1>5, <1>6, <3>1, <3>4, <3>5 DEF PutOK
  <2>4. \A p, q \in batch : p.group = q.group => p = q
    BY <1>2 DEF FlushOK
  <2>5. pc = "fold"
    BY <1>2
  <2>. QED  BY <1>4, <1>5, <2>1, <2>2, <2>3, <2>4, <2>5 DEF FlushOK
<1>9. PICK lost : lost = [k \in BucketKeys |-> IF k \in gone THEN flush.deltas[k] ELSE Zero]
  OBVIOUS
<1>10. OwedShape' /\ \A k \in BucketKeys, f \in DOMAIN Zero : owed'[k][f] = owed[k][f] - lost[k][f]
  BY <1>9, GiveUpFacts
<1>11. Balanced'
  <2>. SUFFICES ASSUME NEW k \in BucketKeys, NEW f \in DOMAIN Zero
                PROVE  owed'[k][f] = Open(k, f)' + Held(k, f)' + Tally(dirty', k)[f]
                                      + Tally(flush'.deltas, k)[f]
    BY DEF Balanced, Tally
  <2>1. Open(k, f)' = Open(k, f) /\ Held(k, f)' = Held(k, f) /\ dirty' = dirty
    BY OpenStays, HeldStays
  <2>2. /\ owed[k][f] = Open(k, f) + Held(k, f) + Tally(dirty, k)[f] + Tally(flush.deltas, k)[f]
        /\ owed[k][f] \in Nat /\ Open(k, f) \in Nat /\ Held(k, f) \in Nat
        /\ Tally(dirty, k)[f] \in Nat /\ Tally(flush.deltas, k)[f] \in Nat
    BY BalanceNow
  <2>3. Zero[f] = 0
    BY PullCounts
  <2>4. lost[k] = IF k \in gone THEN Tally(flush.deltas, k) ELSE Zero
    BY <1>9 DEF Tally
  <2>5. Tally(flush'.deltas, k) = IF k \in gone THEN Zero ELSE Tally(flush.deltas, k)
    BY <1>2, <1>5, <1>7
  <2>6. owed'[k][f] = owed[k][f] - lost[k][f]
    BY <1>10
  <2>. QED  BY ONLY <2>1, <2>2, <2>3, <2>4, <2>5, <2>6
<1>. QED  BY <1>6, <1>8, <1>10, <1>11, SettledNext

\* A group of a repository that is there: its bucket is put in the batch.
LEMMA ReadGroupKeeps ==
    ASSUME CountInv, flush.pc = "fold", NEW group \in flush.todo, repos[group.repo] # None,
           flush' = [flush EXCEPT !.todo = @ \ {group},
                         !.batch = @ \cup {[id |-> repos[group.repo], group |-> group,
                                            bucket |-> Fold(repos[group.repo], group)]}],
           UNCHANGED <<now, enabled, repos, owner, dead, dirty, dropped, bodies, stored, owed>>
    PROVE  CountInv'
<1>. USE DEF CountInv
<1>1. PICK pc, old, todo, batch :
        flush = [pc |-> pc, deltas |-> old, todo |-> todo, batch |-> batch]
  BY DEF FlushOK
<1>2. flush.pc = pc /\ flush.deltas = old /\ flush.todo = todo /\ flush.batch = batch
  BY <1>1
<1>3. PICK put : put = [id |-> repos[group.repo], group |-> group,
                        bucket |-> Fold(repos[group.repo], group)]
  OBVIOUS
<1>4. flush' = [pc |-> pc, deltas |-> old, todo |-> todo \ {group}, batch |-> batch \cup {put}]
  BY <1>1, <1>2, <1>3
<1>5. /\ flush'.pc = pc /\ flush'.deltas = old /\ flush'.todo = todo \ {group}
      /\ flush'.batch = batch \cup {put}
  BY ONLY <1>4
<1>6. ReposOK' /\ DirtyOK' /\ StoredOK' /\ RestOK' /\ Ids' = Ids /\ OwedShape'
  BY ReposStay, DirtyStays, StoredStays, RestStays, OwedStays
<1>7. /\ Kept' = Kept /\ \A id, g : BucketOf(id, g)' = BucketOf(id, g)
      /\ \A id, g : Fold(id, g)' = Fold(id, g)
  <2>1. Kept' = Kept /\ \A id, g : BucketOf(id, g)' = BucketOf(id, g)
    BY HeldStays
  <2>. QED  BY <1>2, <1>5, <2>1 DEF Fold
<1>8. FlushOK'
  <2>1. /\ DOMAIN old \in SUBSET BucketKeys /\ old \in [DOMAIN old -> Counts]
        /\ todo \ {group} \in SUBSET Groups /\ group \in Groups
    BY <1>2 DEF FlushOK
  <2>2. put.id = repos[group.repo] /\ put.group = group /\ put.bucket = Fold(put.id, put.group)
    BY <1>3
  <2>3. \A k \in DOMAIN old : Group(k) \in todo \ {group}
                                \/ \E p \in batch \cup {put} : p.group = Group(k)
    BY <1>2, <2>2 DEF FlushOK
  <2>4. \A p \in batch : /\ p.id \in Ids /\ p.group \in Groups /\ p.bucket \in Buckets
                         /\ p.group \notin todo /\ owner[p.id] = p.group.repo
                         /\ p.id \in Kept => p.bucket = Fold(p.id, p.group)
    BY <1>2 DEF FlushOK, PutOK
  <2>5. /\ put.id \in Ids /\ put.group \in Groups /\ put.bucket \in Buckets
        /\ put.group \notin todo \ {group} /\ owner[put.id] = put.group.repo
    <3>1. group.repo \in Names
      BY <2>1, GroupFacts
    <3>2. put.id \in Ids /\ owner[put.id] = group.repo
      BY <2>2, <3>1 DEF ReposOK
    <3>. QED  BY <2>1, <2>2, <3>2, FoldFacts
  <2>6. \A p \in batch \cup {put} : PutOK(p)'
    BY <1>5, <1>6, <1>7, <2>2, <2>4, <2>5 DEF PutOK
  <2>7. \A p, q \in batch \cup {put} : p.group = q.group => p = q
    <3>1. \A p, q \in batch : p.group = q.group => p = q
      BY <1>2 DEF FlushOK
    <3>2. \A p \in batch : p.group # put.group
      BY <1>2, <2>2, <2>4
    <3>. QED  BY <3>1, <3>2
  <2>8. pc = "fold"
    BY <1>2
  <2>. QED  BY <1>4, <1>5, <2>1, <2>3, <2>6, <2>7, <2>8 DEF FlushOK
<1>9. Balanced'
  <2>1. \A k, f : Open(k, f)' = Open(k, f) /\ Held(k, f)' = Held(k, f)
    BY OpenStays, HeldStays
  <2>2. flush'.deltas = flush.deltas
    BY <1>2, <1>5
  <2>. QED  BY <2>1, <2>2 DEF Balanced, Tally
<1>. QED  BY <1>6, <1>8, <1>9, SettledNext

\* The next group.
LEMMA FoldKeeps ==
    ASSUME CountInv, FoldGroup
    PROVE  CountInv'
<1>1. PICK group, gone : /\ group = CHOOSE g \in flush.todo : TRUE
                         /\ gone = {key \in DOMAIN flush.deltas : Group(key) = group}
  OBVIOUS
<1>2. flush.pc = "fold" /\ group \in flush.todo
  BY <1>1 DEF FoldGroup
<1>3. UNCHANGED <<now, enabled, repos, owner, dead, dirty, dropped, bodies, stored>>
  BY DEF FoldGroup
<1>4. CASE repos[group.repo] = None
  <2>1. /\ flush' = [flush EXCEPT !.todo = @ \ {group},
                                  !.deltas = [k \in DOMAIN @ \ gone |-> @[k]]]
        /\ GiveUp([k \in BucketKeys |-> IF k \in gone THEN flush.deltas[k] ELSE Zero])
    BY <1>1, <1>4 DEF FoldGroup
  <2>. QED  BY <1>1, <1>2, <1>3, <2>1, LostGroupKeeps
<1>5. CASE repos[group.repo] # None
  <2>1. /\ flush' = [flush EXCEPT !.todo = @ \ {group},
                         !.batch = @ \cup {[id |-> repos[group.repo], group |-> group,
                                            bucket |-> Fold(repos[group.repo], group)]}]
        /\ UNCHANGED owed
    BY <1>1, <1>5 DEF FoldGroup
  <2>. QED  BY <1>2, <1>3, <1>5, <2>1, ReadGroupKeeps
<1>. QED  BY <1>4, <1>5

\* The key a put of the batch writes.
PutKey(p) == CounterKey(p.id, p.group.subject, p.group.day)

\* No two groups, and no two repositories, share a key.
LEMMA GroupKeys ==
    ASSUME ReposOK, NEW i \in Ids, NEW j \in Ids, NEW g \in Groups, NEW h \in Groups,
           CounterKey(i, g.subject, g.day) = CounterKey(j, h.subject, h.day),
           owner[i] = g.repo, owner[j] = h.repo
    PROVE  i = j /\ g = h
<1>1. i \in Nat /\ j \in Nat
  BY KeptFacts
<1>2. /\ g.subject \in Subjects /\ g.day \in Nat /\ h.subject \in Subjects /\ h.day \in Nat
  BY GroupFacts
<1>3. i = j /\ g.subject = h.subject /\ g.day = h.day
  BY <1>1, <1>2, KeysApart
<1>. QED  BY <1>3 DEF Groups

\* The batch writes each bucket once, and no other key.
AppliesTo(old, new) ==
    /\ DOMAIN new = DOMAIN old \cup {PutKey(p) : p \in flush.batch}
    /\ new = [key \in DOMAIN new |-> new[key]]
    /\ \A p \in flush.batch : new[PutKey(p)] = p.bucket
    /\ \A key \in DOMAIN old : (\A p \in flush.batch : key # PutKey(p)) => new[key] = old[key]

\* That is what the batch does.
LEMMA Applies ==
    ASSUME ReposOK, FlushOK, Apply
    PROVE  AppliesTo(stored, stored')
<1>1. \A p \in flush.batch : p.id \in Ids /\ p.group \in Groups /\ owner[p.id] = p.group.repo
  BY DEF FlushOK, PutOK
<1>2. \A p, q \in flush.batch : PutKey(p) = PutKey(q) => p = q
  <2>. SUFFICES ASSUME NEW p \in flush.batch, NEW q \in flush.batch, PutKey(p) = PutKey(q)
                PROVE  p = q
    OBVIOUS
  <2>1. p.group = q.group
    BY <1>1, GroupKeys DEF PutKey
  <2>. QED  BY <2>1 DEF FlushOK
<1>3. PICK put : put = {PutKey(p) : p \in flush.batch}
  OBVIOUS
<1>4. stored' = [key \in DOMAIN stored \cup put |->
                   IF key \in put
                   THEN (CHOOSE p \in {p \in flush.batch : key = PutKey(p)} : TRUE).bucket
                   ELSE stored[key]]
  BY <1>3 DEF Apply, PutKey
<1>5. ASSUME NEW p \in flush.batch
      PROVE  (CHOOSE q \in {q \in flush.batch : PutKey(p) = PutKey(q)} : TRUE) = p
  BY <1>2
<1>6. \A p \in flush.batch : stored'[PutKey(p)] = p.bucket
  BY <1>3, <1>4, <1>5
<1>. QED  BY <1>3, <1>4, <1>6 DEF AppliesTo

\* One batch for every bucket: what was on its way is held, saturated or given up
\* with its repository.
LEMMA ApplyKeeps ==
    ASSUME CountInv, Apply
    PROVE  CountInv'
<1>. USE DEF CountInv
<1>1. /\ flush.todo = {} /\ flush' = Idle
      /\ UNCHANGED <<now, enabled, repos, owner, dead, dirty, dropped, bodies>>
  BY DEF Apply
<1>2. PICK batch, old, new : batch = flush.batch /\ old = stored /\ new = stored'
  OBVIOUS
<1>3. /\ DOMAIN new = DOMAIN old \cup {PutKey(p) : p \in batch}
      /\ new = [key \in DOMAIN new |-> new[key]]
      /\ \A p \in batch : new[PutKey(p)] = p.bucket
      /\ \A key \in DOMAIN old : (\A p \in batch : key # PutKey(p)) => new[key] = old[key]
  BY <1>2, Applies DEF AppliesTo
<1>4. \A p \in batch : /\ p.id \in Ids /\ p.group \in Groups /\ p.bucket \in Buckets
                       /\ owner[p.id] = p.group.repo
                       /\ p.id \in Kept => p.bucket = Fold(p.id, p.group)
  BY <1>2 DEF FlushOK, PutOK
<1>5. ReposOK' /\ DirtyOK' /\ FlushOK' /\ RestOK' /\ Ids' = Ids /\ Kept' = Kept
  BY <1>1, ReposStay, DirtyStays, IdleNext, RestStays DEF Kept
<1>6. StoredOK'
  <2>1. old \in [DOMAIN old -> Buckets]
    BY <1>2 DEF StoredOK
  <2>2. \A key \in DOMAIN new : new[key] \in Buckets
    BY <1>3, <1>4, <2>1
  <2>3. \A key \in DOMAIN new :
          \E id \in Ids, s \in Subjects, day \in 0..LastDay : key = CounterKey(id, s, day)
    <3>1. \A key \in DOMAIN old :
            \E id \in Ids, s \in Subjects, day \in 0..LastDay : key = CounterKey(id, s, day)
      BY <1>2 DEF StoredOK
    <3>2. \A p \in batch :
            \E id \in Ids, s \in Subjects, day \in 0..LastDay : PutKey(p) = CounterKey(id, s, day)
      BY <1>4, GroupFacts DEF PutKey
    <3>. QED  BY <1>3, <3>1, <3>2
  <2>4. new \in [DOMAIN new -> Buckets]
    BY <1>3, <2>2
  <2>. QED  BY <1>2, <1>5, <2>3, <2>4 DEF StoredOK
<1>7. PICK lost : lost = [k \in BucketKeys |->
                             IF \E p \in flush.batch : p.group = Group(k)
                             THEN GivenUp(CHOOSE p \in flush.batch : p.group = Group(k), k)
                             ELSE Zero]
  OBVIOUS
<1>8. OwedShape' /\ \A k \in BucketKeys, f \in DOMAIN Zero : owed'[k][f] = owed[k][f] - lost[k][f]
  <2>1. GiveUp(lost)
    BY <1>7 DEF Apply
  <2>. QED  BY <2>1, GiveUpFacts
<1>9. Balanced'
  <2>. SUFFICES ASSUME NEW k \in BucketKeys, NEW f \in DOMAIN Zero
                PROVE  owed'[k][f] = Open(k, f)' + Held(k, f)' + Tally(dirty', k)[f]
                                      + Tally(flush'.deltas, k)[f]
    BY DEF Balanced, Tally
  <2>1. Open(k, f)' = Open(k, f) /\ dirty' = dirty
    BY <1>1, OpenStays
  <2>2. /\ owed[k][f] = Open(k, f) + Held(k, f) + Tally(dirty, k)[f] + Tally(flush.deltas, k)[f]
        /\ owed[k][f] \in Nat /\ Open(k, f) \in Nat /\ Held(k, f) \in Nat
        /\ Tally(dirty, k)[f] \in Nat /\ Tally(flush.deltas, k)[f] \in Nat
    BY BalanceNow
  <2>3. Tally(flush'.deltas, k)[f] = 0 /\ Zero[f] = 0
    BY <1>1, IdleFacts, PullCounts
  <2>4. owed'[k][f] = owed[k][f] - lost[k][f]
    BY <1>8
  <2>5. /\ Group(k) \in Groups /\ k.hour \in Hours /\ k = InGroup(Group(k), k.hour)
        /\ Group(k).subject = k.subject /\ Group(k).day = k.day /\ Group(k).repo = k.repo
    BY GroupFacts DEF Group
  <2>6. \A id \in Kept : id \in Ids
    BY KeptFacts
  \* An id without a put for k holds what it held.
  <2>7. ASSUME NEW id \in Kept, \A p \in batch : p.group = Group(k) => p.id # id
        PROVE  HeldUnder(id, k)' = HeldUnder(id, k)
    <3>1. CASE owner[id] # k.repo
      BY <1>1, <3>1 DEF HeldUnder
    <3>2. CASE owner[id] = k.repo
      <4>1. PICK key : key = CounterKey(id, k.subject, k.day)
        OBVIOUS
      <4>2. \A p \in batch : key # PutKey(p)
        <5>. SUFFICES ASSUME NEW p \in batch, key = PutKey(p) PROVE FALSE
          OBVIOUS
        <5>1. CounterKey(id, Group(k).subject, Group(k).day)
                = CounterKey(p.id, p.group.subject, p.group.day)
          BY <2>5, <4>1 DEF PutKey
        <5>2. id \in Ids /\ p.id \in Ids /\ p.group \in Groups /\ owner[p.id] = p.group.repo
              /\ owner[id] = Group(k).repo
          BY <1>4, <2>5, <2>6, <3>2
        <5>3. id = p.id /\ Group(k) = p.group
          BY <2>5, <5>1, <5>2, GroupKeys
        <5>. QED  BY <2>7, <5>3
      <4>3. /\ (key \in DOMAIN new <=> key \in DOMAIN old)
            /\ (key \in DOMAIN old => new[key] = old[key])
        BY <1>3, <4>2
      <4>4. BucketOf(id, k)' = BucketOf(id, k)
        BY <1>2, <4>1, <4>3 DEF BucketOf
      <4>. QED  BY <1>1, <4>4 DEF HeldUnder
    <3>. QED  BY <3>1, <3>2
  <2>8. CASE \A p \in batch : p.group # Group(k)
    <3>1. lost[k][f] = 0
      BY <1>2, <1>7, <2>3, <2>8
    <3>2. Tally(flush.deltas, k)[f] = 0
      <4>1. k \notin DOMAIN flush.deltas
        BY <1>1, <1>2, <2>8 DEF FlushOK
      <4>. QED  BY <2>3, <4>1 DEF Tally
    <3>3. Held(k, f)' = Held(k, f)
      <4>1. [id \in Kept |-> HeldUnder(id, k)[f]]' = [id \in Kept |-> HeldUnder(id, k)[f]]
        BY <1>5, <2>7, <2>8
      <4>. QED  BY <1>5, <4>1 DEF Held
    <3>. QED  BY ONLY <2>1, <2>2, <2>3, <2>4, <3>1, <3>2, <3>3
  <2>9. ASSUME NEW p \in batch, p.group = Group(k)
        PROVE  owed'[k][f] = Open(k, f)' + Held(k, f)' + Tally(dirty', k)[f]
                              + Tally(flush'.deltas, k)[f]
    <3>1. (CHOOSE q \in flush.batch : q.group = Group(k)) = p
      BY <1>2, <2>9 DEF FlushOK
    <3>2. lost[k] = GivenUp(p, k)
      BY <1>2, <1>7, <2>9, <3>1
    <3>3. \A id \in Kept \ {p.id} : HeldUnder(id, k)' = HeldUnder(id, k)
      <4>1. \A q \in batch : q.group = Group(k) => q = p
        BY <1>2, <2>9 DEF FlushOK
      <4>. QED  BY <2>7, <4>1
    <3>4. CASE p.id \notin Kept
      <4>1. lost[k] = Tally(flush.deltas, k)
        BY <3>2, <3>4 DEF GivenUp
      <4>2. Held(k, f)' = Held(k, f)
        <5>1. [id \in Kept |-> HeldUnder(id, k)[f]]' = [id \in Kept |-> HeldUnder(id, k)[f]]
          BY <1>5, <3>3, <3>4
        <5>. QED  BY <1>5, <5>1 DEF Held
      <4>. QED  BY ONLY <2>1, <2>2, <2>3, <2>4, <4>1, <4>2
    <3>5. CASE p.id \in Kept
      <4>1. PICK was, delta, sum : /\ was = HeldUnder(p.id, k) /\ delta = Tally(flush.deltas, k)
                                   /\ sum = Plus(was, delta)
        OBVIOUS
      <4>2. was = BucketOf(p.id, p.group)[k.hour]
        BY <1>4, <2>5, <2>9, <4>1 DEF HeldUnder, BucketOf
      <4>3. was \in Counts /\ was[f] \in Nat /\ delta \in Counts
        BY <4>1, HeldFacts, TallyFacts DEF FlushOK
      <4>4. sum \in Counts /\ sum[f] = was[f] + delta[f]
        BY <4>1, <4>3, PlusFacts
      <4>5. Clip(sum)[f] \in Nat /\ Excess(sum)[f] = sum[f] - Clip(sum)[f]
        BY <4>4, ClipFacts
      <4>6. lost[k] = Excess(sum)
        BY <3>2, <3>5, <4>1, <4>2 DEF GivenUp
      <4>7. HeldUnder(p.id, k)' = Clip(sum)
        <5>1. p.bucket[k.hour] = Clip(sum)
          <6>1. p.bucket = Fold(p.id, p.group)
            BY <1>4, <3>5
          <6>2. Fold(p.id, p.group)[k.hour]
                  = Clip(Plus(BucketOf(p.id, p.group)[k.hour],
                              Tally(flush.deltas, InGroup(p.group, k.hour))))
            BY <2>5, FoldFacts
          <6>3. InGroup(p.group, k.hour) = k
            BY <2>5, <2>9
          <6>. QED  BY <4>1, <4>2, <6>1, <6>2, <6>3
        <5>2. PutKey(p) = CounterKey(p.id, k.subject, k.day)
          BY <2>5, <2>9 DEF PutKey
        <5>3. BucketOf(p.id, k)' = p.bucket
          BY <1>2, <1>3, <5>2 DEF BucketOf
        <5>4. owner'[p.id] = k.repo
          BY <1>1, <1>4, <2>5, <2>9
        <5>. QED  BY <5>1, <5>3, <5>4 DEF HeldUnder
      <4>8. PICK g, h : /\ g = [id \in Kept |-> HeldUnder(id, k)[f]]
                        /\ h = [id \in Kept |-> HeldUnder(id, k)'[f]]
        OBVIOUS
      <4>9. \A id \in Kept \ {p.id} : g[id] = h[id]
        BY <3>3, <4>8
      <4>10. g[p.id] = was[f] /\ h[p.id] = Clip(sum)[f]
        BY <3>5, <4>1, <4>7, <4>8
      <4>11. \A id \in Kept : g[id] \in Nat
        BY <4>8, HeldFacts
      <4>12. \A id \in Kept : h[id] \in Nat
        BY <4>5, <4>9, <4>10, <4>11
      <4>13. Pile(h, Kept) = Pile(g, Kept) - g[p.id] + h[p.id]
        BY <3>5, <4>9, <4>11, <4>12, KeptFacts, PileChange
      <4>14. Held(k, f) = Pile(g, Kept) /\ Held(k, f)' = Pile(h, Kept)
        BY <1>5, <4>8 DEF Held
      <4>15. /\ lost[k][f] = was[f] + delta[f] - Clip(sum)[f]
             /\ delta[f] = Tally(flush.deltas, k)[f]
        <5>1. lost[k][f] = Excess(sum)[f] /\ delta[f] = Tally(flush.deltas, k)[f]
          BY <4>1, <4>6
        <5>2. was[f] \in Nat /\ delta[f] \in Nat
          BY <4>3 DEF Counts
        <5>3. PICK n : n = Clip(sum)[f]
          OBVIOUS
        <5>4. lost[k][f] = sum[f] - n /\ n \in Nat
          BY <4>5, <5>1, <5>3
        <5>5. lost[k][f] = was[f] + delta[f] - n
          BY ONLY <4>4, <5>2, <5>4
        <5>. QED  BY ONLY <5>1, <5>3, <5>5
      <4>. QED  BY ONLY <2>1, <2>2, <2>3, <2>4, <4>3, <4>5, <4>10, <4>13, <4>14, <4>15
    <3>. QED  BY <3>4, <3>5
  <2>. QED  BY <2>8, <2>9
<1>. QED  BY <1>5, <1>6, <1>8, <1>9, SettledNext

----------------------------------------------------------------------------
(* Repositories and the process.                                           *)

\* The batch stays right while the ids it names keep their buckets, or are swept.
LEMMA FlushKept ==
    ASSUME FlushOK, UNCHANGED flush, Ids \in SUBSET Ids', \A id \in Ids : owner'[id] = owner[id],
           \A id \in Ids : id \in Kept' =>
              id \in Kept /\ \A g \in Groups : BucketOf(id, g)' = BucketOf(id, g)
    PROVE  FlushOK'
<1>1. ASSUME NEW p \in flush.batch PROVE PutOK(p)'
  <2>1. /\ p.id \in Ids /\ p.group \in Groups /\ p.bucket \in Buckets
        /\ p.group \notin flush.todo /\ owner[p.id] = p.group.repo
        /\ p.id \in Kept => p.bucket = Fold(p.id, p.group)
    BY DEF FlushOK, PutOK
  <2>2. p.id \in Kept' => p.bucket = Fold(p.id, p.group)'
    <3>. SUFFICES ASSUME p.id \in Kept' PROVE p.bucket = Fold(p.id, p.group)'
      OBVIOUS
    <3>1. p.id \in Kept /\ BucketOf(p.id, p.group)' = BucketOf(p.id, p.group)
      BY <2>1
    <3>2. Fold(p.id, p.group)' = Fold(p.id, p.group)
      BY <3>1 DEF Fold
    <3>. QED  BY <2>1, <3>1, <3>2
  <2>3. p.id \in Ids' /\ p.group \notin flush'.todo /\ owner'[p.id] = p.group.repo
    BY <2>1
  <2>. QED  BY <2>1, <2>2, <2>3 DEF PutOK
<1>2. /\ flush = [pc |-> flush.pc, deltas |-> flush.deltas, todo |-> flush.todo,
                  batch |-> flush.batch]
      /\ flush.pc \in {"idle", "fold"} /\ (flush.pc = "idle" => flush = Idle)
      /\ DOMAIN flush.deltas \in SUBSET BucketKeys
      /\ flush.deltas \in [DOMAIN flush.deltas -> Counts]
      /\ flush.todo \in SUBSET Groups
      /\ \A k \in DOMAIN flush.deltas :
            Group(k) \in flush.todo \/ \E p \in flush.batch : p.group = Group(k)
      /\ \A p, q \in flush.batch : p.group = q.group => p = q
  BY DEF FlushOK
<1>3. flush' = flush
  OBVIOUS
<1>. QED  BY <1>1, <1>2, <1>3 DEF FlushOK

\* A repository is deleted: its counters wait for the sweep.
LEMMA DeleteKeeps ==
    ASSUME CountInv, NEW name \in Names, delete_repo(name)
    PROVE  CountInv'
<1>. USE DEF CountInv
<1>1. /\ repos[name] # None /\ repos' = [repos EXCEPT ![name] = None]
      /\ dead' = dead \cup {repos[name]}
      /\ UNCHANGED <<now, enabled, owner, dirty, dropped, bodies, flush, stored, owed>>
  BY DEF delete_repo
<1>2. Ids' = Ids
  BY <1>1 DEF Ids
<1>3. \A n \in Names : repos'[n] = IF n = name THEN None ELSE repos[n]
  BY <1>1 DEF ReposOK
<1>4. repos[name] \in Ids /\ owner[repos[name]] = name /\ None \notin Ids
  <2>1. None \notin Ids
    BY KeptFacts, ValueAssumption
  <2>. QED  BY <1>1, <2>1 DEF ReposOK
<1>5. ReposOK'
  <2>1. repos' \in [Names -> Ids \cup {None}]
    BY <1>1, <1>3 DEF ReposOK
  <2>2. \A n \in Names : repos'[n] # None => owner'[repos'[n]] = n
    BY <1>1, <1>3 DEF ReposOK
  <2>3. dead' \in SUBSET (Ids \ {repos'[n] : n \in Names})
    <3>1. \A n \in Names : repos'[n] # repos[name]
      BY <1>3, <1>4 DEF ReposOK
    <3>2. \A n \in Names : repos'[n] \notin dead
      BY <1>3, <1>4 DEF ReposOK
    <3>3. dead \in SUBSET Ids
      BY DEF ReposOK
    <3>. QED  BY <1>1, <1>4, <3>1, <3>2, <3>3
  <2>4. owner' \in Seq(Names) /\ Len(owner') <= MaxIds
    BY <1>1 DEF ReposOK
  <2>. QED  BY <1>2, <2>1, <2>2, <2>3, <2>4 DEF ReposOK
<1>6. Kept' = Kept
  BY <1>1, <1>3 DEF Kept
<1>7. \A id, g : BucketOf(id, g)' = BucketOf(id, g)
  BY <1>1 DEF BucketOf
<1>8. FlushOK'
  BY <1>1, <1>2, <1>6, <1>7, FlushKept
<1>9. DirtyOK' /\ StoredOK' /\ RestOK' /\ OwedShape'
  BY <1>1, DirtyStays, StoredStays, RestStays, OwedStays
<1>10. Balanced'
  <2>1. \A k, f : Open(k, f)' = Open(k, f)
    BY <1>1, OpenStays
  <2>2. \A k, f : Held(k, f)' = Held(k, f)
    BY <1>1, <1>6, <1>7 DEF Held, HeldUnder
  <2>. QED  BY <1>1, <2>1, <2>2 DEF Balanced, Tally
<1>. QED  BY <1>5, <1>8, <1>9, <1>10, SettledNext

\* A name is interned: its new id has no counters yet.
LEMMA InternKeeps ==
    ASSUME CountInv, NEW name \in Names, intern_repo(name)
    PROVE  CountInv'
<1>. USE DEF CountInv
<1>1. PICK n, old, new : n = Len(owner) /\ old = owner /\ new = owner'
  OBVIOUS
<1>2. /\ repos[name] = None /\ n < MaxIds /\ repos' = [repos EXCEPT ![name] = n + 1]
      /\ new = Append(old, name)
      /\ UNCHANGED <<now, enabled, dead, dirty, dropped, bodies, flush, stored, owed>>
  BY <1>1 DEF intern_repo
<1>3. old \in Seq(Names) /\ n \in Nat /\ n = Len(old) /\ Ids = 1..n
  BY <1>1 DEF ReposOK, Ids
<1>4. /\ new \in Seq(Names) /\ Len(new) = n + 1 /\ new[n + 1] = name
      /\ \A id \in 1..n : new[id] = old[id]
  BY ONLY <1>2, <1>3, name \in Names
<1>5. Ids' = Ids \cup {n + 1} /\ n + 1 \notin Ids /\ n + 1 \in Nat
  <2>1. Ids' = 1..(n + 1)
    BY <1>1, <1>4 DEF Ids
  <2>. QED  BY <1>3, <2>1
<1>6. \A x \in Names : repos'[x] = IF x = name THEN n + 1 ELSE repos[x]
  BY <1>2 DEF ReposOK
<1>7. None \notin Nat /\ n + 1 # None
  BY <1>5, ValueAssumption
<1>8. ReposOK'
  <2>1. repos' \in [Names -> Ids' \cup {None}]
    BY <1>2, <1>5, <1>6 DEF ReposOK
  <2>2. \A x \in Names : repos'[x] # None => new[repos'[x]] = x
    BY <1>1, <1>3, <1>4, <1>6 DEF ReposOK
  <2>3. dead' \in SUBSET (Ids' \ {repos'[x] : x \in Names})
    BY <1>2, <1>5, <1>6 DEF ReposOK
  <2>4. Len(new) <= MaxIds
    <3>1. MaxIds \in Nat
      BY CounterAssumption
    <3>. QED  BY <1>2, <1>3, <1>4, <3>1
  <2>. QED  BY <1>1, <1>4, <2>1, <2>2, <2>3, <2>4 DEF ReposOK
<1>9. Kept' = Kept \cup {n + 1} /\ n + 1 \notin Kept
  <2>1. n + 1 \notin Kept
    BY <1>5, KeptFacts
  <2>2. Kept' = Kept \cup {n + 1}
    BY <1>2, <1>6, <1>7 DEF Kept
  <2>. QED  BY <2>1, <2>2
<1>10. \A id, g : BucketOf(id, g)' = BucketOf(id, g)
  BY <1>2 DEF BucketOf
<1>11. FlushOK'
  <2>1. \A id \in Ids : owner'[id] = owner[id]
    BY <1>1, <1>3, <1>4
  <2>2. \A id \in Ids : id \in Kept' => id \in Kept
    BY <1>5, <1>9
  <2>. QED  BY <1>2, <1>5, <1>10, <2>1, <2>2, FlushKept
<1>12. StoredOK'
  BY <1>2, <1>5 DEF StoredOK
<1>13. DirtyOK' /\ RestOK' /\ OwedShape'
  BY <1>2, DirtyStays, RestStays, OwedStays
<1>14. Balanced'
  <2>. SUFFICES ASSUME NEW k \in BucketKeys, NEW f \in DOMAIN Zero
                PROVE  Held(k, f)' = Held(k, f)
    BY <1>2, OpenStays DEF Balanced, Tally
  <2>1. PICK g, h : /\ g = [id \in Kept |-> HeldUnder(id, k)[f]]
                    /\ h = [id \in Kept' |-> HeldUnder(id, k)'[f]]
    OBVIOUS
  <2>2. \A id \in Kept : h[id] = g[id] /\ g[id] \in Nat
    <3>1. \A id \in Kept : owner'[id] = owner[id]
      BY <1>1, <1>3, <1>4, KeptFacts
    <3>2. \A id \in Kept : HeldUnder(id, k)' = HeldUnder(id, k)
      BY <1>10, <3>1 DEF HeldUnder
    <3>. QED  BY <1>9, <2>1, <3>2, HeldFacts
  <2>3. h[n + 1] = 0
    <3>1. k.subject \in Subjects /\ k.day \in Nat /\ k.hour \in Hours
      BY DEF BucketKeys
    <3>2. CounterKey(n + 1, k.subject, k.day) \notin DOMAIN stored
      <4>. SUFFICES ASSUME CounterKey(n + 1, k.subject, k.day) \in DOMAIN stored PROVE FALSE
        OBVIOUS
      <4>1. PICK id \in Ids, s \in Subjects, day \in 0..LastDay :
               CounterKey(n + 1, k.subject, k.day) = CounterKey(id, s, day)
        BY DEF StoredOK
      <4>2. id \in Nat /\ day \in Nat
        BY KeptFacts
      <4>3. n + 1 = id
        BY <1>5, <3>1, <4>1, <4>2, KeysApart
      <4>. QED  BY <1>5, <4>3
    <3>3. HeldUnder(n + 1, k)' = Zero
      BY <1>2, <3>1, <3>2 DEF HeldUnder, BucketOf, EmptyBucket
    <3>. QED  BY <1>9, <2>1, <3>3, PullCounts
  <2>4. PICK S : S = Kept \cup {n + 1}
    OBVIOUS
  <2>5. IsFiniteSet(S) /\ n + 1 \in S /\ S \ {n + 1} = Kept /\ (\A id \in S : h[id] \in Nat)
    BY <1>9, <2>2, <2>3, <2>4, KeptFacts, FS_AddElement
  <2>6. Pile(h, S) = h[n + 1] + Pile(h, S \ {n + 1})
    BY ONLY <2>5, PileSplit
  <2>7. Pile(h, Kept) = Pile(g, Kept) /\ Pile(g, Kept) \in Nat
    BY <2>2, KeptFacts, PileSame, PileNat
  <2>8. Held(k, f) = Pile(g, Kept) /\ Held(k, f)' = Pile(h, S)
    BY <1>9, <2>1, <2>4 DEF Held
  <2>. QED  BY ONLY <2>3, <2>5, <2>6, <2>7, <2>8
<1>. QED  BY <1>8, <1>11, <1>12, <1>13, <1>14, SettledNext

\* The sweep of an id takes what it holds and nothing of another id.
LEMMA SweepKeeps ==
    ASSUME CountInv, NEW id \in dead, SweepCounters(id)
    PROVE  CountInv'
<1>. USE DEF CountInv
<1>1. PICK keys1, keys2, left :
        /\ keys1 = DeletePrefix(DOMAIN stored, counters_in_repo_scope(SCOPE_MANIFEST, id))
        /\ keys2 = DeletePrefix(keys1, counters_in_repo_scope(SCOPE_TAG, id))
        /\ left = DeletePrefix(keys2, counters_in_repo_scope(SCOPE_REPO, id))
  OBVIOUS
<1>2. /\ dead' = dead \ {id} /\ stored' = [key \in left |-> stored[key]]
      /\ GiveUp(HeldBy({id}))
      /\ UNCHANGED <<now, enabled, repos, owner, dirty, dropped, bodies, flush>>
  BY <1>1 DEF SweepCounters
<1>3. left \in SUBSET DOMAIN stored
  <2>1. \A keys, prefix : DeletePrefix(keys, prefix) \in SUBSET keys
    BY DEF DeletePrefix
  <2>2. keys1 \in SUBSET DOMAIN stored /\ keys2 \in SUBSET keys1 /\ left \in SUBSET keys2
    BY <1>1, <2>1
  <2>. QED  BY <2>2
<1>4. id \in Ids /\ id \in 0..MaxByte
  BY KeptFacts DEF ReposOK
<1>5. ASSUME NEW j \in Ids, j # id, NEW s \in Subjects, NEW day \in Nat,
             CounterKey(j, s, day) \in DOMAIN stored
      PROVE  CounterKey(j, s, day) \in left
  <2>0. j \in 0..MaxByte
    BY KeptFacts
  <2>1. CounterKey(j, s, day) \in keys1
    BY <1>1, <1>4, <1>5, <2>0, OthersSpared
  <2>2. CounterKey(j, s, day) \in keys2
    BY <1>1, <1>4, <1>5, <2>0, <2>1, OthersSpared
  <2>. QED  BY <1>1, <1>4, <1>5, <2>0, <2>2, OthersSpared
<1>6. ASSUME NEW j \in Ids, j # id, NEW g, g.subject \in Subjects, g.day \in Nat
      PROVE  BucketOf(j, g)' = BucketOf(j, g)
  <2>1. PICK key : key = CounterKey(j, g.subject, g.day)
    OBVIOUS
  <2>2. key \in left <=> key \in DOMAIN stored
    BY <1>3, <1>5, <1>6, <2>1
  <2>3. DOMAIN stored' = left /\ \A x \in left : stored'[x] = stored[x]
    BY <1>2
  <2>. QED  BY <2>1, <2>2, <2>3 DEF BucketOf
<1>7. Kept' = Kept \ {id} /\ id \in Kept
  BY <1>2 DEF ReposOK, Kept
<1>8. ReposOK' /\ Ids' = Ids
  BY <1>2 DEF ReposOK, Ids
<1>9. StoredOK'
  <2>1. DOMAIN stored' = left /\ \A key \in left : stored'[key] \in Buckets
    BY <1>2, <1>3 DEF StoredOK
  <2>2. stored' \in [DOMAIN stored' -> Buckets]
    BY <1>2, <2>1
  <2>. QED  BY <1>3, <1>8, <2>1, <2>2 DEF StoredOK
<1>10. FlushOK'
  <2>1. \A j \in Ids : j \in Kept' =>
           j \in Kept /\ \A g \in Groups : BucketOf(j, g)' = BucketOf(j, g)
    <3>1. \A g \in Groups : g.subject \in Subjects /\ g.day \in Nat
      BY GroupFacts
    <3>2. \A j \in Ids, g \in Groups : j # id => BucketOf(j, g)' = BucketOf(j, g)
      BY <1>6, <3>1
    <3>. QED  BY <1>7, <3>2
  <2>. QED  BY <1>2, <1>8, <2>1, FlushKept
<1>11. DirtyOK' /\ RestOK'
  BY <1>2, DirtyStays, RestStays
<1>12. PICK lost : lost = HeldBy({id})
  OBVIOUS
<1>13. OwedShape' /\ \A k \in BucketKeys, f \in DOMAIN Zero : owed'[k][f] = owed[k][f] - lost[k][f]
  BY <1>2, <1>12, GiveUpFacts
<1>14. Balanced'
  <2>. SUFFICES ASSUME NEW k \in BucketKeys, NEW f \in DOMAIN Zero
                PROVE  owed'[k][f] = Open(k, f)' + Held(k, f)' + Tally(dirty', k)[f]
                                      + Tally(flush'.deltas, k)[f]
    BY DEF Balanced, Tally
  <2>1. Open(k, f)' = Open(k, f) /\ dirty' = dirty /\ flush' = flush
    BY <1>2, OpenStays
  <2>2. /\ owed[k][f] = Open(k, f) + Held(k, f) + Tally(dirty, k)[f] + Tally(flush.deltas, k)[f]
        /\ owed[k][f] \in Nat /\ Open(k, f) \in Nat /\ Held(k, f) \in Nat
        /\ Tally(dirty, k)[f] \in Nat /\ Tally(flush.deltas, k)[f] \in Nat
    BY BalanceNow
  <2>3. PICK g, h : /\ g = [x \in Kept |-> HeldUnder(x, k)[f]]
                    /\ h = [x \in Kept' |-> HeldUnder(x, k)'[f]]
    OBVIOUS
  <2>4. \A x \in Kept : g[x] \in Nat
    BY <2>3, HeldFacts
  <2>5. \A x \in Kept \ {id} : h[x] = g[x]
    <3>1. k.subject \in Subjects /\ k.day \in Nat
      BY DEF BucketKeys
    <3>2. \A x \in Kept \ {id} : BucketOf(x, k)' = BucketOf(x, k)
      BY <1>6, <3>1, KeptFacts
    <3>. QED  BY <1>2, <1>7, <2>3, <3>2 DEF HeldUnder
  <2>6. lost[k][f] = g[id]
    <3>1. PICK o : o = [x \in {id} |-> HeldUnder(x, k)[f]]
      OBVIOUS
    <3>2. o[id] = g[id] /\ g[id] \in Nat
      BY <1>7, <2>3, <2>4, <3>1
    <3>3. Pile(o, {id}) = o[id]
      BY <3>2, PileOne
    <3>4. lost[k][f] = Pile(o, {id})
      BY <1>12, <3>1 DEF HeldBy
    <3>. QED  BY <3>2, <3>3, <3>4
  <2>7. Pile(g, Kept) = g[id] + Pile(g, Kept \ {id})
    BY <1>7, <2>4, KeptFacts, PileSplit
  <2>8. Pile(h, Kept \ {id}) = Pile(g, Kept \ {id})
    BY <2>5, PileSame
  <2>9. Pile(g, Kept \ {id}) \in Nat
    <3>1. IsFiniteSet(Kept \ {id})
      BY KeptFacts, FS_RemoveElement, <1>7
    <3>. QED  BY <2>4, <3>1, PileNat
  <2>10. Held(k, f) = Pile(g, Kept) /\ Held(k, f)' = Pile(h, Kept \ {id})
    BY <1>7, <2>3 DEF Held
  <2>11. owed'[k][f] = owed[k][f] - lost[k][f] /\ g[id] \in Nat
    BY <1>7, <1>13, <2>4
  <2>. QED  BY ONLY <2>1, <2>2, <2>6, <2>7, <2>8, <2>9, <2>10, <2>11
<1>. QED  BY <1>8, <1>9, <1>10, <1>11, <1>13, <1>14, SettledNext

\* The process ends: what is stored is all that is left.
LEMMA RestartKeeps ==
    ASSUME CountInv, NEW counting \in BOOLEAN, Restart(counting)
    PROVE  CountInv'
<1>. USE DEF CountInv
<1>1. /\ enabled' = counting /\ dirty' = <<>> /\ dropped' = 0
      /\ bodies' = [b \in Bodies |-> None] /\ flush' = Idle /\ owed' = HeldBy(Kept)
      /\ UNCHANGED <<now, repos, owner, dead, stored>>
  BY DEF Restart
<1>2. DOMAIN dirty' = {}
  BY <1>1
<1>3. DirtyOK'
  <2>1. IsFiniteSet({}) /\ Cardinality({}) = 0 /\ MAX_BUCKETS \in Nat
    BY FS_EmptySet, CounterAssumption
  <2>2. Cardinality(DOMAIN dirty') <= MAX_BUCKETS
    BY <1>2, <2>1
  <2>3. dirty' \in [DOMAIN dirty' -> Counts]
    BY <1>1, <1>2
  <2>. QED  BY <1>1, <1>2, <2>1, <2>2, <2>3 DEF DirtyOK, MapOK
<1>4. ReposOK' /\ StoredOK' /\ FlushOK'
  BY <1>1, ReposStay, StoredStays, IdleNext
<1>5. RestOK'
  BY <1>1 DEF RestOK
<1>6. OwedShape'
  BY <1>1 DEF OwedShape, HeldBy
<1>7. Balanced'
  <2>. SUFFICES ASSUME NEW k \in BucketKeys, NEW f \in DOMAIN Zero
                PROVE  owed'[k][f] = Open(k, f)' + Held(k, f)' + Tally(dirty', k)[f]
                                      + Tally(flush'.deltas, k)[f]
    BY DEF Balanced, Tally
  <2>0. Zero[f] = 0
    BY PullCounts
  <2>1. Tally(dirty', k)[f] = 0 /\ Tally(flush'.deltas, k)[f] = 0
    BY <1>1, <1>2, <2>0, IdleFacts DEF Tally
  <2>2. Open(k, f)' = 0
    <3>1. \A b \in Bodies : [x \in Bodies |-> OpenIn(x, k)'[f]][b] = 0
      BY <1>1, <2>0 DEF OpenIn
    <3>. QED  BY <3>1, PileZero DEF Open
  <2>3. Held(k, f)' = Held(k, f) /\ owed'[k][f] = Held(k, f) /\ Held(k, f) \in Nat
    BY <1>1, HeldStays, PartsNat DEF HeldBy, Held
  <2>. QED  BY ONLY <2>1, <2>2, <2>3
<1>. QED  BY <1>3, <1>4, <1>5, <1>6, <1>7, SettledNext

----------------------------------------------------------------------------
(* The theorems.                                                           *)

\* The balance is an invariant: kept by every handler, by every step of the flush
\* task, by the deletion, the sweep and the recreation of a repository, and by a
\* restart (counters.rs; registry.rs add_pull_counts, sweep).
THEOREM CountInvariant == Spec => []CountInv
<1>1. CountInv /\ [Next]_vars => CountInv'
  <2>. SUFFICES ASSUME CountInv, [Next]_vars PROVE CountInv'
    OBVIOUS
  <2>1. CASE \E name \in Names, d \in Digests, t \in Tags \cup {None} :
               record_manifest_pull(name, t, d)
    BY <2>1, PullKeeps
  <2>2. CASE \E b \in Bodies, name \in Names : meter_blob(b, name)
    BY <2>2, MeterKeeps
  <2>3. CASE \E b \in Bodies : poll_next(b)
    BY <2>3, PollKeeps
  <2>4. CASE \E b \in Bodies : drop(b)
    BY <2>4, DropKeeps
  <2>5. CASE drain
    BY <2>5, DrainKeeps
  <2>6. CASE FoldGroup
    BY <2>6, FoldKeeps
  <2>7. CASE Apply
    BY <2>7, ApplyKeeps
  <2>8. CASE FlushFails
    BY <2>8, FailureKeeps
  <2>9. CASE Tick
    BY <2>9, TickKeeps
  <2>10. CASE \E name \in Names : delete_repo(name)
    BY <2>10, DeleteKeeps
  <2>11. CASE \E name \in Names : intern_repo(name)
    BY <2>11, InternKeeps
  <2>12. CASE \E id \in dead : SweepCounters(id)
    BY <2>12, SweepKeeps
  <2>13. CASE \E counting \in BOOLEAN : Restart(counting)
    BY <2>13, RestartKeeps
  <2>14. CASE UNCHANGED vars
    BY <2>14, StutterKeeps
  <2>. QED  BY <2>1, <2>2, <2>3, <2>4, <2>5, <2>6, <2>7, <2>8, <2>9, <2>10, <2>11, <2>12, <2>13,
              <2>14 DEF Next
<1>. QED  BY <1>1, CountsBegin, PTL DEF Spec

\* The accumulator stays within its cap and the stored counts within their 32
\* bits, and an id belongs to the one name it was minted for (PullCounters::add,
\* CounterBucket::add, intern_repo).
THEOREM TypeCorrect == Spec => []TypeOK
<1>1. CountInv => TypeOK
  BY InvTypes
<1>. QED  BY <1>1, CountInvariant, PTL

\* Every pull and every byte a client received is in exactly one place, unless the
\* code gave it up, for every number of names, bodies, subjects, hours and ids
\* (counters.rs drain, add, MeteredBlob; registry.rs add_pull_counts).
THEOREM PullsConserved == Spec => []Conserved
<1>1. CountInv => Conserved
  BY BalancedConserves
<1>. QED  BY <1>1, CountInvariant, PTL
=============================================================================
