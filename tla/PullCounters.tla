---------------------------- MODULE PullCounters ----------------------------
(***************************************************************************)
(* Pull counts, from the response that is counted to the window that is    *)
(* read back: the accumulator the handlers record into, the metered blob   *)
(* bodies, the task that folds the accumulator into the A range of the     *)
(* store, and the API's window of days.  Deleting, sweeping and recreating *)
(* a repository, a failed batch and a crash happen between any two steps.  *)
(*                                                                         *)
(* owed is history: what the clients received and the code has not given   *)
(* up, hour by hour.                                                       *)
(***************************************************************************)
EXTENDS Engine, FiniteSets, FiniteSetsExt

CONSTANTS
    Names,          \* repository names, all of them present at first
    Digests, Tags,  \* the manifests and tags a client pulls, encoded
    Bodies,         \* blob responses that may be open at once
    HoursPerDay,
    MAX_BUCKETS,    \* keys the accumulator holds
    MaxCount,       \* u32::MAX
    MaxHour,        \* bound: the last hour of a run
    MaxPulls,       \* bound: responses of a run
    MaxChunks,      \* bound: chunks of a blob response
    MaxIds          \* bound: repository ids

ASSUME CounterAssumption ==
    /\ {HoursPerDay, MAX_BUCKETS, MaxCount} \subseteq Nat \ {0}
    /\ MaxIds \in Nat /\ MaxIds >= Cardinality(Names)
    /\ {MaxHour, MaxPulls, MaxChunks} \subseteq Nat

\* An id fits the bytes a key has for it, and None is no value.
ASSUME ValueAssumption ==
    /\ IsFiniteSet(Names) /\ IsFiniteSet(Bodies) /\ MaxIds <= MaxByte
    /\ Digests \cup Tags \subseteq Seq(0..MaxByte)
    /\ None \notin Nat /\ None \notin Seq(Nat)
    /\ None \notin [repo : Names, at : 0..MaxHour, bytes : 0..MaxChunks]

VARIABLES
    now,       \* the hour on the clock
    enabled,   \* --no-pull-counts is off
    repos,     \* name -> id, None when deleted
    owner,     \* the names ids were minted for, in the order of the ids
    dead,      \* ids whose sweep is due
    dirty,     \* the accumulator: bucket key -> counts
    dropped,   \* increments refused since the last flush
    bodies,    \* open blob responses
    flush,     \* the flush task
    stored,    \* the A range: key -> hour -> counts
    pulls, owed

vars == <<now, enabled, repos, owner, dead, dirty, dropped, bodies, flush, stored,
          pulls, owed>>

----------------------------------------------------------------------------
(* Counts and buckets.                                                     *)

Zero == [manifest_pulls |-> 0, blob_pulls |-> 0, bytes_out |-> 0]
ManifestPull == [Zero EXCEPT !.manifest_pulls = 1]
BlobPull(bytes) == [Zero EXCEPT !.blob_pulls = 1, !.bytes_out = bytes]

Plus(a, b) == [f \in DOMAIN Zero |-> a[f] + b[f]]
Minus(a, b) == [f \in DOMAIN Zero |-> a[f] - b[f]]

\* The pulls are 32 bits wide and saturate.
Clip(c) == [c EXCEPT !.manifest_pulls = IF @ > MaxCount THEN MaxCount ELSE @,
                     !.blob_pulls = IF @ > MaxCount THEN MaxCount ELSE @]
Excess(c) == [f \in DOMAIN Zero |-> c[f] - Clip(c)[f]]

Hours == 0..(HoursPerDay - 1)
day_bucket(t) == t \div HoursPerDay
hour_of_day(t) == t % HoursPerDay
LastDay == day_bucket(MaxHour)

Subjects == [kind : {"manifest"}, of : Digests] \cup [kind : {"tag"}, of : Tags]
              \cup {[kind |-> "repo", of |-> None]}
Manifest(d) == [kind |-> "manifest", of |-> d]
Tag(t) == [kind |-> "tag", of |-> t]
Repo == [kind |-> "repo", of |-> None]

BucketKeys == [repo : Names, subject : Subjects, day : 0..LastDay, hour : Hours]
Key(repo, subject, t) ==
    [repo |-> repo, subject |-> subject, day |-> day_bucket(t), hour |-> hour_of_day(t)]

\* CounterBucket: a day is its hours, with no total beside them.
EmptyBucket == [h \in Hours |-> Zero]
bucket_add(bucket, hour, c) ==
    IF hour >= HoursPerDay THEN bucket ELSE [bucket EXCEPT ![hour] = Clip(Plus(@, c))]

\* One range of keys per subject, a key per day and shard in it.
SHARD == 0
prefix_of(id, subject) ==
    CASE subject.kind = "manifest" -> counters_of_manifest(id, subject.of)
      [] subject.kind = "tag" -> counters_of_tag(id, subject.of)
      [] subject.kind = "repo" -> counters_of_repo(id)
CounterKey(id, subject, day) == push_bucket(prefix_of(id, subject), day, SHARD)

Tally(f, key) == IF key \in DOMAIN f THEN f[key] ELSE Zero
Total(f) == [key \in BucketKeys |-> Tally(f, key)]

----------------------------------------------------------------------------
(* Recording.                                                              *)

\* A map allowed one key too many.
add_one_over(acc, key, c) ==
    IF key \in DOMAIN acc.dirty
    THEN [acc EXCEPT !.dirty[key] = Plus(@, c)]
    ELSE IF Cardinality(DOMAIN acc.dirty) > MAX_BUCKETS
         THEN [acc EXCEPT !.dropped = @ + 1]
         ELSE [acc EXCEPT !.dirty = [k \in DOMAIN acc.dirty \cup {key} |->
                   IF k = key THEN c ELSE acc.dirty[k]]]

\* A known key is always added to; the cap is for new ones.
add(acc, key, c) ==
    IF key \in DOMAIN acc.dirty
    THEN [acc EXCEPT !.dirty[key] = Plus(@, c)]
    ELSE IF Cardinality(DOMAIN acc.dirty) >= MAX_BUCKETS
         THEN [acc EXCEPT !.dropped = @ + 1]
         ELSE [acc EXCEPT !.dirty = [k \in DOMAIN acc.dirty \cup {key} |->
                   IF k = key THEN c ELSE acc.dirty[k]]]

\* The adds of one call are made under one lock.
Accumulator == [dirty |-> dirty, dropped |-> dropped]
Record(added) ==
    \E acc \in {added} :
        /\ dirty' = acc.dirty
        /\ dropped' = acc.dropped

Owe(keys, c) == owed' = [k \in BucketKeys |-> IF k \in keys THEN Plus(owed[k], c) ELSE owed[k]]
GiveUp(amount) == owed' = [k \in BucketKeys |-> Minus(owed[k], amount[k])]

\* GET of a manifest, answered with its body.  HEAD and 304 record nothing.  The
\* handler has read the manifest already: its repository may be gone by now.
record_manifest_pull(name, tag_asked, digest) ==
    /\ enabled
    /\ pulls < MaxPulls
    /\ pulls' = pulls + 1
    /\ LET m == Key(name, Manifest(digest), now)
           t == Key(name, Tag(tag_asked), now)
           r == Key(name, Repo, now)
           first == add(Accumulator, m, ManifestPull)
           second == IF tag_asked = None THEN first ELSE add(first, t, ManifestPull)
       IN  /\ Record(add(second, r, ManifestPull))
           /\ Owe((IF tag_asked = None THEN {m, r} ELSE {m, t, r}) \cap DOMAIN dirty',
                  ManifestPull)
    /\ UNCHANGED <<now, enabled, repos, owner, dead, bodies, flush, stored>>

\* A blob response starts: the hour is taken here.
meter_blob(b, name) ==
    /\ enabled
    /\ bodies[b] = None
    /\ repos[name] # None
    /\ pulls < MaxPulls
    /\ pulls' = pulls + 1
    /\ bodies' = [bodies EXCEPT ![b] = [repo |-> name, at |-> now, bytes |-> 0]]
    /\ Owe({Key(name, Repo, now)}, BlobPull(0))
    /\ UNCHANGED <<now, enabled, repos, owner, dead, dirty, dropped, flush, stored>>

poll_next(b) ==
    /\ bodies[b] # None
    /\ bodies[b].bytes < MaxChunks
    /\ bodies' = [bodies EXCEPT ![b].bytes = @ + 1]
    /\ Owe({Key(bodies[b].repo, Repo, bodies[b].at)}, [Zero EXCEPT !.bytes_out = 1])
    /\ UNCHANGED <<now, enabled, repos, owner, dead, dirty, dropped, flush, stored,
                   pulls>>

\* Under the hour the response ends in.
RecordLate(b) ==
    Record(add(Accumulator, Key(bodies[b].repo, Repo, now), BlobPull(bodies[b].bytes)))

record_blob_bytes(b) ==
    Record(add(Accumulator, Key(bodies[b].repo, Repo, bodies[b].at), BlobPull(bodies[b].bytes)))

\* The body is dropped: at its end, or when the client goes away.
drop(b) ==
    /\ bodies[b] # None
    /\ record_blob_bytes(b)
    /\ bodies' = [bodies EXCEPT ![b] = None]
    /\ LET key == Key(bodies[b].repo, Repo, bodies[b].at) IN
        owed' = IF key \in DOMAIN dirty' THEN owed
                ELSE [owed EXCEPT ![key] = Minus(@, BlobPull(bodies[b].bytes))]
    /\ UNCHANGED <<now, enabled, repos, owner, dead, flush, stored, pulls>>

----------------------------------------------------------------------------
(* The flush task.  deltas is the part of the drained map that is still on *)
(* its way, todo the groups of it to be read, batch the values to be put.  *)

Idle == [pc |-> "idle", deltas |-> <<>>, todo |-> {}, batch |-> {}]

Group(key) == [repo |-> key.repo, subject |-> key.subject, day |-> key.day]
InGroup(group, hour) ==
    [repo |-> group.repo, subject |-> group.subject, day |-> group.day, hour |-> hour]

\* A tick: take_dropped, drain, and nothing more when there was nothing.
drain ==
    /\ enabled
    /\ flush.pc = "idle"
    /\ DOMAIN dirty # {} \/ dropped > 0
    /\ dropped' = 0
    /\ dirty' = <<>>
    /\ flush' = IF DOMAIN dirty = {} THEN flush
                ELSE [pc |-> "fold", deltas |-> dirty, batch |-> {},
                      todo |-> {Group(key) : key \in DOMAIN dirty}]
    /\ UNCHANGED <<now, enabled, repos, owner, dead, bodies, stored, pulls, owed>>

BucketOf(id, group) ==
    LET key == CounterKey(id, group.subject, group.day) IN
    IF key \in DOMAIN stored THEN stored[key] ELSE EmptyBucket

\* The group's deltas added to what is stored: there is one for each hour at most.
Fold(id, group) ==
    [h \in Hours |->
        bucket_add(BucketOf(id, group), h, Tally(flush.deltas, InGroup(group, h)))[h]]

\* The next group: its repository is looked up and never interned, its bucket read.
FoldGroup ==
    /\ flush.pc = "fold"
    /\ flush.todo # {}
    /\ LET group == CHOOSE g \in flush.todo : TRUE
           id == repos[group.repo]
           gone == {key \in DOMAIN flush.deltas : Group(key) = group}
       IN  IF id = None
           THEN /\ flush' = [flush EXCEPT !.todo = @ \ {group},
                                !.deltas = [k \in DOMAIN @ \ gone |-> @[k]]]
                /\ GiveUp([k \in BucketKeys |->
                               IF k \in gone THEN flush.deltas[k] ELSE Zero])
           ELSE /\ flush' = [flush EXCEPT !.todo = @ \ {group},
                                !.batch = @ \cup {[id |-> id, group |-> group,
                                                   bucket |-> Fold(id, group)]}]
                /\ UNCHANGED owed
    /\ UNCHANGED <<now, enabled, repos, owner, dead, dirty, dropped, bodies, stored,
                   pulls>>

\* Ids whose range has not been swept.
Kept == dead \cup ({repos[name] : name \in Names} \ {None})

\* What applying p gives up at hour h: what saturates, and all of it when the
\* repository was swept after it was looked up.
GivenUp(p, k) ==
    LET delta == Tally(flush.deltas, k) IN
    IF p.id \in Kept THEN Excess(Plus(BucketOf(p.id, p.group)[k.hour], delta)) ELSE delta

\* One batch for every bucket; an empty one is not applied.
Apply ==
    /\ flush.pc = "fold"
    /\ flush.todo = {}
    /\ LET Puts(key) == {p \in flush.batch :
                           key = CounterKey(p.id, p.group.subject, p.group.day)}
           put == {CounterKey(p.id, p.group.subject, p.group.day) : p \in flush.batch}
       IN  stored' = [key \in DOMAIN stored \cup put |->
                         IF key \in put THEN (CHOOSE p \in Puts(key) : TRUE).bucket
                         ELSE stored[key]]
    /\ GiveUp([k \in BucketKeys |->
          IF \E p \in flush.batch : p.group = Group(k)
          THEN GivenUp(CHOOSE p \in flush.batch : p.group = Group(k), k)
          ELSE Zero])
    /\ flush' = Idle
    /\ UNCHANGED <<now, enabled, repos, owner, dead, dirty, dropped, bodies, pulls>>

\* A read or the batch fails: logged, and the interval is gone.
FlushFails ==
    /\ flush.pc = "fold"
    /\ GiveUp(Total(flush.deltas))
    /\ flush' = Idle
    /\ UNCHANGED <<now, enabled, repos, owner, dead, dirty, dropped, bodies, stored,
                   pulls>>

----------------------------------------------------------------------------
(* What happens around the counters.                                       *)

Tick ==
    /\ now < MaxHour
    /\ now' = now + 1
    /\ UNCHANGED <<enabled, repos, owner, dead, dirty, dropped, bodies, flush, stored,
                   pulls, owed>>

delete_repo(name) ==
    /\ repos[name] # None
    /\ repos' = [repos EXCEPT ![name] = None]
    /\ dead' = dead \cup {repos[name]}
    /\ UNCHANGED <<now, enabled, owner, dirty, dropped, bodies, flush, stored,
                   pulls, owed>>

\* A push to the name: a new id, never one that was used.
intern_repo(name) ==
    /\ repos[name] = None
    /\ Len(owner) < MaxIds
    /\ repos' = [repos EXCEPT ![name] = Len(owner) + 1]
    /\ owner' = Append(owner, name)
    /\ UNCHANGED <<now, enabled, dead, dirty, dropped, bodies, flush, stored,
                   pulls, owed>>

\* The sum of f over S, counted unit by unit.
Pile(f, S) == Cardinality(UNION {{x} \X (1..f[x]) : x \in S})

HeldUnder(id, k) == IF owner[id] = k.repo THEN BucketOf(id, k)[k.hour] ELSE Zero
HeldBy(ids) ==
    [k \in BucketKeys |->
        [f \in DOMAIN Zero |-> Pile([id \in ids |-> HeldUnder(id, k)[f]], ids)]]

\* The sweep of a dead repository, as far as the counters go: the range of each
\* scope is deleted.
SweepCounters(id) ==
    /\ id \in dead
    /\ dead' = dead \ {id}
    /\ LET Sweep(keys, scope) == DeletePrefix(keys, counters_in_repo_scope(scope, id))
           left == Sweep(Sweep(Sweep(DOMAIN stored, SCOPE_MANIFEST), SCOPE_TAG), SCOPE_REPO)
       IN  stored' = [key \in left |-> stored[key]]
    /\ GiveUp(HeldBy({id}))
    /\ UNCHANGED <<now, enabled, repos, owner, dirty, dropped, bodies, flush, pulls>>

OpenIn(b, k) ==
    IF bodies[b] # None /\ k = Key(bodies[b].repo, Repo, bodies[b].at)
    THEN BlobPull(bodies[b].bytes) ELSE Zero
OpenBodies ==
    [k \in BucketKeys |->
        [f \in DOMAIN Zero |-> Pile([b \in Bodies |-> OpenIn(b, k)[f]], Bodies)]]

\* The process ends, by a crash or a shutdown: nothing is drained.  The next one
\* is started with or without counting.
Restart(counting) ==
    /\ enabled' = counting
    /\ dirty' = <<>>
    /\ dropped' = 0
    /\ bodies' = [b \in Bodies |-> None]
    /\ flush' = Idle
    /\ owed' = HeldBy(Kept)
    /\ UNCHANGED <<now, repos, owner, dead, stored, pulls>>

Init ==
    /\ now = 0
    /\ enabled = TRUE
    /\ owner = SetToSeq(Names)
    /\ repos = [name \in Names |-> CHOOSE id \in DOMAIN owner : owner[id] = name]
    /\ dead = {}
    /\ dirty = <<>>
    /\ dropped = 0
    /\ bodies = [b \in Bodies |-> None]
    /\ flush = Idle
    /\ stored = <<>>
    /\ pulls = 0
    /\ owed = [key \in BucketKeys |-> Zero]

Next ==
    \/ \E name \in Names, d \in Digests, t \in Tags \cup {None} :
        record_manifest_pull(name, t, d)
    \/ \E b \in Bodies, name \in Names : meter_blob(b, name)
    \/ \E b \in Bodies : poll_next(b)
    \/ \E b \in Bodies : drop(b)
    \/ drain
    \/ FoldGroup
    \/ Apply
    \/ FlushFails
    \/ Tick
    \/ \E name \in Names : delete_repo(name)
    \/ \E name \in Names : intern_repo(name)
    \/ \E id \in dead : SweepCounters(id)
    \/ \E counting \in BOOLEAN : Restart(counting)

Spec == Init /\ [][Next]_vars

----------------------------------------------------------------------------
(* Reading a window.                                                       *)

SHARD_SCAN_SLACK == 4

StartAtShard(prefix, from) == push_bucket(prefix, from, SHARD)

\* The scan starts before the first shard of the first day.
StartKey(prefix, from) == counters_from_day(prefix, from)

\* The days of the window that have a bucket, oldest first, shards summed.
counts(name, subject, from, days) ==
    LET id == repos[name]
        prefix == prefix_of(id, subject)
        last == from + days - 1
        page == Scan(DOMAIN stored, prefix, StartKey(prefix, from), days * SHARD_SCAN_SLACK).keys
        Sum(out, key) ==
            LET day == counter_suffix(key, prefix).day IN
            IF out # <<>> /\ out[Len(out)].day = day
            THEN [out EXCEPT ![Len(out)].bucket =
                     [h \in Hours |-> Clip(Plus(@[h], stored[key][h]))]]
            ELSE Append(out, [day |-> day, bucket |-> stored[key]])
    IN  IF days = 0 \/ id = None THEN <<>>
        ELSE FoldLeft(Sum, <<>>,
                      SelectSeq(page, LAMBDA k : counter_suffix(k, prefix).day <= last))

\* pull_counts and its body: the window ends today, and a merge fills the days.
FirstDay(days) == IF day_bucket(now) < days - 1 THEN 0 ELSE day_bucket(now) - (days - 1)
pull_counts_body(name, subject, days) ==
    LET from == FirstDay(days)
        Fill(acc, day) ==
            IF acc.next <= Len(acc.series) /\ acc.series[acc.next].day = day
            THEN [acc EXCEPT !.next = @ + 1,
                     !.rows = Append(@, [day |-> day, bucket |-> acc.series[acc.next].bucket])]
            ELSE [acc EXCEPT !.rows = Append(@, [day |-> day, bucket |-> EmptyBucket])]
    IN  FoldLeft(Fill, [series |-> counts(name, subject, from, days), next |-> 1, rows |-> <<>>],
                 [i \in 1..days |-> from + i - 1]).rows

----------------------------------------------------------------------------
(* Properties.                                                             *)

BodyStates == [repo : Names, at : 0..MaxHour, bytes : 0..MaxChunks]
Counts == [DOMAIN Zero -> Nat]

\* The accumulator never holds more keys than its cap, ids are minted once, and
\* only one fold is under way (PullCounters, CounterBucket, add_pull_counts).
TypeOK ==
    /\ now \in 0..MaxHour /\ enabled \in BOOLEAN
    /\ \A name \in Names : repos[name] \in 1..Len(owner) \cup {None}
    /\ \A name \in Names : repos[name] # None => owner[repos[name]] = name
    /\ dead \subseteq (1..Len(owner)) \ {repos[name] : name \in Names}
    /\ DOMAIN dirty \subseteq BucketKeys /\ Cardinality(DOMAIN dirty) <= MAX_BUCKETS
    /\ \A k \in DOMAIN dirty : dirty[k] \in Counts
    /\ dropped \in Nat
    /\ \A b \in Bodies : bodies[b] \in BodyStates \cup {None}
    /\ flush.pc \in {"idle", "fold"} /\ DOMAIN flush.deltas \subseteq BucketKeys
    /\ \A key \in DOMAIN stored, h \in Hours :
        stored[key][h] \in Counts /\ stored[key][h] = Clip(stored[key][h])

\* Every pull and every byte a client received is in exactly one place: an open
\* body, the accumulator, the fold under way, or the store, unless the code gave
\* it up: a new subject met a full map, a batch failed, the process ended, the
\* repository was deleted, a counter saturated.  Nothing is counted twice or in
\* the hour it finished, a subject already in a full map loses nothing, and the
\* handover from the accumulator to the flush loses nothing (counters.rs drain,
\* add, MeteredBlob; add_pull_counts).
Conserved ==
    \E held \in {HeldBy(Kept)}, open \in {OpenBodies} :
        \A k \in BucketKeys :
            owed[k] = Plus(Plus(open[k], held[k]), Plus(Tally(dirty, k), Tally(flush.deltas, k)))

\* The window the API answers is, day by day, what is stored for that subject of
\* that repository: the encoded scan leaves no day out, takes none of another
\* tag or scope in, and the merge shifts none (counts, pull_counts_body, and
\* memory.rs pull_counts as the reference).
WindowExact ==
    \A name \in Names, subject \in Subjects, days \in 1..(LastDay + 1) :
        LET rows == pull_counts_body(name, subject, days) IN
        \A i \in 1..days :
            LET day == FirstDay(days) + i - 1 IN
            rows[i] = [day |-> day,
                       bucket |-> IF repos[name] = None THEN EmptyBucket
                                  ELSE BucketOf(repos[name], [subject |-> subject, day |-> day])]
=============================================================================
