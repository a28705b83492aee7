# summ, in TLA+

summ is an OCI image registry in one process: an HTTP server (`summ-server`)
over registry operations (`summ-registry`), a key-value metadata engine
(`summ-meta`, RocksDB) and a content-addressed blob store on a file system
(`summ-storage`). This directory holds a TLA+ model of the parts of it in which
requests, background passes, crashes and lost clients meet, and of the parts
that decide what a key, a page, a path, a credential or a byte range means; the
TLC runs that check the model on small instances; and TLAPS proofs of what
matters most for every instance. `PROJECT.json` lists the components, the runs, which source
lines each definition models, and the hazards the properties are aimed at.

Run a model with `tlc -config Tags.cfg MCTags`, a proof with
`tlapm BlobLifecycleProofs.tla`.

## 1. The system

### What it keeps

The metadata is one ordered key space; a key's first byte is its type.

| Key | Holds | Written by |
|---|---|---|
| `n`, `i` | repository name ↔ id, and the id counter | interner |
| `M`, `Z` | manifest record and body, per repository | push, delete, purge |
| `T`, `G` | tag → manifest, and the reverse edge | push, delete |
| `S` | child manifest → index that lists it | push of an index, delete |
| `F` | subject → referrer, also synthesised for cosign tags | push, delete |
| `R` | blob → manifests that name it (global, keyed by blob) | push, delete, sweep |
| `P` | the repository's membership of a blob, with its time | commit, mount, push, purge |
| `B` | the global record of a blob | commit, purge |
| `C` | when a pass first saw a blob unreferenced | purge |
| `U` | an upload session: offset and hasher state | uploads |
| `D` | a deleted repository still to be swept | delete, sweep |
| `H`, `J` | history of a tag and of a manifest's tags | push, delete |
| `A` | pull counters | counter flush |

The blob store has `blobs/` (files named by digest, moved in by `rename`) and
`uploads/` (staging files written in place).

### Who changes it, and how they meet

* **Requests** are futures of the HTTP server. Metadata work runs in blocking
  tasks: it *plans* (reads, building a batch) and *applies* (one atomic batch).
  No snapshot spans the two. A future whose client disconnects is dropped,
  and with it the lock guards it holds; the blocking task it started runs on.
* **Locks** are striped async mutexes: `RepoLocks` around the plan and apply of
  a repository's tag mutations, `BlobLocks` around a digest's commit and its
  collection. Uploads, blob memberships, the interner's cache and repository
  deletion take none.
* **Background passes**: the purger (untagged manifests, memberships, blobs,
  uploads, empty names), which a `POST` may also start beside the scheduled
  one; the sweeper of deleted repositories; the flush of pull counters.
* **Failures**: any file or engine operation may fail and end the operation it
  is part of; the process may die between any two steps, the write-ahead log and
  the files as they were surviving.

### Components

| Component | State | Operations | What makes it correct |
|---|---|---|---|
| Blob lifecycle | files, `B C P R M` | commit, mount, push, deletes, three purge stages | a record has its bytes; bytes are collected, and only after the grace period |
| Manifests and tags | `M T G S F` | push under tags, delete by tag or digest, untagged purge | tags and reverse edges agree; deletes and purges cascade exactly |
| Uploads | `U`, a staging file, the blob | POST, PATCH, PUT, DELETE, idle purge | the blob is what its digest names; nothing acknowledged is lost; nothing stays behind |
| Repository names | `n i D`, the LRU, the counter | intern, delete, sweep, retire | an id is one incarnation for ever; nothing unreachable stays |
| In-memory registry | one map under one mutex | the same trait | it is the contract: the abstract specifications come from it |
| Pull counters | an accumulator, open bodies, `A` | count, drain, fold, sweep, read a window | no count twice or in another hour, bounded memory, exact windows |
| Keys and listings | the key space, a client's cursor | ten paged walks, a search, a tally | a walk shows every row that stayed, once, in order, and no other |
| Downloads | a window, an open file, one read in flight | resolve a range, open, stream | the body is the bytes asked for, without a hole, and it ends |
| Routing and references | none | grammars and two routers | a path means one endpoint, the one it spells |
| Authentication | the policy | a decision per request, before routing | a key opens what it should and nothing else |
| Schema version | one key | create, refuse, migrate and stamp at start | a crash between two steps is resumed; nothing is served half migrated |
| Engines | the key space | scan, probe, batch, delete a prefix | order, exact ranges, atomic batches |
| UI, error rendering, process start | none | | |

The behaviours that are hard here, each with its line, are the `hazards` of
`PROJECT.json`.

## 2. The modules

| Module | Models | Checked by |
|---|---|---|
| `BlobLifecycle` | blobs on disk and in `B C P R M`, from commit to collection | `MCBlobLifecycle`, `BlobLifecycleProofs` |
| `Tags` | one repository's manifests, tags and edges | `MCTags` |
| `TagMap` | what `Tags` implements: an atomic map of tags | instanced by `Tags` |
| `Uploads` | one upload session, its file and its blob | `MCUploads` |
| `UploadBuffer` | what `Uploads` implements: a buffer that only grows | instanced by `Uploads` |
| `Repos` | one repository name and its incarnations | `MCRepos` |
| `Versions` | the schema marker, migrations, builds that open the store in turn | `MCVersions` |
| `Keys`, `Engine` | the layout of the keys; scans, probes and prefix deletion over them | used by the next two |
| `Listing` | a client walking one listing, page by page, among writers | `MCListing` |
| `PullCounters` | counting, flushing and reading back pulls | `MCPullCounters` |
| `Paths`, `Gate` | grammars and routers; policies, keys and the decision | used by `Requests` |
| `Requests` | one request from arrival to the end of its body | `MCRequests` |
| `BlobLifecycleProofs`, `TagsProofs`, `UploadsProofs`, `ReposProofs`, `VersionsProofs`, `RequestsProofs` (and `Gate`), `ListingProofs` (and `Engine`), `PullCountersProofs` | theorems about the modules they name | tlapm |

Conventions common to them. An operation is a process with a program counter; a
step is what nothing else can interleave with: the reads of one plan, one batch,
one system call on a file. The reads of one plan are *one* step although the
code makes them one after the other: the plans of interest read under a lock, or
(uploads, names, collection) are split where the code could be overtaken.
A pure function of the code (a grammar, a router, a key builder, a comparison) is
an operator with the source's name, checked against a second definition that
states what it should compute. `faults` counts crashes and I/O errors up to `MaxFaults`; `Disconnects` says
whether clients may go away. Operators commented *Mutant* are plausible mistakes
in the definition that follows them; no specification uses them.

### BlobLifecycle

`file` is `blobs/`; `blob`, `mark`, `member`, `refs`, `manifests` are `B`, `C`,
`P`, `R`, `M`; `lock` and `tagLock` are the two tables of mutexes. Times are
kept as ages, which `Tick` advances up to a horizon beyond which no comparison
in the code tells two apart.

* `CommitLock`, `CommitRename`, `CommitPlan`, `Apply` are `finish_upload` and
  `put_blob` (`CommitMismatch`: the digest is not the one named);
  `MountBegin`, `MountLock`, `MountPlan`, `Apply` are `mount_blob`.
* `PushBegin`, `PushPlan`, `Apply` are `put_manifest` as far as blobs go:
  validation of layers (`stage_blobs`), memberships refreshed, edges written.
* `DeleteManifest`, `DeleteBlobPlan`, `DeleteBlobApply` are the deletes.
* `PassStart` … `PassEnd` are the stages of `purge_once` that concern blobs:
  memberships (`SweepRead`, `SweepApply`), the scan that marks (`ScanRead`,
  `ScanApply`), the collection of a ripe blob (`CollectLock`, `CollectCheck`,
  `CollectApply`, `CollectUnlink`). A pass is the background task's, which runs
  one at a time, or a `POST`'s, perhaps a dry run, which changes nothing.
* `ReqDisconnect` and `PassDisconnect` drop the guards and leave the blocking
  step to finish; `PassDisconnect` is for passes a `POST` started.

### Tags

`records`, `tags`, `named`, `parents`, `referrers` are `M` (with `Z`), `T`, `G`,
`S`, `F`. A batch is a record of what to put and what to retract (`PlanPut`,
`PlanDeleteTag`, `PlanDeleteManifest`), and `Write` applies it. The referrer
edge that `stage_set_tag` synthesises for a cosign tag is `Artifact`. A push
plans once before it has the lock, for the archive copy, and again under it;
with `ValidateReferences` an index is refused while a child of it is missing.
The untagged purge scans without the lock (`PassScan`) and re-checks each
candidate under it (`PurgePlan`).

`TagMap` is `MemoryRegistry`'s repository: push, untag and remove as single
steps on a set of images and a map of tags. The refinement maps the set to the
stored records and the map to `T`.

### Uploads

A hasher is modelled by the bytes it was fed, a digest by the bytes it promises,
so "the digest matches" is equality. The file is written at an offset (`Put`
leaves holes as `pwrite` does) and remains writable through an open descriptor
after it was renamed or unlinked; that is why `bytes` is not reset by `Commit`.
`Resume` truncates to the recorded offset; `Rehash` re-reads the file when the
closing `PUT` names another algorithm; `Save` writes the record back whole.

A member of `Req` is a request as the server runs it. When its client goes away
the future is dropped and only the blocking call it is in goes on, in the dropped
request's slot (`gone`); the client's retry takes another slot at once. Two
members of `Req` are therefore two clients, or one client that broke a request
off and sent it again. Two history variables record who works on an old reading:
`stale` has the requests under which another has changed the record, the file or
the blob since they began, and `raced` becomes true when one of these then changes
something itself. No guard reads them.

`UploadBuffer` is `MemoryRegistry`'s session; the refinement maps the buffer to
the recorded hasher and the blob to the file once it has its record. Its `void`
is `raced`: what the buffer promises ends there.

### Repos

`name` is `n`/`i`, `next` the counter, `cache` the LRU entry, `dead` is `D`,
`content` what lies under each id: `M` (and all that is keyed beside it), `R`,
`P`. An operation resolves the name (`Lookup`, `Intern`, `Remember`), and acts
under the id it got; only pushes and purge hold the lock meanwhile. `Shrink`
stands for the other modules' deletes, which empty a repository. `Retire` may
decline although the repository is empty here: an open upload, a history row or
a counter, which the model does not hold, make it. `raced` records the ids which
an overtaken operation wrote to or unnamed.

### Versions

`marker` is `db_version`; of a record only the version of its layout is kept.
`Open` is the decision at the head of `ensure` (create, refuse, migrate),
`NextStep`, `Rewrite`, `StepDone`, `Stamp` its loop over the registered steps,
`Finish` the check after it. A step's body is external to the code (none is
registered today), and does what `Migrations::register` asks: rewrite the
records that are behind, batch by batch, safely again. `Write` is the build
serving; `Exit` is a refusal, a shutdown or a crash anywhere; `OperatorStamp` is
the exported `stamp` on an unmarked store.

### Keys, Engine and Listing

`Keys` has the builders and parsers of `keys.rs` as sequences over bytes
`0..MaxByte`, `MaxByte` playing 0xff: type byte, repository, digest with its
algorithm byte and one of two lengths, inverted instants, terminated tags.
`Engine` has what both engines do with them: `Scan` (one past the limit, the
predecessor as cursor), `exists_prefix`, `prefix_successor`, and of the RocksDB
one the prefix extractor (`summ_prefix_len` and what follows), whose groups limit
an iterator.

In `Listing`, `rows` is the store, `walk` the request under way and the cursor
the client holds, `seen` what the pages showed. Nothing else survives between two
pages. `ReadPage` is a listing that is one scan; `ReadRows`, `LookUp`,
`ServeRows` are `tag_details` and `untagged_manifests`, which look every row up
again after the scan; `SearchStart`, `SearchScan` are `search_repos_containing`;
`CountScan` is `count_to_ceiling`. `Put`, `Drop` and `Sweep` are the writers,
between any two of these. The reference, `MemoryPage`, is the page
`MemoryRegistry` takes from its maps with `paginate`, which knows no keys.
`MemoryRegistry` has no listing of untagged manifests, of a manifest's tags or of
its parents; for these the reference is the same sort and cut of the rows asked
for, stated here.

### PullCounters

`dirty` and `dropped` are the accumulator, `bodies` the open `MeteredBlob`s,
`flush` the flush task with what it has drained, `stored` the `A` range under its
real keys. `record_manifest_pull`, `meter_blob`, `poll_next`, `drop` are the
handlers' side; `drain`, `FoldGroup`, `Apply`, `FlushFails` are
`flush_counters` and `add_pull_counts`, a group at a time and one batch;
`delete_repo`, `intern_repo`, `SweepCounters`, `Restart` and `Tick` happen
around them. `counts` and `pull_counts_body` are the read side. `owed` is a
history variable: what clients received, less what the code knowingly gives up
(a new subject at a full map, a failed batch, a restart, a deleted repository,
saturation). A sum over ids or bodies (`Pile`) counts its units, which makes it a
cardinality: TLC evaluates it, and what a step changes in it can be proved without
an induction.

### Paths, Gate and Requests

A path is a sequence of tokens: characters, and the words the routers compare.
`route` and `api_route` are the two routers with `reference.rs`'s grammars;
`Readings` is every way to read the path as the spelling of an endpoint, from
the specification's grammar, without an order of cases. `Gate` has
`Policies` (what `config.rs` builds, or refuses), `credential`, `matches` and
`authorize`. In `Requests` a *scene* is a command line, a request and a blob.
`Authenticate`, `Dispatch`, `Handle` are the layer, the router and the method
tables; an operation the other modules describe is answered `Elsewhere`, and
`wrote` records that a changing handler ran. A download goes on through
`StatBlob`, `Recheck`, `OpenFile` and the stream (`ReadReturns`, `PollFirst`,
`PollChunk`, `PollError`), with `Unmember`, `Unlink`, `Truncate` and `HangUp`
around it.

## 3. The runs

Passing runs:

| Run | Instance | Shows |
|---|---|---|
| `commit_collect` | one digest, repository, manifest; two requests; passes of every kind, one at a time; one fault; grace 2 ticks | `BytesBehindRecords`, `LeaksOnlyByFault`, `GraceHonoured` |
| `blob_reclaim` | one request, passes one at a time, disconnects, one fault, a pass that lasts no time; fair | `GarbageReclaimed`, `LocksReleased` |
| `tags` | an image, an index of it, a referrer of it; one cosign tag; two requests, a purge, a fault | `TagEdgesAgree`, `TagsResolve`, `NoDanglingEdges`, `PurgeSparesWanted`, `ImplementsTagMap` |
| `tags_reclaim` | an image, an index of it, pushed before or after its child (no validation); one tag; two requests, disconnects, a minimum age of 0; fair (128 thousand states) | `UntaggedReclaimed` |
| `uploads_contract` | two frames, two requests, each a client of its own or what another's broken-off request left running, retries with other bytes, a fault (1 million states) | `CorruptOnlyByRace`, `OffsetLostOnlyByRace`, `ImplementsBuffer` |
| `uploads_reclaim` | two frames, the purge; fair | `NoOrphanFile`, `AbandonedReclaimed` |
| `repos` | two incarnations, two requests, purge, sweeper, a fault | `StrandedOnlyByRace`, `FreshStart` |
| `versions` | three records, builds 1 to 3 with every step, one with none, one with a step beyond itself (762 states) | `Readable`, `MarkerBehindData`, `ResumesWhereItDied` |
| `listing` | each listing with four or five rows, two or three in its range and the rest next to it; pages of 1 and 2, `n` absent, 0, 1 and beyond the cap; two writes (164 thousand states) | `PagesAgree`, `PagesAscend`, `WalkComplete`, `OnlyAskedFor`, `TallyHonest`, `SweepExact` |
| `counters` | one name, two incarnations, one digest, two tags of which one is a prefix of the other, one blob body; two days of two hours; a map of three keys; counters that saturate at 1 (124 thousand states) | `Conserved`, `WindowExact` |
| `requests` | 12 600 paths of up to five segments, every method under every policy with 16 headers, downloads of 0, 1, 3 and 5 bytes in chunks of 2 under 46 range headers (163 thousand states); fair | `RoutedAsMeant`, `AuthSound`, `ServedExact`, `Delivered` |

The run in which TLC finds what a comment rules out, a finding in
`PROJECT.json`:

| Run | What happens |
|---|---|
| `retry_corrupts_blob` | one client that never has two requests open (`OneClient`) breaks off a `PUT` while its commit is in flight and retries: the retry's `Resume` cuts the staging file back to the recorded offset, and the first commit renames it to the digest of the whole blob |

Without `OneClient`, a `PATCH` that overlaps the `PUT` does the same through its
descriptor, after the rename too.

Section 5 names four more such disagreements and how to see each.

### Why the bounds are enough

* Two requests and one pass are what the races need: each hazard listed is
  between two operations on one digest, one tag, one session or one name, and a
  third actor only repeats a role. The proofs of section 4 remove the bound for
  the safety of blobs, tags, sessions and names.
* One digest and one shard: digests meet only by sharing a shard, which
  serialises them more; the theorems hold for any `ShardOf`.
* A grace period of two ticks and a pass of at most one distinguishes "inside",
  "at" and "beyond" the cutoff and lets a pass run on an old clock.
* One fault reaches every single failure or crash point. Two in one behaviour
  compose only through the store's contents, which one already leaves in every
  partial state.
* Three manifests with the fixed shape (image, index, referrer) give each of
  `G`, `S`, `F` a live edge; the cosign tag gives `F` its second source. The run
  for liveness has the image and the index only, and every manifest in it is past
  its minimum age; the age and the subject are conditions of the same guard, which
  `tags` checks with both.
* Two frames give a session a first chunk, a second and a closing one, and a
  frame sent again may differ from the first in either place.
* Two ids in `Repos` are an old incarnation being swept and a new one, with the
  exhaustion of the id space right after.
* Three versions are a first, a middle and a last step; two records in different
  states are what a half-done step is, the third makes it not the last one.
* A page of one and one of two rows, in a range of three, gives every walk a
  first, a middle and a last page; rows of the previous and the next range, the
  greatest id (whose successor carries) and digests of both lengths stand at the
  edges. Two writes are a delete and an insert between the same two pages, or
  inside one request. The search ceiling (3) is no multiple of its step (2).
* Two hours and two days have both boundaries; a map of three keys is filled by
  one pull of a tag, so that the second meets it full; a saturating value of 1 is
  reached by the second pull.
* Names of up to 5 tokens (the limit) and of 6 (beyond it) reach every transition
  of the grammar's scan, tags likewise with 3. Keys `1`, `12`, `111` and `1212`
  are a key, its extension and their repetitions. Five bytes in chunks of two
  are two full reads and a short one.
* Requests are interchangeable, so they are declared symmetric; runs that check
  liveness declare no symmetry.

`Listing` and `Requests` stutter explicitly once the walk or the request has
ended. `CHECK_DEADLOCK FALSE` stands only in the uploads' configurations, where a
finished session is the end.

### Fairness

Blocking tasks run to their end, so their steps are weakly fair. tokio's mutexes
are first come first served, so a step that waits for one is strongly fair. The
scheduled pass recurs (`tokio::time::interval`) whatever passes over the API run
in between, and the clock advances. A
client's steps (starting a request, sending a frame) have no fairness; a body
that is being received ends, well or badly (the server's timeouts, or the
connection's end). Passes started over the API have none to start. A download is
weakly fair as a whole: hyper polls a body whose client reads, and a blocking
read of a local file returns, well or badly. Nothing is assumed of a client that
hangs up. `Versions`, `Listing` and `PullCounters` state only safety.

## 4. The proofs

Each module `XProofs` extends `X`; `tlapm XProofs.tla` checks it. The bounds of
section 3 are gone in them: any number of requests, passes, digests, manifests,
tags, ids, rows and faults, blobs and ranges of any size. What they rest on are the
assumptions each model names, which TLC evaluates on the runs' instances: tables
are functions of the right types, bounds are natural numbers, actors are distinct,
`None` is none of the values, keys are byte strings. Where a theorem needs more,
the hypothesis is in its statement and below.

Every invariant was checked with TLC on the instances of section 3, in its
inductive form, before it was proved.

### BlobLifecycle

* `TypeCorrect`: `[]TypeOK`. The types are inductive only with `Shape` (a request
  that is doing something names its repository, a push its manifest).
* `BytesSafe`: if clients do not disconnect and references are validated,
  `[]BytesBehindRecords`.
* `LeakSafe`: if clients do not disconnect, `[]LeaksOnlyByFault`.
* `GraceSafe`: `GraceHonoured`, with no hypothesis.

`BytesBehindRecords` alone is not inductive: a batch may be about to add a record,
an unlink may be about to remove a file. The invariant `IInv` adds, for each
request, that from before the rename to the batch it holds its digest's shard,
that what it will create is exactly the blob it handles, and that after the
rename (or after a mount found the record) the file is there (`ReqOK`); and for
each pass, that a collection holds its target's shard and that the record is gone
by the time the file is (`PassOK`). A step of one actor keeps its own part
(`ReqStepOwn`, `PassStepOwn`), leaves the others' guards and control states
alone (`ReqStepFrame`, `PassStepFrame`), and cannot take another's file or add
another's record, because both would need the same shard (`ReqStepSafe`,
`PassStepSafe`).

`LeaksOnlyByFault` speaks of quiet states only; `LeakInv` says what is true in
between: every file is in `B`, or a commit is past its rename and before its batch,
or a collection is past its batch and before its unlink (`Accounted`), which needs
that a process in one of these states is still attended (`Attended`).
`GraceHonoured` needs a bound between two ages: a mark is at most `PassSpan` older
than the youngest membership of its blob (`MarkFollows`), since a batch that
refreshes a membership retracts the mark (`Unmarks`) and a pass dates its marks
with a clock at most `PassSpan` old.

With disconnects TLC refutes `BytesBehindRecords` (section 5), and a request dropped
between its rename and its batch leaves a file that nobody answers for. Without
validation a push creates `B` records for blobs never uploaded, by design.

### Tags

* `TypeCorrect`: `[]TypeOK`.
* If clients do not disconnect: `EdgesAgree` (`[]TagEdgesAgree`),
  `TagsAlwaysResolve` (`[]TagsResolve`), `EdgesGoWithManifest`
  (`[]NoDanglingEdges`), the action property `PurgeSpares`
  (`PurgeSparesWanted`), and `Refinement`: every step of `Tags` is one of `TagMap`
  or leaves its map unchanged (`ImplementsTagMap`).

None of the three invariants is inductive alone: a batch retracts what its *plan*
read. `IInv` keeps them together (`StoreOK`, with the source of every `F` edge)
and adds that whoever is about to apply holds the repository's lock and has a
batch that is what its plan would be now (`ReqOK`, `PassOK`); the lemmas about
`Write` say what each of the three kinds of batch does to a store for which it is
fresh. The refinement then reads the abstract step off the batch. With
disconnects the lock is dropped while the batch is still to come, and TLC refutes
`TagEdgesAgree`; `UntaggedReclaimed`, which runs with them, exempts a manifest that
such a stale edge names.

### Uploads

* `TypeCorrect`: `[]TypeOK`.
* `FilesHaveOwners`: if clients do not disconnect, `[]NoOrphanFile`, for any
  number of requests at once.
* With no hypothesis: `OffsetSafe` (`[]OffsetLostOnlyByRace`) and `ContentSafe`
  (`[]CorruptOnlyByRace`); without the idle purge `Refinement`
  (`ImplementsBuffer`).

These hold for any number of requests, dropped ones whose call is still running
included. Until `raced`, the inductive invariant `IInv` describes the file (the
recorded bytes are a prefix of it, and once renamed it holds what its name
promises) and, for every request that is *not* in `stale`, how the hasher in its
hand lies to record and file at each point of its course; of a stale request it
says nothing. A step that changes what is shared makes all other requests stale
(`OthersStay`, `HistoryStep`), so their part of the invariant is gone with it, and
a stale request that changes something ends the claim. Without the exemption the
properties are false of the code, for one client that breaks off a request and
retries it (`retry_corrupts_blob`); what the theorems rule out is every other way:
crashes, I/O errors, broken bodies, refused closings, resumption at an offset,
another hash algorithm, purge. The purge is excluded from the refinement because
`UploadBuffer` has none: it deletes a session under the client.

### Repos

* `TypeCorrect` (`[]TypeOK`), `StrandedByRace` (`[]StrandedOnlyByRace`) and the
  action property `StartsFresh` (`FreshStart`), with no hypothesis.

`IInv` adds to the types that every id in use anywhere (name, cache, an operation
under way, tombstones, content) was handed out, so is below the counter
(`Issued`); that what each operation holds fits where it is, the lock included
(`Control`); that the name never leads to an id with a tombstone, that `R` edges
lie beside the records the sweep finds them through, and that the sweep leaves
none behind but a straggler's (`StoreOK`); and that what a pass is about to unname
is still empty, since pushes wait for its lock (`RetiresEmpty`).

### Versions

* `TypeCorrect`: `[]TypeOK`. The one fact about data it needs is that the first of
  the steps ahead exists and is one of them (`FirstIsLeast`, from the
  well-foundedness of `<`).
* `MarkerSafe`: `[]MarkerBehindData`, and `ServedReadable`: `[]Readable`.

`MarkerBehindData` is not inductive: `Stamp` moves the marker. `IInv` adds that
while `ensure` migrates `at` is the marker (`AtIsMarker`); that a store is
created only when empty and served only at its marker (`OwnVersion`); that the
step under way is ahead of the marker, recorded in `furthest`, and leaves nothing
behind it once it is over (`StepState`); and that nothing is beyond the marker but
by a step already begun (`NothingAhead`), the upper bound `Readable` needs.

* `ResumesInOrder`: the action property `ResumesWhereItDied`, for builds of one line
  of development (`OneChain`: a step comes with every step before it, as in every
  build of the run). Builds that register different chains can break it: one that
  lacks a step passes over it and dies in the next, and one that has it goes back. It needs that no step was
  ever begun beyond the one after the marker (`NoSkip`).

### Gate and Requests

* `MatchesIsEquality`: `matches`, which reads both keys modulo their lengths, is
  equality of non-empty keys.
* `GateExact`: under the policy any accepted command line yields, `authorize`
  lets through exactly the requests `Entitled` describes: the write key for
  everything, the read key for reading, no header for reading where pulls are
  public.
* `AuthSafe`: `[]AuthSound`. The invariant `AuthInv` is that a request past the
  gate was let through by its verdict and no later answer looks like a refusal
  (`Settled`); `VerdictExact` turns the verdict into what the operator's keys
  entitle, by way of `MatchesIsEquality`.
* `ServedSafe`: `[]ServedExact`, for every size, range header and chunk size.
  `RangeExact` shows that `parse_range` computes what the three forms of the
  specification say. `ServeInv` carries it through the body: the window is inside
  the blob (`WindowOK`), the headers announce it (`HeaderOK`), what was sent and
  what is in flight are adjacent (`StreamOK`, `BodyOK`: `sent` is the bytes from the
  first one up to the read in flight, or to the end).

### Listing

About the engines and the keys:

* `DeletePrefixExact`: the range from a prefix to `prefix_successor` of it holds
  exactly the keys that start with it, for all byte strings. Two keys are compared
  at the first place where they differ; behind the byte that was bumped the prefix
  has only 0xff, which no key exceeds.
* `SweepSafe`: `[]SweepExact`. The key of a row of a repository begins with its
  type and the repository (`KeyInRepo`), that of any other row with a byte no sweep
  touches (`KeyElsewhere`).
* `SortedExact`: `Sorted` enumerates a finite set of keys in byte order, each once.
  The number of smaller keys is an injection of the set into an interval of the
  same size, so every place is taken (`Ranks`). No induction is needed.
* `ScanExact`: a scan returns the first keys of the range after the cursor and a
  `next` exactly when more are left. It needs the range to lie inside one group of
  the prefix filter (`Grouped`), which `RangesGrouped` shows of each range a
  listing scans.
* `PageExact`: for each of the twelve listings, a page holds the next rows in the
  listing's own order. Below it, a range holds the rows of its listing and no
  others (`KeyInRange`: a tag is ended by `TAG_END`, a digest's length is told by
  its first byte), the order of the keys is the order of the positions
  (`RowOrder`), and the parser gives back the position its builder encoded
  (`PosInverts`). Hence `PagesAgreeAlways`, `[]PagesAgree`.

About a walk among writers, `WalkInvariant` proves `[]WalkInv`. One clause would not
be inductive: a walk is complete at its end only because at every moment what was
shown, together with what is gathered in the page under way and what lies beyond the
cursor, covers every row that stayed. `WalkInv` says so for each place a request may
be at: `ReadyInv` between pages, `LookupInv` while the rows of a page are looked up
(those still to be looked up count as covered), `ScanInv` between two steps of a
search (the cursor is the last name examined, not the last match), `TallyInv` between
two steps of a tally (the count lies between the rows passed that stayed and the rows
passed that ever were), `Ended` and `Tallied` at the end. `Forward` says that what is
shown ascends and stays behind the cursor, `Found` that it was asked for. From it
follow `ListingTypeOK`, `WalkAscends`, `WalkIsComplete`, `WalkOnlyAskedFor` and
`TallyIsHonest`: `TypeOK`, `PagesAscend`, `WalkComplete`, `OnlyAskedFor` and
`TallyHonest`, for any rows, cursors, page sizes, steps, ceilings and writes.

The assumptions beyond the common ones: a stored digest is as long as its algorithm
byte says and a tag is not empty and without `TAG_END` (`FieldAssumption`, what
`Digest` and `valid_tag` admit); an event of a history is later than the epoch, whose
complement has no successor to resume from; the default page is within the cap
(`api.rs` 52 and 54); a key has one value (`KeyAssumption`).

### PullCounters

* `PullsConserved`: `[]Conserved`, and `TypeCorrect`: `[]TypeOK`, for any names,
  digests, tags, bodies, hours, caps and widths. Both follow from `CountInvariant`,
  `[]CountInv`.

The balance alone (`Balanced`: count by count, what is owed is what is open, held, in
the accumulator and on its way) is not inductive. `Apply` writes buckets that were
computed steps earlier, and they are right only if nothing has moved underneath them:
`PutOK` says that a put of the batch, unless its id was swept since, holds what is
stored *now* with the deltas added, and `FlushOK` that every delta on its way is still
to be read or has exactly one put. That two puts never meet in one key, that a new id
finds no old bucket, and that a sweep spares every other id's counters is a matter of
the encoding: `KeysApart` (a key determines id, subject and day) and `OthersSpared`
(the three ranges of an id, up to their successors, hold no key of another, the
greatest id's included, whose successor carries into the scope). `StoredOK` keeps the
keys of the store to those of ids that were minted, and `ReposOK` gives each id one
name. The sums are treated by `PileSplit` and `PileChange`: a sum is one part and the
rest, and two sums that differ in one part differ by as much.

The assumptions: an id fits the bytes of a key (`u32` in the code, checked when it is
minted), digests and tags are byte strings, `None` is none of the values.

### What is only model-checked

* Liveness under fairness is beyond TLAPS: `GarbageReclaimed`, `LocksReleased`,
  `UntaggedReclaimed`, `AbandonedReclaimed`, `Delivered`.
* What a fold or a split over a sequence computes for every input needs an induction
  the prover cannot do: `RoutedAsMeant` (`Split` and the grammars' scans over
  tokens) and `WindowExact` (the sum over shards and the merge that fills the days
  are loops with a cursor; restating them as lookups would prove something else).

## 5. Observed, with no run of their own

Met while modelling. The first four contradict what a comment of the code says,
and TLC shows each when a configuration is changed as described:

* **A purge over the API loses its client.** It runs inside the request's future
  (`handlers/api.rs:439`); dropped between the collection's batch and the unlink
  it releases the digest's guard while the blocking task runs on, a commit of the
  digest slips in, and the unlink takes the new bytes. `BlobLocks` is there to
  close "exactly" this window (`backend.rs:269`). `BlobCommitCollect.cfg` with
  `Disconnects = TRUE` (one request and no faults suffice) violates
  `BytesBehindRecords`.
* **A push loses its layer.** `scan_blobs` marks blobs that have a live
  membership, so a mark can be ripe when the membership expires; a push that
  planned just before applies its `R` edge after the collection. `purge.rs:55`
  says the clock "cannot have been running while a membership existed".
  `BlobCommitCollect.cfg` with the invariant `LayersSurvivePurge`.
* **Purge takes a child.** Delete a child of a tagged index by digest and push it
  again: only the push of the index writes `S` edges, so nothing protects the
  child, against `purge.rs:188`. `Tags.cfg` with the property
  `PurgeSparesChildren`.
* **A stale name.** A lookup reads the mapping before a delete and caches the dead
  id after the delete's `forget`, which exists to rule that out
  (`interner.rs:138`). `Repos.cfg` with the invariant `CacheFollowsName`.

The others follow from the source, or from a variant of a run:

* A push whose client disconnects drops the repository's lock while its task
  applies. A second push then plans on the old state, and an edge of `G`
  remains that no tag justifies: `TagEdgesAgree` fails under `Disconnects`. The
  edge keeps its manifest from purge for ever; `UntaggedReclaimed` fails without
  its last disjunct (`TagsReclaim.cfg`), and shows there is no other such way.
* `stored_manifest` reads `M`, then `Z`, with no snapshot: a delete in between
  is reported as corruption ("`M` without `Z` is corruption, not a miss").
* A tag's history is dated with a clock read before the lock is waited for, so
  the push applied last may have the earlier row.
* A legacy cosign signature has its own tag, so after its subject is deleted
  purge never takes it, whatever its synthesised `F` edge says.
* Two `PATCH`es that read the same offset both pass the check and the later save
  rolls the session back; a `PATCH` that outlasts the purge of its session saves
  it back without its file; the purge deletes sessions by a list that may be
  stale. The first takes no two clients: one that breaks off a request and retries
  has both running, because the dropped request's blocking call (`upload.rs:172`,
  `store.rs:183`) goes on beside the retry. Only a client that waits for every
  answer is safe from it.
* A client lost between the creation of the staging file and of its record leaves
  a file no session leads to.
* A push that resolved a name before its repository was deleted and applies after
  the sweep leaves `M` and `R` under a dead id, and the `R` edge pins its blob.
  Two overlapping deletes, or a retirement overlapping a commit, can unname an
  incarnation with nothing to sweep it. `StrandedOnlyByRace` exempts exactly
  these (`raced`) and shows there is no other way.
* A crash inside a migration step leaves the marker at the old version, so the
  *old* build opens the store and serves records it cannot decode; `Readable`
  exempts builds older than an upgrade already begun. A build that dropped the
  earliest steps would run its first one on a layout it was not written for, and
  one that registers a step beyond itself never serves.
* A page of `tag_details` whose tags were all deleted between the scan and the
  lookups answers `next: null` although more tags follow (`cut` in `Listing`).
  `repository_summaries` answers 404 for the whole page when one repository
  vanishes under it.
* Purge's sweep of all memberships (`purge.rs:335`) pages with a cursor inside the
  prefix filter's domain; by `rocks_engine.rs:138-159` and `tests/engine.rs:305`
  such an iterator stays in the cursor's group, one repository. What RocksDB
  returns there is external, and the model pages only within one group.
* Counts of a deleted repository are credited to the name's next incarnation when
  they are folded after it was pushed again; a fold that looked the name up before
  the delete and applies after the sweep leaves counters under a dead id, which
  `registry/counters.rs:28-30` says purge drops. `Conserved` gives these up.
* A blob file shorter than its record (corruption) is announced at the record's
  length and served short; any `bytes=` range of an empty blob is 416, also a
  malformed one; a number beyond 64 bits makes the header ignored.
* `%2F` in a segment becomes a separator of the name; `/api/v1/repositories//`
  is routed like `/api/v1/repositories`; a key given with surrounding blanks can
  never be presented as a Bearer token.

## 6. Not modelled

* Reads that are one lookup: manifest pulls, upload status, manifest details,
  repository usage. They change nothing, and no page or stream outlives them.
* The contents of the history rows (`Listing` has their keys and paging), the
  archive copies of manifests, the dry run's report.
* Paging of the *passes'* scans: a scan is one step there. Each page is re-read
  from where the last ended and every decision it feeds is re-checked, which is
  modelled. `Listing` models the paging of what clients walk.
* Loss of unsynced bytes at a power failure: a crash here leaves what was written.
  `commit_upload` syncs before and after the rename.
* Several uploads at once (they share nothing but the blob they may commit), and
  disconnects in `Repos`.
* `Rehash` of a session whose file another request is writing reads it in one step.
* Text below the level of tokens: hex, base64, percent-encoding other than of `/`
  and `@`, header syntax, JSON. Query strings other than `n`, `last` and what
  names a listing's cursor. A search ceiling of 0, at which the code scans
  nothing.
* In `Requests`: whether a purge is a dry run (it counts as writing), and the
  answers of operations other modules describe.
* The UI's assets, error bodies, options other than those of authentication, the
  start of the process, RocksDB and redb themselves.

## 7. Plan

Done, in this order: `BlobLifecycle` and its proofs, `Tags` against `TagMap`,
`Uploads` against `UploadBuffer`, `Repos`; then `Versions`, `Keys`, `Engine` and
`Listing` against the in-memory pages, `PullCounters`, and `Paths`, `Gate` and
`Requests`; then the proofs.

What the model could still gain: a composition of `Repos` with `BlobLifecycle`
(the edge a straggling push strands under a dead id, against the collection of
its blob), and cosign tag names as text.

The proofs are those of section 4: every safety property that a run checks of
`BlobLifecycle`, `Tags`, `Uploads`, `Repos` and `Listing`, with both refinements; of
`Requests` all but the routing, of `PullCounters` all but the window that is read
back, and of `Versions` all, one of them for builds that share their steps.
