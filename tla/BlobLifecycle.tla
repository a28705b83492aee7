--------------------------- MODULE BlobLifecycle ---------------------------
(***************************************************************************)
(* The life of a blob in summ: how the bytes on disk, the global record B, *)
(* the purge mark C, the per-repository membership P and the reference     *)
(* edges R move together when uploads, mounts, manifest pushes, deletes    *)
(* and purge passes interleave, fail, crash, or lose their client.         *)
(*                                                                         *)
(* A metadata operation is a plan (reads) followed by one atomic batch; the*)
(* two are separate steps here because no engine snapshot spans them.  The *)
(* reads of one plan are one step.                                         *)
(*                                                                         *)
(* Timestamps are kept as ages: a value written with a clock reading now   *)
(* has age 0 and Tick adds one to every age, up to Horizon, beyond which   *)
(* no comparison in the code can tell two ages apart.  `x.secs() <= now -  *)
(* grace` for a pass of age a is therefore Age(x) >= a + Grace.            *)
(***************************************************************************)
EXTENDS Naturals, FiniteSets

CONSTANTS
    Digest,             \* content digests
    Repo,               \* repository ids
    Manifest,           \* manifest digests
    Layers,             \* [Manifest -> SUBSET Digest], the blobs a manifest names
    Foreign,            \* [Manifest -> SUBSET Digest], those of them carrying urls
    Shard, ShardOf,     \* BlobLocks' mutexes, [Digest -> Shard]
    Req,                \* concurrent client requests
    Pass,               \* concurrent purge passes
    Grace,              \* --purge-grace, in ticks
    PassSpan,           \* ticks a pass may last
    TaskSpan,           \* ticks a blocking metadata task (plan, batch) may last
    MaxFaults,          \* bound on crashes and I/O errors
    Disconnects,        \* may a client go away while its request runs?
    ValidateReferences, \* RegistryOptions.validate_references
    None

Horizon == Grace + PassSpan
Age == 0..Horizon
Proc == Req \cup Pass

ASSUME LayersAssumption ==
    /\ Layers \in [Manifest -> SUBSET Digest]
    /\ Foreign \in [Manifest -> SUBSET Digest]
ASSUME ShardAssumption == ShardOf \in [Digest -> Shard]
ASSUME ClockAssumption ==
    Grace \in Nat /\ PassSpan \in Nat /\ TaskSpan \in Nat /\ MaxFaults \in Nat
ASSUME SwitchAssumption ==
    Disconnects \in BOOLEAN /\ ValidateReferences \in BOOLEAN
ASSUME ProcAssumption == Req \cap Pass = {}
ASSUME NoneAssumption ==
    None \notin Age \cup Digest \cup Repo \cup Manifest \cup Proc

VARIABLES
    file,       \* digests with a file under blobs/
    blob,       \* B: digests with a global record
    mark,       \* C: age of seen_at, or None
    member,     \* P: age of added_at per repository and digest, or None
    refs,       \* R: <<digest, repo, manifest>> edges
    manifests,  \* M: <<repo, manifest>> records
    lock,       \* BlobLocks: who holds each shard
    tagLock,    \* RepoLocks: which request holds each repository
    req,        \* what each request is doing
    pass,       \* what each purge pass is doing
    faults

meta == <<blob, mark, member, refs, manifests>>
vars == <<file, meta, lock, tagLock, req, pass, faults>>

----------------------------------------------------------------------------
(* Request and pass control states.                                        *)

ReqIdle == [pc |-> "idle", repo |-> None, items |-> {}, create |-> {},
            fresh |-> {}, man |-> None, edges |-> {}, at |-> 0, since |-> 0,
            gone |-> FALSE]

PassIdle == [pc |-> "idle", kind |-> "scheduled", at |-> 0, drop |-> {}, set |-> {},
             clear |-> {}, ripe |-> {}, target |-> None, gone |-> FALSE]

PassKind == {"scheduled", "posted", "dry"}

ReqPC == {"idle", "commit", "plan", "mount", "mountplan", "push", "apply", "unref"}
PassPC == {"idle", "memberships", "sweep", "blobs", "mark", "collect",
           "check", "retract", "unlink"}

\* A blocking metadata task: its reads and then its batch.
InTask(q) == req[q].pc \in {"plan", "mountplan", "apply", "unref"}

\* A request that has read the clock for the added_at it may write.
ReadClock(q) == req[q].pc \in {"plan", "mount", "mountplan", "push", "apply"}

Init ==
    /\ file = {} /\ blob = {} /\ refs = {} /\ manifests = {}
    /\ mark = [d \in Digest |-> None]
    /\ member = [r \in Repo |-> [d \in Digest |-> None]]
    /\ lock = [s \in Shard |-> None]
    /\ tagLock = [r \in Repo |-> None]
    /\ req = [q \in Req |-> ReqIdle]
    /\ pass = [p \in Pass |-> PassIdle]
    /\ faults = 0

----------------------------------------------------------------------------
(* Reads.                                                                  *)

\* blob_refs(digest): does any edge name this blob?
Referenced(d) == \E e \in refs : e[1] = d

\* blob_is_servable_id: an edge from this repository, or a membership.
Servable(r, d) ==
    (\E m \in Manifest : <<d, r, m>> \in refs) \/ member[r][d] # None

\* The memberships a batch for this repository has to create: `added_at` is
\* left alone when the key exists.
Absent(r, ds) == {d \in ds : member[r][d] = None}

\* What stage_blobs writes edges for: a foreign layer only when it is here.
Staged(r, m) ==
    {d \in Layers[m] : d \notin Foreign[m] \/ (d \in blob /\ Servable(r, d))}

PlanAccepts(r, m) ==
    ValidateReferences => \A d \in Staged(r, m) : d \in blob /\ Servable(r, d)

\* Mutant: the grace period is not subtracted.
ExpiredAtOnce(p, age) == age # None /\ age >= pass[p].at

\* `seen_at <= now - grace` and `added_at <= now - grace`, now read at the
\* start of pass p.
Expired(p, age) == age # None /\ age >= pass[p].at + Grace

----------------------------------------------------------------------------
(* Blob commit: the tail of finish_upload and put_blob, and mount_blob.    *)

Release(x, held) == [s \in DOMAIN held |-> IF held[s] = x THEN None ELSE held[s]]

\* A request whose client has gone runs on only inside its blocking task.
Goto(q, rec) == req' = [req EXCEPT ![q] = IF @.gone THEN ReqIdle ELSE rec]

\* Mutant: the commit does not take the digest's lock.
CommitUnlocked(q, r, d) ==
    /\ req[q].pc = "idle"
    /\ req' = [req EXCEPT ![q] = [ReqIdle EXCEPT
                  !.pc = "commit", !.repo = r, !.items = {d}, !.create = {d}]]
    /\ UNCHANGED <<file, meta, lock, tagLock, pass, faults>>

\* The body is drained and the digest's lock taken.
CommitLock(q, r, d) ==
    /\ req[q].pc = "idle"
    /\ lock[ShardOf[d]] = None
    /\ lock' = [lock EXCEPT ![ShardOf[d]] = q]
    /\ req' = [req EXCEPT ![q] = [ReqIdle EXCEPT
                  !.pc = "commit", !.repo = r, !.items = {d}, !.create = {d}]]
    /\ UNCHANGED <<file, meta, tagLock, pass, faults>>

\* commit_upload: verify, rename, fsync; `now` is read after it returns.
CommitRename(q) ==
    /\ req[q].pc = "commit"
    /\ file' = file \cup req[q].items
    /\ Goto(q, [req[q] EXCEPT !.pc = "plan", !.at = 0])
    /\ UNCHANGED <<meta, lock, tagLock, pass, faults>>

\* commit_upload refuses the digest: nothing is created.
CommitMismatch(q) ==
    /\ req[q].pc = "commit"
    /\ req' = [req EXCEPT ![q] = ReqIdle]
    /\ lock' = Release(q, lock)
    /\ UNCHANGED <<file, meta, tagLock, pass, faults>>

\* plan_blob_commit's one read.
CommitPlan(q) ==
    /\ req[q].pc = "plan"
    /\ req' = [req EXCEPT ![q].pc = "apply",
                          ![q].fresh = Absent(req[q].repo, req[q].items)]
    /\ UNCHANGED <<file, meta, lock, tagLock, pass, faults>>

\* mount_blob reads the clock before it waits for the lock.
MountBegin(q, r, d) ==
    /\ req[q].pc = "idle"
    /\ req' = [req EXCEPT ![q] = [ReqIdle EXCEPT
                  !.pc = "mount", !.repo = r, !.items = {d}, !.create = {d}]]
    /\ UNCHANGED <<file, meta, lock, tagLock, pass, faults>>

MountLock(q) ==
    /\ req[q].pc = "mount"
    /\ \E d \in req[q].items :
        /\ lock[ShardOf[d]] = None
        /\ lock' = [lock EXCEPT ![ShardOf[d]] = q]
    /\ req' = [req EXCEPT ![q].pc = "mountplan"]
    /\ UNCHANGED <<file, meta, tagLock, pass, faults>>

\* The source check and plan_blob_commit.  An anonymous mount has from = None.
\* A refused mount writes nothing.
MountPlan(q, from) ==
    /\ req[q].pc = "mountplan"
    /\ LET ok == \A d \in req[q].items :
                    (from # None => Servable(from, d)) /\ d \in blob
       IN  \/ /\ ok
              /\ req' = [req EXCEPT ![q].pc = "apply",
                            ![q].fresh = Absent(req[q].repo, req[q].items)]
              /\ UNCHANGED lock
           \/ /\ ~ok
              /\ req' = [req EXCEPT ![q] = ReqIdle]
              /\ lock' = Release(q, lock)
    /\ UNCHANGED <<file, meta, tagLock, pass, faults>>

\* Mutant: a blob commit writes the reference edge of a manifest it has not got.
ApplyWithEdge(q) ==
    LET x == req[q] IN
    /\ x.pc = "apply"
    /\ blob' = blob \cup x.create
    /\ refs' = refs \cup {<<d, x.repo, x.man>> : d \in x.items}
    /\ lock' = Release(q, lock)
    /\ tagLock' = Release(q, tagLock)
    /\ req' = [req EXCEPT ![q] = ReqIdle]
    /\ UNCHANGED <<file, mark, member, manifests, pass, faults>>

\* The batch of a commit or of a manifest push: B, the mark's retraction, P
\* where absent, and for a push R and M.  The locks go with the request.
Apply(q) ==
    LET x == req[q] IN
    /\ x.pc = "apply"
    /\ blob' = blob \cup x.create
    /\ mark' = [d \in Digest |-> IF d \in x.items THEN None ELSE mark[d]]
    /\ member' = [member EXCEPT ![x.repo] =
                    [d \in Digest |-> IF d \in x.fresh THEN x.at ELSE @[d]]]
    /\ IF x.man = None
       THEN UNCHANGED <<refs, manifests>>
       ELSE /\ refs' = refs \cup {<<d, x.repo, x.man>> : d \in x.items}
            /\ manifests' = manifests \cup {<<x.repo, x.man>>}
    /\ lock' = Release(q, lock)
    /\ tagLock' = Release(q, tagLock)
    /\ req' = [req EXCEPT ![q] = ReqIdle]
    /\ UNCHANGED <<file, pass, faults>>

----------------------------------------------------------------------------
(* Manifest push and the deletes.                                          *)

\* put_manifest: `now`, and the first, unlocked plan that may refuse it.
PushBegin(q, r, m) ==
    /\ req[q].pc = "idle"
    /\ PlanAccepts(r, m)
    /\ req' = [req EXCEPT ![q] = [ReqIdle EXCEPT
                  !.pc = "push", !.repo = r, !.man = m]]
    /\ UNCHANGED <<file, meta, lock, tagLock, pass, faults>>

\* The plan that commits, under the repository's tag lock.
PushPlan(q) ==
    LET r == req[q].repo
        m == req[q].man
        ds == Staged(r, m)
    IN
    /\ req[q].pc = "push"
    /\ tagLock[r] = None
    /\ \/ /\ PlanAccepts(r, m)
          /\ tagLock' = [tagLock EXCEPT ![r] = q]
          /\ req' = [req EXCEPT ![q].pc = "apply", ![q].items = ds,
                        ![q].create = ds \ blob, ![q].fresh = Absent(r, ds)]
       \/ /\ ~PlanAccepts(r, m)
          /\ req' = [req EXCEPT ![q] = ReqIdle]
          /\ UNCHANGED tagLock
    /\ UNCHANGED <<file, meta, lock, pass, faults>>

\* delete_manifest by digest, and purge_manifest: under the tag lock the plan
\* and its batch are one step.  P and the mark are left alone.
DeleteManifest(r, m) ==
    /\ tagLock[r] = None
    /\ <<r, m>> \in manifests
    /\ manifests' = manifests \ {<<r, m>>}
    /\ refs' = refs \ {<<d, r, m>> : d \in Layers[m]}
    /\ UNCHANGED <<file, blob, mark, member, lock, tagLock, req, pass, faults>>

\* delete_blob: the servability check and the edges to retract ...
DeleteBlobPlan(q, r, d) ==
    /\ req[q].pc = "idle"
    /\ Servable(r, d)
    /\ req' = [req EXCEPT ![q] = [ReqIdle EXCEPT
                  !.pc = "unref", !.repo = r, !.items = {d},
                  !.fresh = {d} \ Absent(r, {d}),
                  !.edges = {e \in refs : e[1] = d /\ e[2] = r}]]
    /\ UNCHANGED <<file, meta, lock, tagLock, pass, faults>>

\* ... and the batch: edges, membership if it was one, and the mark.
DeleteBlobApply(q) ==
    LET x == req[q] IN
    /\ x.pc = "unref"
    /\ refs' = refs \ x.edges
    /\ member' = [member EXCEPT ![x.repo] =
                    [d \in Digest |-> IF d \in x.fresh THEN None ELSE @[d]]]
    /\ mark' = [d \in Digest |-> IF d \in x.items THEN None ELSE mark[d]]
    /\ req' = [req EXCEPT ![q] = ReqIdle]
    /\ UNCHANGED <<file, blob, manifests, lock, tagLock, pass, faults>>

----------------------------------------------------------------------------
(* A purge pass: memberships, then marks, then collections.                *)

PassGoto(p, rec) == pass' = [pass EXCEPT ![p] = IF @.gone THEN PassIdle ELSE rec]

\* The background task runs one pass at a time; POSTs start others beside it,
\* some of them dry runs.
PassStart(p, kind) ==
    /\ pass[p].pc = "idle"
    /\ kind = "scheduled" =>
          \A o \in Pass : pass[o].pc = "idle" \/ pass[o].kind # "scheduled"
    /\ pass' = [pass EXCEPT ![p] = [PassIdle EXCEPT !.pc = "memberships", !.kind = kind]]
    /\ UNCHANGED <<file, meta, lock, tagLock, req, faults>>

\* sweep_repo_blobs: expired memberships with no edge in their own repository.
SweepRead(p) ==
    /\ pass[p].pc = "memberships"
    /\ pass' = [pass EXCEPT ![p].pc = "sweep", ![p].drop =
                  {k \in Repo \X Digest :
                      /\ Expired(p, member[k[1]][k[2]])
                      /\ ~\E m \in Manifest : <<k[2], k[1], m>> \in refs}]
    /\ UNCHANGED <<file, meta, lock, tagLock, req, faults>>

SweepApply(p) ==
    LET drop == IF pass[p].kind = "dry" THEN {} ELSE pass[p].drop IN
    /\ pass[p].pc = "sweep"
    /\ member' = [r \in Repo |-> [d \in Digest |->
                    IF <<r, d>> \in drop THEN None ELSE member[r][d]]]
    /\ mark' = [d \in Digest |->
                    IF \E r \in Repo : <<r, d>> \in drop THEN None ELSE mark[d]]
    /\ PassGoto(p, [pass[p] EXCEPT !.pc = "blobs", !.drop = {}])
    /\ UNCHANGED <<file, blob, refs, manifests, lock, tagLock, req, faults>>

\* Mutant: every pass marks every loose blob, restarting its clock.
ScanRemarks(p) ==
    LET loose == {d \in blob : ~Referenced(d)} IN
    /\ pass[p].pc = "blobs"
    /\ pass' = [pass EXCEPT ![p].pc = "mark", ![p].set = loose,
                  ![p].ripe = {d \in loose : Expired(p, mark[d])}]
    /\ UNCHANGED <<file, meta, lock, tagLock, req, faults>>

\* scan_blobs: a verdict for every B record.
ScanRead(p) ==
    LET loose == {d \in blob : ~Referenced(d)} IN
    /\ pass[p].pc = "blobs"
    /\ pass' = [pass EXCEPT ![p].pc = "mark",
                  ![p].clear = {d \in blob : Referenced(d) /\ mark[d] # None},
                  ![p].set = {d \in loose : mark[d] = None},
                  ![p].ripe = {d \in loose : Expired(p, mark[d])}]
    /\ UNCHANGED <<file, meta, lock, tagLock, req, faults>>

\* A dry run leaves the marks alone and only counts what is ripe.
ScanApply(p) ==
    LET x == pass[p] IN
    /\ x.pc = "mark"
    /\ mark' = [d \in Digest |-> CASE x.kind = "dry" -> mark[d]
                                   [] d \in x.set    -> x.at
                                   [] d \in x.clear  -> None
                                   [] OTHER          -> mark[d]]
    /\ PassGoto(p, [x EXCEPT !.pc = "collect", !.set = {}, !.clear = {},
                             !.ripe = IF x.kind = "dry" THEN {} ELSE @])
    /\ UNCHANGED <<file, blob, member, refs, manifests, lock, tagLock, req, faults>>

CollectLock(p, d) ==
    /\ pass[p].pc = "collect"
    /\ d \in pass[p].ripe
    /\ lock[ShardOf[d]] = None
    /\ lock' = [lock EXCEPT ![ShardOf[d]] = p]
    /\ pass' = [pass EXCEPT ![p].pc = "check", ![p].target = d,
                            ![p].ripe = @ \ {d}]
    /\ UNCHANGED <<file, meta, tagLock, req, faults>>

\* collect_blob's four reads, or its decision to decline.
Collectable(p, d) == d \in blob /\ Expired(p, mark[d]) /\ ~Referenced(d)

\* Mutant: a declined collection keeps its guard.
DeclineLocked(p) ==
    /\ pass[p].pc = "check"
    /\ IF Collectable(p, pass[p].target)
       THEN pass' = [pass EXCEPT ![p].pc = "retract"]
       ELSE PassGoto(p, [pass[p] EXCEPT !.pc = "collect", !.target = None])
    /\ UNCHANGED <<file, meta, lock, tagLock, req, faults>>

CollectCheck(p) ==
    /\ pass[p].pc = "check"
    /\ \/ /\ Collectable(p, pass[p].target)
          /\ pass' = [pass EXCEPT ![p].pc = "retract"]
          /\ UNCHANGED lock
       \/ /\ ~Collectable(p, pass[p].target)
          /\ PassGoto(p, [pass[p] EXCEPT !.pc = "collect", !.target = None])
          /\ lock' = Release(p, lock)
    /\ UNCHANGED <<file, meta, tagLock, req, faults>>

CollectApply(p) ==
    LET d == pass[p].target IN
    /\ pass[p].pc = "retract"
    /\ blob' = blob \ {d}
    /\ mark' = [mark EXCEPT ![d] = None]
    /\ PassGoto(p, [pass[p] EXCEPT !.pc = "unlink"])
    /\ UNCHANGED <<file, member, refs, manifests, lock, tagLock, req, faults>>

\* Mutant: the bytes of a collected blob are forgotten.
CollectForgets(p) ==
    /\ pass[p].pc = "unlink"
    /\ PassGoto(p, [pass[p] EXCEPT !.pc = "collect", !.target = None])
    /\ lock' = Release(p, lock)
    /\ UNCHANGED <<file, meta, tagLock, req, faults>>

\* delete_blob of the store: the bytes go after the record.
CollectUnlink(p) ==
    /\ pass[p].pc = "unlink"
    /\ file' = file \ {pass[p].target}
    /\ PassGoto(p, [pass[p] EXCEPT !.pc = "collect", !.target = None])
    /\ lock' = Release(p, lock)
    /\ UNCHANGED <<meta, tagLock, req, faults>>

PassEnd(p) ==
    /\ pass[p].pc = "collect"
    /\ pass[p].ripe = {}
    /\ pass' = [pass EXCEPT ![p] = PassIdle]
    /\ UNCHANGED <<file, meta, lock, tagLock, req, faults>>

----------------------------------------------------------------------------
(* The environment.                                                        *)

\* The server drops the future of a request whose client went away.  Its lock
\* guards go with it; a blocking task it had started runs to its end.
ReqDisconnect(q) ==
    /\ Disconnects
    /\ req[q].pc # "idle" /\ ~req[q].gone
    /\ req' = [req EXCEPT ![q] = IF @.pc \in {"mount", "push"}
                                 THEN ReqIdle ELSE [@ EXCEPT !.gone = TRUE]]
    /\ lock' = Release(q, lock)
    /\ tagLock' = Release(q, tagLock)
    /\ UNCHANGED <<file, meta, pass, faults>>

PassDisconnect(p) ==
    /\ Disconnects
    /\ pass[p].kind # "scheduled"
    /\ pass[p].pc # "idle" /\ ~pass[p].gone
    /\ pass' = [pass EXCEPT ![p] = IF @.pc = "collect"
                                   THEN PassIdle ELSE [@ EXCEPT !.gone = TRUE]]
    /\ lock' = Release(p, lock)
    /\ UNCHANGED <<file, meta, tagLock, req, faults>>

\* The process dies: what is on disk stays, everything else is lost.
Crash ==
    /\ faults < MaxFaults
    /\ faults' = faults + 1
    /\ lock' = [s \in Shard |-> None]
    /\ tagLock' = [r \in Repo |-> None]
    /\ req' = [q \in Req |-> ReqIdle]
    /\ pass' = [p \in Pass |-> PassIdle]
    /\ UNCHANGED <<file, meta>>

\* The engine or the store reports an error and the handler returns it.  A
\* batch is atomic; only a rename may be done when its directory's fsync fails.
ReqFails(q) ==
    /\ faults < MaxFaults
    /\ faults' = faults + 1
    /\ req[q].pc \in {"commit", "plan", "mountplan", "apply", "unref"}
    /\ \/ UNCHANGED file
       \/ req[q].pc = "commit" /\ file' = file \cup req[q].items
    /\ req' = [req EXCEPT ![q] = ReqIdle]
    /\ lock' = Release(q, lock)
    /\ tagLock' = Release(q, tagLock)
    /\ UNCHANGED <<meta, pass>>

\* An error ends the whole pass.
PassFails(p) ==
    /\ faults < MaxFaults
    /\ faults' = faults + 1
    /\ pass[p].pc \notin {"idle", "collect"}
    /\ pass' = [pass EXCEPT ![p] = PassIdle]
    /\ lock' = Release(p, lock)
    /\ UNCHANGED <<file, meta, tagLock, req>>

Older(a) == IF a = None \/ a = Horizon THEN a ELSE a + 1

\* A second passes.  Passes and blocking tasks are bounded in time.
Tick ==
    /\ \A p \in Pass : pass[p].pc # "idle" => pass[p].at < PassSpan
    /\ \A q \in Req : InTask(q) => req[q].since < TaskSpan
    /\ mark' = [d \in Digest |-> Older(mark[d])]
    /\ member' = [r \in Repo |-> [d \in Digest |-> Older(member[r][d])]]
    /\ req' = [q \in Req |->
                  [req[q] EXCEPT
                      !.at = IF ReadClock(q) THEN Older(@) ELSE @,
                      !.since = IF InTask(q) THEN @ + 1 ELSE @]]
    /\ pass' = [p \in Pass |-> IF pass[p].pc = "idle" THEN pass[p]
                                ELSE [pass[p] EXCEPT !.at = @ + 1]]
    /\ UNCHANGED <<file, blob, refs, manifests, lock, tagLock, faults>>

ReqNext(q) ==
    \/ \E r \in Repo, d \in Digest :
        CommitLock(q, r, d) \/ MountBegin(q, r, d) \/ DeleteBlobPlan(q, r, d)
    \/ \E r \in Repo, m \in Manifest : PushBegin(q, r, m)
    \/ CommitRename(q) \/ CommitMismatch(q) \/ CommitPlan(q)
    \/ MountLock(q) \/ \E from \in Repo \cup {None} : MountPlan(q, from)
    \/ PushPlan(q) \/ Apply(q) \/ DeleteBlobApply(q)
    \/ ReqDisconnect(q) \/ ReqFails(q)

PassNext(p) ==
    \/ \E kind \in PassKind : PassStart(p, kind)
    \/ SweepRead(p) \/ SweepApply(p) \/ ScanRead(p) \/ ScanApply(p)
    \/ \E d \in Digest : CollectLock(p, d)
    \/ CollectCheck(p) \/ CollectApply(p) \/ CollectUnlink(p)
    \/ PassEnd(p) \/ PassDisconnect(p) \/ PassFails(p)

Next ==
    \/ \E q \in Req : ReqNext(q)
    \/ \E p \in Pass : PassNext(p)
    \/ \E r \in Repo, m \in Manifest : DeleteManifest(r, m)
    \/ Tick
    \/ Crash

Spec == Init /\ [][Next]_vars

(* Blocking tasks run to their end, tokio's mutexes are first come first   *)
(* served, the scheduled pass recurs, and time goes on.  Clients promise   *)
(* nothing.                                                                *)
ReqProgress(q) ==
    \/ CommitRename(q) \/ CommitPlan(q) \/ Apply(q) \/ DeleteBlobApply(q)
    \/ \E from \in Repo \cup {None} : MountPlan(q, from)

PassProgress(p) ==
    \/ SweepRead(p) \/ SweepApply(p) \/ ScanRead(p) \/ ScanApply(p)
    \/ CollectCheck(p) \/ CollectApply(p) \/ CollectUnlink(p) \/ PassEnd(p)

Fairness ==
    /\ SF_vars(Tick)
    /\ \A q \in Req : /\ WF_vars(ReqProgress(q))
                       /\ SF_vars(MountLock(q))
                       /\ SF_vars(PushPlan(q))
    /\ \A p \in Pass : /\ WF_vars(PassProgress(p))
                       /\ SF_vars(\E d \in Digest : CollectLock(p, d))
    /\ SF_vars(\E p \in Pass : PassStart(p, "scheduled"))

FairSpec == Spec /\ Fairness

----------------------------------------------------------------------------
(* Properties.                                                             *)

ReqRecord == [pc : ReqPC, repo : Repo \cup {None}, items : SUBSET Digest,
              create : SUBSET Digest, fresh : SUBSET Digest,
              man : Manifest \cup {None},
              edges : SUBSET (Digest \X Repo \X Manifest),
              at : Age, since : 0..TaskSpan, gone : BOOLEAN]

PassRecord == [pc : PassPC, kind : PassKind, at : 0..PassSpan,
               drop : SUBSET (Repo \X Digest), set : SUBSET Digest,
               clear : SUBSET Digest, ripe : SUBSET Digest,
               target : Digest \cup {None}, gone : BOOLEAN]

\* Every variable keeps its type.
TypeOK ==
    /\ file \subseteq Digest
    /\ blob \subseteq Digest
    /\ mark \in [Digest -> Age \cup {None}]
    /\ member \in [Repo -> [Digest -> Age \cup {None}]]
    /\ refs \subseteq Digest \X Repo \X Manifest
    /\ manifests \subseteq Repo \X Manifest
    /\ lock \in [Shard -> Proc \cup {None}]
    /\ tagLock \in [Repo -> Req \cup {None}]
    /\ req \in [Req -> ReqRecord]
    /\ pass \in [Pass -> PassRecord]
    /\ faults \in 0..MaxFaults

\* "A B record whose file is gone is a pull that fails": every record in B has
\* its bytes on disk, at every instant, across commits, collections,
\* I/O errors and crashes (the order of finish_upload, put_blob and purge_blobs).
BytesBehindRecords == blob \subseteq file

\* "Why a push cannot lose its layers to a pass": a blob some manifest's edge
\* names still has its record (stage_blobs against collect_blob).
LayersSurvivePurge == \A e \in refs : e[1] \in blob

\* A commit, a mount or a push buys its blob the grace period, less the time a
\* pass may run on the clock it read at its start: collect_blob never decides to
\* take a blob while some repository has a membership younger than that.  (The
\* mark is dated with the pass's clock, so the whole period is not guaranteed;
\* and a push applied after the decision is LayersSurvivePurge's subject.)
GraceHonoured ==
    [][\A p \in Pass : pass[p].pc = "check" /\ pass'[p].pc = "retract" =>
          \A r \in Repo : LET age == member[r][pass[p].target]
                          IN  age = None \/ age + PassSpan >= Grace]_vars

Quiescent == /\ \A q \in Req : req[q].pc = "idle"
             /\ \A p \in Pass : pass[p].pc = "idle"

\* "A crash between the two steps leaks those bytes": a crash or an I/O error,
\* and nothing else does.  Without one, whenever nothing is running, every file
\* has its record: no order of commits, refused digests, mounts, deletes and
\* collections strands bytes no pass can find.
LeaksOnlyByFault == faults = 0 /\ Quiescent => file \subseteq blob

\* Nobody wants d: no manifest's edge names it and no request is handling it.
Unwanted(d) ==
    /\ ~Referenced(d)
    /\ \A q \in Req : /\ d \notin req[q].items
                      /\ req[q].man # None => d \notin Layers[req[q].man]

\* Purge reclaims what the deletes and the abandoned pushes leave behind: a
\* record nobody wants any more does not stay for ever, whatever the membership
\* clocks, marks, overlapping passes and lost clients did before.
GarbageReclaimed ==
    \A d \in Digest :
        (d \in blob /\ Unwanted(d)) ~> (d \notin blob \/ ~Unwanted(d))

\* No blob lock is held for ever: nobody waits on a collection or a commit that
\* cannot finish, whoever went away while holding it.
LocksReleased == \A s \in Shard : (lock[s] # None) ~> (lock[s] = None)

=============================================================================
