-------------------------------- MODULE Tags --------------------------------
(***************************************************************************)
(* Manifests and tags of one repository: the record M (with its body Z),   *)
(* the tag T, the reverse edge G purge asks whether a manifest is tagged,  *)
(* the index edge S and the referrer edge F, as pushes, deletes and the    *)
(* untagged purge change them.  (The same batches append to the history H  *)
(* and J, which nothing here reads.)                                       *)
(*                                                                         *)
(* An operation waits for the repository's lock, plans its batch from what *)
(* it reads, and applies the batch; plan and apply are two steps.  The     *)
(* repository's id and its blobs are other modules'.                       *)
(***************************************************************************)
EXTENDS Naturals, FiniteSets

CONSTANTS
    Manifest,           \* manifest digests
    Tag,
    Children,           \* [Manifest -> SUBSET Manifest], what an index lists
    Subject,            \* [Manifest -> Manifest \cup {None}], its subject field
    Artifact,           \* [Tag -> Manifest \cup {None}], the subject a legacy
                        \* cosign tag spells, None for an ordinary tag
    Req,                \* concurrent client requests
    Pass,               \* concurrent purge passes with --purge-untagged
    MinAge,             \* --purge-untagged-min-age, in ticks
    MaxClock,           \* bound on the clock
    MaxFaults,          \* bound on failed operations
    Disconnects,        \* may a client go away while its request runs?
    ValidateReferences, \* RegistryOptions.validate_references
    None

Proc == Req \cup Pass
Time == 0..MaxClock

ASSUME ImageAssumption ==
    /\ Children \in [Manifest -> SUBSET Manifest]
    /\ Subject \in [Manifest -> Manifest \cup {None}]
    /\ Artifact \in [Tag -> Manifest \cup {None}]
ASSUME BoundAssumption ==
    MinAge \in Nat /\ MaxClock \in Nat /\ MaxFaults \in Nat
ASSUME SwitchAssumption == Disconnects \in BOOLEAN /\ ValidateReferences \in BOOLEAN
ASSUME ProcAssumption == Req \cap Pass = {}
ASSUME NoneAssumption == None \notin Time \cup Manifest \cup Tag \cup Proc

VARIABLES
    records,    \* M and Z: pushed_at of each stored manifest, or None
    tags,       \* T: the manifest each tag points at, or None
    named,      \* G: <<manifest, tag>>
    parents,    \* S: <<child, index>>
    referrers,  \* F: <<subject, referrer>>
    lock,       \* RepoLocks: who holds the repository
    req, pass,  \* what each request and each pass is doing
    batch,      \* what each of them has planned
    clock, faults

meta == <<records, tags, named, parents, referrers>>
vars == <<meta, lock, req, pass, batch, clock, faults>>

----------------------------------------------------------------------------
(* Batches.                                                                *)

\* put is stored under the tags of set; drop is removed; the tags of clear are
\* deleted; g, s and f are the edges retracted.
NoBatch == [put |-> None, set |-> {}, drop |-> None, clear |-> {},
            g |-> {}, s |-> {}, f |-> {}, at |-> 0]

\* The referrer edges of a manifest pushed under some tags: its own subject's
\* and the ones stage_set_tag synthesises.
Edges(m, ts) ==
    {<<u, m>> : u \in ({Subject[m]} \cup {Artifact[t] : t \in ts}) \ {None}}

\* stage_set_tag reads what the tag points at, to retract that edge.
Displaced(m, ts) == {t \in ts : tags[t] \notin {m, None}}

\* Mutant: a repointed tag keeps its old reverse edge.
PutKeepsEdge(m, ts, at) == [NoBatch EXCEPT !.put = m, !.set = ts, !.at = at]

\* Mutant: an edge is retracted also where the tag pointed at nothing.
PutRetractsAny(m, ts, at) ==
    [NoBatch EXCEPT !.put = m, !.set = ts, !.at = at,
                    !.g = {<<tags[t], t>> : t \in ts}]

PlanPut(m, ts, at) ==
    [NoBatch EXCEPT
        !.put = m, !.set = ts, !.at = at,
        !.g = {<<tags[t], t>> : t \in Displaced(m, ts)},
        !.f = {<<Artifact[t], tags[t]>> :
                  t \in {u \in Displaced(m, ts) : Artifact[u] # None}}]

PlanDeleteTag(t) ==
    [NoBatch EXCEPT
        !.clear = {t},
        !.g = {<<tags[t], t>>},
        !.f = IF Artifact[t] = None THEN {} ELSE {<<Artifact[t], tags[t]>>}]

\* Mutant: the delete does not cascade to the tags.
DeleteLeavesTags(m) ==
    [NoBatch EXCEPT !.drop = m,
        !.s = {<<c, m>> : c \in Children[m]} \cup {e \in parents : e[1] = m},
        !.f = Edges(m, {})]

\* Mutant: the edges of the record go, not those its tags synthesised, nor S.
DeleteLeavesEdges(m) ==
    LET ts == {t \in Tag : <<m, t>> \in named} IN
    [NoBatch EXCEPT !.drop = m, !.clear = ts,
        !.g = {<<m, t>> : t \in ts}, !.f = Edges(m, {})]

\* plan_manifest_delete finds the tags to cascade to through G.
PlanDeleteManifest(m) ==
    LET ts == {t \in Tag : <<m, t>> \in named} IN
    [NoBatch EXCEPT
        !.drop = m, !.clear = ts,
        !.g = {<<m, t>> : t \in ts},
        !.s = {<<c, m>> : c \in Children[m]} \cup {e \in parents : e[1] = m},
        !.f = Edges(m, ts)]

Write(b) ==
    /\ records' = [m \in Manifest |-> IF m = b.put THEN b.at
                                      ELSE IF m = b.drop THEN None ELSE records[m]]
    /\ tags' = [t \in Tag |-> IF t \in b.set THEN b.put
                              ELSE IF t \in b.clear THEN None ELSE tags[t]]
    /\ named' = (named \ b.g) \cup {<<b.put, t>> : t \in b.set}
    /\ IF b.put = None
       THEN parents' = parents \ b.s /\ referrers' = referrers \ b.f
       ELSE /\ parents' = parents \cup {<<c, b.put>> : c \in Children[b.put]}
            /\ referrers' = (referrers \ b.f) \cup Edges(b.put, b.set)

----------------------------------------------------------------------------
(* Control states.                                                         *)

ReqIdle == [pc |-> "idle", man |-> None, tags |-> {}, at |-> 0]
PassIdle == [pc |-> "idle", todo |-> {}, man |-> None, at |-> 0]

Init ==
    /\ records = [m \in Manifest |-> None]
    /\ tags = [t \in Tag |-> None]
    /\ named = {} /\ parents = {} /\ referrers = {}
    /\ lock = None
    /\ req = [q \in Req |-> ReqIdle]
    /\ pass = [p \in Pass |-> PassIdle]
    /\ batch = [x \in Proc |-> NoBatch]
    /\ clock = 0 /\ faults = 0

Stored == {m \in Manifest : records[m] # None}

\* stage_children: where references are validated, an index may only list
\* manifests the repository has.
Accepts(m) == ValidateReferences => Children[m] \subseteq Stored

\* Mutant: the plan does not wait for the repository's lock.
PlanUnlocked(x, b) == lock' = x /\ batch' = [batch EXCEPT ![x] = b]

\* Under the lock, the plan.
Plan(x, b) ==
    /\ lock = None
    /\ lock' = x
    /\ batch' = [batch EXCEPT ![x] = b]

Unlock(x) == lock' = IF lock = x THEN None ELSE lock

----------------------------------------------------------------------------
(* Requests.                                                               *)

\* put_manifest: the clock, the plan that may refuse, and the archive copy.
PutBegin(q, m, ts) ==
    /\ req[q].pc = "idle" /\ Accepts(m)
    /\ req' = [req EXCEPT ![q] = [pc |-> "put", man |-> m, tags |-> ts, at |-> clock]]
    /\ UNCHANGED <<meta, lock, pass, batch, clock, faults>>

PutPlan(q) ==
    LET x == req[q] IN
    /\ x.pc = "put"
    /\ \/ /\ Accepts(x.man)
          /\ Plan(q, PlanPut(x.man, x.tags, x.at))
          /\ req' = [req EXCEPT ![q] = [ReqIdle EXCEPT !.pc = "apply"]]
       \/ /\ ~Accepts(x.man)
          /\ lock = None
          /\ req' = [req EXCEPT ![q] = ReqIdle]
          /\ UNCHANGED <<lock, batch>>
    /\ UNCHANGED <<meta, pass, clock, faults>>

\* delete_manifest by tag; an unknown tag is refused.
DeleteTag(q, t) ==
    /\ req[q].pc = "idle" /\ tags[t] # None
    /\ Plan(q, PlanDeleteTag(t))
    /\ req' = [req EXCEPT ![q].pc = "apply"]
    /\ UNCHANGED <<meta, pass, clock, faults>>

\* delete_manifest by digest; an unknown manifest is refused.
DeleteManifest(q, m) ==
    /\ req[q].pc = "idle" /\ m \in Stored
    /\ Plan(q, PlanDeleteManifest(m))
    /\ req' = [req EXCEPT ![q].pc = "apply"]
    /\ UNCHANGED <<meta, pass, clock, faults>>

\* The batch, the response, and the guard.
Apply(q) ==
    /\ req[q].pc = "apply"
    /\ Write(batch[q])
    /\ batch' = [batch EXCEPT ![q] = NoBatch]
    /\ req' = [req EXCEPT ![q] = ReqIdle]
    /\ Unlock(q)
    /\ UNCHANGED <<pass, clock, faults>>

----------------------------------------------------------------------------
(* The untagged purge.  (A dry run writes nothing and is left out.)        *)

\* manifest_is_purgeable, against the cutoff of a pass started at `at`.
Purgeable(m, at) ==
    /\ m \in Stored
    /\ records[m] + MinAge <= at
    /\ ~\E t \in Tag : <<m, t>> \in named
    /\ ~\E i \in Manifest : <<m, i>> \in parents
    /\ Subject[m] \notin Stored

\* purgeable_manifests: the candidates, by a scan that holds nothing.
PassScan(p) ==
    /\ pass[p].pc = "idle"
    /\ pass' = [pass EXCEPT ![p] = [PassIdle EXCEPT !.pc = "reap", !.at = clock,
                    !.todo = {m \in Manifest : Purgeable(m, clock)}]]
    /\ UNCHANGED <<meta, lock, req, batch, clock, faults>>

\* Mutant: purge_manifest trusts the scan.
PurgeStale(p, m) ==
    /\ pass[p].pc = "reap" /\ m \in pass[p].todo \cap Stored
    /\ Plan(p, PlanDeleteManifest(m))
    /\ pass' = [pass EXCEPT ![p].pc = "apply", ![p].man = m, ![p].todo = @ \ {m}]
    /\ UNCHANGED <<meta, req, clock, faults>>

\* purge_manifest re-checks every guard under the lock, and may decline.
PurgePlan(p, m) ==
    /\ pass[p].pc = "reap" /\ m \in pass[p].todo
    /\ \/ /\ Purgeable(m, pass[p].at)
          /\ Plan(p, PlanDeleteManifest(m))
          /\ pass' = [pass EXCEPT ![p].pc = "apply", ![p].man = m, ![p].todo = @ \ {m}]
       \/ /\ ~Purgeable(m, pass[p].at)
          /\ lock = None
          /\ pass' = [pass EXCEPT ![p].todo = @ \ {m}]
          /\ UNCHANGED <<lock, batch>>
    /\ UNCHANGED <<meta, req, clock, faults>>

PurgeApply(p) ==
    /\ pass[p].pc = "apply"
    /\ Write(batch[p])
    /\ batch' = [batch EXCEPT ![p] = NoBatch]
    /\ pass' = [pass EXCEPT ![p].pc = "reap", ![p].man = None]
    /\ Unlock(p)
    /\ UNCHANGED <<req, clock, faults>>

PassEnd(p) ==
    /\ pass[p].pc = "reap" /\ pass[p].todo = {}
    /\ pass' = [pass EXCEPT ![p] = PassIdle]
    /\ UNCHANGED <<meta, lock, req, batch, clock, faults>>

----------------------------------------------------------------------------
(* The environment.                                                        *)

\* An error of the engine or the archive: what was planned is not applied.
ReqFails(q) ==
    /\ faults < MaxFaults /\ faults' = faults + 1
    /\ req[q].pc # "idle"
    /\ req' = [req EXCEPT ![q] = ReqIdle]
    /\ batch' = [batch EXCEPT ![q] = NoBatch]
    /\ Unlock(q)
    /\ UNCHANGED <<meta, pass, clock>>

PassFails(p) ==
    /\ faults < MaxFaults /\ faults' = faults + 1
    /\ pass[p].pc # "idle"
    /\ pass' = [pass EXCEPT ![p] = PassIdle]
    /\ batch' = [batch EXCEPT ![p] = NoBatch]
    /\ Unlock(p)
    /\ UNCHANGED <<meta, req, clock>>

\* The process dies: batches are atomic, so the store is as the last one left it.
Crash ==
    /\ faults < MaxFaults /\ faults' = faults + 1
    /\ lock' = None
    /\ req' = [q \in Req |-> ReqIdle]
    /\ pass' = [p \in Pass |-> PassIdle]
    /\ batch' = [x \in Proc |-> NoBatch]
    /\ UNCHANGED <<meta, clock>>

\* The server drops a request whose client went away, and its lock guard with
\* it.  The blocking task that was planning and applying runs on.
Disconnect(q) ==
    /\ Disconnects
    /\ req[q].pc # "idle"
    /\ req' = [req EXCEPT ![q] = IF @.pc = "apply" THEN @ ELSE ReqIdle]
    /\ Unlock(q)
    /\ UNCHANGED <<meta, pass, batch, clock, faults>>

Tick ==
    /\ clock < MaxClock
    /\ clock' = clock + 1
    /\ UNCHANGED <<meta, lock, req, pass, batch, faults>>

ReqNext(q) ==
    \/ \E m \in Manifest, ts \in SUBSET Tag : PutBegin(q, m, ts)
    \/ \E t \in Tag : DeleteTag(q, t)
    \/ \E m \in Manifest : DeleteManifest(q, m)
    \/ PutPlan(q) \/ Apply(q) \/ ReqFails(q) \/ Disconnect(q)

PassNext(p) ==
    \/ PassScan(p) \/ (\E m \in Manifest : PurgePlan(p, m))
    \/ PurgeApply(p) \/ PassEnd(p) \/ PassFails(p)

Next == (\E q \in Req : ReqNext(q)) \/ (\E p \in Pass : PassNext(p)) \/ Tick \/ Crash

Spec == Init /\ [][Next]_vars

(* Blocking tasks finish, the mutex is first come first served, and the     *)
(* scheduled pass recurs.  Clients promise nothing.                         *)
Fairness ==
    /\ \A q \in Req : /\ WF_vars(Apply(q))
                       /\ SF_vars(PutPlan(q))
    /\ \A p \in Pass : /\ WF_vars(PassScan(p) \/ PurgeApply(p) \/ PassEnd(p))
                       /\ SF_vars(\E m \in Manifest : PurgePlan(p, m))
    /\ WF_vars(Tick)

FairSpec == Spec /\ Fairness

----------------------------------------------------------------------------
(* Properties.                                                             *)

Batch == [put : Manifest \cup {None}, set : SUBSET Tag,
          drop : Manifest \cup {None}, clear : SUBSET Tag,
          g : SUBSET (Manifest \X Tag),
          s : SUBSET (Manifest \X Manifest), f : SUBSET (Manifest \X Manifest),
          at : Time]

\* Every variable keeps its type.
TypeOK ==
    /\ records \in [Manifest -> Time \cup {None}]
    /\ tags \in [Tag -> Manifest \cup {None}]
    /\ named \subseteq Manifest \X Tag
    /\ parents \subseteq Manifest \X Manifest
    /\ referrers \subseteq Manifest \X Manifest
    /\ lock \in Proc \cup {None}
    /\ req \in [Req -> [pc : {"idle", "put", "apply"},
                        man : Manifest \cup {None}, tags : SUBSET Tag, at : Time]]
    /\ pass \in [Pass -> [pc : {"idle", "reap", "apply"}, todo : SUBSET Manifest,
                          man : Manifest \cup {None}, at : Time]]
    /\ batch \in [Proc -> Batch]
    /\ clock \in Time
    /\ faults \in 0..MaxFaults

\* What RepoLocks is for: G names exactly the manifest each tag points at.  A
\* stale edge keeps a manifest from purge for ever, and lets a delete of that
\* manifest take a tag that has moved on.
TagEdgesAgree == \A t \in Tag, m \in Manifest : <<m, t>> \in named <=> tags[t] = m

\* "A tag pointing at nothing is a 404 waiting to happen": no order of pushes,
\* deletes and purges leaves a tag on a manifest that is gone.
TagsResolve == \A t \in Tag : tags[t] # None => tags[t] \in Stored

\* Every edge a manifest's push wrote goes with it: no S edge names an index
\* that is gone, no F edge a referrer that is gone.  (plan_manifest_delete:
\* "nothing is left that would make it look referenced".)
NoDanglingEdges ==
    /\ \A e \in parents : e[2] \in Stored
    /\ \A e \in referrers : e[2] \in Stored

\* purge_manifest re-checks under the lock: however stale its candidates are, a
\* pass never removes a manifest that a tag points at, that still has an S
\* edge, whose subject is stored, or that was pushed inside the minimum age.
PurgeSparesWanted ==
    [][\A p \in Pass : pass[p].pc = "apply" /\ pass'[p].pc = "reap" =>
          LET m == pass[p].man IN
          /\ \A t \in Tag : tags[t] # m
          /\ \A i \in Manifest : <<m, i>> \notin parents
          /\ Subject[m] \notin Stored
          /\ records[m] + MinAge <= pass[p].at]_vars

Map == INSTANCE TagMap WITH images <- Stored, pointer <- tags

\* The repository implements the atomic map of TagMap.
ImplementsTagMap == Map!Spec

\* The guard of manifest_is_purgeable, "a child of an index": a pass never
\* removes a manifest that the index under some tag lists.
PurgeSparesChildren ==
    [][\A p \in Pass : pass[p].pc = "apply" /\ pass'[p].pc = "reap" =>
          \A t \in Tag : tags[t] # None => pass[p].man \notin Children[tags[t]]]_vars

\* Nothing keeps m: stored for the minimum age, no tag, no stored index that
\* lists it, no live subject, nobody pushing it.
Garbage(m) ==
    /\ m \in Stored /\ records[m] + MinAge <= clock
    /\ \A t \in Tag : tags[t] # m
    /\ \A i \in Stored : m \notin Children[i]
    /\ Subject[m] \notin Stored
    /\ \A q \in Req : ~(req[q].pc = "put" /\ req[q].man = m) /\ batch[q].put # m

\* An edge that says m has a tag.
Named(m) == \E t \in Tag : <<m, t>> \in named

\* An untagged manifest past its minimum age is reclaimed in the end, whatever
\* repoints and deletes made it so, unless a G edge is left that no tag justifies,
\* which TagEdgesAgree rules out where no dropped request applies its batch
\* beside another's plan.
UntaggedReclaimed == \A m \in Manifest : Garbage(m) ~> (~Garbage(m) \/ Named(m))
=============================================================================
