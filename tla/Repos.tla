------------------------------- MODULE Repos -------------------------------
(***************************************************************************)
(* The life of a repository's name: interned by the first request that     *)
(* writes to it, cached in front of the store, released by a delete that   *)
(* leaves its id to the sweeper, or retired by purge when nothing is under *)
(* it.  One name is modelled; the ids are its incarnations.                *)
(*                                                                         *)
(* Every operation resolves the name first and writes under the id later,  *)
(* and only manifest pushes and purge share a lock, so the id may have     *)
(* died in between.  What lies under an id is told apart only by kind: the *)
(* records M (with all that is keyed beside them), their edges R, and the  *)
(* blob memberships P.  An open upload only keeps its name from purge.     *)
(***************************************************************************)
EXTENDS Naturals

CONSTANTS
    MaxId,      \* MAX_REPO_ID + 1, the bound on ids
    Req,        \* concurrent client requests
    Purger,     \* the purge pass
    MaxFaults,  \* bound on crashes and I/O errors
    None

Id == 0..(MaxId - 1)
Proc == Req \cup {Purger}
Item == {"M", "R", "P"}
Kind == {"push", "blob", "delete", "retire"}

ASSUME BoundAssumption == MaxId \in Nat /\ MaxFaults \in Nat
ASSUME ProcAssumption == Purger \notin Req
ASSUME NoneAssumption == None \notin 0..MaxId /\ None \notin Proc /\ None \notin Kind

VARIABLES
    name,       \* n (and i): the id the name maps to, or None
    next,       \* the counter of ids
    cache,      \* the interner's LRU entry for the name, or None
    dead,       \* D: the ids whose keys are still to be swept
    content,    \* what lies under each id
    lock,       \* the repository's tag lock
    proc,       \* what each request, and the purge pass, is doing
    mark,       \* purge_mark: the counter as the last pass found it, or None
    sweep,      \* what the sweeper is doing
    raced,      \* ids written to, or unnamed, by an operation that resolved
                \* the name too early (history, for StrandedOnlyByRace)
    faults

store == <<name, next, dead, content>>
vars == <<store, cache, lock, proc, mark, sweep, raced, faults>>

Idle == [pc |-> "idle", kind |-> None, id |-> None, water |-> None]
SweepIdle == [pc |-> "idle", id |-> None, seen |-> FALSE]

Init ==
    /\ name = None /\ next = 0 /\ cache = None
    /\ dead = {}
    /\ content = [i \in Id |-> {}]
    /\ lock = None
    /\ proc = [x \in Proc |-> Idle]
    /\ mark = None
    /\ sweep = SweepIdle
    /\ raced = {}
    /\ faults = 0

Holds(x, rec) == rec.kind = "push" \/ (x = Purger /\ rec.pc \notin {"idle", "wait"})

\* An operation goes on, with the guard of the repository's lock or without.
Goto(x, rec) ==
    /\ proc' = [proc EXCEPT ![x] = rec]
    /\ lock' = IF Holds(x, rec) THEN x ELSE IF lock = x THEN None ELSE lock

Step(x, pc) == Goto(x, [proc[x] EXCEPT !.pc = pc])
Stop(x) == Goto(x, Idle)

----------------------------------------------------------------------------
(* The interner.                                                           *)

\* lookup: the cache, else the store, whose answer is remembered in a step of
\* its own.  A name that is nowhere is interned by an operation that writes.
Lookup(x, rec) ==
    \/ cache # None /\ Goto(x, [rec EXCEPT !.pc = "act", !.id = cache])
    \/ cache = None /\ name # None /\ Goto(x, [rec EXCEPT !.pc = "remember", !.id = name])
    \/ /\ cache = None /\ name = None
       /\ IF rec.kind \in {"push", "blob"}
          THEN Goto(x, [rec EXCEPT !.pc = "intern"])
          ELSE Goto(x, Idle)

\* Mutant: the counter is not part of the batch.
InternReuses(x) ==
    /\ proc[x].pc = "intern"
    /\ cache = None /\ name = None /\ next < MaxId
    /\ name' = next
    /\ Goto(x, [proc[x] EXCEPT !.pc = "remember", !.id = next])
    /\ UNCHANGED <<next, dead, content, cache, mark, sweep, raced, faults>>

\* Mutant: the exhaustion test is off by one.
InternBeyond(x) ==
    /\ proc[x].pc = "intern"
    /\ cache = None /\ name = None /\ next <= MaxId
    /\ name' = next /\ next' = next + 1
    /\ Goto(x, [proc[x] EXCEPT !.pc = "remember", !.id = next])
    /\ UNCHANGED <<dead, content, cache, mark, sweep, raced, faults>>

\* intern, under the allocation mutex: looked up again, else one batch with the
\* mapping and the counter.  The ids may be exhausted.
Intern(x) ==
    /\ proc[x].pc = "intern"
    /\ \/ (cache # None \/ name # None)
          /\ Lookup(x, proc[x]) /\ UNCHANGED <<name, next>>
       \/ /\ cache = None /\ name = None /\ next < MaxId
          /\ name' = next /\ next' = next + 1
          /\ Goto(x, [proc[x] EXCEPT !.pc = "remember", !.id = next])
       \/ cache = None /\ name = None /\ next = MaxId /\ Stop(x) /\ UNCHANGED <<name, next>>
    /\ UNCHANGED <<dead, content, cache, mark, sweep, raced, faults>>

Remember(x) ==
    /\ proc[x].pc = "remember"
    /\ cache' = proc[x].id
    /\ Step(x, "act")
    /\ UNCHANGED <<store, mark, sweep, raced, faults>>

\* forget, and the LRU's own evictions.
Forget(x) ==
    /\ proc[x].pc = "forget"
    /\ cache' = None
    /\ Stop(x)
    /\ UNCHANGED <<store, mark, sweep, raced, faults>>

Evict ==
    /\ cache # None
    /\ cache' = None
    /\ UNCHANGED <<store, lock, proc, mark, sweep, raced, faults>>

----------------------------------------------------------------------------
(* Requests.                                                               *)

\* A request resolves the name; a push takes the repository's lock first.
Begin(q, kind) ==
    /\ proc[q].pc = "idle"
    /\ kind = "push" => lock = None
    /\ Lookup(q, [Idle EXCEPT !.kind = kind])
    /\ UNCHANGED <<store, cache, mark, sweep, raced, faults>>

Acts(x, kind) == proc[x].pc = "act" /\ proc[x].kind = kind

\* A write under an id the name no longer has.
Straggles(i) == raced' = IF name = i THEN raced ELSE raced \cup {i}

\* put_manifest: accepted if the repository has the layers.
Push(q) ==
    LET i == proc[q].id IN
    /\ Acts(q, "push")
    /\ "P" \in content[i]
    /\ content' = [content EXCEPT ![i] = @ \cup {"M", "R"}]
    /\ Straggles(i)
    /\ Stop(q)
    /\ UNCHANGED <<name, next, dead, cache, mark, sweep, faults>>

\* finish_upload, put_blob and mount_blob.
Blob(q) ==
    /\ Acts(q, "blob")
    /\ content' = [content EXCEPT ![proc[q].id] = @ \cup {"P"}]
    /\ Straggles(proc[q].id)
    /\ Stop(q)
    /\ UNCHANGED <<name, next, dead, cache, mark, sweep, faults>>

\* A request that only reads, fails or is refused, a push's plan before it has
\* the lock, or a create_upload, whose session is all it leaves: the name was
\* resolved, perhaps interned and cached, and nothing is written under it.
WriteNothing(q) ==
    /\ proc[q].pc \in {"intern", "act"}
    /\ Stop(q)
    /\ UNCHANGED <<store, cache, mark, sweep, raced, faults>>

\* A batch that deletes n deletes it whatever id it maps to by now.
Unname(i) ==
    /\ name' = None
    /\ raced' = IF name \in {i, None} THEN raced ELSE raced \cup {name}

\* delete_repository: one batch drops the mapping and leaves the tombstone.
Delete(q) ==
    /\ Acts(q, "delete")
    /\ Unname(proc[q].id)
    /\ dead' = dead \cup {proc[q].id}
    /\ Goto(q, [Idle EXCEPT !.pc = "forget"])
    /\ UNCHANGED <<next, content, cache, mark, sweep, faults>>

\* What empties a repository by other paths: its manifests are deleted, under
\* the lock, and unreferenced memberships expire.
Shrink(i) ==
    /\ \/ /\ name = i /\ lock = None /\ "M" \in content[i]
          /\ content' = [content EXCEPT ![i] = @ \ {"M", "R"}]
       \/ /\ "P" \in content[i] /\ "R" \notin content[i]
          /\ content' = [content EXCEPT ![i] = @ \ {"P"}]
    /\ UNCHANGED <<name, next, dead, cache, lock, proc, mark, sweep, raced, faults>>

----------------------------------------------------------------------------
(* Purge, stage 5: names with nothing under them.                          *)

\* purge_names: the counter becomes the next pass's watermark; the name is a
\* candidate if it is older than the last one and looks empty.  (An upload the
\* name is held open by makes Retire decline.)
PurgeStart ==
    /\ proc[Purger].pc = "idle"
    /\ mark' = next
    /\ proc' = IF mark # None /\ name # None /\ name < mark /\ content[name] = {}
               THEN [proc EXCEPT ![Purger] = [Idle EXCEPT !.pc = "wait",
                                                  !.kind = "retire", !.water = mark]]
               ELSE proc
    /\ UNCHANGED <<store, cache, lock, sweep, raced, faults>>

\* The lock, and a fresh list of the names that uploads hold open.
PurgeLock ==
    /\ proc[Purger].pc = "wait" /\ lock = None
    /\ Step(Purger, "lookup")
    /\ UNCHANGED <<store, cache, mark, sweep, raced, faults>>

RetireLookup ==
    /\ proc[Purger].pc = "lookup"
    /\ Lookup(Purger, proc[Purger])
    /\ UNCHANGED <<store, cache, mark, sweep, raced, faults>>

\* retire_repo checks again, and may decline.
Retire ==
    LET x == proc[Purger] IN
    /\ Acts(Purger, "retire")
    /\ \/ x.id < x.water /\ content[x.id] = {} /\ Step(Purger, "unname")
       \/ Stop(Purger)
    /\ UNCHANGED <<store, cache, mark, sweep, raced, faults>>

RetireApply ==
    /\ proc[Purger].pc = "unname"
    /\ Unname(proc[Purger].id)
    /\ Goto(Purger, [Idle EXCEPT !.pc = "forget"])
    /\ UNCHANGED <<next, dead, content, cache, mark, sweep, faults>>

----------------------------------------------------------------------------
(* The sweeper.                                                            *)

SweepScan(i) ==
    /\ sweep.pc = "idle" /\ i \in dead
    /\ sweep' = [pc |-> "refs", id |-> i, seen |-> "M" \in content[i]]
    /\ UNCHANGED <<store, cache, lock, proc, mark, raced, faults>>

\* Mutant: the ranges under the id go before the edges.
FinishFirst ==
    /\ sweep.pc = "refs"
    /\ content' = [content EXCEPT ![sweep.id] = @ \cap {"R"}]
    /\ dead' = dead \ {sweep.id}
    /\ sweep' = SweepIdle
    /\ UNCHANGED <<name, next, cache, lock, proc, mark, raced, faults>>

\* sweep_repo_refs: R is keyed by the blob, and found through the records.
SweepRefs ==
    /\ sweep.pc = "refs"
    /\ content' = [content EXCEPT ![sweep.id] = IF sweep.seen THEN @ \ {"R"} ELSE @]
    /\ sweep' = [sweep EXCEPT !.pc = "finish"]
    /\ UNCHANGED <<name, next, dead, cache, lock, proc, mark, raced, faults>>

\* finish_repo_sweep: every range keyed by the id, and the tombstone.
SweepFinish ==
    /\ sweep.pc = "finish"
    /\ content' = [content EXCEPT ![sweep.id] = @ \cap {"R"}]
    /\ dead' = dead \ {sweep.id}
    /\ sweep' = SweepIdle
    /\ UNCHANGED <<name, next, cache, lock, proc, mark, raced, faults>>

----------------------------------------------------------------------------
(* The environment.                                                        *)

\* An error ends the pass.
PurgeFails ==
    /\ faults < MaxFaults /\ faults' = faults + 1
    /\ proc[Purger].pc \notin {"idle", "forget"}
    /\ Stop(Purger)
    /\ UNCHANGED <<store, cache, mark, sweep, raced>>

SweepFails ==
    /\ faults < MaxFaults /\ faults' = faults + 1
    /\ sweep.pc # "idle"
    /\ sweep' = SweepIdle
    /\ UNCHANGED <<store, cache, lock, proc, mark, raced>>

\* The process dies: the store remains.
Crash ==
    /\ faults < MaxFaults /\ faults' = faults + 1
    /\ cache' = None /\ lock' = None /\ mark' = None
    /\ proc' = [x \in Proc |-> Idle]
    /\ sweep' = SweepIdle
    /\ UNCHANGED <<store, raced>>

Resolve(x) == Intern(x) \/ Remember(x) \/ Forget(x)

Act(q) == Push(q) \/ Blob(q) \/ Delete(q) \/ WriteNothing(q)

PurgeStep == PurgeStart \/ PurgeLock \/ RetireLookup \/ Retire \/ RetireApply
SweepStep == (\E i \in Id : SweepScan(i)) \/ SweepRefs \/ SweepFinish

Next ==
    \/ \E q \in Req, kind \in Kind \ {"retire"} : Begin(q, kind)
    \/ \E x \in Proc : Resolve(x)
    \/ \E q \in Req : Act(q)
    \/ \E i \in Id : Shrink(i)
    \/ PurgeStep \/ SweepStep
    \/ Evict \/ PurgeFails \/ SweepFails \/ Crash

Spec == Init /\ [][Next]_vars

----------------------------------------------------------------------------
(* Properties.                                                             *)

\* Every variable keeps its type.
TypeOK ==
    /\ name \in Id \cup {None} /\ next \in 0..MaxId /\ cache \in Id \cup {None}
    /\ dead \subseteq Id /\ raced \subseteq Id
    /\ content \in [Id -> SUBSET Item]
    /\ lock \in Proc \cup {None}
    /\ proc \in [Proc -> [pc : {"idle", "lookup", "intern", "remember", "act", "wait",
                                "unname", "forget"},
                          kind : Kind \cup {None}, id : Id \cup {None},
                          water : (0..MaxId) \cup {None}]]
    /\ mark \in (0..MaxId) \cup {None}
    /\ sweep \in [pc : {"idle", "refs", "finish"}, id : Id \cup {None}, seen : BOOLEAN]
    /\ faults \in 0..MaxFaults

\* "The id is never reused": whatever stragglers, sweeps and crashes there were,
\* a name that is interned again starts with nothing under its id and is not
\* about to be swept.
FreshStart ==
    [][name' \notin {name, None} =>
          name' \notin dead /\ content[name'] = {}]_vars

\* Records or edges under an id that neither the name nor a tombstone leads to.
\* Nothing ever reclaims them, and an edge pins its blob.
Stranded(i) == i # name /\ i \notin dead /\ content[i] \cap {"M", "R"} # {}

\* Deleting, sweeping and retiring leave nothing behind for ever, wherever they
\* crash, but what an operation wrote or unnamed on a resolution that a delete
\* or a retirement had overtaken.
StrandedOnlyByRace == \A i \in Id : Stranded(i) => i \in raced

Quiet == \A x \in Proc : proc[x].pc = "idle"

\* forget: never "a re-push of the same name resolves the old id out of the
\* LRU": when nothing runs, the cache agrees with the store.
CacheFollowsName == Quiet => cache \in {None, name}
=============================================================================
