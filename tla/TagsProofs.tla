----------------------------- MODULE TagsProofs -----------------------------
(***************************************************************************)
(* Proofs about Tags, for every set of manifests, tags, requests and       *)
(* passes, whatever the images list, and for every clock bound:            *)
(*   - the type invariant;                                                 *)
(* and, when no request loses its client,                                  *)
(*   - the tags, their reverse edges and the edges S and F agree with the  *)
(*     records in every reachable state;                                   *)
(*   - the untagged purge spares what its guards name;                     *)
(*   - the repository implements TagMap.                                   *)
(***************************************************************************)
EXTENDS Tags, TLAPS

----------------------------------------------------------------------------
(* Types.                                                                  *)

\* The times are naturals and None is not one of them.
LEMMA Times == Time \subseteq Nat /\ 0 \in Time /\ None \notin Time
BY BoundAssumption, NoneAssumption DEF Time

\* The control records.
ReqRecord == [pc : {"idle", "put", "apply"},
              man : Manifest \cup {None}, tags : SUBSET Tag, at : Time]
PassRecord == [pc : {"idle", "reap", "apply"}, todo : SUBSET Manifest,
               man : Manifest \cup {None}, at : Time]

\* The idle control states, and the empty batch, have their types.
LEMMA IdleTypes == ReqIdle \in ReqRecord /\ PassIdle \in PassRecord /\ NoBatch \in Batch
BY Times DEF ReqIdle, PassIdle, NoBatch, ReqRecord, PassRecord, Batch

\* A push names its manifest, and a batch that sets tags names what they are
\* set to.
Shape ==
    /\ \A q \in Req : req[q].pc = "put" => req[q].man \in Manifest
    /\ \A x \in Proc : batch[x].put = None => batch[x].set = {}

\* The referrer edges of a manifest are pairs of manifests.
LEMMA EdgesType ==
    ASSUME NEW m \in Manifest, NEW ts \in SUBSET Tag
    PROVE  Edges(m, ts) \subseteq Manifest \X Manifest
BY ImageAssumption DEF Edges

\* The three plans, field by field: each is a batch.
LEMMA PlanPutFields ==
    ASSUME TypeOK, NEW m \in Manifest, NEW ts \in SUBSET Tag, NEW at \in Time,
           NEW b, b = PlanPut(m, ts, at)
    PROVE  /\ b \in Batch
           /\ b.put = m /\ b.set = ts /\ b.drop = None /\ b.clear = {} /\ b.at = at
           /\ b.g = {<<tags[t], t>> : t \in Displaced(m, ts)}
           /\ b.f = {<<Artifact[t], tags[t]>> :
                        t \in {u \in Displaced(m, ts) : Artifact[u] # None}}
<1>. DEFINE g == {<<tags[t], t>> : t \in Displaced(m, ts)}
            f == {<<Artifact[t], tags[t]>> :
                     t \in {u \in Displaced(m, ts) : Artifact[u] # None}}
<1>1. \A t \in Displaced(m, ts) : t \in Tag /\ tags[t] \in Manifest
  BY DEF Displaced, TypeOK
<1>2. g \subseteq Manifest \X Tag
  BY <1>1
<1>3. f \subseteq Manifest \X Manifest
  BY <1>1, ImageAssumption
<1>4. b = [put |-> m, set |-> ts, drop |-> None, clear |-> {},
           g |-> g, s |-> {}, f |-> f, at |-> at]
  BY DEF PlanPut, NoBatch
<1>. HIDE DEF g, f
<1>5. /\ b \in Batch
      /\ b.put = m /\ b.set = ts /\ b.drop = None /\ b.clear = {} /\ b.at = at
      /\ b.g = g /\ b.f = f
  BY <1>2, <1>3, <1>4, Times DEF Batch
<1>. QED  BY <1>5 DEF g, f

LEMMA PlanDeleteTagFields ==
    ASSUME TypeOK, NEW t \in Tag, tags[t] # None,
           NEW b, b = PlanDeleteTag(t)
    PROVE  /\ b \in Batch
           /\ b.put = None /\ b.set = {} /\ b.drop = None /\ b.clear = {t}
           /\ b.g = {<<tags[t], t>>} /\ b.s = {}
           /\ b.f = IF Artifact[t] = None THEN {} ELSE {<<Artifact[t], tags[t]>>}
<1>. DEFINE g == {<<tags[t], t>>}
            f == IF Artifact[t] = None THEN {} ELSE {<<Artifact[t], tags[t]>>}
<1>1. g \subseteq Manifest \X Tag
  BY DEF TypeOK
<1>2. f \subseteq Manifest \X Manifest
  BY ImageAssumption DEF TypeOK
<1>3. b = [put |-> None, set |-> {}, drop |-> None, clear |-> {t},
           g |-> g, s |-> {}, f |-> f, at |-> 0]
  BY DEF PlanDeleteTag, NoBatch
<1>. HIDE DEF g, f
<1>4. /\ b \in Batch
      /\ b.put = None /\ b.set = {} /\ b.drop = None /\ b.clear = {t}
      /\ b.g = g /\ b.s = {} /\ b.f = f
  BY <1>1, <1>2, <1>3, Times DEF Batch
<1>. QED  BY <1>4 DEF g, f

\* The tags that the reverse edges give a manifest.
TagsOf(m) == {t \in Tag : <<m, t>> \in named}

LEMMA PlanDeleteManifestFields ==
    ASSUME TypeOK, NEW m \in Manifest,
           NEW b, b = PlanDeleteManifest(m)
    PROVE  /\ b \in Batch
           /\ b.put = None /\ b.set = {} /\ b.drop = m /\ b.clear = TagsOf(m)
           /\ b.g = {<<m, t>> : t \in TagsOf(m)}
           /\ b.s = {<<c, m>> : c \in Children[m]} \cup {e \in parents : e[1] = m}
           /\ b.f = Edges(m, TagsOf(m))
<1>. DEFINE g == {<<m, t>> : t \in TagsOf(m)}
            s == {<<c, m>> : c \in Children[m]} \cup {e \in parents : e[1] = m}
            f == Edges(m, TagsOf(m))
<1>1. TagsOf(m) \in SUBSET Tag
  BY DEF TagsOf
<1>6. g \subseteq Manifest \X Tag
  BY <1>1
<1>2. s \subseteq Manifest \X Manifest
  BY ImageAssumption DEF TypeOK
<1>3. f \subseteq Manifest \X Manifest
  BY <1>1, EdgesType
<1>4. b = [put |-> None, set |-> {}, drop |-> m, clear |-> TagsOf(m),
           g |-> g, s |-> s, f |-> f, at |-> 0]
  BY DEF PlanDeleteManifest, TagsOf, NoBatch
<1>. HIDE DEF g, s, f
<1>5. /\ b \in Batch
      /\ b.put = None /\ b.set = {} /\ b.drop = m /\ b.clear = TagsOf(m)
      /\ b.g = g /\ b.s = s /\ b.f = f
  BY <1>1, <1>2, <1>3, <1>4, <1>6, Times DEF Batch
<1>. QED  BY <1>5 DEF g, s, f

\* Each plan is a batch, and only a push sets tags.
LEMMA PlanTypes ==
    ASSUME TypeOK
    PROVE  /\ \A m \in Manifest, ts \in SUBSET Tag, at \in Time :
                 PlanPut(m, ts, at) \in Batch /\ PlanPut(m, ts, at).put = m
           /\ \A t \in Tag : tags[t] # None =>
                 PlanDeleteTag(t) \in Batch /\ PlanDeleteTag(t).set = {}
           /\ \A m \in Manifest :
                 PlanDeleteManifest(m) \in Batch /\ PlanDeleteManifest(m).set = {}
<1>1. \A m \in Manifest, ts \in SUBSET Tag, at \in Time :
         PlanPut(m, ts, at) \in Batch /\ PlanPut(m, ts, at).put = m
  BY PlanPutFields
<1>2. \A t \in Tag : tags[t] # None =>
         PlanDeleteTag(t) \in Batch /\ PlanDeleteTag(t).set = {}
  BY PlanDeleteTagFields
<1>3. \A m \in Manifest :
         PlanDeleteManifest(m) \in Batch /\ PlanDeleteManifest(m).set = {}
  BY PlanDeleteManifestFields
<1>. QED  BY <1>1, <1>2, <1>3

\* Writing a batch keeps the types of the store.
LEMMA WriteType ==
    ASSUME TypeOK, NEW b \in Batch, b.put = None => b.set = {}, Write(b)
    PROVE  /\ records' \in [Manifest -> Time \cup {None}]
           /\ tags' \in [Tag -> Manifest \cup {None}]
           /\ named' \subseteq Manifest \X Tag
           /\ parents' \subseteq Manifest \X Manifest
           /\ referrers' \subseteq Manifest \X Manifest
<1>. USE DEF TypeOK, Batch
<1>1. records' \in [Manifest -> Time \cup {None}]
  BY DEF Write
<1>2. tags' \in [Tag -> Manifest \cup {None}]
  BY DEF Write
<1>3. named' \subseteq Manifest \X Tag
  BY DEF Write
<1>4. CASE b.put = None
  BY <1>1, <1>2, <1>3, <1>4 DEF Write
<1>5. CASE b.put # None
  <2>1. b.put \in Manifest
    BY <1>5
  <2>2. Edges(b.put, b.set) \subseteq Manifest \X Manifest
    BY <2>1, EdgesType
  <2>3. parents' \subseteq Manifest \X Manifest
    BY <1>5, <2>1, ImageAssumption DEF Write
  <2>4. referrers' \subseteq Manifest \X Manifest
    BY <1>5, <2>1, <2>2 DEF Write
  <2>. QED  BY <1>1, <1>2, <1>3, <2>3, <2>4
<1>. QED  BY <1>4, <1>5

\* Planning keeps the lock and the batches typed; unlocking, the lock.
LEMMA PlanType ==
    ASSUME TypeOK, Shape, NEW x \in Proc, NEW b \in Batch,
           b.put = None => b.set = {}, Plan(x, b)
    PROVE  /\ lock' \in Proc \cup {None} /\ batch' \in [Proc -> Batch]
           /\ \A y \in Proc : batch'[y].put = None => batch'[y].set = {}
BY DEF TypeOK, Shape, Plan

LEMMA UnlockType ==
    ASSUME TypeOK, NEW x, Unlock(x) PROVE lock' \in Proc \cup {None}
BY DEF TypeOK, Unlock

\* Dropping a process's plan keeps the batches typed.
LEMMA DropType ==
    ASSUME TypeOK, Shape, NEW x, batch' = [batch EXCEPT ![x] = NoBatch]
    PROVE  /\ batch' \in [Proc -> Batch]
           /\ \A y \in Proc : batch'[y].put = None => batch'[y].set = {}
<1>1. NoBatch.set = {}
  BY DEF NoBatch
<1>. QED  BY <1>1, IdleTypes DEF TypeOK, Shape

\* Every step of a request keeps the types and the shape.
LEMMA ReqStepType ==
    ASSUME TypeOK, Shape, NEW q \in Req, ReqNext(q) PROVE TypeOK' /\ Shape'
<1>. USE DEF TypeOK, meta
<1>0. req[q] \in ReqRecord /\ q \in Proc /\ ReqIdle.pc = "idle"
  BY DEF ReqRecord, Proc, ReqIdle
<1>1. ASSUME NEW m \in Manifest, NEW ts \in SUBSET Tag, PutBegin(q, m, ts)
      PROVE  TypeOK' /\ Shape'
  BY <1>1 DEF PutBegin, Shape
<1>2. ASSUME NEW t \in Tag, DeleteTag(q, t) PROVE TypeOK' /\ Shape'
  <2>1. PlanDeleteTag(t) \in Batch /\ PlanDeleteTag(t).set = {}
    BY <1>2, PlanTypes DEF DeleteTag
  <2>2. /\ lock' \in Proc \cup {None} /\ batch' \in [Proc -> Batch]
        /\ \A y \in Proc : batch'[y].put = None => batch'[y].set = {}
    BY <1>0, <1>2, <2>1, PlanType DEF DeleteTag
  <2>. QED  BY <1>2, <2>2 DEF DeleteTag, Shape
<1>3. ASSUME NEW m \in Manifest, DeleteManifest(q, m) PROVE TypeOK' /\ Shape'
  <2>1. PlanDeleteManifest(m) \in Batch /\ PlanDeleteManifest(m).set = {}
    BY PlanTypes
  <2>2. /\ lock' \in Proc \cup {None} /\ batch' \in [Proc -> Batch]
        /\ \A y \in Proc : batch'[y].put = None => batch'[y].set = {}
    BY <1>0, <1>3, <2>1, PlanType DEF DeleteManifest
  <2>. QED  BY <1>3, <2>2 DEF DeleteManifest, Shape
<1>4. CASE PutPlan(q)
  <2>. DEFINE x == req[q]
              z == [ReqIdle EXCEPT !.pc = "apply"]
  <2>1. x.man \in Manifest /\ x.tags \in SUBSET Tag /\ x.at \in Time
    BY <1>0, <1>4 DEF PutPlan, Shape, ReqRecord
  <2>2. z \in ReqRecord /\ z.pc = "apply"
    BY IdleTypes DEF ReqRecord, ReqIdle
  <2>. DEFINE b == PlanPut(x.man, x.tags, x.at)
  <2>3. b \in Batch /\ b.put # None
    BY <2>1, PlanTypes, NoneAssumption
  <2>. HIDE DEF z
  <2>4. /\ lock' \in Proc \cup {None} /\ batch' \in [Proc -> Batch]
        /\ \A y \in Proc : batch'[y].put = None => batch'[y].set = {}
    BY <1>0, <1>4, <2>3, PlanType DEF PutPlan, Shape
  <2>5. req' = [req EXCEPT ![q] = ReqIdle] \/ req' = [req EXCEPT ![q] = z]
    BY <1>4 DEF PutPlan, z
  <2>6. req' \in [Req -> ReqRecord]
    BY <2>2, <2>5, IdleTypes DEF ReqRecord
  <2>7. TypeOK'
    BY <1>4, <2>4, <2>6 DEF PutPlan, ReqRecord
  <2>. QED  BY <1>0, <2>2, <2>4, <2>5, <2>7 DEF Shape
<1>5. CASE Apply(q)
  <2>1. batch[q] \in Batch /\ (batch[q].put = None => batch[q].set = {})
    BY <1>0 DEF Shape
  <2>2. Write(batch[q])
    BY <1>5 DEF Apply
  <2>. QED  BY <1>0, <1>5, <2>1, <2>2, WriteType, DropType, UnlockType, IdleTypes
            DEF Apply, Shape, ReqRecord
<1>6. CASE ReqFails(q)
  <2>1. faults' \in 0..MaxFaults
    BY <1>6, BoundAssumption DEF ReqFails
  <2>. QED  BY <1>0, <1>6, <2>1, DropType, UnlockType, IdleTypes
            DEF ReqFails, Shape, ReqRecord
<1>7. CASE Disconnect(q)
  BY <1>0, <1>7, UnlockType, IdleTypes DEF Disconnect, Shape, ReqRecord
<1>. QED  BY <1>1, <1>2, <1>3, <1>4, <1>5, <1>6, <1>7 DEF ReqNext

\* Every step of a pass keeps the types and the shape.
LEMMA PassStepType ==
    ASSUME TypeOK, Shape, NEW p \in Pass, PassNext(p) PROVE TypeOK' /\ Shape'
<1>. USE DEF TypeOK, meta
<1>0. pass[p] \in PassRecord /\ p \in Proc
  BY DEF PassRecord, Proc
<1>1. CASE PassScan(p)
  <2>. DEFINE x == [PassIdle EXCEPT !.pc = "reap", !.at = clock,
                        !.todo = {m \in Manifest : Purgeable(m, clock)}]
  <2>1. x \in PassRecord
    BY IdleTypes DEF PassRecord
  <2>. HIDE DEF x
  <2>2. pass' = [pass EXCEPT ![p] = x]
    BY <1>1 DEF PassScan, x
  <2>. QED  BY <1>1, <2>1, <2>2, ZenonT(40) DEF PassScan, Shape, PassRecord
<1>2. ASSUME NEW m \in Manifest, PurgePlan(p, m) PROVE TypeOK' /\ Shape'
  <2>1. PlanDeleteManifest(m) \in Batch /\ PlanDeleteManifest(m).set = {}
    BY PlanTypes
  <2>2. /\ lock' \in Proc \cup {None} /\ batch' \in [Proc -> Batch]
        /\ \A y \in Proc : batch'[y].put = None => batch'[y].set = {}
    BY <1>0, <1>2, <2>1, PlanType DEF PurgePlan, Shape
  <2>3. pass' \in [Pass -> PassRecord]
    BY <1>0, <1>2, SMTT(20) DEF PurgePlan, PassRecord
  <2>. QED  BY <1>2, <2>2, <2>3 DEF PurgePlan, Shape, PassRecord
<1>3. CASE PurgeApply(p)
  <2>1. batch[p] \in Batch /\ (batch[p].put = None => batch[p].set = {})
    BY <1>0 DEF Shape
  <2>2. Write(batch[p])
    BY <1>3 DEF PurgeApply
  <2>. QED  BY <1>0, <1>3, <2>1, <2>2, WriteType, DropType, UnlockType
            DEF PurgeApply, Shape, PassRecord
<1>4. CASE PassEnd(p)
  BY <1>4, IdleTypes DEF PassEnd, Shape, PassRecord
<1>5. CASE PassFails(p)
  <2>1. faults' \in 0..MaxFaults
    BY <1>5, BoundAssumption DEF PassFails
  <2>. QED  BY <1>5, <2>1, DropType, UnlockType, IdleTypes
            DEF PassFails, Shape, PassRecord
<1>. QED  BY <1>1, <1>2, <1>3, <1>4, <1>5 DEF PassNext

\* Every step keeps the types and the shape.
LEMMA StepType == ASSUME TypeOK, Shape, [Next]_vars PROVE TypeOK' /\ Shape'
<1>1. ASSUME NEW q \in Req, ReqNext(q) PROVE TypeOK' /\ Shape'
  BY <1>1, ReqStepType
<1>2. ASSUME NEW p \in Pass, PassNext(p) PROVE TypeOK' /\ Shape'
  BY <1>2, PassStepType
<1>3. CASE Tick
  <2>1. clock' \in Time
    BY <1>3, BoundAssumption DEF Tick, Time, TypeOK
  <2>. QED  BY <1>3, <2>1 DEF Tick, TypeOK, Shape, meta
<1>4. CASE Crash
  <2>1. faults' \in 0..MaxFaults
    BY <1>4, BoundAssumption DEF Crash, TypeOK
  <2>2. NoBatch.set = {} /\ ReqIdle.pc = "idle"
    BY DEF NoBatch, ReqIdle
  <2>. QED  BY <1>4, <2>1, <2>2, IdleTypes
            DEF Crash, TypeOK, Shape, meta, ReqRecord, PassRecord
<1>5. CASE UNCHANGED vars
  BY <1>5 DEF vars, meta, TypeOK, Shape
<1>. QED  BY <1>1, <1>2, <1>3, <1>4, <1>5 DEF Next

\* The empty repository has the types.
LEMMA InitType == Init => TypeOK /\ Shape
<1>. SUFFICES ASSUME Init PROVE TypeOK /\ Shape
  OBVIOUS
<1>1. NoBatch.set = {} /\ ReqIdle.pc = "idle"
  BY DEF NoBatch, ReqIdle
<1>2. TypeOK
  BY Times, IdleTypes, BoundAssumption DEF Init, TypeOK, ReqRecord, PassRecord
<1>. QED  BY <1>1, <1>2 DEF Init, Shape

\* Every variable keeps its type, whatever the images, the faults and the lost
\* clients: a plan never names what the store's keys cannot hold.
THEOREM TypeCorrect == Spec => []TypeOK
<1>1. TypeOK /\ Shape /\ [Next]_vars => (TypeOK /\ Shape)'
  BY StepType
<1>. QED  BY <1>1, InitType, PTL DEF Spec

----------------------------------------------------------------------------
(* The inductive invariant, when no request loses its client.              *)

\* Every edge has a source: an S edge the list of an index, an F edge the
\* subject of its referrer or a cosign tag that points at it.  Without this a
\* delete could not be known to retract all the edges of its manifest.
EdgesSourced ==
    /\ \A e \in parents : e[1] \in Children[e[2]]
    /\ \A e \in referrers :
          \/ e[1] = Subject[e[2]]
          \/ \E t \in Tag : Artifact[t] = e[1] /\ tags[t] = e[2]

\* What the store is between two batches.
StoreOK == TagEdgesAgree /\ TagsResolve /\ NoDanglingEdges /\ EdgesSourced

\* A batch that was planned from the store as it is now.
Fresh(b) ==
    \/ \E m \in Manifest, ts \in SUBSET Tag, at \in Time : b = PlanPut(m, ts, at)
    \/ \E t \in Tag : tags[t] # None /\ b = PlanDeleteTag(t)
    \/ \E m \in Stored : b = PlanDeleteManifest(m)

\* Who is about to apply holds the lock, and its batch is fresh: nobody has
\* written since it was planned.
ReqOK(q) == req[q].pc = "apply" => lock = q /\ Fresh(batch[q])

\* A pass moreover has found every guard of its manifest down.
PassOK(p) ==
    pass[p].pc = "apply" =>
       /\ lock = p
       /\ pass[p].man \in Manifest /\ Purgeable(pass[p].man, pass[p].at)
       /\ batch[p] = PlanDeleteManifest(pass[p].man)

IInv ==
    /\ TypeOK /\ Shape /\ StoreOK
    /\ \A q \in Req : ReqOK(q)
    /\ \A p \in Pass : PassOK(p)

----------------------------------------------------------------------------
(* What each batch does to the store.                                      *)

\* A push: the record, the tags with their edges moved, and the image's edges.
LEMMA WritePut ==
    ASSUME TypeOK, NEW m \in Manifest, NEW ts \in SUBSET Tag, NEW at \in Time,
           Write(PlanPut(m, ts, at))
    PROVE  /\ records' = [records EXCEPT ![m] = at]
           /\ tags' = [t \in Tag |-> IF t \in ts THEN m ELSE tags[t]]
           /\ named' = (named \ {<<tags[t], t>> : t \in Displaced(m, ts)})
                          \cup {<<m, t>> : t \in ts}
           /\ parents' = parents \cup {<<c, m>> : c \in Children[m]}
           /\ referrers' = (referrers \ {<<Artifact[t], tags[t]>> :
                               t \in {u \in Displaced(m, ts) : Artifact[u] # None}})
                              \cup Edges(m, ts)
<1>. DEFINE g == {<<tags[t], t>> : t \in Displaced(m, ts)}
            f == {<<Artifact[t], tags[t]>> :
                     t \in {u \in Displaced(m, ts) : Artifact[u] # None}}
<1>1. PICK b : b = PlanPut(m, ts, at)
  OBVIOUS
<1>2. /\ b.put = m /\ b.set = ts /\ b.drop = None /\ b.clear = {} /\ b.at = at
      /\ b.g = g /\ b.f = f
  BY <1>1, PlanPutFields
<1>3. Write(b)
  BY <1>1
<1>. HIDE DEF g, f
<1>4. m # None /\ \A n \in Manifest : n # None
  BY NoneAssumption
<1>5. records' = [records EXCEPT ![m] = at]
  BY <1>2, <1>3, <1>4, ZenonT(40) DEF Write, TypeOK
<1>6. tags' = [t \in Tag |-> IF t \in ts THEN m ELSE tags[t]]
  BY <1>2, <1>3 DEF Write, TypeOK
<1>7. /\ named' = (named \ g) \cup {<<m, t>> : t \in ts}
      /\ parents' = parents \cup {<<c, m>> : c \in Children[m]}
      /\ referrers' = (referrers \ f) \cup Edges(m, ts)
  BY <1>2, <1>3, <1>4 DEF Write
<1>. QED  BY <1>5, <1>6, <1>7 DEF g, f

\* A delete by tag: the tag, and its two edges.
LEMMA WriteDeleteTag ==
    ASSUME TypeOK, NEW t \in Tag, tags[t] # None, Write(PlanDeleteTag(t))
    PROVE  /\ records' = records /\ parents' = parents
           /\ tags' = [tags EXCEPT ![t] = None]
           /\ named' = named \ {<<tags[t], t>>}
           /\ referrers' = referrers \ (IF Artifact[t] = None THEN {}
                                        ELSE {<<Artifact[t], tags[t]>>})
<1>. DEFINE f == IF Artifact[t] = None THEN {} ELSE {<<Artifact[t], tags[t]>>}
<1>1. PICK b : b = PlanDeleteTag(t)
  OBVIOUS
<1>2. /\ b.put = None /\ b.set = {} /\ b.drop = None /\ b.clear = {t}
      /\ b.g = {<<tags[t], t>>} /\ b.s = {} /\ b.f = f
  BY <1>1, PlanDeleteTagFields
<1>3. Write(b)
  BY <1>1
<1>. HIDE DEF f
<1>4. \A n \in Manifest : n # None
  BY NoneAssumption
<1>5. records' = records
  BY <1>2, <1>3, <1>4 DEF Write, TypeOK
<1>6. tags' = [tags EXCEPT ![t] = None]
  BY <1>2, <1>3 DEF Write, TypeOK
<1>7. named' = named \ {<<tags[t], t>>} /\ parents' = parents /\ referrers' = referrers \ f
  BY <1>2, <1>3 DEF Write
<1>. QED  BY <1>5, <1>6, <1>7 DEF f

\* A delete by digest: the record, the tags G names, and every edge of the
\* manifest.
LEMMA WriteDeleteManifest ==
    ASSUME TypeOK, NEW m \in Manifest, Write(PlanDeleteManifest(m))
    PROVE  /\ records' = [records EXCEPT ![m] = None]
           /\ tags' = [t \in Tag |-> IF t \in TagsOf(m) THEN None ELSE tags[t]]
           /\ named' = named \ {<<m, t>> : t \in TagsOf(m)}
           /\ parents' = parents \ ({<<c, m>> : c \in Children[m]}
                                       \cup {e \in parents : e[1] = m})
           /\ referrers' = referrers \ Edges(m, TagsOf(m))
<1>. DEFINE g == {<<m, t>> : t \in TagsOf(m)}
            s == {<<c, m>> : c \in Children[m]} \cup {e \in parents : e[1] = m}
<1>1. PICK b : b = PlanDeleteManifest(m)
  OBVIOUS
<1>2. /\ b.put = None /\ b.set = {} /\ b.drop = m /\ b.clear = TagsOf(m)
      /\ b.g = g /\ b.s = s /\ b.f = Edges(m, TagsOf(m))
  BY <1>1, PlanDeleteManifestFields
<1>3. Write(b)
  BY <1>1
<1>. HIDE DEF g, s
<1>4. \A n \in Manifest : n # None
  BY NoneAssumption
<1>5. records' = [records EXCEPT ![m] = None]
  BY <1>2, <1>3, <1>4, ZenonT(40) DEF Write, TypeOK
<1>6. tags' = [t \in Tag |-> IF t \in TagsOf(m) THEN None ELSE tags[t]]
  BY <1>2, <1>3 DEF Write, TypeOK
<1>7. /\ named' = named \ g /\ parents' = parents \ s
      /\ referrers' = referrers \ Edges(m, TagsOf(m))
  BY <1>2, <1>3 DEF Write
<1>. QED  BY <1>5, <1>6, <1>7 DEF g, s

----------------------------------------------------------------------------
(* Each fresh batch takes one good store to another, by a step of TagMap.  *)

LEMMA PutSafe ==
    ASSUME TypeOK, StoreOK, NEW m \in Manifest, NEW ts \in SUBSET Tag, NEW at \in Time,
           Write(PlanPut(m, ts, at))
    PROVE  StoreOK' /\ Map!Push(m, ts)
<1>. USE DEF StoreOK
<1>w. /\ records' = [records EXCEPT ![m] = at]
      /\ tags' = [t \in Tag |-> IF t \in ts THEN m ELSE tags[t]]
      /\ named' = (named \ {<<tags[t], t>> : t \in Displaced(m, ts)})
                     \cup {<<m, t>> : t \in ts}
      /\ parents' = parents \cup {<<c, m>> : c \in Children[m]}
      /\ referrers' = (referrers \ {<<Artifact[t], tags[t]>> :
                          t \in {u \in Displaced(m, ts) : Artifact[u] # None}})
                         \cup Edges(m, ts)
  BY WritePut
<1>n. m # None /\ at # None
  BY NoneAssumption, Times
<1>1. Stored' = Stored \cup {m}
  BY <1>w, <1>n DEF TypeOK, Stored
<1>2. TagEdgesAgree'
  <2>. SUFFICES ASSUME NEW t \in Tag, NEW n \in Manifest
                PROVE  <<n, t>> \in named' <=> tags'[t] = n
    BY DEF TagEdgesAgree
  <2>1. <<n, t>> \in named <=> tags[t] = n
    BY DEF TagEdgesAgree
  <2>2. CASE t \in ts
    <3>1. <<n, t>> \in {<<m, u>> : u \in ts} <=> n = m
      BY <2>2
    <3>2. n # m /\ tags[t] = n => t \in Displaced(m, ts)
      BY <2>2, NoneAssumption DEF Displaced
    <3>. QED  BY <1>w, <2>1, <2>2, <3>1, <3>2
  <2>3. CASE t \notin ts
    <3>1. <<n, t>> \notin {<<m, u>> : u \in ts}
      BY <2>3
    <3>2. <<n, t>> \notin {<<tags[u], u>> : u \in Displaced(m, ts)}
      BY <2>3 DEF Displaced
    <3>. QED  BY <1>w, <2>1, <2>3, <3>1, <3>2
  <2>. QED  BY <2>2, <2>3
<1>3. TagsResolve'
  BY <1>w, <1>1 DEF TagsResolve
<1>4. \A e \in Edges(m, ts) :
         /\ e[2] = m
         /\ e[1] = Subject[m] \/ \E t \in ts : Artifact[t] = e[1]
  BY DEF Edges
<1>5. NoDanglingEdges'
  BY <1>w, <1>1, <1>4 DEF NoDanglingEdges
<1>6. \A e \in parents' : e[1] \in Children[e[2]]
  BY <1>w DEF EdgesSourced
<1>7. ASSUME NEW e \in referrers'
      PROVE  e[1] = Subject[e[2]] \/ \E t \in Tag : Artifact[t] = e[1] /\ tags'[t] = e[2]
  <2>1. CASE e \in Edges(m, ts)
    BY <1>w, <1>4, <2>1
  <2>2. CASE e \notin Edges(m, ts)
    <3>1. e \in referrers /\ e \in Manifest \X Manifest
      BY <1>w, <2>2 DEF TypeOK
    <3>2. CASE e[1] = Subject[e[2]]
      BY <3>2
    <3>3. ASSUME NEW t \in Tag, Artifact[t] = e[1], tags[t] = e[2] PROVE tags'[t] = e[2]
      <4>. SUFFICES ASSUME t \in ts, tags[t] # m PROVE FALSE
        BY <1>w, <3>3
      <4>1. t \in {u \in Displaced(m, ts) : Artifact[u] # None}
        BY <3>1, <3>3, NoneAssumption DEF Displaced
      <4>2. e = <<Artifact[t], tags[t]>>
        BY <3>1, <3>3
      <4>. QED  BY <1>w, <2>2, <4>1, <4>2
    <3>. QED  BY <3>1, <3>2, <3>3 DEF EdgesSourced
  <2>. QED  BY <2>1, <2>2
<1>8. EdgesSourced'
  BY <1>6, <1>7 DEF EdgesSourced
<1>. QED  BY <1>w, <1>1, <1>2, <1>3, <1>5, <1>8 DEF Map!Push

LEMMA DeleteTagSafe ==
    ASSUME TypeOK, StoreOK, NEW t \in Tag, tags[t] # None, Write(PlanDeleteTag(t))
    PROVE  StoreOK' /\ Map!Untag(t)
<1>. USE DEF StoreOK
<1>w. /\ records' = records /\ parents' = parents
      /\ tags' = [tags EXCEPT ![t] = None]
      /\ named' = named \ {<<tags[t], t>>}
      /\ referrers' = referrers \ (IF Artifact[t] = None THEN {}
                                   ELSE {<<Artifact[t], tags[t]>>})
  BY WriteDeleteTag
<1>1. Stored' = Stored
  BY <1>w DEF Stored
<1>2. TagEdgesAgree'
  <2>. SUFFICES ASSUME NEW u \in Tag, NEW n \in Manifest
                PROVE  <<n, u>> \in named' <=> tags'[u] = n
    BY DEF TagEdgesAgree
  <2>1. (<<n, u>> \in named <=> tags[u] = n) /\ n # None
    BY NoneAssumption DEF TagEdgesAgree
  <2>2. <<n, u>> \in {<<tags[t], t>>} <=> u = t /\ n = tags[t]
    OBVIOUS
  <2>3. tags'[u] = IF u = t THEN None ELSE tags[u]
    BY <1>w DEF TypeOK
  <2>. QED  BY <1>w, <2>1, <2>2, <2>3
<1>3. TagsResolve'
  BY <1>w, <1>1 DEF TagsResolve, TypeOK
<1>4. NoDanglingEdges'
  BY <1>w, <1>1 DEF NoDanglingEdges
<1>5. ASSUME NEW e \in referrers'
      PROVE  e[1] = Subject[e[2]] \/ \E u \in Tag : Artifact[u] = e[1] /\ tags'[u] = e[2]
  <2>1. e \in referrers /\ e \in Manifest \X Manifest
    BY <1>w DEF TypeOK
  <2>2. ASSUME Artifact[t] = e[1], tags[t] = e[2] PROVE FALSE
    <3>1. e = <<Artifact[t], tags[t]>> /\ Artifact[t] # None
      BY <2>1, <2>2, NoneAssumption
    <3>. QED  BY <1>w, <3>1
  <2>. QED  BY <1>w, <2>1, <2>2 DEF EdgesSourced, TypeOK
<1>6. EdgesSourced'
  BY <1>w, <1>5 DEF EdgesSourced
<1>. QED  BY <1>w, <1>1, <1>2, <1>3, <1>4, <1>6 DEF Map!Untag

LEMMA DeleteManifestSafe ==
    ASSUME TypeOK, StoreOK, NEW m \in Stored, Write(PlanDeleteManifest(m))
    PROVE  StoreOK' /\ Map!Remove(m)
<1>. USE DEF StoreOK
<1>m. m \in Manifest /\ m # None
  BY NoneAssumption DEF Stored
<1>w. /\ records' = [records EXCEPT ![m] = None]
      /\ tags' = [t \in Tag |-> IF t \in TagsOf(m) THEN None ELSE tags[t]]
      /\ named' = named \ {<<m, t>> : t \in TagsOf(m)}
      /\ parents' = parents \ ({<<c, m>> : c \in Children[m]}
                                  \cup {e \in parents : e[1] = m})
      /\ referrers' = referrers \ Edges(m, TagsOf(m))
  BY <1>m, WriteDeleteManifest
<1>t. \A t \in Tag : t \in TagsOf(m) <=> tags[t] = m
  BY <1>m DEF TagsOf, TagEdgesAgree
<1>1. Stored' = Stored \ {m}
  BY <1>w, <1>m DEF TypeOK, Stored
<1>2. TagEdgesAgree'
  <2>. SUFFICES ASSUME NEW t \in Tag, NEW n \in Manifest
                PROVE  <<n, t>> \in named' <=> tags'[t] = n
    BY DEF TagEdgesAgree
  <2>1. (<<n, t>> \in named <=> tags[t] = n) /\ n # None
    BY NoneAssumption DEF TagEdgesAgree
  <2>2. <<n, t>> \in {<<m, u>> : u \in TagsOf(m)} <=> n = m /\ tags[t] = m
    BY <1>t
  <2>. QED  BY <1>w, <1>t, <2>1, <2>2
<1>3. TagsResolve'
  BY <1>w, <1>t, <1>1 DEF TagsResolve
<1>4. \A e \in parents' : e[2] # m
  <2>. SUFFICES ASSUME NEW e \in parents, e[2] = m PROVE e \notin parents'
    BY <1>w
  <2>1. e[1] \in Children[m] /\ e = <<e[1], m>>
    BY DEF EdgesSourced, TypeOK
  <2>. QED  BY <1>w, <2>1
<1>5. \A e \in referrers' : e[2] # m
  <2>. SUFFICES ASSUME NEW e \in referrers, e[2] = m PROVE e \in Edges(m, TagsOf(m))
    BY <1>w
  <2>1. e = <<e[1], m>> /\ e[1] # None
    BY NoneAssumption DEF TypeOK
  <2>2. e[1] = Subject[m] \/ \E t \in TagsOf(m) : Artifact[t] = e[1]
    BY <1>t DEF EdgesSourced
  <2>. QED  BY <2>1, <2>2 DEF Edges
<1>6. NoDanglingEdges'
  BY <1>w, <1>1, <1>4, <1>5 DEF NoDanglingEdges
<1>7. EdgesSourced'
  BY <1>w, <1>t, <1>4, <1>5 DEF EdgesSourced
<1>8. Map!Remove(m)
  BY <1>w, <1>t, <1>1 DEF Map!Remove
<1>. QED  BY <1>2, <1>3, <1>6, <1>7, <1>8

\* Whoever applies a fresh batch leaves a good store, by a step of TagMap.
LEMMA FreshSafe ==
    ASSUME TypeOK, StoreOK, NEW b, Fresh(b), Write(b)
    PROVE  StoreOK' /\ Map!Next
<1>1. ASSUME NEW m \in Manifest, NEW ts \in SUBSET Tag, NEW at \in Time,
             b = PlanPut(m, ts, at)
      PROVE  StoreOK' /\ Map!Next
  <2>1. StoreOK' /\ Map!Push(m, ts)
    BY <1>1, PutSafe
  <2>. QED  BY <2>1 DEF Map!Next
<1>2. ASSUME NEW t \in Tag, tags[t] # None, b = PlanDeleteTag(t)
      PROVE  StoreOK' /\ Map!Next
  <2>1. StoreOK' /\ Map!Untag(t)
    BY <1>2, DeleteTagSafe
  <2>. QED  BY <2>1 DEF Map!Next
<1>3. ASSUME NEW m \in Stored, b = PlanDeleteManifest(m)
      PROVE  StoreOK' /\ Map!Next
  <2>1. StoreOK' /\ Map!Remove(m) /\ m \in Manifest
    BY <1>3, DeleteManifestSafe DEF Stored
  <2>. QED  BY <2>1 DEF Map!Next
<1>. QED  BY <1>1, <1>2, <1>3 DEF Fresh

----------------------------------------------------------------------------
(* The steps.                                                              *)

\* A step that writes nothing keeps the store, the freshness of every batch
\* and what a pass found.
LEMMA Quiet ==
    ASSUME StoreOK, UNCHANGED meta
    PROVE  /\ StoreOK' /\ Stored' = Stored
           /\ \A b : Fresh(b) => Fresh(b)'
           /\ \A m, at : Purgeable(m, at) => Purgeable(m, at)'
           /\ \A m : PlanDeleteManifest(m)' = PlanDeleteManifest(m)
<1>. USE DEF meta
<1>1. Stored' = Stored
  BY DEF Stored
<1>2. StoreOK'
  BY <1>1 DEF StoreOK, TagEdgesAgree, TagsResolve, NoDanglingEdges, EdgesSourced
<1>3. \A m : PlanDeleteManifest(m)' = PlanDeleteManifest(m)
  BY DEF PlanDeleteManifest
<1>4. \A m, ts, at : PlanPut(m, ts, at)' = PlanPut(m, ts, at)
  BY DEF PlanPut, Displaced
<1>5. \A t : PlanDeleteTag(t)' = PlanDeleteTag(t)
  BY DEF PlanDeleteTag
<1>6. \A b : Fresh(b) => Fresh(b)'
  BY <1>1, <1>3, <1>4, <1>5 DEF Fresh
<1>7. \A m, at : Purgeable(m, at) => Purgeable(m, at)'
  BY <1>1 DEF Purgeable
<1>. QED  BY <1>1, <1>2, <1>3, <1>6, <1>7

\* A process that a quiet step leaves alone, lock included, stays as it was.
LEMMA ReqKept ==
    ASSUME StoreOK, UNCHANGED meta, NEW q \in Req, ReqOK(q), req'[q] = req[q],
           batch'[q] = batch[q], lock = q => lock' = q
    PROVE  ReqOK(q)'
<1>1. \A b : Fresh(b) => Fresh(b)'
  BY Quiet
<1>. QED  BY <1>1 DEF ReqOK

LEMMA PassKept ==
    ASSUME StoreOK, UNCHANGED meta, NEW p \in Pass, PassOK(p), pass'[p] = pass[p],
           batch'[p] = batch[p], lock = p => lock' = p
    PROVE  PassOK(p)'
<1>1. /\ \A m, at : Purgeable(m, at) => Purgeable(m, at)'
      /\ \A m : PlanDeleteManifest(m)' = PlanDeleteManifest(m)
  BY Quiet
<1>. QED  BY <1>1 DEF PassOK

\* A process that is not about to apply has nothing to show.
LEMMA NotApplying ==
    /\ \A q \in Req : req'[q].pc # "apply" => ReqOK(q)'
    /\ \A p \in Pass : pass'[p].pc # "apply" => PassOK(p)'
BY DEF ReqOK, PassOK

\* Only the holder of the lock is about to apply.
LEMMA OneApplies ==
    ASSUME IInv
    PROVE  /\ \A q \in Req : req[q].pc = "apply" => lock = q
           /\ \A p \in Pass : pass[p].pc = "apply" => lock = p
           /\ \A q \in Req, p \in Pass : q # p
           /\ \A x \in Proc : x # None
BY ProcAssumption, NoneAssumption DEF IInv, ReqOK, PassOK

\* Every step of a request keeps the store and the plans.
LEMMA ReqStepSafe ==
    ASSUME ~Disconnects, IInv, NEW q \in Req, ReqNext(q) PROVE IInv'
<1>t. TypeOK' /\ Shape'
  BY ReqStepType DEF IInv
<1>. SUFFICES StoreOK' /\ (\A r \in Req : ReqOK(r)') /\ (\A p \in Pass : PassOK(p)')
  BY <1>t DEF IInv
<1>. USE DEF IInv
<1>0. /\ q \in Proc /\ req \in [Req -> ReqRecord] /\ batch \in [Proc -> Batch]
      /\ \A r \in Req : r \in Proc
      /\ \A p \in Pass : p \in Proc /\ p # q
      /\ ReqIdle.pc = "idle"
  BY OneApplies DEF TypeOK, ReqRecord, Proc, ReqIdle
<1>1. ASSUME NEW m \in Manifest, NEW ts \in SUBSET Tag, PutBegin(q, m, ts)
      PROVE  StoreOK' /\ (\A r \in Req : ReqOK(r)') /\ (\A p \in Pass : PassOK(p)')
  <2>1. UNCHANGED meta /\ lock' = lock /\ batch' = batch /\ pass' = pass
    BY <1>1 DEF PutBegin
  <2>2. req'[q].pc = "put" /\ \A r \in Req : r # q => req'[r] = req[r]
    BY <1>0, <1>1 DEF PutBegin
  <2>. QED  BY <2>1, <2>2, Quiet, ReqKept, PassKept, NotApplying
\* A plan is fresh, and nobody else had one.
<1>2. ASSUME NEW b, Plan(q, b), Fresh(b), UNCHANGED <<meta, pass>>,
             NEW z, req' = [req EXCEPT ![q] = z]
      PROVE  StoreOK' /\ (\A r \in Req : ReqOK(r)') /\ (\A p \in Pass : PassOK(p)')
  <2>1. lock = None /\ lock' = q /\ batch'[q] = b
    BY <1>0, <1>2 DEF Plan
  <2>2. \A r \in Req : r # q => req'[r] = req[r]
    BY <1>0, <1>2
  <2>3. /\ \A r \in Req : req[r].pc # "apply"
        /\ \A p \in Pass : pass[p].pc # "apply"
    BY <1>0, <2>1, OneApplies
  <2>4. \A r \in Req : r # q => ReqOK(r)'
    BY <2>2, <2>3, NotApplying
  <2>5. \A p \in Pass : PassOK(p)'
    BY <1>2, <2>3, NotApplying
  <2>6. StoreOK' /\ Fresh(b)'
    BY <1>2, Quiet
  <2>7. ReqOK(q)'
    BY <2>1, <2>6 DEF ReqOK
  <2>. QED  BY <2>4, <2>5, <2>6, <2>7
<1>3. ASSUME NEW t \in Tag, DeleteTag(q, t)
      PROVE  StoreOK' /\ (\A r \in Req : ReqOK(r)') /\ (\A p \in Pass : PassOK(p)')
  <2>1. Plan(q, PlanDeleteTag(t)) /\ UNCHANGED <<meta, pass>> /\ tags[t] # None
    BY <1>3 DEF DeleteTag
  <2>2. Fresh(PlanDeleteTag(t))
    BY <2>1 DEF Fresh
  <2>3. PICK z : req' = [req EXCEPT ![q] = z]
    BY <1>3 DEF DeleteTag
  <2>. QED  BY <1>2, <2>1, <2>2, <2>3
<1>4. ASSUME NEW m \in Manifest, DeleteManifest(q, m)
      PROVE  StoreOK' /\ (\A r \in Req : ReqOK(r)') /\ (\A p \in Pass : PassOK(p)')
  <2>1. Plan(q, PlanDeleteManifest(m)) /\ UNCHANGED <<meta, pass>> /\ m \in Stored
    BY <1>4 DEF DeleteManifest
  <2>2. Fresh(PlanDeleteManifest(m))
    BY <2>1 DEF Fresh
  <2>3. PICK z : req' = [req EXCEPT ![q] = z]
    BY <1>4 DEF DeleteManifest
  <2>. QED  BY <1>2, <2>1, <2>2, <2>3
<1>5. CASE PutPlan(q)
  <2>. DEFINE x == req[q]
              b == PlanPut(x.man, x.tags, x.at)
  <2>1. x.man \in Manifest /\ x.tags \in SUBSET Tag /\ x.at \in Time
    BY <1>0, <1>5 DEF PutPlan, Shape, ReqRecord
  <2>2. Fresh(b)
    BY <2>1 DEF Fresh
  <2>. HIDE DEF b
  <2>3. CASE Plan(q, b) /\ req' = [req EXCEPT ![q] = [ReqIdle EXCEPT !.pc = "apply"]]
    BY <1>2, <1>5, <2>2, <2>3 DEF PutPlan
  <2>4. CASE req' = [req EXCEPT ![q] = ReqIdle] /\ UNCHANGED <<lock, batch>>
    <3>1. UNCHANGED meta /\ lock' = lock /\ batch' = batch /\ pass' = pass
      BY <1>5, <2>4 DEF PutPlan
    <3>2. req'[q].pc = "idle" /\ \A r \in Req : r # q => req'[r] = req[r]
      BY <1>0, <2>4
    <3>. QED  BY <3>1, <3>2, Quiet, ReqKept, PassKept, NotApplying
  <2>. QED  BY <1>5, <2>3, <2>4 DEF PutPlan, b
<1>6. CASE Apply(q)
  <2>1. lock = q /\ Fresh(batch[q]) /\ Write(batch[q])
    BY <1>6 DEF Apply, ReqOK
  <2>2. StoreOK'
    BY <2>1, FreshSafe
  <2>3. req'[q].pc = "idle" /\ \A r \in Req : r # q => req'[r] = req[r]
    BY <1>0, <1>6 DEF Apply
  <2>4. \A r \in Req : ReqOK(r)'
    BY <2>1, <2>3, OneApplies, NotApplying
  <2>5. \A p \in Pass : PassOK(p)'
    BY <1>0, <1>6, <2>1, OneApplies, NotApplying DEF Apply
  <2>. QED  BY <2>2, <2>4, <2>5
<1>7. CASE ReqFails(q)
  <2>1. UNCHANGED meta /\ pass' = pass
    BY <1>7 DEF ReqFails
  <2>2. req'[q].pc = "idle" /\ \A r \in Req : r # q => req'[r] = req[r]
    BY <1>0, <1>7 DEF ReqFails
  <2>3. \A y \in Proc : y # q => batch'[y] = batch[y] /\ (lock = y => lock' = y)
    BY <1>0, <1>7 DEF ReqFails, Unlock
  <2>4. \A r \in Req : ReqOK(r)'
    BY <1>0, <2>1, <2>2, <2>3, ReqKept, NotApplying
  <2>5. \A p \in Pass : PassOK(p)'
    BY <1>0, <2>1, <2>3, PassKept
  <2>. QED  BY <2>1, <2>4, <2>5, Quiet
<1>8. CASE Disconnect(q)
  BY <1>8 DEF Disconnect
<1>. QED  BY <1>1, <1>3, <1>4, <1>5, <1>6, <1>7, <1>8 DEF ReqNext

\* Every step of a pass keeps the store and the plans.
LEMMA PassStepSafe ==
    ASSUME IInv, NEW p \in Pass, PassNext(p) PROVE IInv'
<1>t. TypeOK' /\ Shape'
  BY PassStepType DEF IInv
<1>. SUFFICES StoreOK' /\ (\A q \in Req : ReqOK(q)') /\ (\A r \in Pass : PassOK(r)')
  BY <1>t DEF IInv
<1>. USE DEF IInv
<1>0. /\ p \in Proc /\ pass \in [Pass -> PassRecord] /\ batch \in [Proc -> Batch]
      /\ \A r \in Pass : r \in Proc
      /\ \A q \in Req : q \in Proc /\ q # p
      /\ PassIdle.pc = "idle"
  BY OneApplies DEF TypeOK, PassRecord, Proc, PassIdle
\* A quiet step of the pass that is not a plan.
<1>1. ASSUME UNCHANGED <<meta, lock, req, batch>>, pass'[p].pc # "apply",
             \A r \in Pass : r # p => pass'[r] = pass[r]
      PROVE  StoreOK' /\ (\A q \in Req : ReqOK(q)') /\ (\A r \in Pass : PassOK(r)')
  BY <1>1, Quiet, ReqKept, PassKept, NotApplying
<1>2. CASE PassScan(p)
  <2>1. pass'[p].pc = "reap" /\ \A r \in Pass : r # p => pass'[r] = pass[r]
    BY <1>0, <1>2 DEF PassScan, PassIdle
  <2>. QED  BY <1>1, <1>2, <2>1 DEF PassScan
<1>3. ASSUME NEW m \in Manifest, PurgePlan(p, m)
      PROVE  StoreOK' /\ (\A q \in Req : ReqOK(q)') /\ (\A r \in Pass : PassOK(r)')
  <2>0. UNCHANGED <<meta, req>> /\ \A r \in Pass : r # p => pass'[r] = pass[r]
    BY <1>0, <1>3 DEF PurgePlan
  <2>1. CASE Purgeable(m, pass[p].at) /\ Plan(p, PlanDeleteManifest(m))
    <3>1. lock = None /\ lock' = p /\ batch'[p] = PlanDeleteManifest(m)
      BY <1>0, <2>1 DEF Plan
    <3>2. pass' = [pass EXCEPT ![p].pc = "apply", ![p].man = m, ![p].todo = @ \ {m}]
      BY <1>0, <1>3, <2>1, <3>1 DEF PurgePlan
    <3>3. pass'[p].man = m /\ pass'[p].at = pass[p].at
      BY <1>0, <3>2 DEF PassRecord
    <3>4. /\ \A r \in Pass : pass[r].pc # "apply"
          /\ \A q \in Req : req[q].pc # "apply"
      BY <1>0, <3>1, OneApplies
    <3>5. /\ Purgeable(m, pass[p].at)' /\ StoreOK'
          /\ PlanDeleteManifest(m)' = PlanDeleteManifest(m)
      <4>1. /\ \A n, at : Purgeable(n, at) => Purgeable(n, at)'
            /\ \A n : PlanDeleteManifest(n)' = PlanDeleteManifest(n)
            /\ StoreOK'
        BY <2>0, Quiet
      <4>2. \A at : Purgeable(m, at) => Purgeable(m, at)'
        BY <4>1
      <4>. QED  BY <2>1, <3>3, <4>1, <4>2
    <3>6. PassOK(p)'
      BY <3>1, <3>3, <3>5 DEF PassOK
    <3>. QED  BY <2>0, <3>4, <3>5, <3>6, NotApplying
  <2>2. CASE /\ pass' = [pass EXCEPT ![p].todo = @ \ {m}]
             /\ UNCHANGED <<lock, batch>>
    <3>1. pass'[p].pc = "reap"
      BY <1>0, <1>3, <2>2 DEF PurgePlan, PassRecord
    <3>. QED  BY <1>1, <2>0, <2>2, <3>1
  <2>. QED  BY <1>3, <2>1, <2>2 DEF PurgePlan
<1>4. CASE PurgeApply(p)
  <2>1. lock = p /\ Fresh(batch[p]) /\ Write(batch[p])
    BY <1>4 DEF PurgeApply, PassOK, Fresh, Purgeable
  <2>2. StoreOK'
    BY <2>1, FreshSafe
  <2>3. pass'[p].pc = "reap" /\ \A r \in Pass : r # p => pass'[r] = pass[r]
    BY <1>0, <1>4 DEF PurgeApply, PassRecord
  <2>4. \A r \in Pass : PassOK(r)'
    BY <2>1, <2>3, OneApplies, NotApplying
  <2>5. \A q \in Req : ReqOK(q)'
    BY <1>0, <1>4, <2>1, OneApplies, NotApplying DEF PurgeApply
  <2>. QED  BY <2>2, <2>4, <2>5
<1>5. CASE PassEnd(p)
  <2>1. pass'[p].pc = "idle" /\ \A r \in Pass : r # p => pass'[r] = pass[r]
    BY <1>0, <1>5 DEF PassEnd
  <2>. QED  BY <1>1, <1>5, <2>1 DEF PassEnd
<1>6. CASE PassFails(p)
  <2>1. UNCHANGED meta /\ req' = req
    BY <1>6 DEF PassFails
  <2>2. pass'[p].pc = "idle" /\ \A r \in Pass : r # p => pass'[r] = pass[r]
    BY <1>0, <1>6 DEF PassFails
  <2>3. \A y \in Proc : y # p => batch'[y] = batch[y] /\ (lock = y => lock' = y)
    BY <1>0, <1>6 DEF PassFails, Unlock
  <2>4. \A r \in Pass : PassOK(r)'
    BY <1>0, <2>1, <2>2, <2>3, PassKept, NotApplying
  <2>5. \A q \in Req : ReqOK(q)'
    BY <1>0, <2>1, <2>3, ReqKept
  <2>. QED  BY <2>1, <2>4, <2>5, Quiet
<1>. QED  BY <1>2, <1>3, <1>4, <1>5, <1>6 DEF PassNext

\* Every step keeps the inductive invariant.
LEMMA StepSafe == ASSUME ~Disconnects, IInv, [Next]_vars PROVE IInv'
<1>t. TypeOK' /\ Shape'
  BY StepType DEF IInv
<1>1. ASSUME NEW q \in Req, ReqNext(q) PROVE IInv'
  BY <1>1, ReqStepSafe
<1>2. ASSUME NEW p \in Pass, PassNext(p) PROVE IInv'
  BY <1>2, PassStepSafe
<1>3. CASE Tick \/ UNCHANGED vars
  <2>1. UNCHANGED <<meta, lock, req, pass, batch>>
    BY <1>3 DEF Tick, vars
  <2>. QED  BY <1>t, <2>1, Quiet, ReqKept, PassKept DEF IInv
<1>4. CASE Crash
  <2>1. /\ UNCHANGED meta
        /\ \A q \in Req : req'[q].pc = "idle"
        /\ \A p \in Pass : pass'[p].pc = "idle"
    BY <1>4 DEF Crash, ReqIdle, PassIdle
  <2>. QED  BY <1>t, <2>1, Quiet, NotApplying DEF IInv
<1>. QED  BY <1>1, <1>2, <1>3, <1>4 DEF Next

\* The empty repository satisfies it.
LEMMA InitSafe == Init => IInv
<1>. SUFFICES ASSUME Init PROVE IInv
  OBVIOUS
<1>1. StoreOK
  BY NoneAssumption
     DEF Init, StoreOK, TagEdgesAgree, TagsResolve, NoDanglingEdges, EdgesSourced
<1>2. /\ \A q \in Req : req[q].pc = "idle"
      /\ \A p \in Pass : pass[p].pc = "idle"
  BY DEF Init, ReqIdle, PassIdle
<1>. QED  BY <1>1, <1>2, InitType DEF IInv, ReqOK, PassOK

----------------------------------------------------------------------------
(* The theorems.                                                           *)

\* The inductive invariant is an invariant.
LEMMA Invariance == ASSUME ~Disconnects PROVE Spec => []IInv
<1>1. IInv /\ [Next]_vars => IInv'
  BY StepSafe
<1>. QED  BY <1>1, InitSafe, PTL DEF Spec

\* G names exactly the manifest each tag points at, in every reachable state of
\* any number of pushes, deletes and purges, when no request loses its client.
THEOREM EdgesAgree == ASSUME ~Disconnects PROVE Spec => []TagEdgesAgree
<1>1. IInv => TagEdgesAgree
  BY DEF IInv, StoreOK
<1>. QED  BY <1>1, Invariance, PTL

\* No tag is ever left on a manifest that is gone.
THEOREM TagsAlwaysResolve == ASSUME ~Disconnects PROVE Spec => []TagsResolve
<1>1. IInv => TagsResolve
  BY DEF IInv, StoreOK
<1>. QED  BY <1>1, Invariance, PTL

\* Every edge a manifest's push wrote goes with it.
THEOREM EdgesGoWithManifest == ASSUME ~Disconnects PROVE Spec => []NoDanglingEdges
<1>1. IInv => NoDanglingEdges
  BY DEF IInv, StoreOK
<1>. QED  BY <1>1, Invariance, PTL

\* However stale its candidates, a pass never removes a manifest that a tag
\* points at, that has an S edge, whose subject is stored or that is too young.
THEOREM PurgeSpares == ASSUME ~Disconnects PROVE Spec => PurgeSparesWanted
<1>. DEFINE Spares == \A p \in Pass : pass[p].pc = "apply" /\ pass'[p].pc = "reap" =>
                LET m == pass[p].man IN
                /\ \A t \in Tag : tags[t] # m
                /\ \A i \in Manifest : <<m, i>> \notin parents
                /\ Subject[m] \notin Stored
                /\ records[m] + MinAge <= pass[p].at
<1>1. IInv => Spares
  BY DEF IInv, StoreOK, PassOK, Purgeable, TagEdgesAgree
<1>. HIDE DEF Spares
<1>2. IInv /\ [Next]_vars => [Spares]_vars
  BY <1>1
<1>3. Spec => [][Spares]_vars
  BY <1>2, Invariance, PTL DEF Spec
<1>. QED  BY <1>3 DEF Spares, PurgeSparesWanted

\* The empty repository is the empty map.
LEMMA InitRefines == Init => Map!Init
BY DEF Init, Map!Init, Stored

\* A step of the repository is a step of the map, or leaves it alone.
LEMMA StepRefines == ASSUME IInv, [Next]_vars PROVE [Map!Next]_(Map!mapVars)
<1>1. ASSUME UNCHANGED meta PROVE UNCHANGED Map!mapVars
  BY <1>1 DEF meta, Map!mapVars, Stored
<1>2. ASSUME NEW q \in Req, Apply(q) PROVE Map!Next
  <2>1. Fresh(batch[q]) /\ Write(batch[q])
    BY <1>2 DEF IInv, ReqOK, Apply
  <2>. QED  BY <2>1, FreshSafe DEF IInv
<1>3. ASSUME NEW p \in Pass, PurgeApply(p) PROVE Map!Next
  <2>1. Fresh(batch[p]) /\ Write(batch[p])
    BY <1>3 DEF IInv, PassOK, Fresh, Purgeable, PurgeApply
  <2>. QED  BY <2>1, FreshSafe DEF IInv
<1>4. ASSUME NEW q \in Req, ReqNext(q) PROVE Apply(q) \/ UNCHANGED meta
  BY <1>4 DEF ReqNext, PutBegin, DeleteTag, DeleteManifest, PutPlan, ReqFails, Disconnect
<1>5. ASSUME NEW p \in Pass, PassNext(p) PROVE PurgeApply(p) \/ UNCHANGED meta
  BY <1>5 DEF PassNext, PassScan, PurgePlan, PassEnd, PassFails
<1>6. CASE Tick \/ Crash \/ UNCHANGED vars
  BY <1>1, <1>6 DEF Tick, Crash, vars
<1>. QED  BY <1>1, <1>2, <1>3, <1>4, <1>5, <1>6 DEF Next

\* The repository, with its reverse edges, its two-step plans, its lock, its
\* faults and its purge, implements the atomic map of TagMap.
THEOREM Refinement == ASSUME ~Disconnects PROVE Spec => ImplementsTagMap
<1>1. IInv /\ [Next]_vars => [Map!Next]_(Map!mapVars)
  BY StepRefines
<1>. QED  BY <1>1, InitRefines, Invariance, PTL DEF Spec, ImplementsTagMap, Map!Spec
=============================================================================
