------------------------ MODULE BlobLifecycleProofs ------------------------
(***************************************************************************)
(* Proofs about BlobLifecycle, for every set of digests, repositories,     *)
(* manifests, requests, passes and shards and for every clock bound:       *)
(*   - the type invariant;                                                 *)
(*   - BytesBehindRecords, when references are validated and no request    *)
(*     loses its client: no B record is ever without its bytes.            *)
(*   - GraceHonoured: a membership keeps a collection off its blob;        *)
(*   - LeaksOnlyByFault, when no request loses its client: no bytes are    *)
(*     left without a B record but by a crash or an I/O error.             *)
(***************************************************************************)
EXTENDS BlobLifecycle, TLAPS

----------------------------------------------------------------------------
(* Types.                                                                  *)

\* Adding a second to an age, or to no age, stays within the horizon.
LEMMA OlderType == \A a \in Age \cup {None} : Older(a) \in Age \cup {None}
BY ClockAssumption, NoneAssumption DEF Older, Age, Horizon

\* The age of an age stays an age.
LEMMA OlderAge == \A a \in Age : Older(a) \in Age
BY ClockAssumption, NoneAssumption DEF Older, Age, Horizon

\* A pass's clock, the value a mark is dated with, is an age.
LEMMA PassClock == 0..PassSpan \subseteq Age /\ 0 \in Age
BY ClockAssumption DEF Age, Horizon

\* The idle control states have their types.
LEMMA IdleTypes == ReqIdle \in ReqRecord /\ PassIdle \in PassRecord
BY ClockAssumption, PassClock
   DEF ReqIdle, PassIdle, ReqRecord, PassRecord, ReqPC, PassPC, PassKind

\* Releasing a process's guards leaves a table of guards.
LEMMA ReleaseTypes ==
    ASSUME NEW x,
           lock \in [Shard -> Proc \cup {None}],
           tagLock \in [Repo -> Req \cup {None}]
    PROVE  /\ Release(x, lock) \in [Shard -> Proc \cup {None}]
           /\ Release(x, tagLock) \in [Repo -> Req \cup {None}]
BY DEF Release

\* A request that is doing something names its repository, and a push its
\* manifest.
Shape ==
    \A q \in Req : /\ req[q].pc # "idle" => req[q].repo \in Repo
                   /\ req[q].pc = "push" => req[q].man \in Manifest

\* Every step of a request keeps the types and the shape of the requests.
LEMMA ReqStepType ==
    ASSUME TypeOK, Shape, NEW q \in Req, ReqNext(q) PROVE TypeOK' /\ Shape'
<1>. USE DEF TypeOK, meta
<1>0. req[q] \in ReqRecord
  OBVIOUS
<1>i. ReqIdle.pc = "idle"
  BY DEF ReqIdle
<1>1. ASSUME NEW r \in Repo, NEW d \in Digest, CommitLock(q, r, d)
      PROVE  TypeOK' /\ Shape'
  <2>. DEFINE x == [ReqIdle EXCEPT !.pc = "commit", !.repo = r,
                                   !.items = {d}, !.create = {d}]
  <2>1. x \in ReqRecord
    BY IdleTypes DEF ReqRecord, ReqPC
  <2>2. x.pc = "commit" /\ x.repo = r
    BY DEF ReqIdle
  <2>. HIDE DEF x
  <2>3. req' = [req EXCEPT ![q] = x]
    BY <1>1 DEF CommitLock, x
  <2>4. TypeOK'
    BY <1>1, <2>1, <2>3 DEF CommitLock, Proc
  <2>. QED  BY <2>2, <2>3, <2>4 DEF Shape
<1>2. ASSUME NEW r \in Repo, NEW d \in Digest, MountBegin(q, r, d)
      PROVE  TypeOK' /\ Shape'
  <2>. DEFINE x == [ReqIdle EXCEPT !.pc = "mount", !.repo = r,
                                   !.items = {d}, !.create = {d}]
  <2>1. x \in ReqRecord
    BY IdleTypes DEF ReqRecord, ReqPC
  <2>2. x.pc = "mount" /\ x.repo = r
    BY DEF ReqIdle
  <2>. HIDE DEF x
  <2>3. req' = [req EXCEPT ![q] = x]
    BY <1>2 DEF MountBegin, x
  <2>4. TypeOK'
    BY <1>2, <2>1, <2>3 DEF MountBegin
  <2>. QED  BY <2>2, <2>3, <2>4 DEF Shape
<1>3. ASSUME NEW r \in Repo, NEW d \in Digest, DeleteBlobPlan(q, r, d)
      PROVE  TypeOK' /\ Shape'
  <2>. DEFINE x == [ReqIdle EXCEPT !.pc = "unref", !.repo = r, !.items = {d},
                  !.fresh = {d} \ Absent(r, {d}),
                  !.edges = {e \in refs : e[1] = d /\ e[2] = r}]
  <2>1. x \in ReqRecord
    BY IdleTypes DEF ReqRecord, ReqPC, Absent
  <2>2. x.pc = "unref" /\ x.repo = r
    BY DEF ReqIdle
  <2>. HIDE DEF x
  <2>3. req' = [req EXCEPT ![q] = x]
    BY <1>3 DEF DeleteBlobPlan, x
  <2>4. TypeOK'
    BY <1>3, <2>1, <2>3 DEF DeleteBlobPlan
  <2>. QED  BY <2>2, <2>3, <2>4 DEF Shape
<1>4. ASSUME NEW r \in Repo, NEW m \in Manifest, PushBegin(q, r, m)
      PROVE  TypeOK' /\ Shape'
  <2>. DEFINE x == [ReqIdle EXCEPT !.pc = "push", !.repo = r, !.man = m]
  <2>1. x \in ReqRecord
    BY IdleTypes DEF ReqRecord, ReqPC
  <2>2. x.pc = "push" /\ x.repo = r /\ x.man = m
    BY DEF ReqIdle
  <2>. HIDE DEF x
  <2>3. req' = [req EXCEPT ![q] = x]
    BY <1>4 DEF PushBegin, x
  <2>4. TypeOK'
    BY <1>4, <2>1, <2>3 DEF PushBegin
  <2>. QED  BY <2>2, <2>3, <2>4 DEF Shape
<1>5. CASE CommitRename(q)
  <2>. DEFINE x == [req[q] EXCEPT !.pc = "plan", !.at = 0]
  <2>1. x \in ReqRecord
    BY <1>0, PassClock DEF ReqRecord, ReqPC
  <2>2. x.pc = "plan" /\ x.repo = req[q].repo
    BY <1>0 DEF ReqRecord
  <2>. HIDE DEF x
  <2>3. req' = [req EXCEPT ![q] = ReqIdle] \/ req' = [req EXCEPT ![q] = x]
    BY <1>5 DEF CommitRename, Goto, x
  <2>4. file' \subseteq Digest
    BY <1>0, <1>5 DEF CommitRename, ReqRecord
  <2>5. TypeOK'
    BY <1>5, <2>1, <2>3, <2>4, IdleTypes DEF CommitRename
  <2>. QED  BY <1>5, <1>i, <2>2, <2>3, <2>5 DEF Shape, CommitRename
<1>6. CASE CommitMismatch(q)
  <2>1. TypeOK'
    BY <1>6, IdleTypes, ReleaseTypes DEF CommitMismatch
  <2>. QED  BY <1>6, <1>i, <2>1 DEF Shape, CommitMismatch
<1>7. CASE CommitPlan(q)
  <2>. DEFINE x == [req[q] EXCEPT !.pc = "apply",
                          !.fresh = Absent(req[q].repo, req[q].items)]
  <2>1. x \in ReqRecord
    BY <1>0 DEF ReqRecord, ReqPC, Absent
  <2>2. x.pc = "apply" /\ x.repo = req[q].repo
    BY <1>0 DEF ReqRecord
  <2>. HIDE DEF x
  <2>3. req' = [req EXCEPT ![q] = x]
    BY <1>7 DEF CommitPlan, x
  <2>4. TypeOK'
    BY <1>7, <2>1, <2>3 DEF CommitPlan
  <2>. QED  BY <1>7, <2>2, <2>3, <2>4 DEF Shape, CommitPlan
<1>8. CASE MountLock(q)
  <2>. DEFINE x == [req[q] EXCEPT !.pc = "mountplan"]
  <2>1. x \in ReqRecord
    BY <1>0 DEF ReqRecord, ReqPC
  <2>2. x.pc = "mountplan" /\ x.repo = req[q].repo
    BY <1>0 DEF ReqRecord
  <2>. HIDE DEF x
  <2>3. req' = [req EXCEPT ![q] = x]
    BY <1>8 DEF MountLock, x
  <2>4. TypeOK'
    BY <1>8, <2>1, <2>3, ZenonT(40) DEF MountLock, Proc
  <2>. QED  BY <1>8, <2>2, <2>3, <2>4 DEF Shape, MountLock
<1>9. ASSUME NEW from \in Repo \cup {None}, MountPlan(q, from)
      PROVE  TypeOK' /\ Shape'
  <2>. DEFINE x == [req[q] EXCEPT !.pc = "apply",
                          !.fresh = Absent(req[q].repo, req[q].items)]
  <2>1. x \in ReqRecord
    BY <1>0 DEF ReqRecord, ReqPC, Absent
  <2>2. x.pc = "apply" /\ x.repo = req[q].repo
    BY <1>0 DEF ReqRecord
  <2>. HIDE DEF x
  <2>3. req' = [req EXCEPT ![q] = ReqIdle] \/ req' = [req EXCEPT ![q] = x]
    BY <1>9 DEF MountPlan, x
  <2>4. lock' \in [Shard -> Proc \cup {None}]
    BY <1>9, ReleaseTypes DEF MountPlan
  <2>5. TypeOK'
    BY <1>9, <2>1, <2>3, <2>4, IdleTypes DEF MountPlan
  <2>. QED  BY <1>9, <1>i, <2>2, <2>3, <2>5 DEF Shape, MountPlan
<1>10. CASE PushPlan(q)
  <2>. DEFINE ds == Staged(req[q].repo, req[q].man)
              x == [req[q] EXCEPT !.pc = "apply", !.items = ds,
                      !.create = ds \ blob, !.fresh = Absent(req[q].repo, ds)]
  <2>1. ds \subseteq Digest
    BY <1>0, <1>10, LayersAssumption DEF Staged, Shape, PushPlan
  <2>2. x \in ReqRecord /\ x.pc = "apply" /\ x.repo = req[q].repo
    <3>. HIDE DEF ds
    <3>. QED  BY <1>0, <2>1 DEF ReqRecord, ReqPC, Absent
  <2>. HIDE DEF x
  <2>3. req' = [req EXCEPT ![q] = ReqIdle] \/ req' = [req EXCEPT ![q] = x]
    BY <1>10 DEF PushPlan, x
  <2>4. tagLock' \in [Repo -> Req \cup {None}]
    BY <1>10 DEF PushPlan
  <2>5. TypeOK'
    BY <1>10, <2>2, <2>3, <2>4, IdleTypes DEF PushPlan
  <2>. QED  BY <1>10, <1>i, <2>2, <2>3, <2>5 DEF Shape, PushPlan
<1>11. CASE Apply(q)
  <2>1. blob' \subseteq Digest
    BY <1>0, <1>11 DEF Apply, ReqRecord
  <2>2. mark' \in [Digest -> Age \cup {None}]
    BY <1>11 DEF Apply
  <2>3. member' \in [Repo -> [Digest -> Age \cup {None}]]
    BY <1>0, <1>11, ZenonT(40) DEF Apply, ReqRecord
  <2>4. req[q].repo \in Repo
    BY <1>11 DEF Apply, Shape
  <2>5. refs' \subseteq Digest \X Repo \X Manifest
    BY <1>0, <1>11, <2>4 DEF Apply, ReqRecord
  <2>6. manifests' \subseteq Repo \X Manifest
    BY <1>0, <1>11, <2>4 DEF Apply, ReqRecord
  <2>7. TypeOK'
    BY <1>11, <2>1, <2>2, <2>3, <2>5, <2>6, IdleTypes, ReleaseTypes DEF Apply
  <2>. QED  BY <1>11, <1>i, <2>7 DEF Shape, Apply
<1>12. CASE DeleteBlobApply(q)
  <2>1. mark' \in [Digest -> Age \cup {None}]
    BY <1>12 DEF DeleteBlobApply
  <2>2. member' \in [Repo -> [Digest -> Age \cup {None}]]
    BY <1>12 DEF DeleteBlobApply
  <2>3. refs' \subseteq Digest \X Repo \X Manifest
    BY <1>12 DEF DeleteBlobApply
  <2>4. TypeOK'
    BY <1>12, <2>1, <2>2, <2>3, IdleTypes DEF DeleteBlobApply
  <2>. QED  BY <1>12, <1>i, <2>4 DEF Shape, DeleteBlobApply
<1>13. CASE ReqDisconnect(q)
  <2>. DEFINE x == [req[q] EXCEPT !.gone = TRUE]
  <2>1. x \in ReqRecord
    BY <1>0 DEF ReqRecord
  <2>2. x.pc = req[q].pc /\ x.repo = req[q].repo /\ x.man = req[q].man
    BY <1>0 DEF ReqRecord
  <2>. HIDE DEF x
  <2>3. req' = [req EXCEPT ![q] = ReqIdle] \/ req' = [req EXCEPT ![q] = x]
    BY <1>13 DEF ReqDisconnect, x
  <2>4. TypeOK'
    BY <1>13, <2>1, <2>3, IdleTypes, ReleaseTypes DEF ReqDisconnect
  <2>. QED  BY <1>13, <1>i, <2>2, <2>3, <2>4 DEF Shape, ReqDisconnect
<1>14. CASE ReqFails(q)
  <2>1. file' \subseteq Digest
    BY <1>0, <1>14 DEF ReqFails, ReqRecord
  <2>2. faults' \in 0..MaxFaults
    BY <1>14, ClockAssumption DEF ReqFails
  <2>3. TypeOK'
    BY <1>14, <2>1, <2>2, IdleTypes, ReleaseTypes DEF ReqFails
  <2>. QED  BY <1>14, <1>i, <2>3 DEF Shape, ReqFails
<1>. QED
  BY <1>1, <1>2, <1>3, <1>4, <1>5, <1>6, <1>7, <1>8, <1>9, <1>10, <1>11,
     <1>12, <1>13, <1>14, ReqNext(q) DEF ReqNext

\* Every step of a purge pass keeps the types.
LEMMA PassStepType ==
    ASSUME TypeOK, NEW p \in Pass, PassNext(p) PROVE TypeOK' /\ UNCHANGED req
<1>. USE DEF TypeOK, meta
<1>0. pass[p] \in PassRecord
  OBVIOUS
<1>1. ASSUME NEW kind \in PassKind, PassStart(p, kind)
      PROVE  TypeOK' /\ UNCHANGED req
  <2>1. [PassIdle EXCEPT !.pc = "memberships", !.kind = kind] \in PassRecord
    BY IdleTypes DEF PassRecord, PassPC
  <2>. QED  BY <1>1, <2>1 DEF PassStart
<1>2. CASE SweepRead(p)
  <2>. DEFINE drop == {k \in Repo \X Digest :
                          /\ Expired(p, member[k[1]][k[2]])
                          /\ ~\E m \in Manifest : <<k[2], k[1], m>> \in refs}
  <2>1. drop \subseteq Repo \X Digest
    OBVIOUS
  <2>2. [pass[p] EXCEPT !.pc = "sweep", !.drop = drop] \in PassRecord
    <3>. HIDE DEF drop
    <3>. QED  BY <1>0, <2>1 DEF PassRecord, PassPC
  <2>. QED  BY <1>2, <2>2 DEF SweepRead
<1>3. CASE SweepApply(p)
  <2>1. [pass[p] EXCEPT !.pc = "blobs", !.drop = {}] \in PassRecord
    BY <1>0 DEF PassRecord, PassPC
  <2>2. pass' \in [Pass -> PassRecord]
    BY <1>3, <2>1, IdleTypes DEF SweepApply, PassGoto
  <2>3. member' \in [Repo -> [Digest -> Age \cup {None}]]
    BY <1>3 DEF SweepApply
  <2>4. mark' \in [Digest -> Age \cup {None}]
    BY <1>3 DEF SweepApply
  <2>. QED  BY <1>3, <2>2, <2>3, <2>4 DEF SweepApply
<1>4. CASE ScanRead(p)
  <2>. DEFINE loose == {d \in blob : ~Referenced(d)}
              clear == {d \in blob : Referenced(d) /\ mark[d] # None}
              set == {d \in loose : mark[d] = None}
              ripe == {d \in loose : Expired(p, mark[d])}
  <2>1. clear \subseteq Digest /\ set \subseteq Digest /\ ripe \subseteq Digest
    OBVIOUS
  <2>2. [pass[p] EXCEPT !.pc = "mark", !.clear = clear, !.set = set, !.ripe = ripe]
           \in PassRecord
    <3>. HIDE DEF clear, set, ripe
    <3>. QED  BY <1>0, <2>1 DEF PassRecord, PassPC
  <2>. QED  BY <1>4, <2>2 DEF ScanRead
<1>5. CASE ScanApply(p)
  <2>. DEFINE x == [pass[p] EXCEPT !.pc = "collect", !.set = {}, !.clear = {},
                                   !.ripe = IF pass[p].kind = "dry" THEN {} ELSE @]
  <2>1. x \in PassRecord
    BY <1>0 DEF PassRecord, PassPC
  <2>2. pass' \in [Pass -> PassRecord]
    BY <1>5, <2>1, IdleTypes DEF ScanApply, PassGoto
  <2>3. pass[p].at \in Age
    BY <1>0, PassClock DEF PassRecord
  <2>4. mark' \in [Digest -> Age \cup {None}]
    BY <1>5, <2>3 DEF ScanApply
  <2>. QED  BY <1>5, <2>2, <2>4 DEF ScanApply
<1>6. ASSUME NEW d \in Digest, CollectLock(p, d)
      PROVE  TypeOK' /\ UNCHANGED req
  <2>1. [pass[p] EXCEPT !.pc = "check", !.target = d, !.ripe = @ \ {d}]
           \in PassRecord
    BY <1>0 DEF PassRecord, PassPC
  <2>. QED  BY <1>6, <2>1 DEF CollectLock, Proc
<1>7. CASE CollectCheck(p)
  <2>1. [pass[p] EXCEPT !.pc = "retract"] \in PassRecord
    BY <1>0 DEF PassRecord, PassPC
  <2>2. [pass[p] EXCEPT !.pc = "collect", !.target = None] \in PassRecord
    BY <1>0 DEF PassRecord, PassPC
  <2>3. pass' \in [Pass -> PassRecord]
    BY <1>7, <2>1, <2>2, IdleTypes DEF CollectCheck, PassGoto
  <2>4. lock' \in [Shard -> Proc \cup {None}]
    BY <1>7, ReleaseTypes DEF CollectCheck
  <2>. QED  BY <1>7, <2>3, <2>4 DEF CollectCheck
<1>8. CASE CollectApply(p)
  <2>1. [pass[p] EXCEPT !.pc = "unlink"] \in PassRecord
    BY <1>0 DEF PassRecord, PassPC
  <2>2. pass' \in [Pass -> PassRecord]
    BY <1>8, <2>1, IdleTypes DEF CollectApply, PassGoto
  <2>3. mark' \in [Digest -> Age \cup {None}]
    BY <1>8 DEF CollectApply
  <2>. QED  BY <1>8, <2>2, <2>3 DEF CollectApply
<1>9. CASE CollectUnlink(p)
  <2>1. [pass[p] EXCEPT !.pc = "collect", !.target = None] \in PassRecord
    BY <1>0 DEF PassRecord, PassPC
  <2>2. pass' \in [Pass -> PassRecord]
    BY <1>9, <2>1, IdleTypes DEF CollectUnlink, PassGoto
  <2>. QED  BY <1>9, <2>2, ReleaseTypes DEF CollectUnlink
<1>10. CASE PassEnd(p)
  BY <1>10, IdleTypes DEF PassEnd
<1>11. CASE PassDisconnect(p)
  <2>1. [pass[p] EXCEPT !.gone = TRUE] \in PassRecord
    BY <1>0 DEF PassRecord
  <2>2. pass' \in [Pass -> PassRecord]
    BY <1>11, <2>1, IdleTypes DEF PassDisconnect
  <2>. QED  BY <1>11, <2>2, ReleaseTypes DEF PassDisconnect
<1>12. CASE PassFails(p)
  <2>1. faults' \in 0..MaxFaults
    BY <1>12, ClockAssumption DEF PassFails
  <2>. QED  BY <1>12, <2>1, IdleTypes, ReleaseTypes DEF PassFails
<1>. QED
  BY <1>1, <1>2, <1>3, <1>4, <1>5, <1>6, <1>7, <1>8, <1>9, <1>10, <1>11,
     <1>12, PassNext(p) DEF PassNext

\* The clock ticks within the bounds on passes and blocking tasks.
LEMMA TickType ==
    ASSUME TypeOK, Shape, Tick PROVE TypeOK' /\ Shape'
<1>. USE DEF TypeOK
<1>1. mark' \in [Digest -> Age \cup {None}]
  BY OlderType DEF Tick
<1>2. member' \in [Repo -> [Digest -> Age \cup {None}]]
  BY OlderType DEF Tick
<1>3. ASSUME NEW q \in Req
      PROVE  /\ req'[q] \in ReqRecord
             /\ req'[q].pc = req[q].pc
             /\ req'[q].repo = req[q].repo
             /\ req'[q].man = req[q].man
  <2>. DEFINE a == IF ReadClock(q) THEN Older(req[q].at) ELSE req[q].at
              s == IF InTask(q) THEN req[q].since + 1 ELSE req[q].since
  <2>1. req[q] \in ReqRecord
    OBVIOUS
  <2>2. a \in Age
    BY <2>1, OlderAge DEF ReqRecord
  <2>3. s \in 0..TaskSpan
    <3>1. req[q].since \in 0..TaskSpan /\ (InTask(q) => req[q].since < TaskSpan)
      BY <2>1 DEF Tick, ReqRecord
    <3>. QED  BY <3>1, ClockAssumption
  <2>4. req'[q] = [req[q] EXCEPT !.at = a, !.since = s]
    BY DEF Tick
  <2>. HIDE DEF a, s
  <2>. QED  BY <2>1, <2>2, <2>3, <2>4 DEF ReqRecord
<1>4. ASSUME NEW p \in Pass PROVE pass'[p] \in PassRecord
  <2>1. pass[p] \in PassRecord
    OBVIOUS
  <2>2. CASE pass[p].pc = "idle"
    BY <2>1, <2>2 DEF Tick
  <2>3. CASE pass[p].pc # "idle"
    <3>1. pass[p].at + 1 \in 0..PassSpan
      <4>1. pass[p].at \in 0..PassSpan /\ pass[p].at < PassSpan
        BY <2>1, <2>3 DEF Tick, PassRecord
      <4>. QED  BY <4>1, ClockAssumption
    <3>2. pass'[p] = [pass[p] EXCEPT !.at = pass[p].at + 1]
      BY <2>3 DEF Tick
    <3>. QED  BY <2>1, <3>1, <3>2 DEF PassRecord
  <2>. QED  BY <2>2, <2>3
<1>5. req' \in [Req -> ReqRecord] /\ pass' \in [Pass -> PassRecord]
  BY <1>3, <1>4 DEF Tick
<1>6. TypeOK'
  BY <1>1, <1>2, <1>5 DEF Tick
<1>. QED  BY <1>3, <1>6 DEF Shape

\* Every step keeps the types.
LEMMA StepType ==
    ASSUME TypeOK, Shape, [Next]_vars PROVE TypeOK' /\ Shape'
<1>1. CASE \E q \in Req : ReqNext(q)
  BY <1>1, ReqStepType
<1>2. CASE \E p \in Pass : PassNext(p)
  BY <1>2, PassStepType DEF Shape
<1>3. CASE \E r \in Repo, m \in Manifest : DeleteManifest(r, m)
  BY <1>3 DEF DeleteManifest, TypeOK, Shape
<1>4. CASE Tick
  BY <1>4, TickType
<1>5. CASE Crash
  <2>1. req' = [q \in Req |-> ReqIdle] /\ ReqIdle.pc = "idle"
    BY <1>5 DEF Crash, ReqIdle
  <2>2. TypeOK'
    BY <1>5, IdleTypes, ClockAssumption DEF Crash, TypeOK, meta
  <2>. QED  BY <2>1, <2>2 DEF Shape
<1>6. CASE UNCHANGED vars
  BY <1>6 DEF vars, meta, TypeOK, Shape
<1>. QED  BY <1>1, <1>2, <1>3, <1>4, <1>5, <1>6, [Next]_vars DEF Next

\* The initial state has its types.
LEMMA InitType ==
    ASSUME Init PROVE TypeOK /\ Shape
<1>1. req = [q \in Req |-> ReqIdle] /\ ReqIdle.pc = "idle"
  BY DEF Init, ReqIdle
<1>2. TypeOK
  BY IdleTypes, ClockAssumption DEF Init, TypeOK
<1>. QED  BY <1>1, <1>2 DEF Shape

\* Every variable keeps its type, whatever the constants, the faults and the
\* lost clients.
THEOREM TypeCorrect == Spec => []TypeOK
<1>1. Init => TypeOK /\ Shape
  BY InitType
<1>2. (TypeOK /\ Shape) /\ [Next]_vars => (TypeOK /\ Shape)'
  BY StepType
<1>. QED  BY <1>1, <1>2, PTL DEF Spec

----------------------------------------------------------------------------
(* No record without its bytes.  BytesBehindRecords is not inductive: it    *)
(* needs what a commit has done by the time it may apply its batch, what a  *)
(* collection has done by the time it may unlink, and the blob lock that    *)
(* keeps the two apart.                                                     *)

\* The digest's lock is held from before the rename, or the mount's check, to
\* the batch; a push takes none.
UnderLock(q) ==
    req[q].pc \in {"commit", "plan", "mountplan"}
        \/ (req[q].pc = "apply" /\ req[q].man = None)

\* Its client is there.  Under the lock, what it will add to B is the blob it
\* handles, whose bytes are there once they are renamed or were found in B; a
\* validated push adds nothing.
ReqOK(q) ==
    /\ req[q].gone = FALSE
    /\ req[q].pc \in {"commit", "plan", "mount", "mountplan"} => req[q].man = None
    /\ req[q].pc = "mount" => \E d \in Digest : req[q].items = {d}
    /\ req[q].pc = "mount" \/ UnderLock(q) => req[q].create = req[q].items
    /\ UnderLock(q) => \A d \in req[q].items : lock[ShardOf[d]] = q
    /\ UnderLock(q) /\ req[q].pc \in {"plan", "apply"} => req[q].items \subseteq file
    /\ req[q].pc = "apply" /\ req[q].man # None => req[q].create = {}

Collecting(p) == pass[p].pc \in {"check", "retract", "unlink"}

\* A collection holds its blob's lock and retracts the record first.
PassOK(p) ==
    /\ pass[p].gone = FALSE
    /\ Collecting(p) => /\ pass[p].target \in Digest
                        /\ lock[ShardOf[pass[p].target]] = p
    /\ pass[p].pc = "unlink" => pass[p].target \notin blob

IInv == /\ TypeOK
        /\ Shape
        /\ \A q \in Req : ReqOK(q)
        /\ \A p \in Pass : PassOK(p)
        /\ BytesBehindRecords

\* A request's step leaves it as ReqOK describes it.
LEMMA ReqStepOwn ==
    ASSUME IInv, ~Disconnects, ValidateReferences,
           NEW q \in Req, ReqNext(q), TypeOK'
    PROVE  ReqOK(q)'
<1>. USE DEF IInv, TypeOK, meta
<1>0. req[q] \in ReqRecord /\ req'[q] \in ReqRecord /\ ReqOK(q)
  OBVIOUS
<1>i. req'[q] = ReqIdle => ReqOK(q)'
  BY DEF ReqOK, UnderLock, ReqIdle
<1>1. ASSUME NEW r \in Repo, NEW d \in Digest, CommitLock(q, r, d) PROVE ReqOK(q)'
  <2>1. req'[q] = [ReqIdle EXCEPT !.pc = "commit", !.repo = r,
                                   !.items = {d}, !.create = {d}]
    BY <1>1 DEF CommitLock
  <2>2. /\ req'[q].pc = "commit" /\ req'[q].man = None
        /\ req'[q].items = {d} /\ req'[q].create = {d} /\ req'[q].gone = FALSE
    BY <2>1 DEF ReqIdle
  <2>3. lock'[ShardOf[d]] = q
    BY <1>1, ShardAssumption DEF CommitLock
  <2>. QED  BY <2>2, <2>3 DEF ReqOK, UnderLock
<1>2. ASSUME NEW r \in Repo, NEW d \in Digest, MountBegin(q, r, d) PROVE ReqOK(q)'
  <2>1. req'[q] = [ReqIdle EXCEPT !.pc = "mount", !.repo = r,
                                   !.items = {d}, !.create = {d}]
    BY <1>2 DEF MountBegin
  <2>2. /\ req'[q].pc = "mount" /\ req'[q].man = None
        /\ req'[q].items = {d} /\ req'[q].create = {d} /\ req'[q].gone = FALSE
    BY <2>1 DEF ReqIdle
  <2>. QED  BY <2>2 DEF ReqOK, UnderLock
<1>3. ASSUME NEW r \in Repo, NEW d \in Digest, DeleteBlobPlan(q, r, d)
      PROVE  ReqOK(q)'
  <2>1. req'[q].pc = "unref" /\ req'[q].gone = FALSE
    BY <1>3 DEF DeleteBlobPlan, ReqIdle
  <2>. QED  BY <2>1 DEF ReqOK, UnderLock
<1>4. ASSUME NEW r \in Repo, NEW m \in Manifest, PushBegin(q, r, m) PROVE ReqOK(q)'
  <2>1. req'[q].pc = "push" /\ req'[q].gone = FALSE
    BY <1>4 DEF PushBegin, ReqIdle
  <2>. QED  BY <2>1 DEF ReqOK, UnderLock
<1>5. CASE CommitRename(q)
  <2>1. req'[q] = [req[q] EXCEPT !.pc = "plan", !.at = 0]
    BY <1>0, <1>5 DEF CommitRename, Goto, ReqOK
  <2>2. /\ req'[q].pc = "plan" /\ req'[q].man = req[q].man
        /\ req'[q].items = req[q].items /\ req'[q].create = req[q].create
        /\ req'[q].gone = req[q].gone
    BY <1>0, <2>1 DEF ReqRecord
  <2>. QED  BY <1>0, <1>5, <2>2 DEF ReqOK, UnderLock, CommitRename
<1>6. CASE CommitMismatch(q)
  BY <1>6, <1>i DEF CommitMismatch
<1>7. CASE CommitPlan(q)
  <2>1. req'[q] = [req[q] EXCEPT !.pc = "apply",
                          !.fresh = Absent(req[q].repo, req[q].items)]
    BY <1>7 DEF CommitPlan
  <2>2. /\ req'[q].pc = "apply" /\ req'[q].man = req[q].man
        /\ req'[q].items = req[q].items /\ req'[q].create = req[q].create
        /\ req'[q].gone = req[q].gone
    BY <1>0, <2>1 DEF ReqRecord
  <2>. QED  BY <1>0, <1>7, <2>2 DEF ReqOK, UnderLock, CommitPlan
<1>8. CASE MountLock(q)
  <2>1. req'[q] = [req[q] EXCEPT !.pc = "mountplan"]
    BY <1>8 DEF MountLock
  <2>2. /\ req'[q].pc = "mountplan" /\ req'[q].man = req[q].man
        /\ req'[q].items = req[q].items /\ req'[q].create = req[q].create
        /\ req'[q].gone = req[q].gone
    BY <1>0, <2>1 DEF ReqRecord
  <2>3. \A d \in req[q].items : lock'[ShardOf[d]] = q
    <3>1. PICK d \in Digest : req[q].items = {d}
      BY <1>0, <1>8 DEF MountLock, ReqOK
    <3>2. lock' = [lock EXCEPT ![ShardOf[d]] = q]
      BY <1>8, <3>1 DEF MountLock
    <3>. QED  BY <3>1, <3>2, ShardAssumption
  <2>. QED  BY <1>0, <1>8, <2>2, <2>3 DEF ReqOK, UnderLock, MountLock
<1>9. ASSUME NEW from \in Repo \cup {None}, MountPlan(q, from) PROVE ReqOK(q)'
  <2>1. CASE req'[q] = ReqIdle
    BY <2>1, <1>i
  <2>2. CASE req'[q] # ReqIdle
    <3>1. req'[q] = [req[q] EXCEPT !.pc = "apply",
                          !.fresh = Absent(req[q].repo, req[q].items)]
      BY <1>9, <2>2 DEF MountPlan
    <3>2. /\ req'[q].pc = "apply" /\ req'[q].man = req[q].man
          /\ req'[q].items = req[q].items /\ req'[q].create = req[q].create
          /\ req'[q].gone = req[q].gone
      BY <1>0, <3>1 DEF ReqRecord
    <3>3. req[q].items \subseteq blob /\ lock' = lock /\ file' = file
      BY <1>9, <2>2 DEF MountPlan
    <3>4. req[q].items \subseteq file
      BY <3>3 DEF BytesBehindRecords
    <3>. QED  BY <1>0, <1>9, <3>2, <3>3, <3>4 DEF ReqOK, UnderLock, MountPlan
  <2>. QED  BY <2>1, <2>2
<1>10. CASE PushPlan(q)
  <2>. DEFINE ds == Staged(req[q].repo, req[q].man)
  <2>1. CASE req'[q] = ReqIdle
    BY <2>1, <1>i
  <2>2. CASE req'[q] # ReqIdle
    <3>1. /\ req'[q] = [req[q] EXCEPT !.pc = "apply", !.items = ds,
                  !.create = ds \ blob, !.fresh = Absent(req[q].repo, ds)]
          /\ PlanAccepts(req[q].repo, req[q].man)
      BY <1>10, <2>2 DEF PushPlan
    <3>2. ds \ blob = {}
      BY <3>1 DEF PlanAccepts
    <3>3. /\ req'[q].pc = "apply" /\ req'[q].man = req[q].man
          /\ req'[q].create = {} /\ req'[q].gone = req[q].gone
      <4>. HIDE DEF ds
      <4>. QED  BY <1>0, <3>1, <3>2 DEF ReqRecord
    <3>4. req[q].man # None
      BY <1>10, NoneAssumption DEF PushPlan, Shape
    <3>. QED  BY <1>0, <3>3, <3>4 DEF ReqOK, UnderLock
  <2>. QED  BY <2>1, <2>2
<1>11. CASE Apply(q)
  BY <1>11, <1>i DEF Apply
<1>12. CASE DeleteBlobApply(q)
  BY <1>12, <1>i DEF DeleteBlobApply
<1>13. CASE ReqDisconnect(q)
  BY <1>13 DEF ReqDisconnect
<1>14. CASE ReqFails(q)
  BY <1>14, <1>i DEF ReqFails
<1>. QED
  BY <1>1, <1>2, <1>3, <1>4, <1>5, <1>6, <1>7, <1>8, <1>9, <1>10, <1>11,
     <1>12, <1>13, <1>14, ReqNext(q) DEF ReqNext

\* What a request's step leaves alone, and what it adds.
LEMMA ReqStepFrame ==
    ASSUME IInv, ~Disconnects, NEW q \in Req, ReqNext(q)
    PROVE  /\ pass' = pass
           /\ \A q2 \in Req \ {q} : req'[q2] = req[q2]
           /\ file \subseteq file'
           /\ \A s \in Shard : lock[s] \notin {q, None} => lock'[s] = lock[s]
           /\ blob' = blob \/ (req[q].pc = "apply" /\ blob' = blob \cup req[q].create)
<1>. USE DEF IInv, TypeOK, meta
<1>1. pass' = pass /\ file \subseteq file'
  BY ReqNext(q) DEF ReqNext, CommitLock, MountBegin, DeleteBlobPlan, PushBegin,
     CommitRename, CommitMismatch, CommitPlan, MountLock, MountPlan, PushPlan,
     Apply, DeleteBlobApply, ReqDisconnect, ReqFails
<1>2. \A q2 \in Req \ {q} : req'[q2] = req[q2]
  BY ReqNext(q) DEF ReqNext, CommitLock, MountBegin, DeleteBlobPlan, PushBegin,
     CommitRename, Goto, CommitMismatch, CommitPlan, MountLock, MountPlan,
     PushPlan, Apply, DeleteBlobApply, ReqDisconnect, ReqFails
<1>3. \A s \in Shard : lock[s] \notin {q, None} => lock'[s] = lock[s]
  BY ReqNext(q) DEF ReqNext, CommitLock, MountBegin, DeleteBlobPlan, PushBegin,
     CommitRename, CommitMismatch, CommitPlan, MountLock, MountPlan, PushPlan,
     Apply, DeleteBlobApply, ReqDisconnect, ReqFails, Release
<1>4. blob' = blob \/ (req[q].pc = "apply" /\ blob' = blob \cup req[q].create)
  BY ReqNext(q) DEF ReqNext, CommitLock, MountBegin, DeleteBlobPlan, PushBegin,
     CommitRename, CommitMismatch, CommitPlan, MountLock, MountPlan, PushPlan,
     Apply, DeleteBlobApply, ReqDisconnect, ReqFails
<1>. QED  BY <1>1, <1>2, <1>3, <1>4

\* A request's step keeps the invariant.
LEMMA ReqStepSafe ==
    ASSUME IInv, ~Disconnects, ValidateReferences,
           NEW q \in Req, ReqNext(q), TypeOK', Shape'
    PROVE  IInv'
<1>. USE DEF IInv
<1>0. q # None /\ q \notin Pass
  BY NoneAssumption, ProcAssumption DEF Proc
<1>1. ASSUME NEW q2 \in Req PROVE ReqOK(q2)'
  <2>1. CASE q2 = q
    BY <2>1, ReqStepOwn
  <2>2. CASE q2 # q
    <3>1. req'[q2] = req[q2] /\ file \subseteq file' /\ ReqOK(q2) /\ q2 # None
      BY <2>2, ReqStepFrame, NoneAssumption DEF Proc
    <3>2. \A d \in req[q2].items : lock[ShardOf[d]] = q2 => lock'[ShardOf[d]] = q2
      BY <2>2, <3>1, ReqStepFrame, ShardAssumption DEF TypeOK, ReqRecord
    <3>. QED  BY <3>1, <3>2 DEF ReqOK, UnderLock
  <2>. QED  BY <2>1, <2>2
<1>2. \A d \in blob' \ blob : d \in file /\ lock[ShardOf[d]] = q
  <2>1. ReqOK(q)
    OBVIOUS
  <2>2. CASE req[q].pc = "apply" /\ blob' = blob \cup req[q].create
    <3>1. CASE req[q].man = None
      <4>1. UnderLock(q) /\ req[q].create = req[q].items
        BY <2>1, <2>2, <3>1 DEF ReqOK, UnderLock
      <4>. QED  BY <2>1, <2>2, <4>1 DEF ReqOK
    <3>2. CASE req[q].man # None
      BY <2>1, <2>2, <3>2 DEF ReqOK
    <3>. QED  BY <3>1, <3>2
  <2>. QED  BY <2>2, ReqStepFrame
<1>3. ASSUME NEW p \in Pass PROVE PassOK(p)'
  <2>1. pass' = pass /\ PassOK(p) /\ p # q /\ p # None
    BY <1>0, ReqStepFrame, NoneAssumption DEF Proc
  <2>2. Collecting(p) => lock'[ShardOf[pass[p].target]] = p
    <3>. SUFFICES ASSUME Collecting(p) PROVE lock'[ShardOf[pass[p].target]] = p
      OBVIOUS
    <3>1. ShardOf[pass[p].target] \in Shard /\ lock[ShardOf[pass[p].target]] = p
      BY <2>1, ShardAssumption DEF PassOK
    <3>. QED  BY <2>1, <3>1, ReqStepFrame
  <2>3. pass[p].pc = "unlink" => pass[p].target \notin blob'
    BY <1>2, <2>1 DEF PassOK, Collecting
  <2>. QED  BY <2>1, <2>2, <2>3 DEF PassOK, Collecting
<1>4. BytesBehindRecords'
  BY <1>2, ReqStepFrame DEF BytesBehindRecords
<1>. QED  BY <1>1, <1>3, <1>4

\* What a pass's step leaves alone, and what it takes away.
LEMMA PassStepFrame ==
    ASSUME IInv, ~Disconnects, NEW p \in Pass, PassNext(p)
    PROVE  /\ \A p2 \in Pass \ {p} : pass'[p2] = pass[p2]
           /\ \A s \in Shard : lock[s] \notin {p, None} => lock'[s] = lock[s]
           /\ blob' \subseteq blob
           /\ file' = file \/ (pass[p].pc = "unlink" /\ file' = file \ {pass[p].target})
<1>. USE DEF IInv, TypeOK, meta
<1>1. \A p2 \in Pass \ {p} : pass'[p2] = pass[p2]
  BY PassNext(p) DEF PassNext, PassStart, SweepRead, SweepApply, ScanRead,
     ScanApply, CollectLock, CollectCheck, CollectApply, CollectUnlink, PassEnd,
     PassDisconnect, PassFails, PassGoto
<1>2. \A s \in Shard : lock[s] \notin {p, None} => lock'[s] = lock[s]
  BY PassNext(p) DEF PassNext, PassStart, SweepRead, SweepApply, ScanRead,
     ScanApply, CollectLock, CollectCheck, CollectApply, CollectUnlink, PassEnd,
     PassDisconnect, PassFails, Release
<1>3. /\ blob' \subseteq blob
      /\ file' = file \/ (pass[p].pc = "unlink" /\ file' = file \ {pass[p].target})
  BY PassNext(p) DEF PassNext, PassStart, SweepRead, SweepApply, ScanRead,
     ScanApply, CollectLock, CollectCheck, CollectApply, CollectUnlink, PassEnd,
     PassDisconnect, PassFails
<1>. QED  BY <1>1, <1>2, <1>3

\* A pass's step leaves it as PassOK describes it.
LEMMA PassStepOwn ==
    ASSUME IInv, ~Disconnects, NEW p \in Pass, PassNext(p), TypeOK'
    PROVE  PassOK(p)'
<1>. USE DEF IInv, TypeOK, meta
<1>0. pass[p] \in PassRecord /\ pass'[p] \in PassRecord /\ PassOK(p)
  OBVIOUS
<1>i. pass'[p].gone = FALSE /\ pass'[p].pc \notin {"check", "retract", "unlink"}
        => PassOK(p)'
  BY DEF PassOK, Collecting
<1>1. ASSUME NEW kind \in PassKind, PassStart(p, kind) PROVE PassOK(p)'
  <2>1. pass'[p] = [PassIdle EXCEPT !.pc = "memberships", !.kind = kind]
    BY <1>1 DEF PassStart
  <2>. QED  BY <1>i, <2>1 DEF PassIdle
<1>2. CASE SweepRead(p)
  <2>1. pass'[p].pc = "sweep" /\ pass'[p].gone = pass[p].gone
    BY <1>0, <1>2 DEF SweepRead, PassRecord
  <2>. QED  BY <1>0, <1>i, <2>1 DEF PassOK
<1>3. CASE SweepApply(p)
  <2>1. pass'[p] = [pass[p] EXCEPT !.pc = "blobs", !.drop = {}]
    BY <1>0, <1>3 DEF SweepApply, PassGoto, PassOK
  <2>2. pass'[p].pc = "blobs" /\ pass'[p].gone = pass[p].gone
    BY <1>0, <2>1 DEF PassRecord
  <2>. QED  BY <1>0, <1>i, <2>2 DEF PassOK
<1>4. CASE ScanRead(p)
  <2>1. pass'[p].pc = "mark" /\ pass'[p].gone = pass[p].gone
    BY <1>0, <1>4 DEF ScanRead, PassRecord
  <2>. QED  BY <1>0, <1>i, <2>1 DEF PassOK
<1>5. CASE ScanApply(p)
  <2>1. pass'[p] = [pass[p] EXCEPT !.pc = "collect", !.set = {}, !.clear = {},
                                   !.ripe = IF pass[p].kind = "dry" THEN {} ELSE @]
    BY <1>0, <1>5 DEF ScanApply, PassGoto, PassOK
  <2>2. pass'[p].pc = "collect" /\ pass'[p].gone = pass[p].gone
    BY <1>0, <2>1 DEF PassRecord
  <2>. QED  BY <1>0, <1>i, <2>2 DEF PassOK
<1>6. ASSUME NEW d \in Digest, CollectLock(p, d) PROVE PassOK(p)'
  <2>1. pass'[p] = [pass[p] EXCEPT !.pc = "check", !.target = d, !.ripe = @ \ {d}]
    BY <1>6 DEF CollectLock
  <2>2. pass'[p].pc = "check" /\ pass'[p].target = d /\ pass'[p].gone = pass[p].gone
    BY <1>0, <2>1 DEF PassRecord
  <2>3. lock'[ShardOf[d]] = p
    BY <1>6, ShardAssumption DEF CollectLock
  <2>. QED  BY <1>0, <2>2, <2>3 DEF PassOK, Collecting
<1>7. CASE CollectCheck(p)
  <2>1. CASE pass'[p] = [pass[p] EXCEPT !.pc = "retract"] /\ lock' = lock
    <3>1. /\ pass'[p].pc = "retract" /\ pass'[p].target = pass[p].target
          /\ pass'[p].gone = pass[p].gone
      BY <1>0, <2>1 DEF PassRecord
    <3>. QED  BY <1>0, <1>7, <2>1, <3>1 DEF PassOK, Collecting, CollectCheck
  <2>2. CASE pass'[p] = [pass[p] EXCEPT !.pc = "collect", !.target = None]
    <3>1. pass'[p].pc = "collect" /\ pass'[p].gone = pass[p].gone
      BY <1>0, <2>2 DEF PassRecord
    <3>. QED  BY <1>0, <1>i, <3>1 DEF PassOK
  <2>. QED  BY <1>0, <1>7, <2>1, <2>2 DEF CollectCheck, PassGoto, PassOK
<1>8. CASE CollectApply(p)
  <2>1. pass'[p] = [pass[p] EXCEPT !.pc = "unlink"]
    BY <1>0, <1>8 DEF CollectApply, PassGoto, PassOK
  <2>2. /\ pass'[p].pc = "unlink" /\ pass'[p].target = pass[p].target
        /\ pass'[p].gone = pass[p].gone
    BY <1>0, <2>1 DEF PassRecord
  <2>3. pass[p].target \notin blob' /\ lock' = lock
    BY <1>8 DEF CollectApply
  <2>. QED  BY <1>0, <1>8, <2>2, <2>3 DEF PassOK, Collecting, CollectApply
<1>9. CASE CollectUnlink(p)
  <2>1. pass'[p] = [pass[p] EXCEPT !.pc = "collect", !.target = None]
    BY <1>0, <1>9 DEF CollectUnlink, PassGoto, PassOK
  <2>2. pass'[p].pc = "collect" /\ pass'[p].gone = pass[p].gone
    BY <1>0, <2>1 DEF PassRecord
  <2>. QED  BY <1>0, <1>i, <2>2 DEF PassOK
<1>10. CASE PassEnd(p)
  <2>1. pass'[p] = PassIdle
    BY <1>10 DEF PassEnd
  <2>. QED  BY <1>i, <2>1 DEF PassIdle
<1>11. CASE PassDisconnect(p)
  BY <1>11 DEF PassDisconnect
<1>12. CASE PassFails(p)
  <2>1. pass'[p] = PassIdle
    BY <1>12 DEF PassFails
  <2>. QED  BY <1>i, <2>1 DEF PassIdle
<1>. QED
  BY <1>1, <1>2, <1>3, <1>4, <1>5, <1>6, <1>7, <1>8, <1>9, <1>10, <1>11,
     <1>12, PassNext(p) DEF PassNext

\* A pass's step keeps the invariant.
LEMMA PassStepSafe ==
    ASSUME IInv, ~Disconnects, NEW p \in Pass, PassNext(p), TypeOK', Shape',
           UNCHANGED req
    PROVE  IInv'
<1>. USE DEF IInv
<1>0. p # None /\ p \notin Req
  BY NoneAssumption, ProcAssumption DEF Proc
<1>1. \A d \in file \ file' : d \notin blob /\ lock[ShardOf[d]] = p
  <2>1. PassOK(p)
    OBVIOUS
  <2>2. CASE pass[p].pc = "unlink" /\ file' = file \ {pass[p].target}
    BY <2>1, <2>2 DEF PassOK, Collecting
  <2>. QED  BY <2>2, PassStepFrame
<1>2. ASSUME NEW q \in Req PROVE ReqOK(q)'
  <2>1. req' = req /\ ReqOK(q) /\ q # p /\ q # None /\ req[q].items \subseteq Digest
    BY <1>0, NoneAssumption DEF Proc, TypeOK, ReqRecord
  <2>2. \A d \in req[q].items : lock[ShardOf[d]] = q => lock'[ShardOf[d]] = q
    BY <2>1, PassStepFrame, ShardAssumption
  <2>3. \A d \in req[q].items : lock[ShardOf[d]] = q /\ d \in file => d \in file'
    BY <1>1, <2>1
  <2>. QED  BY <2>1, <2>2, <2>3 DEF ReqOK, UnderLock
<1>3. ASSUME NEW p2 \in Pass PROVE PassOK(p2)'
  <2>1. CASE p2 = p
    BY <2>1, PassStepOwn
  <2>2. CASE p2 # p
    <3>1. pass'[p2] = pass[p2] /\ PassOK(p2) /\ p2 # None /\ blob' \subseteq blob
      BY <2>2, PassStepFrame, NoneAssumption DEF Proc
    <3>2. ASSUME Collecting(p2) PROVE lock'[ShardOf[pass[p2].target]] = p2
      <4>1. ShardOf[pass[p2].target] \in Shard /\ lock[ShardOf[pass[p2].target]] = p2
        BY <3>1, <3>2, ShardAssumption DEF PassOK
      <4>. QED  BY <2>2, <3>1, <4>1, PassStepFrame
    <3>. QED  BY <3>1, <3>2 DEF PassOK, Collecting
  <2>. QED  BY <2>1, <2>2
<1>4. BytesBehindRecords'
  BY <1>1, PassStepFrame DEF BytesBehindRecords
<1>. QED  BY <1>2, <1>3, <1>4

\* Every step keeps the invariant.
LEMMA StepSafe ==
    ASSUME IInv, ~Disconnects, ValidateReferences, [Next]_vars PROVE IInv'
<1>0. TypeOK' /\ Shape'
  BY StepType DEF IInv
<1>1. CASE \E q \in Req : ReqNext(q)
  BY <1>0, <1>1, ReqStepSafe
<1>2. CASE \E p \in Pass : PassNext(p)
  BY <1>0, <1>2, PassStepSafe, PassStepType DEF IInv
<1>3. CASE \E r \in Repo, m \in Manifest : DeleteManifest(r, m)
  BY <1>0, <1>3 DEF DeleteManifest, IInv, ReqOK, UnderLock, PassOK, Collecting,
     BytesBehindRecords
<1>4. CASE Tick
  <2>1. ASSUME NEW q \in Req PROVE ReqOK(q)'
    <3>1. req[q] \in ReqRecord
      BY DEF IInv, TypeOK
    <3>2. /\ req'[q].pc = req[q].pc /\ req'[q].man = req[q].man
          /\ req'[q].items = req[q].items /\ req'[q].create = req[q].create
          /\ req'[q].gone = req[q].gone
      BY <1>4, <3>1 DEF Tick, ReqRecord
    <3>. QED  BY <1>4, <3>2, ZenonT(40) DEF Tick, IInv, ReqOK, UnderLock
  <2>2. ASSUME NEW p \in Pass PROVE PassOK(p)'
    <3>1. pass[p] \in PassRecord
      BY DEF IInv, TypeOK
    <3>2. /\ pass'[p].pc = pass[p].pc /\ pass'[p].target = pass[p].target
          /\ pass'[p].gone = pass[p].gone
      BY <1>4, <3>1 DEF Tick, PassRecord
    <3>3. PassOK(p) /\ lock' = lock /\ blob' = blob
      BY <1>4 DEF Tick, IInv
    <3>. QED  BY <3>2, <3>3 DEF PassOK, Collecting
  <2>. QED  BY <1>0, <1>4, <2>1, <2>2 DEF Tick, IInv, BytesBehindRecords
<1>5. CASE Crash
  <2>1. ASSUME NEW q \in Req PROVE ReqOK(q)'
    BY <1>5 DEF Crash, ReqIdle, ReqOK, UnderLock
  <2>2. ASSUME NEW p \in Pass PROVE PassOK(p)'
    BY <1>5 DEF Crash, PassIdle, PassOK, Collecting
  <2>3. BytesBehindRecords'
    BY <1>5 DEF Crash, meta, IInv, BytesBehindRecords
  <2>. QED  BY <1>0, <2>1, <2>2, <2>3 DEF IInv
<1>6. CASE UNCHANGED vars
  BY <1>0, <1>6 DEF vars, meta, IInv, ReqOK, UnderLock, PassOK, Collecting,
     BytesBehindRecords
<1>. QED  BY <1>1, <1>2, <1>3, <1>4, <1>5, <1>6, [Next]_vars DEF Next

\* When references are validated and no request loses its client, no record in
\* B is ever without its bytes, whatever else runs, in whatever order, and
\* wherever the process faults.
THEOREM BytesSafe ==
    ASSUME ~Disconnects, ValidateReferences
    PROVE  Spec => []BytesBehindRecords
<1>1. Init => IInv
  <2>. SUFFICES ASSUME Init PROVE IInv
    OBVIOUS
  <2>1. \A q \in Req : ReqOK(q)
    BY DEF Init, ReqIdle, ReqOK, UnderLock
  <2>2. \A p \in Pass : PassOK(p)
    BY DEF Init, PassIdle, PassOK, Collecting
  <2>. QED  BY <2>1, <2>2, InitType DEF Init, IInv, BytesBehindRecords
<1>2. IInv /\ [Next]_vars => IInv'
  BY StepSafe
<1>3. IInv => BytesBehindRecords
  BY DEF IInv
<1>. QED  BY <1>1, <1>2, <1>3, PTL DEF Spec

----------------------------------------------------------------------------
(* The grace period.  A mark is dated with its pass's clock, so it may be   *)
(* older than a membership written after it was set, by as much as a pass   *)
(* may last and no more: that is the relation the whole system keeps, and   *)
(* what the collection's own test of the mark then says of the membership.  *)

\* No membership is younger than its blob's mark by more than a pass's span.
MarkFollows ==
    \A r \in Repo, d \in Digest :
        mark[d] # None /\ member[r][d] # None => mark[d] <= member[r][d] + PassSpan

\* The memberships a batch creates are of blobs whose mark it takes off.
Unmarks == \A q \in Req : req[q].pc = "apply" => req[q].fresh \subseteq req[q].items

GraceInv == TypeOK /\ Shape /\ MarkFollows /\ Unmarks

\* Taking marks off and memberships away keeps the relation.
LEMMA FewerFollow ==
    ASSUME MarkFollows,
           \A d \in Digest : mark'[d] \in {mark[d], None},
           \A r \in Repo, d \in Digest : member'[r][d] \in {member[r][d], None}
    PROVE  MarkFollows'
BY DEF MarkFollows

\* A request's step keeps the relation: a batch that adds a membership takes
\* the mark off.
LEMMA ReqStepFollows ==
    ASSUME GraceInv, NEW q \in Req, ReqNext(q), TypeOK' PROVE MarkFollows'
<1>. USE DEF GraceInv, TypeOK, meta
<1>1. CASE Apply(q)
  <2>0. req[q].repo \in Repo /\ req[q].fresh \subseteq req[q].items
    BY <1>1 DEF Apply, Shape, Unmarks
  <2>1. \A d \in Digest : mark'[d] = IF d \in req[q].items THEN None ELSE mark[d]
    BY <1>1 DEF Apply
  <2>2. \A r \in Repo, d \in Digest :
           d \notin req[q].fresh => member'[r][d] = member[r][d]
    BY <1>1, <2>0 DEF Apply
  <2>. QED  BY <2>0, <2>1, <2>2 DEF MarkFollows
<1>2. CASE DeleteBlobApply(q)
  <2>1. \A d \in Digest : mark'[d] \in {mark[d], None}
    BY <1>2 DEF DeleteBlobApply
  <2>2. \A r \in Repo, d \in Digest : member'[r][d] \in {member[r][d], None}
    BY <1>2 DEF DeleteBlobApply
  <2>. QED  BY <2>1, <2>2, FewerFollow
<1>3. CASE mark' = mark /\ member' = member
  BY <1>3 DEF MarkFollows
<1>. QED
  BY <1>1, <1>2, <1>3, ReqNext(q) DEF ReqNext, CommitLock, MountBegin, DeleteBlobPlan,
     PushBegin, CommitRename, CommitMismatch, CommitPlan, MountLock, MountPlan, PushPlan,
     ReqDisconnect, ReqFails

\* A request's step keeps what a batch was planned with.
LEMMA ReqStepUnmarks ==
    ASSUME GraceInv, NEW q \in Req, ReqNext(q) PROVE Unmarks'
<1>. USE DEF GraceInv, TypeOK, meta
<1>0. req[q] \in ReqRecord
  OBVIOUS
<1>1. \A q2 \in Req \ {q} : req'[q2] = req[q2]
  BY ReqNext(q) DEF ReqNext, CommitLock, MountBegin, DeleteBlobPlan, PushBegin,
     CommitRename, Goto, CommitMismatch, CommitPlan, MountLock, MountPlan,
     PushPlan, Apply, DeleteBlobApply, ReqDisconnect, ReqFails
<1>2. req'[q].pc = "apply" => req'[q].fresh \subseteq req'[q].items
  <2>1. CASE CommitPlan(q) \/ \E from \in Repo \cup {None} : MountPlan(q, from)
    <3>1. CASE req'[q] = ReqIdle
      BY <3>1 DEF ReqIdle
    <3>2. CASE req'[q] # ReqIdle
      <4>1. req'[q] = [req[q] EXCEPT !.pc = "apply",
                             !.fresh = Absent(req[q].repo, req[q].items)]
        BY <2>1, <3>2 DEF CommitPlan, MountPlan
      <4>2. req'[q].items = req[q].items /\ req'[q].fresh = Absent(req[q].repo, req[q].items)
        BY <1>0, <4>1 DEF ReqRecord
      <4>. QED  BY <4>2 DEF Absent
    <3>. QED  BY <3>1, <3>2
  <2>2. CASE PushPlan(q)
    <3>. DEFINE ds == Staged(req[q].repo, req[q].man)
    <3>1. CASE req'[q] = ReqIdle
      BY <3>1 DEF ReqIdle
    <3>2. CASE req'[q] # ReqIdle
      <4>1. req'[q] = [req[q] EXCEPT !.pc = "apply", !.items = ds, !.create = ds \ blob,
                             !.fresh = Absent(req[q].repo, ds)]
        BY <2>2, <3>2 DEF PushPlan
      <4>. HIDE DEF ds
      <4>2. req'[q].items = ds /\ req'[q].fresh = Absent(req[q].repo, ds)
        BY <1>0, <4>1 DEF ReqRecord
      <4>. QED  BY <4>2 DEF Absent
    <3>. QED  BY <3>1, <3>2
  <2>3. CASE ReqDisconnect(q)
    <3>1. CASE req'[q] = ReqIdle
      BY <3>1 DEF ReqIdle
    <3>2. CASE req'[q] # ReqIdle
      <4>1. req'[q] = [req[q] EXCEPT !.gone = TRUE]
        BY <2>3, <3>2 DEF ReqDisconnect
      <4>2. /\ req'[q].pc = req[q].pc /\ req'[q].items = req[q].items
            /\ req'[q].fresh = req[q].fresh
        BY <1>0, <4>1 DEF ReqRecord
      <4>. QED  BY <4>2 DEF Unmarks
    <3>. QED  BY <3>1, <3>2
  <2>4. CASE req'[q].pc # "apply"
    BY <2>4
  <2>5. ASSUME NEW r \in Repo, NEW d \in Digest,
               CommitLock(q, r, d) \/ MountBegin(q, r, d) \/ DeleteBlobPlan(q, r, d)
        PROVE  req'[q].pc # "apply"
    <3>1. CASE CommitLock(q, r, d)
      BY <3>1 DEF CommitLock, ReqIdle
    <3>2. CASE MountBegin(q, r, d)
      BY <3>2 DEF MountBegin, ReqIdle
    <3>3. CASE DeleteBlobPlan(q, r, d)
      BY <3>3 DEF DeleteBlobPlan, ReqIdle
    <3>. QED  BY <2>5, <3>1, <3>2, <3>3
  <2>6. ASSUME NEW r \in Repo, NEW m \in Manifest, PushBegin(q, r, m)
        PROVE  req'[q].pc # "apply"
    BY <2>6 DEF PushBegin, ReqIdle
  <2>7. CASE CommitRename(q) \/ MountLock(q)
    <3>1. \/ req'[q] = ReqIdle
          \/ req'[q] = [req[q] EXCEPT !.pc = "plan", !.at = 0]
          \/ req'[q] = [req[q] EXCEPT !.pc = "mountplan"]
      BY <2>7 DEF CommitRename, Goto, MountLock
    <3>2. CASE req'[q] = ReqIdle
      BY <3>2 DEF ReqIdle
    <3>3. CASE req'[q] = [req[q] EXCEPT !.pc = "plan", !.at = 0]
      BY <1>0, <3>3 DEF ReqRecord
    <3>4. CASE req'[q] = [req[q] EXCEPT !.pc = "mountplan"]
      BY <1>0, <3>4 DEF ReqRecord
    <3>. QED  BY <3>1, <3>2, <3>3, <3>4
  <2>8. CASE CommitMismatch(q) \/ Apply(q) \/ DeleteBlobApply(q) \/ ReqFails(q)
    BY <2>8 DEF CommitMismatch, Apply, DeleteBlobApply, ReqFails, ReqIdle
  <2>. QED
    BY <2>1, <2>2, <2>3, <2>4, <2>5, <2>6, <2>7, <2>8, ReqNext(q) DEF ReqNext
<1>. QED  BY <1>1, <1>2 DEF Unmarks

\* A pass's step keeps the relation: a mark it sets is as old as its clock.
LEMMA PassStepFollows ==
    ASSUME GraceInv, NEW p \in Pass, PassNext(p) PROVE MarkFollows'
<1>. USE DEF GraceInv, TypeOK, meta
<1>0. pass[p].at \in 0..PassSpan
  BY DEF PassRecord
<1>1. CASE ScanApply(p)
  <2>1. \A d \in Digest : mark'[d] \in {mark[d], None, pass[p].at}
    BY <1>1 DEF ScanApply
  <2>2. member' = member
    BY <1>1 DEF ScanApply
  <2>3. ASSUME NEW r \in Repo, NEW d \in Digest, mark'[d] # None, member[r][d] # None
        PROVE  mark'[d] <= member[r][d] + PassSpan
    <3>1. member[r][d] \in Age /\ member[r][d] \in Nat
      BY <2>3 DEF Age
    <3>2. CASE mark'[d] = mark[d]
      BY <2>3, <3>2 DEF MarkFollows
    <3>3. CASE mark'[d] = pass[p].at
      BY <1>0, <3>1, <3>3, ClockAssumption
    <3>. QED  BY <2>1, <2>3, <3>2, <3>3
  <2>. QED  BY <2>2, <2>3 DEF MarkFollows
<1>2. CASE SweepApply(p)
  <2>1. \A d \in Digest : mark'[d] \in {mark[d], None}
    BY <1>2 DEF SweepApply
  <2>2. \A r \in Repo, d \in Digest : member'[r][d] \in {member[r][d], None}
    BY <1>2 DEF SweepApply
  <2>. QED  BY <2>1, <2>2, FewerFollow
<1>3. CASE CollectApply(p)
  <2>1. \A d \in Digest : mark'[d] \in {mark[d], None}
    BY <1>3 DEF CollectApply
  <2>2. member' = member
    BY <1>3 DEF CollectApply
  <2>. QED  BY <2>1, <2>2, FewerFollow
<1>4. CASE mark' = mark /\ member' = member
  BY <1>4 DEF MarkFollows
<1>. QED
  BY <1>1, <1>2, <1>3, <1>4, PassNext(p) DEF PassNext, PassStart, SweepRead, ScanRead,
     CollectLock, CollectCheck, CollectUnlink, PassEnd, PassDisconnect, PassFails

\* Time ages both alike, up to the horizon that no mark passes.
LEMMA TickFollows ==
    ASSUME GraceInv, Tick PROVE MarkFollows' /\ Unmarks'
<1>. USE DEF GraceInv, TypeOK
<1>1. ASSUME NEW r \in Repo, NEW d \in Digest, mark'[d] # None, member'[r][d] # None
      PROVE  mark'[d] <= member'[r][d] + PassSpan
  <2>1. mark'[d] = Older(mark[d]) /\ member'[r][d] = Older(member[r][d])
    BY DEF Tick
  <2>2. mark[d] # None /\ member[r][d] # None
    BY <1>1, <2>1 DEF Older
  <2>3. mark[d] \in Age /\ member[r][d] \in Age /\ mark[d] <= member[r][d] + PassSpan
    BY <2>2 DEF MarkFollows
  <2>4. /\ Older(mark[d]) = IF mark[d] = Horizon THEN mark[d] ELSE mark[d] + 1
        /\ Older(member[r][d]) = IF member[r][d] = Horizon THEN member[r][d]
                                 ELSE member[r][d] + 1
    BY <2>2 DEF Older
  <2>5. ASSUME NEW a \in Age, NEW b \in Age, a <= b + PassSpan
        PROVE  (IF a = Horizon THEN a ELSE a + 1)
                  <= (IF b = Horizon THEN b ELSE b + 1) + PassSpan
    BY <2>5, ClockAssumption DEF Age, Horizon
  <2>. QED  BY <2>1, <2>3, <2>4, <2>5
<1>2. ASSUME NEW q \in Req
      PROVE  /\ req'[q].pc = req[q].pc /\ req'[q].items = req[q].items
             /\ req'[q].fresh = req[q].fresh
  <2>1. req[q] \in ReqRecord
    OBVIOUS
  <2>. QED  BY <2>1 DEF Tick, ReqRecord
<1>. QED  BY <1>1, <1>2 DEF MarkFollows, Unmarks

\* Every step keeps the relation.
LEMMA StepFollows ==
    ASSUME GraceInv, [Next]_vars PROVE GraceInv'
<1>0. TypeOK' /\ Shape'
  BY StepType DEF GraceInv
<1>1. CASE \E q \in Req : ReqNext(q)
  BY <1>0, <1>1, ReqStepFollows, ReqStepUnmarks DEF GraceInv
<1>2. CASE \E p \in Pass : PassNext(p)
  <2>1. Unmarks'
    BY <1>2, PassStepType DEF GraceInv, Unmarks
  <2>. QED  BY <1>0, <1>2, <2>1, PassStepFollows DEF GraceInv
<1>3. CASE \E r \in Repo, m \in Manifest : DeleteManifest(r, m)
  BY <1>0, <1>3 DEF DeleteManifest, GraceInv, MarkFollows, Unmarks
<1>4. CASE Tick
  BY <1>0, <1>4, TickFollows DEF GraceInv
<1>5. CASE Crash
  BY <1>0, <1>5 DEF Crash, meta, GraceInv, MarkFollows, Unmarks, ReqIdle
<1>6. CASE UNCHANGED vars
  BY <1>0, <1>6 DEF vars, meta, GraceInv, MarkFollows, Unmarks
<1>. QED  BY <1>1, <1>2, <1>3, <1>4, <1>5, <1>6, [Next]_vars DEF Next

\* Only the decision of a collection brings a pass from its check to the
\* retraction, and it is taken on an expired mark.
LEMMA DecisionOnExpired ==
    ASSUME TypeOK, [Next]_vars, NEW p \in Pass, pass[p].pc = "check", pass'[p].pc = "retract"
    PROVE  Collectable(p, pass[p].target)
<1>. USE DEF TypeOK
<1>0. pass[p] \in PassRecord
  OBVIOUS
<1>1. ASSUME NEW p2 \in Pass, PassNext(p2), p2 # p PROVE FALSE
  <2>1. pass'[p] = pass[p]
    BY <1>1 DEF PassNext, PassStart, SweepRead, SweepApply, ScanRead, ScanApply,
       CollectLock, CollectCheck, CollectApply, CollectUnlink, PassEnd,
       PassDisconnect, PassFails, PassGoto
  <2>. QED  BY <2>1
<1>2. ASSUME PassNext(p) PROVE Collectable(p, pass[p].target)
  <2>1. CASE CollectCheck(p)
    <3>1. CASE pass' = [pass EXCEPT ![p] = PassIdle]
      BY <3>1 DEF PassIdle
    <3>2. CASE pass' = [pass EXCEPT ![p] = [pass[p] EXCEPT !.pc = "collect", !.target = None]]
      BY <1>0, <3>2 DEF PassRecord
    <3>. QED  BY <2>1, <3>1, <3>2 DEF CollectCheck, PassGoto
  <2>2. CASE PassDisconnect(p)
    <3>1. pass'[p] = [pass[p] EXCEPT !.gone = TRUE]
      BY <2>2 DEF PassDisconnect
    <3>2. pass'[p].pc = pass[p].pc
      BY <1>0, <3>1 DEF PassRecord
    <3>. QED  BY <3>2
  <2>3. CASE PassFails(p)
    BY <2>3 DEF PassFails, PassIdle
  <2>. QED
    BY <1>2, <2>1, <2>2, <2>3 DEF PassNext, PassStart, SweepRead, SweepApply, ScanRead,
       ScanApply, CollectLock, CollectApply, CollectUnlink, PassEnd
<1>3. ASSUME pass' = pass PROVE FALSE
  BY <1>3
<1>4. CASE Crash
  BY <1>4 DEF Crash, PassIdle
<1>5. CASE Tick
  <2>1. pass'[p] = [pass[p] EXCEPT !.at = @ + 1]
    BY <1>5 DEF Tick
  <2>2. pass'[p].pc = pass[p].pc
    BY <1>0, <2>1 DEF PassRecord
  <2>. QED  BY <2>2
<1>6. ASSUME NEW q \in Req, ReqNext(q) PROVE pass' = pass
  BY <1>6 DEF ReqNext, CommitLock, MountBegin, DeleteBlobPlan, PushBegin,
     CommitRename, CommitMismatch, CommitPlan, MountLock, MountPlan, PushPlan,
     Apply, DeleteBlobApply, ReqDisconnect, ReqFails
<1>7. ASSUME NEW r \in Repo, NEW m \in Manifest, DeleteManifest(r, m) PROVE pass' = pass
  BY <1>7 DEF DeleteManifest
<1>8. CASE UNCHANGED vars
  BY <1>3, <1>8 DEF vars
<1>. QED
  BY <1>1, <1>2, <1>3, <1>4, <1>5, <1>6, <1>7, <1>8, [Next]_vars DEF Next

\* A commit, a mount or a push buys its blob the grace period less the span of
\* a pass, with any number of overlapping passes, whatever clients and I/O do
\* and with references validated or not: no collection is decided on while
\* some repository has a younger membership (collect_blob, scan_blobs).
THEOREM GraceSafe == Spec => GraceHonoured
<1>1. Init => GraceInv
  <2>. SUFFICES ASSUME Init PROVE GraceInv
    OBVIOUS
  <2>. QED  BY InitType DEF Init, GraceInv, MarkFollows, Unmarks, ReqIdle
<1>2. GraceInv /\ [Next]_vars => GraceInv'
  BY StepFollows
<1>3. ASSUME GraceInv, [Next]_vars
      PROVE  \A p \in Pass : pass[p].pc = "check" /\ pass'[p].pc = "retract" =>
                \A r \in Repo : LET age == member[r][pass[p].target]
                                IN  age = None \/ age + PassSpan >= Grace
  <2>. SUFFICES ASSUME NEW p \in Pass, pass[p].pc = "check", pass'[p].pc = "retract",
                       NEW r \in Repo, member[r][pass[p].target] # None
                PROVE  member[r][pass[p].target] + PassSpan >= Grace
    OBVIOUS
  <2>. DEFINE d == pass[p].target
  <2>1. Collectable(p, d)
    BY <1>3, DecisionOnExpired DEF GraceInv
  <2>2. d \in Digest /\ mark[d] # None /\ mark[d] >= pass[p].at + Grace
    BY <1>3, <2>1 DEF GraceInv, TypeOK, Collectable, Expired
  <2>3. mark[d] <= member[r][d] + PassSpan
    BY <1>3, <2>2 DEF GraceInv, MarkFollows
  <2>4. mark[d] \in Nat /\ member[r][d] \in Nat /\ pass[p].at \in Nat
    BY <1>3, <2>2 DEF GraceInv, TypeOK, Age, PassRecord
  <2>. QED  BY <2>2, <2>3, <2>4, ClockAssumption
<1>. QED  BY <1>1, <1>2, <1>3, PTL DEF Spec, GraceHonoured

----------------------------------------------------------------------------
(* No bytes without a record.  LeaksOnlyByFault speaks of quiet states; on   *)
(* the way every file without a record is accounted for by somebody who is   *)
(* about to write the record or to unlink the file, and who, while clients   *)
(* stay and nothing faults, cannot stop before that.                         *)

\* Nobody's client is gone, and a commit will record the blob it renames.
Attended ==
    /\ \A q \in Req : /\ req[q].gone = FALSE
                      /\ req[q].pc = "commit" => req[q].create = req[q].items
    /\ \A p \in Pass : pass[p].gone = FALSE

WillRecord(q, d) == req[q].pc \in {"plan", "apply"} /\ d \in req[q].create
WillUnlink(p, d) == pass[p].pc = "unlink" /\ pass[p].target = d

Accounted(d) ==
    \/ d \in blob
    \/ \E q \in Req : WillRecord(q, d)
    \/ \E p \in Pass : WillUnlink(p, d)

LeakInv ==
    /\ TypeOK
    /\ Shape
    /\ Attended
    /\ faults = 0 => \A d \in file : Accounted(d)

\* Whatever a step leaves of the records and of those about to act, it leaves
\* the account of a file that was there.
LEMMA StillAccounted ==
    ASSUME NEW d, Accounted(d), blob \subseteq blob',
           \A q \in Req : WillRecord(q, d) => WillRecord(q, d)' \/ d \in blob',
           \A p \in Pass : WillUnlink(p, d) => WillUnlink(p, d)'
    PROVE  Accounted(d)'
BY DEF Accounted

\* A request's step keeps everybody attended: clients stay.
LEMMA ReqStepAttended ==
    ASSUME LeakInv, ~Disconnects, NEW q \in Req, ReqNext(q)
    PROVE  /\ Attended'
           /\ pass' = pass
           /\ \A q2 \in Req \ {q} : req'[q2] = req[q2]
<1>. USE DEF LeakInv, TypeOK, meta
<1>0. req[q] \in ReqRecord /\ req[q].gone = FALSE
  BY DEF Attended
<1>1. pass' = pass
  BY ReqNext(q) DEF ReqNext, CommitLock, MountBegin, DeleteBlobPlan, PushBegin,
     CommitRename, CommitMismatch, CommitPlan, MountLock, MountPlan, PushPlan,
     Apply, DeleteBlobApply, ReqDisconnect, ReqFails
<1>2. \A q2 \in Req \ {q} : req'[q2] = req[q2]
  BY ReqNext(q) DEF ReqNext, CommitLock, MountBegin, DeleteBlobPlan, PushBegin,
     CommitRename, Goto, CommitMismatch, CommitPlan, MountLock, MountPlan,
     PushPlan, Apply, DeleteBlobApply, ReqDisconnect, ReqFails
<1>3. req'[q].gone = FALSE /\ (req'[q].pc = "commit" => req'[q].create = req'[q].items)
  <2>i. CASE req'[q] = ReqIdle
    BY <2>i DEF ReqIdle
  <2>1. ASSUME NEW r \in Repo, NEW d \in Digest,
               req'[q] = [ReqIdle EXCEPT !.pc = "commit", !.repo = r, !.items = {d},
                                         !.create = {d}]
        PROVE  req'[q].gone = FALSE /\ req'[q].create = req'[q].items
    BY <2>1 DEF ReqIdle
  <2>2. ASSUME NEW r \in Repo, NEW d \in Digest, CommitLock(q, r, d)
        PROVE  req'[q].gone = FALSE /\ req'[q].create = req'[q].items
    BY <2>1, <2>2 DEF CommitLock
  <2>3. ASSUME NEW r \in Repo, NEW d \in Digest,
               MountBegin(q, r, d) \/ DeleteBlobPlan(q, r, d)
        PROVE  req'[q].gone = FALSE /\ req'[q].pc # "commit"
    <3>1. CASE MountBegin(q, r, d)
      BY <3>1 DEF MountBegin, ReqIdle
    <3>2. CASE DeleteBlobPlan(q, r, d)
      BY <3>2 DEF DeleteBlobPlan, ReqIdle
    <3>. QED  BY <2>3, <3>1, <3>2
  <2>4. ASSUME NEW r \in Repo, NEW m \in Manifest, PushBegin(q, r, m)
        PROVE  req'[q].gone = FALSE /\ req'[q].pc # "commit"
    BY <2>4 DEF PushBegin, ReqIdle
  <2>5. CASE CommitRename(q)
    <3>1. req'[q] = [req[q] EXCEPT !.pc = "plan", !.at = 0]
      BY <1>0, <2>5 DEF CommitRename, Goto
    <3>. QED  BY <1>0, <3>1 DEF ReqRecord
  <2>6. CASE CommitPlan(q) \/ \E from \in Repo \cup {None} : MountPlan(q, from)
    <3>1. CASE req'[q] = [req[q] EXCEPT !.pc = "apply",
                             !.fresh = Absent(req[q].repo, req[q].items)]
      BY <1>0, <3>1 DEF ReqRecord
    <3>. QED  BY <2>i, <2>6, <3>1 DEF CommitPlan, MountPlan
  <2>7. CASE MountLock(q)
    <3>1. req'[q] = [req[q] EXCEPT !.pc = "mountplan"]
      BY <2>7 DEF MountLock
    <3>. QED  BY <1>0, <3>1 DEF ReqRecord
  <2>8. CASE PushPlan(q) /\ req'[q] # ReqIdle
    <3>. DEFINE ds == Staged(req[q].repo, req[q].man)
    <3>1. req'[q] = [req[q] EXCEPT !.pc = "apply", !.items = ds, !.create = ds \ blob,
                           !.fresh = Absent(req[q].repo, ds)]
      BY <2>8 DEF PushPlan
    <3>. HIDE DEF ds
    <3>. QED  BY <1>0, <3>1 DEF ReqRecord
  <2>9. CASE CommitMismatch(q) \/ Apply(q) \/ DeleteBlobApply(q) \/ ReqFails(q)
    BY <2>i, <2>9 DEF CommitMismatch, Apply, DeleteBlobApply, ReqFails
  <2>. QED
    BY <2>i, <2>2, <2>3, <2>4, <2>5, <2>6, <2>7, <2>8, <2>9, ReqNext(q)
    DEF ReqNext, ReqDisconnect
<1>. QED  BY <1>1, <1>2, <1>3 DEF Attended

\* A request's step accounts for every file.
LEMMA ReqStepAccounts ==
    ASSUME LeakInv, ~Disconnects, NEW q \in Req, ReqNext(q), TypeOK',
           faults' = 0, NEW d \in file'
    PROVE  Accounted(d)'
<1>. USE DEF LeakInv, TypeOK, meta
<1>0. req[q] \in ReqRecord /\ req[q].gone = FALSE /\ req'[q] \in ReqRecord
  BY DEF Attended
<1>f. ~ReqFails(q) /\ faults' = faults
  <2>1. ~ReqFails(q)
    BY ClockAssumption DEF ReqFails
  <2>. QED
    BY <2>1, ReqNext(q) DEF ReqNext, CommitLock, MountBegin, DeleteBlobPlan, PushBegin,
       CommitRename, CommitMismatch, CommitPlan, MountLock, MountPlan, PushPlan,
       Apply, DeleteBlobApply, ReqDisconnect
<1>p. \A p \in Pass : WillUnlink(p, d) => WillUnlink(p, d)'
  BY ReqStepAttended DEF WillUnlink
<1>b. blob \subseteq blob'
  BY ReqNext(q) DEF ReqNext, CommitLock, MountBegin, DeleteBlobPlan, PushBegin,
     CommitRename, CommitMismatch, CommitPlan, MountLock, MountPlan, PushPlan,
     Apply, DeleteBlobApply, ReqDisconnect, ReqFails
<1>1. CASE CommitRename(q) /\ d \in req[q].items
  <2>1. req'[q] = [req[q] EXCEPT !.pc = "plan", !.at = 0]
    BY <1>0, <1>1 DEF CommitRename, Goto
  <2>2. req'[q].pc = "plan" /\ req'[q].create = req[q].create
    BY <1>0, <2>1 DEF ReqRecord
  <2>3. d \in req[q].create
    BY <1>1 DEF CommitRename, Attended
  <2>. QED  BY <2>2, <2>3 DEF Accounted, WillRecord
<1>2. CASE ~(CommitRename(q) /\ d \in req[q].items)
  <2>1. d \in file
    BY <1>2, <1>f, ReqNext(q) DEF ReqNext, CommitLock, MountBegin, DeleteBlobPlan, PushBegin,
       CommitRename, CommitMismatch, CommitPlan, MountLock, MountPlan, PushPlan,
       Apply, DeleteBlobApply, ReqDisconnect
  <2>2. Accounted(d)
    BY <1>f, <2>1
  <2>3. WillRecord(q, d) => WillRecord(q, d)' \/ d \in blob'
    <3>. SUFFICES ASSUME WillRecord(q, d) PROVE WillRecord(q, d)' \/ d \in blob'
      OBVIOUS
    <3>1. CASE Apply(q)
      BY <3>1 DEF Apply, WillRecord
    <3>2. CASE CommitPlan(q)
      <4>1. req'[q] = [req[q] EXCEPT !.pc = "apply",
                             !.fresh = Absent(req[q].repo, req[q].items)]
        BY <3>2 DEF CommitPlan
      <4>2. req'[q].pc = "apply" /\ req'[q].create = req[q].create
        BY <1>0, <4>1 DEF ReqRecord
      <4>. QED  BY <4>2 DEF WillRecord
    <3>. QED
      BY <1>f, <3>1, <3>2, ReqNext(q) DEF WillRecord, ReqNext, CommitLock, MountBegin,
         DeleteBlobPlan, PushBegin, CommitRename, CommitMismatch, MountLock, MountPlan,
         PushPlan, DeleteBlobApply, ReqDisconnect
  <2>4. \A q2 \in Req : WillRecord(q2, d) => WillRecord(q2, d)' \/ d \in blob'
    <3>1. \A q2 \in Req \ {q} : WillRecord(q2, d) => WillRecord(q2, d)'
      BY ReqStepAttended DEF WillRecord
    <3>. QED  BY <2>3, <3>1
  <2>. QED  BY <1>p, <1>b, <2>2, <2>4, StillAccounted
<1>. QED  BY <1>1, <1>2

\* A pass's step keeps everybody attended.
LEMMA PassStepAttended ==
    ASSUME LeakInv, ~Disconnects, NEW p \in Pass, PassNext(p)
    PROVE  Attended' /\ \A p2 \in Pass \ {p} : pass'[p2] = pass[p2]
<1>. USE DEF LeakInv, TypeOK, meta
<1>0. pass[p] \in PassRecord /\ pass[p].gone = FALSE
  BY DEF Attended
<1>1. \A p2 \in Pass \ {p} : pass'[p2] = pass[p2]
  BY PassNext(p) DEF PassNext, PassStart, SweepRead, SweepApply, ScanRead,
     ScanApply, CollectLock, CollectCheck, CollectApply, CollectUnlink, PassEnd,
     PassDisconnect, PassFails, PassGoto
<1>i. CASE pass'[p] = PassIdle
  <2>1. pass'[p].gone = FALSE
    BY <1>i DEF PassIdle
  <2>. QED  BY <1>1, <2>1, PassStepType DEF Attended
<1>2. CASE pass'[p].gone = FALSE
  BY <1>1, <1>2, PassStepType DEF Attended
<1>3. ASSUME NEW kind \in PassKind, PassStart(p, kind) PROVE pass'[p].gone = FALSE
  BY <1>3 DEF PassStart, PassIdle
<1>4. CASE SweepRead(p) \/ ScanRead(p)
  <2>1. pass'[p].gone = pass[p].gone
    <3>1. CASE SweepRead(p)
      BY <1>0, <3>1 DEF SweepRead, PassRecord
    <3>2. CASE ScanRead(p)
      BY <1>0, <3>2 DEF ScanRead, PassRecord
    <3>. QED  BY <1>4, <3>1, <3>2
  <2>. QED  BY <1>0, <1>2, <2>1
<1>5. CASE SweepApply(p)
  <2>1. pass'[p] = [pass[p] EXCEPT !.pc = "blobs", !.drop = {}]
    BY <1>0, <1>5 DEF SweepApply, PassGoto
  <2>. QED  BY <1>0, <1>2, <2>1 DEF PassRecord
<1>6. CASE ScanApply(p)
  <2>1. pass'[p] = [pass[p] EXCEPT !.pc = "collect", !.set = {}, !.clear = {},
                                   !.ripe = IF pass[p].kind = "dry" THEN {} ELSE @]
    BY <1>0, <1>6 DEF ScanApply, PassGoto
  <2>. QED  BY <1>0, <1>2, <2>1 DEF PassRecord
<1>7. ASSUME NEW d \in Digest, CollectLock(p, d) PROVE pass'[p].gone = FALSE
  <2>1. pass'[p] = [pass[p] EXCEPT !.pc = "check", !.target = d, !.ripe = @ \ {d}]
    BY <1>7 DEF CollectLock
  <2>. QED  BY <1>0, <2>1 DEF PassRecord
<1>8. CASE CollectCheck(p)
  <2>1. CASE pass'[p] = [pass[p] EXCEPT !.pc = "retract"]
    BY <1>0, <1>2, <2>1 DEF PassRecord
  <2>2. CASE pass'[p] = [pass[p] EXCEPT !.pc = "collect", !.target = None]
    BY <1>0, <1>2, <2>2 DEF PassRecord
  <2>. QED  BY <1>0, <1>8, <2>1, <2>2 DEF CollectCheck, PassGoto
<1>9. CASE CollectApply(p)
  <2>1. pass'[p] = [pass[p] EXCEPT !.pc = "unlink"]
    BY <1>0, <1>9 DEF CollectApply, PassGoto
  <2>. QED  BY <1>0, <1>2, <2>1 DEF PassRecord
<1>10. CASE CollectUnlink(p)
  <2>1. pass'[p] = [pass[p] EXCEPT !.pc = "collect", !.target = None]
    BY <1>0, <1>10 DEF CollectUnlink, PassGoto
  <2>. QED  BY <1>0, <1>2, <2>1 DEF PassRecord
<1>11. CASE PassEnd(p) \/ PassFails(p)
  BY <1>i, <1>11 DEF PassEnd, PassFails
<1>. QED
  BY <1>1, <1>2, <1>3, <1>4, <1>5, <1>6, <1>7, <1>8, <1>9, <1>10, <1>11, PassNext(p)
  DEF PassNext, PassDisconnect

\* A pass's step accounts for every file: a collection that retracts the record
\* goes on to unlink the file.
LEMMA PassStepAccounts ==
    ASSUME LeakInv, ~Disconnects, NEW p \in Pass, PassNext(p),
           faults' = 0, NEW d \in file'
    PROVE  Accounted(d)'
<1>. USE DEF LeakInv, TypeOK, meta
<1>0. pass[p] \in PassRecord /\ pass[p].gone = FALSE
  BY DEF Attended
<1>f. ~PassFails(p) /\ faults' = faults
  <2>1. ~PassFails(p)
    BY ClockAssumption DEF PassFails
  <2>. QED
    BY <2>1, PassNext(p) DEF PassNext, PassStart, SweepRead, SweepApply, ScanRead,
       ScanApply, CollectLock, CollectCheck, CollectApply, CollectUnlink, PassEnd,
       PassDisconnect
<1>1. d \in file /\ (CollectUnlink(p) => d # pass[p].target)
  BY <1>f, PassNext(p) DEF PassNext, PassStart, SweepRead, SweepApply, ScanRead,
     ScanApply, CollectLock, CollectCheck, CollectApply, CollectUnlink, PassEnd,
     PassDisconnect
<1>2. Accounted(d)
  BY <1>f, <1>1
<1>3. \A q \in Req : WillRecord(q, d) => WillRecord(q, d)'
  BY PassStepType DEF WillRecord
<1>4. \A p2 \in Pass : WillUnlink(p2, d) => WillUnlink(p2, d)'
  <2>1. \A p2 \in Pass \ {p} : WillUnlink(p2, d) => WillUnlink(p2, d)'
    BY PassStepAttended DEF WillUnlink
  <2>2. ~WillUnlink(p, d)
    <3>. SUFFICES ASSUME WillUnlink(p, d) PROVE FALSE
      OBVIOUS
    <3>1. pass[p].pc = "unlink" /\ pass[p].target = d
      BY DEF WillUnlink
    <3>2. CollectUnlink(p)
      BY <1>f, <3>1, PassNext(p) DEF PassNext, PassStart, SweepRead, SweepApply, ScanRead,
         ScanApply, CollectLock, CollectCheck, CollectApply, PassEnd, PassDisconnect
    <3>. QED  BY <1>1, <3>1, <3>2
  <2>. QED  BY <2>1, <2>2
<1>5. CASE CollectApply(p) /\ d = pass[p].target
  <2>1. pass'[p] = [pass[p] EXCEPT !.pc = "unlink"]
    BY <1>0, <1>5 DEF CollectApply, PassGoto
  <2>2. pass'[p].pc = "unlink" /\ pass'[p].target = d
    BY <1>0, <1>5, <2>1 DEF PassRecord
  <2>. QED  BY <2>2 DEF Accounted, WillUnlink
<1>6. CASE ~(CollectApply(p) /\ d = pass[p].target)
  <2>1. d \in blob => d \in blob'
    BY <1>6, PassNext(p) DEF PassNext, PassStart, SweepRead, SweepApply, ScanRead,
       ScanApply, CollectLock, CollectCheck, CollectApply, CollectUnlink, PassEnd,
       PassDisconnect, PassFails
  <2>. QED  BY <1>2, <1>3, <1>4, <2>1 DEF Accounted
<1>. QED  BY <1>5, <1>6

\* Every step accounts for every file.
LEMMA StepAccounts ==
    ASSUME LeakInv, ~Disconnects, [Next]_vars PROVE LeakInv'
<1>0. TypeOK' /\ Shape'
  BY StepType DEF LeakInv
<1>1. CASE \E q \in Req : ReqNext(q)
  BY <1>0, <1>1, ReqStepAttended, ReqStepAccounts DEF LeakInv
<1>2. CASE \E p \in Pass : PassNext(p)
  BY <1>0, <1>2, PassStepAttended, PassStepAccounts DEF LeakInv
<1>3. CASE \E r \in Repo, m \in Manifest : DeleteManifest(r, m)
  BY <1>0, <1>3 DEF DeleteManifest, LeakInv, Attended, Accounted, WillRecord, WillUnlink
<1>4. CASE Tick
  <2>1. ASSUME NEW q \in Req
        PROVE  /\ req'[q].pc = req[q].pc /\ req'[q].gone = req[q].gone
               /\ req'[q].items = req[q].items /\ req'[q].create = req[q].create
    <3>1. req[q] \in ReqRecord
      BY DEF LeakInv, TypeOK
    <3>. QED  BY <1>4, <3>1 DEF Tick, ReqRecord
  <2>2. ASSUME NEW p \in Pass
        PROVE  /\ pass'[p].pc = pass[p].pc /\ pass'[p].target = pass[p].target
               /\ pass'[p].gone = pass[p].gone
    <3>1. pass[p] \in PassRecord
      BY DEF LeakInv, TypeOK
    <3>. QED  BY <1>4, <3>1 DEF Tick, PassRecord
  <2>3. file' = file /\ blob' = blob /\ faults' = faults
    BY <1>4 DEF Tick
  <2>4. Attended'
    BY <2>1, <2>2 DEF LeakInv, Attended
  <2>5. \A d : Accounted(d) => Accounted(d)'
    BY <2>1, <2>2, <2>3 DEF Accounted, WillRecord, WillUnlink
  <2>. QED  BY <1>0, <2>3, <2>4, <2>5 DEF LeakInv
<1>5. CASE Crash
  <2>1. faults' # 0
    BY <1>5, ClockAssumption DEF Crash, LeakInv, TypeOK
  <2>2. Attended'
    BY <1>5 DEF Crash, Attended, ReqIdle, PassIdle
  <2>. QED  BY <1>0, <2>1, <2>2 DEF LeakInv
<1>6. CASE UNCHANGED vars
  BY <1>0, <1>6 DEF vars, meta, LeakInv, Attended, Accounted, WillRecord, WillUnlink
<1>. QED  BY <1>1, <1>2, <1>3, <1>4, <1>5, <1>6, [Next]_vars DEF Next

\* While clients stay, only a crash or an I/O error strands bytes: until the
\* first of them, whenever nothing runs, every file has its record, after any
\* interleaving of commits, mounts, pushes, deletes and overlapping passes and
\* with references validated or not (finish_upload, purge_blobs).
THEOREM LeakSafe == ASSUME ~Disconnects PROVE Spec => []LeaksOnlyByFault
<1>1. Init => LeakInv
  BY InitType DEF Init, LeakInv, Attended, ReqIdle, PassIdle
<1>2. LeakInv /\ [Next]_vars => LeakInv'
  BY StepAccounts
<1>3. LeakInv => LeaksOnlyByFault
  BY DEF LeakInv, LeaksOnlyByFault, Quiescent, Accounted, WillRecord, WillUnlink
<1>. QED  BY <1>1, <1>2, <1>3, PTL DEF Spec
=============================================================================
