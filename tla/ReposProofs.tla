---------------------------- MODULE ReposProofs ----------------------------
(***************************************************************************)
(* Proofs about Repos, for any number of ids, requests and faults:         *)
(*   - the type invariant;                                                 *)
(*   - FreshStart: a name interned again finds nothing under its id;       *)
(*   - StrandedOnlyByRace: what no name and no tombstone leads to was left *)
(*     by an operation whose resolution of the name had been overtaken.    *)
(***************************************************************************)
EXTENDS Repos, TLAPS

----------------------------------------------------------------------------
(* The inductive invariant.                                                *)

\* The control records.
ProcRecord == [pc : {"idle", "lookup", "intern", "remember", "act", "wait",
                     "unname", "forget"},
               kind : Kind \cup {None}, id : Id \cup {None},
               water : (0..MaxId) \cup {None}]

\* Who is about to use an id has one.
Shaped(rec) == rec.pc \in {"remember", "act", "unname"} => rec.id \in Id

\* A push, and a pass that is retiring, hold the repository's lock.
Control == \A x \in Proc : Shaped(proc[x]) /\ (Holds(x, proc[x]) => lock = x)

\* Every id in use was handed out.
Issued ==
    /\ name # None => name < next
    /\ cache # None => cache < next
    /\ \A x \in Proc : proc[x].id # None => proc[x].id < next
    /\ \A i \in dead : i < next
    /\ \A i \in Id : content[i] # {} => i < next

\* The name never leads to an id with a tombstone.
NameAlive == name \notin dead

\* Edges lie beside the records they are found through.
EdgesBesideRecords ==
    \A i \in Id : "R" \in content[i] => "M" \in content[i] \/ i \in raced

\* What is being swept has its tombstone, and the edges that the sweep will not
\* take, or has already gone by, are a straggler's.
SweepKeepsUp ==
    sweep.pc # "idle" =>
       /\ sweep.id \in dead
       /\ sweep.pc = "finish" \/ ~sweep.seen =>
             ("R" \in content[sweep.id] => sweep.id \in raced)

\* What a pass is about to unname is still empty: pushes wait for its lock.
RetiresEmpty ==
    proc[Purger].pc = "unname" => content[proc[Purger].id] \cap {"M", "R"} = {}

StoreOK == NameAlive /\ EdgesBesideRecords /\ SweepKeepsUp /\ StrandedOnlyByRace

IInv == TypeOK /\ Control /\ Issued /\ StoreOK /\ RetiresEmpty

----------------------------------------------------------------------------
(* Control.                                                                *)

\* Ids and counters are naturals, and None is none of them.
LEMMA Ids ==
    /\ Id \subseteq Nat /\ Id \subseteq 0..MaxId
    /\ None \notin Id /\ None \notin 0..MaxId /\ None \notin Proc
    /\ \A i \in Nat : i \in Id <=> i < MaxId
    /\ 0 \in 0..MaxId /\ Purger \in Proc
BY BoundAssumption, NoneAssumption DEF Id, Proc

\* The idle states have their types.
LEMMA IdleTypes ==
    /\ Idle \in ProcRecord /\ Idle.pc = "idle" /\ Idle.id = None /\ Idle.kind = None
    /\ SweepIdle.pc = "idle"
    /\ SweepIdle \in [pc : {"idle", "refs", "finish"}, id : Id \cup {None}, seen : BOOLEAN]
BY DEF Idle, SweepIdle, ProcRecord

\* An idle process holds nothing and uses no id.
LEMMA IdleHolds == \A x : ~Holds(x, Idle) /\ Shaped(Idle)
BY NoneAssumption, IdleTypes DEF Holds, Shaped, Kind

\* A process goes on: the others stay, and the lock stays with who holds it.
LEMMA GotoSafe ==
    ASSUME TypeOK, Control, NEW x \in Proc, NEW r \in ProcRecord, Goto(x, r),
           Shaped(r), Holds(x, r) => lock \in {x, None}
    PROVE  /\ proc' \in [Proc -> ProcRecord] /\ lock' \in Proc \cup {None}
           /\ Control'
           /\ proc'[x] = r /\ \A y \in Proc : y # x => proc'[y] = proc[y]
<1>1. /\ proc' \in [Proc -> ProcRecord]
      /\ proc'[x] = r /\ \A y \in Proc : y # x => proc'[y] = proc[y]
  BY DEF Goto, TypeOK, ProcRecord
<1>2. lock' \in Proc \cup {None}
  BY DEF Goto, TypeOK
<1>3. ASSUME NEW y \in Proc PROVE Shaped(proc'[y]) /\ (Holds(y, proc'[y]) => lock' = y)
  <2>1. CASE y = x
    BY <1>1, <2>1 DEF Goto
  <2>2. CASE y # x
    <3>1. Shaped(proc[y]) /\ (Holds(y, proc[y]) => lock = y)
      BY DEF Control
    <3>2. lock = y => ~Holds(x, r) /\ lock' = y
      BY <2>2, Ids DEF Goto
    <3>. QED  BY <1>1, <2>2, <3>1, <3>2
  <2>. QED  BY <2>1, <2>2
<1>. QED  BY <1>1, <1>2, <1>3 DEF Control

\* A step that writes nothing to the store and leaves the sweep alone keeps
\* what is known of them.
LEMMA StoreKept ==
    ASSUME StoreOK, UNCHANGED <<name, dead, content, sweep, raced>> PROVE StoreOK'
BY DEF StoreOK, NameAlive, EdgesBesideRecords, SweepKeepsUp, StrandedOnlyByRace, Stranded

\* A process goes on with an id that was handed out, and nothing is written.
LEMMA GotoQuietly ==
    ASSUME IInv, UNCHANGED <<store, sweep, raced>>, NEW x \in Proc, NEW r \in ProcRecord,
           Goto(x, r), Shaped(r), Holds(x, r) => lock \in {x, None},
           r.id # None => r.id < next,
           r.pc = "unname" => content[r.id] \cap {"M", "R"} = {},
           cache' \in Id \cup {None}, cache' # None => cache' < next,
           mark' = mark, faults' \in 0..MaxFaults
    PROVE  IInv'
<1>. USE DEF IInv, store
<1>1. /\ proc' \in [Proc -> ProcRecord] /\ lock' \in Proc \cup {None}
      /\ Control'
      /\ proc'[x] = r /\ \A y \in Proc : y # x => proc'[y] = proc[y]
  BY GotoSafe
<1>2. TypeOK'
  BY <1>1 DEF TypeOK, ProcRecord
<1>3. Issued'
  BY <1>1 DEF Issued
<1>4. StoreOK'
  BY StoreKept
<1>5. RetiresEmpty'
  BY <1>1, Ids DEF RetiresEmpty
<1>. QED  BY <1>1, <1>2, <1>3, <1>4, <1>5

\* Where a lookup leaves the process: with the id the cache or the store gave,
\* about to intern, or done.
LEMMA LookupGoes ==
    ASSUME TypeOK, NEW x, NEW rec \in ProcRecord, Lookup(x, rec)
    PROVE  \E r \in ProcRecord :
              /\ Goto(x, r) /\ Shaped(r)
              /\ r.pc \in {"act", "remember", "intern", "idle"}
              /\ r.kind \in {rec.kind, None}
              /\ r.id \in {cache, name, rec.id, None}
<1>1. ASSUME NEW i \in Id, i \in {cache, name}, NEW pc \in {"act", "remember"},
             Goto(x, [rec EXCEPT !.pc = pc, !.id = i])
      PROVE  \E r \in ProcRecord :
                /\ Goto(x, r) /\ Shaped(r)
                /\ r.pc \in {"act", "remember", "intern", "idle"}
                /\ r.kind \in {rec.kind, None}
                /\ r.id \in {cache, name, rec.id, None}
  <2>. DEFINE r == [rec EXCEPT !.pc = pc, !.id = i]
  <2>1. r \in ProcRecord /\ r.pc = pc /\ r.id = i /\ r.kind = rec.kind
    BY <1>1 DEF ProcRecord
  <2>2. Goto(x, r)
    BY <1>1
  <2>. HIDE DEF r
  <2>. QED  BY <1>1, <2>1, <2>2 DEF Shaped
<1>2. CASE Goto(x, [rec EXCEPT !.pc = "intern"])
  <2>. DEFINE r == [rec EXCEPT !.pc = "intern"]
  <2>1. r \in ProcRecord /\ r.pc = "intern" /\ r.id = rec.id /\ r.kind = rec.kind
    BY DEF ProcRecord
  <2>2. Goto(x, r)
    BY <1>2
  <2>. HIDE DEF r
  <2>. QED  BY <2>1, <2>2 DEF Shaped
<1>3. CASE Goto(x, Idle)
  BY <1>3, IdleTypes, IdleHolds
<1>4. \/ cache # None /\ Goto(x, [rec EXCEPT !.pc = "act", !.id = cache])
      \/ name # None /\ Goto(x, [rec EXCEPT !.pc = "remember", !.id = name])
      \/ Goto(x, [rec EXCEPT !.pc = "intern"]) \/ Goto(x, Idle)
  BY DEF Lookup
<1>. QED  BY <1>1, <1>2, <1>3, <1>4 DEF TypeOK

\* A lookup that writes nothing, by a process whose record was sound.
LEMMA LookupSafe ==
    ASSUME IInv, UNCHANGED <<store, sweep, raced, cache, mark, faults>>,
           NEW x \in Proc, NEW rec \in ProcRecord, Lookup(x, rec),
           rec.id # None => rec.id < next,
           rec.kind = "push" \/ x = Purger => lock \in {x, None}
    PROVE  IInv'
<1>1. PICK r \in ProcRecord :
              /\ Goto(x, r) /\ Shaped(r)
              /\ r.pc \in {"act", "remember", "intern", "idle"}
              /\ r.kind \in {rec.kind, None}
              /\ r.id \in {cache, name, rec.id, None}
  BY LookupGoes DEF IInv
<1>2. Holds(x, r) => lock \in {x, None}
  BY <1>1, NoneAssumption DEF Holds, Kind
<1>3. r.id # None => r.id < next
  BY <1>1 DEF IInv, Issued
<1>4. cache \in Id \cup {None} /\ (cache # None => cache < next) /\ faults \in 0..MaxFaults
  BY DEF IInv, Issued, TypeOK
<1>. QED  BY <1>1, <1>2, <1>3, <1>4, GotoQuietly

----------------------------------------------------------------------------
(* The steps.                                                              *)

\* What a process's own record says.
LEMMA Own ==
    ASSUME IInv, NEW x \in Proc
    PROVE  /\ proc[x] \in ProcRecord /\ Shaped(proc[x])
           /\ proc[x].id # None => proc[x].id < next
           /\ Holds(x, proc[x]) => lock = x
           /\ name \in Id \cup {None} /\ cache \in Id \cup {None}
           /\ (name # None => name < next) /\ (cache # None => cache < next)
           /\ next \in Nat /\ next \in 0..MaxId /\ faults \in 0..MaxFaults
BY Ids DEF IInv, TypeOK, Control, Issued, ProcRecord

\* The interner.
LEMMA InternSafe == ASSUME IInv, NEW x \in Proc, Intern(x) PROVE IInv'
<1>o. /\ proc[x] \in ProcRecord /\ Shaped(proc[x])
      /\ proc[x].id # None => proc[x].id < next
      /\ Holds(x, proc[x]) => lock = x
      /\ name \in Id \cup {None} /\ cache \in Id \cup {None}
      /\ (name # None => name < next) /\ (cache # None => cache < next)
      /\ next \in Nat /\ next \in 0..MaxId /\ faults \in 0..MaxFaults
  BY Own
<1>h. proc[x].kind = "push" \/ x = Purger => lock = x
  BY <1>o DEF Holds, Intern
<1>1. CASE Lookup(x, proc[x]) /\ UNCHANGED <<name, next>>
  <2>1. UNCHANGED <<store, sweep, raced, cache, mark, faults>>
    BY <1>1 DEF Intern, store
  <2>. QED  BY <1>o, <1>h, <1>1, <2>1, LookupSafe
<1>2. CASE Goto(x, Idle) /\ UNCHANGED <<name, next>>
  <2>1. UNCHANGED <<store, sweep, raced, cache, mark, faults>>
    BY <1>2 DEF Intern, store
  <2>. QED  BY <1>o, <1>2, <2>1, GotoQuietly, IdleTypes, IdleHolds
\* The new id is the counter: nothing is under it and it has no tombstone.
<1>3. CASE /\ cache = None /\ name = None /\ next < MaxId
           /\ name' = next /\ next' = next + 1
           /\ Goto(x, [proc[x] EXCEPT !.pc = "remember", !.id = next])
  <2>. DEFINE r == [proc[x] EXCEPT !.pc = "remember", !.id = next]
  <2>0. UNCHANGED <<dead, content, cache, mark, sweep, raced, faults>>
    BY <1>3 DEF Intern
  <2>1. next \in Id /\ next + 1 \in 0..MaxId
    BY <1>o, <1>3, Ids, BoundAssumption
  <2>2. r \in ProcRecord /\ r.pc = "remember" /\ r.id = next /\ r.kind = proc[x].kind
    BY <1>o, <2>1 DEF ProcRecord
  <2>. HIDE DEF r
  <2>3. Goto(x, r)
    BY <1>3 DEF r
  <2>4. Shaped(r) /\ (Holds(x, r) => lock \in {x, None})
    BY <1>h, <2>1, <2>2 DEF Shaped, Holds
  <2>5. /\ proc' \in [Proc -> ProcRecord] /\ lock' \in Proc \cup {None}
        /\ Control'
        /\ proc'[x] = r /\ \A y \in Proc : y # x => proc'[y] = proc[y]
    BY <2>2, <2>3, <2>4, GotoSafe DEF IInv
  <2>6. TypeOK'
    BY <1>3, <2>0, <2>1, <2>5 DEF IInv, TypeOK, ProcRecord
  <2>7. Issued'
    <3>1. \A y \in Proc : proc[y].id \in Nat \cup {None}
      BY Ids DEF IInv, TypeOK, ProcRecord
    <3>2. \A y \in Proc : proc'[y].id # None => proc'[y].id < next'
      BY <1>o, <1>3, <2>2, <2>5, <3>1, Ids DEF IInv, Issued
    <3>3. /\ \A i \in dead' : i < next'
          /\ \A i \in Id : content'[i] # {} => i < next'
      BY <1>o, <1>3, <2>0, Ids DEF IInv, Issued, TypeOK
    <3>. QED  BY <1>o, <1>3, <2>0, <3>2, <3>3 DEF Issued
  <2>8. name' \notin dead /\ content[name'] = {}
    BY <1>o, <1>3, <2>1 DEF IInv, Issued
  <2>9. StoreOK'
    <3>1. NameAlive'
      BY <2>0, <2>8 DEF NameAlive
    <3>2. StrandedOnlyByRace'
      BY <1>3, <2>0, Ids DEF IInv, StoreOK, StrandedOnlyByRace, Stranded
    <3>. QED  BY <2>0, <3>1, <3>2
              DEF IInv, StoreOK, EdgesBesideRecords, SweepKeepsUp
  <2>10. RetiresEmpty'
    BY <2>0, <2>2, <2>5, Ids DEF IInv, RetiresEmpty
  <2>. QED  BY <2>5, <2>6, <2>7, <2>9, <2>10 DEF IInv
<1>. QED  BY <1>1, <1>2, <1>3 DEF Intern, Stop

LEMMA RememberSafe == ASSUME IInv, NEW x \in Proc, Remember(x) PROVE IInv'
<1>. DEFINE r == [proc[x] EXCEPT !.pc = "act"]
<1>1. /\ proc[x] \in ProcRecord /\ Shaped(proc[x]) /\ proc[x].pc = "remember"
      /\ proc[x].id # None => proc[x].id < next
      /\ Holds(x, proc[x]) => lock = x
      /\ faults \in 0..MaxFaults
  BY Own DEF Remember
<1>2. r \in ProcRecord /\ r.pc = "act" /\ r.id = proc[x].id /\ r.kind = proc[x].kind
  BY <1>1 DEF ProcRecord
<1>3. Goto(x, r)
  BY DEF Remember, Step
<1>. HIDE DEF r
<1>4. Shaped(r) /\ (Holds(x, r) => lock \in {x, None})
  BY <1>1, <1>2 DEF Shaped, Holds
<1>5. cache' = proc[x].id /\ proc[x].id \in Id /\ UNCHANGED <<store, mark, sweep, raced, faults>>
  BY <1>1 DEF Remember, Shaped
<1>. QED  BY <1>1, <1>2, <1>3, <1>4, <1>5, GotoQuietly

\* A process stops, and the cache forgets or stays.
LEMMA StopSafe ==
    ASSUME IInv, NEW x \in Proc, Stop(x), cache' \in {cache, None},
           UNCHANGED <<store, mark, sweep, raced>>, faults' \in 0..MaxFaults
    PROVE  IInv'
<1>1. Goto(x, Idle)
  BY DEF Stop
<1>2. cache' \in Id \cup {None} /\ (cache' # None => cache' < next)
  BY Own
<1>. QED  BY <1>1, <1>2, GotoQuietly, IdleTypes, IdleHolds

\* Every step of the interner.
LEMMA ResolveSafe == ASSUME IInv, NEW x \in Proc, Resolve(x) PROVE IInv'
<1>1. CASE Forget(x)
  <2>1. Stop(x) /\ cache' = None /\ UNCHANGED <<store, mark, sweep, raced, faults>>
    BY <1>1 DEF Forget
  <2>. QED  BY <2>1, StopSafe, Own
<1>. QED  BY <1>1, InternSafe, RememberSafe DEF Resolve

\* A request resolves its name.
LEMMA BeginSafe ==
    ASSUME IInv, NEW q \in Req, NEW kind \in Kind \ {"retire"}, Begin(q, kind)
    PROVE  IInv'
<1>. DEFINE rec == [Idle EXCEPT !.kind = kind]
<1>1. rec \in ProcRecord /\ rec.kind = kind /\ rec.id = None
  BY IdleTypes DEF ProcRecord
<1>2. /\ Lookup(q, rec) /\ (kind = "push" => lock = None)
      /\ UNCHANGED <<store, cache, mark, sweep, raced, faults>>
  BY DEF Begin
<1>. HIDE DEF rec
<1>3. q \in Proc /\ q # Purger
  BY ProcAssumption DEF Proc
<1>. QED  BY <1>1, <1>2, <1>3, LookupSafe

\* A write under an id: whatever it adds, if records or edges come they come
\* together, the id is noted unless the name still leads to it, and no pass is
\* retiring it.
LEMMA AddSafe ==
    ASSUME IInv, NEW q \in Proc, proc[q].pc = "act", Stop(q), NEW S \in SUBSET Item,
           content' = [content EXCEPT ![proc[q].id] = @ \cup S], Straggles(proc[q].id),
           "R" \in S => "M" \in S,
           S \cap {"M", "R"} # {} => lock = q /\ q # Purger,
           UNCHANGED <<name, next, dead, cache, mark, sweep, faults>>
    PROVE  IInv'
<1>. DEFINE i == proc[q].id
<1>. USE DEF IInv
<1>1. i \in Id /\ i # None /\ i < next
  BY Own, Ids DEF Shaped
<1>2. Goto(q, Idle)
  BY DEF Stop
<1>3. /\ proc' \in [Proc -> ProcRecord] /\ lock' \in Proc \cup {None}
      /\ Control'
      /\ proc'[q] = Idle /\ \A y \in Proc : y # q => proc'[y] = proc[y]
  BY <1>2, GotoSafe, IdleTypes, IdleHolds
<1>4. /\ content' \in [Id -> SUBSET Item] /\ content'[i] = content[i] \cup S
      /\ \A j \in Id : j # i => content'[j] = content[j]
  BY <1>1 DEF TypeOK
<1>5. raced' \subseteq Id /\ raced \subseteq raced' /\ (name # i => i \in raced')
  BY <1>1 DEF Straggles, TypeOK
<1>. HIDE DEF i
<1>6. TypeOK'
  BY <1>3, <1>4, <1>5 DEF TypeOK, ProcRecord
<1>7. Issued'
  BY <1>1, <1>3, <1>4, IdleTypes DEF Issued
<1>8. EdgesBesideRecords'
  BY <1>1, <1>4, <1>5 DEF StoreOK, EdgesBesideRecords
<1>9. StrandedOnlyByRace'
  BY <1>4, <1>5 DEF StoreOK, StrandedOnlyByRace, Stranded
<1>10. SweepKeepsUp'
  <2>. SUFFICES ASSUME sweep.pc # "idle" PROVE SweepKeepsUp'
    BY DEF SweepKeepsUp
  <2>1. sweep.id \in dead /\ sweep.id \in Id /\ sweep.id # name
    BY DEF StoreOK, SweepKeepsUp, NameAlive, TypeOK
  <2>2. CASE sweep.id = i
    BY <1>5, <2>1, <2>2 DEF SweepKeepsUp
  <2>3. CASE sweep.id # i
    BY <1>4, <1>5, <2>1, <2>3 DEF StoreOK, SweepKeepsUp
  <2>. QED  BY <2>2, <2>3
<1>11. RetiresEmpty'
  <2>. SUFFICES ASSUME proc'[Purger].pc = "unname"
                PROVE  content'[proc'[Purger].id] \cap {"M", "R"} = {}
    BY DEF RetiresEmpty
  <2>1. q # Purger /\ proc'[Purger] = proc[Purger] /\ proc[Purger].pc = "unname"
    BY <1>3, IdleTypes, Ids
  <2>2. lock = Purger /\ proc[Purger].id \in Id
    BY <2>1, Ids DEF Control, Holds, Shaped
  <2>3. S \cap {"M", "R"} = {}
    BY <2>1, <2>2
  <2>. QED  BY <1>4, <2>1, <2>2, <2>3 DEF RetiresEmpty
<1>. QED  BY <1>3, <1>6, <1>7, <1>8, <1>9, <1>10, <1>11 DEF StoreOK, NameAlive

\* The name is dropped: the id it led to is noted, or is the one meant, and that
\* one has its tombstone or nothing that could be stranded.
LEMMA UnnameSafe ==
    ASSUME IInv, NEW x \in Proc, proc[x].pc \in {"act", "unname"}, Unname(proc[x].id),
           Goto(x, [Idle EXCEPT !.pc = "forget"]),
           Holds(x, [Idle EXCEPT !.pc = "forget"]) => lock = x,
           \/ dead' = dead \cup {proc[x].id}
           \/ dead' = dead /\ content[proc[x].id] \cap {"M", "R"} = {},
           UNCHANGED <<next, content, cache, mark, sweep, faults>>
    PROVE  IInv'
<1>. DEFINE i == proc[x].id
            r == [Idle EXCEPT !.pc = "forget"]
<1>. USE DEF IInv
<1>1. i \in Id /\ i # None /\ i < next
  BY Own, Ids DEF Shaped
<1>2. r \in ProcRecord /\ r.pc = "forget" /\ r.id = None
  BY IdleTypes DEF ProcRecord
<1>. HIDE DEF r
<1>3. Goto(x, r) /\ Shaped(r) /\ (Holds(x, r) => lock \in {x, None})
  BY <1>2 DEF r, Shaped
<1>4. /\ proc' \in [Proc -> ProcRecord] /\ lock' \in Proc \cup {None}
      /\ Control'
      /\ proc'[x] = r /\ \A y \in Proc : y # x => proc'[y] = proc[y]
  BY <1>2, <1>3, GotoSafe
<1>5. name' = None /\ raced \subseteq raced' /\ raced' \subseteq Id
  BY DEF Unname, TypeOK
<1>6. name # None => name = i \/ name \in raced'
  BY DEF Unname
<1>. HIDE DEF i
<1>7. dead \subseteq dead' /\ dead' \subseteq Id /\ \A j \in dead' : j < next
  BY <1>1 DEF i, TypeOK, Issued
<1>8. TypeOK'
  BY <1>4, <1>5, <1>7 DEF TypeOK, ProcRecord
<1>9. Issued'
  BY <1>2, <1>4, <1>5, <1>7 DEF Issued
<1>10. StrandedOnlyByRace'
  <2>. SUFFICES ASSUME NEW j \in Id, j \notin dead', content[j] \cap {"M", "R"} # {}
                PROVE  j \in raced'
    BY DEF StrandedOnlyByRace, Stranded
  <2>1. j # i
    BY <1>7 DEF i
  <2>2. CASE j = name
    BY <1>6, <2>1, <2>2, Ids
  <2>3. CASE j # name
    BY <1>5, <1>7, <2>3 DEF StoreOK, StrandedOnlyByRace, Stranded
  <2>. QED  BY <2>2, <2>3
<1>11. NameAlive'
  BY <1>5, <1>7, Ids DEF NameAlive
<1>12. EdgesBesideRecords' /\ SweepKeepsUp'
  BY <1>5, <1>7 DEF StoreOK, EdgesBesideRecords, SweepKeepsUp
<1>13. RetiresEmpty'
  BY <1>2, <1>4, Ids DEF RetiresEmpty
<1>. QED  BY <1>4, <1>8, <1>9, <1>10, <1>11, <1>12, <1>13 DEF StoreOK

\* Every step of a request that has resolved its name.
LEMMA ActSafe == ASSUME IInv, NEW q \in Req, Act(q) PROVE IInv'
<1>0. q \in Proc /\ q # Purger
  BY ProcAssumption DEF Proc
<1>1. CASE Push(q)
  <2>1. proc[q].pc = "act" /\ lock = q
    BY <1>0, <1>1, Own DEF Push, Acts, Holds
  <2>. DEFINE S == {"M", "R"}
  <2>2. content' = [content EXCEPT ![proc[q].id] = @ \cup S]
    BY <1>1 DEF Push
  <2>3. S \in SUBSET Item /\ ("R" \in S => "M" \in S)
    BY DEF Item
  <2>. HIDE DEF S
  <2>4. /\ Straggles(proc[q].id) /\ Stop(q)
        /\ UNCHANGED <<name, next, dead, cache, mark, sweep, faults>>
    BY <1>1 DEF Push
  <2>. QED  BY <1>0, <2>1, <2>2, <2>3, <2>4, AddSafe
<1>2. CASE Blob(q)
  <2>. DEFINE S == {"P"}
  <2>1. content' = [content EXCEPT ![proc[q].id] = @ \cup S]
    BY <1>2 DEF Blob
  <2>2. S \in SUBSET Item /\ S \cap {"M", "R"} = {} /\ "R" \notin S
    BY DEF Item
  <2>. HIDE DEF S
  <2>3. /\ proc[q].pc = "act" /\ Straggles(proc[q].id) /\ Stop(q)
        /\ UNCHANGED <<name, next, dead, cache, mark, sweep, faults>>
    BY <1>2 DEF Blob, Acts
  <2>. QED  BY <1>0, <2>1, <2>2, <2>3, AddSafe
<1>3. CASE Delete(q)
  <2>1. ~Holds(q, [Idle EXCEPT !.pc = "forget"])
    BY <1>0, NoneAssumption DEF Holds, Idle, Kind
  <2>. QED  BY <1>0, <1>3, <2>1, UnnameSafe DEF Delete, Acts
<1>4. CASE WriteNothing(q)
  BY <1>0, <1>4, StopSafe, Own DEF WriteNothing
<1>. QED  BY <1>1, <1>2, <1>3, <1>4 DEF Act

\* What lies under an id shrinks.  Edges that stay keep their records, or are a
\* straggler's; where a sweep goes by, none come back.
LEMMA LessSafe ==
    ASSUME IInv, NEW i \in Id, NEW S \in SUBSET Item, S \subseteq content[i],
           content' = [content EXCEPT ![i] = S],
           "R" \in S => "M" \in S \/ i \in raced,
           UNCHANGED <<name, next, dead, cache, lock, proc, mark, sweep, raced, faults>>
    PROVE  IInv'
<1>. USE DEF IInv
<1>1. /\ content' \in [Id -> SUBSET Item] /\ content'[i] = S
      /\ \A j \in Id : content'[j] \subseteq content[j]
      /\ \A j \in Id : j # i => content'[j] = content[j]
  BY DEF TypeOK
<1>2. TypeOK' /\ Control'
  BY <1>1 DEF TypeOK, Control
<1>3. Issued'
  BY <1>1 DEF Issued
<1>4. EdgesBesideRecords'
  BY <1>1 DEF StoreOK, EdgesBesideRecords
<1>5. SweepKeepsUp'
  <2>1. sweep.pc # "idle" => sweep.id \in Id
    BY DEF StoreOK, SweepKeepsUp, TypeOK
  <2>. QED  BY <1>1, <2>1 DEF StoreOK, SweepKeepsUp
<1>6. StrandedOnlyByRace'
  BY <1>1 DEF StoreOK, StrandedOnlyByRace, Stranded
<1>7. RetiresEmpty'
  <2>1. proc[Purger].pc = "unname" => proc[Purger].id \in Id
    BY Own, Ids DEF Shaped
  <2>. QED  BY <1>1, <2>1 DEF RetiresEmpty
<1>. QED  BY <1>2, <1>3, <1>4, <1>5, <1>6, <1>7 DEF StoreOK, NameAlive

\* What empties a repository by other paths.
LEMMA ShrinkSafe == ASSUME IInv, NEW i \in Id, Shrink(i) PROVE IInv'
<1>1. content[i] \in SUBSET Item /\ ("R" \in content[i] => "M" \in content[i] \/ i \in raced)
  BY DEF IInv, TypeOK, StoreOK, EdgesBesideRecords
<1>2. UNCHANGED <<name, next, dead, cache, lock, proc, mark, sweep, raced, faults>>
  BY DEF Shrink
<1>3. CASE content' = [content EXCEPT ![i] = @ \ {"M", "R"}]
  <2>. DEFINE S == content[i] \ {"M", "R"}
  <2>1. content' = [content EXCEPT ![i] = S]
    BY <1>3
  <2>2. S \in SUBSET Item /\ S \subseteq content[i] /\ "R" \notin S
    BY <1>1
  <2>. HIDE DEF S
  <2>. QED  BY <1>2, <2>1, <2>2, LessSafe
<1>4. CASE content' = [content EXCEPT ![i] = @ \ {"P"}]
  <2>. DEFINE S == content[i] \ {"P"}
  <2>1. content' = [content EXCEPT ![i] = S]
    BY <1>4
  <2>2. /\ S \in SUBSET Item /\ S \subseteq content[i]
        /\ "R" \in S => "M" \in S \/ i \in raced
    BY <1>1
  <2>. HIDE DEF S
  <2>. QED  BY <1>2, <2>1, <2>2, LessSafe
<1>. QED  BY <1>3, <1>4 DEF Shrink

\* Every step of a retirement.
LEMMA PurgeSafe == ASSUME IInv, PurgeStep PROVE IInv'
<1>0. /\ Purger \in Proc /\ proc[Purger] \in ProcRecord /\ Shaped(proc[Purger])
      /\ proc[Purger].id # None => proc[Purger].id < next
      /\ Holds(Purger, proc[Purger]) => lock = Purger
      /\ cache \in Id \cup {None} /\ (cache # None => cache < next)
      /\ next \in 0..MaxId /\ faults \in 0..MaxFaults
  BY Ids, Own
<1>1. CASE PurgeStart
  <2>. DEFINE r == [Idle EXCEPT !.pc = "wait", !.kind = "retire", !.water = mark]
  <2>. USE DEF IInv
  <2>1. UNCHANGED <<store, cache, lock, sweep, raced, faults>> /\ mark' = next
    BY <1>1 DEF PurgeStart
  <2>2. r \in ProcRecord /\ r.pc = "wait" /\ r.id = None /\ r.kind = "retire"
    BY IdleTypes DEF ProcRecord, Kind, TypeOK
  <2>. HIDE DEF r
  <2>3. proc' = proc \/ proc' = [proc EXCEPT ![Purger] = r]
    BY <1>1 DEF PurgeStart, r
  <2>4. proc' \in [Proc -> ProcRecord]
    BY <2>2, <2>3 DEF TypeOK, ProcRecord
  <2>5. \A x \in Proc : proc'[x] = proc[x] \/ (x = Purger /\ proc'[x] = r)
    BY <2>3 DEF TypeOK
  <2>6. Shaped(r) /\ ~Holds(Purger, r)
    BY <2>2 DEF Shaped, Holds
  <2>7. Control'
    BY <2>1, <2>5, <2>6 DEF Control
  <2>8. TypeOK'
    BY <1>0, <2>1, <2>4 DEF TypeOK, ProcRecord, store
  <2>9. Issued'
    BY <2>1, <2>2, <2>5 DEF Issued, store
  <2>10. StoreOK'
    BY <2>1, StoreKept DEF store
  <2>11. RetiresEmpty'
    BY <1>0, <2>1, <2>2, <2>5 DEF RetiresEmpty, store
  <2>. QED  BY <2>7, <2>8, <2>9, <2>10, <2>11
<1>2. CASE PurgeLock
  <2>. DEFINE r == [proc[Purger] EXCEPT !.pc = "lookup"]
  <2>1. r \in ProcRecord /\ r.pc = "lookup" /\ r.id = proc[Purger].id
    BY <1>0 DEF ProcRecord
  <2>2. /\ Goto(Purger, r) /\ lock = None
        /\ UNCHANGED <<store, cache, mark, sweep, raced, faults>>
    BY <1>2 DEF PurgeLock, Step
  <2>. HIDE DEF r
  <2>. QED  BY <1>0, <2>1, <2>2, GotoQuietly DEF Shaped
<1>3. CASE RetireLookup
  <2>1. lock = Purger
    BY <1>0, <1>3 DEF RetireLookup, Holds
  <2>. QED  BY <1>0, <1>3, <2>1, LookupSafe DEF RetireLookup
<1>4. CASE Retire
  <2>. DEFINE r == [proc[Purger] EXCEPT !.pc = "unname"]
  <2>1. r \in ProcRecord /\ r.pc = "unname" /\ r.id = proc[Purger].id
    BY <1>0 DEF ProcRecord
  <2>2. lock = Purger /\ proc[Purger].id \in Id
    BY <1>0, <1>4 DEF Retire, Acts, Holds, Shaped
  <2>3. UNCHANGED <<store, cache, mark, sweep, raced, faults>>
    BY <1>4 DEF Retire
  <2>4. CASE content[proc[Purger].id] = {} /\ Goto(Purger, r)
    <3>. HIDE DEF r
    <3>. QED  BY <1>0, <2>1, <2>2, <2>3, <2>4, GotoQuietly DEF Shaped
  <2>5. CASE Stop(Purger)
    BY <1>0, <2>3, <2>5, StopSafe
  <2>. QED  BY <1>4, <2>4, <2>5 DEF Retire, Step
<1>5. CASE RetireApply
  <2>1. proc[Purger].pc = "unname" /\ lock = Purger
    BY <1>0, <1>5 DEF RetireApply, Holds
  <2>2. content[proc[Purger].id] \cap {"M", "R"} = {}
    BY <2>1 DEF IInv, RetiresEmpty
  <2>. QED  BY <1>0, <1>5, <2>1, <2>2, UnnameSafe DEF RetireApply
<1>. QED  BY <1>1, <1>2, <1>3, <1>4, <1>5 DEF PurgeStep

\* The steps that leave every process, its lock and the name alone keep what
\* holds of them.
LEMMA ProcsKept ==
    ASSUME IInv, UNCHANGED <<name, next, lock, proc>>, cache' \in {cache, None},
           dead' \subseteq dead, \A i \in Id : content'[i] \subseteq content[i]
    PROVE  Control' /\ Issued' /\ RetiresEmpty'
<1>1. proc[Purger].pc = "unname" => proc[Purger].id \in Id
  BY Own, Ids DEF Shaped
<1>2. RetiresEmpty'
  BY <1>1 DEF IInv, RetiresEmpty
<1>. QED  BY <1>2 DEF IInv, Control, Issued

\* Every step of the sweeper.
LEMMA SweepSafe == ASSUME IInv, SweepStep PROVE IInv'
<1>. DEFINE i == sweep.id
<1>. USE DEF IInv
<1>0. sweep.pc # "idle" =>
         /\ i \in dead /\ i \in Id /\ i # name
         /\ content[i] \in SUBSET Item
         /\ sweep.pc = "finish" \/ ~sweep.seen => ("R" \in content[i] => i \in raced)
         /\ Stranded(i) => i \in raced
  BY DEF StoreOK, SweepKeepsUp, NameAlive, TypeOK, StrandedOnlyByRace
<1>1. ASSUME NEW j \in Id, SweepScan(j) PROVE IInv'
  <2>1. /\ UNCHANGED <<store, cache, lock, proc, mark, raced, faults>> /\ j \in dead
        /\ sweep' = [pc |-> "refs", id |-> j, seen |-> "M" \in content[j]]
    BY <1>1 DEF SweepScan
  <2>2. TypeOK' /\ sweep'.pc = "refs" /\ sweep'.id = j /\ sweep'.seen = ("M" \in content[j])
    BY <2>1 DEF TypeOK, store
  <2>3. SweepKeepsUp'
    BY <2>1, <2>2 DEF StoreOK, SweepKeepsUp, EdgesBesideRecords, store
  <2>4. Control' /\ Issued' /\ RetiresEmpty'
    BY <2>1, ProcsKept DEF store
  <2>. QED  BY <2>1, <2>2, <2>3, <2>4
            DEF StoreOK, NameAlive, EdgesBesideRecords, StrandedOnlyByRace, Stranded, store
<1>2. CASE SweepRefs
  <2>. DEFINE S == IF sweep.seen THEN content[i] \ {"R"} ELSE content[i]
  <2>1. /\ UNCHANGED <<name, next, dead, cache, lock, proc, mark, raced, faults>>
        /\ content' = [content EXCEPT ![i] = S]
        /\ sweep' = [sweep EXCEPT !.pc = "finish"] /\ sweep.pc # "idle"
    BY <1>2 DEF SweepRefs
  <2>2. S \in SUBSET Item /\ S \subseteq content[i] /\ ("R" \in S => i \in raced)
    BY <1>0, <2>1
  <2>. HIDE DEF S
  <2>3. /\ content' \in [Id -> SUBSET Item] /\ content'[i] = S
        /\ \A j \in Id : content'[j] \subseteq content[j]
        /\ \A j \in Id : j # i => content'[j] = content[j]
    BY <1>0, <2>1, <2>2 DEF TypeOK
  <2>4. TypeOK' /\ sweep'.id = i
    BY <2>1, <2>3 DEF TypeOK
  <2>. HIDE DEF i
  <2>5. SweepKeepsUp'
    BY <1>0, <2>1, <2>2, <2>3, <2>4 DEF SweepKeepsUp
  <2>6. EdgesBesideRecords'
    BY <2>1, <2>2, <2>3 DEF StoreOK, EdgesBesideRecords
  <2>7. StrandedOnlyByRace'
    BY <2>1, <2>3 DEF StoreOK, StrandedOnlyByRace, Stranded
  <2>8. Control' /\ Issued' /\ RetiresEmpty'
    BY <2>1, <2>3, ProcsKept
  <2>. QED  BY <2>1, <2>4, <2>5, <2>6, <2>7, <2>8 DEF StoreOK, NameAlive
<1>3. CASE SweepFinish
  <2>. DEFINE S == content[i] \cap {"R"}
  <2>1. /\ UNCHANGED <<name, next, cache, lock, proc, mark, raced, faults>>
        /\ content' = [content EXCEPT ![i] = S] /\ dead' = dead \ {i}
        /\ sweep' = SweepIdle /\ sweep.pc = "finish"
    BY <1>3 DEF SweepFinish
  <2>2. /\ S \in SUBSET Item /\ S \subseteq content[i]
        /\ S \cap {"M", "R"} # {} => i \in raced
        /\ "R" \in S => i \in raced
    BY <1>0, <2>1
  <2>. HIDE DEF S
  <2>3. /\ content' \in [Id -> SUBSET Item] /\ content'[i] = S
        /\ \A j \in Id : content'[j] \subseteq content[j]
        /\ \A j \in Id : j # i => content'[j] = content[j]
    BY <1>0, <2>1, <2>2 DEF TypeOK
  <2>. HIDE DEF i
  <2>4. TypeOK'
    BY <2>1, <2>3, IdleTypes DEF TypeOK
  <2>5. SweepKeepsUp'
    BY <2>1, IdleTypes DEF SweepKeepsUp
  <2>6. EdgesBesideRecords'
    BY <2>1, <2>2, <2>3 DEF StoreOK, EdgesBesideRecords
  <2>7. StrandedOnlyByRace'
    BY <2>1, <2>2, <2>3 DEF StoreOK, StrandedOnlyByRace, Stranded
  <2>8. Control' /\ Issued' /\ RetiresEmpty'
    BY <2>1, <2>3, ProcsKept
  <2>. QED  BY <2>1, <2>4, <2>5, <2>6, <2>7, <2>8 DEF StoreOK, NameAlive
<1>. QED  BY <1>1, <1>2, <1>3 DEF SweepStep

\* A fault, an eviction or a crash.
LEMMA EnvironmentSafe ==
    ASSUME IInv, Evict \/ PurgeFails \/ SweepFails \/ Crash \/ UNCHANGED vars PROVE IInv'
<1>f. faults < MaxFaults => faults + 1 \in 0..MaxFaults
  BY BoundAssumption DEF IInv, TypeOK
<1>1. CASE Evict \/ UNCHANGED vars
  <2>1. UNCHANGED <<store, lock, proc, mark, sweep, raced, faults>> /\ cache' \in {cache, None}
    BY <1>1 DEF Evict, vars
  <2>2. TypeOK'
    BY <2>1 DEF IInv, TypeOK, store
  <2>3. StoreOK'
    BY <2>1, StoreKept DEF IInv, store
  <2>4. Control' /\ Issued' /\ RetiresEmpty'
    BY <2>1, ProcsKept DEF store
  <2>. QED  BY <2>2, <2>3, <2>4 DEF IInv
<1>2. CASE PurgeFails
  <2>1. /\ UNCHANGED <<store, cache, mark, sweep, raced>> /\ Stop(Purger)
        /\ faults' \in 0..MaxFaults
    BY <1>f, <1>2 DEF PurgeFails
  <2>. QED  BY <2>1, StopSafe, Ids
<1>3. CASE SweepFails
  <2>1. /\ UNCHANGED <<store, cache, lock, proc, mark, raced>> /\ sweep' = SweepIdle
        /\ faults' \in 0..MaxFaults
    BY <1>f, <1>3 DEF SweepFails
  <2>2. TypeOK'
    BY <2>1, IdleTypes DEF IInv, TypeOK, store
  <2>3. StoreOK'
    BY <2>1, IdleTypes DEF IInv, StoreOK, NameAlive, EdgesBesideRecords, SweepKeepsUp,
                           StrandedOnlyByRace, Stranded, store
  <2>4. Control' /\ Issued' /\ RetiresEmpty'
    BY <2>1, ProcsKept DEF store
  <2>. QED  BY <2>2, <2>3, <2>4 DEF IInv
<1>4. CASE Crash
  <2>1. /\ UNCHANGED <<store, raced>> /\ cache' = None /\ lock' = None /\ mark' = None
        /\ sweep' = SweepIdle /\ faults' \in 0..MaxFaults
        /\ proc' = [x \in Proc |-> Idle]
    BY <1>f, <1>4 DEF Crash
  <2>2. \A x \in Proc : proc'[x] = Idle
    BY <2>1
  <2>3. TypeOK'
    BY <2>1, IdleTypes DEF IInv, TypeOK, ProcRecord, store
  <2>4. StoreOK'
    BY <2>1, IdleTypes DEF IInv, StoreOK, NameAlive, EdgesBesideRecords, SweepKeepsUp,
                           StrandedOnlyByRace, Stranded, store
  <2>5. Control'
    BY <2>2, IdleHolds DEF Control
  <2>6. Issued' /\ RetiresEmpty'
    BY <2>1, <2>2, IdleTypes, Ids DEF IInv, Issued, RetiresEmpty, store
  <2>. QED  BY <2>3, <2>4, <2>5, <2>6 DEF IInv
<1>. QED  BY <1>1, <1>2, <1>3, <1>4

\* Every step keeps the inductive invariant.
LEMMA StepSafe == ASSUME IInv, [Next]_vars PROVE IInv'
<1>1. ASSUME NEW q \in Req, NEW kind \in Kind \ {"retire"}, Begin(q, kind) PROVE IInv'
  BY <1>1, BeginSafe
<1>2. ASSUME NEW x \in Proc, Resolve(x) PROVE IInv'
  BY <1>2, ResolveSafe
<1>3. ASSUME NEW q \in Req, Act(q) PROVE IInv'
  BY <1>3, ActSafe
<1>4. ASSUME NEW i \in Id, Shrink(i) PROVE IInv'
  BY <1>4, ShrinkSafe
<1>. QED  BY <1>1, <1>2, <1>3, <1>4, PurgeSafe, SweepSafe, EnvironmentSafe DEF Next

\* The empty store satisfies it.
LEMMA InitSafe == Init => IInv
<1>. SUFFICES ASSUME Init PROVE IInv
  OBVIOUS
<1>1. TypeOK
  BY Ids, IdleTypes, BoundAssumption DEF Init, TypeOK, ProcRecord
<1>2. \A x \in Proc : proc[x] = Idle
  BY DEF Init
<1>3. Control
  BY <1>2, IdleHolds DEF Control
<1>4. Issued /\ RetiresEmpty
  BY <1>2, IdleTypes, Ids DEF Init, Issued, RetiresEmpty
<1>5. StoreOK
  BY IdleTypes DEF Init, StoreOK, NameAlive, EdgesBesideRecords, SweepKeepsUp,
                   StrandedOnlyByRace, Stranded
<1>. QED  BY <1>1, <1>3, <1>4, <1>5 DEF IInv

----------------------------------------------------------------------------
(* The theorems.                                                           *)

\* The inductive invariant is an invariant.
LEMMA Invariance == Spec => []IInv
<1>1. IInv /\ [Next]_vars => IInv'
  BY StepSafe
<1>. QED  BY <1>1, InitSafe, PTL DEF Spec

\* Every variable keeps its type: no id is handed out beyond MAX_REPO_ID, and
\* whoever writes under an id has one.
THEOREM TypeCorrect == Spec => []TypeOK
<1>1. IInv => TypeOK
  BY DEF IInv
<1>. QED  BY <1>1, Invariance, PTL

\* What no name and no tombstone leads to was left there by an operation that a
\* delete or a retirement had overtaken, wherever the process crashes.
THEOREM StrandedByRace == Spec => []StrandedOnlyByRace
<1>1. IInv => StrandedOnlyByRace
  BY DEF IInv, StoreOK
<1>. QED  BY <1>1, Invariance, PTL

\* The step that gives the name an id gives it the counter's.
LEMMA NameStep ==
    ASSUME IInv, [Next]_vars, name' \notin {name, None}
    PROVE  name' \notin dead /\ content[name'] = {}
<1>1. ASSUME NEW x \in Proc, Intern(x) PROVE name' \notin dead /\ content[name'] = {}
  <2>1. next < MaxId /\ name' = next
    BY <1>1 DEF Intern
  <2>2. next \in Id /\ ~(next < next)
    BY <1>1, <2>1, Own, Ids
  <2>. QED  BY <2>1, <2>2 DEF IInv, Issued
<1>2. ASSUME NEW x \in Proc, Resolve(x) PROVE Intern(x) \/ UNCHANGED name
  BY <1>2 DEF Resolve, Remember, Forget, store
<1>3. ASSUME NEW q \in Req, Act(q) PROVE name' \in {name, None}
  BY <1>3 DEF Act, Push, Blob, Delete, WriteNothing, Unname, store
<1>4. PurgeStep => name' \in {name, None}
  BY DEF PurgeStep, PurgeStart, PurgeLock, RetireLookup, Retire, RetireApply, Unname, store
<1>5. SweepStep => UNCHANGED name
  BY DEF SweepStep, SweepScan, SweepRefs, SweepFinish, store
<1>6. /\ \A q \in Req, kind \in Kind \ {"retire"} : Begin(q, kind) => UNCHANGED name
      /\ \A i \in Id : Shrink(i) => UNCHANGED name
      /\ Evict \/ PurgeFails \/ SweepFails \/ Crash \/ UNCHANGED vars => UNCHANGED name
  BY DEF Begin, Shrink, Evict, PurgeFails, SweepFails, Crash, vars, store
<1>. QED  BY <1>1, <1>2, <1>3, <1>4, <1>5, <1>6 DEF Next

\* "The id is never reused": a name that is interned again starts with nothing
\* under its id and is not about to be swept.
THEOREM StartsFresh == Spec => FreshStart
<1>1. IInv /\ [Next]_vars =>
         [name' \notin {name, None} => name' \notin dead /\ content[name'] = {}]_vars
  BY NameStep
<1>. QED  BY <1>1, Invariance, PTL DEF Spec, FreshStart
=============================================================================
