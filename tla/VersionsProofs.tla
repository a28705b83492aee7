--------------------------- MODULE VersionsProofs ---------------------------
(***************************************************************************)
(* Proofs about Versions, for every set of records, every bound on the     *)
(* versions and every set of builds, whatever steps each registers:        *)
(*   - the type invariant;                                                 *)
(*   - MarkerBehindData: no interrupted upgrade is taken for a finished    *)
(*     one;                                                                *)
(*   - Readable: what a build serves is in its own layout, unless it is    *)
(*     older than an upgrade already begun;                                *)
(*   - ResumesWhereItDied, for builds of one line of development.          *)
(***************************************************************************)
EXTENDS Versions, WellFoundedInduction, TLAPS

----------------------------------------------------------------------------
(* Types.                                                                  *)

\* A build's version and steps are versions, and versions are naturals.
LEMMA BuildTypes ==
    /\ 0 \in Version /\ Version \subseteq Nat /\ None \notin Version
    /\ \A b \in Build : b.version \in Version /\ b.steps \subseteq Version /\ b # None
BY VersionAssumption, BuildAssumption, NoneAssumption DEF Version

\* The first of some steps is one of them, and none is before it.
LEMMA FirstIsLeast ==
    ASSUME NEW T, T \subseteq Version, T # {}
    PROVE  First(T) \in T /\ \A t \in T : First(T) <= t
<1>1. T \subseteq Nat
  BY BuildTypes
<1>2. PICK x \in T : \A y \in T : ~(<<y, x>> \in OpToRel(<, Nat))
  BY <1>1, NatLessThanWellFounded, WFMin
<1>3. \A y \in T : ~(y < x)
  <2>. SUFFICES ASSUME NEW y \in T, y < x PROVE FALSE
    OBVIOUS
  <2>1. <<y, x>> \in Nat \X Nat /\ <<y, x>>[1] = y /\ <<y, x>>[2] = x
    BY <1>1
  <2>. QED
    BY <2>1, <1>2 DEF OpToRel
<1>4. \A y \in T : x <= y
  BY <1>1, <1>3
<1>. QED
  BY <1>4 DEF First, Min

\* The step the loop turns to is ahead of where the store is.
LEMMA NextStepAhead ==
    ASSUME TypeOK, build # None, Ahead # {}
    PROVE  First(Ahead) \in Version /\ First(Ahead) > at
<1>1. Ahead \subseteq Version
  BY BuildTypes DEF TypeOK, Ahead
<1>2. First(Ahead) \in Ahead
  BY <1>1, FirstIsLeast
<1>. QED
  BY <1>1, <1>2 DEF Ahead

\* Every step keeps the types.
LEMMA TypeStep == ASSUME TypeOK, [Next]_vars PROVE TypeOK'
<1>. USE BuildTypes DEF TypeOK
<1>1. ASSUME NEW b \in Build, Open(b) PROVE TypeOK'
  BY <1>1 DEF Open
<1>2. CASE Create
  BY <1>2 DEF Create, Goto
<1>3. CASE NextStep
  <2>1. First(Ahead) \in Version
    BY <1>3, NextStepAhead DEF NextStep
  <2>2. furthest' \in Version /\ to' \in Version
    BY <1>3, <2>1 DEF NextStep, Goto
  <2>. QED
    BY <1>3, <2>2 DEF NextStep, Goto
<1>4. CASE Finish
  BY <1>4 DEF Finish, Goto, Verdict
<1>5. CASE StepFails
  BY <1>5 DEF StepFails, Goto
<1>6. CASE StepDone
  BY <1>6 DEF StepDone, Goto
<1>7. CASE Stamp
  BY <1>7 DEF Stamp, Goto
<1>8. CASE Exit
  BY <1>8 DEF Exit
<1>9. ASSUME NEW r \in Record, Rewrite(r) PROVE TypeOK'
  BY <1>9 DEF Rewrite
<1>10. ASSUME NEW r \in Record, Write(r) PROVE TypeOK'
  <2>1. PICK v \in {build.version, None} : layout' = [layout EXCEPT ![r] = v]
    BY <1>10 DEF Write
  <2>2. v \in Version \cup {None}
    BY <1>10 DEF Write
  <2>. QED
    BY <1>10, <2>1, <2>2 DEF Write
<1>11. ASSUME NEW v \in Version, OperatorStamp(v) PROVE TypeOK'
  BY <1>11 DEF OperatorStamp
<1>12. CASE UNCHANGED vars
  BY <1>12 DEF vars
<1>. QED
  BY <1>1, <1>2, <1>3, <1>4, <1>5, <1>6, <1>7, <1>8, <1>9, <1>10, <1>11, <1>12 DEF Next

\* The first states have their types.
LEMMA TypeInit == Init => TypeOK
<1>. SUFFICES ASSUME Init PROVE TypeOK
  OBVIOUS
<1>1. PICK v \in Version, R \in SUBSET Record :
        /\ layout = [r \in Record |-> IF r \in R THEN v ELSE None]
        /\ marker \in {None, v}
  BY DEF Init
<1>. QED
  BY <1>1, BuildTypes DEF Init, TypeOK

\* Every reachable state of the marker and the upgrades is well typed: a
\* store is never marked beyond the builds there are (version::ensure, stamp).
THEOREM TypeCorrect == Spec => []TypeOK
<1>1. Init => TypeOK
  BY TypeInit
<1>2. TypeOK /\ [Next]_vars => TypeOK'
  BY TypeStep
<1>. QED
  BY <1>1, <1>2, PTL DEF Spec

----------------------------------------------------------------------------
(* The marker and the data.                                                *)

\* The marker is where ensure thinks the store is, while it migrates.
AtIsMarker ==
    pc \in {"migrate", "step", "stamp"} => marker # None /\ at = marker

\* Only an empty, unmarked store is created, and a build serves at its own
\* version.
OwnVersion ==
    /\ pc = "create" => marker = None /\ Written = {}
    /\ pc = "serving" => marker = build.version

\* The step under way is ahead of the marker and on record as begun, and when
\* it is over nothing is behind it.
StepState ==
    /\ pc \in {"step", "stamp"} => to > at /\ to <= furthest
    /\ pc = "stamp" => \A r \in Written : layout[r] >= to

\* Nothing is in a layout beyond the marker but by a step that was begun.
NothingAhead ==
    marker # None => \A r \in Written : layout[r] <= marker \/ layout[r] <= furthest

IInv ==
    TypeOK /\ AtIsMarker /\ OwnVersion /\ StepState /\ NothingAhead /\ MarkerBehindData

\* The invariant is inductive.
LEMMA InvStep == ASSUME IInv, [Next]_vars PROVE IInv'
<1>. USE BuildTypes
<1>0. TypeOK /\ TypeOK'
  BY TypeStep DEF IInv
<1>. DEFINE Rest == AtIsMarker /\ OwnVersion /\ StepState /\ NothingAhead /\ MarkerBehindData
<1>. SUFFICES Rest'
  BY <1>0 DEF IInv
<1>w. /\ Written \subseteq Record /\ \A r \in Written : layout[r] \in Nat /\ layout[r] # None
      /\ (layout' = layout => Written' = Written)
      /\ at \in Nat /\ to \in Nat /\ furthest \in Nat /\ (marker # None => marker \in Nat)
  BY <1>0 DEF TypeOK, Written
<1>1. ASSUME NEW b \in Build, Open(b) PROVE Rest'
  BY <1>0, <1>1, <1>w DEF Open, IInv, AtIsMarker, OwnVersion, StepState, NothingAhead, MarkerBehindData
<1>2. CASE Create
  BY <1>0, <1>2, <1>w DEF Create, Goto, IInv, AtIsMarker, OwnVersion, StepState, NothingAhead, MarkerBehindData
<1>3. CASE NextStep
  <2>. DEFINE t == First(Ahead)
  <2>1. t \in Nat /\ t > at
    BY <1>0, <1>3, NextStepAhead DEF NextStep, TypeOK
  <2>2. UNCHANGED <<marker, layout, at>> /\ pc' \in {"refused", "step"}
    BY <1>3 DEF NextStep, Goto
  <2>3. furthest' \in Nat /\ furthest' >= furthest
    BY <1>3, <1>w, <2>1 DEF NextStep
  <2>4. pc' = "step" => to' = t /\ t <= furthest'
    BY <1>3, <1>w, <2>1 DEF NextStep, Goto
  <2>5. pc = "migrate"
    BY <1>3 DEF NextStep
  <2>. HIDE DEF t
  <2>6. NothingAhead'
    BY <1>w, <2>2, <2>3 DEF IInv, NothingAhead
  <2>7. StepState'
    BY <1>w, <2>1, <2>2, <2>4 DEF StepState
  <2>. QED
    BY <1>w, <2>2, <2>5, <2>6, <2>7 DEF IInv, AtIsMarker, OwnVersion, MarkerBehindData
<1>4. CASE Finish
  BY <1>0, <1>4, <1>w DEF Finish, Goto, Verdict, IInv, AtIsMarker, OwnVersion, StepState, NothingAhead, MarkerBehindData
<1>5. CASE StepFails
  BY <1>0, <1>5, <1>w DEF StepFails, Goto, IInv, AtIsMarker, OwnVersion, StepState, NothingAhead, MarkerBehindData
<1>6. CASE StepDone
  <2>1. \A r \in Written : layout[r] >= to
    BY <1>6, <1>w DEF StepDone, Behind
  <2>. QED
    BY <1>0, <1>6, <1>w, <2>1 DEF StepDone, Goto, IInv, AtIsMarker, OwnVersion, StepState, NothingAhead, MarkerBehindData
<1>7. CASE Stamp
  <2>1. /\ marker # None /\ marker < to
        /\ marker' = to /\ at' = to /\ to # None
        /\ pc' = "migrate" /\ UNCHANGED <<layout, furthest>>
    BY <1>0, <1>7, <1>w DEF Stamp, Goto, TypeOK, IInv, AtIsMarker, StepState
  <2>2. \A r \in Written : layout[r] >= to
    BY <1>7 DEF Stamp, IInv, StepState
  <2>3. \A r \in Written : layout[r] <= to \/ layout[r] <= furthest
    BY <1>w, <2>1 DEF IInv, NothingAhead
  <2>. QED
    BY <1>w, <2>1, <2>2, <2>3 DEF AtIsMarker, OwnVersion, StepState, NothingAhead, MarkerBehindData
<1>8. CASE Exit
  BY <1>0, <1>8, <1>w DEF Exit, IInv, AtIsMarker, OwnVersion, StepState, NothingAhead, MarkerBehindData
<1>9. ASSUME NEW r \in Record, Rewrite(r) PROVE Rest'
  <2>1. \A s \in Record : layout'[s] = IF s = r THEN to ELSE layout[s]
    BY <1>0, <1>9 DEF Rewrite, TypeOK
  <2>2. Written' = Written
    BY <1>0, <1>9, <2>1 DEF Rewrite, Behind, Written, TypeOK
  <2>. QED
    BY <1>9, <1>w, <2>1, <2>2
       DEF Rewrite, IInv, AtIsMarker, OwnVersion, StepState, NothingAhead, MarkerBehindData
<1>10. ASSUME NEW r \in Record, Write(r) PROVE Rest'
  <2>1. PICK v \in {build.version, None} : layout' = [layout EXCEPT ![r] = v]
    BY <1>10 DEF Write
  <2>2. \A s \in Record : layout'[s] = IF s = r THEN v ELSE layout[s]
    BY <1>0, <2>1 DEF TypeOK
  <2>3. marker = build.version /\ UNCHANGED <<marker, pc, build, furthest>> /\ pc = "serving"
    BY <1>10 DEF Write, IInv, OwnVersion
  <2>4. \A s \in Written' : s \in Record /\ (layout'[s] = marker \/ (s \in Written /\ layout'[s] = layout[s]))
    BY <2>1, <2>2, <2>3 DEF Written
  <2>. QED
    BY <1>w, <2>3, <2>4
       DEF IInv, AtIsMarker, OwnVersion, StepState, NothingAhead, MarkerBehindData
<1>11. ASSUME NEW v \in Version, OperatorStamp(v) PROVE Rest'
  BY <1>0, <1>11, <1>w DEF OperatorStamp, IInv, AtIsMarker, OwnVersion, StepState, NothingAhead, MarkerBehindData
<1>12. CASE UNCHANGED vars
  BY <1>12, <1>w DEF vars, IInv, AtIsMarker, OwnVersion, StepState, NothingAhead, MarkerBehindData
<1>. QED
  BY <1>1, <1>2, <1>3, <1>4, <1>5, <1>6, <1>7, <1>8, <1>9, <1>10, <1>11, <1>12 DEF Next

\* The first states satisfy it.
LEMMA InvInit == Init => IInv
<1>. SUFFICES ASSUME Init PROVE IInv
  OBVIOUS
<1>1. PICK v \in Version, R \in SUBSET Record :
        /\ layout = [r \in Record |-> IF r \in R THEN v ELSE None]
        /\ marker \in {None, v}
  BY DEF Init
<1>2. TypeOK
  BY TypeInit
<1>3. \A r \in Written : layout[r] = v
  BY <1>1 DEF Written
<1>4. pc = "down"
  BY DEF Init
<1>. QED
  BY <1>1, <1>2, <1>3, <1>4, BuildTypes
     DEF IInv, AtIsMarker, OwnVersion, StepState, NothingAhead, MarkerBehindData

\* The invariant holds throughout.
LEMMA InvAlways == Spec => []IInv
<1>1. Init => IInv
  BY InvInit
<1>2. IInv /\ [Next]_vars => IInv'
  BY InvStep
<1>. QED
  BY <1>1, <1>2, PTL DEF Spec

\* The marker is never ahead of the data, wherever an upgrade dies and
\* whichever builds open the store next (version::ensure stamps after a step).
THEOREM MarkerSafe == Spec => []MarkerBehindData
<1>1. IInv => MarkerBehindData
  BY DEF IInv
<1>. QED
  BY <1>1, InvAlways, PTL

\* Whatever crashed before, a build serves records of its own layout only,
\* unless it is older than an upgrade already begun (version::ensure).
THEOREM ServedReadable == Spec => []Readable
<1>1. ASSUME IInv PROVE Readable
  <2>. SUFFICES ASSUME pc = "serving", build.version >= furthest, NEW r \in Written
                PROVE  layout[r] = build.version
    BY DEF Readable
  <2>1. marker = build.version /\ marker # None /\ marker \in Nat /\ furthest \in Nat
    BY <1>1, BuildTypes DEF IInv, TypeOK, OwnVersion
  <2>2. layout[r] \in Nat
    BY <1>1, BuildTypes DEF IInv, TypeOK, Written
  <2>3. layout[r] >= marker /\ (layout[r] <= marker \/ layout[r] <= furthest)
    BY <1>1, <2>1 DEF IInv, MarkerBehindData, NothingAhead
  <2>. QED
    BY <2>1, <2>2, <2>3
<1>. QED
  BY <1>1, InvAlways, PTL

----------------------------------------------------------------------------
(* Resuming.                                                               *)

\* No step was ever begun beyond the one that follows the marker.
NoSkip ==
    /\ marker = None => furthest = 0
    /\ marker # None => furthest <= marker + 1

\* Where a build has every step, the one it turns to is the next version.
LEMMA NextIsNext ==
    ASSUME OneChain, TypeOK, build # None, Ahead # {}
    PROVE  First(Ahead) = at + 1
<1>1. at \in Nat /\ build \in Build
  BY BuildTypes DEF TypeOK
<1>2. Ahead \subseteq Version
  BY <1>1, BuildTypes DEF Ahead
<1>3. First(Ahead) \in Ahead /\ \A t \in Ahead : First(Ahead) <= t
  BY <1>2, FirstIsLeast
<1>4. PICK t \in Ahead : t = First(Ahead) /\ t \in Nat /\ t > at /\ t \in build.steps
  BY <1>1, <1>2, <1>3, BuildTypes DEF Ahead
<1>5. at + 1 \in 1..t
  BY <1>1, <1>4
<1>6. at + 1 \in Ahead
  BY <1>1, <1>4, <1>5 DEF OneChain, Ahead
<1>. QED
  BY <1>1, <1>3, <1>4, <1>6

\* What is known of a step that is about to begin.
LEMMA BeginsNext ==
    ASSUME OneChain, IInv, NoSkip, NextStep, pc' = "step"
    PROVE  /\ to' = marker + 1 /\ marker \in Nat /\ furthest <= to'
           /\ furthest' = IF to' > furthest THEN to' ELSE furthest
<1>1. TypeOK /\ pc = "migrate" /\ Ahead # {} /\ build # None
  BY DEF NextStep, IInv, TypeOK
<1>2. marker # None /\ at = marker /\ marker \in Nat
  BY <1>1, BuildTypes DEF IInv, AtIsMarker, TypeOK
<1>3. to' = First(Ahead) /\ furthest' = IF to' > furthest THEN to' ELSE furthest
  BY DEF NextStep, Goto
<1>. QED
  BY <1>1, <1>2, <1>3, NextIsNext DEF NoSkip

\* It stays so.
LEMMA NoSkipStep ==
    ASSUME OneChain, IInv, NoSkip, [Next]_vars
    PROVE  NoSkip'
<1>0. TypeOK /\ furthest \in Nat /\ to \in Nat /\ None \notin Nat \cap Version
      /\ (marker # None => marker \in Nat)
  BY BuildTypes DEF IInv, TypeOK
<1>1. CASE UNCHANGED <<marker, furthest>>
  BY <1>1 DEF NoSkip
<1>2. CASE Create
  <2>1. marker' = build.version /\ furthest' = furthest /\ marker = None
    BY <1>2 DEF Create, IInv, OwnVersion
  <2>2. build.version \in Nat /\ build.version # None
    BY <1>2, BuildTypes DEF Create, IInv, TypeOK
  <2>. QED
    BY <2>1, <2>2 DEF NoSkip
<1>3. CASE NextStep
  <2>1. marker' = marker
    BY <1>3 DEF NextStep
  <2>2. CASE pc' = "step"
    <3>1. /\ to' = marker + 1 /\ marker \in Nat /\ furthest <= to'
          /\ furthest' = IF to' > furthest THEN to' ELSE furthest
      BY <1>3, <2>2, BeginsNext
    <3>2. marker # None
      BY <1>3 DEF NextStep, IInv, AtIsMarker
    <3>. QED
      BY <1>0, <2>1, <3>1, <3>2 DEF NoSkip
  <2>3. CASE pc' # "step"
    <3>1. furthest' = furthest
      BY <1>3, <2>3 DEF NextStep, Goto
    <3>. QED
      BY <2>1, <3>1 DEF NoSkip
  <2>. QED
    BY <2>2, <2>3
<1>4. CASE Stamp
  <2>1. marker' = to /\ furthest' = furthest /\ marker # None /\ marker < to /\ to # None
    BY <1>4, BuildTypes DEF Stamp, IInv, AtIsMarker, StepState, TypeOK
  <2>. QED
    BY <1>0, <2>1 DEF NoSkip
<1>5. ASSUME NEW v \in Version, OperatorStamp(v) PROVE NoSkip'
  <2>1. marker' = v /\ furthest' = furthest /\ marker = None /\ v \in Nat /\ v # None
    BY <1>5, BuildTypes DEF OperatorStamp
  <2>. QED
    BY <2>1 DEF NoSkip
<1>6. \/ UNCHANGED <<marker, furthest>> \/ Create \/ NextStep \/ Stamp
      \/ \E v \in Version : OperatorStamp(v)
  BY DEF Next, vars, Open, Finish, StepFails, StepDone, Exit, Rewrite, Write
<1>. QED
  BY <1>1, <1>2, <1>3, <1>4, <1>5, <1>6

\* An interrupted upgrade resumes at the step it died in, among builds of one
\* line of development, for any records and any number of versions: no step is
\* begun again after a later one, and each meets only what its predecessor left
\* (version::ensure runs the registered steps in order and stamps each).
THEOREM ResumesInOrder ==
    ASSUME OneChain
    PROVE  Spec => ResumesWhereItDied
<1>1. Init => NoSkip
  <2>. SUFFICES ASSUME Init PROVE NoSkip
    OBVIOUS
  <2>1. furthest = 0 /\ (marker # None => marker \in Nat)
    BY TypeInit, BuildTypes DEF Init, TypeOK
  <2>. QED
    BY <2>1 DEF NoSkip
<1>2. IInv /\ NoSkip /\ [Next]_vars => NoSkip'
  BY NoSkipStep
<1>3. IInv /\ NoSkip /\ [Next]_vars =>
        [pc = "migrate" /\ pc' = "step" =>
           /\ to' >= furthest
           /\ \A r \in Written : layout[r] >= to' - 1]_vars
  <2>. SUFFICES ASSUME IInv, NoSkip, [Next]_vars, pc = "migrate", pc' = "step"
                PROVE  to' >= furthest /\ \A r \in Written : layout[r] >= to' - 1
    OBVIOUS
  <2>1. NextStep
    BY DEF Next, vars, Open, Create, Finish, Verdict, StepFails, StepDone, Stamp, Exit, Rewrite,
           Write, OperatorStamp, Goto
  <2>2. to' = marker + 1 /\ marker \in Nat /\ furthest <= to' /\ furthest \in Nat
    BY <2>1, BeginsNext, BuildTypes DEF IInv, TypeOK
  <2>3. marker # None
    BY <2>1 DEF NextStep, IInv, AtIsMarker
  <2>4. \A r \in Written : layout[r] >= marker /\ layout[r] \in Nat
    BY <2>3, BuildTypes DEF IInv, MarkerBehindData, TypeOK, Written
  <2>. QED
    BY <2>2, <2>4
<1>. QED
  BY <1>1, <1>2, <1>3, InvAlways, PTL DEF Spec, ResumesWhereItDied
=============================================================================
