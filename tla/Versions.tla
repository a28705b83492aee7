------------------------------ MODULE Versions ------------------------------
(***************************************************************************)
(* The schema version marker, and what opening a store does with it: stamp *)
(* a store just created, refuse one that is newer or unmarked, or run the  *)
(* registered steps in order, each followed by a stamp in a batch of its   *)
(* own.  Builds of several versions open one store in turn, and a crash    *)
(* may fall between any two batches.                                       *)
(*                                                                         *)
(* A record is told apart only by the version whose layout it is in.  The  *)
(* body of a step belongs to the build that registers it: here it does     *)
(* what Migrations::register asks of it, rewriting the records that are    *)
(* behind one batch at a time, safely run again.                           *)
(***************************************************************************)
EXTENDS Naturals, FiniteSetsExt

CONSTANTS
    Record,     \* the records of the store
    MaxVersion, \* bound on schema versions
    Build,      \* the builds: [version, steps], the steps by the version each leaves
    None

Version == 0..MaxVersion

ASSUME VersionAssumption == MaxVersion \in Nat
ASSUME BuildAssumption ==
    Build \subseteq [version : Version, steps : SUBSET Version]
ASSUME NoneAssumption == None \notin Version /\ None \notin Build

\* Builds of one line of development: a step comes with every step before it.
OneChain == \A b \in Build : \A t \in b.steps : 1..t \subseteq b.steps

VARIABLES
    marker,     \* the value of db_version, or None
    layout,     \* the layout of each record, None where there is no record
    pc,         \* where the process is; "down" when none runs
    build,      \* the build that runs, or None
    at,         \* ensure's at
    to,         \* the step under way
    furthest    \* the furthest version a step was ever begun towards (history)

vars == <<marker, layout, pc, build, at, to, furthest>>

Written == {r \in Record : layout[r] # None}

\* A new store; one some build has used; or one from before the marker.
Init ==
    /\ \E v \in Version, R \in SUBSET Record :
        /\ layout = [r \in Record |-> IF r \in R THEN v ELSE None]
        /\ marker \in {None, v}
    /\ pc = "down" /\ build = None
    /\ at = 0 /\ to = 0 /\ furthest = 0

Goto(l) == pc' = l /\ UNCHANGED build

----------------------------------------------------------------------------
(* version::ensure.                                                        *)

\* open: the marker is read, and decides what follows.
Open(b) ==
    /\ pc = "down"
    /\ build' = b
    /\ pc' = CASE marker = None /\ Written = {} -> "create"
               [] marker = None /\ Written # {} -> "refused"
               [] marker # None /\ marker > b.version -> "refused"
               [] OTHER -> "migrate"
    /\ at' = IF marker = None THEN 0 ELSE marker
    /\ UNCHANGED <<marker, layout, to, furthest>>

CreateAhead ==
    /\ pc = "create"
    /\ marker' = build.version + 1
    /\ Goto("serving")
    /\ UNCHANGED <<layout, at, to, furthest>>

Create ==
    /\ pc = "create"
    /\ marker' = build.version
    /\ Goto("serving")
    /\ UNCHANGED <<layout, at, to, furthest>>

Ahead == {t \in build.steps : t > at}
First(T) == Min(T)

StampFirst ==
    /\ pc = "migrate" /\ Ahead # {} /\ First(Ahead) <= build.version
    /\ Goto("step")
    /\ to' = First(Ahead) /\ marker' = First(Ahead)
    /\ UNCHANGED <<layout, at, furthest>>

\* The head of the loop over the ordered steps.
NextStep ==
    /\ pc = "migrate" /\ Ahead # {}
    /\ LET t == First(Ahead) IN
        IF t > build.version
        THEN Goto("refused") /\ UNCHANGED <<to, furthest>>
        ELSE /\ Goto("step")
             /\ to' = t
             /\ furthest' = IF t > furthest THEN t ELSE furthest
    /\ UNCHANGED <<marker, layout, at>>

AcceptAny == "serving"
Verdict == IF at = build.version THEN "serving" ELSE "refused"

\* After the loop.
Finish ==
    /\ pc = "migrate" /\ Ahead = {}
    /\ Goto(Verdict)
    /\ UNCHANGED <<marker, layout, at, to, furthest>>

Behind == {r \in Written : layout[r] < to}

\* One batch of the step under way.
Rewrite(r) ==
    /\ pc = "step" /\ r \in Behind
    /\ layout' = [layout EXCEPT ![r] = to]
    /\ UNCHANGED <<marker, pc, build, at, to, furthest>>

StepFails ==
    /\ pc = "step"
    /\ Goto("refused")
    /\ UNCHANGED <<marker, layout, at, to, furthest>>

StepDone ==
    /\ pc = "step" /\ Behind = {}
    /\ Goto("stamp")
    /\ UNCHANGED <<marker, layout, at, to, furthest>>

StampAtEnd ==
    /\ pc = "stamp"
    /\ marker' = IF to = build.version THEN to ELSE marker
    /\ at' = to
    /\ Goto("migrate")
    /\ UNCHANGED <<layout, to, furthest>>

Stamp ==
    /\ pc = "stamp"
    /\ marker' = to /\ at' = to
    /\ Goto("migrate")
    /\ UNCHANGED <<layout, to, furthest>>

----------------------------------------------------------------------------
(* What happens around it.                                                 *)

\* A build that serves writes records in its own layout, and removes them.
Write(r) ==
    /\ pc = "serving"
    /\ layout' \in {[layout EXCEPT ![r] = v] : v \in {build.version, None}}
    /\ UNCHANGED <<marker, pc, build, at, to, furthest>>

\* The process ends: a refusal, a shutdown, or a crash wherever it is.
Exit ==
    /\ pc # "down"
    /\ pc' = "down" /\ build' = None
    /\ UNCHANGED <<marker, layout, at, to, furthest>>

\* stamp, by an operator who has established the layout of an unmarked store.
OperatorStamp(v) ==
    /\ pc = "down" /\ marker = None /\ Written # {}
    /\ \A r \in Written : layout[r] = v
    /\ marker' = v
    /\ UNCHANGED <<layout, pc, build, at, to, furthest>>

Next ==
    \/ \E b \in Build : Open(b)
    \/ Create \/ NextStep \/ Finish \/ StepFails \/ StepDone \/ Stamp \/ Exit
    \/ \E r \in Record : Rewrite(r) \/ Write(r)
    \/ \E v \in Version : OperatorStamp(v)

Spec == Init /\ [][Next]_vars

----------------------------------------------------------------------------
(* The marker and every layout are versions, also while a build creates a  *)
(* store or stamps a step: nothing is ever marked beyond the builds there  *)
(* are, which no build could open again.                                   *)
TypeOK ==
    /\ marker \in Version \cup {None}
    /\ layout \in [Record -> Version \cup {None}]
    /\ pc \in {"down", "create", "migrate", "step", "stamp", "serving", "refused"}
    /\ build \in Build \cup {None} /\ (build = None <=> pc = "down")
    /\ at \in Version /\ to \in Version /\ furthest \in Version

(* A store is served only by a build that can decode all of it: whatever   *)
(* crashed before, every record is in the layout of the build that serves. *)
(* The one exception is a build older than an upgrade already begun, which *)
(* the marker, still at the old version, does not warn.                    *)
Readable ==
    pc = "serving" /\ build.version >= furthest =>
        \A r \in Written : layout[r] = build.version

(* The marker is never ahead of the data: a store marked v holds nothing a *)
(* step up to v has yet to rewrite, so that no interrupted upgrade can be  *)
(* taken for a finished one.                                               *)
MarkerBehindData == marker # None => \A r \in Written : layout[r] >= marker

(* An interrupted upgrade resumes at the step it died in: no step is begun *)
(* again once a later one has been, and a step meets only records its      *)
(* predecessor left or it has rewritten itself.                            *)
ResumesWhereItDied ==
    [][pc = "migrate" /\ pc' = "step" =>
         /\ to' >= furthest
         /\ \A r \in Written : layout[r] >= to' - 1]_vars
=============================================================================
