------------------------------- MODULE TagMap -------------------------------
(***************************************************************************)
(* What one repository promises about its images and its tags: a tag names *)
(* an image the repository has, a push lands under all its tags at once,   *)
(* and removing an image takes exactly its own tags with it.  The module   *)
(* Tags, with its reverse edges, its plans and its lock, implements this.  *)
(***************************************************************************)
CONSTANTS Manifest, Tag, None

VARIABLES
    images,     \* the manifests the repository has
    pointer     \* what each tag points at, or None

mapVars == <<images, pointer>>

Init == images = {} /\ pointer = [t \in Tag |-> None]

\* A push by digest (no tag) or under some tags, whatever they pointed at.
Push(m, ts) ==
    /\ images' = images \cup {m}
    /\ pointer' = [t \in Tag |-> IF t \in ts THEN m ELSE pointer[t]]

\* DELETE by tag: the image stays reachable by digest.
Untag(t) ==
    /\ pointer[t] # None
    /\ pointer' = [pointer EXCEPT ![t] = None]
    /\ UNCHANGED images

\* DELETE by digest, or the untagged purge.
Remove(m) ==
    /\ m \in images
    /\ images' = images \ {m}
    /\ pointer' = [t \in Tag |-> IF pointer[t] = m THEN None ELSE pointer[t]]

Next ==
    \/ \E m \in Manifest, ts \in SUBSET Tag : Push(m, ts)
    \/ \E t \in Tag : Untag(t)
    \/ \E m \in Manifest : Remove(m)

Spec == Init /\ [][Next]_mapVars
=============================================================================
