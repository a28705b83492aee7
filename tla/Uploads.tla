------------------------------ MODULE Uploads ------------------------------
(***************************************************************************)
(* One upload session: its record U, its staging file, and the blob it is  *)
(* closed into, as PATCH, PUT, DELETE and the purge of abandoned sessions  *)
(* interleave.  Nothing locks a session: a request reads U, reopens the    *)
(* staging file from it, writes frames through its own descriptor, and     *)
(* writes U back whole.                                                    *)
(*                                                                         *)
(* A hasher is the sequence of the bytes it was fed, a digest the sequence *)
(* it promises, and an offset the length of the hasher beside it (U holds  *)
(* the pair, and the two always advance together).  The file keeps being   *)
(* written through an open descriptor after it was renamed or unlinked.    *)
(*                                                                         *)
(* A member of Req is a request as the server runs it.  When its client    *)
(* goes away the blocking call it is in goes on, and a retry is another    *)
(* member of Req, which waits for nothing.                                 *)
(*                                                                         *)
(* The lock a finish takes on its digest is BlobLifecycle's: between two   *)
(* finishes of one session it decides nothing, the second has no file.     *)
(***************************************************************************)
EXTENDS Naturals, Sequences

CONSTANTS
    MaxLen,         \* bound on the length of a blob, in frames
    Offered,        \* Offered[i]: the frames clients may send at position i
    Hole,           \* what a file holds where nothing was written
    Req,            \* requests on the session, or what is left of one
    Purges,         \* does a purge run?
    Ttl,            \* --purge-upload-ttl, in ticks
    MaxFaults,      \* bound on crashes and I/O errors
    Disconnects,    \* may a client go away while its request runs?
    None

Byte == UNION {Offered[i] : i \in 1..MaxLen}

\* What a file may hold, and a hasher may have been fed.
Image == UNION {[1..n -> Byte \cup {Hole}] : n \in 0..MaxLen}

Session == [hash : Image, idle : 0..Ttl]

ASSUME OfferAssumption == MaxLen \in Nat /\ DOMAIN Offered = 1..MaxLen
ASSUME HoleAssumption == Hole \notin Byte
ASSUME BoundAssumption == Ttl \in Nat /\ MaxFaults \in Nat
ASSUME SwitchAssumption == Purges \in BOOLEAN /\ Disconnects \in BOOLEAN
ASSUME NoneAssumption == None \notin Req \cup Session \cup Image \cup {"patch", "put"}

VARIABLES
    session,    \* U: hasher state (and offset), ticks since updated_at; or None
    bytes,      \* what the file holds
    place,      \* where it is: "none", "staging", "blob" or "gone"
    digest,     \* the content its name under blobs/ promises
    record,     \* has the blob its record B?
    req,        \* what each request is doing
    purge,      \* what the purge of this session is doing
    faults,
    stale,      \* requests under which another has changed something (history)
    raced       \* has such a request then changed something itself? (history)

vars == <<session, bytes, place, digest, record, req, purge, faults, stale, raced>>

ReqIdle == [pc |-> "idle", kind |-> None, hash |-> <<>>, gone |-> FALSE]

Init ==
    /\ session = None
    /\ bytes = <<>> /\ place = "none" /\ digest = <<>> /\ record = FALSE
    /\ req = [q \in Req |-> ReqIdle]
    /\ purge = "idle"
    /\ faults = 0
    /\ stale = {} /\ raced = FALSE

\* What the requests of a session share.
Shared == <<session, bytes, place, digest, record>>

\* A call of q returns.  If it changed something, what the others have read is
\* out of date; if what q had read was, that is the race.
Returns(q) ==
    /\ stale' = IF Shared' = Shared THEN stale ELSE stale \cup (Req \ {q})
    /\ raced' = (raced \/ (q \in stale /\ Shared' # Shared))

\* A request begins, with nothing out of date in its hands.
Start(q, rec) ==
    /\ req' = [req EXCEPT ![q] = rec]
    /\ stale' = stale \ {q}
    /\ UNCHANGED raced

\* A request whose client has gone finishes the blocking call it is in.
Goto(q, rec) ==
    /\ req' = [req EXCEPT ![q] = IF @.gone THEN ReqIdle ELSE rec]
    /\ Returns(q)

Stop(q) ==
    /\ req' = [req EXCEPT ![q] = ReqIdle]
    /\ Returns(q)

\* write_all_at: pwrite, which leaves a hole when it starts beyond the end.
Put(s, i, b) ==
    [j \in 1..(IF i > Len(s) THEN i ELSE Len(s)) |->
        IF j = i THEN b ELSE IF j <= Len(s) THEN s[j] ELSE Hole]

----------------------------------------------------------------------------
(* POST: the staging file first, the record second.                        *)

Create(q) ==
    /\ req[q].pc = "idle" /\ place = "none"
    /\ place' = "staging"
    /\ req' = [req EXCEPT ![q].pc = "create"]
    /\ stale' = Req \ {q} /\ UNCHANGED raced
    /\ UNCHANGED <<session, bytes, digest, record, purge, faults>>

CreateRecord(q) ==
    /\ req[q].pc = "create"
    /\ session' = [hash |-> <<>>, idle |-> 0]
    /\ UNCHANGED <<bytes, place, digest, record, purge, faults>>
    /\ Stop(q)

----------------------------------------------------------------------------
(* PATCH and PUT.                                                          *)

\* The session is read, and the chunk's offset checked against it: a chunk
\* that is out of order is refused here, and changes nothing.
Begin(q, kind) ==
    /\ req[q].pc = "idle" /\ session # None
    /\ Start(q, [pc |-> "resume", kind |-> kind, hash |-> session.hash, gone |-> FALSE])
    /\ UNCHANGED <<session, bytes, place, digest, record, purge, faults>>

\* Mutant: a staging file longer than the offset is not cut back.
ResumeLong(q) ==
    /\ req[q].pc = "resume"
    /\ UNCHANGED <<session, bytes, place, digest, record, purge, faults>>
    /\ IF place = "staging"
       THEN Goto(q, [req[q] EXCEPT !.pc = IF req[q].kind = "put" THEN "rehash" ELSE "write"])
       ELSE Stop(q)

\* resume_upload: the file must be there and no shorter than the offset; what
\* is beyond the offset is truncated.  (The call opens, looks and truncates; it
\* counts as one step at the moment it truncates.)
Resume(q) ==
    LET n == Len(req[q].hash) IN
    /\ req[q].pc = "resume"
    /\ UNCHANGED <<session, place, digest, record, purge, faults>>
    /\ \/ /\ place = "staging" /\ Len(bytes) >= n
          /\ bytes' = SubSeq(bytes, 1, n)
          /\ Goto(q, [req[q] EXCEPT !.pc = IF req[q].kind = "put" THEN "rehash" ELSE "write"])
       \/ /\ place # "staging" \/ Len(bytes) < n
          /\ UNCHANGED bytes
          /\ Stop(q)

\* rehash_upload: when PUT names a digest of another algorithm, the hasher is
\* rebuilt from what the file holds; a short read is an error.
Rehash(q, other) ==
    LET n == Len(req[q].hash) IN
    /\ req[q].pc = "rehash"
    /\ UNCHANGED <<session, bytes, place, digest, record, purge, faults>>
    /\ \/ ~other /\ Goto(q, [req[q] EXCEPT !.pc = "write"])
       \/ other /\ Len(bytes) >= n
            /\ Goto(q, [req[q] EXCEPT !.pc = "write", !.hash = SubSeq(bytes, 1, n)])
       \/ other /\ Len(bytes) < n /\ Stop(q)

\* Mutant: the hasher advances although the write did not.
WriteLost(q, b) ==
    LET n == Len(req[q].hash) + 1 IN
    /\ req[q].pc = "write" /\ n <= MaxLen /\ b \in Offered[n]
    /\ UNCHANGED <<session, bytes, place, digest, record, purge, faults>>
    /\ Goto(q, [req[q] EXCEPT !.hash = Append(@, b)])

\* One frame: to the file at the offset, then to the hasher.
Write(q, b) ==
    LET n == Len(req[q].hash) + 1 IN
    /\ req[q].pc = "write" /\ n <= MaxLen /\ b \in Offered[n]
    /\ bytes' = Put(bytes, n, b)
    /\ UNCHANGED <<session, place, digest, record, purge, faults>>
    /\ Goto(q, [req[q] EXCEPT !.hash = Append(@, b)])

\* The body breaks off, is too long, or is not of its declared length.  The
\* file is left as it is, and U too.
BodyFails(q) ==
    /\ req[q].pc = "write"
    /\ UNCHANGED <<session, bytes, place, digest, record, purge, faults>>
    /\ Stop(q)

Drained(q) ==
    /\ req[q].pc = "write" /\ ~req[q].gone
    /\ UNCHANGED <<session, bytes, place, digest, record, purge, faults>>
    /\ Goto(q, [req[q] EXCEPT !.pc = IF req[q].kind = "put" THEN "commit" ELSE "save"])

\* Mutant: the offset is saved and the hasher state is not.
SaveOffset(q) ==
    /\ req[q].pc = "save"
    /\ session' = [hash |-> None, idle |-> 0]
    /\ UNCHANGED <<bytes, place, digest, record, purge, faults>>
    /\ Stop(q)

\* save_upload puts the whole record, whatever is there by now.
Save(q) ==
    /\ req[q].pc = "save"
    /\ session' = [hash |-> req[q].hash, idle |-> 0]
    /\ UNCHANGED <<bytes, place, digest, record, purge, faults>>
    /\ Stop(q)

\* commit_upload: the hasher agrees with the digest the client named, and the
\* staging file is renamed to it.
Commit(q) ==
    /\ req[q].pc = "commit" /\ place = "staging"
    /\ place' = "blob"
    /\ digest' = req[q].hash
    /\ UNCHANGED <<session, bytes, record, purge, faults>>
    /\ Goto(q, [req[q] EXCEPT !.pc = "apply"])

\* The digests differ, or there is nothing left to rename: U survives.
CommitRefused(q) ==
    /\ req[q].pc = "commit"
    /\ UNCHANGED <<session, bytes, place, digest, record, purge, faults>>
    /\ Stop(q)

\* Mutant: the session is not retired with the commit.
ApplyKeeps(q) ==
    /\ req[q].pc = "apply"
    /\ record' = TRUE
    /\ UNCHANGED <<session, bytes, place, digest, purge, faults>>
    /\ Stop(q)

\* One batch: the blob's records, and the end of the session.
Apply(q) ==
    /\ req[q].pc = "apply"
    /\ record' = TRUE
    /\ session' = None
    /\ UNCHANGED <<bytes, place, digest, purge, faults>>
    /\ Stop(q)

----------------------------------------------------------------------------
(* DELETE, and the purge of sessions idle for Ttl: the record first, the    *)
(* file second.  (A dry run only counts.)                                   *)

CancelBegin(q) ==
    /\ req[q].pc = "idle" /\ session # None
    /\ Start(q, [req[q] EXCEPT !.pc = "cancel"])
    /\ UNCHANGED <<session, bytes, place, digest, record, purge, faults>>

\* Mutant: the cancel leaves the staging file.
CancelForgets(q) ==
    /\ req[q].pc = "cancel"
    /\ session' = None
    /\ UNCHANGED <<bytes, place, digest, record, purge, faults>>
    /\ Stop(q)

CancelRecord(q) ==
    /\ req[q].pc = "cancel"
    /\ session' = None
    /\ UNCHANGED <<bytes, place, digest, record, purge, faults>>
    /\ Goto(q, [req[q] EXCEPT !.pc = "unlink"])

\* cancel_upload of the store, which does not mind a file that is not there.
Unlinked == IF place = "staging" THEN "gone" ELSE place

CancelFile(q) ==
    /\ req[q].pc = "unlink"
    /\ place' = Unlinked
    /\ UNCHANGED <<session, bytes, digest, record, purge, faults>>
    /\ Stop(q)

PurgeFind ==
    /\ Purges /\ purge = "idle"
    /\ session # None /\ session.idle >= Ttl
    /\ purge' = "found"
    /\ UNCHANGED <<session, bytes, place, digest, record, req, faults, stale, raced>>

\* Mutant: purge drops the record and forgets the file.
PurgeForgets ==
    /\ purge = "found"
    /\ session' = None
    /\ purge' = "idle"
    /\ UNCHANGED <<bytes, place, digest, record, req, faults, stale, raced>>

\* delete_upload by id: what the scan saw is not looked at again.
PurgeRecord ==
    /\ purge = "found"
    /\ session' = None
    /\ purge' = "unlink"
    /\ UNCHANGED <<bytes, place, digest, record, req, faults, stale, raced>>

PurgeFile ==
    /\ purge = "unlink"
    /\ place' = Unlinked
    /\ purge' = "idle"
    /\ UNCHANGED <<session, bytes, digest, record, req, faults, stale, raced>>

----------------------------------------------------------------------------
(* The environment.                                                        *)

\* The request's future is dropped; only the call it is in goes on, beside
\* whatever the client sends next.
Disconnect(q) ==
    /\ Disconnects
    /\ req[q].pc # "idle" /\ ~req[q].gone
    /\ req' = [req EXCEPT ![q].gone = TRUE]
    /\ UNCHANGED <<session, bytes, place, digest, record, purge, faults, stale, raced>>

\* An I/O error ends the request.  A rename whose fsync failed has happened.
ReqFails(q) ==
    /\ faults < MaxFaults /\ faults' = faults + 1
    /\ req[q].pc # "idle"
    /\ \/ UNCHANGED <<place, digest>>
       \/ /\ req[q].pc = "commit" /\ place = "staging"
          /\ place' = "blob" /\ digest' = req[q].hash
    /\ UNCHANGED <<session, bytes, record, purge>>
    /\ Stop(q)

\* The process dies, or the purge pass does: nothing on disk changes.
Crash ==
    /\ faults < MaxFaults /\ faults' = faults + 1
    /\ req' = [q \in Req |-> ReqIdle]
    /\ purge' = "idle"
    /\ UNCHANGED <<session, bytes, place, digest, record, stale, raced>>

Tick ==
    /\ session # None /\ session.idle < Ttl
    /\ session' = [session EXCEPT !.idle = @ + 1]
    /\ UNCHANGED <<bytes, place, digest, record, req, purge, faults, stale, raced>>

ReqNext(q) ==
    \/ Create(q) \/ CreateRecord(q)
    \/ \E kind \in {"patch", "put"} : Begin(q, kind)
    \/ Resume(q) \/ (\E other \in BOOLEAN : Rehash(q, other))
    \/ (\E b \in Byte : Write(q, b)) \/ BodyFails(q) \/ Drained(q)
    \/ Save(q) \/ Commit(q) \/ CommitRefused(q) \/ Apply(q)
    \/ CancelBegin(q) \/ CancelRecord(q) \/ CancelFile(q)
    \/ Disconnect(q) \/ ReqFails(q)

PurgeNext == PurgeFind \/ PurgeRecord \/ PurgeFile

Next == (\E q \in Req : ReqNext(q)) \/ PurgeNext \/ Tick \/ Crash

Spec == Init /\ [][Next]_vars

(* The blocking calls return, a body ends one way or the other, the purge   *)
(* recurs, and time goes on.                                                *)
Progress(q) ==
    \/ CreateRecord(q) \/ Resume(q) \/ (\E other \in BOOLEAN : Rehash(q, other))
    \/ BodyFails(q) \/ Save(q) \/ Commit(q) \/ CommitRefused(q) \/ Apply(q)
    \/ CancelRecord(q) \/ CancelFile(q)

Fairness ==
    /\ \A q \in Req : WF_vars(Progress(q))
    /\ WF_vars(PurgeNext)
    /\ WF_vars(Tick)

FairSpec == Spec /\ Fairness

----------------------------------------------------------------------------
(* Properties.                                                             *)

\* Every variable keeps its type.
TypeOK ==
    /\ session \in Session \cup {None}
    /\ bytes \in Image
    /\ place \in {"none", "staging", "blob", "gone"}
    /\ digest \in Image
    /\ record \in BOOLEAN
    /\ req \in [Req -> [pc : {"idle", "create", "resume", "rehash", "write", "save",
                              "commit", "apply", "cancel", "unlink"},
                        kind : {"patch", "put", None}, hash : Image, gone : BOOLEAN]]
    /\ purge \in {"idle", "found", "unlink"}
    /\ faults \in 0..MaxFaults
    /\ stale \subseteq Req /\ raced \in BOOLEAN

\* "The store is content-addressed, so the bytes are identical": what lies under
\* a digest is what the digest names, although commit_upload never re-reads it.
CommittedContent == place = "blob" => bytes = digest

\* "A recorded offset ahead of the bytes is corruption": the staging file has
\* the bytes the session's offset and hasher state describe.
OffsetBehindBytes ==
    session # None /\ place = "staging" =>
        /\ Len(session.hash) <= Len(bytes)
        /\ \A i \in 1..Len(session.hash) : bytes[i] = session.hash[i]

\* There is one way to a blob that is not what its digest names: a request, or
\* the call left of a dropped one, writes to a session (resume_upload,
\* Upload::append, commit_upload, save_upload) that another request has changed
\* since it was read.  Broken bodies, retries with other bytes, requests that
\* overlap and leave no trace, dropped calls that return before the retry's
\* first effect, failures and crashes do not lead there.
CorruptOnlyByRace == raced \/ CommittedContent

\* Nor is there another way to a recorded offset or hasher state that the
\* staging file does not bear out (append_upload: bytes first, then the record).
OffsetLostOnlyByRace == raced \/ OffsetBehindBytes

Buffer == INSTANCE UploadBuffer WITH
    buffer <- IF session = None THEN None ELSE session.hash,
    stored <- IF record THEN bytes ELSE None,
    void <- raced

\* Until such a race, the session implements the buffer of UploadBuffer, and the
\* blob it closes into holds the buffer's bytes.
ImplementsBuffer == Buffer!Spec

Quiet == \A q \in Req : req[q].pc = "idle"

\* When nothing runs and nothing has failed, a staged file has a session that
\* purge can find it by.
NoOrphanFile == faults = 0 /\ Quiet /\ purge = "idle" /\ place = "staging" => session # None

\* An upload its client abandons, between two requests or in the middle of a
\* body, gives its staging file back in the end.
AbandonedReclaimed == <>[]Quiet => <>[](place # "staging")
=============================================================================
