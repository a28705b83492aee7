------------------------------ MODULE Requests ------------------------------
(***************************************************************************)
(* One HTTP request from its arrival to the end of its response: the        *)
(* authentication layer, the routers, the handlers' method tables           *)
(* (summ-server/src/app.rs and handlers/), and in full the download of a    *)
(* blob: two lookups, the open file, and the stream with one read in flight *)
(* (range.rs, handlers/blobs.rs, backend.rs, summ-storage/src/read.rs).     *)
(* Around it other requests remove the blob from its repository, purge      *)
(* unlinks the file, and something outside the registry may truncate it.    *)
(* Byte i of the blob is the number i.                                      *)
(***************************************************************************)
EXTENDS Paths, Gate, FiniteSets

CONSTANTS
    Junk,               \* a number of a Range header that parse::<u64> refuses
    Scenes,             \* what may arrive: a command line, a request and a blob
    Held,               \* the one repository that holds the blob
    referrers_enabled,
    chunk_size          \* read_chunk_size: bytes per read of a blob file

ASSUME ChunkAssumption == chunk_size \in Nat \ {0}

\* A key, and what an Authorization header decodes to.
Key == Seq(0..255)
Authorization == [scheme : STRING, user : Key, password : Key, decodes : BOOLEAN]

\* A Range header, the range it resolves to, a blocking read and the body it feeds.
Number == Nat \cup {None, Junk}
RangeHeader == [unit : STRING, comma : BOOLEAN, dash : BOOLEAN, first : Number, last : Number]
Window == [kind : {"partial"}, start : Nat, end : Nat]
ReadTask == [from : Nat, len : Nat, got : {"nothing", "bytes", "error"}]
BlobStream == [size : Nat, next : Nat, end : Nat, inflight : ReadTask \cup {None}]

\* What is absent, or refused, is none of the things that may be there.
ASSUME NoneAssumption ==
    /\ None \notin Nat \cup Key \cup Window
    /\ None \notin ReadTask /\ None \notin BlobStream
    /\ Junk \notin Nat /\ Junk # None

\* ApiKey::generate makes up 64 hexadecimal digits, never the empty key.
ASSUME MintedAssumption == Minted \in [read : Key \ {<<>>}, write : Key \ {<<>>}]

ASSUME SceneAssumption ==
    \A s \in Scenes : /\ s.mode \in {"open", "public-pull", "private"}
                      /\ s.read \in Key \cup {None} /\ s.write \in Key \cup {None}
                      /\ s.header \in Authorization \cup {None}
                      /\ s.size \in Nat /\ s.range \in RangeHeader \cup {None}

VARIABLES
    scene,      \* the scene being played; never changes
    policy,     \* the policy its command line yields
    pc,         \* where the request is
    endpoint,   \* what its path was routed to
    reply,      \* the response's status line and headers
    wrote,      \* whether a handler that changes the registry was run
    member,     \* whether Held holds the blob
    disk,       \* the blob's file: [linked |-> has a name, len |-> bytes it holds]
    window,     \* the byte range resolved against stat_blob, or None for all
    stream,     \* BlobStream: [size, next, end, inflight], None until opened
    sent,       \* the body so far
    failed      \* whether the body ended in an error the client can see

vars == <<scene, policy, pc, endpoint, reply, wrote, member, disk, window, stream, sent, failed>>

Status(n) == [status |-> n, challenge |-> FALSE, length |-> None, first |-> None, last |-> None]
Unanswered == Status(None)

\* A 2xx or an error of an operation that the other modules describe.
Elsewhere == Status(0)

Init ==
    /\ scene \in Scenes
    /\ policy \in Policies(scene.mode, scene.read, scene.write)
    /\ pc = "arrived"
    /\ endpoint = NoMatch
    /\ reply = Unanswered
    /\ wrote = FALSE
    /\ member = TRUE
    /\ disk = [linked |-> TRUE, len |-> scene.size]
    /\ window = None
    /\ stream = None
    /\ sent = <<>>
    /\ failed = FALSE

Answer(r) == pc' = "done" /\ reply' = r

-----------------------------------------------------------------------------
(* The gate and the routers                                                 *)

Authenticate ==
    /\ pc = "arrived"
    /\ LET verdict == IF is_enabled(policy) THEN authorize(policy, scene.method, scene.header) ELSE "ok"
       IN  IF verdict = "ok" THEN pc' = "route" /\ UNCHANGED reply
           ELSE Answer([Status(Refusal(verdict).status) EXCEPT !.challenge = Refusal(verdict).challenge])
    /\ UNCHANGED <<scene, policy, endpoint, wrote, member, disk, window, stream, sent, failed>>

Dispatch ==
    /\ pc = "route"
    /\ \E e \in {Routed(scene.path)} :
          /\ endpoint' = e
          /\ CASE e = NoMatch -> Answer(Status(404))
               [] e = InvalidName -> Answer(Status(400))
               [] OTHER -> pc' = "handle" /\ UNCHANGED reply
    /\ UNCHANGED <<scene, policy, wrote, member, disk, window, stream, sent, failed>>

-----------------------------------------------------------------------------
(* The handlers: which methods, which arguments, which of them write        *)

Allowed(kind) ==
    CASE kind = "Manifest" -> {"GET", "HEAD", "PUT", "DELETE"}
      [] kind = "Blob" -> {"GET", "HEAD", "DELETE"}
      [] kind = "Uploads" -> {"POST"}
      [] kind = "Upload" -> {"GET", "PATCH", "PUT", "DELETE"}
      [] kind = "Repository" -> {"GET", "HEAD", "DELETE"}
      [] kind = "Purge" -> {"GET", "HEAD", "POST"}
      [] OTHER -> {"GET", "HEAD"}

\* What is wrong with the endpoint's argument, as a status; None when nothing is.
reference_error(e, method) ==
    LET ref == parse_reference(e.arg)
    IN  CASE e.kind \in {"Blob", "Referrers"} -> IF parse_digest(e.arg) THEN None ELSE 400
          [] e.kind \in {"Manifest", "ManifestInfo", "TagHistory", "PinnedCounts"} ->
               IF ref \in {"tag", "digest"} THEN None
               ELSE IF ref = "bad_digest" \/ (e.kind = "Manifest" /\ method = "PUT") THEN 400 ELSE 404
          [] OTHER -> None

\* The /v2/ manifest and blob handlers look at the argument before the method.
Rejected(e, method) ==
    LET barred == IF method \in Allowed(e.kind) THEN None ELSE 405
        bad == reference_error(e, method)
        off == IF e.kind = "Referrers" /\ ~referrers_enabled THEN 404 ELSE None
        first == IF e.kind \in {"Manifest", "Blob"} THEN bad ELSE barred
        second == IF e.kind \in {"Manifest", "Blob"} THEN barred ELSE bad
    IN  IF first # None THEN first ELSE IF second # None THEN second ELSE off

\* The handlers that change the registry.
Mutating ==
    {<<"Manifest", "PUT">>, <<"Manifest", "DELETE">>, <<"Blob", "DELETE">>, <<"Uploads", "POST">>,
     <<"Upload", "PATCH">>, <<"Upload", "PUT">>, <<"Upload", "DELETE">>,
     <<"Repository", "DELETE">>, <<"Purge", "POST">>}

Handle ==
    /\ pc = "handle"
    /\ LET e == endpoint
           rejected == Rejected(e, scene.method)
       IN  \/ /\ rejected # None
              /\ Answer(Status(rejected))
              /\ UNCHANGED wrote
           \/ /\ rejected = None
              /\ e.kind = "Blob" /\ scene.method \in {"GET", "HEAD"}
              /\ pc' = "stat"
              /\ UNCHANGED <<reply, wrote>>
           \/ /\ rejected = None
              /\ ~(e.kind = "Blob" /\ scene.method \in {"GET", "HEAD"})
              /\ Answer(Elsewhere)
              /\ wrote' = (<<e.kind, scene.method>> \in Mutating)
    /\ UNCHANGED <<scene, policy, endpoint, member, disk, window, stream, sent, failed>>

-----------------------------------------------------------------------------
(* The download: resolving the range                                        *)

Cap(n, m) == IF n < m THEN n ELSE m
Less(n, m) == IF n < m THEN 0 ELSE n - m

\* range.rs parse_range.  A header is None, or its unit, whether it has a comma
\* or lacks the dash, and the two numbers, each None when empty.
Whole == [kind |-> "whole"]
Unsatisfiable == [kind |-> "unsatisfiable"]
Partial(start, end) == [kind |-> "partial", start |-> start, end |-> end]

parse_range(h, len) ==
    IF h = None \/ h.unit # "bytes" \/ h.comma \/ ~h.dash THEN Whole
    ELSE IF len = 0 THEN Unsatisfiable
    ELSE IF Junk \in {h.first, h.last} \/ (h.first = None /\ h.last = None) THEN Whole
    ELSE IF h.first = None THEN
        IF h.last = 0 THEN Unsatisfiable ELSE Partial(Less(len, h.last), len - 1)
    ELSE IF h.first >= len THEN Unsatisfiable
    ELSE IF h.last = None THEN Partial(h.first, len - 1)
    ELSE IF h.first > h.last THEN Unsatisfiable
    ELSE Partial(h.first, Cap(h.last, len - 1))

\* stat_blob finds the record only through the repository's membership.
stat_blob == endpoint.name = Held /\ member

\* GET and HEAD of a blob: the size its record gives, and what the Range header
\* makes of it.  HEAD ignores the range and ends here.
StatBlob ==
    /\ pc = "stat"
    /\ LET held == stat_blob
           range == parse_range(scene.range, scene.size)
       IN  \/ /\ ~held
              /\ Answer(Status(404))
              /\ UNCHANGED window
           \/ /\ held /\ scene.method = "HEAD"
              /\ Answer([Status(200) EXCEPT !.length = scene.size])
              /\ UNCHANGED window
           \/ /\ held /\ scene.method = "GET" /\ range.kind = "unsatisfiable"
              /\ Answer(Status(416))
              /\ UNCHANGED window
           \/ /\ held /\ scene.method = "GET" /\ range.kind # "unsatisfiable"
              /\ window' = IF range.kind = "whole" THEN None ELSE range
              /\ pc' = "recheck"
              /\ UNCHANGED reply
    /\ UNCHANGED <<scene, policy, endpoint, wrote, member, disk, stream, sent, failed>>

\* get_blob looks the membership up again ...
Recheck ==
    /\ pc = "recheck"
    /\ IF member THEN pc' = "open" /\ UNCHANGED reply ELSE Answer(Status(404))
    /\ UNCHANGED <<scene, policy, endpoint, wrote, member, disk, window, stream, sent, failed>>

\* read.rs: the part of the open file that a resolved window is served from.
resolve(range, size) ==
    IF range.start > range.end \/ range.start >= size THEN None
    ELSE [range EXCEPT !.end = Cap(@, size - 1)]

stream_from(size, offset, len) ==
    [size |-> size, next |-> offset, end |-> offset + len, inflight |-> None]

\* ... and opens the file.  From here the descriptor is what is read: the
\* headers are computed before the first byte.
OpenFile ==
    /\ pc = "open"
    /\ LET size == disk.len
           resolved == IF window = None THEN None ELSE resolve(window, size)
       IN  \/ /\ ~disk.linked
              /\ Answer(Status(404))
              /\ UNCHANGED stream
           \/ \* opening or stat-ing the file fails
              /\ Answer(Status(500))
              /\ UNCHANGED stream
           \/ /\ disk.linked /\ window = None
              /\ stream' = stream_from(size, 0, size)
              /\ reply' = [Status(200) EXCEPT !.length = size]
              /\ pc' = "stream"
           \/ /\ disk.linked /\ window # None /\ resolved = None
              /\ Answer(Status(500))
              /\ UNCHANGED stream
           \/ /\ disk.linked /\ window # None /\ resolved # None
              /\ stream' = stream_from(size, resolved.start, resolved.end - resolved.start + 1)
              /\ reply' = [Status(206) EXCEPT !.length = window.end - window.start + 1,
                                              !.first = window.start, !.last = window.end]
              /\ pc' = "stream"
    /\ UNCHANGED <<scene, policy, endpoint, wrote, member, disk, window, sent, failed>>

-----------------------------------------------------------------------------
(* The download: the stream                                                 *)

\* spawn_next: issue the read of the next chunk, if there is one.
spawn_next(s) ==
    LET len == Cap(s.end - s.next, chunk_size)
    IN  IF len = 0 THEN s
        ELSE [s EXCEPT !.next = @ + len, !.inflight = [from |-> s.next, len |-> len, got |-> "nothing"]]

Streaming(s) == UNCHANGED <<scene, policy, endpoint, reply, wrote, member, disk, window>> /\ stream' = s

\* The blocking task: a short read means the file shrank and is an error, as
\* is a failed read or a task that died.
ReadReturns ==
    /\ pc = "stream"
    /\ stream.inflight # None /\ stream.inflight.got = "nothing"
    /\ \E got \in {"bytes", "error"} :
          /\ got = "bytes" => stream.inflight.from + stream.inflight.len <= disk.len
          /\ Streaming([stream EXCEPT !.inflight.got = got])
    /\ UNCHANGED <<pc, sent, failed>>

\* poll_next with nothing in flight: the first read, or the end of the body.
PollFirst ==
    /\ pc = "stream" /\ stream.inflight = None
    /\ LET s == spawn_next(stream)
       IN  Streaming(s) /\ pc' = IF s.inflight = None THEN "done" ELSE "stream"
    /\ UNCHANGED <<sent, failed>>

\* poll_next on a read that returned: the next one is issued before the chunk
\* is handed over.
PollChunk ==
    /\ pc = "stream"
    /\ stream.inflight # None /\ stream.inflight.got = "bytes"
    /\ sent' = sent \o [i \in 1..stream.inflight.len |-> stream.inflight.from + i - 1]
    /\ Streaming(spawn_next([stream EXCEPT !.inflight = None]))
    /\ UNCHANGED <<pc, failed>>

\* A broken variant: a failed read leaves the stream where it was, so that the
\* next poll goes on with the chunk after it.
PollErrorSkips ==
    /\ pc = "stream"
    /\ stream.inflight # None /\ stream.inflight.got = "error"
    /\ failed' = TRUE
    /\ Streaming([stream EXCEPT !.inflight = None])
    /\ UNCHANGED <<pc, sent>>

\* A broken variant: a failed read is issued again.
PollErrorRetries ==
    /\ pc = "stream"
    /\ stream.inflight # None /\ stream.inflight.got = "error"
    /\ failed' = TRUE
    /\ Streaming([stream EXCEPT !.inflight = None, !.next = stream.inflight.from])
    /\ UNCHANGED <<pc, sent>>

\* poll_next on a read that failed: nothing is issued any more.
PollError ==
    /\ pc = "stream"
    /\ stream.inflight # None /\ stream.inflight.got = "error"
    /\ failed' = TRUE
    /\ Streaming([stream EXCEPT !.inflight = None, !.next = stream.end])
    /\ UNCHANGED <<pc, sent>>

\* The connection goes away: the client hangs up, or hyper gives up on an error.
HangUp ==
    /\ pc = "stream"
    /\ pc' = "done"
    /\ failed' = TRUE
    /\ Streaming(stream) /\ UNCHANGED sent

-----------------------------------------------------------------------------
(* What happens around the request                                          *)

Downloading == pc \in {"stat", "recheck", "open", "stream"}
OnlyTheBlob == UNCHANGED <<scene, policy, pc, endpoint, reply, wrote, window, stream, sent, failed>>

\* DELETE of the blob from its repository, by another request.
Unmember ==
    /\ Downloading /\ member
    /\ member' = FALSE
    /\ OnlyTheBlob /\ UNCHANGED disk

\* Purge removes the file; an open descriptor goes on reading it.
Unlink ==
    /\ Downloading /\ disk.linked
    /\ disk' = [disk EXCEPT !.linked = FALSE]
    /\ OnlyTheBlob /\ UNCHANGED member

\* Something outside the registry cuts the file short.
Truncate ==
    /\ Downloading
    /\ \E n \in 0..disk.len - 1 : disk' = [disk EXCEPT !.len = n]
    /\ OnlyTheBlob /\ UNCHANGED member

\* A request ends; nothing more happens to it.
Finished == pc = "done" /\ UNCHANGED vars

Download ==
    \/ StatBlob \/ Recheck \/ OpenFile \/ ReadReturns \/ PollFirst \/ PollChunk \/ PollError

Next ==
    \/ Authenticate \/ Dispatch \/ Handle \/ Download
    \/ HangUp \/ Unmember \/ Unlink \/ Truncate \/ Finished

\* The runtime goes on polling a download that can make progress, and a
\* blocking read returns.
Spec == Init /\ [][Next]_vars /\ WF_vars(Download)

-----------------------------------------------------------------------------
(* Properties                                                               *)

\* Routing: a path is taken for an endpoint only if it spells that endpoint -
\* a name of the specification's grammar, then the endpoint's suffix or after
\* its resource - no path is refused that spells one, and no path under /v2/
\* or /api/ is answered with the UI's shell.
RoutedAsMeant ==
    (pc \notin {"arrived", "route"} /\ reply.status \notin {401, 403}) =>
        IF endpoint \in {NoMatch, InvalidName} THEN Readings(scene.path) = {}
        ELSE Readings(scene.path) = {endpoint}

\* The key a client showed, read off its header and compared as a whole.
Shown(h) ==
    CASE h # None /\ h.scheme = "bearer" -> {h.user}
      [] h # None /\ h.scheme = "basic" /\ h.decodes -> IF h.password = <<>> THEN {h.user} ELSE {h.password}
      [] OTHER -> {}
ShowsKey(role) == Shown(scene.header) \cap {Given(scene[role], role)} # {}

\* What the operator's command line entitles the client to.
MayWrite == scene.mode = "open" \/ ShowsKey("write")
MayRead ==
    \/ MayWrite
    \/ scene.mode = "public-pull" /\ scene.header = None
    \/ scene.mode = "private" /\ ShowsKey("read")

\* Authentication: whatever the endpoint, a request that is let through is one
\* the operator's keys entitle its method to, one that is refused is not, the
\* registry is changed only for a holder of the write key (or with no keys at
\* all), and 403 without a challenge goes exactly to the holder of the read key.
AuthSound ==
    /\ wrote => MayWrite
    /\ pc # "arrived" =>
          LET entitled == IF scene.method \in {"GET", "HEAD", "OPTIONS"} THEN MayRead ELSE MayWrite
          IN  /\ (reply.status \in {401, 403}) <=> ~entitled
              /\ reply.status = 403 <=> ~entitled /\ scene.mode = "private" /\ ShowsKey("read")
              /\ reply.challenge <=> reply.status = 401
    /\ scene.mode # "open" \/ (scene.read = None /\ scene.write = None)

\* The bytes a Range header asks for: the specification's three forms, and the
\* whole blob for a header that is none of them.
Asks(h) == h # None /\ h.unit = "bytes" /\ ~h.comma /\ h.dash
WellFormed(h) == Asks(h) /\ Junk \notin {h.first, h.last} /\ ~(h.first = None /\ h.last = None)
Wanted ==
    LET h == scene.range
        all == 0..scene.size - 1
    IN  IF ~WellFormed(h) THEN all
        ELSE {i \in all : /\ h.first = None => scene.size - i <= h.last
                          /\ h.first # None => i >= h.first
                          /\ (h.first # None /\ h.last # None) => i <= h.last}

\* Whether the file was whole when it was opened.
Intact == stream = None \/ stream.size = scene.size

\* Downloads: at every moment the body is a prefix of the bytes asked for, with
\* no hole, whatever is deleted, unlinked, truncated or fails meanwhile and
\* however long the consumer goes on polling; a body that ends without an
\* error is all of them; the headers announce exactly them; and 416 is for a
\* range of no bytes.
ServedExact ==
    LET want == Wanted
        lowest == CHOOSE i \in want : \A j \in want : i <= j
        highest == CHOOSE i \in want : \A j \in want : j <= i
    IN  /\ \A i \in DOMAIN sent : sent[i] \in want /\ sent[i] = lowest + i - 1
        /\ (pc = "done" /\ stream # None /\ Intact /\ ~failed) => Len(sent) = Cardinality(want)
        /\ (stream # None /\ Intact) => reply.length = Cardinality(want)
        /\ (reply.status = 206 /\ want # {}) => reply.first = lowest /\ reply.last = highest
        /\ stream # None => (reply.status = 206 <=> WellFormed(scene.range) /\ want # {})
        /\ reply.status = 416 => Asks(scene.range) /\ want = {}

\* A download that began is answered and comes to an end, however its reads
\* fail and even if nobody hangs up.
Delivered == pc = "stat" ~> pc = "done"
=============================================================================
