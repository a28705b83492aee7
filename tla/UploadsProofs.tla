--------------------------- MODULE UploadsProofs ---------------------------
(***************************************************************************)
(* Proofs about Uploads, for every blob length, every choice of frames the *)
(* clients may send, and any number of faults:                             *)
(*   - the type invariant, for any number of requests;                     *)
(*   - NoOrphanFile, for any number of requests that keep their clients;   *)
(*   - OffsetLostOnlyByRace and CorruptOnlyByRace, for any number of       *)
(*     requests, whose clients may go away, purge or no purge;             *)
(*   - until such a race the session implements UploadBuffer, when no      *)
(*     purge cuts in.                                                      *)
(***************************************************************************)
EXTENDS Uploads, SequenceTheorems, TLAPS

----------------------------------------------------------------------------
(* Sequences.                                                              *)

Cell == Byte \cup {Hole}

\* A function on 1..n is a sequence of length n.
LEMMA FunctionIsSeq ==
    ASSUME NEW S, NEW n \in Nat, NEW s \in [1..n -> S]
    PROVE  s \in Seq(S) /\ Len(s) = n
<1>1. s \in Seq(S)
  BY SeqDef
<1>2. Len(s) \in Nat /\ 1..Len(s) = 1..n
  BY <1>1, LenProperties
<1>3. Len(s) = n
  <2>1. \A i \in Nat : i \in 1..Len(s) <=> i \in 1..n
    BY <1>2
  <2>2. \A i \in Nat \ {0} : i <= Len(s) <=> i <= n
    BY <1>2, <2>1
  <2>. QED  BY <1>2, <2>2
<1>. QED  BY <1>1, <1>3

\* What a file may hold: the sequences of cells within the bound.
LEMMA ImageSeq == \A s : s \in Image <=> s \in Seq(Cell) /\ Len(s) \in 0..MaxLen
<1>1. ASSUME NEW s \in Image PROVE s \in Seq(Cell) /\ Len(s) \in 0..MaxLen
  <2>1. PICK n \in 0..MaxLen : s \in [1..n -> Cell]
    BY DEF Image, Cell
  <2>2. n \in Nat
    BY OfferAssumption
  <2>. QED  BY <2>1, <2>2, FunctionIsSeq
<1>2. ASSUME NEW s \in Seq(Cell), Len(s) \in 0..MaxLen PROVE s \in Image
  <2>1. s \in [1..Len(s) -> Cell]
    BY LenProperties
  <2>. QED  BY <1>2, <2>1 DEF Image, Cell
<1>. QED  BY <1>1, <1>2

\* What a client may have sent: the same, without holes.
LEMMA ContentsSeq == \A s : s \in Buffer!Contents <=> s \in Seq(Byte) /\ Len(s) \in 0..MaxLen
<1>1. ASSUME NEW s \in Buffer!Contents PROVE s \in Seq(Byte) /\ Len(s) \in 0..MaxLen
  <2>1. PICK n \in 0..MaxLen : s \in [1..n -> Byte]
    BY DEF Buffer!Contents
  <2>2. n \in Nat
    BY OfferAssumption
  <2>. QED  BY <2>1, <2>2, FunctionIsSeq
<1>2. ASSUME NEW s \in Seq(Byte), Len(s) \in 0..MaxLen PROVE s \in Buffer!Contents
  <2>1. s \in [1..Len(s) -> Byte]
    BY LenProperties
  <2>. QED  BY <1>2, <2>1 DEF Buffer!Contents
<1>. QED  BY <1>1, <1>2

\* The empty file.
LEMMA EmptyImage == <<>> \in Image /\ <<>> \in Buffer!Contents
<1>1. 0 \in 0..MaxLen
  BY OfferAssumption
<1>. QED  BY <1>1, EmptySeq, ImageSeq, ContentsSeq

\* Cutting a sequence back.
LEMMA Cut ==
    ASSUME NEW S, NEW s \in Seq(S), NEW n \in 0..Len(s)
    PROVE  /\ SubSeq(s, 1, n) \in Seq(S) /\ Len(SubSeq(s, 1, n)) = n
           /\ \A i \in 1..n : SubSeq(s, 1, n)[i] = s[i]
<1>1. Len(s) \in Nat /\ n \in Int /\ 1..n \subseteq 1..Len(s)
  BY LenProperties
<1>2. \A i \in 1..n : s[i] \in S
  BY <1>1, ElementOfSeq
<1>3. /\ SubSeq(s, 1, n) \in Seq(S)
      /\ Len(SubSeq(s, 1, n)) = IF 1 <= n THEN n - 1 + 1 ELSE 0
      /\ \A i \in 1..n - 1 + 1 : SubSeq(s, 1, n)[i] = s[1 + i - 1]
  BY <1>1, <1>2, SubSeqProperties
<1>. QED  BY <1>1, <1>3

LEMMA CutImage ==
    ASSUME NEW s \in Image, NEW n \in 0..Len(s)
    PROVE  SubSeq(s, 1, n) \in Image
<1>1. s \in Seq(Cell) /\ Len(s) \in 0..MaxLen
  BY ImageSeq
<1>2. SubSeq(s, 1, n) \in Seq(Cell) /\ Len(SubSeq(s, 1, n)) = n
  BY <1>1, Cut
<1>3. n \in 0..MaxLen
  BY <1>1, OfferAssumption
<1>. QED  BY <1>2, <1>3, ImageSeq

\* A frame is appended within the bound.
LEMMA Grow ==
    ASSUME NEW s, Len(s) + 1 <= MaxLen, NEW b \in Byte
    PROVE  /\ s \in Image => Append(s, b) \in Image
           /\ s \in Buffer!Contents => Append(s, b) \in Buffer!Contents
<1>1. ASSUME s \in Image PROVE Append(s, b) \in Image
  <2>1. s \in Seq(Cell) /\ Len(s) \in 0..MaxLen /\ b \in Cell
    BY <1>1, ImageSeq DEF Cell
  <2>2. Append(s, b) \in Seq(Cell) /\ Len(Append(s, b)) = Len(s) + 1
    BY <2>1, AppendProperties
  <2>3. Len(s) + 1 \in 0..MaxLen
    BY <2>1, OfferAssumption
  <2>. QED  BY <2>2, <2>3, ImageSeq
<1>2. ASSUME s \in Buffer!Contents PROVE Append(s, b) \in Buffer!Contents
  <2>1. s \in Seq(Byte) /\ Len(s) \in 0..MaxLen
    BY <1>2, ContentsSeq
  <2>2. Append(s, b) \in Seq(Byte) /\ Len(Append(s, b)) = Len(s) + 1
    BY <2>1, AppendProperties
  <2>3. Len(s) + 1 \in 0..MaxLen
    BY <2>1, OfferAssumption
  <2>. QED  BY <2>2, <2>3, ContentsSeq
<1>. QED  BY <1>1, <1>2

\* A frame written anywhere within the bound leaves a file.
LEMMA PutImage ==
    ASSUME NEW s \in Image, NEW i \in 1..MaxLen, NEW b \in Byte
    PROVE  Put(s, i, b) \in Image
<1>. DEFINE k == IF i > Len(s) THEN i ELSE Len(s)
<1>1. s \in Seq(Cell) /\ Len(s) \in 0..MaxLen /\ b \in Cell /\ Hole \in Cell
  BY ImageSeq DEF Cell
<1>2. k \in 0..MaxLen
  BY <1>1, OfferAssumption
<1>3. \A j \in 1..Len(s) : s[j] \in Cell
  BY <1>1, ElementOfSeq
<1>4. Put(s, i, b) = [j \in 1..k |-> IF j = i THEN b
                                     ELSE IF j <= Len(s) THEN s[j] ELSE Hole]
  BY DEF Put
<1>. HIDE DEF k
<1>5. \A j \in 1..k : (IF j = i THEN b ELSE IF j <= Len(s) THEN s[j] ELSE Hole) \in Cell
  BY <1>1, <1>2, <1>3, OfferAssumption
<1>6. Put(s, i, b) \in [1..k -> Cell]
  BY <1>4, <1>5
<1>. QED  BY <1>2, <1>6 DEF Image, Cell

\* A frame written at the end is appended.
LEMMA PutAtEnd ==
    ASSUME NEW s \in Image, NEW b \in Byte, Len(s) + 1 <= MaxLen
    PROVE  Put(s, Len(s) + 1, b) = Append(s, b)
<1>. DEFINE n == Len(s) + 1
            t == Put(s, n, b)
            u == Append(s, b)
<1>1. s \in Seq(Cell) /\ Len(s) \in Nat /\ b \in Cell
  BY ImageSeq, OfferAssumption DEF Cell
<1>2. u \in Seq(Cell) /\ Len(u) = n /\ (\A i \in 1..Len(s) : u[i] = s[i]) /\ u[n] = b
  BY <1>1, AppendProperties
<1>3. n > Len(s) /\ n \in Nat /\ n \in 1..MaxLen
  BY <1>1, OfferAssumption
<1>4. t = [j \in 1..n |-> IF j = n THEN b ELSE IF j <= Len(s) THEN s[j] ELSE Hole]
  BY <1>3 DEF Put
<1>5. u \in [1..n -> Cell]
  BY <1>2, LenProperties
<1>6. \A j \in 1..n : t[j] = u[j]
  <2>. SUFFICES ASSUME NEW j \in 1..n PROVE t[j] = u[j]
    OBVIOUS
  <2>1. CASE j = n
    BY <1>2, <1>4, <2>1
  <2>2. CASE j # n
    <3>1. j \in 1..Len(s) /\ j <= Len(s)
      BY <1>1, <2>2
    <3>. HIDE DEF u, n
    <3>. QED  BY <1>2, <1>4, <2>2, <3>1
  <2>. QED  BY <2>1, <2>2
<1>. HIDE DEF u, n, t
<1>7. t = u
  BY <1>4, <1>5, <1>6
<1>. QED  BY <1>7 DEF t, u, n

----------------------------------------------------------------------------
(* Types.                                                                  *)

\* The control records.
ReqRecord == [pc : {"idle", "create", "resume", "rehash", "write", "save",
                    "commit", "apply", "cancel", "unlink"},
              kind : {"patch", "put", None}, hash : Image, gone : BOOLEAN]

\* The idle request has its type.
LEMMA IdleType ==
    /\ ReqIdle \in ReqRecord /\ ReqIdle.pc = "idle" /\ ReqIdle.hash = <<>> /\ ~ReqIdle.gone
BY EmptyImage DEF ReqIdle, ReqRecord

\* A request moves on, or ends.
LEMMA GotoType ==
    ASSUME TypeOK, NEW q \in Req, NEW rec \in ReqRecord, Goto(q, rec) \/ Stop(q)
    PROVE  req' \in [Req -> ReqRecord]
BY IdleType DEF TypeOK, Goto, Stop, ReqRecord

\* What a step does to the history: a request begins, loses its client, or has a
\* call return.
LEMMA HistoryStep ==
    ASSUME NEW q \in Req, ReqNext(q)
    PROVE  \/ /\ req[q].pc = "idle" /\ UNCHANGED <<session, bytes, place, digest, record>>
              /\ stale' = stale \ {q} /\ raced' = raced
           \/ /\ Create(q) /\ req[q].pc = "idle" /\ stale' = Req \ {q} /\ raced' = raced
           \/ /\ UNCHANGED <<session, bytes, place, digest, record>>
              /\ stale' = stale /\ raced' = raced
           \/ Returns(q)
<1>1. CASE Create(q)
  BY <1>1 DEF Create
<1>2. CASE (\E kind \in {"patch", "put"} : Begin(q, kind)) \/ CancelBegin(q)
  BY <1>2 DEF Begin, CancelBegin, Start
<1>3. CASE Disconnect(q)
  BY <1>3 DEF Disconnect
<1>4. CASE CreateRecord(q) \/ BodyFails(q) \/ Save(q) \/ CommitRefused(q) \/ Apply(q)
           \/ CancelFile(q) \/ ReqFails(q)
  BY <1>4 DEF CreateRecord, BodyFails, Save, CommitRefused, Apply, CancelFile, ReqFails, Stop
<1>5. CASE Resume(q) \/ (\E other \in BOOLEAN : Rehash(q, other)) \/ Drained(q)
  BY <1>5 DEF Resume, Rehash, Drained, Goto, Stop
<1>6. CASE (\E b \in Byte : Write(q, b)) \/ Commit(q) \/ CancelRecord(q)
  BY <1>6 DEF Write, Commit, CancelRecord, Goto
<1>. QED  BY <1>1, <1>2, <1>3, <1>4, <1>5, <1>6 DEF ReqNext

\* A session is None or not.
LEMMA SessionType == \A s : s \in Session => s.hash \in Image /\ s.idle \in 0..Ttl /\ s # None
BY NoneAssumption DEF Session

\* Every step of a request keeps the types.
LEMMA ReqStepType ==
    ASSUME TypeOK, NEW q \in Req, ReqNext(q) PROVE TypeOK'
<1>. USE DEF TypeOK
<1>0. req[q] \in ReqRecord /\ req[q].hash \in Image /\ req \in [Req -> ReqRecord]
  BY DEF ReqRecord
<1>y. stale' \subseteq Req /\ raced' \in BOOLEAN
  BY HistoryStep DEF Returns
<1>. USE <1>y
<1>n. Len(req[q].hash) \in Nat /\ Len(bytes) \in Nat
  BY <1>0, ImageSeq
\* A step that moves the request on and writes nothing.
<1>g. ASSUME NEW rec \in ReqRecord, Goto(q, rec) \/ Stop(q) \/ req' = [req EXCEPT ![q] = rec],
             UNCHANGED <<session, bytes, place, digest, record, purge, faults>>
      PROVE  TypeOK'
  <2>1. req' \in [Req -> ReqRecord]
    BY <1>0, <1>g, GotoType
  <2>. QED  BY <1>g, <2>1 DEF ReqRecord
<1>1. CASE Create(q)
  BY <1>1 DEF Create
<1>2. CASE CreateRecord(q)
  <2>1. session' \in Session
    BY <1>2, EmptyImage, BoundAssumption DEF CreateRecord, Session
  <2>2. req' \in [Req -> ReqRecord]
    BY <1>2, IdleType, GotoType DEF CreateRecord
  <2>. QED  BY <1>2, <2>1, <2>2 DEF CreateRecord, ReqRecord
<1>3. ASSUME NEW kind \in {"patch", "put"}, Begin(q, kind) PROVE TypeOK'
  <2>1. session.hash \in Image
    BY <1>3, SessionType DEF Begin
  <2>. DEFINE rec == [pc |-> "resume", kind |-> kind, hash |-> session.hash, gone |-> FALSE]
  <2>2. rec \in ReqRecord
    BY <2>1 DEF ReqRecord
  <2>3. /\ req' = [req EXCEPT ![q] = rec]
        /\ UNCHANGED <<session, bytes, place, digest, record, purge, faults>>
    BY <1>3 DEF Begin, Start
  <2>. HIDE DEF rec
  <2>. QED  BY <1>g, <2>2, <2>3
<1>4. CASE Resume(q)
  <2>. DEFINE rec == [req[q] EXCEPT !.pc = IF req[q].kind = "put" THEN "rehash" ELSE "write"]
  <2>1. rec \in ReqRecord
    BY <1>0 DEF ReqRecord
  <2>. HIDE DEF rec
  <2>2. req' \in [Req -> ReqRecord]
    BY <1>4, <2>1, GotoType DEF Resume, rec
  <2>. DEFINE n == Len(req[q].hash)
  <2>3. Len(bytes) >= n => SubSeq(bytes, 1, n) \in Image
    BY <1>n, CutImage
  <2>4. bytes' = bytes \/ (Len(bytes) >= n /\ bytes' = SubSeq(bytes, 1, n))
    BY <1>4 DEF Resume
  <2>. QED  BY <1>4, <2>2, <2>3, <2>4 DEF Resume, ReqRecord
<1>5. ASSUME NEW other \in BOOLEAN, Rehash(q, other) PROVE TypeOK'
  <2>. DEFINE n == Len(req[q].hash)
              x == [req[q] EXCEPT !.pc = "write"]
              y == [req[q] EXCEPT !.pc = "write", !.hash = SubSeq(bytes, 1, n)]
  <2>1. x \in ReqRecord
    BY <1>0 DEF ReqRecord
  <2>2. Len(bytes) >= n => SubSeq(bytes, 1, n) \in Image
    BY <1>n, CutImage
  <2>3. Len(bytes) >= n => y \in ReqRecord
    BY <1>0, <2>2 DEF ReqRecord
  <2>4. UNCHANGED <<session, bytes, place, digest, record, purge, faults>>
    BY <1>5 DEF Rehash
  <2>5. Goto(q, x) \/ (Len(bytes) >= n /\ Goto(q, y)) \/ Stop(q)
    BY <1>5 DEF Rehash
  <2>. HIDE DEF x, y
  <2>. QED  BY <1>g, <2>1, <2>3, <2>4, <2>5
<1>6. ASSUME NEW b \in Byte, Write(q, b) PROVE TypeOK'
  <2>. DEFINE n == Len(req[q].hash) + 1
              h == Append(req[q].hash, b)
              x == [req[q] EXCEPT !.hash = h]
  <2>1. n <= MaxLen /\ n \in 1..MaxLen
    BY <1>6, <1>n, OfferAssumption DEF Write
  <2>2. h \in Image
    BY <1>0, <2>1, Grow
  <2>3. x \in ReqRecord
    <3>. HIDE DEF h
    <3>. QED  BY <1>0, <2>2 DEF ReqRecord
  <2>4. bytes' \in Image
    BY <1>6, <2>1, PutImage DEF Write
  <2>. HIDE DEF x
  <2>5. req' \in [Req -> ReqRecord]
    BY <1>6, <2>3, GotoType DEF Write, x
  <2>. QED  BY <1>6, <2>4, <2>5 DEF Write, ReqRecord
<1>7. CASE BodyFails(q) \/ CommitRefused(q)
  BY <1>7, <1>g, IdleType DEF BodyFails, CommitRefused
<1>8. CASE Drained(q)
  <2>. DEFINE x == [req[q] EXCEPT !.pc = IF req[q].kind = "put" THEN "commit" ELSE "save"]
  <2>1. x \in ReqRecord
    BY <1>0 DEF ReqRecord
  <2>2. Goto(q, x)
    BY <1>8 DEF Drained
  <2>. HIDE DEF x
  <2>. QED  BY <1>8, <1>g, <2>1, <2>2 DEF Drained
<1>9. CASE Save(q)
  <2>1. session' \in Session
    BY <1>0, <1>9, BoundAssumption DEF Save, Session
  <2>2. req' \in [Req -> ReqRecord]
    BY <1>9, IdleType, GotoType DEF Save
  <2>. QED  BY <1>9, <2>1, <2>2 DEF Save, ReqRecord
<1>10. CASE Commit(q)
  <2>. DEFINE x == [req[q] EXCEPT !.pc = "apply"]
  <2>1. x \in ReqRecord
    BY <1>0 DEF ReqRecord
  <2>. HIDE DEF x
  <2>2. req' \in [Req -> ReqRecord]
    BY <1>10, <2>1, GotoType DEF Commit, x
  <2>. QED  BY <1>0, <1>10, <2>2 DEF Commit, ReqRecord
<1>11. CASE Apply(q)
  <2>1. req' \in [Req -> ReqRecord]
    BY <1>11, IdleType, GotoType DEF Apply
  <2>. QED  BY <1>11, <2>1 DEF Apply, ReqRecord
<1>12. CASE CancelBegin(q) \/ Disconnect(q)
  <2>1. [req[q] EXCEPT !.pc = "cancel"] \in ReqRecord /\ [req[q] EXCEPT !.gone = TRUE] \in ReqRecord
    BY <1>0 DEF ReqRecord
  <2>2. /\ \/ req' = [req EXCEPT ![q] = [req[q] EXCEPT !.pc = "cancel"]]
           \/ req' = [req EXCEPT ![q] = [req[q] EXCEPT !.gone = TRUE]]
        /\ UNCHANGED <<session, bytes, place, digest, record, purge, faults>>
    BY <1>12 DEF CancelBegin, Disconnect, Start
  <2>. QED  BY <1>g, <2>1, <2>2
<1>13. CASE CancelRecord(q)
  <2>. DEFINE x == [req[q] EXCEPT !.pc = "unlink"]
  <2>1. x \in ReqRecord
    BY <1>0 DEF ReqRecord
  <2>. HIDE DEF x
  <2>2. req' \in [Req -> ReqRecord]
    BY <1>13, <2>1, GotoType DEF CancelRecord, x
  <2>. QED  BY <1>13, <2>2 DEF CancelRecord, ReqRecord
<1>14. CASE CancelFile(q)
  <2>1. req' \in [Req -> ReqRecord]
    BY <1>14, IdleType, GotoType DEF CancelFile
  <2>. QED  BY <1>14, <2>1 DEF CancelFile, Unlinked, ReqRecord
<1>15. CASE ReqFails(q)
  <2>1. req' \in [Req -> ReqRecord] /\ faults' \in 0..MaxFaults
    BY <1>15, IdleType, GotoType, BoundAssumption DEF ReqFails
  <2>. QED  BY <1>0, <1>15, <2>1 DEF ReqFails, ReqRecord
<1>. QED  BY <1>1, <1>2, <1>3, <1>4, <1>5, <1>6, <1>7, <1>8, <1>9, <1>10, <1>11, <1>12,
             <1>13, <1>14, <1>15 DEF ReqNext

\* Every step keeps the types.
LEMMA StepType == ASSUME TypeOK, [Next]_vars PROVE TypeOK'
<1>1. CASE PurgeNext
  BY <1>1 DEF PurgeNext, PurgeFind, PurgeRecord, PurgeFile, Unlinked, TypeOK
<1>2. CASE Tick
  <2>1. session \in Session /\ session.idle + 1 \in 0..Ttl
    BY <1>2, SessionType, BoundAssumption DEF Tick, TypeOK
  <2>2. session' \in Session
    BY <1>2, <2>1 DEF Tick, Session
  <2>. QED  BY <1>2, <2>2 DEF Tick, TypeOK
<1>3. CASE Crash
  BY <1>3, IdleType, BoundAssumption DEF Crash, TypeOK, ReqRecord
<1>4. CASE UNCHANGED vars
  BY <1>4 DEF vars, TypeOK
<1>. QED  BY <1>1, <1>2, <1>3, <1>4, ReqStepType DEF Next

\* Nothing uploaded has the types.
LEMMA InitType == Init => TypeOK
<1>. SUFFICES ASSUME Init PROVE TypeOK
  OBVIOUS
<1>1. req \in [Req -> ReqRecord] /\ faults \in 0..MaxFaults
  BY IdleType, BoundAssumption DEF Init
<1>2. bytes \in Image /\ digest \in Image
  BY EmptyImage DEF Init
<1>. QED  BY <1>1, <1>2 DEF Init, TypeOK, ReqRecord

\* Every variable keeps its type, however many requests work on the session and
\* whatever holes their writes leave: neither the file nor the hasher state
\* grows beyond the bound.
THEOREM TypeCorrect == Spec => []TypeOK
<1>1. TypeOK /\ [Next]_vars => TypeOK'
  BY StepType
<1>. QED  BY <1>1, InitType, PTL DEF Spec

----------------------------------------------------------------------------
(* No file without an owner, for any number of requests.                   *)

\* A staged file that no session leads to is somebody's who is about to create
\* the session or to unlink the file, unless something has failed.
Owned ==
    faults = 0 /\ place = "staging" /\ session = None =>
       purge = "unlink" \/ \E q \in Req : req[q].pc \in {"create", "unlink"}

\* Whoever applies has renamed the file, and every request has its client.
Attended == \A q \in Req : (req[q].pc = "apply" => place = "blob") /\ ~req[q].gone

\* The step of one request, seen from the others: the file and the session it
\* leaves have an owner, and a file that was renamed stays so.
Keeps(q) ==
    /\ \A r \in Req : r # q => req'[r] = req[r]
    /\ ~req'[q].gone
    /\ req'[q].pc = "apply" => place' = "blob"
    /\ place = "blob" => place' = "blob"
    /\ Owned'

\* A request moves to a record that owns the file, or leaves a file that is
\* gone, that a session leads to, or that it did not own.
LEMMA MoveKeeps ==
    ASSUME req \in [Req -> ReqRecord], Owned, NEW q \in Req, NEW rec, ~rec.gone,
           req' = [req EXCEPT ![q] = rec],
           rec.pc = "apply" => place' = "blob",
           place = "blob" => place' = "blob",
           UNCHANGED purge, faults' = 0 => faults = 0,
           \/ faults' # 0
           \/ place' # "staging"
           \/ session' # None
           \/ rec.pc \in {"create", "unlink"}
           \/ UNCHANGED <<place, session>> /\ req[q].pc \notin {"create", "unlink"}
    PROVE  Keeps(q)
<1>1. req'[q] = rec /\ \A r \in Req : r # q => req'[r] = req[r]
  OBVIOUS
<1>2. Owned'
  <2>. SUFFICES ASSUME faults' = 0, place' = "staging", session' = None
                PROVE  purge' = "unlink" \/ \E r \in Req : req'[r].pc \in {"create", "unlink"}
    BY DEF Owned
  <2>1. CASE rec.pc \in {"create", "unlink"}
    BY <1>1, <2>1
  <2>2. CASE UNCHANGED <<place, session>> /\ req[q].pc \notin {"create", "unlink"}
    <3>1. purge = "unlink" \/ \E r \in Req : req[r].pc \in {"create", "unlink"}
      BY <2>2 DEF Owned
    <3>. QED  BY <1>1, <2>2, <3>1
  <2>. QED  BY <2>1, <2>2
<1>. QED  BY <1>1, <1>2 DEF Keeps

\* Every step of a request does.
LEMMA AttendedStep ==
    ASSUME TypeOK, Attended, Owned, ~Disconnects, NEW q \in Req, ReqNext(q)
    PROVE  Keeps(q)
<1>0. req \in [Req -> ReqRecord] /\ req[q] \in ReqRecord /\ ~req[q].gone
  BY DEF TypeOK, Attended, ReqRecord
<1>i. ReqIdle.pc = "idle" /\ ~ReqIdle.gone
  BY IdleType
<1>g. \A rec : Goto(q, rec) => req' = [req EXCEPT ![q] = rec]
  BY <1>0 DEF Goto
<1>1. CASE Create(q)
  <2>. DEFINE rec == [req[q] EXCEPT !.pc = "create"]
  <2>1. rec.pc = "create" /\ ~rec.gone
    BY <1>0 DEF ReqRecord
  <2>2. req' = [req EXCEPT ![q] = rec] /\ place = "none"
    BY <1>1 DEF Create
  <2>. HIDE DEF rec
  <2>. QED  BY <1>1, <1>0, MoveKeeps, <2>1, <2>2 DEF Create
<1>2. CASE CreateRecord(q)
  <2>1. session' # None
    BY <1>2, EmptyImage, BoundAssumption, SessionType DEF CreateRecord, Session
  <2>. QED  BY <1>2, <1>0, MoveKeeps, <1>i, <2>1 DEF CreateRecord, Stop
<1>3. ASSUME NEW kind \in {"patch", "put"}, Begin(q, kind)
      PROVE  Keeps(q)
  <2>. DEFINE rec == [pc |-> "resume", kind |-> kind, hash |-> session.hash, gone |-> FALSE]
  <2>1. rec.pc = "resume" /\ ~rec.gone
    OBVIOUS
  <2>2. req' = [req EXCEPT ![q] = rec]
    BY <1>3 DEF Begin, Start
  <2>. HIDE DEF rec
  <2>. QED  BY <1>3, <1>0, MoveKeeps, <2>1, <2>2 DEF Begin
\* The steps of a request that goes on to a record of its own.
<1>4. ASSUME NEW pc \in {"rehash", "write", "save", "commit"}, NEW h,
             req' = [req EXCEPT ![q] = [req[q] EXCEPT !.pc = pc, !.hash = h]],
             req[q].pc \in {"resume", "rehash", "write"},
             UNCHANGED <<session, place, purge, faults>>
      PROVE  Keeps(q)
  <2>. DEFINE rec == [req[q] EXCEPT !.pc = pc, !.hash = h]
  <2>1. rec.pc = pc /\ ~rec.gone
    BY <1>0 DEF ReqRecord
  <2>2. req' = [req EXCEPT ![q] = rec]
    BY <1>4
  <2>. HIDE DEF rec
  <2>. QED  BY <1>4, <1>0, MoveKeeps, <2>1, <2>2
<1>h. \A pc : [req[q] EXCEPT !.pc = pc] = [req[q] EXCEPT !.pc = pc, !.hash = req[q].hash]
  BY <1>0 DEF ReqRecord
<1>s. ASSUME Stop(q), req[q].pc \in {"resume", "rehash", "write", "commit"},
             UNCHANGED <<session, place, purge, faults>>
      PROVE  Keeps(q)
  BY <1>0, MoveKeeps, <1>i, <1>s DEF Stop
<1>5. CASE Resume(q)
  <2>1. CASE Stop(q)
    BY <1>5, <1>s, <2>1 DEF Resume
  <2>2. CASE Goto(q, [req[q] EXCEPT !.pc = IF req[q].kind = "put" THEN "rehash" ELSE "write"])
    <3>. DEFINE pc == IF req[q].kind = "put" THEN "rehash" ELSE "write"
    <3>1. req' = [req EXCEPT ![q] = [req[q] EXCEPT !.pc = pc, !.hash = req[q].hash]]
      BY <1>g, <1>h, <2>2
    <3>2. pc \in {"rehash", "write", "save", "commit"}
      OBVIOUS
    <3>. HIDE DEF pc
    <3>. QED  BY <1>4, <1>5, <3>1, <3>2 DEF Resume
  <2>. QED  BY <1>5, <2>1, <2>2 DEF Resume
<1>6. ASSUME NEW other \in BOOLEAN, Rehash(q, other)
      PROVE  Keeps(q)
  <2>1. CASE Stop(q)
    BY <1>6, <1>s, <2>1 DEF Rehash
  <2>2. CASE Goto(q, [req[q] EXCEPT !.pc = "write"])
    <3>1. req' = [req EXCEPT ![q] = [req[q] EXCEPT !.pc = "write", !.hash = req[q].hash]]
      BY <1>g, <1>h, <2>2
    <3>. QED  BY <1>4, <1>6, <3>1 DEF Rehash
  <2>3. CASE Goto(q, [req[q] EXCEPT !.pc = "write",
                                    !.hash = SubSeq(bytes, 1, Len(req[q].hash))])
    <3>. DEFINE h == SubSeq(bytes, 1, Len(req[q].hash))
    <3>1. req' = [req EXCEPT ![q] = [req[q] EXCEPT !.pc = "write", !.hash = h]]
      BY <1>g, <2>3
    <3>. HIDE DEF h
    <3>. QED  BY <1>4, <1>6, <3>1 DEF Rehash
  <2>. QED  BY <1>6, <2>1, <2>2, <2>3 DEF Rehash
<1>7. ASSUME NEW b \in Byte, Write(q, b)
      PROVE  Keeps(q)
  <2>1. [req[q] EXCEPT !.hash = Append(req[q].hash, b)]
           = [req[q] EXCEPT !.pc = "write", !.hash = Append(req[q].hash, b)]
    BY <1>0, <1>7 DEF Write, ReqRecord
  <2>2. req' = [req EXCEPT ![q] = [req[q] EXCEPT !.hash = Append(req[q].hash, b)]]
    BY <1>7, <1>g DEF Write
  <2>. QED  BY <1>4, <1>7, <2>1, <2>2 DEF Write
<1>8. CASE BodyFails(q) \/ CommitRefused(q)
  BY <1>8, <1>s DEF BodyFails, CommitRefused
<1>9. CASE Drained(q)
  <2>. DEFINE pc == IF req[q].kind = "put" THEN "commit" ELSE "save"
  <2>1. req' = [req EXCEPT ![q] = [req[q] EXCEPT !.pc = pc]]
    BY <1>9, <1>g DEF Drained
  <2>2. req' = [req EXCEPT ![q] = [req[q] EXCEPT !.pc = pc, !.hash = req[q].hash]]
    BY <1>h, <2>1
  <2>3. pc \in {"rehash", "write", "save", "commit"}
    OBVIOUS
  <2>. HIDE DEF pc
  <2>. QED  BY <1>4, <1>9, <2>2, <2>3 DEF Drained
<1>10. CASE Save(q)
  <2>1. session' # None
    BY <1>0, <1>10, BoundAssumption, SessionType DEF Save, Session, ReqRecord
  <2>. QED  BY <1>10, <1>0, MoveKeeps, <1>i, <2>1 DEF Save, Stop
<1>11. CASE Commit(q)
  <2>. DEFINE rec == [req[q] EXCEPT !.pc = "apply"]
  <2>1. rec.pc = "apply" /\ ~rec.gone
    BY <1>0 DEF ReqRecord
  <2>2. req' = [req EXCEPT ![q] = rec] /\ place' = "blob"
    BY <1>11, <1>g DEF Commit
  <2>. HIDE DEF rec
  <2>. QED  BY <1>11, <1>0, MoveKeeps, <2>1, <2>2 DEF Commit
<1>12. CASE Apply(q)
  <2>1. place = "blob" /\ place' = "blob"
    BY <1>12 DEF Apply, Attended
  <2>. QED  BY <1>12, <1>0, MoveKeeps, <1>i, <2>1 DEF Apply, Stop
<1>13. CASE CancelBegin(q)
  <2>. DEFINE rec == [req[q] EXCEPT !.pc = "cancel"]
  <2>1. rec.pc = "cancel" /\ ~rec.gone
    BY <1>0 DEF ReqRecord
  <2>2. req' = [req EXCEPT ![q] = rec]
    BY <1>13 DEF CancelBegin, Start
  <2>. HIDE DEF rec
  <2>. QED  BY <1>13, <1>0, MoveKeeps, <2>1, <2>2 DEF CancelBegin
<1>14. CASE CancelRecord(q)
  <2>. DEFINE rec == [req[q] EXCEPT !.pc = "unlink"]
  <2>1. rec.pc = "unlink" /\ ~rec.gone
    BY <1>0 DEF ReqRecord
  <2>2. req' = [req EXCEPT ![q] = rec]
    BY <1>14, <1>g DEF CancelRecord
  <2>. HIDE DEF rec
  <2>. QED  BY <1>14, <1>0, MoveKeeps, <2>1, <2>2 DEF CancelRecord
<1>15. CASE CancelFile(q)
  BY <1>15, <1>0, MoveKeeps, <1>i DEF CancelFile, Unlinked, Stop
<1>16. CASE Disconnect(q)
  BY <1>16 DEF Disconnect
<1>17. CASE ReqFails(q)
  <2>1. faults' # 0 /\ UNCHANGED purge /\ req' = [req EXCEPT ![q] = ReqIdle]
    BY <1>17, BoundAssumption DEF ReqFails, Stop, TypeOK
  <2>2. place = "blob" => place' = "blob"
    BY <1>17 DEF ReqFails
  <2>. QED  BY <1>0, MoveKeeps, <1>i, <2>1, <2>2
<1>. QED  BY <1>1, <1>2, <1>3, <1>5, <1>6, <1>7, <1>8, <1>9, <1>10, <1>11, <1>12, <1>13,
             <1>14, <1>15, <1>16, <1>17 DEF ReqNext

\* Every step keeps the owner.
LEMMA OwnedStep ==
    ASSUME TypeOK, Attended, Owned, ~Disconnects, [Next]_vars PROVE Attended' /\ Owned'
<1>1. ASSUME NEW q \in Req, ReqNext(q) PROVE Attended' /\ Owned'
  BY <1>1, AttendedStep DEF Keeps, Attended
<1>2. CASE PurgeNext
  BY <1>2 DEF PurgeNext, PurgeFind, PurgeRecord, PurgeFile, Unlinked, Attended, Owned
<1>3. CASE Tick
  <2>1. session' # None
    <3>1. session \in Session /\ session.idle + 1 \in 0..Ttl
      BY <1>3, SessionType, BoundAssumption DEF Tick, TypeOK
    <3>2. session' \in Session
      BY <1>3, <3>1 DEF Tick, Session
    <3>. QED  BY <3>2, SessionType
  <2>. QED  BY <1>3, <2>1 DEF Tick, Attended, Owned
<1>4. CASE Crash
  BY <1>4, IdleType DEF Crash, TypeOK, Attended, Owned
<1>5. CASE UNCHANGED vars
  BY <1>5 DEF vars, Attended, Owned
<1>. QED  BY <1>1, <1>2, <1>3, <1>4, <1>5 DEF Next

\* When nothing runs and nothing has failed, a staged file has a session that
\* purge can find it by, however many requests of however many clients worked on
\* it, as long as no client went away in the middle of one.
THEOREM FilesHaveOwners == ASSUME ~Disconnects PROVE Spec => []NoOrphanFile
<1>1. Init => TypeOK /\ Attended /\ Owned
  BY InitType, IdleType DEF Init, Attended, Owned
<1>2. TypeOK /\ Attended /\ Owned /\ [Next]_vars => (TypeOK /\ Attended /\ Owned)'
  BY StepType, OwnedStep
<1>3. TypeOK /\ Attended /\ Owned => NoOrphanFile
  BY DEF Owned, NoOrphanFile, Quiet
<1>. QED  BY <1>1, <1>2, <1>3, PTL DEF Spec

----------------------------------------------------------------------------
(* The file and the session, unless requests race.                         *)

Prefix(s, t) == Len(s) <= Len(t) /\ \A i \in 1..Len(s) : t[i] = s[i]

\* A sequence is a prefix of itself, the empty one of every other.
LEMMA PrefixBase ==
    ASSUME NEW s \in Image PROVE Prefix(s, s) /\ Prefix(<<>>, s)
<1>1. Len(s) \in Nat
  BY ImageSeq, OfferAssumption
<1>2. Len(<<>>) = 0
  BY EmptySeq
<1>. QED  BY <1>1, <1>2 DEF Prefix

\* Cutting a file back to a prefix leaves the prefix.
LEMMA PrefixCut ==
    ASSUME NEW s \in Image, NEW t \in Image, Prefix(s, t)
    PROVE  SubSeq(t, 1, Len(s)) = s
<1>1. s \in Seq(Cell) /\ t \in Seq(Cell) /\ Len(s) \in Nat /\ Len(t) \in Nat
  BY ImageSeq, OfferAssumption
<1>2. Len(s) \in 0..Len(t)
  BY <1>1 DEF Prefix
<1>. DEFINE u == SubSeq(t, 1, Len(s))
<1>3. u \in Seq(Cell) /\ Len(u) = Len(s) /\ \A i \in 1..Len(s) : u[i] = t[i]
  BY <1>1, <1>2, Cut
<1>. HIDE DEF u
<1>4. \A i \in 1..Len(u) : u[i] = s[i]
  BY <1>3 DEF Prefix
<1>5. u = s
  BY <1>1, <1>3, <1>4, SeqEqual
<1>. QED  BY <1>5 DEF u

\* A prefix stays one when a frame is appended.
LEMMA PrefixGrow ==
    ASSUME NEW s \in Image, NEW t \in Image, Prefix(s, t), NEW b \in Byte
    PROVE  Prefix(s, Append(t, b))
<1>1. t \in Seq(Cell) /\ Len(s) \in Nat /\ Len(t) \in Nat /\ b \in Cell
  BY ImageSeq, OfferAssumption DEF Cell
<1>2. Len(Append(t, b)) = Len(t) + 1 /\ \A i \in 1..Len(t) : Append(t, b)[i] = t[i]
  BY <1>1, AppendProperties
<1>3. 1..Len(s) \subseteq 1..Len(t)
  BY <1>1 DEF Prefix
<1>. QED  BY <1>1, <1>2, <1>3 DEF Prefix

\* What a request's record says of the session and the file, as long as no other
\* has changed them since: it starts from the session's hasher; once it has reopened the file, the file is its hasher's
\* input, byte for byte; and when it has renamed the file, the session still
\* describes a prefix of it.
RecOK(x) ==
    /\ x.pc \notin {"idle", "create", "cancel", "unlink"} => x.hash \in Buffer!Contents
    /\ x.pc # "idle" => place # "none"
    /\ x.pc = "create" => session = None
    /\ x.pc = "resume" =>
          /\ session # None => session.hash = x.hash
          /\ place = "staging" => Prefix(x.hash, bytes)
    /\ x.pc \in {"rehash", "write", "save", "commit"} =>
          /\ bytes = x.hash
          /\ place \in {"staging", "gone"}
          /\ place = "gone" => Purges
    /\ x.pc = "apply" =>
          /\ place = "blob"
          /\ session # None => Prefix(session.hash, bytes)
    /\ x.pc \notin {"idle", "create", "unlink"} /\ ~Purges => session # None

\* What holds of the session, the file and the blob between any two steps.
FileOK ==
    /\ place = "none" => session = None
    /\ session # None => session.hash \in Buffer!Contents
    /\ digest \in Buffer!Contents
    /\ record => place = "blob"
    /\ purge # "idle" => Purges
    /\ CommittedContent
    /\ OffsetBehindBytes

\* Until a race, this holds of the file and of every request that nothing was
\* changed under; of the others nothing is known, nor needed: their next effect
\* is the race.
IInv == TypeOK /\ (raced \/ (FileOK /\ \A q \in Req \ stale : RecOK(req[q])))

\* A request that has ended says nothing.
LEMMA IdleOK == RecOK(ReqIdle) /\ RecOK(ReqIdle)'
BY IdleType, EmptyImage DEF RecOK

\* What a request may know of the sequences it handles.
LEMMA Facts ==
    ASSUME TypeOK, NEW q \in Req
    PROVE  /\ req \in [Req -> ReqRecord] /\ req[q] \in ReqRecord
           /\ req[q].hash \in Image /\ bytes \in Image /\ Len(req[q].hash) \in Nat
           /\ session # None => session.hash \in Image /\ session \in Session
<1>1. /\ req \in [Req -> ReqRecord] /\ req[q] \in ReqRecord
      /\ req[q].hash \in Image /\ bytes \in Image
  BY DEF TypeOK, ReqRecord
<1>. QED  BY <1>1, ImageSeq, SessionType, OfferAssumption DEF TypeOK

\* OffsetBehindBytes, in terms of Prefix.
LEMMA OffsetIsPrefix ==
    OffsetBehindBytes <=> (session # None /\ place = "staging" => Prefix(session.hash, bytes))
BY DEF OffsetBehindBytes, Prefix

\* The same of the next state.
LEMMA OffsetIsPrefixNext ==
    OffsetBehindBytes' <=>
       (session' # None /\ place' = "staging" => Prefix(session'.hash, bytes'))
BY DEF OffsetBehindBytes, Prefix

\* Where a request may go.
LEMMA GotoEither ==
    ASSUME NEW q \in Req, req \in [Req -> ReqRecord], NEW rec,
           Goto(q, rec) \/ Stop(q) \/ req' = [req EXCEPT ![q] = rec]
    PROVE  req'[q] \in {rec, ReqIdle}
BY DEF Goto, Stop

\* A step that touches neither the session, the file nor the blob.
LEMMA Still ==
    ASSUME FileOK, UNCHANGED <<session, bytes, place, digest, record, purge>>
    PROVE  FileOK' /\ \A x : RecOK(x) => RecOK(x)'
<1>1. FileOK'
  BY DEF FileOK, CommittedContent, OffsetBehindBytes
<1>2. \A x : RecOK(x) => RecOK(x)'
  BY DEF RecOK
<1>. QED  BY <1>1, <1>2

\* A request that moved on to a record, or ended.
LEMMA MovedOK ==
    ASSUME NEW q, NEW rec, RecOK(rec)', req'[q] \in {rec, ReqIdle}
    PROVE  RecOK(req[q])'
<1>1. CASE req'[q] = rec
  BY <1>1 DEF RecOK
<1>2. CASE req'[q] = ReqIdle
  BY <1>2, IdleOK DEF RecOK
<1>. QED  BY <1>1, <1>2

\* Every step of a request that nothing was changed under.
LEMMA OneStep ==
    ASSUME TypeOK, FileOK, NEW q \in Req, RecOK(req[q]), ReqNext(q)
    PROVE  FileOK' /\ RecOK(req[q])'
<1>. DEFINE x == req[q]
<1>0. /\ req \in [Req -> ReqRecord] /\ x \in ReqRecord
      /\ x.hash \in Image /\ bytes \in Image /\ Len(x.hash) \in Nat
      /\ session # None => session.hash \in Image /\ session \in Session
  BY Facts
<1>r. RecOK(x) /\ FileOK
  OBVIOUS
<1>p. session # None /\ place = "staging" => Prefix(session.hash, bytes)
  BY OffsetIsPrefix DEF FileOK
\* A step that only moves the request.
<1>q. ASSUME NEW rec, RecOK(rec), req'[q] \in {rec, ReqIdle},
             UNCHANGED <<session, bytes, place, digest, record, purge>>
      PROVE  FileOK' /\ RecOK(req[q])'
  <2>1. FileOK' /\ RecOK(rec)'
    BY <1>q, Still
  <2>. QED  BY <1>q, <2>1, MovedOK
<1>i. ASSUME Stop(q), UNCHANGED <<session, bytes, place, digest, record, purge>>
      PROVE  FileOK' /\ RecOK(req[q])'
  <2>1. req'[q] = ReqIdle
    BY <1>0, <1>i DEF Stop
  <2>. QED  BY <1>i, <1>q, <2>1, IdleOK
<1>1. CASE Create(q)
  <2>0. PICK rec : rec = [x EXCEPT !.pc = "create"]
    OBVIOUS
  <2>1. rec.pc = "create" /\ rec.hash = x.hash
    BY <1>0, <2>0 DEF ReqRecord
  <2>2. /\ req' = [req EXCEPT ![q] = rec] /\ place = "none" /\ place' = "staging"
        /\ UNCHANGED <<session, bytes, digest, record, purge>>
    BY <1>1, <2>0 DEF Create
  <2>3. session = None
    BY <2>2 DEF FileOK
  <2>. HIDE DEF x
  <2>4. RecOK(rec)'
    BY <1>r, <2>1, <2>2, <2>3 DEF RecOK
  <2>5. FileOK'
    BY <2>2, <2>3 DEF FileOK, CommittedContent, OffsetBehindBytes
  <2>6. req'[q] = rec
    BY <1>0, <2>2
  <2>. QED  BY <2>4, <2>5, <2>6, MovedOK
<1>2. CASE CreateRecord(q)
  <2>. DEFINE s == [hash |-> <<>>, idle |-> 0]
  <2>1. /\ session' = s /\ s.hash = <<>> /\ x.pc = "create" /\ Stop(q)
        /\ UNCHANGED <<bytes, place, digest, record, purge>>
    BY <1>2 DEF CreateRecord
  <2>2. place # "none"
    BY <1>r, <2>1 DEF RecOK
  <2>. HIDE DEF s, x
  <2>3. OffsetBehindBytes'
    BY <1>0, <2>1, OffsetIsPrefixNext, PrefixBase
  <2>4. FileOK'
    BY <2>1, <2>2, <2>3, EmptyImage DEF FileOK, CommittedContent
  <2>5. req'[q] = ReqIdle
    BY <1>0, <2>1 DEF Stop
  <2>. QED  BY <2>4, <2>5, IdleOK, MovedOK
<1>3. ASSUME NEW kind \in {"patch", "put"}, Begin(q, kind) PROVE FileOK' /\ RecOK(req[q])'
  <2>. DEFINE rec == [pc |-> "resume", kind |-> kind, hash |-> session.hash, gone |-> FALSE]
  <2>1. rec.pc = "resume" /\ rec.hash = session.hash
    OBVIOUS
  <2>2. /\ req' = [req EXCEPT ![q] = rec] /\ session # None
        /\ UNCHANGED <<session, bytes, place, digest, record, purge>>
    BY <1>3 DEF Begin, Start
  <2>. HIDE DEF rec, x
  <2>3. RecOK(rec)
    BY <1>r, <1>p, <2>1, <2>2 DEF RecOK, FileOK
  <2>4. req'[q] = rec
    BY <1>0, <2>2
  <2>. QED  BY <1>q, <2>2, <2>3, <2>4
<1>4. CASE Resume(q)
  <2>. DEFINE n == Len(x.hash)
              pc == IF x.kind = "put" THEN "rehash" ELSE "write"
  <2>0. PICK rec : rec = [x EXCEPT !.pc = pc]
    OBVIOUS
  <2>1. CASE Stop(q) /\ UNCHANGED bytes
    BY <1>4, <1>i, <2>1 DEF Resume
  <2>2. CASE place = "staging" /\ bytes' = SubSeq(bytes, 1, n) /\ Goto(q, rec)
    <3>1. rec.pc \in {"rehash", "write"} /\ rec.hash = x.hash
      BY <1>0, <2>0 DEF ReqRecord
    <3>2. x.pc = "resume" /\ UNCHANGED <<session, place, digest, record, purge>>
      BY <1>4 DEF Resume
    <3>. HIDE DEF x
    <3>3. Prefix(x.hash, bytes) /\ (session # None => session.hash = x.hash)
      BY <1>r, <2>2, <3>2 DEF RecOK
    <3>4. bytes' = x.hash
      BY <1>0, <2>2, <3>3, PrefixCut
    <3>5. session' # None => Prefix(session'.hash, bytes')
      BY <1>0, <3>2, <3>3, <3>4, PrefixBase
    <3>6. OffsetBehindBytes'
      BY <3>5, OffsetIsPrefixNext
    <3>7. FileOK'
      BY <1>r, <2>2, <3>2, <3>6 DEF FileOK, CommittedContent
    <3>8. RecOK(rec)'
      BY <1>r, <2>2, <3>1, <3>2, <3>4 DEF RecOK
    <3>9. req'[q] \in {rec, ReqIdle}
      BY <1>0, <2>2, GotoEither
    <3>. QED  BY <3>7, <3>8, <3>9, MovedOK
  <2>. QED  BY <1>4, <2>0, <2>1, <2>2 DEF Resume
<1>5. ASSUME NEW other \in BOOLEAN, Rehash(q, other) PROVE FileOK' /\ RecOK(req[q])'
  <2>. DEFINE n == Len(x.hash)
              rec == [x EXCEPT !.pc = "write"]
              new == [x EXCEPT !.pc = "write", !.hash = SubSeq(bytes, 1, n)]
  <2>1. /\ x.pc = "rehash" /\ UNCHANGED <<session, bytes, place, digest, record, purge>>
        /\ Goto(q, rec) \/ Goto(q, new) \/ Stop(q)
    BY <1>5 DEF Rehash
  <2>2. rec.pc = "write" /\ rec.hash = x.hash
    BY <1>0 DEF ReqRecord
  <2>3. bytes = x.hash
    BY <1>r, <2>1 DEF RecOK
  <2>4. SubSeq(bytes, 1, n) = x.hash
    BY <1>0, <2>3, PrefixBase, PrefixCut
  <2>5. new = rec
    BY <1>0, <2>4 DEF ReqRecord
  <2>. HIDE DEF rec, new, x
  <2>6. RecOK(rec)
    BY <1>r, <2>1, <2>2 DEF RecOK
  <2>7. req'[q] \in {rec, ReqIdle}
    BY <1>0, <2>1, <2>5, GotoEither
  <2>. QED  BY <1>q, <2>1, <2>6, <2>7
<1>6. ASSUME NEW b \in Byte, Write(q, b) PROVE FileOK' /\ RecOK(req[q])'
  <2>0. PICK h : h = Append(x.hash, b)
    OBVIOUS
  <2>11. PICK rec : rec = [x EXCEPT !.hash = h]
    OBVIOUS
  <2>1. /\ x.pc = "write" /\ Len(x.hash) + 1 <= MaxLen
        /\ bytes' = Put(bytes, Len(x.hash) + 1, b) /\ Goto(q, rec)
        /\ UNCHANGED <<session, place, digest, record, purge>>
    BY <1>6, <2>0, <2>11 DEF Write
  <2>2. rec.pc = "write" /\ rec.hash = h
    BY <1>0, <2>1, <2>11 DEF ReqRecord
  <2>. HIDE DEF x
  <2>3. bytes = x.hash /\ place \in {"staging", "gone"} /\ x.hash \in Buffer!Contents
    BY <1>r, <2>1 DEF RecOK
  <2>4. bytes' = h
    BY <1>0, <2>0, <2>1, <2>3, PutAtEnd
  <2>5. h \in Buffer!Contents
    BY <2>0, <2>1, <2>3, Grow
  <2>6. session' # None /\ place' = "staging" => Prefix(session'.hash, bytes')
    BY <1>0, <1>p, <2>0, <2>1, <2>3, <2>4, PrefixGrow
  <2>7. OffsetBehindBytes'
    BY <2>6, OffsetIsPrefixNext
  <2>8. FileOK'
    BY <1>r, <2>1, <2>3, <2>7 DEF FileOK, CommittedContent
  <2>9. RecOK(rec)'
    BY <1>r, <2>1, <2>2, <2>4, <2>5 DEF RecOK
  <2>10. req'[q] \in {rec, ReqIdle}
    BY <1>0, <2>1, GotoEither
  <2>. QED  BY <2>8, <2>9, <2>10, MovedOK
<1>7. CASE BodyFails(q) \/ CommitRefused(q)
  BY <1>7, <1>i DEF BodyFails, CommitRefused
<1>8. CASE Drained(q)
  <2>. DEFINE pc == IF x.kind = "put" THEN "commit" ELSE "save"
              rec == [x EXCEPT !.pc = pc]
  <2>1. /\ x.pc = "write" /\ Goto(q, rec)
        /\ UNCHANGED <<session, bytes, place, digest, record, purge>>
    BY <1>8 DEF Drained
  <2>2. rec.pc \in {"commit", "save"} /\ rec.hash = x.hash
    BY <1>0 DEF ReqRecord
  <2>. HIDE DEF rec, x
  <2>3. RecOK(rec)
    BY <1>r, <2>1, <2>2 DEF RecOK
  <2>4. req'[q] \in {rec, ReqIdle}
    BY <1>0, <2>1, GotoEither
  <2>. QED  BY <1>q, <2>1, <2>3, <2>4
<1>9. CASE Save(q)
  <2>. DEFINE s == [hash |-> x.hash, idle |-> 0]
  <2>1. /\ session' = s /\ s.hash = x.hash /\ x.pc = "save" /\ Stop(q)
        /\ UNCHANGED <<bytes, place, digest, record, purge>>
    BY <1>9 DEF Save
  <2>. HIDE DEF s, x
  <2>2. place # "none" /\ bytes = x.hash /\ x.hash \in Buffer!Contents
    BY <1>r, <2>1 DEF RecOK
  <2>3. OffsetBehindBytes'
    BY <1>0, <2>1, <2>2, OffsetIsPrefixNext, PrefixBase
  <2>4. FileOK'
    BY <1>r, <2>1, <2>2, <2>3 DEF FileOK, CommittedContent
  <2>5. req'[q] = ReqIdle
    BY <1>0, <2>1 DEF Stop
  <2>. QED  BY <2>4, <2>5, IdleOK, MovedOK
\* The rename, whether or not its fsync failed.
<1>c. ASSUME x.pc = "commit", place = "staging", place' = "blob", digest' = x.hash,
             UNCHANGED <<session, bytes, record, purge>>
      PROVE  FileOK'
  <2>. HIDE DEF x
  <2>1. bytes = x.hash /\ x.hash \in Buffer!Contents
    BY <1>r, <1>c DEF RecOK
  <2>. QED  BY <1>r, <1>c, <2>1 DEF FileOK, CommittedContent, OffsetBehindBytes
<1>10. CASE Commit(q)
  <2>0. PICK rec : rec = [x EXCEPT !.pc = "apply"]
    OBVIOUS
  <2>1. /\ x.pc = "commit" /\ place = "staging" /\ place' = "blob" /\ digest' = x.hash
        /\ Goto(q, rec) /\ UNCHANGED <<session, bytes, record, purge>>
    BY <1>10, <2>0 DEF Commit
  <2>2. rec.pc = "apply" /\ rec.hash = x.hash
    BY <1>0, <2>0 DEF ReqRecord
  <2>3. FileOK'
    BY <1>c, <2>1
  <2>. HIDE DEF x
  <2>4. session' # None => Prefix(session'.hash, bytes')
    BY <1>p, <2>1
  <2>5. RecOK(rec)'
    BY <1>r, <2>1, <2>2, <2>4 DEF RecOK
  <2>6. req'[q] \in {rec, ReqIdle}
    BY <1>0, <2>1, GotoEither
  <2>. QED  BY <2>3, <2>5, <2>6, MovedOK
<1>11. CASE Apply(q)
  <2>1. /\ x.pc = "apply" /\ session' = None /\ Stop(q)
        /\ UNCHANGED <<bytes, place, digest, purge>>
    BY <1>11 DEF Apply
  <2>. HIDE DEF x
  <2>2. place = "blob"
    BY <1>r, <2>1 DEF RecOK
  <2>3. FileOK'
    BY <1>r, <2>1, <2>2 DEF FileOK, CommittedContent, OffsetBehindBytes
  <2>4. req'[q] = ReqIdle
    BY <1>0, <2>1 DEF Stop
  <2>. QED  BY <2>3, <2>4, IdleOK, MovedOK
<1>12. CASE CancelBegin(q)
  <2>. DEFINE rec == [x EXCEPT !.pc = "cancel"]
  <2>1. /\ req' = [req EXCEPT ![q] = rec] /\ session # None
        /\ UNCHANGED <<session, bytes, place, digest, record, purge>>
    BY <1>12 DEF CancelBegin, Start
  <2>2. rec.pc = "cancel" /\ rec.hash = x.hash
    BY <1>0 DEF ReqRecord
  <2>. HIDE DEF rec, x
  <2>3. RecOK(rec)
    BY <1>r, <2>1, <2>2 DEF RecOK, FileOK
  <2>4. req'[q] = rec
    BY <1>0, <2>1
  <2>. QED  BY <1>q, <2>1, <2>3, <2>4
<1>13. CASE CancelRecord(q)
  <2>0. PICK rec : rec = [x EXCEPT !.pc = "unlink"]
    OBVIOUS
  <2>1. /\ x.pc = "cancel" /\ session' = None /\ Goto(q, rec)
        /\ UNCHANGED <<bytes, place, digest, record, purge>>
    BY <1>13, <2>0 DEF CancelRecord
  <2>2. rec.pc = "unlink" /\ rec.hash = x.hash
    BY <1>0, <2>0 DEF ReqRecord
  <2>. HIDE DEF x
  <2>3. RecOK(rec)'
    BY <1>r, <2>1, <2>2 DEF RecOK
  <2>4. FileOK'
    BY <1>r, <2>1 DEF FileOK, CommittedContent, OffsetBehindBytes
  <2>5. req'[q] \in {rec, ReqIdle}
    BY <1>0, <2>1, GotoEither
  <2>. QED  BY <2>3, <2>4, <2>5, MovedOK
<1>14. CASE CancelFile(q)
  <2>1. /\ place' = Unlinked /\ Stop(q)
        /\ UNCHANGED <<session, bytes, digest, record, purge>>
    BY <1>14 DEF CancelFile
  <2>2. FileOK'
    BY <1>r, <2>1 DEF FileOK, CommittedContent, OffsetBehindBytes, Unlinked
  <2>3. req'[q] = ReqIdle
    BY <1>0, <2>1 DEF Stop
  <2>. QED  BY <2>2, <2>3, IdleOK, MovedOK
<1>15. CASE Disconnect(q)
  <2>. DEFINE rec == [x EXCEPT !.gone = TRUE]
  <2>1. /\ req' = [req EXCEPT ![q] = rec]
        /\ UNCHANGED <<session, bytes, place, digest, record, purge>>
    BY <1>15 DEF Disconnect
  <2>2. rec.pc = x.pc /\ rec.hash = x.hash
    BY <1>0 DEF ReqRecord
  <2>. HIDE DEF rec, x
  <2>3. RecOK(rec)
    BY <1>r, <2>2 DEF RecOK
  <2>4. req'[q] = rec
    BY <1>0, <2>1
  <2>. QED  BY <1>q, <2>1, <2>3, <2>4
<1>16. CASE ReqFails(q)
  <2>1. CASE UNCHANGED <<place, digest>>
    BY <1>16, <1>i, <2>1 DEF ReqFails
  <2>2. CASE x.pc = "commit" /\ place = "staging" /\ place' = "blob" /\ digest' = x.hash
    <3>1. Stop(q) /\ UNCHANGED <<session, bytes, record, purge>>
      BY <1>16 DEF ReqFails
    <3>2. FileOK'
      BY <1>c, <2>2, <3>1
    <3>3. req'[q] = ReqIdle
      BY <1>0, <3>1 DEF Stop
    <3>. QED  BY <3>2, <3>3, IdleOK, MovedOK
  <2>. QED  BY <1>16, <2>1, <2>2 DEF ReqFails
<1>. QED  BY <1>1, <1>2, <1>3, <1>4, <1>5, <1>6, <1>7, <1>8, <1>9, <1>10, <1>11, <1>12,
             <1>13, <1>14, <1>15, <1>16 DEF ReqNext

\* A tick ages the session and changes nothing else.
LEMMA TickAges ==
    ASSUME TypeOK, Tick
    PROVE  session # None /\ session' # None /\ session'.hash = session.hash
<1>1. session \in Session /\ session.idle + 1 \in 0..Ttl /\ session # None
  BY SessionType, BoundAssumption DEF Tick, TypeOK
<1>2. session' \in Session /\ session'.hash = session.hash
  BY <1>1 DEF Tick, Session
<1>. QED  BY <1>1, <1>2, SessionType

\* Nobody but q moves when q does.
LEMMA OthersStay ==
    ASSUME TypeOK, NEW q \in Req, ReqNext(q), NEW p \in Req, p # q
    PROVE  req'[p] = req[p]
<1>0. req \in [Req -> ReqRecord]
  BY DEF TypeOK, ReqRecord
<1>1. CASE Create(q) \/ (\E kind \in {"patch", "put"} : Begin(q, kind)) \/ CancelBegin(q)
           \/ Disconnect(q)
  BY <1>0, <1>1 DEF Create, Begin, CancelBegin, Disconnect, Start
<1>2. ASSUME Stop(q) \/ \E rec : Goto(q, rec) PROVE req'[p] = req[p]
  BY <1>0, <1>2 DEF Stop, Goto
<1>3. CASE CreateRecord(q) \/ BodyFails(q) \/ Save(q) \/ CommitRefused(q) \/ Apply(q)
           \/ CancelFile(q) \/ ReqFails(q)
  BY <1>2, <1>3 DEF CreateRecord, BodyFails, Save, CommitRefused, Apply, CancelFile, ReqFails
<1>4. CASE Resume(q) \/ (\E other \in BOOLEAN : Rehash(q, other)) \/ Drained(q)
  BY <1>2, <1>4 DEF Resume, Rehash, Drained
<1>5. CASE (\E b \in Byte : Write(q, b)) \/ Commit(q) \/ CancelRecord(q)
  BY <1>2, <1>5 DEF Write, Commit, CancelRecord
<1>. QED  BY <1>1, <1>2, <1>3, <1>4, <1>5 DEF ReqNext

\* A request leaves the purge alone.
LEMMA PurgeStays == ASSUME NEW q \in Req, ReqNext(q) PROVE purge' = purge
<1>1. CASE Create(q) \/ CreateRecord(q) \/ (\E kind \in {"patch", "put"} : Begin(q, kind))
           \/ Resume(q) \/ (\E other \in BOOLEAN : Rehash(q, other))
  BY <1>1 DEF Create, CreateRecord, Begin, Resume, Rehash
<1>2. CASE (\E b \in Byte : Write(q, b)) \/ BodyFails(q) \/ Drained(q) \/ Save(q) \/ Commit(q)
           \/ CommitRefused(q) \/ Apply(q)
  BY <1>2 DEF Write, BodyFails, Drained, Save, Commit, CommitRefused, Apply
<1>3. CASE CancelBegin(q) \/ CancelRecord(q) \/ CancelFile(q) \/ Disconnect(q) \/ ReqFails(q)
  BY <1>3 DEF CancelBegin, CancelRecord, CancelFile, Disconnect, ReqFails
<1>. QED  BY <1>1, <1>2, <1>3 DEF ReqNext

\* An idle request says nothing.
LEMMA IdlePcOK == \A x : x.pc = "idle" => RecOK(x)
BY DEF RecOK

\* Unless it is the race, the step of a request either is that of one nothing
\* was changed under, or changes nothing itself.
LEMMA FreshOrStill ==
    ASSUME IInv, ~raced', NEW q \in Req, ReqNext(q)
    PROVE  /\ ~raced /\ FileOK
           /\ \/ RecOK(req[q])
              \/ q \in stale' /\ UNCHANGED <<session, bytes, place, digest, record>>
           /\ \/ UNCHANGED <<session, bytes, place, digest, record>> /\ stale \ {q} \subseteq stale'
              \/ Req \ {q} \subseteq stale'
<1>1. ~raced
  BY HistoryStep DEF Returns, IInv, TypeOK
<1>2. FileOK /\ \A p \in Req \ stale : RecOK(req[p])
  BY <1>1 DEF IInv
<1>3. Shared' = Shared <=> UNCHANGED <<session, bytes, place, digest, record>>
  BY DEF Shared
<1>4. \/ UNCHANGED <<session, bytes, place, digest, record>> /\ stale \ {q} \subseteq stale'
      \/ Req \ {q} \subseteq stale'
  BY <1>3, HistoryStep DEF Returns
<1>5. \/ RecOK(req[q])
      \/ q \in stale' /\ UNCHANGED <<session, bytes, place, digest, record>>
  <2>1. CASE q \notin stale \/ req[q].pc = "idle"
    BY <1>2, <2>1, IdlePcOK
  <2>2. CASE q \in stale /\ req[q].pc # "idle"
    BY <1>3, <2>2, HistoryStep DEF Returns
  <2>. QED  BY <2>1, <2>2
<1>. QED  BY <1>1, <1>2, <1>4, <1>5

\* Every step of a request keeps the inductive invariant.
LEMMA ReqSafe == ASSUME IInv, NEW q \in Req, ReqNext(q) PROVE IInv'
<1>t. TypeOK /\ TypeOK'
  BY ReqStepType DEF IInv
<1>1. CASE raced'
  BY <1>t, <1>1 DEF IInv
<1>2. CASE ~raced'
  <2>0. purge' = purge
    BY PurgeStays
  <2>1. /\ ~raced /\ FileOK
        /\ \/ RecOK(req[q])
           \/ q \in stale' /\ UNCHANGED <<session, bytes, place, digest, record>>
        /\ \/ UNCHANGED <<session, bytes, place, digest, record>> /\ stale \ {q} \subseteq stale'
           \/ Req \ {q} \subseteq stale'
    BY <1>2, FreshOrStill
  <2>2. FileOK' /\ (q \notin stale' => RecOK(req[q])')
    <3>1. CASE RecOK(req[q])
      BY <1>t, <2>1, <3>1, OneStep
    <3>2. CASE q \in stale' /\ UNCHANGED <<session, bytes, place, digest, record>>
      BY <2>0, <2>1, <3>2, Still
    <3>. QED  BY <2>1, <3>1, <3>2
  <2>3. ASSUME NEW p \in Req, p # q, p \notin stale' PROVE RecOK(req[p])'
    <3>1. /\ UNCHANGED <<session, bytes, place, digest, record, purge>>
          /\ p \notin stale /\ RecOK(req[p])
      BY <2>0, <2>1, <2>3 DEF IInv
    <3>2. PICK rec : rec = req[p]
      OBVIOUS
    <3>3. RecOK(rec)'
      BY <2>1, <3>1, <3>2, Still
    <3>4. req'[p] = rec
      BY <1>t, <2>3, <3>2, OthersStay
    <3>. QED  BY <3>3, <3>4, MovedOK
  <2>4. \A p \in Req : p \notin stale' => RecOK(req[p])'
    BY <2>2, <2>3
  <2>. QED  BY <1>t, <2>2, <2>4 DEF IInv
<1>. QED  BY <1>1, <1>2

\* Every step keeps the inductive invariant.
LEMMA StepSafe == ASSUME IInv, [Next]_vars PROVE IInv'
<1>t. TypeOK /\ TypeOK'
  BY StepType DEF IInv
<1>1. ASSUME NEW q \in Req, ReqNext(q) PROVE IInv'
  BY <1>1, ReqSafe
\* The other steps leave the history alone, and every request's part as it is.
<1>o. ASSUME UNCHANGED <<stale, raced>>,
             FileOK => FileOK' /\ \A q \in Req : RecOK(req[q]) => RecOK(req[q])'
      PROVE  IInv'
  BY <1>t, <1>o DEF IInv
<1>2. CASE PurgeFind
  <2>1. /\ UNCHANGED <<session, bytes, place, digest, record, req, stale, raced>>
        /\ Purges
    BY <1>2 DEF PurgeFind
  <2>2. FileOK => FileOK'
    BY <2>1 DEF FileOK, CommittedContent, OffsetBehindBytes
  <2>. QED  BY <1>o, <2>1, <2>2 DEF RecOK
<1>3. CASE PurgeRecord
  <2>1. /\ purge # "idle" /\ session' = None
        /\ UNCHANGED <<bytes, place, digest, record, req, stale, raced>> /\ purge' = "unlink"
    BY <1>3 DEF PurgeRecord
  <2>2. FileOK => FileOK' /\ Purges
    BY <2>1 DEF FileOK, CommittedContent, OffsetBehindBytes
  <2>3. Purges => \A q \in Req : RecOK(req[q]) => RecOK(req[q])'
    BY <2>1 DEF RecOK
  <2>. QED  BY <1>o, <2>1, <2>2, <2>3
<1>4. CASE PurgeFile
  <2>1. /\ purge # "idle" /\ place' = Unlinked
        /\ UNCHANGED <<session, bytes, digest, record, req, stale, raced>> /\ purge' = "idle"
    BY <1>4 DEF PurgeFile
  <2>2. FileOK => FileOK' /\ Purges
    BY <2>1 DEF FileOK, CommittedContent, OffsetBehindBytes, Unlinked
  <2>3. Purges => \A q \in Req : RecOK(req[q]) => RecOK(req[q])'
    BY <2>1 DEF RecOK, Unlinked
  <2>. QED  BY <1>o, <2>1, <2>2, <2>3
<1>5. CASE Tick
  <2>1. session # None /\ session' # None /\ session'.hash = session.hash
    BY <1>5, <1>t, TickAges
  <2>2. UNCHANGED <<bytes, place, digest, record, req, purge, stale, raced>>
    BY <1>5 DEF Tick
  <2>3. FileOK => FileOK'
    BY <2>1, <2>2 DEF FileOK, CommittedContent, OffsetBehindBytes
  <2>4. \A q \in Req : RecOK(req[q]) => RecOK(req[q])'
    BY <2>1, <2>2 DEF RecOK
  <2>. QED  BY <1>o, <2>2, <2>3, <2>4
<1>6. CASE Crash
  <2>1. /\ UNCHANGED <<session, bytes, place, digest, record, stale, raced>> /\ purge' = "idle"
        /\ \A q \in Req : req'[q] = ReqIdle
    BY <1>6 DEF Crash
  <2>2. FileOK => FileOK'
    BY <2>1 DEF FileOK, CommittedContent, OffsetBehindBytes
  <2>3. \A q \in Req : RecOK(req[q])'
    BY <2>1, IdleOK, MovedOK
  <2>. QED  BY <1>o, <2>1, <2>2, <2>3
<1>7. CASE UNCHANGED vars
  <2>1. UNCHANGED <<session, bytes, place, digest, record, purge, req, stale, raced>>
    BY <1>7 DEF vars
  <2>2. FileOK => FileOK'
    BY <2>1, Still
  <2>3. \A q \in Req : RecOK(req[q]) => RecOK(req[q])'
    BY <2>1 DEF RecOK
  <2>. QED  BY <1>o, <2>1, <2>2, <2>3
<1>. QED  BY <1>1, <1>2, <1>3, <1>4, <1>5, <1>6, <1>7 DEF Next, PurgeNext

\* Nothing uploaded satisfies it.
LEMMA InitSafe == Init => IInv
<1>. SUFFICES ASSUME Init PROVE IInv
  OBVIOUS
<1>1. FileOK
  BY EmptyImage DEF Init, FileOK, CommittedContent, OffsetBehindBytes
<1>2. \A q \in Req : req[q] = ReqIdle
  BY DEF Init
<1>. QED  BY <1>1, <1>2, InitType, IdleOK DEF IInv

\* The inductive invariant is an invariant.
LEMMA Invariance == Spec => []IInv
<1>1. IInv /\ [Next]_vars => IInv'
  BY StepSafe
<1>. QED  BY <1>1, InitSafe, PTL DEF Spec

\* The staging file has the bytes the session's offset and hasher state describe,
\* whatever frames are sent, however many requests overlap and lose their clients,
\* wherever one breaks off, fails or crashes, and whenever a purge cuts in, until a
\* request or the call left of one writes to a session another has changed since
\* it was read.
THEOREM OffsetSafe == Spec => []OffsetLostOnlyByRace
<1>1. IInv => OffsetLostOnlyByRace
  BY DEF IInv, FileOK, OffsetLostOnlyByRace
<1>. QED  BY <1>1, Invariance, PTL

\* What lies under a digest is what the digest names, up to the same race: it is
\* the only way commit_upload can be made to promise what it did not write.
THEOREM ContentSafe == Spec => []CorruptOnlyByRace
<1>1. IInv => CorruptOnlyByRace
  BY DEF IInv, FileOK, CorruptOnlyByRace
<1>. QED  BY <1>1, Invariance, PTL

----------------------------------------------------------------------------
(* The refinement.                                                         *)

\* A prefix is what the buffer calls it.
LEMMA PrefixExtends ==
    ASSUME NEW s \in Image, NEW t \in Image, Prefix(s, t) PROVE Buffer!Extends(s, t)
BY PrefixCut DEF Buffer!Extends, Prefix

\* A step that leaves the session's hasher and the blob alone stutters.
LEMMA Stutters ==
    ASSUME session' = session \/ (session # None /\ session' # None
                                     /\ session'.hash = session.hash),
           record' = record, record => bytes' = bytes, raced' = raced
    PROVE  UNCHANGED Buffer!bufferVars
BY DEF Buffer!bufferVars

\* Every step of a request that nothing was changed under is a step of the
\* buffer, or stutters, unless it ends the contract.
LEMMA OneRefines ==
    ASSUME TypeOK, FileOK, ~Purges, NEW q \in Req, RecOK(req[q]), ReqNext(q), raced' = raced
    PROVE  Buffer!Next \/ UNCHANGED Buffer!bufferVars
<1>. DEFINE x == req[q]
<1>0. /\ x.hash \in Image /\ bytes \in Image
      /\ session # None => session.hash \in Image /\ session.hash # None
  BY Facts, NoneAssumption
<1>r. RecOK(x) /\ FileOK
  OBVIOUS
<1>p. session # None /\ place = "staging" => Prefix(session.hash, bytes)
  BY OffsetIsPrefix DEF FileOK
<1>1. CASE CreateRecord(q)
  <2>. DEFINE s == [hash |-> <<>>, idle |-> 0]
  <2>1. session' = s /\ s.hash = <<>> /\ x.pc = "create" /\ UNCHANGED <<bytes, record>>
    BY <1>1 DEF CreateRecord
  <2>2. s # None
    BY EmptyImage, BoundAssumption, SessionType DEF Session
  <2>3. session = None
    BY <1>r, <2>1 DEF RecOK
  <2>. HIDE DEF s, x
  <2>4. Buffer!Open
    BY <2>1, <2>2, <2>3 DEF Buffer!Open
  <2>. QED  BY <2>4 DEF Buffer!Next
<1>2. CASE Save(q)
  <2>. DEFINE s == [hash |-> x.hash, idle |-> 0]
  <2>1. session' = s /\ s.hash = x.hash /\ x.pc = "save" /\ UNCHANGED <<bytes, record>>
    BY <1>2 DEF Save
  <2>2. s # None
    BY <1>0, BoundAssumption, SessionType DEF Session
  <2>. HIDE DEF s, x
  <2>3. /\ session # None /\ place = "staging" /\ bytes = x.hash
        /\ x.hash \in Buffer!Contents
    BY <1>r, <2>1 DEF RecOK
  <2>4. Buffer!Extends(session.hash, x.hash)
    BY <1>0, <1>p, <2>3, PrefixExtends
  <2>5. Buffer!AppendChunk(x.hash)
    BY <1>0, <2>1, <2>2, <2>3, <2>4 DEF Buffer!AppendChunk
  <2>. QED  BY <2>3, <2>5 DEF Buffer!Next
<1>3. CASE Apply(q)
  <2>1. session' = None /\ record' = TRUE /\ x.pc = "apply" /\ UNCHANGED bytes
    BY <1>3 DEF Apply
  <2>. HIDE DEF x
  <2>2. place = "blob" /\ session # None /\ Prefix(session.hash, bytes)
    BY <1>r, <2>1 DEF RecOK
  <2>3. bytes \in Buffer!Contents
    BY <1>r, <2>2 DEF FileOK, CommittedContent
  <2>4. Buffer!Extends(session.hash, bytes)
    BY <1>0, <2>2, PrefixExtends
  <2>5. Buffer!Close(bytes)
    BY <1>0, <2>1, <2>2, <2>4 DEF Buffer!Close
  <2>. QED  BY <2>3, <2>5 DEF Buffer!Next
<1>4. CASE CancelRecord(q)
  <2>1. session' = None /\ x.pc = "cancel" /\ UNCHANGED <<bytes, record>>
    BY <1>4 DEF CancelRecord
  <2>. HIDE DEF x
  <2>2. session # None
    BY <1>r, <2>1 DEF RecOK
  <2>3. Buffer!Cancel
    BY <1>0, <2>1, <2>2 DEF Buffer!Cancel
  <2>. QED  BY <2>3 DEF Buffer!Next
\* The file is written only while it is staged, and then has no record.
<1>5. ASSUME Resume(q) \/ (\E b \in Byte : Write(q, b)) PROVE UNCHANGED Buffer!bufferVars
  <2>1. CASE Resume(q)
    <3>1. session' = session /\ record' = record /\ (bytes' = bytes \/ place = "staging")
      BY <2>1 DEF Resume
    <3>. QED  BY <1>r, <3>1, Stutters DEF FileOK
  <2>2. ASSUME NEW b \in Byte, Write(q, b) PROVE UNCHANGED Buffer!bufferVars
    <3>1. session' = session /\ record' = record /\ x.pc = "write"
      BY <2>2 DEF Write
    <3>. HIDE DEF x
    <3>2. place # "blob"
      BY <1>r, <3>1 DEF RecOK
    <3>. QED  BY <1>r, <3>1, <3>2, Stutters DEF FileOK
  <2>. QED  BY <1>5, <2>1, <2>2
<1>6. ASSUME \/ Create(q) \/ (\E kind \in {"patch", "put"} : Begin(q, kind))
             \/ (\E other \in BOOLEAN : Rehash(q, other)) \/ BodyFails(q) \/ Drained(q)
             \/ Commit(q) \/ CommitRefused(q) \/ CancelBegin(q) \/ CancelFile(q)
             \/ Disconnect(q) \/ ReqFails(q)
      PROVE  UNCHANGED Buffer!bufferVars
  <2>1. UNCHANGED <<session, record, bytes>>
    BY <1>6 DEF Create, Begin, Rehash, BodyFails, Drained, Commit, CommitRefused,
                CancelBegin, CancelFile, Disconnect, ReqFails
  <2>. QED  BY <2>1, Stutters
<1>. QED  BY <1>1, <1>2, <1>3, <1>4, <1>5, <1>6 DEF ReqNext

\* Every step is a step of the buffer, or stutters.
LEMMA StepRefines ==
    ASSUME IInv, ~Purges, [Next]_vars PROVE [Buffer!Next]_(Buffer!bufferVars)
<1>t. TypeOK
  BY DEF IInv
\* The race, and whatever follows it, end the contract.
<1>0. CASE raced'
  <2>1. raced' = TRUE
    BY <1>0, StepType DEF IInv, TypeOK
  <2>. QED  BY <2>1 DEF Buffer!Next, Buffer!Void
<1>1. ASSUME ~raced', NEW q \in Req, ReqNext(q)
      PROVE  Buffer!Next \/ UNCHANGED Buffer!bufferVars
  <2>1. /\ ~raced /\ FileOK
        /\ RecOK(req[q]) \/ UNCHANGED <<session, bytes, place, digest, record>>
    BY <1>1, FreshOrStill
  <2>2. raced' = raced
    BY <1>1, <2>1, <1>t, ReqStepType DEF TypeOK
  <2>3. CASE RecOK(req[q])
    BY <1>1, <1>t, <2>1, <2>2, <2>3, OneRefines
  <2>4. CASE UNCHANGED <<session, bytes, place, digest, record>>
    BY <2>2, <2>4, Stutters
  <2>. QED  BY <2>1, <2>3, <2>4
<1>2. CASE ~raced' /\ PurgeNext
  BY <1>2 DEF PurgeNext, PurgeFind, PurgeRecord, PurgeFile, IInv, FileOK
<1>3. CASE Tick
  <2>1. session # None /\ session' # None /\ session'.hash = session.hash
    BY <1>3, <1>t, TickAges
  <2>. QED  BY <1>3, <2>1, Stutters DEF Tick
<1>4. CASE Crash \/ UNCHANGED vars
  BY <1>4, Stutters DEF Crash, vars
<1>. QED  BY <1>0, <1>1, <1>2, <1>3, <1>4 DEF Next

\* Without the idle purge, the session, with its hasher state, its staging file,
\* its torn writes, its crashes, its overlapping requests and the calls that
\* outlive their clients, implements the buffer of UploadBuffer: until one of them
\* writes to a session that another has changed since it was read, nothing is
\* lost, doubled or reordered, and the blob holds the buffer's bytes.
THEOREM Refinement == ASSUME ~Purges PROVE Spec => ImplementsBuffer
<1>1. Init => Buffer!Init
  BY DEF Init, Buffer!Init
<1>2. IInv /\ [Next]_vars => [Buffer!Next]_(Buffer!bufferVars)
  BY StepRefines
<1>. QED  BY <1>1, <1>2, Invariance, PTL DEF Spec, ImplementsBuffer, Buffer!Spec
=============================================================================
