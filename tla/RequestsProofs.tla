--------------------------- MODULE RequestsProofs ---------------------------
(***************************************************************************)
(* Proofs about Gate, for keys of any length over any alphabet: the        *)
(* comparison that reads both keys modulo their lengths is equality, and   *)
(* the decision it feeds is the one the operator's command line describes. *)
(*                                                                         *)
(* Proofs about Requests, for every set of scenes (any keys, any header,   *)
(* path and method, blobs and ranges of any size) and every chunk size:    *)
(*   - AuthSound: what the gate lets through, what it refuses and how, and *)
(*     who may change the registry;                                        *)
(*   - ServedExact: what a download delivers and announces.                *)
(***************************************************************************)
EXTENDS Requests, FiniteSetTheorems, SequenceTheorems, TLAPS

----------------------------------------------------------------------------
(* The gate.                                                                *)

\* Within its length a key is read as it stands.
LEMMA AtInside ==
    ASSUME NEW K, NEW s \in Seq(K), NEW i \in 0..Len(s) - 1
    PROVE  At(s, i) = s[i + 1]
<1>1. i % Len(s) = i
  OBVIOUS
<1>. QED
  BY <1>1 DEF At

\* ApiKey::matches accepts the key itself and nothing else: no extension, no
\* repetition of it, no part of it and never an empty one.
THEOREM MatchesIsEquality ==
    ASSUME NEW K, NEW key \in Seq(K), NEW presented \in Seq(K)
    PROVE  matches(key, presented) <=> key # <<>> /\ key = presented
<1>1. ASSUME matches(key, presented) PROVE key # <<>> /\ key = presented
  <2>1. key # <<>> /\ Len(key) = Len(presented)
    BY <1>1 DEF matches
  <2>2. \A i \in 0..Len(key) - 1 : At(key, i) = At(presented, i)
    BY <1>1, <2>1 DEF matches, SameBytes, Longer
  <2>3. \A i \in 0..Len(key) - 1 : key[i + 1] = presented[i + 1]
    BY <2>1, <2>2, AtInside
  <2>4. \A j \in 1..Len(key) : key[j] = presented[j]
    <3>. SUFFICES ASSUME NEW j \in 1..Len(key) PROVE key[j] = presented[j]
      OBVIOUS
    <3>1. j - 1 \in 0..Len(key) - 1 /\ (j - 1) + 1 = j
      OBVIOUS
    <3>. QED
      BY <2>3, <3>1
  <2>. QED
    BY <2>1, <2>4
<1>2. ASSUME key # <<>>, key = presented PROVE matches(key, presented)
  BY <1>2 DEF matches, SameBytes, Longer
<1>. QED
  BY <1>1, <1>2

\* What the command line entitles the shown key to: everything for the write
\* key, reading for the read key, and reading for no header at all where the
\* mode is public-pull.
Entitled(mode, read, write, method, header) ==
    \/ mode = "open"
    \/ header # None /\ credential(header) = Given(write, "write")
    \/ /\ method \in Reading
       /\ \/ mode = "public-pull" /\ header = None
          \/ mode = "private" /\ header # None /\ credential(header) = Given(read, "read")

\* A policy built from a command line has its keys, and none of them is empty.
LEMMA PolicyKeys ==
    ASSUME NEW K, None \notin Seq(K),
           Minted \in [read : Seq(K) \ {<<>>}, write : Seq(K) \ {<<>>}],
           NEW mode \in {"open", "public-pull", "private"},
           NEW read \in Seq(K) \cup {None}, NEW write \in Seq(K) \cup {None},
           NEW made \in Policies(mode, read, write)
    PROVE  /\ made.mode = mode
           /\ mode # "open" => /\ made.write = Given(write, "write")
                               /\ made.write \in Seq(K) \ {<<>>}
           /\ mode = "public-pull" => made.read = None
           /\ mode = "private" => /\ made.read = Given(read, "read")
                                  /\ made.read \in Seq(K) \ {<<>>}
<1>1. CASE mode = "open"
  BY <1>1 DEF Policies
<1>2. CASE mode = "public-pull"
  <2>1. /\ made = [mode |-> mode, read |-> None, write |-> Given(write, "write")]
        /\ ~Blank(write)
    BY <1>2 DEF Policies
  <2>2. Given(write, "write") \in Seq(K) \ {<<>>}
    BY <2>1 DEF Given, Blank
  <2>. QED
    BY <1>2, <2>1, <2>2
<1>3. CASE mode = "private"
  <2>1. /\ made = [mode |-> mode, read |-> Given(read, "read"), write |-> Given(write, "write")]
        /\ ~Blank(read) /\ ~Blank(write)
    BY <1>3 DEF Policies
  <2>2. Given(write, "write") \in Seq(K) \ {<<>>} /\ Given(read, "read") \in Seq(K) \ {<<>>}
    BY <2>1 DEF Given, Blank
  <2>. QED
    BY <1>3, <2>1, <2>2
<1>. QED
  BY <1>1, <1>2, <1>3

\* The layer in front of every handler lets through exactly the requests that
\* the command line entitles, whatever keys were given or made up and whatever
\* the client shows (AuthPolicy::authorize over config.rs).
THEOREM GateExact ==
    ASSUME NEW K, None \notin Seq(K),
           Minted \in [read : Seq(K) \ {<<>>}, write : Seq(K) \ {<<>>}],
           NEW mode \in {"open", "public-pull", "private"},
           NEW read \in Seq(K) \cup {None}, NEW write \in Seq(K) \cup {None},
           NEW made \in Policies(mode, read, write),
           NEW method, NEW header,
           header # None => credential(header) \in Seq(K) \cup {None}
    PROVE  authorize(made, method, header) = "ok"
             <=> Entitled(mode, read, write, method, header)
<1>k. /\ made.mode = mode
      /\ mode # "open" => /\ made.write = Given(write, "write")
                          /\ made.write \in Seq(K) \ {<<>>}
      /\ mode = "public-pull" => made.read = None
      /\ mode = "private" => /\ made.read = Given(read, "read")
                             /\ made.read \in Seq(K) \ {<<>>}
  BY PolicyKeys
<1>1. CASE mode = "open"
  BY <1>1, <1>k DEF authorize, Entitled
<1>2. CASE mode # "open" /\ header = None
  BY <1>2, <1>k DEF authorize, Entitled, Access
<1>3. CASE mode # "open" /\ header # None /\ credential(header) = None
  BY <1>3, <1>k DEF authorize, Entitled
<1>4. CASE mode # "open" /\ header # None /\ credential(header) # None
  <2>. DEFINE shown == credential(header)
  <2>1. shown \in Seq(K)
    BY <1>4
  <2>2. matches(made.write, shown) <=> shown = made.write
    BY <1>4, <1>k, <2>1, MatchesIsEquality
  <2>3. mode = "private" => (matches(made.read, shown) <=> shown = made.read)
    BY <1>k, <2>1, MatchesIsEquality
  <2>4. made.read # None <=> mode = "private"
    BY <1>4, <1>k
  <2>5. authorize(made, method, header) =
          IF matches(made.write, shown) THEN "ok"
          ELSE IF made.read # None /\ matches(made.read, shown)
               THEN IF Access(method) = "read" THEN "ok" ELSE "Insufficient"
          ELSE "Invalid"
    BY <1>4, <1>k DEF authorize
  <2>. QED
    BY <1>4, <1>k, <2>2, <2>3, <2>4, <2>5 DEF Entitled, Access
<1>. QED
  BY <1>1, <1>2, <1>3, <1>4

----------------------------------------------------------------------------
(* Authentication.                                                          *)

\* What the gate says of the request.
Verdict == IF is_enabled(policy) THEN authorize(policy, scene.method, scene.header) ELSE "ok"

\* What a header shows is the credential that the gate reads off it.
LEMMA ShownIsCredential ==
    ASSUME NEW h \in Authorization \cup {None}, NEW key \in Key \ {<<>>}
    PROVE  Shown(h) \cap {key} # {} <=> h # None /\ credential(h) = key
<1>1. CASE h = None
  BY <1>1 DEF Shown
<1>2. CASE h # None
  <2>1. h.user \in Key /\ h.password \in Key /\ h.decodes \in BOOLEAN
    BY <1>2 DEF Authorization
  <2>2. CASE h.scheme = "bearer"
    BY <1>2, <2>1, <2>2, NoneAssumption DEF Shown, credential
  <2>3. CASE h.scheme = "basic" /\ h.decodes
    BY <1>2, <2>1, <2>3, NoneAssumption DEF Shown, credential
  <2>4. CASE h.scheme # "bearer" /\ ~(h.scheme = "basic" /\ h.decodes)
    BY <1>2, <2>1, <2>4, NoneAssumption DEF Shown, credential
  <2>. QED  BY <2>2, <2>3, <2>4
<1>. QED  BY <1>1, <1>2

\* The credential of a header is a byte string or absent.
LEMMA CredentialType ==
    ASSUME NEW h \in Authorization PROVE credential(h) \in Key \cup {None}
<1>1. h.user \in Key /\ h.password \in Key /\ h.decodes \in BOOLEAN
  BY DEF Authorization
<1>. QED  BY <1>1 DEF credential

\* The gate's verdict, in the operator's terms: it is "ok" for exactly those
\* entitled, and otherwise "Insufficient" for exactly the holder of the read key.
LEMMA VerdictExact ==
    ASSUME scene \in Scenes,
           policy \in Policies(scene.mode, scene.read, scene.write)
    PROVE  LET entitled == IF scene.method \in Reading THEN MayRead ELSE MayWrite
           IN  /\ Verdict = "ok" <=> entitled
               /\ Verdict = "Insufficient" <=> ~entitled /\ scene.mode = "private" /\ ShowsKey("read")
               /\ scene.mode # "open" \/ (scene.read = None /\ scene.write = None)
<1>. DEFINE h == scene.header
            m == scene.method
            rk == Given(scene.read, "read")
            wk == Given(scene.write, "write")
<1>s. /\ scene.mode \in {"open", "public-pull", "private"}
      /\ scene.read \in Key \cup {None} /\ scene.write \in Key \cup {None}
      /\ h \in Authorization \cup {None}
      /\ None \notin Key
      /\ Minted \in [read : Key \ {<<>>}, write : Key \ {<<>>}]
  BY NoneAssumption, MintedAssumption, SceneAssumption
<1>o. scene.mode # "open" \/ (scene.read = None /\ scene.write = None)
  BY DEF Policies
<1>k. /\ policy.mode = scene.mode
      /\ scene.mode # "open" => policy.write = wk /\ wk \in Key \ {<<>>}
      /\ scene.mode = "public-pull" => policy.read = None
      /\ scene.mode = "private" => policy.read = rk /\ rk \in Key \ {<<>>}
  BY <1>s, PolicyKeys DEF Key
<1>w. scene.mode # "open" => (ShowsKey("write") <=> h # None /\ credential(h) = wk)
  BY <1>s, <1>k, ShownIsCredential DEF ShowsKey
<1>r. scene.mode = "private" => (ShowsKey("read") <=> h # None /\ credential(h) = rk)
  BY <1>s, <1>k, ShownIsCredential DEF ShowsKey
<1>. HIDE DEF h, m, rk, wk
<1>1. CASE scene.mode = "open"
  BY <1>1, <1>k, <1>o DEF Verdict, is_enabled, MayRead, MayWrite
<1>2. CASE scene.mode # "open"
  <2>v. Verdict = authorize(policy, m, h)
    BY <1>2, <1>k DEF Verdict, is_enabled, m, h
  <2>1. CASE h = None
    <3>1. Verdict = IF m \in Reading /\ policy.read = None THEN "ok" ELSE "Missing"
      BY <1>2, <1>k, <2>1, <2>v DEF authorize, Access
    <3>. QED  BY <1>2, <1>k, <1>s, <1>w, <1>r, <2>1, <3>1 DEF MayRead, MayWrite, m, h
  <2>2. CASE h # None /\ credential(h) = None
    <3>1. Verdict = "Malformed"
      BY <1>2, <1>k, <2>2, <2>v DEF authorize
    <3>2. credential(h) # wk /\ (scene.mode = "private" => credential(h) # rk)
      BY <1>2, <1>k, <1>s, <2>2
    <3>. QED  BY <1>2, <1>o, <1>s, <1>w, <1>r, <2>2, <3>1, <3>2 DEF MayRead, MayWrite, m, h
  <2>3. CASE h # None /\ credential(h) # None
    <3>. DEFINE shown == credential(h)
    <3>1. shown \in Key
      BY <1>s, <2>3, CredentialType
    <3>2. matches(policy.write, shown) <=> shown = wk
      BY <1>2, <1>k, <3>1, MatchesIsEquality DEF Key
    <3>3. scene.mode = "private" => (matches(policy.read, shown) <=> shown = rk)
      BY <1>k, <3>1, MatchesIsEquality DEF Key
    <3>4. policy.read # None <=> scene.mode = "private"
      BY <1>2, <1>k, <1>s
    <3>5. Verdict =
            IF matches(policy.write, shown) THEN "ok"
            ELSE IF policy.read # None /\ matches(policy.read, shown)
                 THEN IF m \in Reading THEN "ok" ELSE "Insufficient"
            ELSE "Invalid"
      BY <1>2, <1>k, <2>3, <2>v DEF authorize, Access
    <3>6. CASE shown = wk
      BY <1>2, <1>o, <1>w, <2>3, <3>2, <3>5, <3>6 DEF MayRead, MayWrite, m, h
    <3>7. CASE shown # wk /\ scene.mode = "private" /\ shown = rk
      BY <1>2, <1>o, <1>w, <1>r, <2>3, <3>2, <3>3, <3>4, <3>5, <3>7 DEF MayRead, MayWrite, m, h
    <3>8. CASE shown # wk /\ ~(scene.mode = "private" /\ shown = rk)
      BY <1>2, <1>o, <1>w, <1>r, <2>3, <3>2, <3>3, <3>4, <3>5, <3>8 DEF MayRead, MayWrite, m, h
    <3>. QED  BY <3>6, <3>7, <3>8
  <2>. QED  BY <2>1, <2>2, <2>3
<1>. QED  BY <1>1, <1>2

\* A reply that says nothing of authentication.
Settled(r) == r.status \notin {401, 403} /\ r.challenge = FALSE

Refused(verdict) == [Status(Refusal(verdict).status) EXCEPT !.challenge = Refusal(verdict).challenge]

\* The request is judged once, before anything else; what is refused ends there.
AuthInv ==
    /\ scene \in Scenes
    /\ policy \in Policies(scene.mode, scene.read, scene.write)
    /\ pc = "arrived" => Settled(reply) /\ ~wrote
    /\ pc # "arrived" /\ Verdict = "ok" => Settled(reply)
    /\ pc # "arrived" /\ Verdict # "ok" => pc = "done" /\ ~wrote /\ reply = Refused(Verdict)
    /\ wrote => scene.method \notin Reading

\* No other answer of the server is a 401, a 403 or a challenge.
LEMMA OthersSettled ==
    ASSUME None \notin Nat
    PROVE  \A n \in {None, 0, 200, 206, 400, 404, 405, 416, 500} : Settled(Status(n))
<1>1. None \notin {401, 403}
  OBVIOUS
<1>. QED  BY <1>1 DEF Settled, Status

\* The handlers refuse with 400, 404 or 405.
LEMMA RejectedStatus ==
    \A e, method : Rejected(e, method) \in {None, 400, 404, 405}
<1>. SUFFICES ASSUME NEW e, NEW method PROVE Rejected(e, method) \in {None, 400, 404, 405}
  OBVIOUS
<1>1. reference_error(e, method) \in {None, 400, 404}
  BY DEF reference_error
<1>. QED  BY <1>1 DEF Rejected

\* A step of a request that was let through keeps it so: it has an answer of
\* its own, and only the handlers of writing methods write.
LEMMA LetThrough ==
    ASSUME AuthInv, None \notin Nat, pc # "arrived", Next,
           scene' = scene, policy' = policy
    PROVE  /\ pc' # "arrived"
           /\ Verdict = "ok" => Settled(reply')
           /\ Verdict # "ok" => pc' = pc /\ wrote' = wrote /\ reply' = reply
           /\ wrote' => scene.method \notin Reading
<1>. USE DEF AuthInv
<1>1. CASE Authenticate
  BY <1>1 DEF Authenticate
<1>2. CASE Dispatch
  <2>1. Verdict = "ok" /\ Settled(reply)
    BY <1>2 DEF Dispatch
  <2>2. pc' \in {"done", "handle"} /\ reply' \in {reply, Status(404), Status(400)}
    BY <1>2 DEF Dispatch, Answer
  <2>3. Settled(Status(404)) /\ Settled(Status(400))
    BY OthersSettled
  <2>4. wrote' = wrote
    BY <1>2 DEF Dispatch
  <2>. QED  BY <2>1, <2>2, <2>3, <2>4
<1>3. CASE Handle
  <2>1. Verdict = "ok" /\ Settled(reply)
    BY <1>3 DEF Handle
  <2>2. pc' \in {"done", "stat"}
    BY <1>3 DEF Handle, Answer
  <2>3. \/ reply' = reply
        \/ reply' = Elsewhere
        \/ \E n \in {400, 404, 405} : reply' = Status(n)
    BY <1>3, RejectedStatus DEF Handle, Answer
  <2>4. wrote' = wrote \/ wrote' = (<<endpoint.kind, scene.method>> \in Mutating)
    BY <1>3 DEF Handle
  <2>5. <<endpoint.kind, scene.method>> \in Mutating => scene.method \notin Reading
    <3>1. <<endpoint.kind, scene.method>> \in Mutating
             => scene.method \in {"PUT", "DELETE", "POST", "PATCH"}
      BY DEF Mutating
    <3>. QED  BY <3>1 DEF Reading
  <2>s. Settled(Status(0)) /\ Settled(Status(400)) /\ Settled(Status(404)) /\ Settled(Status(405))
    BY OthersSettled
  <2>6. Settled(reply')
    BY <2>1, <2>3, <2>s DEF Elsewhere
  <2>7. wrote' => scene.method \notin Reading
    BY <2>4, <2>5, Zenon
  <2>. QED  BY <2>1, <2>2, <2>6, <2>7
<1>4. CASE StatBlob
  <2>1. Verdict = "ok" /\ Settled(reply)
    BY <1>4 DEF StatBlob
  <2>2. pc' \in {"done", "recheck"} /\ wrote' = wrote
    BY <1>4 DEF StatBlob, Answer
  <2>3. \/ reply' \in {reply, Status(404), Status(416)}
        \/ reply' = [Status(200) EXCEPT !.length = scene.size]
    BY <1>4 DEF StatBlob, Answer
  <2>4. Settled(Status(404)) /\ Settled(Status(416))
    BY OthersSettled
  <2>5. Settled(reply')
    <3>1. CASE reply' = [Status(200) EXCEPT !.length = scene.size]
      <4>1. reply'.status = 200 /\ reply'.challenge = FALSE
        BY <3>1 DEF Status
      <4>. QED  BY <4>1 DEF Settled
    <3>. QED  BY <2>1, <2>3, <2>4, <3>1
  <2>. QED  BY <2>1, <2>2, <2>5
<1>5. CASE Recheck
  <2>1. Verdict = "ok" /\ Settled(reply)
    BY <1>5 DEF Recheck
  <2>2. pc' \in {"done", "open"} /\ wrote' = wrote /\ reply' \in {reply, Status(404)}
    BY <1>5 DEF Recheck, Answer
  <2>3. Settled(Status(404))
    BY OthersSettled
  <2>. QED  BY <2>1, <2>2, <2>3
<1>6. CASE OpenFile
  <2>1. Verdict = "ok" /\ Settled(reply)
    BY <1>6 DEF OpenFile
  <2>2. pc' \in {"done", "stream"} /\ wrote' = wrote
    BY <1>6 DEF OpenFile, Answer
  <2>3. \/ reply' \in {Status(404), Status(500)}
        \/ reply' = [Status(200) EXCEPT !.length = disk.len]
        \/ reply' = [Status(206) EXCEPT !.length = window.end - window.start + 1,
                                        !.first = window.start, !.last = window.end]
    BY <1>6 DEF OpenFile, Answer
  <2>4. Settled(Status(404)) /\ Settled(Status(500))
    BY OthersSettled
  <2>5. Settled(reply')
    <3>1. CASE reply' = [Status(200) EXCEPT !.length = disk.len]
      <4>1. reply'.status = 200 /\ reply'.challenge = FALSE
        BY <3>1 DEF Status
      <4>. QED  BY <4>1 DEF Settled
    <3>2. CASE reply' = [Status(206) EXCEPT !.length = window.end - window.start + 1,
                                            !.first = window.start, !.last = window.end]
      <4>1. reply'.status = 206 /\ reply'.challenge = FALSE
        BY <3>2 DEF Status
      <4>. QED  BY <4>1 DEF Settled
    <3>. QED  BY <2>3, <2>4, <3>1, <3>2
  <2>. QED  BY <2>1, <2>2, <2>5
<1>7. CASE ReadReturns \/ PollFirst \/ PollChunk \/ PollError \/ HangUp
  <2>1. Verdict = "ok" /\ Settled(reply)
    BY <1>7 DEF ReadReturns, PollFirst, PollChunk, PollError, HangUp
  <2>2. pc' \in {"done", "stream"} /\ wrote' = wrote /\ reply' = reply
    BY <1>7 DEF ReadReturns, PollFirst, PollChunk, PollError, HangUp, Streaming
  <2>. QED  BY <2>1, <2>2
<1>8. CASE Unmember \/ Unlink \/ Truncate \/ Finished
  <2>1. pc' = pc /\ wrote' = wrote /\ reply' = reply
    BY <1>8 DEF Unmember, Unlink, Truncate, Finished, OnlyTheBlob, vars
  <2>. QED  BY <2>1
<1>. QED
  BY <1>1, <1>2, <1>3, <1>4, <1>5, <1>6, <1>7, <1>8, Next DEF Next, Download

\* Nothing changes the scene or the policy it yields.
LEMMA SceneStays == ASSUME [Next]_vars PROVE scene' = scene /\ policy' = policy
BY [Next]_vars DEF Next, Download, vars, Authenticate, Dispatch, Handle, StatBlob, Recheck, OpenFile,
   ReadReturns, PollFirst, PollChunk, PollError, HangUp, Unmember, Unlink, Truncate,
   Finished, Streaming, OnlyTheBlob

\* Every step keeps the judgement.
LEMMA AuthStep == ASSUME AuthInv, None \notin Nat, [Next]_vars PROVE AuthInv'
<1>0. scene' = scene /\ policy' = policy /\ Verdict' = Verdict
  BY SceneStays DEF Verdict, is_enabled
<1>1. CASE UNCHANGED vars
  BY <1>0, <1>1 DEF vars, AuthInv
<1>2. CASE Next /\ pc # "arrived"
  <2>1. /\ pc' # "arrived"
        /\ Verdict = "ok" => Settled(reply')
        /\ Verdict # "ok" => pc' = pc /\ wrote' = wrote /\ reply' = reply
        /\ wrote' => scene.method \notin Reading
    BY <1>0, <1>2, LetThrough
  <2>. QED  BY <1>0, <1>2, <2>1 DEF AuthInv, Settled
<1>3. CASE Next /\ pc = "arrived"
  <2>1. Authenticate \/ UNCHANGED <<pc, reply, wrote>>
    BY <1>3 DEF Next, Download, Dispatch, Handle, StatBlob, Recheck, OpenFile, ReadReturns,
       PollFirst, PollChunk, PollError, HangUp, Unmember, Unlink, Truncate, Finished,
       OnlyTheBlob
  <2>2. CASE Authenticate /\ Verdict = "ok"
    <3>1. pc' = "route" /\ reply' = reply /\ wrote' = wrote
      BY <2>2 DEF Authenticate, Verdict
    <3>. QED  BY <1>0, <1>3, <2>2, <3>1 DEF AuthInv, Settled
  <2>3. CASE Authenticate /\ Verdict # "ok"
    <3>1. pc' = "done" /\ reply' = Refused(Verdict) /\ wrote' = wrote
      BY <2>3 DEF Authenticate, Verdict, Answer, Refused
    <3>. QED  BY <1>0, <1>3, <2>3, <3>1 DEF AuthInv
  <2>4. CASE UNCHANGED <<pc, reply, wrote>>
    BY <1>0, <1>3, <2>4 DEF AuthInv, Settled
  <2>. QED  BY <2>1, <2>2, <2>3, <2>4
<1>. QED  BY <1>1, <1>2, <1>3, [Next]_vars

\* The gate in front of every endpoint keeps the promise of the operator's
\* command line for all keys and all requests: what is let through, what is
\* refused and whether with a challenge, and that only the holder of the write
\* key changes the registry (auth.rs, config.rs and the layer in app.rs).
THEOREM AuthSafe == Spec => []AuthSound
<1>n. None \notin Nat
  BY NoneAssumption
<1>1. Init => AuthInv
  <2>. SUFFICES ASSUME Init PROVE AuthInv
    OBVIOUS
  <2>1. Settled(reply)
    BY <1>n, OthersSettled DEF Init, Unanswered
  <2>. QED  BY <2>1 DEF Init, AuthInv
<1>2. AuthInv /\ [Next]_vars => AuthInv'
  BY <1>n, AuthStep
<1>3. AuthInv => AuthSound
  <2>. SUFFICES ASSUME AuthInv PROVE AuthSound
    OBVIOUS
  <2>. DEFINE entitled == IF scene.method \in Reading THEN MayRead ELSE MayWrite
  <2>1. /\ Verdict = "ok" <=> entitled
        /\ Verdict = "Insufficient" <=> ~entitled /\ scene.mode = "private" /\ ShowsKey("read")
        /\ scene.mode # "open" \/ (scene.read = None /\ scene.write = None)
    BY VerdictExact DEF AuthInv
  <2>. HIDE DEF entitled
  <2>2. wrote => MayWrite
    <3>1. wrote => Verdict = "ok" /\ scene.method \notin Reading
      BY DEF AuthInv
    <3>. QED  BY <2>1, <3>1 DEF entitled
  <2>3. ASSUME pc # "arrived"
        PROVE  /\ (reply.status \in {401, 403}) <=> ~entitled
               /\ reply.status = 403 <=> ~entitled /\ scene.mode = "private" /\ ShowsKey("read")
               /\ reply.challenge <=> reply.status = 401
    <3>1. CASE Verdict = "ok"
      BY <2>1, <2>3, <3>1 DEF AuthInv, Settled
    <3>2. CASE Verdict = "Insufficient"
      <4>1. reply.status = 403 /\ reply.challenge = FALSE
        BY <2>3, <3>2 DEF AuthInv, Refused, Refusal, Status
      <4>. QED  BY <2>1, <3>2, <4>1
    <3>3. CASE Verdict \notin {"ok", "Insufficient"}
      <4>1. reply.status = 401 /\ reply.challenge = TRUE
        BY <2>3, <3>3 DEF AuthInv, Refused, Refusal, Status
      <4>. QED  BY <2>1, <3>3, <4>1
    <3>. QED  BY <3>1, <3>2, <3>3
  <2>. QED  BY <2>1, <2>2, <2>3 DEF AuthSound, entitled, Reading
<1>. QED  BY <1>1, <1>2, <1>3, PTL DEF Spec

----------------------------------------------------------------------------
(* Downloads.                                                               *)

\* The smallest and the largest of an interval are its ends.
LEMMA Ends ==
    ASSUME NEW a \in Int, NEW b \in Int, a <= b
    PROVE  /\ (CHOOSE i \in a..b : \A j \in a..b : i <= j) = a
           /\ (CHOOSE i \in a..b : \A j \in a..b : j <= i) = b
<1>1. a \in a..b /\ (\A j \in a..b : a <= j) /\ b \in a..b /\ (\A j \in a..b : j <= b)
  OBVIOUS
<1>2. PICK c : c = CHOOSE i \in a..b : \A j \in a..b : i <= j
  OBVIOUS
<1>3. c \in a..b /\ \A j \in a..b : c <= j
  BY <1>1, <1>2
<1>4. PICK e : e = CHOOSE i \in a..b : \A j \in a..b : j <= i
  OBVIOUS
<1>5. e \in a..b /\ \A j \in a..b : j <= e
  BY <1>1, <1>4
<1>6. c = a
  BY <1>1, <1>3
<1>7. e = b
  BY <1>1, <1>5
<1>. QED  BY <1>2, <1>4, <1>6, <1>7

\* n bytes from the byte a on.
Bytes(a, n) == [i \in 1..n |-> a + i - 1]

\* A body and the bytes that follow it are a body.
LEMMA BytesJoin ==
    ASSUME NEW a \in Nat, NEW n \in Nat, NEW k \in Nat
    PROVE  /\ Bytes(a, n) \o Bytes(a + n, k) = Bytes(a, n + k)
           /\ Len(Bytes(a, n)) = n
<1>. DEFINE s == Bytes(a, n)
            t == Bytes(a + n, k)
            u == Bytes(a, n + k)
<1>1. s \in Seq(Int) /\ Len(s) = n /\ \A i \in 1..n : s[i] = a + i - 1
  BY DEF Bytes
<1>2. t \in Seq(Int) /\ Len(t) = k /\ \A i \in 1..k : t[i] = a + n + i - 1
  BY DEF Bytes
<1>3. u \in Seq(Int) /\ Len(u) = n + k /\ \A i \in 1..n + k : u[i] = a + i - 1
  BY DEF Bytes
<1>. HIDE DEF s, t, u
<1>4. s \o t \in Seq(Int) /\ Len(s \o t) = n + k
  BY <1>1, <1>2, ConcatProperties
<1>5. ASSUME NEW i \in 1..n + k PROVE (s \o t)[i] = u[i]
  <2>1. CASE i <= n
    <3>1. (s \o t)[i] = s[i] /\ i \in 1..n
      BY <1>1, <1>2, <2>1, ConcatProperties
    <3>. QED  BY <1>1, <1>3, <3>1
  <2>2. CASE ~(i <= n)
    <3>1. (s \o t)[i] = t[i - n] /\ i - n \in 1..k
      BY <1>1, <1>2, <2>2, ConcatProperties
    <3>2. t[i - n] = a + n + (i - n) - 1
      BY <1>2, <3>1
    <3>3. u[i] = a + i - 1
      BY <1>3
    <3>4. a + n + (i - n) - 1 = a + i - 1
      OBVIOUS
    <3>. QED  BY <3>1, <3>2, <3>3, <3>4
  <2>. QED  BY <2>1, <2>2
<1>6. s \o t = u
  BY <1>3, <1>4, <1>5, SeqEqual
<1>. QED  BY <1>1, <1>6 DEF s, t, u

\* parse_range says what the specification's three forms say: a header that is
\* none of them is for the whole, the others for exactly the bytes they name.
LEMMA RangeExact ==
    ASSUME scene \in Scenes
    PROVE  LET r == parse_range(scene.range, scene.size)
           IN  /\ r.kind \in {"whole", "unsatisfiable", "partial"}
               /\ r.kind = "whole" => ~WellFormed(scene.range) /\ Wanted = 0..scene.size - 1
               /\ r.kind = "unsatisfiable" => Asks(scene.range) /\ Wanted = {}
               /\ r.kind = "partial" =>
                     /\ WellFormed(scene.range)
                     /\ r \in Window
                     /\ r.start <= r.end /\ r.end < scene.size
                     /\ Wanted = r.start..r.end
<1>. DEFINE h == scene.range
            n == scene.size
            r == parse_range(h, n)
<1>0. n \in Nat /\ h \in RangeHeader \cup {None}
  BY SceneAssumption
<1>k. /\ Whole.kind = "whole" /\ Unsatisfiable.kind = "unsatisfiable"
      /\ \A a, b : /\ Partial(a, b).kind = "partial"
                   /\ Partial(a, b).start = a /\ Partial(a, b).end = b
  BY DEF Whole, Unsatisfiable, Partial
<1>w. \A a \in Nat, b \in Nat : Partial(a, b) \in Window
  BY DEF Partial, Window
<1>n. None \notin Nat /\ Junk \notin Nat /\ None # Junk
  BY NoneAssumption
<1>1. CASE ~Asks(h)
  <2>1. r = Whole
    BY <1>1 DEF parse_range, Asks
  <2>2. ~WellFormed(h) /\ Wanted = 0..n - 1
    BY <1>1 DEF WellFormed, Wanted
  <2>. QED  BY <1>k, <2>1, <2>2
<1>2. CASE Asks(h) /\ n = 0
  <2>1. r = Unsatisfiable
    BY <1>2 DEF parse_range, Asks
  <2>2. 0..n - 1 = {}
    BY <1>2
  <2>3. Wanted = {}
    BY <2>2 DEF Wanted
  <2>. QED  BY <1>2, <1>k, <2>1, <2>3
<1>3. CASE Asks(h) /\ n # 0 /\ ~WellFormed(h)
  <2>1. r = Whole
    BY <1>3 DEF parse_range, Asks, WellFormed
  <2>2. Wanted = 0..n - 1
    BY <1>3 DEF Wanted
  <2>. QED  BY <1>3, <1>k, <2>1, <2>2
<1>4. CASE Asks(h) /\ n # 0 /\ WellFormed(h)
  <2>0. /\ h.first \in Nat \cup {None} /\ h.last \in Nat \cup {None}
        /\ ~(h.first = None /\ h.last = None)
        /\ n \in Nat /\ n > 0
    <3>1. h \in RangeHeader
      BY <1>0, <1>4 DEF Asks
    <3>2. h.first \in Number /\ h.last \in Number
      BY <3>1 DEF RangeHeader
    <3>. QED  BY <1>0, <1>4, <3>2 DEF WellFormed, Number
  <2>r. r = IF h.first = None
            THEN IF h.last = 0 THEN Unsatisfiable ELSE Partial(Less(n, h.last), n - 1)
            ELSE IF h.first >= n THEN Unsatisfiable
            ELSE IF h.last = None THEN Partial(h.first, n - 1)
            ELSE IF h.first > h.last THEN Unsatisfiable
            ELSE Partial(h.first, Cap(h.last, n - 1))
    BY <1>4 DEF parse_range, Asks, WellFormed
  <2>w. Wanted = {i \in 0..n - 1 : /\ h.first = None => n - i <= h.last
                                   /\ h.first # None => i >= h.first
                                   /\ (h.first # None /\ h.last # None) => i <= h.last}
    BY <1>4 DEF Wanted
  <2>p. ASSUME NEW a \in Nat, NEW b \in Nat, r = Partial(a, b), a <= b, b < n, Wanted = a..b
        PROVE  /\ r.kind = "partial" /\ r \in Window /\ r.start <= r.end /\ r.end < n
               /\ Wanted = r.start..r.end
    <3>1. r.kind = "partial" /\ r.start = a /\ r.end = b /\ r \in Window
      BY <1>k, <1>w, <2>p
    <3>. QED  BY <2>p, <3>1
  <2>. HIDE DEF h, n, r
  <2>1. CASE h.first = None /\ h.last = 0
    <3>1. Wanted = {}
      BY <1>n, <2>0, <2>w, <2>1
    <3>. QED  BY <1>4, <1>k, <2>r, <2>1, <3>1 DEF h, n, r
  <2>2. CASE h.first = None /\ h.last # 0
    <3>1. h.last \in Nat /\ h.last > 0
      BY <2>0, <2>2
    <3>2. Less(n, h.last) \in Nat /\ Less(n, h.last) <= n - 1 /\ n - 1 \in Nat
      BY <2>0, <3>1 DEF Less
    <3>3. Wanted = {i \in 0..n - 1 : n - i <= h.last}
      BY <2>2, <2>w
    <3>4. Wanted = Less(n, h.last)..(n - 1)
      BY <2>0, <3>1, <3>3 DEF Less
    <3>. QED  BY <1>4, <2>0, <2>p, <2>r, <2>2, <3>2, <3>4 DEF h, n, r
  <2>3. CASE h.first # None /\ h.first >= n
    <3>1. Wanted = {}
      BY <2>0, <2>w, <2>3
    <3>. QED  BY <1>4, <1>k, <2>r, <2>3, <3>1 DEF h, n, r
  <2>4. CASE h.first # None /\ ~(h.first >= n) /\ h.last = None
    <3>1. h.first \in Nat /\ h.first <= n - 1 /\ n - 1 \in Nat
      BY <2>0, <2>4
    <3>2. Wanted = h.first..(n - 1)
      BY <2>0, <2>w, <2>4, <3>1
    <3>. QED  BY <1>4, <2>0, <2>p, <2>r, <2>4, <3>1, <3>2 DEF h, n, r
  <2>5. CASE h.first # None /\ ~(h.first >= n) /\ h.last # None /\ h.first > h.last
    <3>1. Wanted = {}
      BY <2>0, <2>w, <2>5
    <3>. QED  BY <1>4, <1>k, <2>r, <2>5, <3>1 DEF h, n, r
  <2>6. CASE h.first # None /\ ~(h.first >= n) /\ h.last # None /\ ~(h.first > h.last)
    <3>1. /\ h.first \in Nat /\ h.last \in Nat /\ h.first < n /\ h.first <= h.last
          /\ Cap(h.last, n - 1) \in Nat /\ h.first <= Cap(h.last, n - 1)
          /\ Cap(h.last, n - 1) < n
      BY <2>0, <2>6 DEF Cap
    <3>2. Wanted = {i \in 0..n - 1 : i >= h.first /\ i <= h.last}
      BY <2>w, <2>6
    <3>3. Wanted = h.first..Cap(h.last, n - 1)
      BY <2>0, <3>1, <3>2 DEF Cap
    <3>. QED  BY <1>4, <2>0, <2>p, <2>r, <2>6, <3>1, <3>3 DEF h, n, r
  <2>. QED  BY <2>1, <2>2, <2>3, <2>4, <2>5, <2>6
<1>. QED  BY <1>1, <1>2, <1>3, <1>4

\* The bytes a resolved request is for: from First to before Past.
First == IF window = None THEN 0 ELSE window.start
Past == IF window = None THEN scene.size ELSE window.end + 1

\* The window is what the header asks for.
WindowOK ==
    /\ window = None => ~WellFormed(scene.range)
    /\ window # None => /\ window \in Window
                        /\ WellFormed(scene.range)
                        /\ window.start <= window.end /\ window.end < scene.size
    /\ Wanted = First..Past - 1

\* The headers announce the window.
HeaderOK ==
    /\ window = None => reply.status = 200 /\ reply.length = stream.size
    /\ window # None => /\ reply.status = 206
                        /\ reply.length = window.end - window.start + 1
                        /\ reply.first = window.start /\ reply.last = window.end

\* The stream is within the window, and reaches its end if the file was whole;
\* a read in flight is of the bytes just before `next`.
StreamOK ==
    /\ stream \in BlobStream
    /\ First <= stream.next /\ stream.next <= stream.end /\ stream.end <= Past
    /\ stream.size = scene.size => stream.end = Past
    /\ stream.inflight # None =>
          /\ stream.inflight.from + stream.inflight.len = stream.next
          /\ stream.inflight.len > 0

\* How many bytes were sent: they are the first of the window.
BodyOK == \E n \in Nat : sent = Bytes(First, n) /\ First + n <= stream.end

\* While it streams, the next byte to come is the next to send, until a read
\* fails; after that nothing comes any more.
LiveOK ==
    /\ stream.inflight = None /\ ~failed => sent = Bytes(First, stream.next - First)
    /\ stream.inflight = None /\ failed => stream.next = stream.end
    /\ stream.inflight # None => /\ sent = Bytes(First, stream.inflight.from - First)
                                 /\ First <= stream.inflight.from
                                 /\ ~failed

Unopened ==
    /\ stream = None
    /\ sent = <<>>
    /\ reply.status # 206
    /\ reply.status = 416 => Asks(scene.range) /\ Wanted = {}

Opened ==
    /\ stream # None
    /\ WindowOK /\ HeaderOK /\ StreamOK /\ BodyOK

ServeInv ==
    /\ scene \in Scenes
    /\ disk \in [linked : BOOLEAN, len : 0..scene.size]
    /\ pc \in {"arrived", "route", "handle", "stat", "recheck", "open", "stream", "done"}
    /\ pc \notin {"stream", "done"} => Unopened /\ failed = FALSE /\ reply = Unanswered
    /\ pc \in {"recheck", "open"} => WindowOK
    /\ pc = "stream" => Opened /\ LiveOK
    /\ pc = "done" => \/ Unopened
                      \/ Opened /\ (~failed => sent = Bytes(First, stream.end - First))

\* The bounds of the window.
LEMMA WindowBounds ==
    ASSUME scene \in Scenes, WindowOK
    PROVE  First \in Nat /\ Past \in Nat /\ First <= Past /\ Past <= scene.size
<1>1. scene.size \in Nat
  BY SceneAssumption
<1>2. CASE window = None
  BY <1>1, <1>2 DEF First, Past
<1>3. CASE window # None
  <2>1. window.start \in Nat /\ window.end \in Nat
    BY <1>3 DEF WindowOK, Window
  <2>. QED  BY <1>1, <1>3, <2>1 DEF First, Past, WindowOK
<1>. QED  BY <1>2, <1>3

\* spawn_next issues a read of at least one byte that ends where the next will
\* start, within the stream, or none at all when the stream is at its end.
LEMMA SpawnNext ==
    ASSUME NEW s \in BlobStream, s.inflight = None, s.next <= s.end,
           NEW t, t = spawn_next(s)
    PROVE  /\ t \in BlobStream /\ t.size = s.size /\ t.end = s.end
           /\ s.next <= t.next /\ t.next <= s.end
           /\ t.inflight = None => t.next = s.next /\ s.next = s.end
           /\ t.inflight # None => /\ t.inflight \in ReadTask
                                   /\ t.inflight.from = s.next
                                   /\ t.inflight.from + t.inflight.len = t.next
                                   /\ t.inflight.len > 0
<1>. DEFINE len == Cap(s.end - s.next, chunk_size)
<1>0. s.size \in Nat /\ s.next \in Nat /\ s.end \in Nat
  BY DEF BlobStream
<1>1. len \in Nat /\ s.next + len <= s.end /\ (len = 0 => s.next = s.end)
  BY <1>0, ChunkAssumption DEF Cap
<1>2. t = IF len = 0 THEN s
          ELSE [s EXCEPT !.next = s.next + len,
                         !.inflight = [from |-> s.next, len |-> len, got |-> "nothing"]]
  BY DEF spawn_next
<1>. HIDE DEF len
<1>3. CASE len = 0
  BY <1>0, <1>1, <1>2, <1>3
<1>4. CASE len # 0
  <2>. DEFINE task == [from |-> s.next, len |-> len, got |-> "nothing"]
  <2>1. task \in ReadTask /\ task.from = s.next /\ task.len = len
    BY <1>0, <1>1 DEF ReadTask
  <2>2. task # None
    BY <2>1, NoneAssumption
  <2>. HIDE DEF task
  <2>3. t = [s EXCEPT !.next = s.next + len, !.inflight = task]
    BY <1>2, <1>4 DEF task
  <2>4. /\ t \in BlobStream /\ t.size = s.size /\ t.end = s.end
        /\ t.next = s.next + len /\ t.inflight = task
    <3>1. PICK n \in Nat : n = s.next + len
      BY <1>0, <1>1
    <3>2. t = [size |-> s.size, next |-> n, end |-> s.end, inflight |-> task]
      BY <2>3, <3>1 DEF BlobStream
    <3>. QED  BY <1>0, <2>1, <3>1, <3>2 DEF BlobStream
  <2>. QED  BY <1>0, <1>1, <1>4, <2>1, <2>2, <2>4
<1>. QED  BY <1>3, <1>4

\* What stays of an open stream when a step leaves its window and headers alone.
LEMMA SameWindow ==
    ASSUME scene' = scene, window' = window, reply' = reply
    PROVE  /\ First' = First /\ Past' = Past /\ Wanted' = Wanted
           /\ WindowOK' <=> WindowOK
           /\ (HeaderOK /\ stream'.size = stream.size) => HeaderOK'
<1>1. First' = First /\ Past' = Past
  BY DEF First, Past
<1>2. Wanted' = Wanted
  BY DEF Wanted
<1>3. WindowOK' <=> WindowOK
  BY <1>1, <1>2 DEF WindowOK
<1>4. (HeaderOK /\ stream'.size = stream.size) => HeaderOK'
  BY DEF HeaderOK
<1>. QED  BY <1>1, <1>2, <1>3, <1>4

\* An empty body.
LEMMA NoBytes == \A a : Bytes(a, 0) = <<>>
BY DEF Bytes

\* A request that gets its answer without a body.
LEMMA AnswersUnopened ==
    ASSUME ServeInv, pc \notin {"stream", "done"}, pc' = "done",
           scene' = scene, disk' = disk, stream' = stream, sent' = sent,
           reply'.status # 206,
           reply'.status = 416 => Asks(scene.range) /\ Wanted = {}
    PROVE  ServeInv'
<1>1. Wanted' = Wanted
  BY DEF Wanted
<1>2. Unopened
  BY DEF ServeInv
<1>3. Unopened'
  BY <1>1, <1>2 DEF Unopened
<1>. QED  BY <1>3 DEF ServeInv

\* A request that goes on towards its download.
LEMMA GoesOn ==
    ASSUME ServeInv, pc \notin {"stream", "done"},
           pc' \in {"route", "handle", "stat", "recheck", "open"},
           scene' = scene, disk' = disk, stream' = stream, sent' = sent,
           reply' = reply, failed' = failed,
           pc' \in {"recheck", "open"} => WindowOK'
    PROVE  ServeInv'
<1>1. Wanted' = Wanted
  BY DEF Wanted
<1>2. Unopened /\ failed = FALSE /\ reply = Unanswered
  BY DEF ServeInv
<1>3. Unopened'
  BY <1>1, <1>2 DEF Unopened
<1>4. Unanswered' = Unanswered
  BY DEF Unanswered, Status
<1>. QED  BY <1>2, <1>3, <1>4 DEF ServeInv

\* The gate and the handlers answer with no download.
LEMMA BeforeServe ==
    ASSUME ServeInv, Authenticate \/ Dispatch \/ Handle PROVE ServeInv'
<1>n. \A n : Status(n).status = n
  BY DEF Status
<1>1. CASE Authenticate
  <2>0. pc = "arrived"
    BY <1>1 DEF Authenticate
  <2>f. /\ scene' = scene /\ disk' = disk /\ stream' = stream /\ sent' = sent /\ failed' = failed
    BY <1>1 DEF Authenticate
  <2>1. CASE Verdict = "ok"
    <3>1. pc' = "route" /\ reply' = reply
      BY <1>1, <2>1 DEF Authenticate, Verdict
    <3>. QED  BY <2>0, <2>f, <3>1, GoesOn
  <2>2. CASE Verdict # "ok"
    <3>1. pc' = "done" /\ reply' = Refused(Verdict)
      BY <1>1, <2>2 DEF Authenticate, Verdict, Answer, Refused
    <3>2. reply'.status \in {401, 403}
      BY <3>1 DEF Refused, Refusal, Status
    <3>. QED  BY <2>0, <2>f, <3>1, <3>2, AnswersUnopened
  <2>. QED  BY <2>1, <2>2
<1>2. CASE Dispatch
  <2>0. pc = "route"
    BY <1>2 DEF Dispatch
  <2>f. /\ scene' = scene /\ disk' = disk /\ stream' = stream /\ sent' = sent /\ failed' = failed
    BY <1>2 DEF Dispatch
  <2>1. \/ pc' = "handle" /\ reply' = reply
        \/ pc' = "done" /\ \E n \in {400, 404} : reply' = Status(n)
    BY <1>2 DEF Dispatch, Answer
  <2>2. CASE pc' = "handle" /\ reply' = reply
    BY <2>0, <2>f, <2>2, GoesOn
  <2>3. CASE pc' = "done" /\ \E n \in {400, 404} : reply' = Status(n)
    <3>1. reply'.status \in {400, 404}
      BY <1>n, <2>3
    <3>. QED  BY <2>0, <2>f, <2>3, <3>1, AnswersUnopened
  <2>. QED  BY <2>1, <2>2, <2>3
<1>3. CASE Handle
  <2>0. pc = "handle"
    BY <1>3 DEF Handle
  <2>f. /\ scene' = scene /\ disk' = disk /\ stream' = stream /\ sent' = sent /\ failed' = failed
    BY <1>3 DEF Handle
  <2>1. \/ pc' = "stat" /\ reply' = reply
        \/ pc' = "done" /\ \E n \in {0, 400, 404, 405} : reply' = Status(n)
    BY <1>3, RejectedStatus DEF Handle, Answer, Elsewhere
  <2>2. CASE pc' = "stat" /\ reply' = reply
    BY <2>0, <2>f, <2>2, GoesOn
  <2>3. CASE pc' = "done" /\ \E n \in {0, 400, 404, 405} : reply' = Status(n)
    <3>1. reply'.status \in {0, 400, 404, 405}
      BY <1>n, <2>3
    <3>. QED  BY <2>0, <2>f, <2>3, <3>1, AnswersUnopened
  <2>. QED  BY <2>1, <2>2, <2>3
<1>. QED  BY <1>1, <1>2, <1>3

\* StatBlob resolves the header into the window of the bytes it asks for, or
\* answers 416 when there are none.
LEMMA StatServe ==
    ASSUME ServeInv, StatBlob PROVE ServeInv'
<1>. DEFINE range == parse_range(scene.range, scene.size)
<1>0. pc = "stat" /\ scene \in Scenes
  BY DEF StatBlob, ServeInv
<1>f. /\ scene' = scene /\ disk' = disk /\ stream' = stream /\ sent' = sent /\ failed' = failed
  BY DEF StatBlob
<1>n. \A n : Status(n).status = n
  BY DEF Status
<1>r. /\ range.kind \in {"whole", "unsatisfiable", "partial"}
      /\ range.kind = "whole" => ~WellFormed(scene.range) /\ Wanted = 0..scene.size - 1
      /\ range.kind = "unsatisfiable" => Asks(scene.range) /\ Wanted = {}
      /\ range.kind = "partial" =>
            /\ WellFormed(scene.range)
            /\ range \in Window
            /\ range.start <= range.end /\ range.end < scene.size
            /\ Wanted = range.start..range.end
  BY <1>0, RangeExact
<1>s. \/ pc' = "done" /\ reply' = Status(404)
      \/ pc' = "done" /\ reply' = [Status(200) EXCEPT !.length = scene.size]
      \/ pc' = "done" /\ range.kind = "unsatisfiable" /\ reply' = Status(416)
      \/ /\ pc' = "recheck" /\ range.kind # "unsatisfiable" /\ reply' = reply
         /\ window' = IF range.kind = "whole" THEN None ELSE range
  BY DEF StatBlob, Answer
<1>. HIDE DEF range
<1>1. CASE pc' = "done" /\ reply' = Status(404)
  <2>1. reply'.status = 404
    BY <1>1, <1>n
  <2>. QED  BY <1>0, <1>f, <1>1, <2>1, AnswersUnopened
<1>2. CASE pc' = "done" /\ reply' = [Status(200) EXCEPT !.length = scene.size]
  <2>1. reply'.status = 200
    BY <1>2 DEF Status
  <2>. QED  BY <1>0, <1>f, <1>2, <2>1, AnswersUnopened
<1>3. CASE pc' = "done" /\ range.kind = "unsatisfiable" /\ reply' = Status(416)
  <2>1. reply'.status = 416
    BY <1>3, <1>n
  <2>. QED  BY <1>0, <1>f, <1>r, <1>3, <2>1, AnswersUnopened
<1>4. CASE /\ pc' = "recheck" /\ range.kind # "unsatisfiable" /\ reply' = reply
           /\ window' = IF range.kind = "whole" THEN None ELSE range
  <2>w. Wanted' = Wanted
    BY <1>f DEF Wanted
  <2>1. CASE range.kind = "whole"
    <3>1. window' = None /\ First' = 0 /\ Past' = scene.size
      BY <1>4, <1>f, <2>1 DEF First, Past
    <3>. QED  BY <1>0, <1>f, <1>r, <1>4, <2>w, <2>1, <3>1, GoesOn DEF WindowOK
  <2>2. CASE range.kind = "partial"
    <3>1. window' = range /\ range # None
      BY <1>4, <1>r, <2>2, NoneAssumption
    <3>2. First' = range.start /\ Past' = range.end + 1
      BY <3>1 DEF First, Past
    <3>3. Past' - 1 = range.end
      BY <1>r, <2>2, <3>2 DEF Window
    <3>4. WindowOK'
      BY <1>f, <1>r, <2>w, <2>2, <3>1, <3>2, <3>3 DEF WindowOK
    <3>. QED  BY <1>0, <1>f, <1>4, <3>4, GoesOn
  <2>. QED  BY <1>r, <1>4, <2>1, <2>2
<1>. QED  BY <1>s, <1>1, <1>2, <1>3, <1>4

\* Recheck changes nothing of the window.
LEMMA RecheckServe ==
    ASSUME ServeInv, Recheck PROVE ServeInv'
<1>0. pc = "recheck" /\ WindowOK
  BY DEF Recheck, ServeInv
<1>f. /\ scene' = scene /\ disk' = disk /\ stream' = stream /\ sent' = sent /\ failed' = failed
      /\ window' = window
  BY DEF Recheck
<1>1. CASE member
  <2>1. pc' = "open" /\ reply' = reply
    BY <1>1 DEF Recheck
  <2>. QED  BY <1>0, <1>f, <2>1, GoesOn, SameWindow
<1>2. CASE ~member
  <2>1. pc' = "done" /\ reply'.status = 404
    BY <1>2 DEF Recheck, Answer, Status
  <2>. QED  BY <1>0, <1>f, <2>1, AnswersUnopened
<1>. QED  BY <1>1, <1>2

\* OpenFile begins the stream at the window's first byte and ends it at the
\* window's end, or at the end of a file that was cut short before.
LEMMA OpenServe ==
    ASSUME ServeInv, OpenFile PROVE ServeInv'
<1>. DEFINE size == disk.len
<1>0. /\ pc = "open" /\ WindowOK /\ scene \in Scenes /\ size \in 0..scene.size
      /\ Unopened /\ failed = FALSE
  BY DEF OpenFile, ServeInv
<1>z. scene.size \in Nat /\ size \in Nat /\ size <= scene.size
  BY <1>0, SceneAssumption
<1>f. /\ scene' = scene /\ disk' = disk /\ sent' = sent /\ failed' = failed
      /\ window' = window
  BY DEF OpenFile
<1>w. /\ First' = First /\ Past' = Past /\ Wanted' = Wanted /\ WindowOK'
      /\ First \in Nat /\ Past \in Nat /\ First <= Past
  BY <1>0, <1>f, WindowBounds DEF First, Past, Wanted, WindowOK
<1>b. sent' = Bytes(First, 0)
  BY <1>0, <1>f, NoBytes DEF Unopened
<1>s. \/ pc' = "done" /\ stream' = stream /\ \E n \in {404, 500} : reply' = Status(n)
      \/ /\ window = None
         /\ stream' = stream_from(size, 0, size)
         /\ reply' = [Status(200) EXCEPT !.length = size]
         /\ pc' = "stream"
      \/ /\ window # None /\ resolve(window, size) # None
         /\ stream' = stream_from(size, resolve(window, size).start,
                        resolve(window, size).end - resolve(window, size).start + 1)
         /\ reply' = [Status(206) EXCEPT !.length = window.end - window.start + 1,
                                         !.first = window.start, !.last = window.end]
         /\ pc' = "stream"
  BY DEF OpenFile, Answer
<1>. HIDE DEF size
<1>o. ASSUME NEW next \in Nat, NEW end \in Nat, pc' = "stream", HeaderOK',
             stream' = [size |-> size, next |-> next, end |-> end, inflight |-> None],
             next = First, next <= end, end <= Past,
             size = scene.size => end = Past
      PROVE  ServeInv'
  <2>1. stream' \in BlobStream /\ stream'.size = size /\ stream'.next = next
        /\ stream'.end = end /\ stream'.inflight = None
    BY <1>o, <1>z DEF BlobStream
  <2>2. stream' # None
    BY <2>1, NoneAssumption
  <2>3. StreamOK'
    BY <1>f, <1>w, <1>o, <2>1 DEF StreamOK
  <2>4. BodyOK'
    BY <1>b, <1>w, <1>o, <2>1 DEF BodyOK
  <2>5. next - First = 0
    BY <1>o, <1>w
  <2>6. LiveOK'
    BY <1>0, <1>b, <1>f, <1>w, <2>1, <2>5 DEF LiveOK
  <2>7. disk' \in [linked : BOOLEAN, len : 0..scene'.size] /\ scene' \in Scenes
    BY <1>f DEF ServeInv
  <2>. QED  BY <1>o, <1>w, <2>2, <2>3, <2>4, <2>6, <2>7 DEF ServeInv, Opened
<1>1. CASE pc' = "done" /\ stream' = stream /\ \E n \in {404, 500} : reply' = Status(n)
  <2>1. reply'.status \in {404, 500}
    BY <1>1 DEF Status
  <2>. QED  BY <1>0, <1>f, <1>1, <2>1, AnswersUnopened
<1>2. CASE /\ window = None
           /\ stream' = stream_from(size, 0, size)
           /\ reply' = [Status(200) EXCEPT !.length = size]
           /\ pc' = "stream"
  <2>1. 0 + size = size
    BY <1>z
  <2>2. stream' = [size |-> size, next |-> 0, end |-> size, inflight |-> None]
    BY <1>2, <2>1 DEF stream_from
  <2>3. First = 0 /\ Past = scene.size
    BY <1>2 DEF First, Past
  <2>4. reply'.status = 200 /\ reply'.length = size /\ stream'.size = size
    BY <1>2, <2>2 DEF Status
  <2>5. HeaderOK'
    BY <1>2, <1>f, <2>4 DEF HeaderOK
  <2>. QED  BY <1>2, <1>z, <1>o, <2>2, <2>3, <2>5
<1>3. CASE /\ window # None /\ resolve(window, size) # None
           /\ stream' = stream_from(size, resolve(window, size).start,
                          resolve(window, size).end - resolve(window, size).start + 1)
           /\ reply' = [Status(206) EXCEPT !.length = window.end - window.start + 1,
                                           !.first = window.start, !.last = window.end]
           /\ pc' = "stream"
  <2>1. /\ window \in Window /\ window.start \in Nat /\ window.end \in Nat
        /\ window.start <= window.end /\ window.end < scene.size
    BY <1>0, <1>3 DEF WindowOK, Window
  <2>2. /\ ~(window.start > window.end \/ window.start >= size)
        /\ resolve(window, size) = [window EXCEPT !.end = Cap(window.end, size - 1)]
    BY <1>3 DEF resolve
  <2>3. PICK e : e = Cap(window.end, size - 1)
    OBVIOUS
  <2>4. /\ e \in Nat /\ window.start <= e /\ e <= window.end
        /\ size = scene.size => e = window.end
    BY <1>z, <2>1, <2>2, <2>3 DEF Cap
  <2>5. resolve(window, size).start = window.start /\ resolve(window, size).end = e
    BY <2>1, <2>2, <2>3 DEF Window
  <2>6. window.start + (e - window.start + 1) = e + 1
    BY <2>1, <2>4
  <2>7. stream' = [size |-> size, next |-> window.start, end |-> e + 1, inflight |-> None]
    BY <1>3, <2>5, <2>6 DEF stream_from
  <2>8. First = window.start /\ Past = window.end + 1
    BY <1>3 DEF First, Past
  <2>9. /\ reply'.status = 206 /\ reply'.length = window.end - window.start + 1
        /\ reply'.first = window.start /\ reply'.last = window.end
    BY <1>3 DEF Status
  <2>10. HeaderOK'
    BY <1>3, <1>f, <2>9 DEF HeaderOK
  <2>11. e + 1 \in Nat /\ window.start <= e + 1 /\ e + 1 <= window.end + 1
    BY <2>1, <2>4
  <2>. QED  BY <1>3, <1>o, <2>1, <2>4, <2>7, <2>8, <2>10, <2>11
<1>. QED  BY <1>s, <1>1, <1>2, <1>3

\* What a step of a running stream finds.
LEMMA Running ==
    ASSUME ServeInv, pc = "stream"
    PROVE  /\ Opened /\ LiveOK /\ stream \in BlobStream
           /\ First \in Nat /\ Past \in Nat
           /\ stream.size \in Nat /\ stream.next \in Nat /\ stream.end \in Nat
           /\ stream.inflight # None => /\ stream.inflight \in ReadTask
                                        /\ stream.inflight.from \in Nat
                                        /\ stream.inflight.len \in Nat
<1>1. Opened /\ LiveOK /\ stream \in BlobStream /\ scene \in Scenes /\ WindowOK
  BY DEF ServeInv, Opened, StreamOK
<1>2. First \in Nat /\ Past \in Nat
  BY <1>1, WindowBounds
<1>3. /\ stream.size \in Nat /\ stream.next \in Nat /\ stream.end \in Nat
      /\ stream.inflight # None => stream.inflight \in ReadTask
  BY <1>1 DEF BlobStream
<1>4. stream.inflight # None => stream.inflight.from \in Nat /\ stream.inflight.len \in Nat
  BY <1>3 DEF ReadTask
<1>. QED  BY <1>1, <1>2, <1>3, <1>4

\* A step that leaves the stream well formed and the body within it is a step
\* of an open download.
LEMMA StaysOpen ==
    ASSUME ServeInv, pc = "stream",
           scene' = scene, window' = window, reply' = reply, disk' = disk,
           StreamOK', stream'.size = stream.size, BodyOK',
           \/ pc' = "stream" /\ LiveOK'
           \/ pc' = "done" /\ (~failed' => sent' = Bytes(First, stream'.end - First))
    PROVE  ServeInv'
<1>1. Opened
  BY DEF ServeInv
<1>2. First' = First /\ WindowOK' /\ HeaderOK'
  BY <1>1, SameWindow DEF Opened
<1>3. stream' # None
  BY NoneAssumption DEF StreamOK
<1>4. Opened'
  BY <1>2, <1>3 DEF Opened
<1>5. disk' \in [linked : BOOLEAN, len : 0..scene'.size] /\ scene' \in Scenes
  BY DEF ServeInv
<1>. QED  BY <1>2, <1>4, <1>5 DEF ServeInv

\* A read that returns changes only what it got.
LEMMA ReadServe ==
    ASSUME ServeInv, ReadReturns PROVE ServeInv'
<1>0. pc = "stream" /\ stream.inflight # None
  BY DEF ReadReturns
<1>1. PICK got \in {"bytes", "error"} : Streaming([stream EXCEPT !.inflight.got = got])
  BY DEF ReadReturns
<1>f. /\ scene' = scene /\ window' = window /\ reply' = reply /\ disk' = disk
      /\ pc' = pc /\ sent' = sent /\ failed' = failed
  BY <1>1 DEF ReadReturns, Streaming
<1>r. /\ Opened /\ LiveOK /\ stream \in BlobStream /\ First \in Nat /\ Past \in Nat
      /\ stream.inflight \in ReadTask
  BY <1>0, Running
<1>. DEFINE task == [stream.inflight EXCEPT !.got = got]
<1>2. stream' = [stream EXCEPT !.inflight = task]
  BY <1>1 DEF Streaming
<1>3. task \in ReadTask /\ task.from = stream.inflight.from /\ task.len = stream.inflight.len
  BY <1>r DEF ReadTask
<1>4. task # None
  BY <1>3, NoneAssumption
<1>. HIDE DEF task
<1>5. /\ stream' \in BlobStream /\ stream'.size = stream.size /\ stream'.next = stream.next
      /\ stream'.end = stream.end /\ stream'.inflight = task
  BY <1>r, <1>2, <1>3 DEF BlobStream
<1>6. First' = First /\ Past' = Past
  BY <1>f, SameWindow
<1>7. StreamOK'
  BY <1>0, <1>f, <1>r, <1>3, <1>5, <1>6 DEF Opened, StreamOK
<1>8. BodyOK'
  BY <1>f, <1>r, <1>5, <1>6 DEF Opened, BodyOK
<1>9. LiveOK'
  BY <1>0, <1>f, <1>r, <1>3, <1>4, <1>5, <1>6 DEF LiveOK
<1>. QED  BY <1>0, <1>f, <1>5, <1>7, <1>8, <1>9, StaysOpen

\* The first poll issues a read, or ends a stream that has nothing left.
LEMMA FirstServe ==
    ASSUME ServeInv, PollFirst PROVE ServeInv'
<1>0. pc = "stream" /\ stream.inflight = None
  BY DEF PollFirst
<1>f. /\ scene' = scene /\ window' = window /\ reply' = reply /\ disk' = disk
      /\ sent' = sent /\ failed' = failed /\ stream' = spawn_next(stream)
      /\ pc' = IF stream'.inflight = None THEN "done" ELSE "stream"
  BY DEF PollFirst, Streaming
<1>r. /\ Opened /\ LiveOK /\ StreamOK /\ stream \in BlobStream /\ First \in Nat /\ Past \in Nat
      /\ stream.next \in Nat /\ stream.end \in Nat
  BY <1>0, Running DEF Opened
<1>1. PICK t : t = spawn_next(stream)
  OBVIOUS
<1>2. /\ t \in BlobStream /\ t.size = stream.size /\ t.end = stream.end
      /\ stream.next <= t.next /\ t.next <= stream.end
      /\ t.inflight = None => t.next = stream.next /\ stream.next = stream.end
      /\ t.inflight # None => /\ t.inflight \in ReadTask
                              /\ t.inflight.from = stream.next
                              /\ t.inflight.from + t.inflight.len = t.next
                              /\ t.inflight.len > 0
  BY <1>0, <1>r, <1>1, SpawnNext DEF StreamOK
<1>t. stream' = t /\ t.next \in Nat
  BY <1>f, <1>1, <1>2 DEF BlobStream
<1>3. First' = First /\ Past' = Past
  BY <1>f, SameWindow
<1>4. StreamOK'
  BY <1>f, <1>r, <1>2, <1>t, <1>3 DEF StreamOK
<1>5. BodyOK'
  BY <1>f, <1>r, <1>2, <1>t, <1>3 DEF Opened, BodyOK
<1>6. CASE t.inflight = None
  <2>1. ~failed => sent = Bytes(First, stream.end - First)
    BY <1>0, <1>r, <1>2, <1>6 DEF LiveOK
  <2>. QED  BY <1>0, <1>f, <1>2, <1>t, <1>4, <1>5, <1>6, <2>1, StaysOpen
<1>7. CASE t.inflight # None
  <2>1. t.inflight.len \in Nat /\ t.inflight.from = stream.next
    BY <1>2, <1>7 DEF ReadTask
  <2>2. stream.next # stream.end
    BY <1>2, <1>7, <1>r, <1>t, <2>1
  <2>3. ~failed /\ sent = Bytes(First, stream.next - First)
    BY <1>0, <1>r, <2>2 DEF LiveOK
  <2>4. LiveOK'
    BY <1>f, <1>r, <1>t, <1>3, <1>7, <2>1, <2>3 DEF LiveOK, StreamOK
  <2>. QED  BY <1>0, <1>f, <1>2, <1>t, <1>4, <1>5, <1>7, <2>4, StaysOpen
<1>. QED  BY <1>6, <1>7

\* A chunk that is handed over continues the body.
LEMMA ChunkServe ==
    ASSUME ServeInv, PollChunk PROVE ServeInv'
<1>. DEFINE task == stream.inflight
            n == task.from - First
<1>0. pc = "stream" /\ task # None
  BY DEF PollChunk
<1>r. /\ Opened /\ LiveOK /\ StreamOK /\ stream \in BlobStream /\ First \in Nat /\ Past \in Nat
      /\ stream.size \in Nat /\ stream.next \in Nat /\ stream.end \in Nat
      /\ task.from \in Nat /\ task.len \in Nat
  BY <1>0, Running DEF Opened
<1>1. /\ sent = Bytes(First, n) /\ First <= task.from /\ ~failed
      /\ task.from + task.len = stream.next
  BY <1>0, <1>r DEF LiveOK, StreamOK
<1>n. n \in Nat /\ First + n = task.from /\ n + task.len = stream.next - First
  BY <1>r, <1>1
<1>2. /\ scene' = scene /\ window' = window /\ reply' = reply /\ disk' = disk
      /\ pc' = pc /\ failed' = failed
      /\ sent' = sent \o [i \in 1..task.len |-> task.from + i - 1]
      /\ stream' = spawn_next([stream EXCEPT !.inflight = None])
  BY DEF PollChunk, Streaming
<1>3. sent' = Bytes(First, stream.next - First)
  <2>. HIDE DEF n, task
  <2>1. sent' = Bytes(First, n) \o Bytes(First + n, task.len)
    BY <1>1, <1>2, <1>n DEF Bytes
  <2>2. Bytes(First, n) \o Bytes(First + n, task.len) = Bytes(First, n + task.len)
    <3>1. n \in Nat /\ First \in Nat /\ task.len \in Nat
      BY <1>n, <1>r
    <3>. QED  BY ONLY <3>1, BytesJoin
  <2>. QED  BY <1>n, <2>1, <2>2
<1>4. PICK s : s = [stream EXCEPT !.inflight = None]
  OBVIOUS
<1>5. /\ s \in BlobStream /\ s.inflight = None /\ s.size = stream.size
      /\ s.next = stream.next /\ s.end = stream.end
  BY <1>r, <1>4 DEF BlobStream
<1>6. PICK t : t = spawn_next(s)
  OBVIOUS
<1>7. /\ t \in BlobStream /\ t.size = stream.size /\ t.end = stream.end
      /\ stream.next <= t.next /\ t.next <= stream.end
      /\ t.inflight = None => t.next = stream.next
      /\ t.inflight # None => /\ t.inflight \in ReadTask
                              /\ t.inflight.from = stream.next
                              /\ t.inflight.from + t.inflight.len = t.next
                              /\ t.inflight.len > 0
  BY <1>r, <1>5, <1>6, SpawnNext DEF StreamOK
<1>t. stream' = t /\ t.next \in Nat
  BY <1>2, <1>4, <1>6, <1>7 DEF BlobStream
<1>8. First' = First /\ Past' = Past
  BY <1>2, SameWindow
<1>9. StreamOK'
  BY <1>2, <1>r, <1>7, <1>t, <1>8 DEF StreamOK
<1>10. stream.next - First \in Nat /\ First + (stream.next - First) <= stream.end
  BY <1>r DEF StreamOK
<1>11. BodyOK'
  BY <1>3, <1>7, <1>t, <1>8, <1>10 DEF BodyOK
<1>12. LiveOK'
  <2>. HIDE DEF n, task
  <2>. QED  BY <1>1, <1>2, <1>3, <1>7, <1>r, <1>t, <1>8 DEF LiveOK, StreamOK
<1>. QED  BY <1>0, <1>2, <1>7, <1>t, <1>9, <1>11, <1>12, StaysOpen

\* After a failed read nothing is issued any more.
LEMMA ErrorServe ==
    ASSUME ServeInv, PollError PROVE ServeInv'
<1>0. pc = "stream"
  BY DEF PollError
<1>r. /\ Opened /\ LiveOK /\ StreamOK /\ BodyOK /\ stream \in BlobStream
      /\ First \in Nat /\ Past \in Nat
      /\ stream.size \in Nat /\ stream.next \in Nat /\ stream.end \in Nat
  BY <1>0, Running DEF Opened
<1>1. /\ scene' = scene /\ window' = window /\ reply' = reply /\ disk' = disk
      /\ pc' = pc /\ failed' = TRUE /\ sent' = sent
      /\ stream' = [stream EXCEPT !.inflight = None, !.next = stream.end]
  BY DEF PollError, Streaming
<1>2. /\ stream' \in BlobStream /\ stream'.inflight = None /\ stream'.size = stream.size
      /\ stream'.next = stream.end /\ stream'.end = stream.end
  BY <1>r, <1>1 DEF BlobStream
<1>3. First' = First /\ Past' = Past
  BY <1>1, SameWindow
<1>4. StreamOK'
  BY <1>1, <1>r, <1>2, <1>3 DEF StreamOK
<1>5. BodyOK'
  BY <1>1, <1>r, <1>2, <1>3 DEF BodyOK
<1>6. LiveOK'
  BY <1>1, <1>2 DEF LiveOK
<1>. QED  BY <1>0, <1>1, <1>2, <1>4, <1>5, <1>6, StaysOpen

\* Losing the connection ends the body where it is, with an error.
LEMMA HangUpServe ==
    ASSUME ServeInv, HangUp PROVE ServeInv'
<1>0. pc = "stream"
  BY DEF HangUp
<1>1. /\ scene' = scene /\ window' = window /\ reply' = reply /\ disk' = disk
      /\ pc' = "done" /\ failed' = TRUE /\ sent' = sent /\ stream' = stream
  BY DEF HangUp, Streaming
<1>2. First' = First /\ Past' = Past
  BY <1>1, SameWindow
<1>3. StreamOK /\ BodyOK
  BY <1>0 DEF ServeInv, Opened
<1>4. StreamOK' /\ BodyOK'
  BY <1>1, <1>2, <1>3 DEF StreamOK, BodyOK
<1>. QED  BY <1>0, <1>1, <1>4, StaysOpen

\* What others do to the blob meanwhile touches only its file and membership.
LEMMA AroundServe ==
    ASSUME ServeInv, Unmember \/ Unlink \/ Truncate \/ UNCHANGED vars
    PROVE  ServeInv'
<1>1. /\ scene' = scene /\ window' = window /\ reply' = reply /\ stream' = stream
      /\ pc' = pc /\ failed' = failed /\ sent' = sent
  BY DEF Unmember, Unlink, Truncate, OnlyTheBlob, vars
<1>2. disk' \in [linked : BOOLEAN, len : 0..scene.size]
  <2>0. /\ disk \in [linked : BOOLEAN, len : 0..scene.size] /\ disk.len \in 0..scene.size
        /\ scene.size \in Nat
    BY SceneAssumption DEF ServeInv
  <2>1. CASE Truncate
    <3>1. PICK n \in 0..disk.len - 1 : disk' = [disk EXCEPT !.len = n]
      BY <2>1 DEF Truncate
    <3>2. n \in 0..scene.size
      BY <2>0, <3>1
    <3>. QED  BY <2>0, <3>1, <3>2
  <2>2. CASE Unlink
    BY <2>0, <2>2 DEF Unlink
  <2>3. CASE disk' = disk
    BY <2>0, <2>3
  <2>. QED  BY <2>1, <2>2, <2>3 DEF Unmember, vars
<1>3. First' = First /\ Past' = Past /\ Wanted' = Wanted /\ (WindowOK' <=> WindowOK)
      /\ (HeaderOK => HeaderOK')
  BY <1>1, SameWindow
<1>4. StreamOK => StreamOK'
  BY <1>1, <1>3 DEF StreamOK
<1>5. BodyOK => BodyOK'
  BY <1>1, <1>3 DEF BodyOK
<1>6. LiveOK => LiveOK'
  BY <1>1, <1>3 DEF LiveOK
<1>7. Unopened => Unopened'
  BY <1>1, <1>3 DEF Unopened
<1>8. Opened => Opened'
  BY <1>1, <1>3, <1>4, <1>5 DEF Opened
<1>9. Unanswered' = Unanswered
  BY DEF Unanswered, Status
<1>. QED  BY <1>1, <1>2, <1>3, <1>6, <1>7, <1>8, <1>9 DEF ServeInv

\* Every step keeps the download right.
LEMMA ServeStep ==
    ASSUME ServeInv, [Next]_vars PROVE ServeInv'
<1>1. Finished => UNCHANGED vars
  BY DEF Finished
<1>. QED
  BY <1>1, [Next]_vars, BeforeServe, StatServe, RecheckServe, OpenServe, ReadServe, FirstServe,
     ChunkServe, ErrorServe, HangUpServe, AroundServe DEF Next, Download

\* The invariant says what was promised.
LEMMA ServeExact ==
    ASSUME ServeInv PROVE ServedExact
<1>. DEFINE lowest == CHOOSE i \in Wanted : \A j \in Wanted : i <= j
            highest == CHOOSE i \in Wanted : \A j \in Wanted : j <= i
<1>1. CASE Unopened
  <2>1. DOMAIN sent = {}
    BY <1>1 DEF Unopened
  <2>. QED  BY <1>1, <2>1 DEF Unopened, ServedExact
<1>2. CASE Opened
  <2>w. WindowOK /\ HeaderOK /\ StreamOK /\ BodyOK /\ stream # None /\ scene \in Scenes
    BY <1>2 DEF Opened, ServeInv
  <2>b. First \in Nat /\ Past \in Nat /\ First <= Past /\ Wanted = First..Past - 1
    BY <2>w, WindowBounds DEF WindowOK
  <2>s. /\ stream.end \in Nat /\ stream.end <= Past /\ First <= stream.end
        /\ stream.size = scene.size => stream.end = Past
    BY <2>w, <2>b DEF StreamOK, BlobStream
  <2>c. Cardinality(Wanted) = Past - First
    <3>1. PICK last \in Int : last = Past - 1
      BY <2>b
    <3>2. Cardinality(First..last) = IF First > last THEN 0 ELSE last - First + 1
      BY <2>b, FS_Interval
    <3>. QED  BY <2>b, <3>1, <3>2
  <2>e. First < Past => lowest = First /\ highest = Past - 1
    <3>. SUFFICES ASSUME First < Past PROVE lowest = First /\ highest = Past - 1
      OBVIOUS
    <3>1. First \in Int /\ Past - 1 \in Int /\ First <= Past - 1
      BY <2>b
    <3>2. /\ (CHOOSE i \in First..Past - 1 : \A j \in First..Past - 1 : i <= j) = First
          /\ (CHOOSE i \in First..Past - 1 : \A j \in First..Past - 1 : j <= i) = Past - 1
      BY <3>1, Ends
    <3>. QED  BY <2>b, <3>2
  <2>n. Wanted # {} <=> First < Past
    BY <2>b
  <2>. HIDE DEF lowest, highest
  <2>1. \A i \in DOMAIN sent : sent[i] \in Wanted /\ sent[i] = lowest + i - 1
    <3>1. PICK n \in Nat : sent = Bytes(First, n) /\ First + n <= stream.end
      BY <2>w DEF BodyOK
    <3>. SUFFICES ASSUME NEW i \in DOMAIN sent
                  PROVE  sent[i] \in Wanted /\ sent[i] = lowest + i - 1
      OBVIOUS
    <3>2. i \in 1..n /\ sent[i] = First + i - 1
      BY <3>1 DEF Bytes
    <3>3. First < Past /\ First + i - 1 \in First..Past - 1
      BY <2>b, <2>s, <3>1, <3>2
    <3>. QED  BY <2>b, <2>e, <3>2, <3>3
  <2>2. (pc = "done" /\ Intact /\ ~failed) => Len(sent) = Cardinality(Wanted)
    <3>. SUFFICES ASSUME pc = "done", Intact, ~failed PROVE Len(sent) = Past - First
      BY <2>c
    <3>1. stream.size = scene.size
      BY <2>w DEF Intact
    <3>2. sent = Bytes(First, stream.end - First)
      BY <2>w DEF ServeInv, Unopened
    <3>3. stream.end - First = Past - First /\ Past - First \in Nat
      BY <2>b, <2>s, <3>1
    <3>. QED  BY <2>b, <3>2, <3>3, BytesJoin
  <2>3. Intact => reply.length = Cardinality(Wanted)
    <3>1. CASE window = None
      <4>1. First = 0 /\ Past = scene.size /\ reply.length = stream.size
        BY <2>w, <3>1 DEF First, Past, HeaderOK
      <4>2. Past - First = scene.size
        BY <2>b, <4>1
      <4>. QED  BY <2>c, <2>w, <4>1, <4>2 DEF Intact
    <3>2. CASE window # None
      <4>1. First = window.start /\ Past = window.end + 1
            /\ reply.length = window.end - window.start + 1
        BY <2>w, <3>2 DEF First, Past, HeaderOK
      <4>2. window.start \in Nat /\ window.end \in Nat
        BY <2>w, <3>2 DEF WindowOK, Window
      <4>3. Past - First = window.end - window.start + 1
        BY <4>1, <4>2
      <4>. QED  BY <2>c, <4>1, <4>3
    <3>. QED  BY <3>1, <3>2
  <2>4. (reply.status = 206 /\ Wanted # {}) => reply.first = lowest /\ reply.last = highest
    <3>. SUFFICES ASSUME reply.status = 206, Wanted # {}
                  PROVE  reply.first = lowest /\ reply.last = highest
      OBVIOUS
    <3>1. window # None
      BY <2>w DEF HeaderOK
    <3>2. window.start \in Nat /\ window.end \in Nat
      BY <2>w, <3>1 DEF WindowOK, Window
    <3>3. First = window.start /\ Past - 1 = window.end
      BY <3>1, <3>2 DEF First, Past
    <3>. QED  BY <2>w, <2>e, <2>n, <3>1, <3>3 DEF HeaderOK
  <2>5. reply.status = 206 <=> WellFormed(scene.range) /\ Wanted # {}
    <3>1. CASE window = None
      BY <2>w, <3>1 DEF WindowOK, HeaderOK
    <3>2. CASE window # None
      <4>1. window.start \in Nat /\ window.end \in Nat /\ window.start <= window.end
            /\ First = window.start /\ Past = window.end + 1
        BY <2>w, <3>2 DEF WindowOK, Window, First, Past
      <4>2. First < Past
        BY <4>1
      <4>. QED  BY <2>w, <2>n, <3>2, <4>2 DEF WindowOK, HeaderOK
    <3>. QED  BY <3>1, <3>2
  <2>6. reply.status # 416
    BY <2>w DEF HeaderOK
  <2>. QED  BY <2>1, <2>2, <2>3, <2>4, <2>5, <2>6 DEF ServedExact, lowest, highest
<1>. QED  BY <1>1, <1>2 DEF ServeInv

\* A download delivers the bytes that were asked for, as a prefix at every
\* moment and all of them when it ends without an error, under headers that
\* announce them, for blobs, ranges and chunks of any size and whatever is
\* deleted, unlinked, truncated or fails meanwhile (range.rs, read.rs).
THEOREM ServedSafe == Spec => []ServedExact
<1>1. Init => ServeInv
  <2>. SUFFICES ASSUME Init PROVE ServeInv
    OBVIOUS
  <2>1. scene \in Scenes /\ scene.size \in Nat
    BY SceneAssumption DEF Init
  <2>2. disk \in [linked : BOOLEAN, len : 0..scene.size]
    BY <2>1 DEF Init
  <2>3. reply.status # 206 /\ reply.status # 416
    BY NoneAssumption DEF Init, Unanswered, Status
  <2>4. Unopened
    BY <2>3 DEF Init, Unopened
  <2>. QED  BY <2>1, <2>2, <2>4 DEF Init, ServeInv
<1>2. ServeInv /\ [Next]_vars => ServeInv'
  BY ServeStep
<1>3. ServeInv => ServedExact
  BY ServeExact
<1>. QED  BY <1>1, <1>2, <1>3, PTL DEF Spec
=============================================================================
