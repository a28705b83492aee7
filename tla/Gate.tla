-------------------------------- MODULE Gate --------------------------------
(***************************************************************************)
(* Who may do what: the policies of summ-server/src/auth.rs, how            *)
(* config.rs builds one from the command line, and the decision the         *)
(* authentication layer takes before anything is routed or read.  A key is   *)
(* a sequence of bytes.                                                      *)
(***************************************************************************)
EXTENDS Integers, Sequences

CONSTANTS
    None,     \* an absent key, header or credential
    Minted    \* the keys ApiKey::generate makes up: [read |-> key, write |-> key]

Reading == {"GET", "HEAD", "OPTIONS"}
Writing == {"PUT", "POST", "PATCH", "DELETE", "TRACE"}
Methods == Reading \cup Writing

\* Access::of: an unknown method counts as a write.
Access(method) == IF method \in Reading THEN "read" ELSE "write"

-----------------------------------------------------------------------------
(* The command line                                                         *)

Space == 32
Blank(key) == key # None /\ \A i \in DOMAIN key : key[i] = Space
Given(key, role) == IF key = None THEN Minted[role] ELSE key

\* The policies a command line yields: at most one, none when it is refused.
Policies(mode, read, write) ==
    CASE mode = "open" ->
           {[mode |-> "open", read |-> None, write |-> None] : k \in {None} \cap {read} \cap {write}}
      [] mode = "public-pull" ->
           {[mode |-> mode, read |-> None, write |-> Given(k, "write")] :
               k \in {k \in {write} : read = None /\ ~Blank(k)}}
      [] mode = "private" ->
           {[mode |-> mode, read |-> Given(k, "read"), write |-> Given(write, "write")] :
               k \in {k \in {read} : ~Blank(k) /\ ~Blank(write)}}

is_enabled(policy) == policy.mode # "open"

-----------------------------------------------------------------------------
(* One request                                                              *)

At(s, i) == s[(i % Len(s)) + 1]
Longer(s, t) == IF Len(s) < Len(t) THEN Len(t) ELSE Len(s)
SameBytes(s, t) == \A i \in 0..Longer(s, t) - 1 : At(s, i) = At(t, i)

\* A broken variant: the length difference is narrowed until it can vanish.
matches_narrow(key, presented) ==
    /\ key # <<>> /\ presented # <<>>
    /\ (Len(key) - Len(presented)) % 2 = 0
    /\ SameBytes(key, presented)

\* ApiKey::matches: both are read modulo their length, to the end of the
\* longer, and the difference of the lengths counts in full.
matches(key, presented) ==
    /\ key # <<>> /\ presented # <<>>
    /\ Len(key) = Len(presented)
    /\ SameBytes(key, presented)

\* The credential in an Authorization header.  `decodes` says whether a Basic
\* value is base64 of UTF-8 text with a colon in it, `user` and `password` are
\* what stands on its two sides, and `user` is a Bearer value.
credential(h) ==
    CASE h.scheme = "bearer" -> IF h.user = <<>> THEN None ELSE h.user
      [] h.scheme = "basic" /\ h.decodes ->
           LET key == IF h.password = <<>> THEN h.user ELSE h.password
           IN  IF key = <<>> THEN None ELSE key
      [] OTHER -> None

\* AuthPolicy::authorize: "ok", or why not.
authorize(policy, method, header) ==
    IF policy.mode = "open" THEN "ok"
    ELSE IF header = None THEN
        IF Access(method) = "read" /\ policy.read = None THEN "ok" ELSE "Missing"
    ELSE LET presented == credential(header)
         IN  IF presented = None THEN "Malformed"
             ELSE IF matches(policy.write, presented) THEN "ok"
             ELSE IF policy.read # None /\ matches(policy.read, presented)
                  THEN IF Access(method) = "read" THEN "ok" ELSE "Insufficient"
             ELSE "Invalid"

\* AuthError::into_api_error: the status, and whether a challenge goes with it.
Refusal(verdict) ==
    IF verdict = "Insufficient" THEN [status |-> 403, challenge |-> FALSE]
    ELSE [status |-> 401, challenge |-> TRUE]
=============================================================================
