----------------------------- MODULE VaultProofs -----------------------------
(***************************************************************************)
(* Proofs about Vault, for any administrators' calls, readers and values:  *)
(* a row becomes unreadable, or loses a rotation, only through writes that *)
(* overlap; an exchange sends a secret that belonged to its client; a      *)
(* revoked service token stays revoked.                                    *)
(*                                                                         *)
(* What makes it inductive is what a call that is still to write knows:    *)
(* the row it loaded is the row there is, or another write of the variable *)
(* has committed since it read (ReadsAreFresh); and the plaintext a PATCH  *)
(* writes back is the last rotation's, with the same exception             *)
(* (TogglesAreFresh).                                                      *)
(***************************************************************************)
EXTENDS Vault, FiniteSetTheorems, TLAPS

Row == ProductEnvVar \cup {None}
SetReq == [op: {"set"}, key: Key, value: Value, secret: BOOLEAN, toggles: BOOLEAN]
DeleteReq == [op: {"delete"}, key: Key]

PlainReader == [pc: {"idle", "refused", "failed"}]
UsingReader == [pc: {"use", "list"}, scope: Scope, loaded: ServiceToken \cup {None}]
FindingReader == [pc: {"find"}, id: Value, rows: [Key -> Row]]
FoundReader == [pc: {"found"}, id: Value, rows: [Key -> Row], kept: BOOLEAN]
EnvReader == [pc: {"ended"}, env: UNION {[K -> Value] : K \in SUBSET Key}]
GoogleReader == [pc: {"sent", "ended", "unauthorized", "unavailable"}, id: Value, secret: Value,
                 kept: BOOLEAN]
AnyReader ==
    PlainReader \cup UsingReader \cup FindingReader \cup FoundReader \cup EnvReader \cup GoogleReader

CallPc == {"idle", "again", "write", "ended", "left"}
Writing(c) == pc[c] \in {"again", "write"}
CallsTyped ==
    /\ pc \in [Call -> CallPc]
    /\ readAt \in [Call -> Nat] /\ wroteAt \in [Call -> Nat]
    /\ req \in [Call -> SetReq \cup DeleteReq \cup {None}]
    /\ got \in [Call -> Row]
    /\ \A c \in Call :
        /\ Writing(c) \/ wroteAt[c] > 0 => req[c] \in SetReq \cup DeleteReq
        /\ wroteAt[c] > 0 => pc[c] = "ended"
Typed ==
    /\ env \in [Key -> Row]
    /\ token \in ServiceToken \cup {None}
    /\ pairs \subseteq Value \X Value
    /\ reader \in [Reader -> AnyReader]

\* Commits are counted.
Counted ==
    /\ IsFiniteSet(Committed)
    /\ \A c \in Call : readAt[c] <= Cardinality(Committed) /\ wroteAt[c] <= Cardinality(Committed)

SetSince(k, c) == \E d \in Sets(k) : wroteAt[d] > readAt[c]
Overlapped(k, c) == \E d \in Sets(k) \ {c} : Overlap(c, d)
LastRotation(k, c) == ~Toggles(c) /\ \A d \in Sets(k) : Toggles(d) \/ wroteAt[d] <= wroteAt[c]
Setting(c, k) == Writing(c) /\ req[c].op = "set" /\ req[c].key = k

ReadsAreFresh ==
    \A c \in Call, k \in Key : Setting(c, k) /\ got[c] # None =>
        env[k] = None \/ env[k] = got[c] \/ SetSince(k, c)
TogglesAreFresh ==
    \A d \in Call, k \in Key : Setting(d, k) /\ Toggles(d) =>
        \A c \in Sets(k) : LastRotation(k, c) =>
            req[d].value = req[c].value \/ Overlapped(k, c) \/ wroteAt[c] > readAt[d]
Unreadable == \A k \in Key : env[k] # None /\ ~Readable(env[k]) => OverlappedIn(Sets(k))
FailedReaders == \A r \in Reader : reader[r].pc = "failed" => \E k \in Key : OverlappedIn(Sets(k))
Rotated ==
    \A k \in Key : env[k] # None =>
        \A c \in Sets(k) : LastRotation(k, c) => env[k].value = req[c].value \/ Overlapped(k, c)

\* What was found is a row that was listed: the id it has is the listed one's.
FoundKept(v) ==
    /\ Pair(v.rows) \subseteq pairs
    /\ v.kept => v.rows[IdKey] # None /\ v.rows[IdKey].value = v.id
HeldTogether ==
    /\ Pair(env) \subseteq pairs
    /\ \A r \in Reader :
        /\ reader[r] \in FindingReader => Pair(reader[r].rows) \subseteq pairs
        /\ reader[r] \in FoundReader => FoundKept(reader[r])
        /\ reader[r] \in GoogleReader /\ reader[r].kept => <<reader[r].id, reader[r].secret>> \in pairs

IInv ==
    /\ CallsTyped /\ Typed /\ Counted
    /\ ReadsAreFresh /\ TogglesAreFresh /\ Unreadable /\ FailedReaders /\ Rotated
    /\ HeldTogether

-----------------------------------------------------------------------------
\* Before any call nothing has been set, and the rows can be read.
LEMMA InitIInv == Init => IInv
<1> SUFFICES ASSUME Init PROVE IInv
    OBVIOUS
<1>1. CallsTyped
    BY DEF Init, CallsTyped, CallPc, Writing, Row
<1>2. Committed = {} /\ \A k \in Key : Sets(k) = {}
    BY DEF Init, Committed, Sets
<1>3. Counted
    BY <1>2, FS_EmptySet DEF Init, Counted
<1>4. Typed
    <2>1. env \in [Key -> Row] /\ Pair(env) \subseteq Value \X Value
        BY DEF Init, Row, Pair, ProductEnvVar, Key
    <2>2. token \in ServiceToken \cup {None}
        BY DEF Init, ServiceToken, Scope
    <2>3. reader \in [Reader -> AnyReader]
        BY DEF Init, AnyReader, PlainReader
    <2> QED BY <2>1, <2>2, <2>3 DEF Init, Typed
<1>5. ReadsAreFresh /\ TogglesAreFresh /\ Rotated
    BY <1>2 DEF Init, ReadsAreFresh, TogglesAreFresh, Rotated, Setting
<1>6. Unreadable /\ FailedReaders
    BY DEF Init, Unreadable, FailedReaders
<1>7. HeldTogether
    BY DEF Init, HeldTogether, FindingReader, FoundReader, GoogleReader
<1> QED BY <1>1, <1>3, <1>4, <1>5, <1>6, <1>7 DEF IInv

-----------------------------------------------------------------------------
(* Steps that commit nothing leave what the commits say as it was.         *)

LEMMA CommitsStay ==
    ASSUME IInv, wroteAt' = wroteAt,
           \A c \in Committed : req'[c] = req[c] /\ readAt'[c] = readAt[c]
    PROVE  /\ Committed' = Committed /\ \A k \in Key : Sets(k)' = Sets(k)
           /\ \A c \in Committed, d \in Committed : Overlap(c, d)' <=> Overlap(c, d)
           /\ \A k \in Key : OverlappedIn(Sets(k))' <=> OverlappedIn(Sets(k))
           /\ \A k \in Key : \A c \in Sets(k) :
                (LastRotation(k, c)' <=> LastRotation(k, c)) /\ (Overlapped(k, c)' <=> Overlapped(k, c))
<1>1. Committed' = Committed
    BY DEF Committed
<1>2. \A k \in Key : Sets(k)' = Sets(k)
    BY <1>1 DEF Sets
<1>3. \A c \in Committed, d \in Committed : Overlap(c, d)' <=> Overlap(c, d)
    BY DEF Overlap
<1>4. \A k \in Key : Sets(k) \subseteq Committed
    BY DEF Sets
<1>5. \A k \in Key : OverlappedIn(Sets(k))' <=> OverlappedIn(Sets(k))
    BY <1>2, <1>3, <1>4 DEF OverlappedIn
<1>6. ASSUME NEW k \in Key, NEW c \in Sets(k)
      PROVE (LastRotation(k, c)' <=> LastRotation(k, c)) /\ (Overlapped(k, c)' <=> Overlapped(k, c))
    BY <1>2, <1>3, <1>4, <1>6 DEF LastRotation, Overlapped, Toggles
<1> QED BY <1>1, <1>2, <1>3, <1>5, <1>6

\* A call that begins knows the row there is, and what it was last rotated to.
LEMMA GoesKeeps ==
    ASSUME IInv, NEW c \in Call, NEW k \in Key, NEW r \in SetReq \cup DeleteReq, r.key = k,
           r.op = "set" /\ r.toggles => env[k] # None /\ r.value = env[k].value,
           NEW p \in {"again", "write"}, Goes(c, p, r, env[k])
    PROVE  IInv'
<1> USE DEF IInv
<1>1. /\ pc[c] = "idle" /\ pc' = [pc EXCEPT ![c] = p]
      /\ req' = [req EXCEPT ![c] = r] /\ got' = [got EXCEPT ![c] = env[k]]
      /\ readAt' = [readAt EXCEPT ![c] = Cardinality(Committed)]
      /\ UNCHANGED <<env, token, pairs, wroteAt, reader>>
    BY DEF Goes, tables
<1>2. c \notin Committed
    BY <1>1 DEF CallsTyped, Committed
<1>3. CallsTyped'
    <2>1. Cardinality(Committed) \in Nat
        BY FS_CardinalityType DEF Counted
    <2> QED BY <1>1, <1>2, <2>1 DEF CallsTyped, CallPc, Writing, Typed, Committed
<1>4. /\ Committed' = Committed /\ \A x \in Key : Sets(x)' = Sets(x)
      /\ \A x \in Key : OverlappedIn(Sets(x))' <=> OverlappedIn(Sets(x))
      /\ \A x \in Key : \A y \in Sets(x) :
           (LastRotation(x, y)' <=> LastRotation(x, y)) /\ (Overlapped(x, y)' <=> Overlapped(x, y))
    <2>1. \A y \in Committed : req'[y] = req[y] /\ readAt'[y] = readAt[y]
        BY <1>1, <1>2 DEF CallsTyped, Committed
    <2> QED BY <1>1, <2>1, CommitsStay
<1>5. Typed' /\ HeldTogether' /\ Unreadable' /\ FailedReaders' /\ Rotated'
    <2>1. Typed' /\ HeldTogether'
        BY <1>1 DEF Typed, HeldTogether, FoundKept, Pair
    <2>2. Unreadable' /\ FailedReaders'
        BY <1>1, <1>4 DEF Unreadable, FailedReaders, Readable
    <2>3. \A x \in Key : \A y \in Sets(x) : req'[y] = req[y]
        BY <1>1, <1>2 DEF Sets, Committed, CallsTyped
    <2>4. Rotated'
        BY <1>1, <1>4, <2>3 DEF Rotated
    <2> QED BY <2>1, <2>2, <2>4
<1>6. Counted'
    <2>1. Cardinality(Committed) \in Nat
        BY FS_CardinalityType DEF Counted
    <2> QED BY <1>1, <1>4, <2>1 DEF Counted, CallsTyped
<1>7. \A d \in Call \ {c} : pc'[d] = pc[d] /\ req'[d] = req[d] /\ got'[d] = got[d] /\ readAt'[d] = readAt[d]
    BY <1>1 DEF CallsTyped
<1>8. pc'[c] = p /\ req'[c] = r /\ got'[c] = env[k]
    BY <1>1 DEF CallsTyped
<1>9. ReadsAreFresh'
    <2> SUFFICES ASSUME NEW d \in Call, NEW x \in Key, Setting(d, x)', got'[d] # None
                 PROVE  env[x] = None \/ env[x] = got'[d] \/ SetSince(x, d)'
        BY <1>1 DEF ReadsAreFresh
    <2>1. CASE d = c
        BY <1>8, <2>1 DEF Setting
    <2>2. CASE d # c
        BY <1>1, <1>4, <1>7, <2>2 DEF Setting, Writing, SetSince, ReadsAreFresh
    <2> QED BY <2>1, <2>2
<1>10. TogglesAreFresh'
    <2> SUFFICES ASSUME NEW d \in Call, NEW x \in Key, Setting(d, x)', Toggles(d)',
                        NEW y \in Sets(x), LastRotation(x, y)
                 PROVE  req'[d].value = req'[y].value \/ Overlapped(x, y) \/ wroteAt[y] > readAt'[d]
        BY <1>1, <1>4 DEF TogglesAreFresh
    <2>1. y # c /\ req'[y] = req[y]
        BY <1>2, <1>7 DEF Sets, Committed
    <2>2. CASE d = c
        <3>1. r.op = "set" /\ r.toggles /\ k = x
            BY <1>8, <2>2 DEF Setting, Toggles
        <3>2. env[x] # None /\ r.value = env[x].value
            BY <3>1
        <3> QED BY <1>8, <2>1, <2>2, <3>2 DEF Rotated
    <2>3. CASE d # c
        BY <1>7, <2>1, <2>3 DEF Setting, Writing, Toggles, TogglesAreFresh
    <2> QED BY <2>2, <2>3
<1> QED BY <1>3, <1>5, <1>6, <1>9, <1>10

LEMMA LeavesKeeps ==
    ASSUME IInv, NEW c \in Call, pc[c] \in {"idle", "again", "write"}, Leaves(c) PROVE IInv'
<1> USE DEF IInv
<1>1. /\ pc' = [pc EXCEPT ![c] = "left"]
      /\ req' = [req EXCEPT ![c] = None] /\ got' = [got EXCEPT ![c] = None]
      /\ readAt' = [readAt EXCEPT ![c] = 0]
      /\ UNCHANGED <<env, token, pairs, wroteAt, reader>>
    BY DEF Leaves, tables
<1>2. c \notin Committed
    BY DEF CallsTyped, Committed
<1>3. CallsTyped'
    BY <1>1, <1>2 DEF CallsTyped, CallPc, Writing, Typed, Row, Committed
<1>4. \A y \in Committed : req'[y] = req[y] /\ readAt'[y] = readAt[y]
    BY <1>1, <1>2 DEF CallsTyped, Committed
<1>5. /\ Committed' = Committed /\ \A x \in Key : Sets(x)' = Sets(x)
      /\ \A x \in Key : OverlappedIn(Sets(x))' <=> OverlappedIn(Sets(x))
      /\ \A x \in Key : \A y \in Sets(x) :
           (LastRotation(x, y)' <=> LastRotation(x, y)) /\ (Overlapped(x, y)' <=> Overlapped(x, y))
    BY <1>1, <1>4, CommitsStay
<1>6. Typed' /\ HeldTogether'
    BY <1>1 DEF Typed, HeldTogether, FoundKept, Pair
<1>7. Unreadable' /\ FailedReaders'
    BY <1>1, <1>5 DEF Unreadable, FailedReaders, Readable
<1>8. \A x \in Key : \A y \in Sets(x) : req'[y] = req[y]
    BY <1>4 DEF Sets
<1>9. Rotated'
    BY <1>1, <1>5, <1>8 DEF Rotated
<1>10. Counted'
    <2>1. Cardinality(Committed) \in Nat
        BY FS_CardinalityType DEF Counted
    <2> QED BY <1>1, <1>5, <2>1 DEF Counted, CallsTyped
<1>11. \A d \in Call : pc'[d] \in {"again", "write"} =>
          Writing(d) /\ req'[d] = req[d] /\ got'[d] = got[d] /\ readAt'[d] = readAt[d]
    BY <1>1 DEF CallsTyped, Writing
<1>12. ReadsAreFresh'
    BY <1>1, <1>5, <1>11 DEF ReadsAreFresh, Setting, Writing, SetSince
<1>13. TogglesAreFresh'
    BY <1>1, <1>5, <1>8, <1>11 DEF TogglesAreFresh, Setting, Writing, Toggles
<1> QED BY <1>3, <1>6, <1>7, <1>9, <1>10, <1>12, <1>13

\* What a PATCH finds the second time is the row it had, or the row there is.
LEMMA PatchReadAgainKeeps == ASSUME IInv, NEW c \in Call, PatchReadAgain(c) PROVE IInv'
<1> USE DEF IInv
<1>1. /\ pc[c] = "again" /\ pc' = [pc EXCEPT ![c] = "write"]
      /\ got' = [got EXCEPT ![c] = Loads(@, env[req[c].key])]
      /\ UNCHANGED <<env, token, pairs, req, readAt, wroteAt, reader>>
    BY DEF PatchReadAgain, tables
<1>2. req[c] \in SetReq \cup DeleteReq /\ req[c].key \in Key
    BY <1>1 DEF CallsTyped, Writing, SetReq, DeleteReq
<1>3. got'[c] \in {got[c], env[req[c].key]} /\ \A d \in Call \ {c} : got'[d] = got[d]
    BY <1>1 DEF CallsTyped, Loads
<1>4. got' \in [Call -> Row]
    BY <1>1, <1>2, <1>3 DEF CallsTyped, Typed
<1>5. \A d \in Call : /\ pc'[d] \in {"again", "write"} <=> Writing(d)
                      /\ pc'[d] = "ended" <=> pc[d] = "ended"
    BY <1>1 DEF CallsTyped, Writing
<1>6. CallsTyped'
    BY <1>1, <1>2, <1>4, <1>5 DEF CallsTyped, CallPc, Writing
<1>7. /\ Committed' = Committed /\ \A k \in Key : Sets(k)' = Sets(k)
      /\ \A k \in Key : OverlappedIn(Sets(k))' <=> OverlappedIn(Sets(k))
      /\ \A k \in Key : \A d \in Sets(k) :
           (LastRotation(k, d)' <=> LastRotation(k, d)) /\ (Overlapped(k, d)' <=> Overlapped(k, d))
    BY <1>1, CommitsStay
<1>8. Typed' /\ HeldTogether'
    BY <1>1 DEF Typed, HeldTogether, FoundKept, Pair
<1>9. Counted' /\ Unreadable' /\ FailedReaders' /\ Rotated'
    BY <1>1, <1>7 DEF Counted, Unreadable, FailedReaders, Rotated, Readable
<1>10. ReadsAreFresh'
    <2> SUFFICES ASSUME NEW d \in Call, NEW k \in Key, Setting(d, k)', got'[d] # None
                 PROVE  env[k] = None \/ env[k] = got'[d] \/ SetSince(k, d)
        BY <1>1, <1>7 DEF ReadsAreFresh, SetSince
    <2>1. Setting(d, k)
        BY <1>1, <1>5 DEF Setting, Writing
    <2>2. CASE got'[d] = got[d]
        BY <2>1, <2>2 DEF ReadsAreFresh
    <2>3. CASE d = c /\ got'[c] = env[req[c].key]
        BY <2>1, <2>3 DEF Setting
    <2> QED BY <1>3, <2>2, <2>3
<1>11. TogglesAreFresh'
    BY <1>1, <1>5, <1>7 DEF TogglesAreFresh, Setting, Writing, Toggles
<1> QED BY <1>6, <1>8, <1>9, <1>10, <1>11

\* Steps of the token and of its readers touch no call that is still to write.
LEMMA OthersKeep ==
    ASSUME IInv, UNCHANGED <<env, pairs, req, got, readAt, wroteAt>>,
           pc' \in [Call -> CallPc],
           \A d \in Call : (pc'[d] \in {"again", "write"} => Writing(d)) /\ (pc[d] = "ended" => pc'[d] = "ended")
    PROVE  /\ CallsTyped' /\ Counted' /\ ReadsAreFresh' /\ TogglesAreFresh' /\ Unreadable' /\ Rotated'
           /\ \A k \in Key : OverlappedIn(Sets(k))' <=> OverlappedIn(Sets(k))
<1> USE DEF IInv
<1>1. CallsTyped'
    BY DEF CallsTyped, Writing
<1>2. /\ Committed' = Committed /\ \A k \in Key : Sets(k)' = Sets(k)
      /\ \A k \in Key : OverlappedIn(Sets(k))' <=> OverlappedIn(Sets(k))
      /\ \A k \in Key : \A c \in Sets(k) :
           (LastRotation(k, c)' <=> LastRotation(k, c)) /\ (Overlapped(k, c)' <=> Overlapped(k, c))
    BY CommitsStay
<1>3. Counted'
    BY <1>2 DEF Counted
<1>4. ReadsAreFresh' /\ TogglesAreFresh'
    BY <1>2 DEF ReadsAreFresh, TogglesAreFresh, Setting, Writing, SetSince, Toggles
<1>5. Unreadable' /\ Rotated'
    BY <1>2 DEF Unreadable, Rotated, Readable
<1> QED BY <1>1, <1>2, <1>3, <1>4, <1>5

LEMMA TokenKeeps ==
    ASSUME IInv, TokenExpires \/ (\E c \in Call : Revoke(c) \/ \E S \in SUBSET Scope : Issue(c, S))
    PROVE  IInv'
<1> USE DEF IInv
<1>1. UNCHANGED <<env, pairs, req, got, readAt, wroteAt, reader>>
    BY DEF TokenExpires, Revoke, Issue
<1>2. /\ pc' \in [Call -> CallPc]
      /\ \A d \in Call : (pc'[d] \in {"again", "write"} => Writing(d)) /\ (pc[d] = "ended" => pc'[d] = "ended")
    BY DEF TokenExpires, Revoke, Issue, CallsTyped, CallPc, Writing
<1>3. token' \in ServiceToken \cup {None}
    <2>1. ASSUME NEW c \in Call, NEW S \in SUBSET Scope, Issue(c, S) PROVE token' \in ServiceToken
        BY <2>1 DEF Issue, ServiceToken
    <2>2. ASSUME NEW c \in Call, Revoke(c) PROVE token' \in ServiceToken
        BY <2>2 DEF Revoke, Typed, ServiceToken
    <2>3. ASSUME TokenExpires PROVE token' \in ServiceToken
        BY <2>3 DEF TokenExpires, Typed, ServiceToken
    <2> QED BY <2>1, <2>2, <2>3
<1>4. Typed' /\ HeldTogether'
    BY <1>1, <1>3 DEF Typed, HeldTogether, FoundKept, Pair
<1>5. /\ CallsTyped' /\ Counted' /\ ReadsAreFresh' /\ TogglesAreFresh' /\ Unreadable' /\ Rotated'
      /\ \A k \in Key : OverlappedIn(Sets(k))' <=> OverlappedIn(Sets(k))
    BY <1>1, <1>2, OthersKeep
<1>6. FailedReaders'
    BY <1>1, <1>5 DEF FailedReaders
<1> QED BY <1>4, <1>5, <1>6

-----------------------------------------------------------------------------
(* Requests with the token.                                                *)

LEMMA ReaderKeeps ==
    ASSUME IInv, NEW r \in Reader, NEW v \in AnyReader, To(r, v), token' \in ServiceToken \cup {None},
           v.pc = "failed" => \E k \in Key : OverlappedIn(Sets(k)),
           v \in FindingReader => Pair(v.rows) \subseteq pairs,
           v \in FoundReader => FoundKept(v),
           v \in GoogleReader /\ v.kept => <<v.id, v.secret>> \in pairs
    PROVE  IInv'
<1> USE DEF IInv
<1>1. UNCHANGED <<env, pairs, pc, req, got, readAt, wroteAt>> /\ reader' = [reader EXCEPT ![r] = v]
    BY DEF To
<1>2. /\ CallsTyped' /\ Counted' /\ ReadsAreFresh' /\ TogglesAreFresh' /\ Unreadable' /\ Rotated'
      /\ \A k \in Key : OverlappedIn(Sets(k))' <=> OverlappedIn(Sets(k))
    <2>1. pc \in [Call -> CallPc]
        BY DEF CallsTyped
    <2> QED BY <1>1, <2>1, OthersKeep DEF Writing
<1>3. reader' \in [Reader -> AnyReader] /\ reader'[r] = v /\ \A o \in Reader \ {r} : reader'[o] = reader[o]
    BY <1>1 DEF Typed
<1>4. Typed'
    BY <1>1, <1>3 DEF Typed
<1>5. FailedReaders'
    BY <1>2, <1>3 DEF FailedReaders
<1>6. HeldTogether'
    BY <1>1, <1>3 DEF HeldTogether, FoundKept, Pair
<1> QED BY <1>2, <1>4, <1>5, <1>6

\* The kinds of reader are told apart by where they are.
LEMMA KindsOfReader ==
    ASSUME IInv, NEW r \in Reader
    PROVE  /\ reader[r].pc \in {"use", "list"} => reader[r] \in UsingReader
           /\ reader[r].pc = "find" => reader[r] \in FindingReader
           /\ reader[r].pc = "found" => reader[r] \in FoundReader
           /\ reader[r].pc = "sent" => reader[r] \in GoogleReader
BY DEF IInv, Typed, AnyReader, PlainReader, UsingReader, FindingReader, FoundReader, EnvReader, GoogleReader

LEMMA AuthenticateKeeps == ASSUME IInv, NEW r \in Reader, NEW s \in Scope, Authenticate(r, s) PROVE IInv'
<1> DEFINE v == IF Live(token) /\ s \in token.scopes
                THEN [pc |-> "use", scope |-> s, loaded |-> token] ELSE [pc |-> "refused"]
<1>1. To(r, v) /\ token' = token
    BY DEF Authenticate
<1>2. token \in ServiceToken \cup {None}
    BY DEF IInv, Typed
<1>3. v \in UsingReader \cup PlainReader
    BY <1>2 DEF UsingReader, PlainReader
<1>4. v \in AnyReader /\ v.pc # "failed" /\ v \notin FindingReader \cup FoundReader \cup GoogleReader
    BY <1>3 DEF UsingReader, PlainReader, AnyReader, FindingReader, FoundReader, GoogleReader
<1> HIDE DEF v
<1> QED BY <1>1, <1>2, <1>4, ReaderKeeps

LEMMA UseKeeps == ASSUME IInv, NEW r \in Reader, Use(r) PROVE IInv'
<1> DEFINE v == [reader[r] EXCEPT !.pc = "list"]
<1>1. To(r, v) /\ token' = token /\ reader[r] \in UsingReader
    BY KindsOfReader DEF Use, Used
<1>2. token \in ServiceToken \cup {None}
    BY DEF IInv, Typed
<1>3. v \in UsingReader
    BY <1>1 DEF UsingReader
<1>4. v \in AnyReader /\ v.pc # "failed" /\ v \notin FindingReader \cup FoundReader \cup GoogleReader
    BY <1>3 DEF UsingReader, AnyReader, FindingReader, FoundReader, GoogleReader
<1> HIDE DEF v
<1> QED BY <1>1, <1>2, <1>4, ReaderKeeps

LEMMA ListEnvKeeps == ASSUME IInv, NEW r \in Reader, ListEnv(r) PROVE IInv'
<1> DEFINE shown == {k \in Key \ ServerOnly : env[k] # None}
           e == [k \in shown |-> env[k].value]
           ok == \A k \in shown : Readable(env[k])
           v == IF ok THEN [pc |-> "ended", env |-> e] ELSE [pc |-> "failed"]
<1>1. To(r, v) /\ token' = token
    BY DEF ListEnv
<1>2. token \in ServiceToken \cup {None} /\ env \in [Key -> Row]
    BY DEF IInv, Typed
<1>3. e \in [shown -> Value] /\ shown \in SUBSET Key
    BY <1>2 DEF Row, ProductEnvVar
<1>4. ~ok => \E k \in Key : OverlappedIn(Sets(k))
    BY DEF IInv, Unreadable
<1> HIDE DEF shown, e, ok
<1>5. CASE ok
    <2>1. v = [pc |-> "ended", env |-> e]
        BY <1>5
    <2>2. v \in EnvReader
        BY <1>3, <2>1 DEF EnvReader
    <2>3. v.pc = "ended" /\ v \notin GoogleReader
        BY <2>1 DEF GoogleReader
    <2>4. v \in AnyReader /\ v.pc # "failed" /\ v \notin FindingReader \cup FoundReader
        BY <2>2, <2>3 DEF AnyReader, FindingReader, FoundReader
    <2> HIDE DEF v
    <2> QED BY <1>1, <1>2, <2>3, <2>4, ReaderKeeps
<1>6. CASE ~ok
    <2>1. v = [pc |-> "failed"]
        BY <1>6
    <2>2. v \in AnyReader /\ v \notin FindingReader \cup FoundReader \cup GoogleReader
        BY <2>1 DEF AnyReader, PlainReader, FindingReader, FoundReader, GoogleReader
    <2> HIDE DEF v
    <2> QED BY <1>1, <1>2, <1>4, <1>6, <2>2, ReaderKeeps
<1> QED BY <1>5, <1>6

LEMMA ListGoogleKeeps == ASSUME IInv, NEW r \in Reader, NEW id \in Value, ListGoogle(r, id) PROVE IInv'
<1> DEFINE v == IF env[IdKey] # None THEN [pc |-> "find", id |-> id, rows |-> env] ELSE [pc |-> "refused"]
<1>1. To(r, v) /\ token' = token
    BY DEF ListGoogle
<1>2. token \in ServiceToken \cup {None} /\ env \in [Key -> Row] /\ Pair(env) \subseteq pairs
    BY DEF IInv, Typed, HeldTogether
<1>3. v \in FindingReader \cup PlainReader /\ (v \in FindingReader => v.rows = env)
    BY <1>2 DEF FindingReader, PlainReader
<1>4. v \in AnyReader /\ v.pc # "failed" /\ v \notin FoundReader \cup GoogleReader
    BY <1>3 DEF AnyReader, PlainReader, FindingReader, FoundReader, GoogleReader
<1> HIDE DEF v
<1> QED BY <1>1, <1>2, <1>3, <1>4, ReaderKeeps

\* What the second look finds is the listed row, or one that was not listed.
LEMMA AgainIsListed ==
    ASSUME IInv, NEW r \in Reader, NEW k \in Key, reader[r].rows \in [Key -> Row], Again(r, k) # None
    PROVE  /\ Again(r, k) \in ProductEnvVar
           /\ SameRow(r, k, Again(r, k)) => reader[r].rows[k] # None /\ Again(r, k) = reader[r].rows[k]
<1>1. env[k] \in Row /\ reader[r].rows[k] \in Row
    BY DEF IInv, Typed
<1> QED BY <1>1 DEF Again, Loads, SameRow, Row

LEMMA FindIdKeeps == ASSUME IInv, NEW r \in Reader, FindId(r) PROVE IInv'
<1> DEFINE rows == reader[r].rows
           row == Again(r, IdKey)
           kept == SameRow(r, IdKey, row)
           ok == row # None /\ Readable(row) /\ row.value = reader[r].id
           v == IF ok THEN [pc |-> "found", id |-> row.value, rows |-> rows, kept |-> kept]
                ELSE [pc |-> "refused"]
<1>1. To(r, v) /\ token' = token /\ reader[r].pc = "find"
    BY DEF FindId
<1>2. token \in ServiceToken \cup {None}
    BY DEF IInv, Typed
<1>3. rows \in [Key -> Row] /\ Pair(rows) \subseteq pairs
    BY <1>1, KindsOfReader DEF FindingReader, IInv, HeldTogether
<1>4. CASE ok
    <2>1. row \in ProductEnvVar /\ (kept => rows[IdKey] # None /\ row = rows[IdKey])
        BY <1>3, <1>4, AgainIsListed DEF Key
    <2>2. row.value \in Value /\ kept \in BOOLEAN
        BY <2>1 DEF ProductEnvVar, SameRow
    <2>3. v = [pc |-> "found", id |-> row.value, rows |-> rows, kept |-> kept]
        BY <1>4
    <2> HIDE DEF rows, row, kept
    <2>4. v \in FoundReader /\ v.pc = "found" /\ v.id = row.value /\ v.rows = rows /\ v.kept = kept
        BY <1>3, <2>2, <2>3 DEF FoundReader
    <2>5. v \in AnyReader /\ v \notin FindingReader \cup GoogleReader /\ FoundKept(v)
        BY <1>3, <2>1, <2>4 DEF AnyReader, FindingReader, GoogleReader, FoundKept
    <2> HIDE DEF v
    <2> QED BY <1>1, <1>2, <2>4, <2>5, ReaderKeeps
<1>5. CASE ~ok
    <2>1. v = [pc |-> "refused"]
        BY <1>5
    <2>2. v \in AnyReader /\ v.pc # "failed" /\ v \notin FindingReader \cup FoundReader \cup GoogleReader
        BY <2>1 DEF AnyReader, PlainReader, FindingReader, FoundReader, GoogleReader
    <2> HIDE DEF v
    <2> QED BY <1>1, <1>2, <2>2, ReaderKeeps
<1> QED BY <1>4, <1>5

LEMMA FindSecretKeeps == ASSUME IInv, NEW r \in Reader, FindSecret(r) PROVE IInv'
<1> DEFINE rows == reader[r].rows
           row == Again(r, SecretKey)
           kept == reader[r].kept /\ SameRow(r, SecretKey, row)
           ok == row # None /\ Readable(row)
           v == IF ok THEN [pc |-> "sent", id |-> reader[r].id, secret |-> row.value, kept |-> kept]
                ELSE [pc |-> "refused"]
<1>1. To(r, v) /\ token' = token /\ reader[r].pc = "found"
    BY DEF FindSecret
<1>2. token \in ServiceToken \cup {None}
    BY DEF IInv, Typed
<1>3. /\ rows \in [Key -> Row] /\ reader[r].id \in Value /\ reader[r].kept \in BOOLEAN
      /\ FoundKept(reader[r])
    BY <1>1, KindsOfReader DEF FoundReader, IInv, HeldTogether
<1>4. CASE ok
    <2>1. row \in ProductEnvVar /\ (kept => rows[SecretKey] # None /\ row = rows[SecretKey])
        BY <1>3, <1>4, AgainIsListed DEF Key
    <2>2. kept => <<reader[r].id, row.value>> \in pairs
        BY <1>3, <2>1 DEF FoundKept, Pair
    <2>3. row.value \in Value /\ kept \in BOOLEAN
        BY <1>3, <2>1 DEF ProductEnvVar, SameRow
    <2>4. v = [pc |-> "sent", id |-> reader[r].id, secret |-> row.value, kept |-> kept]
        BY <1>4
    <2> HIDE DEF rows, row, kept
    <2>5. v \in GoogleReader /\ v.pc = "sent" /\ v.id = reader[r].id /\ v.secret = row.value /\ v.kept = kept
        BY <1>3, <2>3, <2>4 DEF GoogleReader
    <2>6. v \in AnyReader /\ v \notin FindingReader \cup FoundReader
        BY <2>5 DEF AnyReader, FindingReader, FoundReader
    <2> HIDE DEF v
    <2> QED BY <1>1, <1>2, <2>2, <2>5, <2>6, ReaderKeeps
<1>5. CASE ~ok
    <2>1. v = [pc |-> "refused"]
        BY <1>5
    <2>2. v \in AnyReader /\ v.pc # "failed" /\ v \notin FindingReader \cup FoundReader \cup GoogleReader
        BY <2>1 DEF AnyReader, PlainReader, FindingReader, FoundReader, GoogleReader
    <2> HIDE DEF v
    <2> QED BY <1>1, <1>2, <2>2, ReaderKeeps
<1> QED BY <1>4, <1>5

LEMMA ExchangeKeeps == ASSUME IInv, NEW r \in Reader, Exchange(r) PROVE IInv'
<1>1. PICK a \in Google : To(r, [reader[r] EXCEPT !.pc = Outcome(a)])
    BY DEF Exchange
<1> DEFINE v == [reader[r] EXCEPT !.pc = Outcome(a)]
<1>2. token' = token /\ token \in ServiceToken \cup {None} /\ reader[r] \in GoogleReader
    BY KindsOfReader DEF Exchange, IInv, Typed
<1>3. Outcome(a) \in {"ended", "unauthorized", "unavailable"}
    BY DEF Outcome
<1>4. v \in GoogleReader /\ v.id = reader[r].id /\ v.secret = reader[r].secret /\ v.kept = reader[r].kept
    BY <1>2, <1>3 DEF GoogleReader
<1>5. v \in AnyReader /\ v.pc # "failed" /\ v \notin FindingReader \cup FoundReader
    BY <1>4 DEF AnyReader, GoogleReader, FindingReader, FoundReader
<1>6. v.kept => <<v.id, v.secret>> \in pairs
    BY <1>2, <1>4 DEF IInv, HeldTogether
<1>7. To(r, v)
    BY <1>1
<1> HIDE DEF v
<1> QED BY <1>2, <1>5, <1>6, <1>7, ReaderKeeps

-----------------------------------------------------------------------------
(* Commits.                                                                *)

\* A commit is the last, and overlaps every commit since the call read.
LEMMA CommitIsLast ==
    ASSUME IInv, NEW c \in Call, pc[c] = "write", Commits(c)
    PROVE  /\ CallsTyped' /\ Counted'
           /\ c \notin Committed /\ Committed' = Committed \cup {c}
           /\ \A d \in Call : wroteAt[d] < wroteAt'[c] /\ readAt[d] < wroteAt'[c]
           /\ \A d \in Call \ {c} : wroteAt'[d] = wroteAt[d] /\ pc'[d] = pc[d]
           /\ \A d \in Committed : wroteAt[d] > readAt[c] => Overlap(c, d)' /\ Overlap(d, c)'
           /\ \A d \in Committed, e \in Committed : Overlap(d, e) => Overlap(d, e)'
<1> USE DEF IInv
<1>1. /\ pc' = [pc EXCEPT ![c] = "ended"]
      /\ wroteAt' = [wroteAt EXCEPT ![c] = 1 + Cardinality(Committed)]
      /\ UNCHANGED <<req, got, readAt, reader>>
    BY DEF Commits
<1>2. Cardinality(Committed) \in Nat
    BY FS_CardinalityType DEF Counted
<1>3. c \notin Committed /\ Committed' = Committed \cup {c}
    <2>1. wroteAt \in [Call -> Nat] /\ ~(wroteAt[c] > 0)
        BY DEF CallsTyped
    <2>2. wroteAt'[c] > 0 /\ \A d \in Call \ {c} : wroteAt'[d] = wroteAt[d]
        BY <1>1, <1>2, <2>1
    <2> QED BY <2>1, <2>2 DEF Committed
<1>4. IsFiniteSet(Committed)' /\ Cardinality(Committed)' = Cardinality(Committed) + 1
    BY <1>3, FS_AddElement DEF Counted
<1>5. CallsTyped'
    BY <1>1, <1>2 DEF CallsTyped, CallPc, Writing
<1>6. /\ wroteAt'[c] = 1 + Cardinality(Committed)
      /\ \A d \in Call \ {c} : wroteAt'[d] = wroteAt[d] /\ pc'[d] = pc[d]
    BY <1>1 DEF CallsTyped
<1>7. Counted'
    BY <1>1, <1>2, <1>4, <1>6 DEF Counted, CallsTyped
<1>8. \A d \in Call : wroteAt[d] < wroteAt'[c] /\ readAt[d] < wroteAt'[c]
    BY <1>2, <1>6 DEF Counted, CallsTyped
<1>9. \A d \in Committed : d \in Call /\ d # c
    BY <1>3 DEF Committed
<1>10. \A d \in Committed : wroteAt[d] > readAt[c] => Overlap(c, d)' /\ Overlap(d, c)'
    BY <1>1, <1>6, <1>8, <1>9 DEF Overlap
<1>11. \A d \in Committed, e \in Committed : Overlap(d, e) => Overlap(d, e)'
    BY <1>1, <1>6, <1>9 DEF Overlap
<1> QED BY <1>3, <1>5, <1>6, <1>7, <1>8, <1>10, <1>11

\* So nothing that has overlapped stops having overlapped.
LEMMA CommitsAddUp ==
    ASSUME IInv, NEW c \in Call, pc[c] = "write", Commits(c), NEW k \in Key
    PROVE  /\ Sets(k)' = Sets(k) \cup (IF req[c].op = "set" /\ req[c].key = k THEN {c} ELSE {})
           /\ c \notin Sets(k) /\ Sets(k) \subseteq Committed
           /\ OverlappedIn(Sets(k)) => OverlappedIn(Sets(k))'
           /\ \A d \in Call : SetSince(k, d) => SetSince(k, d)'
           /\ \A d \in Sets(k) : Overlapped(k, d) => Overlapped(k, d)'
           /\ \A d \in Sets(k) : LastRotation(k, d)' => LastRotation(k, d)
<1>1. UNCHANGED <<req, got, readAt, reader>>
    BY DEF Commits
<1>2. /\ c \notin Committed /\ Committed' = Committed \cup {c}
      /\ \A d \in Call \ {c} : wroteAt'[d] = wroteAt[d]
      /\ \A d \in Committed, e \in Committed : Overlap(d, e) => Overlap(d, e)'
    BY CommitIsLast
<1>3. Sets(k)' = Sets(k) \cup (IF req[c].op = "set" /\ req[c].key = k THEN {c} ELSE {})
    BY <1>1, <1>2 DEF Sets
<1>4. c \notin Sets(k) /\ Sets(k) \subseteq Committed /\ Sets(k) \subseteq Sets(k)'
    BY <1>2, <1>3 DEF Sets
<1>5. Committed \subseteq Call \ {c}
    BY <1>2 DEF Committed
<1>6. OverlappedIn(Sets(k)) => OverlappedIn(Sets(k))'
    BY <1>2, <1>4 DEF OverlappedIn
<1>7. \A d \in Call : SetSince(k, d) => SetSince(k, d)'
    BY <1>1, <1>2, <1>4, <1>5 DEF SetSince
<1>8. \A d \in Sets(k) : Overlapped(k, d) => Overlapped(k, d)'
    BY <1>2, <1>4 DEF Overlapped
<1>9. \A d \in Sets(k) : LastRotation(k, d)' => LastRotation(k, d)
    BY <1>1, <1>2, <1>4, <1>5 DEF LastRotation, Toggles
<1> QED BY <1>3, <1>4, <1>6, <1>7, <1>8, <1>9

\* What a commit does to the vault, apart from the variable that it sets.
LEMMA CommitKeeps ==
    ASSUME IInv, NEW c \in Call, pc[c] = "write", Commits(c), env' \in [Key -> Row], token' = token,
           \A k \in Key : env'[k] \in {env[k], None} \/ (req[c].op = "set" /\ req[c].key = k)
    PROVE  /\ CallsTyped' /\ Typed' /\ Counted' /\ HeldTogether' /\ FailedReaders'
           /\ ReadsAreFresh' /\ TogglesAreFresh'
<1> USE DEF IInv
<1>1. UNCHANGED <<req, got, readAt, reader>> /\ pairs' = pairs \cup Pair(env)' /\ pc'[c] = "ended"
    BY DEF Commits, CallsTyped, Pair
<1>2. /\ CallsTyped' /\ Counted'
      /\ \A d \in Call : wroteAt[d] < wroteAt'[c] /\ readAt[d] < wroteAt'[c]
      /\ \A d \in Call \ {c} : wroteAt'[d] = wroteAt[d] /\ pc'[d] = pc[d]
    BY CommitIsLast
<1>3. \A k \in Key :
        /\ Sets(k)' = Sets(k) \cup (IF req[c].op = "set" /\ req[c].key = k THEN {c} ELSE {})
        /\ c \notin Sets(k)
        /\ OverlappedIn(Sets(k)) => OverlappedIn(Sets(k))'
        /\ \A d \in Call : SetSince(k, d) => SetSince(k, d)'
        /\ \A d \in Sets(k) : Overlapped(k, d) => Overlapped(k, d)'
        /\ \A d \in Sets(k) : LastRotation(k, d)' => LastRotation(k, d)
    BY CommitsAddUp
<1>4. Typed'
    <2>1. Pair(env)' \subseteq Value \X Value
        BY DEF Pair, Row, ProductEnvVar, Key
    <2> QED BY <1>1, <2>1 DEF Typed
<1>5. HeldTogether'
    BY <1>1 DEF HeldTogether, FoundKept, Pair
<1>6. FailedReaders'
    BY <1>1, <1>3 DEF FailedReaders
<1>7. ReadsAreFresh'
    <2> SUFFICES ASSUME NEW d \in Call, NEW k \in Key, Setting(d, k)', got[d] # None
                 PROVE  env'[k] = None \/ env'[k] = got[d] \/ SetSince(k, d)'
        BY <1>1 DEF ReadsAreFresh
    <2>1. d # c /\ Setting(d, k)
        BY <1>1, <1>2 DEF Setting, Writing
    <2>2. env[k] = None \/ env[k] = got[d] \/ SetSince(k, d)
        BY <2>1 DEF ReadsAreFresh
    <2>3. CASE req[c].op = "set" /\ req[c].key = k
        BY <1>1, <1>2, <1>3, <2>3 DEF SetSince
    <2>4. CASE env'[k] \in {env[k], None}
        BY <1>3, <2>2, <2>4
    <2> QED BY <2>3, <2>4
<1>8. TogglesAreFresh'
    <2> SUFFICES ASSUME NEW d \in Call, NEW k \in Key, Setting(d, k)', Toggles(d)',
                        NEW y \in Sets(k)', LastRotation(k, y)'
                 PROVE  req[d].value = req[y].value \/ Overlapped(k, y)' \/ wroteAt'[y] > readAt[d]
        BY <1>1 DEF TogglesAreFresh
    <2>1. Setting(d, k) /\ Toggles(d)
        BY <1>1, <1>2 DEF Setting, Writing, Toggles
    <2>2. CASE y = c
        BY <1>2, <2>2
    <2>3. CASE y # c
        <3>1. y \in Sets(k)
            BY <1>3, <2>3
        <3>2. y \in Call
            BY <3>1 DEF Sets, Committed
        <3>3. req[d].value = req[y].value \/ Overlapped(k, y) \/ wroteAt[y] > readAt[d]
            BY <1>3, <2>1, <3>1 DEF TogglesAreFresh
        <3> QED BY <1>2, <1>3, <2>3, <3>1, <3>2, <3>3
    <2> QED BY <2>2, <2>3
<1> QED BY <1>2, <1>4, <1>5, <1>6, <1>7, <1>8

LEMMA DeleteWriteKeeps == ASSUME IInv, NEW c \in Call, pc[c] = "write", DeleteWrite(c) PROVE IInv'
<1> USE DEF IInv
<1>1. Commits(c) /\ token' = token /\ req[c].op = "delete" /\ UNCHANGED req
    BY DEF DeleteWrite, Commits
<1>2. env \in [Key -> Row] /\ req[c] \in DeleteReq
    BY <1>1 DEF Typed, CallsTyped, Writing, SetReq, DeleteReq
<1>3. env' \in [Key -> Row] /\ \A k \in Key : env'[k] \in {env[k], None}
    BY <1>2 DEF DeleteWrite, DeleteReq, Row
<1>4. \A k \in Key :
        /\ Sets(k)' = Sets(k)
        /\ OverlappedIn(Sets(k)) => OverlappedIn(Sets(k))'
        /\ \A d \in Sets(k) : Overlapped(k, d) => Overlapped(k, d)'
        /\ \A d \in Sets(k) : LastRotation(k, d)' => LastRotation(k, d)
    BY <1>1, CommitsAddUp
<1>5. Unreadable'
    BY <1>3, <1>4 DEF Unreadable, Readable
<1>6. Rotated'
    BY <1>1, <1>3, <1>4 DEF Rotated
<1> QED BY <1>1, <1>3, <1>5, <1>6, CommitKeeps

LEMMA SetWriteKeeps == ASSUME IInv, NEW c \in Call, pc[c] = "write", SetWrite(c) PROVE IInv'
<1> USE DEF IInv
<1>0. PICK key \in Key : key = req[c].key
    BY DEF SetWrite, CallsTyped, Writing, SetReq, DeleteReq
<1> DEFINE row == env[key]
           new == IF got[c] # None THEN Written(c, row)
                  ELSE [id |-> c, value |-> req[c].value, secret |-> req[c].secret, sealed |-> req[c].secret]
<1>1. /\ Commits(c) /\ token' = token /\ req[c].op = "set" /\ UNCHANGED <<req, got, readAt>>
      /\ IF got[c] = None THEN row = None ELSE row # None /\ row.id = got[c].id
      /\ env' = [env EXCEPT ![key] = new]
    BY <1>0 DEF SetWrite, Commits
<1>2. req[c] \in SetReq /\ got[c] \in Row /\ env \in [Key -> Row]
    BY <1>1 DEF Typed, CallsTyped, Writing, SetReq, DeleteReq
<1>3. req[c].value \in Value /\ req[c].secret \in BOOLEAN /\ req[c].toggles \in BOOLEAN
    BY <1>2 DEF SetReq
<1>4. got[c] # None => row \in ProductEnvVar /\ got[c] \in ProductEnvVar
    BY <1>1, <1>2, <1>3 DEF Row
<1>5. new \in ProductEnvVar
    BY <1>3, <1>4 DEF Written, ProductEnvVar
\* Unless it was set since it was loaded, the row has what its flag says.
<1>6. got[c] = None \/ row = got[c] => Readable(new) /\ new.value = req[c].value
    BY <1>3, <1>4 DEF Written, ProductEnvVar, Readable
<1>7. new.value = req[c].value \/ (got[c] # None /\ new.value = row.value)
    BY <1>3, <1>4 DEF Written, ProductEnvVar
<1> HIDE DEF new
<1>8. env' \in [Key -> Row] /\ env'[key] = new /\ \A k \in Key \ {key} : env'[k] = env[k]
    BY <1>1, <1>2, <1>3, <1>5 DEF Row
<1>9. \A k \in Key :
        /\ Sets(k)' = Sets(k) \cup (IF k = key THEN {c} ELSE {})
        /\ c \notin Sets(k) /\ Sets(k) \subseteq Committed
        /\ OverlappedIn(Sets(k)) => OverlappedIn(Sets(k))'
        /\ \A d \in Sets(k) : Overlapped(k, d) => Overlapped(k, d)'
        /\ \A d \in Sets(k) : LastRotation(k, d)' => LastRotation(k, d)
    BY <1>0, <1>1, CommitsAddUp
<1>10. /\ \A d \in Call : wroteAt[d] < wroteAt'[c]
       /\ \A d \in Call \ {c} : wroteAt'[d] = wroteAt[d]
       /\ \A d \in Committed : wroteAt[d] > readAt[c] => Overlap(c, d)' /\ Overlap(d, c)'
    BY <1>1, CommitIsLast
<1>11. got[c] = None \/ row = got[c] \/ SetSince(key, c)
    BY <1>0, <1>1 DEF ReadsAreFresh, Setting, Writing
<1>12. SetSince(key, c) => OverlappedIn(Sets(key))' /\ Overlapped(key, c)'
    BY <1>3, <1>9, <1>10 DEF SetSince, OverlappedIn, Overlapped
<1>13. Unreadable'
    <2> SUFFICES ASSUME NEW k \in Key, env'[k] # None, ~Readable(env'[k]) PROVE OverlappedIn(Sets(k))'
        BY DEF Unreadable, Readable
    <2>1. CASE k = key
        BY <1>6, <1>8, <1>11, <1>12, <2>1
    <2>2. CASE k # key
        BY <1>8, <1>9, <2>2 DEF Unreadable
    <2> QED BY <2>1, <2>2
<1>14. Rotated'
    <2> SUFFICES ASSUME NEW k \in Key, env'[k] # None, NEW d \in Sets(k)', LastRotation(k, d)'
                 PROVE  env'[k].value = req[d].value \/ Overlapped(k, d)'
        BY <1>1 DEF Rotated
    <2>1. CASE k # key
        BY <1>8, <1>9, <2>1 DEF Rotated
    <2>2. CASE k = key /\ d = c
        BY <1>6, <1>8, <1>11, <1>12, <2>2
    <2>3. CASE k = key /\ d # c
        <3>1. d \in Sets(key) /\ LastRotation(key, d) /\ c \in Sets(key)'
            BY <1>3, <1>9, <2>3
        <3>2. d \in Call /\ d \in Committed
            BY <1>3, <1>9, <3>1 DEF Committed
        <3>3. wroteAt'[d] < wroteAt'[c] /\ wroteAt'[c] \in Nat /\ wroteAt'[d] \in Nat
            <4>1. wroteAt' \in [Call -> Nat]
                BY <1>1, CommitIsLast DEF CallsTyped
            <4> QED BY <1>10, <2>3, <3>2, <4>1
        <3>4. Toggles(c)
            BY <1>1, <2>3, <3>1, <3>3 DEF LastRotation, Toggles
        <3>6. req[c].value = req[d].value \/ Overlapped(key, d) \/ wroteAt[d] > readAt[c]
            BY <1>0, <1>1, <3>1, <3>4 DEF TogglesAreFresh, Setting, Writing
        <3>7. got[c] # None => row.value = req[d].value \/ Overlapped(key, d)
            BY <1>1, <1>3, <3>1 DEF Rotated
        <3>8. wroteAt[d] > readAt[c] => Overlapped(key, d)'
            BY <1>10, <2>3, <3>1, <3>2 DEF Overlapped
        <3> QED BY <1>3, <1>7, <1>8, <1>9, <2>3, <3>1, <3>6, <3>7, <3>8
    <2> QED BY <2>1, <2>2, <2>3
<1>15. \A k \in Key : env'[k] \in {env[k], None} \/ (req[c].op = "set" /\ req[c].key = k)
    BY <1>0, <1>1, <1>8
<1> QED BY <1>1, <1>8, <1>13, <1>14, <1>15, CommitKeeps

-----------------------------------------------------------------------------
\* Every step keeps the invariant.
LEMMA NextKeeps == IInv /\ [Next]_vars => IInv'
<1> SUFFICES ASSUME IInv, [Next]_vars PROVE IInv'
    OBVIOUS
<1>1. CASE UNCHANGED vars
    <2>1. UNCHANGED <<env, pairs, req, got, readAt, wroteAt, pc, token, reader>>
        BY <1>1 DEF vars
    <2>2. pc \in [Call -> CallPc]
        BY DEF IInv, CallsTyped
    <2>3. /\ CallsTyped' /\ Counted' /\ ReadsAreFresh' /\ TogglesAreFresh' /\ Unreadable' /\ Rotated'
          /\ \A k \in Key : OverlappedIn(Sets(k))' <=> OverlappedIn(Sets(k))
        BY <2>1, <2>2, OthersKeep DEF Writing
    <2> QED BY <2>1, <2>3 DEF IInv, Typed, HeldTogether, FoundKept, FailedReaders, Pair
<1>2. ASSUME NEW c \in Call, NEW k \in Key, NEW v \in Value, NEW s \in BOOLEAN, PutRead(c, k, v, s)
      PROVE  IInv'
    <2> DEFINE r == Set(k, v, s, FALSE)
    <2>1. r \in SetReq /\ r.key = k /\ ~r.toggles
        BY DEF Set, SetReq
    <2>2. Goes(c, "write", r, env[k])
        BY <1>2 DEF PutRead
    <2> HIDE DEF r
    <2> QED BY <2>1, <2>2, GoesKeeps
<1>3. ASSUME NEW c \in Call, NEW k \in Key, NEW s \in BOOLEAN, PatchRead(c, k, s)
      PROVE  IInv'
    <2> DEFINE r == Set(k, env[k].value, s, TRUE)
    <2>1. CASE env[k] # None /\ Readable(env[k])
        <3>1. env[k].value \in Value
            BY <2>1 DEF IInv, Typed, Row, ProductEnvVar
        <3>2. r \in SetReq /\ r.key = k /\ r.value = env[k].value
            BY <3>1 DEF Set, SetReq
        <3>3. Goes(c, "again", r, env[k])
            BY <1>3, <2>1 DEF PatchRead
        <3> HIDE DEF r
        <3> QED BY <2>1, <3>2, <3>3, GoesKeeps
    <2>2. CASE ~(env[k] # None /\ Readable(env[k]))
        BY <1>3, <2>2, LeavesKeeps DEF PatchRead
    <2> QED BY <2>1, <2>2
<1>4. ASSUME NEW c \in Call, NEW k \in Key, DeleteRead(c, k)
      PROVE  IInv'
    <2> DEFINE r == [op |-> "delete", key |-> k]
    <2>1. CASE env[k] # None
        <3>1. r \in DeleteReq /\ r.key = k /\ r.op # "set"
            BY DEF DeleteReq
        <3>2. Goes(c, "write", r, env[k])
            BY <1>4, <2>1 DEF DeleteRead
        <3> HIDE DEF r
        <3> QED BY <3>1, <3>2, GoesKeeps
    <2>2. CASE env[k] = None
        BY <1>4, <2>2, LeavesKeeps DEF DeleteRead
    <2> QED BY <2>1, <2>2
<1>5. ASSUME NEW c \in Call,
             \/ PatchReadAgain(c)
             \/ pc[c] = "write" /\ (SetWrite(c) \/ DeleteWrite(c))
             \/ pc[c] \in {"again", "write"} /\ Leaves(c)
      PROVE  IInv'
    BY <1>5, PatchReadAgainKeeps, SetWriteKeeps, DeleteWriteKeeps, LeavesKeeps
<1>6. ASSUME TokenExpires \/ (\E c \in Call : Revoke(c) \/ \E S \in SUBSET Scope : Issue(c, S))
      PROVE  IInv'
    BY <1>6, TokenKeeps
<1>7. ASSUME NEW r \in Reader,
             \/ \E s \in Scope : Authenticate(r, s)
             \/ Use(r) \/ ListEnv(r) \/ (\E id \in Value : ListGoogle(r, id))
             \/ FindId(r) \/ FindSecret(r) \/ Exchange(r)
      PROVE  IInv'
    BY <1>7, AuthenticateKeeps, UseKeeps, ListEnvKeeps, ListGoogleKeeps, FindIdKeeps, FindSecretKeeps,
       ExchangeKeeps
<1> QED BY <1>1, <1>2, <1>3, <1>4, <1>5, <1>6, <1>7 DEF Next

\* The invariant of every behaviour.
THEOREM VaultInvariance == Spec => []IInv
BY InitIInv, NextKeeps, PTL DEF Spec

\* The vault's rows can be read and hold what they were rotated to, but for
\* writes that overlap: env_var.py set_var.
THEOREM RotationsAreKept == Spec => []VaultHolds
<1>1. IInv => TypeOK
    <2>1. ASSUME IInv
          PROVE  \A r \in Reader : reader[r].pc \in
                    {"idle", "use", "list", "find", "found", "sent", "ended", "failed", "refused",
                     "unauthorized", "unavailable"}
        BY <2>1 DEF IInv, Typed, AnyReader, PlainReader, UsingReader, FindingReader, FoundReader, EnvReader, GoogleReader
    <2> QED BY <2>1 DEF IInv, Typed, CallsTyped, CallPc, TypeOK, Row
<1>2. IInv => FailsOnlyByOverlap
    BY DEF IInv, Unreadable, FailedReaders, FailsOnlyByOverlap
<1>3. IInv => RotationLostOnlyByOverlap
    BY DEF IInv, Rotated, LastRotation, Overlapped, RotationLostOnlyByOverlap
<1>4. IInv => VaultHolds
    BY <1>1, <1>2, <1>3 DEF VaultHolds
<1> QED BY <1>4, VaultInvariance, PTL

\* The secret sent to Google was in the vault together with the client's id,
\* unless one of the two rows was created after the listing: google_oauth.py
\* _find_client_secret, whose second looks find the rows as they were listed.
THEOREM SecretsGoWithTheirIds == Spec => []SecretGoesWithItsId
<1>1. IInv => SecretGoesWithItsId
    <2> SUFFICES ASSUME IInv, NEW r \in Reader, "secret" \in DOMAIN reader[r], reader[r].kept
                 PROVE  <<reader[r].id, reader[r].secret>> \in pairs
        BY DEF SecretGoesWithItsId
    <2>1. reader[r] \in AnyReader
        BY DEF IInv, Typed
    <2>2. reader[r] \in GoogleReader
        BY <2>1 DEF AnyReader, PlainReader, UsingReader, FindingReader, FoundReader, EnvReader, GoogleReader
    <2> QED BY <2>2 DEF IInv, HeldTogether
<1> QED BY <1>1, VaultInvariance, PTL

\* No step gives a revoked token back: service_token.py revoke, whose row every
\* use of the token updates.
THEOREM RevocationIsForGood == Spec => RevokedForGood
<1>1. IInv /\ [Next]_vars => [token # None /\ token.revoked => token'.revoked]_vars
    <2> SUFFICES ASSUME IInv, Next, token # None, token.revoked PROVE token'.revoked
        BY DEF vars
    <2>1. token \in ServiceToken
        BY DEF IInv, Typed
    <2>2. ASSUME NEW c \in Call, Revoke(c) PROVE token'.revoked
        BY <2>1, <2>2 DEF Revoke, ServiceToken
    <2>3. ASSUME NEW c \in Call, NEW S \in SUBSET Scope, Issue(c, S) PROVE FALSE
        BY <2>3 DEF Issue
    <2>4. ASSUME TokenExpires PROVE token'.revoked
        BY <2>1, <2>4 DEF TokenExpires, ServiceToken
    <2>5. CASE token' = token
        BY <2>5
    <2>6. ASSUME NEW c \in Call,
                 \/ \E k \in Key, v \in Value, s \in BOOLEAN : PutRead(c, k, v, s)
                 \/ \E k \in Key, s \in BOOLEAN : PatchRead(c, k, s)
                 \/ \E k \in Key : DeleteRead(c, k)
                 \/ PatchReadAgain(c) \/ SetWrite(c) \/ DeleteWrite(c) \/ Leaves(c)
          PROVE  token' = token
        BY <2>6 DEF PutRead, PatchRead, PatchReadAgain, DeleteRead, SetWrite, DeleteWrite, Leaves, Goes, tables
    <2>7. ASSUME NEW r \in Reader,
                 \/ \E s \in Scope : Authenticate(r, s)
                 \/ Use(r) \/ ListEnv(r) \/ (\E id \in Value : ListGoogle(r, id))
                 \/ FindId(r) \/ FindSecret(r) \/ Exchange(r)
          PROVE  token' = token
        BY <2>7 DEF Authenticate, Use, Used, ListEnv, ListGoogle, FindId, FindSecret, Exchange
    <2> QED BY <2>2, <2>3, <2>4, <2>5, <2>6, <2>7 DEF Next
<1> QED BY <1>1, VaultInvariance, PTL DEF Spec, RevokedForGood
=============================================================================
