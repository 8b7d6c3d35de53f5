---------------------------- MODULE StorageProofs ----------------------------
(***************************************************************************)
(* Proofs about Storage, for any calls, keys, values, times to live, puts  *)
(* and clocks: what if_version, the version, the value and the expiry      *)
(* promise, and what a delta sync misses, hold but for the overlaps and    *)
(* the stamps the properties name.                                         *)
(*                                                                         *)
(* What makes it inductive: the row a call loaded is the row there is, or  *)
(* the call that changed it committed after that (ReadsAreFresh); a        *)
(* document names its last writer, and its value is that writer's or an    *)
(* overlapping put's (ExplainedAt, ValuedAt); and what a committed put has *)
(* overwritten lies below the version there is, unless one of the          *)
(* exceptions has come in between (PassedAt).                              *)
(***************************************************************************)
EXTENDS Storage, FiniteSetTheorems, TLAPS

Count == Cardinality(Committed)
Started(c) == pc[c] \in {"flush", "commit", "ended"}
Puts(c, k) == Started(c) /\ req[c].op = "put" /\ req[c].key = k
Pending(c, k) == Puts(c, k) /\ pc[c] # "ended"

Typed ==
    /\ TypeOK
    /\ \A c \in Call :
        /\ Started(c) => req[c] \in Request
        /\ c \in Committed <=> pc[c] = "ended"
        /\ Started(c) /\ req[c].op = "put" /\ req[c].ifVersion # None =>
              got[c] # None /\ got[c].version = req[c].ifVersion

\* Commits are counted, and a put is stamped when it is sent.
Counted ==
    /\ IsFiniteSet(Committed)
    /\ \A c \in Call : readAt[c] <= Count /\ wroteAt[c] <= Count
Stamped == \A c \in Call : pc[c] = "commit" /\ req[c].op = "put" => stamp[c] > 0

\* Between its flush and its commit a call has the key to itself.
Exclusive ==
    \A c, d \in Call : pc[c] = "commit" /\ pc[d] = "commit" /\ req[c].op # "create" /\ req[d].op # "create"
                       /\ req[c].key = req[d].key => c = d
Locked ==
    \A c \in Call : pc[c] = "commit" /\ req[c].op = "put" =>
        IF got[c] = None THEN docs[req[c].key] = None ELSE SameRow(c)

ExplainedAt(k) ==
    docs[k] # None =>
        \/ docs[k] = Left /\ Did("put", k) = {} /\ cache[k] = Earlier
        \/ /\ docs[k].writer \in Did("put", k) /\ docs[k].writer \in PutsOn(k, docs[k].row)
           /\ docs[k].row \in Did("put", k) \cup {Earlier}
           /\ docs[k].expires \in Did("put", k) \cup {None}
           /\ docs[k].updated = stamp[docs[k].writer]
           /\ \A c \in Did("put", k) : wroteAt[c] <= wroteAt[docs[k].writer]

\* What is there was put after c's read, as far as it differs from what c read.
ChangedSince(c, k) ==
    /\ docs[k].writer \in Did("put", k) /\ readAt[c] < wroteAt[docs[k].writer]
    /\ docs[k].expires \in {None, got[c].expires} \/ readAt[c] < wroteAt[docs[k].expires]
    /\ \/ docs[k].value = got[c].value
       \/ \E d \in Did("put", k) : docs[k].value = req[d].value /\ readAt[c] < wroteAt[d]
FreshFor(c, k) ==
    Puts(c, k) /\ got[c] # None =>
        /\ got[c].row \in Did("put", k) \cup {Earlier}
        /\ got[c].expires \in Did("put", k) \cup {None}
        /\ Pending(c, k) /\ docs[k] # None /\ docs[k].row = got[c].row =>
            docs[k] = got[c] \/ ChangedSince(c, k)

\* The row a delete loaded is the one there is, or that was inserted since.
Deletes(c, k) == pc[c] \in {"flush", "commit"} /\ req[c].op = "delete" /\ req[c].key = k
DeletesFor(c, k) ==
    Deletes(c, k) =>
        /\ got[c] # None
        /\ docs[k] # None /\ docs[k].row # got[c].row =>
              docs[k].row \in Did("put", k) /\ readAt[c] < wroteAt[docs[k].row]
ReadsAreFresh == \A c \in Call, k \in Key : FreshFor(c, k) /\ DeletesFor(c, k)

\* After c the document was written anew, or its version set back, by commit n.
Renewed(k, c, n) ==
    \E e \in Did("delete", k), f \in Did("put", k) :
        /\ got[f] = None
        /\ wroteAt[c] < wroteAt[e] /\ wroteAt[e] < wroteAt[f] /\ wroteAt[f] <= n
SetBack(k, c, n) ==
    \E x, y \in Did("put", k) :
        /\ readAt[x] < wroteAt[y]
        /\ wroteAt[c] <= wroteAt[y] /\ wroteAt[y] < wroteAt[x] /\ wroteAt[x] <= n

PassedAt(k) ==
    \A c \in Did("put", k) : got[c] # None =>
        \/ docs[k] # None /\ got[c].version < docs[k].version
        \/ docs[k] = None /\ \E e \in Did("delete", k) : wroteAt[c] < wroteAt[e]
        \/ Renewed(k, c, Count) \/ SetBack(k, c, Count)
WinsOnce ==
    \A k \in Key : \A c \in Did("put", k), d \in Call :
        /\ Puts(d, k) /\ req[c].ifVersion = req[d].ifVersion /\ req[c].ifVersion # None
        /\ wroteAt[c] <= readAt[d]
        => Renewed(k, c, readAt[d]) \/ SetBack(k, c, readAt[d])

CursorKnown == cursor = 0 \/ \E d \in Committed : stamp[d] = cursor

ValuedAt(k) ==
    docs[k] # None /\ docs[k] # Left =>
        \E d \in Did("put", k) : docs[k].value = req[d].value /\ (d = docs[k].writer \/ Overlap(d, docs[k].writer))

ExpiryAt(k) ==
    docs[k] # None /\ docs[k] # Left =>
        \/ docs[k].expires = ExpiresAt(docs[k].writer)
        \/ \E d \in Did("put", k) : d = docs[k].expires /\ Overlap(d, docs[k].writer)
StandsAt(k) ==
    \A c \in Did("put", k) \cup Did("delete", k) :
        (\A d \in Did("put", k) \cup Did("delete", k) : wroteAt[d] <= wroteAt[c]) =>
            \/ /\ req[c].op = "put" /\ docs[k] # None /\ docs[k].writer = c
               /\ \/ docs[k].value = req[c].value
                  \/ \E d \in Did("put", k) : docs[k].value = req[d].value /\ Overlap(c, d)
            \/ /\ req[c].op = "delete"
               /\ docs[k] = None \/ \E d \in Did("put", k) : Overlap(c, d)
Counts(k, r, v) ==
    \/ v = Cardinality(PutsOn(k, r)) + (IF r = Earlier THEN 1 ELSE 0)
    \/ \E c, d \in PutsOn(k, r) : c # d /\ Overlap(c, d)
CountsAt(k) == docs[k] # None => Counts(k, docs[k].row, docs[k].version)
Overtaken(w) ==
    \E d \in Committed : (d # w /\ stamp[w] = stamp[d]) \/ (stamp[w] < stamp[d] /\ wroteAt[d] < wroteAt[w])
MissesAt(k) ==
    docs[k] # None /\ docs[k].updated <= cursor /\ cache[k] # docs[k].writer => Overtaken(docs[k].writer)

KeptAt(k) ==
    /\ ExplainedAt(k) /\ PassedAt(k) /\ ValuedAt(k) /\ ExpiryAt(k)
    /\ StandsAt(k) /\ CountsAt(k) /\ MissesAt(k)
Kept == \A k \in Key : KeptAt(k)
HistoryAt(k) == KeptAt(k) /\ \A c \in Call : FreshFor(c, k) /\ DeletesFor(c, k)
History == Kept /\ CursorKnown
InFlight == Exclusive /\ Locked /\ ReadsAreFresh /\ WinsOnce
IInv == Typed /\ Counted /\ Stamped /\ History /\ InFlight

-----------------------------------------------------------------------------
LEMMA InitIInv == Init => IInv
<1> SUFFICES ASSUME Init PROVE IInv
    OBVIOUS
<1>1. Committed = {}
    BY DEF Init, Committed
<1>2. \A k \in Key : Did("put", k) = {} /\ Did("delete", k) = {}
    BY <1>1 DEF Did
<1>3. \A k \in Key : docs[k] = None \/ docs[k] = Left
    BY DEF Init
<1>4. Left \in Document
    BY ConstantsAssumption DEF Left, Document
<1>5. TypeOK
    <2>1. collection \in [id: Call \cup {Earlier}, ttl: Ttl] \cup {None}
        BY DEF Init
    <2>2. docs \in [Key -> Document \cup {None}]
        BY <1>4 DEF Init
    <2> QED BY <2>1, <2>2 DEF Init, TypeOK
<1>6. Typed
    BY <1>1, <1>5 DEF Init, Typed, Started
<1>7. Counted /\ Stamped
    BY <1>1, FS_EmptySet DEF Init, Counted, Stamped, Count
<1>8. InFlight
    BY DEF Init, InFlight, Exclusive, Locked, ReadsAreFresh, FreshFor, DeletesFor, Deletes,
        WinsOnce, Pending, Puts, Started
<1>9. ASSUME NEW k \in Key PROVE KeptAt(k)
    <2>1. Did("put", k) = {} /\ Did("delete", k) = {} /\ PutsOn(k, Earlier) = {}
        BY <1>2 DEF PutsOn, Did
    <2>2. cache[k] = Earlier /\ (docs[k] = None \/ docs[k] = Left)
        BY <1>3 DEF Init
    <2>3. ExplainedAt(k) /\ PassedAt(k) /\ ValuedAt(k) /\ ExpiryAt(k) /\ StandsAt(k) /\ MissesAt(k)
        BY <2>1, <2>2 DEF ExplainedAt, PassedAt, ValuedAt, ExpiryAt, StandsAt, MissesAt, Left
    <2>4. CountsAt(k)
        BY <2>1, <2>2, FS_EmptySet DEF CountsAt, Counts, Left
    <2> QED BY <2>3, <2>4 DEF KeptAt
<1>10. History
    BY <1>9 DEF Init, History, Kept, CursorKnown
<1> QED BY <1>6, <1>7, <1>8, <1>10 DEF IInv

LEMMA CountIsNat == ASSUME Counted PROVE Count \in Nat
BY FS_CardinalityType DEF Counted, Count

-----------------------------------------------------------------------------
(* A step of a call that has not committed, and commits nothing.           *)

LEMMA HistoryStays ==
    ASSUME IInv, NEW c \in Call, c \notin Committed,
           UNCHANGED <<docs, wroteAt, cursor, cache>>,
           \A d \in Call \ {c} : req'[d] = req[d] /\ got'[d] = got[d] /\ readAt'[d] = readAt[d]
                                /\ stamp'[d] = stamp[d]
    PROVE  /\ Committed' = Committed /\ Count' = Count
           /\ \A k \in Key : Did("put", k)' = Did("put", k) /\ Did("delete", k)' = Did("delete", k)
           /\ \A k \in Key : Did("put", k) \subseteq Call \ {c}
           /\ \A k \in Key, d \in Call, n \in Nat :
                 (Renewed(k, d, n)' <=> Renewed(k, d, n)) /\ (SetBack(k, d, n)' <=> SetBack(k, d, n))
           /\ History'
<1> USE DEF IInv, History
<1>1. Committed' = Committed /\ Count' = Count
    BY DEF Committed, Count
<1>2. Committed \subseteq Call \ {c}
    BY DEF Committed
<1>3. \A k \in Key : Did("put", k)' = Did("put", k) /\ Did("delete", k)' = Did("delete", k)
    BY <1>1, <1>2 DEF Did
<1>4. \A k \in Key : Did("put", k) \subseteq Call \ {c} /\ Did("delete", k) \subseteq Call \ {c}
    BY <1>2 DEF Did
<1>5. \A k \in Key, d \in Call, n \in Nat :
         (Renewed(k, d, n)' <=> Renewed(k, d, n)) /\ (SetBack(k, d, n)' <=> SetBack(k, d, n))
    BY <1>3, <1>4 DEF Renewed, SetBack
<1>6. ASSUME NEW k \in Key PROVE KeptAt(k)'
    <2> USE DEF Kept, KeptAt
    <2>1. PICK w, r, v : docs[k] # None => w = docs[k].writer /\ r = docs[k].row /\ v = docs[k].version
        OBVIOUS
    <2>2. docs[k] # None /\ docs[k] # Left => w \in Did("put", k)
        BY <2>1 DEF ExplainedAt
    <2>3. \A d, e \in Call \ {c} : Overlap(d, e)' <=> Overlap(d, e)
        BY DEF Overlap
    <2>4. PutsOn(k, r)' = PutsOn(k, r) /\ PutsOn(k, r) \subseteq Call \ {c}
        BY <1>3, <1>4 DEF PutsOn
    <2>5. ExplainedAt(k)'
        BY <1>3, <1>4, <2>1, <2>2, <2>4 DEF ExplainedAt
    <2>6. PassedAt(k)'
        BY <1>1, <1>3, <1>4, <1>5, CountIsNat DEF PassedAt
    <2>7. ValuedAt(k)'
        BY <1>3, <1>4, <2>1, <2>2, <2>3 DEF ValuedAt
    <2>8. ExpiryAt(k)'
        <3>1. docs[k] # None /\ docs[k] # Left => ExpiresAt(w)' = ExpiresAt(w)
            BY <1>4, <2>2 DEF ExpiresAt
        <3> QED BY <1>3, <1>4, <2>1, <2>2, <2>3, <3>1 DEF ExpiryAt
    <2>9. StandsAt(k)'
        BY <1>3, <1>4, <2>3 DEF StandsAt
    <2>10. CountsAt(k)'
        <3>1. Counts(k, r, v) => Counts(k, r, v)'
            BY <2>3, <2>4 DEF Counts
        <3> QED BY <2>1, <3>1 DEF CountsAt
    <2>11. MissesAt(k)'
        <3>1. docs[k] # None => w \in Did("put", k) \/ w = cache[k]
            BY <2>1 DEF ExplainedAt, Left
        <3>2. w \in Did("put", k) => (Overtaken(w) => Overtaken(w)')
            <4> SUFFICES ASSUME w \in Did("put", k), Overtaken(w) PROVE Overtaken(w)'
                OBVIOUS
            <4>1. PICK d \in Committed :
                      (d # w /\ stamp[w] = stamp[d]) \/ (stamp[w] < stamp[d] /\ wroteAt[d] < wroteAt[w])
                BY DEF Overtaken
            <4>2. stamp'[w] = stamp[w] /\ stamp'[d] = stamp[d] /\ d \in Committed'
                BY <1>1, <1>2, <1>4
            <4> QED BY <4>1, <4>2 DEF Overtaken
        <3> QED BY <2>1, <3>1, <3>2 DEF MissesAt
    <2> QED BY <2>5, <2>6, <2>7, <2>8, <2>9, <2>10, <2>11
<1>7. CursorKnown'
    BY <1>1, <1>2 DEF CursorKnown
<1> QED BY <1>1, <1>3, <1>4, <1>5, <1>6, <1>7 DEF Kept

\* What a call knows stays as fresh as it was when another steps.
LEMMA FreshStays ==
    ASSUME NEW c \in Call, NEW d \in Call \ {c}, NEW k \in Key, FreshFor(d, k), DeletesFor(d, k),
           Did("put", k)' = Did("put", k), Did("put", k) \subseteq Call \ {c},
           UNCHANGED <<docs, wroteAt>>, pc'[d] = pc[d], got'[d] = got[d], readAt'[d] = readAt[d],
           \A e \in Call \ {c} : req'[e] = req[e]
    PROVE  FreshFor(d, k)' /\ DeletesFor(d, k)'
<1>1. (Puts(d, k)' <=> Puts(d, k)) /\ (Pending(d, k)' <=> Pending(d, k)) /\ (Deletes(d, k)' <=> Deletes(d, k))
    BY DEF Puts, Pending, Started, Deletes
<1>2. ChangedSince(d, k) => ChangedSince(d, k)'
    BY DEF ChangedSince
<1> QED BY <1>1, <1>2 DEF FreshFor, DeletesFor

\* A call begins, knowing the row there is.
LEMMA GoesKeeps ==
    ASSUME IInv, NEW c \in Call, NEW r \in Request, NEW g \in Document \cup {None}, Goes(c, r, g),
           r.op = "put" => /\ g = docs[r.key]
                           /\ r.ifVersion # None => g # None /\ g.version = r.ifVersion,
           r.op = "delete" => g # None /\ g = docs[r.key]
    PROVE  IInv'
<1> USE DEF IInv, InFlight
<1>1. /\ pc[c] = "idle" /\ pc' = [pc EXCEPT ![c] = "flush"]
      /\ req' = [req EXCEPT ![c] = r] /\ got' = [got EXCEPT ![c] = g]
      /\ readAt' = [readAt EXCEPT ![c] = Count]
      /\ UNCHANGED <<collection, docs, stamp, wroteAt, cursor, cache>>
    BY DEF Goes, Goto, tables, client, Count
<1>2. c \notin Committed /\ Count \in Nat
    BY <1>1, CountIsNat DEF Typed
<1>3. /\ pc'[c] = "flush" /\ req'[c] = r /\ got'[c] = g /\ readAt'[c] = Count
      /\ \A d \in Call \ {c} : pc'[d] = pc[d] /\ req'[d] = req[d] /\ got'[d] = got[d] /\ readAt'[d] = readAt[d]
    BY <1>1 DEF Typed, TypeOK
<1>4. /\ Committed' = Committed /\ Count' = Count
      /\ \A k \in Key : Did("put", k)' = Did("put", k) /\ Did("delete", k)' = Did("delete", k)
      /\ \A k \in Key : Did("put", k) \subseteq Call \ {c}
      /\ \A k \in Key, d \in Call, n \in Nat :
            (Renewed(k, d, n)' <=> Renewed(k, d, n)) /\ (SetBack(k, d, n)' <=> SetBack(k, d, n))
      /\ History'
    BY <1>1, <1>2, <1>3, HistoryStays
<1>5. Typed'
    <2>1. TypeOK'
        BY <1>1, <1>2 DEF Typed, TypeOK
    <2>2. ASSUME NEW d \in Call
          PROVE  /\ Started(d)' => req'[d] \in Request
                 /\ d \in Committed <=> pc'[d] = "ended"
                 /\ Started(d)' /\ req'[d].op = "put" /\ req'[d].ifVersion # None =>
                       got'[d] # None /\ got'[d].version = req'[d].ifVersion
        <3>1. CASE d = c
            BY <1>2, <1>3, <3>1
        <3>2. CASE d # c
            BY <1>3, <3>2 DEF Typed, Started
        <3> QED BY <3>1, <3>2
    <2> QED BY <1>4, <2>1, <2>2 DEF Typed
<1>6. Counted'
    BY <1>1, <1>2, <1>3, <1>4 DEF Counted
<1>7. Stamped'
    BY <1>1, <1>3 DEF Stamped
<1>8. Exclusive' /\ Locked'
    BY <1>1, <1>3 DEF Exclusive, Locked, SameRow
<1>9. ReadsAreFresh'
    <2> SUFFICES ASSUME NEW d \in Call, NEW k \in Key PROVE FreshFor(d, k)' /\ DeletesFor(d, k)'
        BY DEF ReadsAreFresh
    <2>1. CASE d = c
        <3>1. Puts(c, k)' => got'[c] = docs[k]
            BY <1>3 DEF Puts
        <3>2. docs[k] # None => docs[k].row \in Did("put", k) \cup {Earlier}
                                /\ docs[k].expires \in Did("put", k) \cup {None}
            BY DEF History, Kept, KeptAt, ExplainedAt, Left
        <3>3. FreshFor(c, k)'
            BY <1>1, <1>4, <3>1, <3>2 DEF FreshFor
        <3>4. DeletesFor(c, k)'
            BY <1>1, <1>3 DEF DeletesFor, Deletes
        <3> QED BY <2>1, <3>3, <3>4
    <2>2. CASE d # c
        BY <1>1, <1>3, <1>4, <2>2, FreshStays DEF ReadsAreFresh
    <2> QED BY <2>1, <2>2
<1>10. WinsOnce'
    <2> SUFFICES ASSUME NEW k \in Key, NEW x \in Did("put", k), NEW d \in Call, Puts(d, k)',
                        req'[x].ifVersion = req'[d].ifVersion, req'[x].ifVersion # None,
                        wroteAt[x] <= readAt'[d]
                 PROVE  Renewed(k, x, readAt'[d]) \/ SetBack(k, x, readAt'[d])
        <3>1. \A d \in Call : readAt'[d] \in Nat
            BY <1>5 DEF Typed, TypeOK
        <3>2. \A k \in Key : Did("put", k) \subseteq Call
            BY <1>4
        <3> QED BY <1>1, <1>4, <3>1, <3>2 DEF WinsOnce
    <2>1. x # c /\ x \in Call /\ req'[x] = req[x] /\ Started(x) /\ req[x].op = "put" /\ req[x].key = k
        BY <1>3, <1>4 DEF Did, Typed, Started
    <2>2. CASE d = c
        <3>1. r.op = "put" /\ r.key = k /\ r.ifVersion = req[x].ifVersion /\ r.ifVersion # None
            BY <1>3, <2>1, <2>2 DEF Puts
        <3>2. docs[k] # None /\ docs[k].version = req[x].ifVersion
            BY <3>1
        <3>3. got[x] # None /\ got[x].version = req[x].ifVersion
            BY <2>1, <3>1 DEF Typed
        <3>4. docs[k].version \in Nat
            BY <3>2 DEF Typed, TypeOK, Document
        <3>5. Renewed(k, x, Count) \/ SetBack(k, x, Count)
            BY <3>2, <3>3, <3>4 DEF History, Kept, KeptAt, PassedAt
        <3> QED BY <1>3, <2>2, <3>5
    <2>3. CASE d # c
        BY <1>3, <2>1, <2>3 DEF WinsOnce, Puts, Started
    <2> QED BY <2>2, <2>3
<1> QED BY <1>4, <1>5, <1>6, <1>7, <1>8, <1>9, <1>10 DEF InFlight

\* What holds of the calls that go on is kept when one leaves.
LEMMA LeavesKeeps == ASSUME IInv, NEW c \in Call, pc[c] \in {"idle", "flush", "commit"}, Leaves(c) PROVE IInv'
<1> USE DEF IInv, InFlight
<1>1. /\ pc' = [pc EXCEPT ![c] = "left"]
      /\ req' = [req EXCEPT ![c] = None] /\ got' = [got EXCEPT ![c] = None]
      /\ stamp' = [stamp EXCEPT ![c] = 0] /\ readAt' = [readAt EXCEPT ![c] = 0]
      /\ UNCHANGED <<collection, docs, wroteAt, cursor, cache>>
    BY DEF Leaves, Goto, tables, client
<1>2. c \notin Committed /\ Count \in Nat
    BY CountIsNat DEF Typed
<1>3. /\ pc'[c] = "left" /\ readAt'[c] = 0
      /\ \A d \in Call \ {c} : /\ pc'[d] = pc[d] /\ req'[d] = req[d] /\ got'[d] = got[d]
                               /\ readAt'[d] = readAt[d] /\ stamp'[d] = stamp[d]
    BY <1>1 DEF Typed, TypeOK
<1>4. /\ Committed' = Committed /\ Count' = Count
      /\ \A k \in Key : Did("put", k)' = Did("put", k) /\ Did("delete", k)' = Did("delete", k)
      /\ \A k \in Key : Did("put", k) \subseteq Call \ {c}
      /\ \A k \in Key, d \in Call, n \in Nat :
            (Renewed(k, d, n)' <=> Renewed(k, d, n)) /\ (SetBack(k, d, n)' <=> SetBack(k, d, n))
      /\ History'
    BY <1>1, <1>2, <1>3, HistoryStays
<1>5. Typed'
    <2>1. TypeOK'
        BY <1>1 DEF Typed, TypeOK
    <2>2. ASSUME NEW d \in Call
          PROVE  /\ Started(d)' => req'[d] \in Request
                 /\ d \in Committed <=> pc'[d] = "ended"
                 /\ Started(d)' /\ req'[d].op = "put" /\ req'[d].ifVersion # None =>
                       got'[d] # None /\ got'[d].version = req'[d].ifVersion
        <3>1. CASE d = c
            BY <1>2, <1>3, <3>1 DEF Started
        <3>2. CASE d # c
            BY <1>3, <3>2 DEF Typed, Started
        <3> QED BY <3>1, <3>2
    <2> QED BY <1>4, <2>1, <2>2 DEF Typed
<1>6. Counted' /\ Stamped'
    BY <1>1, <1>2, <1>3, <1>4 DEF Counted, Stamped
<1>7. Exclusive' /\ Locked'
    BY <1>1, <1>3 DEF Exclusive, Locked, SameRow
<1>8. \A d \in Call, k \in Key : Puts(d, k)' => d # c /\ Puts(d, k)
    BY <1>3 DEF Puts, Started
<1>9. ReadsAreFresh'
    <2> SUFFICES ASSUME NEW d \in Call, NEW k \in Key PROVE FreshFor(d, k)' /\ DeletesFor(d, k)'
        BY DEF ReadsAreFresh
    <2>1. CASE d = c
        BY <1>3, <2>1 DEF FreshFor, DeletesFor, Puts, Started, Deletes
    <2>2. CASE d # c
        BY <1>1, <1>3, <1>4, <2>2, FreshStays DEF ReadsAreFresh
    <2> QED BY <2>1, <2>2
<1>10. WinsOnce'
    <2>1. \A k \in Key : \A d \in Did("put", k) : d \in Call \ {c}
        BY <1>4
    <2>2. \A d \in Call : readAt[d] \in Nat
        BY DEF Typed, TypeOK
    <2> QED BY <1>1, <1>3, <1>4, <1>8, <2>1, <2>2 DEF WinsOnce
<1> QED BY <1>4, <1>5, <1>6, <1>7, <1>9, <1>10

\* A write is sent when no other call has the key, and the row is as it expects.
LEMMA FlushesKeeps ==
    ASSUME IInv, NEW c \in Call, NEW times \in SUBSET Nat, pc[c] = "flush", Flushes(c, times),
           req[c].op = "put" => times = Clock,
           req[c].op = "create" \/ ~Held(c),
           req[c].op = "put" => IF got[c] = None THEN docs[req[c].key] = None ELSE SameRow(c)
    PROVE  IInv'
<1> USE DEF IInv, InFlight
<1>1. PICK t \in times :
      /\ pc' = [pc EXCEPT ![c] = "commit"] /\ stamp' = [stamp EXCEPT ![c] = t]
      /\ UNCHANGED <<collection, docs, req, got, readAt, wroteAt, cursor, cache>>
    BY DEF Flushes, Goto, tables, client
<1>2. c \notin Committed
    BY DEF Typed
<1>3. /\ pc'[c] = "commit" /\ stamp'[c] = t
      /\ \A d \in Call \ {c} : pc'[d] = pc[d] /\ stamp'[d] = stamp[d]
    BY <1>1 DEF Typed, TypeOK
<1>4. /\ Committed' = Committed /\ Count' = Count
      /\ \A k \in Key : Did("put", k)' = Did("put", k)
      /\ \A k \in Key : Did("put", k) \subseteq Call \ {c}
      /\ \A k \in Key, d \in Call, n \in Nat :
            (Renewed(k, d, n)' <=> Renewed(k, d, n)) /\ (SetBack(k, d, n)' <=> SetBack(k, d, n))
      /\ History'
    BY <1>1, <1>2, <1>3, HistoryStays
<1>5. \A d \in Call : Started(d)' = Started(d) /\ (pc'[d] = "ended" <=> pc[d] = "ended")
    BY <1>3 DEF Started
<1>6. Typed'
    <2>1. TypeOK'
        BY <1>1 DEF Typed, TypeOK
    <2> QED BY <1>1, <1>4, <1>5, <2>1 DEF Typed
<1>7. Counted'
    BY <1>1, <1>4 DEF Counted
<1>8. Stamped'
    <2>1. req[c].op = "put" => t > 0
        <3>1. \A x \in Clock : x \in Nat \ {0}
            BY ConstantsAssumption
        <3>2. \A x \in Nat \ {0} : x > 0
            OBVIOUS
        <3> QED BY <1>1, <3>1, <3>2
    <2>2. UNCHANGED req
        BY <1>1
    <2> QED BY <1>3, <2>1, <2>2 DEF Stamped
<1>9. Exclusive'
    BY <1>1, <1>3 DEF Exclusive, Held
<1>10. Locked'
    BY <1>1, <1>3 DEF Locked, SameRow
<1>11. \A d \in Call, k \in Key : (Puts(d, k)' <=> Puts(d, k)) /\ (Pending(d, k)' <=> Pending(d, k))
    BY <1>1, <1>5 DEF Puts, Pending
<1>12. ReadsAreFresh'
    <2> SUFFICES ASSUME NEW d \in Call, NEW k \in Key PROVE FreshFor(d, k)' /\ DeletesFor(d, k)'
        BY DEF ReadsAreFresh
    <2>1. (ChangedSince(d, k)' <=> ChangedSince(d, k)) /\ (Deletes(d, k)' <=> Deletes(d, k))
        BY <1>1, <1>3, <1>4 DEF ChangedSince, Deletes
    <2> QED BY <1>1, <1>4, <1>11, <2>1 DEF ReadsAreFresh, FreshFor, DeletesFor
<1>13. WinsOnce'
    <2>1. \A k \in Key : \A d \in Did("put", k) : d \in Call
        BY <1>4
    <2>2. \A d \in Call : readAt[d] \in Nat
        BY DEF Typed, TypeOK
    <2> QED BY <1>1, <1>4, <1>11, <2>1, <2>2 DEF WinsOnce
<1> QED BY <1>4, <1>6, <1>7, <1>8, <1>9, <1>10, <1>12, <1>13

-----------------------------------------------------------------------------
(* What a commit counts, whatever it writes.                               *)

LEMMA CommitCounts ==
    ASSUME IInv, NEW c \in Call, NEW op, Commits(c, op)
    PROVE  /\ pc[c] = "commit" /\ req[c].op = op /\ req[c] \in Request /\ c \notin Committed
           /\ pc' = [pc EXCEPT ![c] = "ended"] /\ wroteAt' = [wroteAt EXCEPT ![c] = 1 + Count]
           /\ UNCHANGED <<req, got, stamp, readAt, cursor, cache>>
           /\ pc'[c] = "ended" /\ wroteAt'[c] = Count + 1 /\ Count \in Nat
           /\ \A d \in Call \ {c} : pc'[d] = pc[d] /\ wroteAt'[d] = wroteAt[d]
           /\ Committed' = Committed \cup {c} /\ Count' = Count + 1
           /\ Counted' /\ Stamped' /\ Exclusive'
           /\ \A d \in Call : d \in Committed' <=> pc'[d] = "ended"
<1> USE DEF IInv, InFlight
<1>1. /\ pc[c] = "commit" /\ req[c].op = op
      /\ pc' = [pc EXCEPT ![c] = "ended"] /\ wroteAt' = [wroteAt EXCEPT ![c] = 1 + Count]
      /\ UNCHANGED <<req, got, stamp, readAt, cursor, cache>>
    BY DEF Commits, Goto, client, Count
<1>2. c \notin Committed /\ Count \in Nat /\ req[c] \in Request
    BY <1>1, CountIsNat DEF Typed, Started
<1>3. /\ pc'[c] = "ended" /\ wroteAt'[c] = Count + 1
      /\ \A d \in Call \ {c} : pc'[d] = pc[d] /\ wroteAt'[d] = wroteAt[d]
    BY <1>1, <1>2 DEF Typed, TypeOK
<1>4. Committed' = Committed \cup {c}
    BY <1>2, <1>3 DEF Committed
<1>5. IsFiniteSet(Committed') /\ Count' = Count + 1
    <2>1. IsFiniteSet(Committed)
        BY DEF Counted
    <2>2. IsFiniteSet(Committed \cup {c}) /\ Cardinality(Committed \cup {c}) = Cardinality(Committed) + 1
        BY <1>2, <2>1, FS_AddElement
    <2> QED BY <1>4, <2>2 DEF Count
<1>6. Counted'
    <2>1. \A d \in Call : readAt[d] \in Nat /\ wroteAt[d] \in Nat
        BY DEF Typed, TypeOK
    <2> QED BY <1>1, <1>2, <1>3, <1>5, <2>1 DEF Counted
<1>7. Stamped' /\ Exclusive'
    BY <1>1, <1>3 DEF Stamped, Exclusive
<1>8. \A d \in Call : d \in Committed' <=> pc'[d] = "ended"
    BY <1>3, <1>4 DEF Typed
<1> QED BY <1>1, <1>2, <1>3, <1>4, <1>5, <1>6, <1>7, <1>8

LEMMA DidGrows ==
    ASSUME IInv, NEW c \in Call, NEW op, Commits(c, op), NEW k \in Key
    PROVE  /\ Did("put", k)' = IF op = "put" /\ req[c].key = k THEN Did("put", k) \cup {c} ELSE Did("put", k)
           /\ Did("delete", k)' = IF op = "delete" /\ req[c].key = k THEN Did("delete", k) \cup {c}
                                  ELSE Did("delete", k)
           /\ Did("put", k) \subseteq Committed /\ Did("delete", k) \subseteq Committed
           /\ \A d \in Committed : d # c /\ d \in Call /\ wroteAt'[d] = wroteAt[d] /\ wroteAt[d] \in Nat
                                   /\ wroteAt[d] <= Count /\ readAt[d] \in Nat
<1>1. /\ req[c].op = op /\ c \notin Committed /\ UNCHANGED req /\ Committed' = Committed \cup {c}
      /\ \A d \in Call \ {c} : wroteAt'[d] = wroteAt[d]
    BY CommitCounts
<1>2. \A d \in Committed : d # c /\ d \in Call /\ wroteAt'[d] = wroteAt[d] /\ wroteAt[d] \in Nat
                           /\ wroteAt[d] <= Count /\ readAt[d] \in Nat
    BY <1>1 DEF Committed, IInv, Typed, TypeOK, Counted
<1> QED BY <1>1, <1>2 DEF Did

\* The exceptions stay.
LEMMA ExceptionsStay ==
    ASSUME IInv, NEW c \in Call, NEW op, Commits(c, op), NEW k \in Key, NEW d \in Did("put", k),
           NEW n \in Nat, NEW m \in Nat, n <= m
    PROVE  (Renewed(k, d, n) => Renewed(k, d, m)') /\ (SetBack(k, d, n) => SetBack(k, d, m)')
<1>1. /\ UNCHANGED <<got, readAt>>
      /\ Did("put", k) \subseteq Did("put", k)' /\ Did("delete", k) \subseteq Did("delete", k)'
      /\ \A x \in Did("put", k) \cup Did("delete", k) :
            wroteAt'[x] = wroteAt[x] /\ wroteAt[x] \in Nat
    BY CommitCounts, DidGrows
<1>2. ASSUME Renewed(k, d, n) PROVE Renewed(k, d, m)'
    <2>1. PICK e \in Did("delete", k), f \in Did("put", k) :
              got[f] = None /\ wroteAt[d] < wroteAt[e] /\ wroteAt[e] < wroteAt[f] /\ wroteAt[f] <= n
        BY <1>2 DEF Renewed
    <2>2. wroteAt[f] <= m
        BY <1>1, <2>1
    <2>3. /\ e \in Did("delete", k)' /\ f \in Did("put", k)' /\ got'[f] = None
          /\ wroteAt'[d] < wroteAt'[e] /\ wroteAt'[e] < wroteAt'[f] /\ wroteAt'[f] <= m
        BY <1>1, <2>1, <2>2
    <2> QED BY <2>3 DEF Renewed
<1>3. ASSUME SetBack(k, d, n) PROVE SetBack(k, d, m)'
    <2>1. PICK x \in Did("put", k), y \in Did("put", k) :
              /\ readAt[x] < wroteAt[y]
              /\ wroteAt[d] <= wroteAt[y] /\ wroteAt[y] < wroteAt[x] /\ wroteAt[x] <= n
        BY <1>3 DEF SetBack
    <2>2. wroteAt[x] <= m
        BY <1>1, <2>1
    <2>3. /\ x \in Did("put", k)' /\ y \in Did("put", k)' /\ readAt'[x] < wroteAt'[y]
          /\ wroteAt'[d] <= wroteAt'[y] /\ wroteAt'[y] < wroteAt'[x] /\ wroteAt'[x] <= m
        BY <1>1, <2>1, <2>2
    <2> QED BY <2>3 DEF SetBack
<1> QED BY <1>2, <1>3

\* What a commit does to the calls in flight, if it changes no document but its own.
LEMMA CommitKeepsFlight ==
    ASSUME IInv, NEW c \in Call, NEW op, Commits(c, op),
           \A k \in Key : docs'[k] = docs[k] \/ (op # "create" /\ k = req[c].key)
    PROVE  Locked' /\ WinsOnce' /\ CursorKnown'
<1> USE DEF IInv, InFlight
<1>1. /\ pc[c] = "commit" /\ req[c].op = op
      /\ UNCHANGED <<req, got, readAt, stamp, cursor>> /\ pc'[c] = "ended" /\ wroteAt'[c] = Count + 1
      /\ Count \in Nat /\ \A d \in Call \ {c} : pc'[d] = pc[d] /\ wroteAt'[d] = wroteAt[d]
      /\ Committed' = Committed \cup {c}
    BY CommitCounts
<1>2. Locked'
    <2> SUFFICES ASSUME NEW d \in Call, pc'[d] = "commit", req[d].op = "put"
                 PROVE  IF got[d] = None THEN docs'[req[d].key] = None ELSE SameRow(d)'
        BY <1>1 DEF Locked
    <2>1. d # c /\ pc[d] = "commit"
        BY <1>1
    <2>2. req[d].key \in Key
        BY <2>1 DEF Typed, Started, Request
    <2>3. docs'[req[d].key] = docs[req[d].key]
        BY <1>1, <2>1, <2>2 DEF Exclusive
    <2> QED BY <1>1, <2>1, <2>3 DEF Locked, SameRow
<1>3. WinsOnce'
    <2> SUFFICES ASSUME NEW k \in Key, NEW x \in Did("put", k)', NEW d \in Call, Puts(d, k)',
                        req[x].ifVersion = req[d].ifVersion, req[x].ifVersion # None,
                        wroteAt'[x] <= readAt[d]
                 PROVE  Renewed(k, x, readAt[d])' \/ SetBack(k, x, readAt[d])'
        BY <1>1 DEF WinsOnce
    <2>1. readAt[d] \in Nat /\ readAt[d] <= Count
        BY DEF Typed, TypeOK, Counted
    <2>2. x # c
        BY <1>1, <2>1
    <2>3. x \in Did("put", k) /\ wroteAt'[x] = wroteAt[x]
        BY <2>2, DidGrows
    <2>4. Puts(d, k)
        BY <1>1 DEF Puts, Started
    <2>5. Renewed(k, x, readAt[d]) \/ SetBack(k, x, readAt[d])
        BY <2>3, <2>4 DEF WinsOnce
    <2> QED BY <1>1, <2>1, <2>3, <2>5, ExceptionsStay
<1>4. CursorKnown'
    BY <1>1 DEF History, CursorKnown
<1> QED BY <1>2, <1>3, <1>4

\* A key whose document the commit leaves alone.
LEMMA KeyStays ==
    ASSUME IInv, NEW c \in Call, NEW op, Commits(c, op), NEW k \in Key,
           docs'[k] = docs[k], op = "put" => k # req[c].key,
           op = "delete" /\ k = req[c].key => docs[k] = None \/ docs[k].row # got[c].row
    PROVE  HistoryAt(k)'
<1> USE DEF IInv, InFlight, History, Kept, KeptAt
<1>1. /\ pc[c] = "commit" /\ req[c].op = op
      /\ UNCHANGED <<req, got, readAt, stamp, cursor, cache>> /\ pc'[c] = "ended"
      /\ Count \in Nat /\ Count' = Count + 1 /\ \A d \in Call \ {c} : pc'[d] = pc[d]
      /\ Committed' = Committed \cup {c} /\ wroteAt'[c] = Count + 1
    BY CommitCounts
<1>2. /\ Did("put", k)' = Did("put", k)
      /\ Did("delete", k)' = IF op = "delete" /\ req[c].key = k THEN Did("delete", k) \cup {c}
                             ELSE Did("delete", k)
      /\ Did("put", k) \subseteq Committed /\ Did("delete", k) \subseteq Committed
      /\ \A d \in Committed : d # c /\ d \in Call /\ wroteAt'[d] = wroteAt[d] /\ wroteAt[d] \in Nat
                              /\ wroteAt[d] <= Count /\ readAt[d] \in Nat
    BY <1>1, DidGrows
<1>3. \A d, e \in Committed : Overlap(d, e)' <=> Overlap(d, e)
    BY <1>1, <1>2 DEF Overlap
<1>4. PICK w, r, v : docs[k] # None => w = docs[k].writer /\ r = docs[k].row /\ v = docs[k].version
    OBVIOUS
<1>5. docs[k] # None => docs[k] = Left \/ w \in Did("put", k)
    BY <1>4 DEF ExplainedAt
<1>6. PutsOn(k, r)' = PutsOn(k, r) /\ PutsOn(k, r) \subseteq Committed
    BY <1>1, <1>2 DEF PutsOn
<1>7. ExplainedAt(k)'
    BY <1>1, <1>2, <1>4, <1>6 DEF ExplainedAt
<1>8. PassedAt(k)'
    <2> PICK n \in Nat, m \in Nat : n = Count /\ m = Count + 1
        BY <1>1
    <2> SUFFICES ASSUME NEW x \in Did("put", k), got[x] # None
                 PROVE  \/ docs[k] # None /\ got[x].version < docs[k].version
                        \/ docs[k] = None /\ \E e \in Did("delete", k)' : wroteAt'[x] < wroteAt'[e]
                        \/ Renewed(k, x, m)' \/ SetBack(k, x, m)'
        BY <1>1, <1>2 DEF PassedAt, Renewed, SetBack
    <2>1. (Renewed(k, x, n) => Renewed(k, x, m)') /\ (SetBack(k, x, n) => SetBack(k, x, m)')
        BY ExceptionsStay
    <2> QED BY <1>2, <2>1 DEF PassedAt
<1>9. ValuedAt(k)'
    BY <1>1, <1>2, <1>3, <1>4, <1>5 DEF ValuedAt
<1>10. ExpiryAt(k)'
    <2>1. ExpiresAt(w)' = ExpiresAt(w)
        BY <1>1 DEF ExpiresAt
    <2> QED BY <1>1, <1>2, <1>3, <1>4, <1>5, <2>1 DEF ExpiryAt
<1>11. StandsAt(k)'
    <2>1. CASE op = "delete" /\ req[c].key = k
        <3>1. \A x \in Did("put", k)' \cup Did("delete", k)' :
                 x = c \/ (wroteAt'[x] \in Nat /\ wroteAt'[x] <= Count)
            BY <1>2
        <3>2. c \in Did("delete", k)' /\ ~(Count + 1 <= Count)
            BY <1>1, <1>2, <2>1
        <3>3. docs[k] = None \/ \E d \in Did("put", k) : Overlap(c, d)'
            <4>1. DeletesFor(c, k) /\ Deletes(c, k)
                BY <1>1, <2>1 DEF ReadsAreFresh, Deletes
            <4>2. ASSUME docs[k] # None PROVE r \in Did("put", k) /\ readAt[c] < wroteAt[r]
                BY <1>4, <2>1, <4>1, <4>2 DEF DeletesFor
            <4>3. ASSUME docs[k] # None PROVE readAt[r] <= Count /\ readAt[r] \in Nat
                BY <1>2, <4>2, <4>3 DEF Counted, Typed, TypeOK
            <4> QED BY <1>1, <1>2, <4>2, <4>3 DEF Overlap
        <3> QED BY <1>1, <1>2, <2>1, <3>1, <3>2, <3>3 DEF StandsAt
    <2>2. CASE ~(op = "delete" /\ req[c].key = k)
        <3>1. Did("delete", k)' = Did("delete", k)
            BY <1>2, <2>2
        <3> QED BY <1>1, <1>2, <1>3, <3>1 DEF StandsAt
    <2> QED BY <2>1, <2>2
<1>12. CountsAt(k)'
    <2>1. Counts(k, r, v) => Counts(k, r, v)'
        BY <1>3, <1>6 DEF Counts
    <2> QED BY <1>4, <2>1 DEF CountsAt
<1>13. MissesAt(k)'
    <2>1. ASSUME w \in Did("put", k), Overtaken(w) PROVE Overtaken(w)'
        <3>1. PICK d \in Committed :
                  (d # w /\ stamp[w] = stamp[d]) \/ (stamp[w] < stamp[d] /\ wroteAt[d] < wroteAt[w])
            BY <2>1 DEF Overtaken
        <3>2. d \in Committed' /\ wroteAt'[d] = wroteAt[d] /\ wroteAt'[w] = wroteAt[w]
            BY <1>1, <1>2, <2>1
        <3> QED BY <1>1, <3>1, <3>2 DEF Overtaken
    <2>2. docs[k] # None => w \in Did("put", k) \/ w = cache[k]
        BY <1>4 DEF ExplainedAt, Left
    <2> QED BY <1>1, <1>4, <2>1, <2>2 DEF MissesAt
<1>14. ASSUME NEW d \in Call PROVE FreshFor(d, k)' /\ DeletesFor(d, k)'
    <2>1. CASE d = c
        BY <1>1, <2>1 DEF FreshFor, DeletesFor, Puts, Deletes
    <2>2. CASE d # c
        <3>1. /\ Puts(d, k)' <=> Puts(d, k)
              /\ Pending(d, k)' <=> Pending(d, k)
              /\ Deletes(d, k)' <=> Deletes(d, k)
            BY <1>1, <2>2 DEF Puts, Pending, Started, Deletes
        <3>2. docs[k] # None => docs[k].expires \in Did("put", k) \cup {None}
            BY DEF ExplainedAt, Left
        <3>3. docs[k] # None => (ChangedSince(d, k) => ChangedSince(d, k)')
            BY <1>1, <1>2, <3>2 DEF ChangedSince
        <3> QED BY <1>1, <1>2, <3>1, <3>3 DEF ReadsAreFresh, FreshFor, DeletesFor
    <2> QED BY <2>1, <2>2
<1> QED BY <1>7, <1>8, <1>9, <1>10, <1>11, <1>12, <1>13, <1>14 DEF HistoryAt

\* A key whose document a commit deletes.
LEMMA DeleteKeepsKey ==
    ASSUME IInv, NEW c \in Call, NEW k \in Key, Commits(c, "delete"), req[c].key = k, docs'[k] = None
    PROVE  HistoryAt(k)'
<1> USE DEF IInv, InFlight, History
<1>1. /\ pc[c] = "commit" /\ req[c].op = "delete"
      /\ UNCHANGED <<req, got, readAt, stamp>> /\ pc'[c] = "ended" /\ wroteAt'[c] = Count + 1
      /\ Count \in Nat /\ \A d \in Call \ {c} : pc'[d] = pc[d]
    BY CommitCounts
<1>2. /\ Did("put", k)' = Did("put", k) /\ Did("delete", k)' = Did("delete", k) \cup {c}
      /\ \A d \in Did("put", k) \cup Did("delete", k) : wroteAt'[d] < wroteAt'[c] /\ wroteAt'[d] \in Nat
    BY <1>1, DidGrows
<1>3. ExplainedAt(k)' /\ ValuedAt(k)' /\ ExpiryAt(k)' /\ CountsAt(k)' /\ MissesAt(k)'
    BY DEF ExplainedAt, ValuedAt, ExpiryAt, CountsAt, MissesAt
<1>4. PassedAt(k)'
    BY <1>2 DEF PassedAt
<1>5. StandsAt(k)'
    <2>1. c \in Did("delete", k)' /\ wroteAt'[c] \in Nat
        BY <1>1, <1>2
    <2>2. \A x \in Did("put", k)' \cup Did("delete", k)' : wroteAt'[c] <= wroteAt'[x] => x = c
        BY <1>2, <2>1
    <2> QED BY <1>1, <2>1, <2>2 DEF StandsAt
<1>6. ASSUME NEW d \in Call PROVE FreshFor(d, k)' /\ DeletesFor(d, k)'
    <2>1. CASE d = c
        BY <1>1, <2>1 DEF FreshFor, DeletesFor, Puts, Deletes
    <2>2. CASE d # c
        BY <1>1, <1>2, <2>2 DEF ReadsAreFresh, FreshFor, DeletesFor, Puts, Started, Deletes
    <2> QED BY <2>1, <2>2
<1> QED BY <1>3, <1>4, <1>5, <1>6 DEF HistoryAt, KeptAt

\* What every put that commits makes of its document.
LEMMA PutWrites ==
    ASSUME IInv, NEW c \in Call, NEW k \in Key, Commits(c, "put"), req[c].key = k,
           docs'[k] = IF got[c] = None THEN Inserted(c) ELSE Updated(c, docs[k])
    PROVE  /\ ExpiresAt(c) \in {c, None}
           /\ got[c] = None => docs[k] = None /\ docs'[k] = Inserted(c)
           /\ got[c] # None => /\ docs[k] \in Document /\ got[c] \in Document /\ docs[k].row = got[c].row
                               /\ docs'[k].row = docs[k].row /\ docs'[k].version = got[c].version + 1
                               /\ docs'[k].value = Set(req[c].value, got[c].value, docs[k].value)
                               /\ docs'[k].expires = Set(ExpiresAt(c), got[c].expires, docs[k].expires)
           /\ docs'[k].writer = c /\ docs'[k].updated = stamp[c]
           /\ docs'[k] \in Document /\ docs'[k] # None /\ docs'[k] # Left
<1> USE DEF IInv, InFlight
<1>1. pc[c] = "commit" /\ req[c].op = "put" /\ stamp[c] \in Nat /\ req[c].value \in Value
    <2>1. pc[c] = "commit" /\ req[c].op = "put" /\ req[c] \in Request
        BY CommitCounts
    <2> QED BY <2>1 DEF Typed, TypeOK, Request
<1>2. ExpiresAt(c) \in {c, None}
    BY DEF ExpiresAt
<1>3. c # Earlier
    BY ConstantsAssumption
<1>4. CASE got[c] = None
    <2>1. docs'[k] = Inserted(c) /\ docs[k] = None
        BY <1>1, <1>4 DEF Locked
    <2>2. docs'[k] \in Document /\ docs'[k].writer = c /\ docs'[k].updated = stamp[c]
        BY <1>1, <1>2, <2>1 DEF Inserted, Document
    <2> QED BY <1>2, <1>3, <1>4, <2>1, <2>2, NoneAssumption DEF Left
<1>5. CASE got[c] # None
    <2>1. docs[k] # None /\ docs[k].row = got[c].row
        BY <1>1, <1>5 DEF Locked, SameRow
    <2>2. docs[k] \in Document /\ got[c] \in Document
        BY <1>5, <2>1 DEF Typed, TypeOK
    <2>3. /\ got[c].version + 1 \in Nat
          /\ docs[k].expires \in Call \cup {None} /\ docs[k].value \in Value
        BY <2>2 DEF Document
    <2> PICK v \in Nat : v = got[c].version + 1
        BY <2>3
    <2> PICK y \in Value : y = Set(req[c].value, got[c].value, docs[k].value)
        BY <1>1, <2>3 DEF Set
    <2> PICK x \in Call \cup {None} : x = Set(ExpiresAt(c), got[c].expires, docs[k].expires)
        BY <1>2, <2>3 DEF Set
    <2>4. docs'[k] = [docs[k] EXCEPT !.version = v, !.writer = c, !.updated = stamp[c], !.value = y, !.expires = x]
        BY <1>5 DEF Updated
    <2>5. /\ docs'[k] \in Document /\ docs'[k].row = docs[k].row /\ docs'[k].version = v
          /\ docs'[k].writer = c /\ docs'[k].updated = stamp[c] /\ docs'[k].value = y /\ docs'[k].expires = x
        BY <1>1, <2>2, <2>4 DEF Document
    <2> QED BY <1>2, <1>3, <1>5, <2>1, <2>2, <2>5, NoneAssumption DEF Left
<1> QED BY <1>4, <1>5

\* The put of a row that another has changed since it was loaded overlaps that one.
LEMMA PutKeepsKey ==
    ASSUME IInv, NEW c \in Call, NEW k \in Key, Commits(c, "put"), req[c].key = k,
           docs'[k] = IF got[c] = None THEN Inserted(c) ELSE Updated(c, docs[k])
    PROVE  HistoryAt(k)'
<1> USE DEF IInv, InFlight, History, Kept, KeptAt
<1>1. /\ pc[c] = "commit" /\ req[c].op = "put" /\ req[c] \in Request /\ c \notin Committed
      /\ UNCHANGED <<req, got, readAt, stamp, cursor, cache>> /\ pc'[c] = "ended"
      /\ wroteAt'[c] = Count + 1 /\ Count \in Nat /\ Count' = Count + 1
      /\ Committed' = Committed \cup {c} /\ \A d \in Call \ {c} : pc'[d] = pc[d]
    BY CommitCounts
<1>2. /\ Did("put", k)' = Did("put", k) \cup {c} /\ Did("delete", k)' = Did("delete", k)
      /\ Did("put", k) \subseteq Committed /\ Did("delete", k) \subseteq Committed
      /\ \A d \in Committed : d # c /\ d \in Call /\ wroteAt'[d] = wroteAt[d] /\ wroteAt[d] \in Nat
                              /\ wroteAt[d] <= Count /\ readAt[d] \in Nat
    BY <1>1, DidGrows
<1>3. /\ ExpiresAt(c) \in {c, None}
      /\ got[c] = None => docs[k] = None /\ docs'[k] = Inserted(c)
      /\ got[c] # None => /\ docs[k] \in Document /\ got[c] \in Document /\ docs[k].row = got[c].row
                          /\ docs'[k].row = docs[k].row /\ docs'[k].version = got[c].version + 1
                          /\ docs'[k].value = Set(req[c].value, got[c].value, docs[k].value)
                          /\ docs'[k].expires = Set(ExpiresAt(c), got[c].expires, docs[k].expires)
      /\ docs'[k].writer = c /\ docs'[k].updated = stamp[c]
      /\ docs'[k] \in Document /\ docs'[k] # None /\ docs'[k] # Left
    BY PutWrites
<1>4. /\ got[c] = None => /\ docs'[k].row = c /\ docs'[k].version = 1
                          /\ docs'[k].value = req[c].value /\ docs'[k].expires = ExpiresAt(c)
      /\ c # None /\ c # Earlier /\ (got[c] # None => docs[k] # None)
    BY <1>3, ConstantsAssumption, NoneAssumption DEF Inserted
<1>5. /\ KeptAt(k) /\ Pending(c, k) /\ Puts(c, k) /\ FreshFor(c, k)
      /\ \A d \in Call : readAt[d] \in Nat /\ readAt[d] <= Count
    BY <1>1 DEF Pending, Puts, Started, Typed, TypeOK, Counted, ReadsAreFresh
<1>6. got[c] # None => /\ got[c].row \in Did("put", k) \cup {Earlier}
                       /\ got[c].expires \in Did("put", k) \cup {None}
                       /\ docs[k] = got[c] \/ ChangedSince(c, k)
    BY <1>3, <1>4, <1>5 DEF FreshFor
<1>7. \A d \in Did("put", k) : readAt[c] < wroteAt[d] => Overlap(d, c)'
    BY <1>1, <1>2, <1>5 DEF Overlap
<1>8. \A d, e \in Committed : Overlap(d, e)' <=> Overlap(d, e)
    BY <1>1, <1>2 DEF Overlap
<1>9. docs[k] # None => docs[k].row \in Did("put", k) \cup {Earlier}
                        /\ docs[k].expires \in Did("put", k) \cup {None}
    BY DEF ExplainedAt, Left
<1>10. \A r : r = docs'[k].row => c \in PutsOn(k, r)'
    BY <1>1, <1>2, <1>3, <1>4 DEF PutsOn
<1>11. ExplainedAt(k)'
    <2>1. docs'[k].row \in Did("put", k)' \cup {Earlier} /\ docs'[k].expires \in Did("put", k)' \cup {None}
        BY <1>2, <1>3, <1>4, <1>9 DEF Set
    <2>2. \A d \in Did("put", k)' : wroteAt'[d] <= wroteAt'[c]
        BY <1>1, <1>2
    <2> QED BY <1>1, <1>2, <1>3, <1>10, <2>1, <2>2 DEF ExplainedAt
<1>12. PassedAt(k)'
    <2> PICK n \in Nat, m \in Nat : n = Count /\ m = Count + 1
        BY <1>1
    <2> SUFFICES ASSUME NEW x \in Did("put", k)', got[x] # None
                 PROVE  \/ got[x].version < docs'[k].version
                        \/ Renewed(k, x, m)' \/ SetBack(k, x, m)'
        BY <1>1, <1>3 DEF PassedAt, Renewed, SetBack
    <2>1. CASE x = c
        BY <1>3, <2>1 DEF Document
    <2>2. CASE x # c /\ (Renewed(k, x, n) \/ SetBack(k, x, n))
        BY <1>2, <2>2, ExceptionsStay
    <2>3. CASE x # c /\ got[c] = None /\ \E e \in Did("delete", k) : wroteAt[x] < wroteAt[e]
        <3>1. PICK e \in Did("delete", k) : wroteAt[x] < wroteAt[e]
            BY <2>3
        <3>2. /\ e \in Did("delete", k)' /\ c \in Did("put", k)' /\ got'[c] = None
              /\ wroteAt'[x] < wroteAt'[e] /\ wroteAt'[e] < wroteAt'[c] /\ wroteAt'[c] <= m
            BY <1>1, <1>2, <2>3, <3>1
        <3> QED BY <3>2 DEF Renewed
    <2>4. CASE x # c /\ got[c] # None /\ got[x].version < docs[k].version
        <3>1. CASE docs[k] = got[c]
            <4>1. got[x] \in Document /\ docs[k] \in Document
                BY <1>2, <1>3, <2>4 DEF Typed, TypeOK
            <4> QED BY <1>3, <2>4, <3>1, <4>1 DEF Document
        <3>2. CASE docs[k] # got[c]
            <4>1. PICK y \in Did("put", k) : y = docs[k].writer /\ readAt[c] < wroteAt[y]
                BY <1>6, <2>4, <3>2 DEF ChangedSince
            <4>2. wroteAt[x] <= wroteAt[y]
                BY <1>2, <1>4, <2>4, <4>1 DEF ExplainedAt
            <4>3. /\ c \in Did("put", k)' /\ y \in Did("put", k)' /\ readAt'[c] < wroteAt'[y]
                  /\ wroteAt'[x] <= wroteAt'[y] /\ wroteAt'[y] < wroteAt'[c] /\ wroteAt'[c] <= m
                BY <1>1, <1>2, <2>4, <4>1, <4>2
            <4> QED BY <4>3 DEF SetBack
        <3> QED BY <3>1, <3>2
    <2>5. x # c => \/ docs[k] # None /\ got[x].version < docs[k].version
                   \/ docs[k] = None /\ \E e \in Did("delete", k) : wroteAt[x] < wroteAt[e]
                   \/ Renewed(k, x, n) \/ SetBack(k, x, n)
        BY <1>2, <1>5 DEF PassedAt
    <2> QED BY <1>3, <1>4, <2>1, <2>2, <2>3, <2>4, <2>5
<1>13. ValuedAt(k)'
    <2>1. CASE docs'[k].value = req[c].value
        BY <1>1, <1>2, <1>3, <2>1 DEF ValuedAt
    <2>2. CASE docs'[k].value # req[c].value
        <3>1. got[c] # None /\ docs'[k].value = docs[k].value /\ docs[k].value # got[c].value
            BY <1>3, <1>4, <2>2 DEF Set
        <3>2. PICK d \in Did("put", k) : docs[k].value = req[d].value /\ readAt[c] < wroteAt[d]
            BY <1>6, <3>1 DEF ChangedSince
        <3> QED BY <1>1, <1>2, <1>3, <1>7, <3>1, <3>2 DEF ValuedAt
    <2> QED BY <2>1, <2>2
<1>14. ExpiryAt(k)'
    <2>1. ExpiresAt(c)' = ExpiresAt(c)
        BY <1>1 DEF ExpiresAt
    <2>2. CASE docs'[k].expires = ExpiresAt(c)
        BY <1>3, <2>1, <2>2 DEF ExpiryAt
    <2>3. CASE docs'[k].expires # ExpiresAt(c)
        <3>1. got[c] # None /\ docs'[k].expires = docs[k].expires /\ docs[k].expires # got[c].expires
              /\ ExpiresAt(c) = got[c].expires
            BY <1>3, <1>4, <2>3 DEF Set
        <3>2. docs[k].expires # None
            BY <1>1, <1>2, <1>3, <1>6, <2>3, <3>1
        <3>3. docs[k].expires \in Did("put", k) /\ readAt[c] < wroteAt[docs[k].expires]
            BY <1>4, <1>6, <1>9, <3>1, <3>2 DEF ChangedSince
        <3> QED BY <1>2, <1>3, <1>7, <3>1, <3>3 DEF ExpiryAt
    <2> QED BY <2>2, <2>3
<1>15. StandsAt(k)'
    <2>1. \A x \in Did("put", k)' \cup Did("delete", k)' : x = c \/ (wroteAt'[x] \in Nat /\ wroteAt'[x] <= Count)
        BY <1>2
    <2>2. c \in Did("put", k)' /\ ~(Count + 1 <= Count)
        BY <1>1, <1>2
    <2>3. PICK d \in Did("put", k)' : docs'[k].value = req'[d].value /\ (d = c \/ Overlap(d, c)')
        BY <1>3, <1>13 DEF ValuedAt
    <2>4. Overlap(d, c)' <=> Overlap(c, d)'
        BY DEF Overlap
    <2> QED BY <1>1, <1>3, <2>1, <2>2, <2>3, <2>4 DEF StandsAt
<1>16. CountsAt(k)'
    <2>1. PICK r, v : r = docs'[k].row /\ v = docs'[k].version
        OBVIOUS
    <2> SUFFICES Counts(k, r, v)'
        BY <2>1 DEF CountsAt
    <2>2. PutsOn(k, r)' = PutsOn(k, r) \cup {c} /\ c \notin PutsOn(k, r) /\ PutsOn(k, r) \subseteq Committed
        BY <1>1, <1>2, <1>10, <2>1 DEF PutsOn
    <2>3. /\ Cardinality(PutsOn(k, r) \cup {c}) = Cardinality(PutsOn(k, r)) + 1
          /\ Cardinality(PutsOn(k, r)) \in Nat
        <3>1. IsFiniteSet(PutsOn(k, r))
            BY <2>2, FS_Subset DEF Counted
        <3> QED BY <2>2, <3>1, FS_AddElement, FS_CardinalityType
    <2>4. CASE got[c] = None
        <3>1. \A x \in Did("put", k) : x # c /\ (got[x] # None => got[x].row # c)
            <4>1. \A x \in Did("put", k) : x \in Call /\ Puts(x, k)
                BY <1>2 DEF Typed, Did, Puts, Started
            <4> QED BY <1>2, <1>4, <4>1 DEF ReadsAreFresh, FreshFor
        <3>2. PutsOn(k, r) = {}
            BY <1>4, <2>1, <2>4, <3>1 DEF PutsOn
        <3> QED BY <1>4, <2>1, <2>2, <2>3, <2>4, <3>2, FS_EmptySet DEF Counts
    <2>5. CASE got[c] # None
        <3>1. r = docs[k].row /\ Counts(k, r, docs[k].version)
            BY <1>3, <1>4, <2>1, <2>5 DEF CountsAt
        <3>2. CASE \E d, e \in PutsOn(k, r) : d # e /\ Overlap(d, e)
            BY <1>8, <2>1, <2>2, <3>2 DEF Counts
        <3>3. CASE docs[k] = got[c] /\ docs[k].version = Cardinality(PutsOn(k, r)) + (IF r = Earlier THEN 1 ELSE 0)
            BY <1>3, <2>1, <2>2, <2>3, <2>5, <3>3 DEF Counts
        <3>4. CASE docs[k] # got[c]
            <4>1. PICK y \in Did("put", k) : y = docs[k].writer /\ readAt[c] < wroteAt[y]
                BY <1>6, <2>5, <3>4 DEF ChangedSince
            <4>2. y \in PutsOn(k, r)
                BY <1>4, <2>5, <3>1, <4>1 DEF ExplainedAt
            <4> QED BY <1>7, <2>1, <2>2, <4>1, <4>2 DEF Counts
        <3> QED BY <3>1, <3>2, <3>3, <3>4 DEF Counts
    <2> QED BY <2>4, <2>5
<1>17. MissesAt(k)'
    <2> SUFFICES ASSUME stamp[c] <= cursor PROVE Overtaken(c)'
        BY <1>1, <1>3 DEF MissesAt
    <2>1. stamp[c] > 0 /\ stamp[c] \in Nat /\ cursor \in Nat
        BY <1>1 DEF Stamped, Typed, TypeOK
    <2>2. PICK d \in Committed : stamp[d] = cursor
        BY <2>1 DEF CursorKnown
    <2>3. stamp[d] = stamp[c] \/ stamp[c] < stamp[d]
        BY <2>1, <2>2
    <2>4. d # c /\ d \in Committed' /\ wroteAt'[d] < wroteAt'[c] /\ UNCHANGED stamp
        BY <1>1, <1>2, <2>2
    <2> QED BY <2>3, <2>4 DEF Overtaken
<1>18. ASSUME NEW d \in Call PROVE FreshFor(d, k)' /\ DeletesFor(d, k)'
    <2>1. CASE d = c
        BY <1>1, <1>2, <1>6, <2>1 DEF FreshFor, DeletesFor, Puts, Pending, Started, Deletes
    <2>2. CASE d # c
        <3>1. /\ Puts(d, k)' <=> Puts(d, k)
              /\ Pending(d, k)' <=> Pending(d, k)
              /\ Deletes(d, k)' <=> Deletes(d, k)
            BY <1>1, <2>2 DEF Puts, Pending, Started, Deletes
        <3>2. readAt[d] < wroteAt'[c] /\ c \in Did("put", k)'
            BY <1>1, <1>2, <1>5
        <3>3. ASSUME Pending(d, k), got[d] # None, docs'[k].row = got[d].row PROVE ChangedSince(d, k)'
            <4>1. got[c] # None /\ docs[k].row = got[d].row /\ docs[k] # None
                BY <1>2, <1>3, <1>4, <3>3 DEF ReadsAreFresh, FreshFor, Pending
            <4>2. docs[k] = got[d] \/ ChangedSince(d, k)
                BY <3>3, <4>1 DEF ReadsAreFresh, FreshFor, Pending
            <4>3. docs'[k].expires \in {None, c, docs[k].expires} /\ docs'[k].value \in {req[c].value, docs[k].value}
                BY <1>3, <4>1 DEF Set
            <4>4. \/ docs'[k].expires \in {None, got[d].expires}
                  \/ readAt[d] < wroteAt'[docs'[k].expires]
                BY <1>2, <1>9, <3>2, <4>1, <4>2, <4>3 DEF ChangedSince
            <4>5. \/ docs'[k].value = got[d].value
                  \/ \E e \in Did("put", k)' : docs'[k].value = req[e].value /\ readAt[d] < wroteAt'[e]
                BY <1>2, <3>2, <4>2, <4>3 DEF ChangedSince
            <4> QED BY <1>1, <1>3, <3>2, <4>4, <4>5 DEF ChangedSince
        <3>4. FreshFor(d, k)'
            BY <1>1, <1>2, <3>1, <3>3 DEF ReadsAreFresh, FreshFor
        <3>5. DeletesFor(d, k)'
            BY <1>1, <1>2, <1>3, <1>4, <3>1, <3>2 DEF ReadsAreFresh, DeletesFor
        <3> QED BY <3>4, <3>5
    <2> QED BY <2>1, <2>2
<1> QED BY <1>11, <1>12, <1>13, <1>14, <1>15, <1>16, <1>17, <1>18 DEF HistoryAt

LEMMA CommitKeeps ==
    ASSUME IInv, NEW c \in Call, NEW op, Commits(c, op), TypeOK', \A k \in Key : HistoryAt(k)',
           \A k \in Key : docs'[k] = docs[k] \/ (op # "create" /\ k = req[c].key)
    PROVE  IInv'
<1>1. /\ UNCHANGED <<req, got>> /\ pc[c] = "commit" /\ pc'[c] = "ended"
      /\ \A d \in Call \ {c} : pc'[d] = pc[d]
      /\ Counted' /\ Stamped' /\ Exclusive'
      /\ \A d \in Call : d \in Committed' <=> pc'[d] = "ended"
    BY CommitCounts
<1>2. Typed'
    BY <1>1 DEF IInv, Typed, Started
<1>3. Locked' /\ WinsOnce' /\ CursorKnown'
    BY CommitKeepsFlight
<1>4. Kept' /\ ReadsAreFresh'
    BY DEF HistoryAt, Kept, ReadsAreFresh
<1> QED BY <1>1, <1>2, <1>3, <1>4 DEF IInv, History, InFlight

LEMMA CreateCommitKeeps == ASSUME IInv, NEW c \in Call, CreateCommit(c) PROVE IInv'
<1>1. Commits(c, "create") /\ collection' = [id |-> c, ttl |-> req[c].ttl] /\ UNCHANGED docs
    BY DEF CreateCommit
<1>2. /\ req[c].op = "create" /\ req[c] \in Request /\ Count \in Nat
      /\ pc' = [pc EXCEPT ![c] = "ended"] /\ wroteAt' = [wroteAt EXCEPT ![c] = 1 + Count]
      /\ UNCHANGED <<req, got, stamp, readAt, cursor, cache>>
    BY <1>1, CommitCounts
<1>3. collection' \in [id: Call \cup {Earlier}, ttl: Ttl]
    BY <1>1, <1>2 DEF Request
<1>4. TypeOK'
    BY <1>1, <1>2, <1>3 DEF IInv, Typed, TypeOK
<1>5. \A k \in Key : HistoryAt(k)'
    BY <1>1, KeyStays
<1> QED BY <1>1, <1>4, <1>5, CommitKeeps

LEMMA PutCommitKeeps == ASSUME IInv, NEW c \in Call, PutCommit(c) PROVE IInv'
<1> DEFINE k == req[c].key
<1>1. /\ Commits(c, "put") /\ UNCHANGED collection
      /\ docs' = [docs EXCEPT ![k] = IF got[c] = None THEN Inserted(c) ELSE Updated(c, docs[k])]
    BY DEF PutCommit
<1>2. /\ req[c].op = "put" /\ req[c] \in Request /\ Count \in Nat
      /\ pc' = [pc EXCEPT ![c] = "ended"] /\ wroteAt' = [wroteAt EXCEPT ![c] = 1 + Count]
      /\ UNCHANGED <<req, got, stamp, readAt, cursor, cache>>
    BY <1>1, CommitCounts
<1>3. k \in Key
    BY <1>2 DEF Request
<1>4. /\ docs'[k] = IF got[c] = None THEN Inserted(c) ELSE Updated(c, docs[k])
      /\ \A j \in Key : j # k => docs'[j] = docs[j]
    BY <1>1, <1>3 DEF IInv, Typed, TypeOK
<1>5. docs'[k] \in Document
    BY <1>1, <1>3, <1>4, PutWrites
<1>6. docs' \in [Key -> Document \cup {None}]
    BY <1>1, <1>3, <1>5 DEF IInv, Typed, TypeOK
<1>7. TypeOK'
    BY <1>1, <1>2, <1>6 DEF IInv, Typed, TypeOK
<1>8. \A j \in Key : HistoryAt(j)'
    <2> SUFFICES ASSUME NEW j \in Key PROVE HistoryAt(j)'
        OBVIOUS
    <2>1. CASE j = k
        BY <1>1, <1>4, <2>1, PutKeepsKey
    <2>2. CASE j # k
        BY <1>1, <1>4, <2>2, KeyStays
    <2> QED BY <2>1, <2>2
<1> QED BY <1>1, <1>4, <1>7, <1>8, CommitKeeps

LEMMA DeleteCommitKeeps == ASSUME IInv, NEW c \in Call, DeleteCommit(c) PROVE IInv'
<1> DEFINE k == req[c].key
<1>1. /\ Commits(c, "delete") /\ UNCHANGED collection
      /\ docs' = IF SameRow(c) THEN [docs EXCEPT ![k] = None] ELSE docs
    BY DEF DeleteCommit
<1>2. /\ req[c].op = "delete" /\ req[c] \in Request /\ Count \in Nat
      /\ pc' = [pc EXCEPT ![c] = "ended"] /\ wroteAt' = [wroteAt EXCEPT ![c] = 1 + Count]
      /\ UNCHANGED <<req, got, stamp, readAt, cursor, cache>>
    BY <1>1, CommitCounts
<1>3. k \in Key
    BY <1>2 DEF Request
<1>4. TypeOK'
    <2>1. docs' \in [Key -> Document \cup {None}]
        BY <1>1, <1>3 DEF IInv, Typed, TypeOK
    <2> QED BY <1>1, <1>2, <2>1 DEF IInv, Typed, TypeOK
<1>5. /\ docs'[k] = None \/ docs'[k] = docs[k]
      /\ \A j \in Key : j # k => docs'[j] = docs[j]
    BY <1>1, <1>3 DEF IInv, Typed, TypeOK
<1>6. \A j \in Key : HistoryAt(j)'
    <2> SUFFICES ASSUME NEW j \in Key PROVE HistoryAt(j)'
        OBVIOUS
    <2>1. CASE j = k /\ docs'[j] = None
        BY <1>1, <2>1, DeleteKeepsKey
    <2>2. CASE j # k
        BY <1>1, <1>5, <2>2, KeyStays
    <2>3. CASE j = k /\ ~SameRow(c)
        BY <1>1, <2>3, KeyStays DEF SameRow
    <2>4. SameRow(c) => docs'[k] = None
        BY <1>1, <1>3 DEF IInv, Typed, TypeOK
    <2> QED BY <2>1, <2>2, <2>3, <2>4
<1> QED BY <1>1, <1>4, <1>5, <1>6, CommitKeeps

-----------------------------------------------------------------------------
\* A page holds every change older than one it holds.
LEMMA PagesAreClosed ==
    ASSUME NEW P \in Pages(cursor, PageSize), NEW j \in P, NEW k \in Changed(cursor) \ P,
           docs \in [Key -> Document \cup {None}]
    PROVE  docs[j].updated <= docs[k].updated
<1>1. P \subseteq Changed(cursor) /\ ~Older(k, j)
    BY DEF Pages, FirstOf
<1>2. docs[j].updated \in Nat /\ docs[k].updated \in Nat
    BY <1>1 DEF Changed, Document
<1> QED BY <1>1, <1>2 DEF Older

LEMMA SyncKeeps == ASSUME IInv, Sync PROVE IInv'
<1> USE DEF IInv, InFlight, History, Kept, KeptAt
<1>1. PICK P \in Pages(cursor, PageSize) :
      /\ cache' = [k \in Key |-> IF k \in P THEN docs[k].writer ELSE cache[k]]
      /\ cursor' \in {docs[k].updated : k \in P}
      /\ \A k \in P : docs[k].updated <= cursor'
      /\ UNCHANGED <<collection, docs, pc, req, got, stamp, readAt, wroteAt>>
    BY DEF Sync, tables
<1>2. PICK j \in P : cursor' = docs[j].updated
    BY <1>1
<1>3. docs \in [Key -> Document \cup {None}] /\ cursor \in Nat /\ cache \in [Key -> Call \cup {Earlier}]
    BY DEF Typed, TypeOK
<1>4. P \subseteq Changed(cursor)
    BY DEF Pages, FirstOf
<1>5. \A k \in P : /\ k \in Key /\ docs[k] \in Document /\ docs[k] # None
                   /\ docs[k].updated \in Nat /\ docs[k].updated > cursor
    BY <1>3, <1>4 DEF Changed, Document
<1>6. Committed' = Committed /\ Count' = Count
      /\ \A k \in Key : Did("put", k)' = Did("put", k) /\ Did("delete", k)' = Did("delete", k)
    BY <1>1 DEF Committed, Count, Did
<1>7. TypeOK'
    <2>1. cursor' \in Nat /\ cache' \in [Key -> Call \cup {Earlier}]
        BY <1>1, <1>2, <1>3, <1>5 DEF Document
    <2> QED BY <1>1, <2>1 DEF Typed, TypeOK
<1>8. Typed' /\ Counted' /\ Stamped' /\ Exclusive' /\ Locked'
    BY <1>1, <1>6, <1>7 DEF Typed, Started, Counted, Stamped, Exclusive, Locked, SameRow
<1>9. ReadsAreFresh' /\ WinsOnce'
    BY <1>1, <1>6 DEF ReadsAreFresh, FreshFor, ChangedSince, DeletesFor, Deletes, Pending, Puts, Started,
        WinsOnce, Renewed, SetBack
<1>10. CursorKnown'
    <2>1. docs[j] # Left
        BY <1>3, <1>5 DEF Left
    <2>2. docs[j].writer \in Committed /\ stamp[docs[j].writer] = docs[j].updated
        BY <1>5, <2>1 DEF ExplainedAt, Did
    <2> QED BY <1>1, <1>2, <1>6, <2>2 DEF CursorKnown
<1>11. ASSUME NEW k \in Key PROVE KeptAt(k)'
    <2>1. PassedAt(k)' /\ ValuedAt(k)' /\ ExpiryAt(k)' /\ StandsAt(k)'
        BY <1>1, <1>6 DEF PassedAt, Renewed, SetBack, ValuedAt, ExpiryAt, ExpiresAt, StandsAt, Overlap
    <2>2. CountsAt(k)'
        BY <1>1, <1>6 DEF CountsAt, Counts, PutsOn, Overlap
    <2>3. ExplainedAt(k)'
        BY <1>1, <1>6 DEF ExplainedAt, PutsOn, Left
    <2>4. MissesAt(k)'
        <3> SUFFICES ASSUME docs[k] # None, docs[k].updated <= cursor', cache'[k] # docs[k].writer
                     PROVE  Overtaken(docs[k].writer)
            BY <1>1, <1>6 DEF MissesAt, Overtaken
        <3>1. k \notin P /\ cache[k] # docs[k].writer
            BY <1>1
        <3>2. docs[k].updated \in Nat
            BY <1>3 DEF Document
        <3>3. CASE docs[k].updated <= cursor
            BY <3>1, <3>3 DEF MissesAt
        <3>4. CASE ~(docs[k].updated <= cursor)
            <4>1. k \in Changed(cursor) \ P
                BY <1>3, <3>1, <3>2, <3>4 DEF Changed
            <4>2. docs[j].updated = docs[k].updated
                BY <1>2, <1>3, <1>5, <3>2, <4>1, PagesAreClosed
            <4>3. docs[j] # Left /\ docs[k] # Left
                BY <1>3, <1>5, <3>4 DEF Left
            <4>4. /\ docs[j].writer \in Did("put", j) /\ stamp[docs[j].writer] = docs[j].updated
                  /\ docs[k].writer \in Did("put", k) /\ stamp[docs[k].writer] = docs[k].updated
                BY <1>5, <4>3 DEF ExplainedAt
            <4>5. docs[j].writer # docs[k].writer
                BY <3>1, <4>4 DEF Did
            <4> QED BY <4>2, <4>4, <4>5 DEF Overtaken, Did
        <3> QED BY <3>3, <3>4
    <2> QED BY <2>1, <2>2, <2>3, <2>4
<1> QED BY <1>8, <1>9, <1>10, <1>11

-----------------------------------------------------------------------------
LEMMA ReadsKeep == ASSUME IInv, NEW c \in Call, Reads(c) PROVE IInv'
<1> USE DEF IInv
<1>1. collection # None => collection.ttl \in Nat
    BY ConstantsAssumption DEF Typed, TypeOK
<1>2. docs \in [Key -> Document \cup {None}]
    BY DEF Typed, TypeOK
<1>3. ASSUME NEW ttl \in Ttl, CreateRead(c, ttl) PROVE IInv'
    <2>1. [op |-> "create", ttl |-> ttl] \in Request
        BY DEF Request
    <2> QED BY <1>3, <2>1, GoesKeeps, LeavesKeeps DEF CreateRead
<1>4. ASSUME NEW k \in Key, NEW a \in Asked, PutRead(c, k, a) PROVE IInv'
    <2>1. a.value \in Value /\ a.ifVersion \in Nat \cup {None} /\ a.ttl \in Nat \cup {None}
        BY ConstantsAssumption
    <2>2. EffectiveTtl(a.ttl) \in Nat
        BY <1>1, <1>4, <2>1 DEF EffectiveTtl, PutRead
    <2> DEFINE r == [op |-> "put", key |-> k, value |-> a.value, ifVersion |-> a.ifVersion,
                     ttl |-> EffectiveTtl(a.ttl)]
    <2>3. r \in Request /\ r.op = "put" /\ r.key = k /\ r.ifVersion = a.ifVersion
        BY <2>1, <2>2 DEF Request
    <2>4. Expected(docs[k], a.ifVersion) =>
             (a.ifVersion # None => docs[k] # None /\ docs[k].version = a.ifVersion)
        BY DEF Expected
    <2>5. CASE Expected(docs[k], a.ifVersion)
        <3>1. Goes(c, r, docs[k]) /\ docs[k] \in Document \cup {None}
            BY <1>2, <1>4, <2>5 DEF PutRead
        <3> HIDE DEF r
        <3> QED BY <2>3, <2>4, <2>5, <3>1, GoesKeeps
    <2>6. CASE ~Expected(docs[k], a.ifVersion)
        BY <1>4, <2>6, LeavesKeeps DEF PutRead
    <2> QED BY <2>5, <2>6
<1>5. ASSUME NEW k \in Key, DeleteRead(c, k) PROVE IInv'
    <2>1. [op |-> "delete", key |-> k] \in Request
        BY DEF Request
    <2> QED BY <1>2, <1>5, <2>1, GoesKeeps, LeavesKeeps DEF DeleteRead
<1> QED BY <1>3, <1>4, <1>5 DEF Reads

LEMMA FlushesKeep == ASSUME IInv, NEW c \in Call, CreateFlush(c) \/ PutFlush(c) \/ DeleteFlush(c) PROVE IInv'
<1>1. {0} \in SUBSET Nat /\ Clock \in SUBSET Nat
    BY ConstantsAssumption
<1>2. CASE CreateFlush(c)
    BY <1>1, <1>2, FlushesKeeps, LeavesKeeps DEF CreateFlush
<1>3. CASE PutFlush(c)
    BY <1>1, <1>3, FlushesKeeps, LeavesKeeps DEF PutFlush
<1>4. CASE DeleteFlush(c)
    BY <1>1, <1>4, FlushesKeeps, LeavesKeeps DEF DeleteFlush
<1> QED BY <1>2, <1>3, <1>4

LEMMA StutterKeeps == ASSUME IInv, UNCHANGED vars PROVE IInv'
<1> USE DEF IInv, InFlight, History, Kept, KeptAt
<1>1. UNCHANGED <<collection, docs, pc, req, got, stamp, readAt, wroteAt, cursor, cache>>
    BY DEF vars
<1>2. Committed' = Committed /\ Count' = Count
    BY <1>1 DEF Committed, Count
<1>3. \A k \in Key : Did("put", k)' = Did("put", k) /\ Did("delete", k)' = Did("delete", k)
    BY <1>1, <1>2 DEF Did
<1>4. Typed' /\ Counted' /\ Stamped' /\ CursorKnown'
    BY <1>1, <1>2 DEF Typed, TypeOK, Started, Counted, Stamped, CursorKnown
<1>5. Exclusive' /\ Locked'
    BY <1>1 DEF Exclusive, Locked, SameRow
<1>6. ReadsAreFresh' /\ WinsOnce'
    BY <1>1, <1>3 DEF ReadsAreFresh, FreshFor, ChangedSince, DeletesFor, Deletes, Pending, Puts, Started,
        WinsOnce, Renewed, SetBack
<1>7. ASSUME NEW k \in Key PROVE KeptAt(k)'
    <2>1. PassedAt(k)' /\ ValuedAt(k)' /\ ExpiryAt(k)' /\ StandsAt(k)'
        BY <1>1, <1>2, <1>3 DEF PassedAt, Renewed, SetBack, ValuedAt, ExpiryAt, ExpiresAt, StandsAt, Overlap
    <2>2. ExplainedAt(k)' /\ CountsAt(k)' /\ MissesAt(k)'
        BY <1>1, <1>2, <1>3 DEF ExplainedAt, CountsAt, Counts, PutsOn, Overlap, MissesAt, Overtaken
    <2> QED BY <2>1, <2>2
<1> QED BY <1>4, <1>5, <1>6, <1>7

LEMMA NextKeeps == IInv /\ [Next]_vars => IInv'
<1> SUFFICES ASSUME IInv, [Next]_vars PROVE IInv'
    OBVIOUS
<1>1. ASSUME NEW c \in Call, Rollback(c) PROVE IInv'
    BY <1>1, LeavesKeeps DEF Rollback
<1> QED BY <1>1, ReadsKeep, FlushesKeep, CreateCommitKeeps, PutCommitKeeps, DeleteCommitKeeps, SyncKeeps,
        StutterKeeps DEF Next

LEMMA Invariance == Spec => []IInv
<1>1. Init => IInv
    BY InitIInv
<1>2. IInv /\ [Next]_vars => IInv'
    BY NextKeeps
<1> QED BY <1>1, <1>2, PTL DEF Spec

-----------------------------------------------------------------------------
(* Results.                                                                *)

LEMMA IInvWinsOnce == IInv => ConditionalPutWinsOnce
<1> SUFFICES ASSUME IInv, NEW k \in Key, NEW c \in Did("put", k), NEW d \in Did("put", k),
                    req[c].ifVersion = req[d].ifVersion, req[c].ifVersion # None, wroteAt[c] <= readAt[d]
             PROVE  \/ \E e \in Did("delete", k), f \in Did("put", k) :
                         /\ got[f] = None
                         /\ wroteAt[c] < wroteAt[e] /\ wroteAt[e] < wroteAt[f] /\ wroteAt[f] <= readAt[d]
                    \/ \E x, y \in Did("put", k) :
                         /\ readAt[x] < wroteAt[y]
                         /\ wroteAt[c] <= wroteAt[y] /\ wroteAt[y] < wroteAt[x] /\ wroteAt[x] <= readAt[d]
    BY DEF ConditionalPutWinsOnce
<1>1. d \in Call /\ Puts(d, k)
    BY DEF IInv, Typed, Did, Committed, Puts, Started
<1>2. Renewed(k, c, readAt[d]) \/ SetBack(k, c, readAt[d])
    BY <1>1 DEF IInv, InFlight, WinsOnce
<1> QED BY <1>2 DEF Renewed, SetBack

\* storage.py put_document, delete_document, _expires_at: for any calls, what
\* the last call on a key asked for is there, every put counts, an if_version
\* wins once and a document expires when its last write said, but for the
\* overlaps named.
THEOREM WritesLandAlways == Spec => []WritesLand
<1>1. ASSUME IInv PROVE WritesLand
    <2>1. \A k \in Key : ExpiryAt(k) /\ StandsAt(k) /\ CountsAt(k)
        BY <1>1 DEF IInv, History, Kept, KeptAt
    <2>2. ExpiryIsTheWriters
        BY <2>1 DEF ExpiryAt, ExpiryIsTheWriters
    <2>3. LastCallStands
        BY <2>1 DEF StandsAt, LastCallStands
    <2>4. EveryPutCounts
        BY <2>1 DEF CountsAt, Counts, EveryPutCounts
    <2> QED BY <1>1, <2>2, <2>3, <2>4, IInvWinsOnce DEF IInv, Typed, WritesLand
<1> QED BY <1>1, Invariance, PTL

\* storage.py list_documents: for any calls, any clocks and any limit of the
\* page, a delta sync passes over a write only when another has the same stamp
\* or one stamped later was committed earlier.
THEOREM SyncsMissOnlyOvertaken == Spec => []SyncMissesOnlyOvertaken
<1>1. IInv => SyncMissesOnlyOvertaken
    BY DEF IInv, History, Kept, KeptAt, MissesAt, Overtaken, SyncMissesOnlyOvertaken
<1> QED BY <1>1, Invariance, PTL

Fall(k) ==
    /\ docs[k] # None /\ docs'[k] # None
    /\ docs'[k].row = docs[k].row /\ docs'[k].version <= docs[k].version
    /\ docs'[k].writer # docs[k].writer

LEMMA FallsAreExplained ==
    ASSUME IInv, [Next]_vars, NEW k \in Key, Fall(k)
    PROVE  docs[k].writer # Earlier /\ readAt[docs'[k].writer] < wroteAt[docs[k].writer]
<1>1. docs'[k] # docs[k] /\ docs'[k] # None
    BY DEF Fall
<1>2. PICK c \in Call : PutCommit(c)
    <2>1. ASSUME NEW c \in Call, DeleteCommit(c) PROVE FALSE
        <3>1. docs'[k] = docs[k] \/ docs'[k] = None
            BY <2>1 DEF DeleteCommit, IInv, Typed, TypeOK
        <3> QED BY <1>1, <3>1
    <2>2. ASSUME NEW c \in Call, Reads(c) \/ CreateFlush(c) \/ PutFlush(c) \/ DeleteFlush(c) \/ Rollback(c)
                                 \/ CreateCommit(c)
          PROVE  FALSE
        <3>1. /\ Leaves(c) => UNCHANGED docs
              /\ \A times : Flushes(c, times) => UNCHANGED docs
            BY DEF Leaves, Flushes, tables
        <3>2. ASSUME NEW r, NEW g, Goes(c, r, g) PROVE UNCHANGED docs
            BY <3>2 DEF Goes, tables
        <3>3. Reads(c) => UNCHANGED docs
            BY <3>1, <3>2 DEF Reads, CreateRead, PutRead, DeleteRead
        <3>4. UNCHANGED docs
            BY <2>2, <3>1, <3>3 DEF CreateFlush, PutFlush, DeleteFlush, Rollback, CreateCommit
        <3> QED BY <1>1, <3>4
    <2>3. ~Sync /\ ~UNCHANGED vars
        BY <1>1 DEF Sync, tables, vars
    <2> QED BY <2>1, <2>2, <2>3 DEF Next
<1>3. /\ Commits(c, "put")
      /\ docs' = [docs EXCEPT ![req[c].key] = IF got[c] = None THEN Inserted(c) ELSE Updated(c, @)]
    BY <1>2 DEF PutCommit
<1>4. req[c].key = k
    BY <1>1, <1>3 DEF IInv, Typed, TypeOK
<1>5. docs'[k] = IF got[c] = None THEN Inserted(c) ELSE Updated(c, docs[k])
    BY <1>3, <1>4 DEF IInv, Typed, TypeOK
<1>6. /\ got[c] # None /\ docs[k] \in Document /\ docs[k].row = got[c].row
      /\ docs'[k].writer = c /\ docs'[k].version = got[c].version + 1
    BY <1>3, <1>4, <1>5, PutWrites DEF Fall
<1>7. Pending(c, k)
    BY <1>3, <1>4, CommitCounts DEF Pending, Puts, Started
<1>8. docs[k] # got[c]
    BY <1>6 DEF Fall, Document
<1>9. docs[k].writer \in Did("put", k) /\ readAt[c] < wroteAt[docs[k].writer]
    BY <1>6, <1>7, <1>8 DEF Fall, IInv, InFlight, ReadsAreFresh, FreshFor, ChangedSince, Pending
<1> QED BY <1>6, <1>9, ConstantsAssumption DEF Did, Committed

\* storage.py put_document: for any calls, the version of a row falls only
\* under a write that had read before the one it overwrites was committed.
THEOREM VersionsFallByOverlap == Spec => VersionFallsByOverlap
<1>1. IInv /\ [Next]_vars =>
        [\A k \in Key :
            /\ docs[k] # None /\ docs'[k] # None
            /\ docs'[k].row = docs[k].row /\ docs'[k].version <= docs[k].version
            /\ docs'[k].writer # docs[k].writer
            => /\ docs[k].writer # Earlier
               /\ readAt[docs'[k].writer] < wroteAt[docs[k].writer]]_vars
    BY FallsAreExplained DEF Fall
<1> QED BY <1>1, Invariance, PTL DEF Spec, VersionFallsByOverlap
=============================================================================
