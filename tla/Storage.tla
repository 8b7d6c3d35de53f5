------------------------------- MODULE Storage -------------------------------
(***************************************************************************)
(* The key/value store (app/services/storage.py) of one tenant: one        *)
(* collection, versioned documents, optimistic concurrency with            *)
(* if_version, and delta sync by updated_at.  Calls are transactions under *)
(* READ COMMITTED: a call reads, flushes its write (which takes updated_at *)
(* from the clock of its process, then waits for the row and locks it),    *)
(* and commits.                                                            *)
(***************************************************************************)
EXTENDS Integers, FiniteSets

CONSTANTS
    Call,      \* requests, each one database transaction
    Earlier,   \* a request that was over before the first of them
    Ttl,       \* default_ttl_seconds of collections; 0: for ever
    Value, OldValue,   \* values of documents; the one Earlier put
    Asked,     \* what puts ask for: value; if_version, or None; ttl_seconds, or None
    Key,       \* document keys
    PageSize,  \* the limit of a listing
    MaxOpen,   \* bound: transactions open at once
    Clock,     \* what the clocks of the processes may read at any moment
    None

ASSUME ConstantsAssumption ==
    /\ Earlier \notin Call /\ None \notin Call \cup {Earlier} /\ Ttl \subseteq Nat
    /\ None \notin Nat /\ OldValue \in Value /\ Clock \subseteq Nat \ {0}
    /\ Asked \subseteq [value: Value, ifVersion: Nat \cup {None}, ttl: Nat \cup {None}]
    /\ PageSize \in Nat \ {0} /\ IsFiniteSet(Call) /\ IsFiniteSet(Key)

VARIABLES
    collection, \* None, or who created it and its default_ttl_seconds
    docs,       \* committed storage_documents, by key
    pc, req,
    got,        \* the row the call loaded
    stamp,      \* the updated_at of the call's put; 0: none yet
    readAt, wroteAt,    \* as in Sessions: place in the order of commits
    cursor, cache       \* a client that syncs: its since, the write of each document it was told of

vars == <<collection, docs, pc, req, got, stamp, readAt, wroteAt, cursor, cache>>
tables == <<collection, docs>>
client == <<cursor, cache>>

\* row: the call that inserted it; writer: the last that updated it.  A
\* deadline is named after the call that computed it.
Document == [row: Call \cup {Earlier}, version: Nat, writer: Call \cup {Earlier}, value: Value,
             updated: Nat, expires: Call \cup {None}]
ASSUME NoneAssumption == None \notin Document

Committed == {c \in Call : wroteAt[c] > 0}

\* What the requests that are over have left: no collection, or one that may
\* hold a document, which the client knows.
Left == [row |-> Earlier, version |-> 1, writer |-> Earlier, value |-> OldValue, updated |-> 0,
         expires |-> None]
Init ==
    /\ collection \in {None} \cup [id: {Earlier}, ttl: Ttl]
    /\ docs \in [Key -> IF collection = None THEN {None} ELSE {None, Left}]
    /\ pc = [c \in Call |-> "idle"]
    /\ req = [c \in Call |-> None]
    /\ got = [c \in Call |-> None]
    /\ stamp = [c \in Call |-> 0]
    /\ readAt = [c \in Call |-> 0] /\ wroteAt = [c \in Call |-> 0]
    /\ cursor = 0 /\ cache = [k \in Key |-> Earlier]

Goto(c, l) == pc' = [pc EXCEPT ![c] = l]
Open == {c \in Call : pc[c] \in {"flush", "commit"}}

\* It passes its checks and goes on to do r, having loaded g.
Goes(c, r, g) ==
    /\ pc[c] = "idle" /\ Cardinality(Open) < MaxOpen
    /\ Goto(c, "flush")
    /\ req' = [req EXCEPT ![c] = r]
    /\ got' = [got EXCEPT ![c] = g]
    /\ readAt' = [readAt EXCEPT ![c] = Cardinality(Committed)]
    /\ UNCHANGED <<tables, stamp, wroteAt, client>>

\* An exception, or nothing to write.
Leaves(c) ==
    /\ Goto(c, "left")
    /\ req' = [req EXCEPT ![c] = None]
    /\ got' = [got EXCEPT ![c] = None]
    /\ stamp' = [stamp EXCEPT ![c] = 0]
    /\ readAt' = [readAt EXCEPT ![c] = 0]
    /\ UNCHANGED <<tables, wroteAt, client>>

\* The write is sent, its updated_at one of times: the clock was read before
\* the wait for the row, in one process or another, so the order of stamps is
\* not that of commits, and two may be equal.
Flushes(c, times) ==
    /\ Goto(c, "commit")
    /\ \E t \in times : stamp' = [stamp EXCEPT ![c] = t]
    /\ UNCHANGED <<tables, req, got, readAt, wroteAt, client>>

Commits(c, op) ==
    /\ pc[c] = "commit" /\ req[c].op = op
    /\ Goto(c, "ended")
    /\ wroteAt' = [wroteAt EXCEPT ![c] = 1 + Cardinality(Committed)]
    /\ UNCHANGED <<req, got, stamp, readAt, client>>

\* Another call has written the same key and not committed: it holds the row,
\* or the index entry, and a write to it waits.
Held(c) ==
    \E d \in Call \ {c} : pc[d] = "commit" /\ req[d].op # "create" /\ req[c].op # "create"
                          /\ req[d].key = req[c].key

-----------------------------------------------------------------------------
CreateRead(c, ttl) ==
    IF collection = None THEN Goes(c, [op |-> "create", ttl |-> ttl], None)
    ELSE pc[c] = "idle" /\ Leaves(c)

\* Lost the race: rolls back and answers the winner's row.
CreateFlush(c) ==
    /\ pc[c] = "flush" /\ req[c].op = "create"
    /\ ~\E d \in Call : pc[d] = "commit" /\ req[d].op = "create"
    /\ IF collection = None THEN Flushes(c, {0}) ELSE Leaves(c)

CreateCommit(c) ==
    /\ Commits(c, "create")
    /\ collection' = [id |-> c, ttl |-> req[c].ttl]
    /\ UNCHANGED docs

\* Mutant of Expected: if_version is not compared.
ExpectedAnything(d, v) == d = None => v = None
\* if_version names the version there is, and none on a first write.
Expected(d, v) == IF d = None THEN v = None ELSE v # None => d.version = v

\* null: the collection's default.
EffectiveTtl(ttl) == IF ttl = None THEN collection.ttl ELSE ttl

PutRead(c, k, a) ==
    /\ collection # None
    /\ IF Expected(docs[k], a.ifVersion)
       THEN Goes(c, [op |-> "put", key |-> k, value |-> a.value, ifVersion |-> a.ifVersion,
                     ttl |-> EffectiveTtl(a.ttl)], docs[k])
       ELSE pc[c] = "idle" /\ Leaves(c)

DeleteRead(c, k) ==
    /\ collection # None
    /\ IF docs[k] # None THEN Goes(c, [op |-> "delete", key |-> k], docs[k])
       ELSE pc[c] = "idle" /\ Leaves(c)

SameRow(c) == docs[req[c].key] # None /\ docs[req[c].key].row = got[c].row

\* An INSERT finds the key taken (IntegrityError), an UPDATE finds its row
\* gone (StaleDataError): the call is refused.
PutFlush(c) ==
    /\ pc[c] = "flush" /\ req[c].op = "put" /\ ~Held(c)
    /\ IF (IF got[c] = None THEN docs[req[c].key] = None ELSE SameRow(c))
       THEN Flushes(c, Clock) ELSE Leaves(c)

\* A DELETE of a row that is gone affects none and is no error.
DeleteFlush(c) ==
    /\ pc[c] = "flush" /\ req[c].op = "delete" /\ ~Held(c)
    /\ Flushes(c, {0})

\* 0: never.
ExpiresAt(c) == IF req[c].ttl <= 0 THEN None ELSE c

Inserted(c) == [row |-> c, version |-> 1, writer |-> c, value |-> req[c].value,
                updated |-> stamp[c], expires |-> ExpiresAt(c)]

\* A column is in the UPDATE when what is set differs from what was loaded.
Set(new, loaded, there) == IF new = loaded THEN there ELSE new

\* Mutant of Updated: the version is left alone.
UpdatedUnbumped(c, d) == [d EXCEPT !.writer = c, !.updated = stamp[c], !.expires = ExpiresAt(c)]
\* Absolute values, counted from the row that was loaded; updated_at always.
Updated(c, d) ==
    [d EXCEPT !.version = got[c].version + 1, !.writer = c, !.updated = stamp[c],
              !.value = Set(req[c].value, got[c].value, @),
              !.expires = Set(ExpiresAt(c), got[c].expires, @)]

PutCommit(c) ==
    /\ Commits(c, "put")
    /\ docs' = [docs EXCEPT ![req[c].key] = IF got[c] = None THEN Inserted(c) ELSE Updated(c, @)]
    /\ UNCHANGED collection

DeleteCommit(c) ==
    /\ Commits(c, "delete")
    /\ docs' = IF SameRow(c) THEN [docs EXCEPT ![req[c].key] = None] ELSE docs
    /\ UNCHANGED collection

\* The connection fails before the commit.
Rollback(c) == pc[c] \in {"flush", "commit"} /\ Leaves(c)

Changed(since) == {k \in Key : docs[k] # None /\ docs[k].updated > since}
\* A LIMIT of n out of the documents of S, those that come first in the order.
FirstOf(S, n, Before(_, _)) ==
    {P \in SUBSET S : /\ Cardinality(P) = IF Cardinality(S) < n THEN Cardinality(S) ELSE n
                      /\ \A k \in P, j \in S \ P : ~Before(j, k)}
Older(j, k) == docs[j].updated < docs[k].updated
\* Mutant of Pages: the newest come first.
PagesNewest(since, n) == FirstOf(Changed(since), n, LAMBDA j, k : Older(k, j))
\* GET /{collection}?since=: oldest first, at most n, and of equal stamps any.
\* Expired documents are listed, deleted ones are not mentioned.
Pages(since, n) == FirstOf(Changed(since), n, Older)

\* The client takes the newest updated_at it was told for its next since.
Sync ==
    \E P \in Pages(cursor, PageSize) :
        /\ cache' = [k \in Key |-> IF k \in P THEN docs[k].writer ELSE cache[k]]
        /\ cursor' \in {docs[k].updated : k \in P}
        /\ \A k \in P : docs[k].updated <= cursor'
        /\ UNCHANGED <<tables, pc, req, got, stamp, readAt, wroteAt>>

Reads(c) ==
    \/ \E ttl \in Ttl : CreateRead(c, ttl)
    \/ \E k \in Key, a \in Asked : PutRead(c, k, a)
    \/ \E k \in Key : DeleteRead(c, k)

Next ==
    \/ \E c \in Call :
        \/ Reads(c)
        \/ CreateFlush(c) \/ CreateCommit(c)
        \/ PutFlush(c) \/ PutCommit(c) \/ DeleteFlush(c) \/ DeleteCommit(c)
        \/ Rollback(c)
    \/ Sync
Spec == Init /\ [][Next]_vars

-----------------------------------------------------------------------------
(* Properties.                                                             *)

Request == [op: {"create"}, ttl: Ttl] \cup [op: {"delete"}, key: Key]
           \cup [op: {"put"}, key: Key, value: Value, ifVersion: Nat \cup {None}, ttl: Nat]

TypeOK ==
    /\ collection \in [id: Call \cup {Earlier}, ttl: Ttl] \cup {None}
    /\ docs \in [Key -> Document \cup {None}]
    /\ pc \in [Call -> {"idle", "flush", "commit", "ended", "left"}]
    /\ req \in [Call -> Request \cup {None}]
    /\ got \in [Call -> Document \cup {None}]
    /\ stamp \in [Call -> Nat]
    /\ readAt \in [Call -> Nat] /\ wroteAt \in [Call -> Nat]
    /\ cursor \in Nat /\ cache \in [Key -> Call \cup {Earlier}]

Overlap(c, d) == readAt[c] < wroteAt[d] /\ readAt[d] < wroteAt[c]
Did(op, k) == {c \in Committed : req[c].op = op /\ req[c].key = k}

\* storage.py put_document: a write with the if_version of a write that was
\* answered before it succeeds only if in between the document was deleted and
\* written anew, or a put overwrote one it overlapped, and so set the version back.
ConditionalPutWinsOnce ==
    \A k \in Key : \A c, d \in Did("put", k) :
        /\ req[c].ifVersion = req[d].ifVersion /\ req[c].ifVersion # None
        /\ wroteAt[c] <= readAt[d]
        => \/ \E e \in Did("delete", k), f \in Did("put", k) :
                /\ got[f] = None
                /\ wroteAt[c] < wroteAt[e] /\ wroteAt[e] < wroteAt[f] /\ wroteAt[f] <= readAt[d]
           \/ \E x, y \in Did("put", k) :
                /\ readAt[x] < wroteAt[y]
                /\ wroteAt[c] <= wroteAt[y] /\ wroteAt[y] < wroteAt[x] /\ wroteAt[x] <= readAt[d]

\* storage.py put_document: the version of a row falls only under a write
\* that overlapped the one it overwrites.
VersionFallsByOverlap ==
    [][\A k \in Key :
        /\ docs[k] # None /\ docs'[k] # None
        /\ docs'[k].row = docs[k].row /\ docs'[k].version <= docs[k].version
        /\ docs'[k].writer # docs[k].writer
        => /\ docs[k].writer # Earlier
           /\ readAt[docs'[k].writer] < wroteAt[docs[k].writer]]_vars

\* storage.py _expires_at: a document expires when its last write said, unless
\* that write overlapped another and left expires_at alone.
ExpiryIsTheWriters ==
    \A k \in Key : docs[k] # None /\ docs[k] # Left =>
        LET w == docs[k].writer IN
        \/ docs[k].expires = ExpiresAt(w)
        \/ \E d \in Did("put", k) : d = docs[k].expires /\ Overlap(d, w)

\* storage.py put_document, delete_document: what the last call on a key asked
\* for is what is there.  After a put there is its document; it has the value
\* of another put only where the two overlapped.  After a delete there is none,
\* but for a put that overlapped the delete.
LastCallStands ==
    \A k \in Key : \A c \in Did("put", k) \cup Did("delete", k) :
        (\A d \in Did("put", k) \cup Did("delete", k) : wroteAt[d] <= wroteAt[c]) =>
            \/ /\ req[c].op = "put" /\ docs[k] # None /\ docs[k].writer = c
               /\ \/ docs[k].value = req[c].value
                  \/ \E d \in Did("put", k) : docs[k].value = req[d].value /\ Overlap(c, d)
            \/ /\ req[c].op = "delete"
               /\ docs[k] = None \/ \E d \in Did("put", k) : Overlap(c, d)

\* The puts that inserted or updated row r of key k.
PutsOn(k, r) == {c \in Did("put", k) : c = r \/ (got[c] # None /\ got[c].row = r)}

\* storage.py put_document, "Bumps `version` by 1 on each write": the version
\* of a document is the number of writes its row has had, unless two of them
\* overlapped.
EveryPutCounts ==
    \A k \in Key : docs[k] # None =>
        LET r == docs[k].row IN
        \/ docs[k].version = Cardinality(PutsOn(k, r)) + (IF r = Earlier THEN 1 ELSE 0)
        \/ \E c, d \in PutsOn(k, r) : c # d /\ Overlap(c, d)

\* storage.py list_documents, the delta sync: a client's cursor passes over a
\* write it was not told of only when another has the same stamp, or one
\* stamped later was committed earlier.
SyncMissesOnlyOvertaken ==
    \A k \in Key :
        docs[k] # None /\ docs[k].updated <= cursor /\ cache[k] # docs[k].writer =>
            \E d \in Committed : LET w == docs[k].writer IN
                \/ d # w /\ stamp[w] = stamp[d]
                \/ stamp[w] < stamp[d] /\ wroteAt[d] < wroteAt[w]

\* storage.py put_document: a write that was answered 200 is in the row and
\* counts, its if_version and its expiry hold, but for what an overlapping
\* call did.
WritesLand ==
    TypeOK /\ ConditionalPutWinsOnce /\ ExpiryIsTheWriters /\ LastCallStands /\ EveryPutCounts
=============================================================================
