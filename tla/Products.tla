------------------------------ MODULE Products ------------------------------
(***************************************************************************)
(* A product's row, the Redis copy of its status that every request reads  *)
(* first (app/services/product.py), and the admin's PATCH of it            *)
(* (app/api/v1/admin.py).                                                  *)
(*                                                                         *)
(* PATCH reads the row, merges settings into it, drops the Redis copy and  *)
(* only then commits.  A lookup that misses reads the row and stores its   *)
(* status.  Redis may fail at each of these, which is logged and ignored.  *)
(*                                                                         *)
(* Calls are database transactions: read, then write and commit.           *)
(***************************************************************************)
EXTENDS Naturals, FiniteSets

CONSTANTS
    Call,     \* administrators' requests, each one transaction
    Lookup,   \* requests that name the product by its slug
    Feature,  \* keys of settings.features, all booleans
    None,
    MaxStarted   \* bound: so many calls and lookups in all

ProductStatus == {"active", "disabled", "archived"}
\* The status a lookup read: how many calls had committed when it did, how
\* many invalidations had reached Redis when it stored it.
SlugEntry == [status: ProductStatus, readAt: Nat, purges: Nat]

ASSUME ProductNamesAssumption ==
    IsFiniteSet(Call) /\ None \notin Call \cup SlugEntry

VARIABLES
    product,   \* the committed row
    cache,     \* product:slug:{slug}, or None
    purges,    \* invalidations that reached Redis
    purged,    \* by call: the number of its invalidation, 0 if none reached
    look,      \* the lookups
    pc, req, got,     \* the calls; what each loaded
    readAt, wroteAt   \* how many had committed when it read; its place among them

calls == <<pc, req, got, readAt, wroteAt>>
productVars == <<product, cache, purges, purged, look>>

Committed == {c \in Call : wroteAt[c] > 0}
\* c and d each read before the other committed.
Overlap(c, d) == readAt[c] < wroteAt[d] /\ readAt[d] < wroteAt[c]

ProductsInit ==
    /\ product \in [status: {"active"}, features: [Feature -> {TRUE}]]
    /\ cache = None
    /\ purges = 0 /\ purged = [c \in Call |-> 0]
    /\ look = [l \in Lookup |-> [pc |-> "idle"]]
    /\ pc = [c \in Call |-> "idle"]
    /\ req = [c \in Call |-> None] /\ got = [c \in Call |-> None]
    /\ readAt = [c \in Call |-> 0] /\ wroteAt = [c \in Call |-> 0]

-----------------------------------------------------------------------------
(* Transactions.                                                           *)

Starts == Cardinality({c \in Call : pc[c] # "idle"}) + Cardinality({l \in Lookup : look[l].pc # "idle"})
          < MaxStarted

Goes(c, r, g) ==
    /\ Starts
    /\ pc[c] = "idle" /\ pc' = [pc EXCEPT ![c] = "write"]
    /\ req' = [req EXCEPT ![c] = r]
    /\ got' = [got EXCEPT ![c] = g]
    /\ readAt' = [readAt EXCEPT ![c] = Cardinality(Committed)]
    /\ UNCHANGED wroteAt

\* An exception: the transaction rolls back.
Leaves(c) ==
    /\ pc' = [pc EXCEPT ![c] = "left"]
    /\ req' = [req EXCEPT ![c] = None]
    /\ got' = [got EXCEPT ![c] = None]
    /\ readAt' = [readAt EXCEPT ![c] = 0]
    /\ UNCHANGED wroteAt

Commits(c) ==
    /\ pc' = [pc EXCEPT ![c] = "ended"]
    /\ wroteAt' = [wroteAt EXCEPT ![c] = 1 + Cardinality(Committed)]
    /\ UNCHANGED <<req, got, readAt>>

-----------------------------------------------------------------------------
(* PATCH /admin/products/{slug}.                                           *)

StatusPatch == [op: {"product"}, status: ProductStatus]
FeaturePatch == [op: {"product"}, feature: Feature, value: BOOLEAN]
\* A patch of what is there already writes nothing.
Changes(patch) == IF "status" \in DOMAIN patch THEN patch.status # product.status
                  ELSE patch.value # product.features[patch.feature]
PatchRead(c, patch) == Changes(patch) /\ Goes(c, patch, product) /\ UNCHANGED productVars
OfStatus(c) == "status" \in DOMAIN req[c]

\* Only one transaction holds the row's lock.
RowFree(c) == \A d \in Call \ {c} : pc[d] # "commit"

\* Mutant of Purge: the key is dropped for changes of settings only.
PurgeNotStatus(c) ==
    /\ cache' = IF OfStatus(c) THEN cache ELSE None
    /\ purges' = purges + 1 /\ purged' = [purged EXCEPT ![c] = purges + 1]
Purge(c) ==
    /\ cache' = None
    /\ purges' = purges + 1 /\ purged' = [purged EXCEPT ![c] = purges + 1]

PatchFlush(c) ==
    /\ pc[c] = "write" /\ req[c].op = "product" /\ RowFree(c)
    /\ pc' = [pc EXCEPT ![c] = "commit"]
    /\ Purge(c) \/ UNCHANGED <<cache, purges, purged>>
    /\ UNCHANGED <<product, look, req, got, readAt, wroteAt>>

\* _deep_merge, on the settings that were loaded.
Merged(c) == [got[c].features EXCEPT ![req[c].feature] = req[c].value]

\* Mutant of Patched: the settings are changed in place, which the ORM does
\* not notice.
PatchedInPlace(c) == IF OfStatus(c) THEN [product EXCEPT !.status = req[c].status] ELSE product
\* settings is one column, written as a whole.
Patched(c) == IF OfStatus(c) THEN [product EXCEPT !.status = req[c].status]
              ELSE [product EXCEPT !.features = Merged(c)]

PatchCommit(c) ==
    /\ pc[c] = "commit"
    /\ product' = Patched(c)
    /\ Commits(c)
    /\ UNCHANGED <<cache, purges, purged, look>>

-----------------------------------------------------------------------------
(* resolve_slug_to_id.                                                     *)

To(l, r) == look' = [look EXCEPT ![l] = r] /\ UNCHANGED <<product, purges, purged, calls>>
Resolved(s) == [pc |-> "resolved", status |-> s]

\* hit: FALSE when Redis fails, or has no such key.
LookCache(l, hit) ==
    /\ look[l].pc = "idle" /\ Starts /\ UNCHANGED cache
    /\ hit => cache # None
    /\ To(l, IF hit THEN Resolved(cache.status) ELSE [pc |-> "row"])

LookRow(l) ==
    /\ look[l].pc = "row" /\ UNCHANGED cache
    /\ To(l, [pc |-> "store", status |-> product.status, readAt |-> Cardinality(Committed)])

LookStore(l) ==
    /\ look[l].pc = "store"
    /\ cache' \in {[status |-> look[l].status, readAt |-> look[l].readAt, purges |-> purges], cache}
    /\ To(l, Resolved(look[l].status))

\* The entry outlives SLUG_CACHE_TTL_SECONDS, or Redis loses it.
CacheExpires ==
    /\ cache # None /\ cache' = None
    /\ UNCHANGED <<product, purges, purged, look, calls>>

ProductsNext ==
    \/ \E c \in Call :
        \/ \E patch \in StatusPatch \cup FeaturePatch : PatchRead(c, patch)
        \/ PatchFlush(c) \/ PatchCommit(c)
    \/ \E l \in Lookup : (\E hit \in BOOLEAN : LookCache(l, hit)) \/ LookRow(l) \/ LookStore(l)
    \/ CacheExpires

-----------------------------------------------------------------------------
(* Properties.                                                             *)

ProductsTypeOK ==
    /\ product \in [status: ProductStatus, features: [Feature -> BOOLEAN]]
    /\ cache \in SlugEntry \cup {None}
    /\ purges \in Nat /\ purged \in [Call -> Nat]
    /\ look \in [Lookup -> [pc: {"idle", "row"}] \cup [pc: {"resolved"}, status: ProductStatus]
                             \cup [pc: {"store"}, status: ProductStatus, readAt: Nat]]
    /\ pc \in [Call -> {"idle", "write", "commit", "ended", "left"}]
    /\ readAt \in [Call -> Nat] /\ wroteAt \in [Call -> Nat]

Patches == {c \in Committed : req[c].op = "product"}
StatusPatches == {c \in Patches : OfStatus(c)}
FeaturePatches == {c \in Patches : ~OfStatus(c)}
Last(C) == {c \in C : \A d \in C : wroteAt[d] <= wroteAt[c]}

\* admin.py:87 invalidates before the commit: Redis still holds an old status
\* after it only when that invalidation failed, or a lookup stored it after the
\* invalidation; and that lookup had read the row before the commit.
StaleOnlyByRace ==
    cache # None /\ cache.status # product.status =>
        \E c \in Last(StatusPatches) :
            /\ cache.readAt < wroteAt[c]
            /\ purged[c] = 0 \/ cache.purges >= purged[c]

\* admin.py:67 "keys not in the patch are preserved": a key is what its last
\* patch said, unless a patch of settings overlapped that one.
PatchLostOnlyByOverlap ==
    \A f \in Feature : \A c \in Last({d \in FeaturePatches : req[d].feature = f}) :
        product.features[f] = req[c].value \/ \E d \in FeaturePatches \ {c} : Overlap(c, d)
=============================================================================
