---------------------------- MODULE AccessProofs -----------------------------
(***************************************************************************)
(* Proofs about Access, and the Products and Roles it is built on, for any *)
(* tenants, roles, templates, administrators' calls and requests.          *)
(*                                                                         *)
(* The invariant has a part for each table, and each part has the same     *)
(* shape: what holds of the table, and what a call that is still to commit *)
(* knows of it: what it loaded is there still, or another call has         *)
(* committed since.  The part about requests (AskInv) follows one through  *)
(* its statements: the grounds it has passed were seen to hold, and a row  *)
(* its session keeps was a true one when it was loaded.                    *)
(***************************************************************************)
EXTENDS Access, FiniteSetTheorems, TLAPS

-----------------------------------------------------------------------------
(* The calls.                                                              *)

NewRoleReq == [op: {"newrole"}, name: RoleName]
CreateReq == [op: {"create"}, slug: Slug, parent: Tenant \cup {None}, owner: BOOLEAN]
UpdateReq ==
    [op: {"update"}, tenant: Tenant, column: {"slug"}, value: Slug]
    \cup [op: {"update"}, tenant: Tenant, column: {"expires"}, value: Time \cup {None}]
    \cup [op: {"update"}, tenant: Tenant, column: {"allow", "active"}, value: BOOLEAN]
RoleReq ==
    [op: {"role"}, role: Call \cup {Earlier}, name: RoleName \cup {None}, codes: CodeLists \cup {None}]
Asked == StatusPatch \cup FeaturePatch \cup NewRoleReq \cup CreateReq \cup UpdateReq \cup RoleReq

Pending(c) == pc[c] \in {"write", "commit"}
Count == Cardinality(Committed)

CallsInv ==
    /\ pc \in [Call -> {"idle", "write", "commit", "ended", "left"}]
    /\ readAt \in [Call -> Nat] /\ wroteAt \in [Call -> Nat]
    /\ DOMAIN req = Call /\ req = [c \in Call |-> req[c]]
    /\ DOMAIN got = Call /\ got = [c \in Call |-> got[c]]
    /\ IsFiniteSet(Committed)
    /\ \A c \in Call :
        /\ Pending(c) \/ wroteAt[c] > 0 => req[c] \in Asked
        /\ wroteAt[c] > 0 => pc[c] = "ended"
        /\ pc[c] = "commit" => req[c].op = "product"
        /\ readAt[c] <= Count /\ wroteAt[c] <= Count
        /\ wroteAt[c] > 0 => readAt[c] < wroteAt[c]

-----------------------------------------------------------------------------
(* The product and its slug.                                               *)

FeaturePatchesOf(f) == {d \in FeaturePatches : req[d].feature = f}
Excused(c) == \E d \in FeaturePatches \ {c} : Overlap(c, d)
\* What it says of the status was so when it was read.
TrueEntry(e) ==
    /\ e.readAt <= Count
    /\ (\A c \in StatusPatches : wroteAt[c] <= e.readAt) => e.status = product.status
PatchesFeature(c) == Pending(c) /\ req[c] \in FeaturePatch
\* The settings a patch merges into are those of the patches before it.
ReadFeatures(c) ==
    /\ got[c].features \in [Feature -> BOOLEAN]
    /\ \A f \in Feature : \A d \in Last({x \in FeaturePatchesOf(f) : wroteAt[x] <= readAt[c]}) :
         got[c].features[f] = req[d].value \/ Excused(d)

PatchInv ==
    /\ product \in [status: ProductStatus, features: [Feature -> BOOLEAN]]
    /\ StatusPatches # {} => Last(StatusPatches) # {}
    /\ PatchLostOnlyByOverlap
    /\ \A c \in Call : PatchesFeature(c) => ReadFeatures(c)
CacheInv ==
    /\ cache \in SlugEntry \cup {None}
    /\ purges \in Nat /\ purged \in [Call -> Nat]
    /\ look \in [Lookup -> [pc: {"idle", "row"}] \cup [pc: {"resolved"}, status: ProductStatus]
                             \cup [pc: {"store"}, status: ProductStatus, readAt: Nat]]
    /\ \A c \in Call : purged[c] <= purges
    /\ cache # None => cache.purges = purges /\ TrueEntry(cache)
    /\ \A l \in Lookup : look[l].pc = "store" => TrueEntry(look[l])

-----------------------------------------------------------------------------
(* The roles of the product.                                               *)

SeedsRoles(c) == Pending(c) /\ req[c].op = "create" /\ req[c].owner
Complete(r) == Template[r.name] \subseteq r.codes
Before(r, c) == r.by = Earlier \/ wroteAt[r.by] <= readAt[c]
ReadRoles(c) ==
    /\ \A k \in got[c].roles : k.system /\ k.name \in SystemRole /\ \E r \in SystemRoles : Same(r, k)
    /\ \A r \in SystemRoles : Before(r, c) => \E k \in got[c].roles : Same(r, k)
NamesRole(c) == Pending(c) /\ req[c].op = "newrole"
ReadNoNamesake(c) == \A r \in SystemRoles : r.name = req[c].name => ~Before(r, c)

RolesInv ==
    /\ RolesTypeOK
    /\ \A r \in roles : r.by # Earlier => wroteAt[r.by] > 0
    /\ \A r, o \in roles : Same(r, o) => r = o
    /\ \A r \in roles : r.system => r.name \in SystemRole
    /\ \A r, o \in roles : ~r.system /\ ~o.system /\ r.by = o.by => r = o
    /\ \A r \in SystemRoles : r.by # Earlier => Complete(r)
    /\ \A r, o \in SystemRoles : r.by = Earlier /\ r.name = o.name => r = o
    /\ (\E c \in Call : owned[c] # None) =>
          /\ \A r \in SystemRoles : Complete(r)
          /\ \A n \in SystemRole : \E r \in SystemRoles : r.name = n
    /\ \A c \in Call : owned[c] # None => \E r \in SystemRoles : r.by = owned[c] /\ r.name = Owner
    /\ NamesakesAccountedFor
    /\ \A c \in Call : (SeedsRoles(c) => ReadRoles(c)) /\ (NamesRole(c) => ReadNoNamesake(c))

-----------------------------------------------------------------------------
(* The tenants, and the permissions of the user's role.                    *)

TenantInv ==
    /\ tenant \in [Tenant -> TenantRow \cup {None}]
    /\ TwoLevels /\ SlugNamesOneTenant
    /\ \A c \in Call :
        /\ Alive(c) => wroteAt[c] > 0
        /\ Pending(c) /\ req[c].op = "create" => ParentFits(req[c].parent)
        /\ Pending(c) /\ req[c].op = "update" => Alive(req[c].tenant)

RoleUpdates == {c \in Committed : req[c].op = "role" /\ SetsCodes(c)}
UpdatesRole(c) == req[c].op = "role" /\ SetsCodes(c)
GrantInv ==
    /\ grants \in [Code -> Call \cup {Earlier, None}]
    /\ RoleIsTheLastSet
    /\ \A c \in Call : Pending(c) /\ req[c].op = "role" =>
          got[c].grants = grants \/ \E d \in RoleUpdates : wroteAt[d] > readAt[c]

-----------------------------------------------------------------------------
(* The requests.                                                           *)

Stage == {"target", "product", "home", "global", "binding", "expiry", "inherited", "permission", "admitted"}
\* A request as it stands (a), and the grounds that it saw hold (S).
Asks(a) == a.pc \in Stage /\ ~a.admin
Shaped(a) ==
    a = [pc |-> a.pc, admin |-> a.admin, home |-> a.home, slug |-> a.slug,
         effective |-> a.effective, rows |-> a.rows]
Saw(a, S, g) == <<a.effective, g>> \in S
\* A row in the session's hands was the tenant's when it was loaded; if it had
\* not expired, that ground held then, of it and of the child e under it.
TrueRow(row, t, e, S) ==
    /\ Alive(t) /\ row.parent = tenant[t].parent /\ row.expires \in Time \cup {None}
    /\ ~Expired(row) =>
        <<t, "own">> \in S /\ (tenant[e].parent = t => <<e, "parent">> \in S)
\* The grounds that its statements have passed were seen to hold.
Passed(a, S) ==
    /\ \A t \in Tenant : <<t, "active">> \in S
    /\ a.pc \in Stage \ {"target"} => Saw(a, S, "family")
    /\ a.pc \in Stage \ {"target", "product"} => Saw(a, S, "product")
    /\ a.pc \in Stage \ {"target", "product", "home"} => Saw(a, S, "home")
    /\ a.pc \in {"expiry", "inherited", "permission"} => Saw(a, S, "entitled")
    /\ a.pc \in {"inherited", "permission"} => Saw(a, S, "own")
    /\ a.pc = "permission" => Saw(a, S, "parent")
Walks(a, S) ==
    /\ a.home = user.home /\ Alive(a.home) /\ a.effective \in Tenant /\ Alive(a.effective)
    /\ Holding \subseteq S
    /\ DOMAIN a.rows \subseteq Tenant
    /\ \A t \in DOMAIN a.rows : TrueRow(a.rows[t], t, a.effective, S)
    /\ a.pc = "inherited" => a.effective \in DOMAIN a.rows /\ a.rows[a.effective].parent # None
    /\ Passed(a, S)
Sound(a, S) ==
    /\ a.pc \in Stage \cup {"idle", "refused"}
    /\ a.pc \in Stage => Shaped(a) /\ a.admin \in BOOLEAN
    /\ Asks(a) /\ a.pc # "admitted" => Walks(a, S)
    /\ Asks(a) /\ a.pc = "admitted" => \A g \in Ground : Saw(a, S, g)

AskInv ==
    /\ scopes \subseteq Tenant \cup {None}
    /\ user \in [home: {Root, Child}, active: BOOLEAN]
    /\ now \in Time
    /\ ask = [r \in Request |-> ask[r]] /\ DOMAIN ask = Request
    /\ seen \in [Request -> SUBSET (Tenant \X Ground)]
    /\ \A r \in Request : Sound(ask[r], seen[r])

IInv == CallsInv /\ PatchInv /\ CacheInv /\ RolesInv /\ TenantInv /\ GrantInv /\ AskInv

-----------------------------------------------------------------------------
(* Steps of the calls.                                                     *)

\* What a call asked, loaded and counted stays.
Stays(d) == req'[d] = req[d] /\ got'[d] = got[d] /\ readAt'[d] = readAt[d] /\ wroteAt'[d] = wroteAt[d]
\* A step in which none commits, and only those of N begin.
Calm(N) ==
    /\ wroteAt' = wroteAt
    /\ \A d \in Call : wroteAt[d] > 0 => Stays(d)
    /\ \A d \in Call : Pending(d)' => d \in N \/ (Pending(d) /\ Stays(d))
\* The step of c's commit.
Commit(c) ==
    /\ Pending(c) /\ wroteAt[c] = 0
    /\ Committed' = Committed \cup {c}
    /\ Count \in Nat /\ Count' = Count + 1
    /\ wroteAt'[c] = Count + 1
    /\ \A d \in Call : req'[d] = req[d] /\ got'[d] = got[d] /\ readAt'[d] = readAt[d]
    /\ \A d \in Call \ {c} : wroteAt'[d] = wroteAt[d] /\ (Pending(d)' => Pending(d))
    /\ ~Pending(c)'

LEMMA CountType ==
    ASSUME CallsInv
    PROVE  Count \in Nat /\ Count = Cardinality(Committed) /\ Committed \subseteq Call
BY FS_CardinalityType DEF CallsInv, Count, Committed

LEMMA CallsQuiet ==
    ASSUME CallsInv, UNCHANGED calls
    PROVE  CallsInv' /\ Calm({})
BY DEF CallsInv, Calm, Stays, calls, Count, Committed, Pending

\* A call that begins has read after all the commits there are.
LEMMA CallsGo ==
    ASSUME CallsInv, NEW c \in Call, NEW r \in Asked, NEW g, Goes(c, r, g)
    PROVE  CallsInv' /\ Calm({c}) /\ pc'[c] = "write" /\ req'[c] = r /\ got'[c] = g /\ readAt'[c] = Count
<1>1. Committed' = Committed /\ Count' = Count /\ Count \in Nat
  BY CountType DEF Committed, Count, Goes
<1>2. wroteAt[c] = 0
  BY DEF CallsInv, Goes
<1>3. /\ pc' = [pc EXCEPT ![c] = "write"] /\ req' = [req EXCEPT ![c] = r]
      /\ got' = [got EXCEPT ![c] = g] /\ readAt' = [readAt EXCEPT ![c] = Count]
      /\ wroteAt' = wroteAt
  BY DEF Goes, Count
<1>4. \A d \in Call \ {c} : pc'[d] = pc[d] /\ Stays(d)
  BY <1>3 DEF CallsInv, Stays
<1>5. pc'[c] = "write" /\ req'[c] = r /\ got'[c] = g /\ readAt'[c] = Count
  BY <1>3 DEF CallsInv
<1>6. Calm({c})
  BY <1>2, <1>3, <1>4 DEF Calm, Pending
<1>7. CallsInv'
  <2>1. /\ DOMAIN req' = Call /\ req' = [d \in Call |-> req'[d]]
        /\ DOMAIN got' = Call /\ got' = [d \in Call |-> got'[d]]
    BY <1>3 DEF CallsInv
  <2>2. ASSUME NEW d \in Call
        PROVE  /\ (Pending(d) \/ wroteAt[d] > 0 => req[d] \in Asked)'
               /\ (wroteAt[d] > 0 => pc[d] = "ended")'
               /\ (pc[d] = "commit" => req[d].op = "product")'
               /\ (readAt[d] <= Count /\ wroteAt[d] <= Count)'
               /\ (wroteAt[d] > 0 => readAt[d] < wroteAt[d])'
    <3>0. Asked' = Asked
      BY DEF Asked
    <3>1. CASE d = c
      BY <3>0, <3>1, <1>1, <1>2, <1>3, <1>5 DEF CallsInv
    <3>2. CASE d # c
      BY <3>0, <3>2, <1>1, <1>3, <1>4 DEF CallsInv, Stays, Pending
    <3> QED BY <3>1, <3>2
  <2> QED BY <2>1, <2>2, <1>1, <1>3 DEF CallsInv
<1> QED BY <1>5, <1>6, <1>7

LEMMA CallsLeave ==
    ASSUME CallsInv, NEW c \in Call, pc[c] \in {"idle", "write", "commit"}, Leaves(c)
    PROVE  CallsInv' /\ Calm({})
<1>1. Committed' = Committed /\ Count' = Count /\ Count \in Nat
  BY CountType DEF Committed, Count, Leaves
<1>2. wroteAt[c] = 0
  BY DEF CallsInv
<1>3. \A d \in Call \ {c} : pc'[d] = pc[d] /\ Stays(d)
  BY DEF CallsInv, Stays, Leaves
<1>4. pc'[c] = "left" /\ readAt'[c] = 0 /\ wroteAt' = wroteAt
  BY DEF CallsInv, Leaves
<1>5. Calm({})
  BY <1>2, <1>3, <1>4 DEF Calm, Pending
<1>6. CallsInv'
  <2>1. /\ DOMAIN req' = Call /\ req' = [d \in Call |-> req'[d]]
        /\ DOMAIN got' = Call /\ got' = [d \in Call |-> got'[d]]
    BY DEF CallsInv, Leaves
  <2>2. ASSUME NEW d \in Call
        PROVE  /\ (Pending(d) \/ wroteAt[d] > 0 => req[d] \in Asked)'
               /\ (wroteAt[d] > 0 => pc[d] = "ended")'
               /\ (pc[d] = "commit" => req[d].op = "product")'
               /\ (readAt[d] <= Count /\ wroteAt[d] <= Count)'
               /\ (wroteAt[d] > 0 => readAt[d] < wroteAt[d])'
    <3>0. Asked' = Asked
      BY DEF Asked
    <3>1. CASE d = c
      BY <3>0, <3>1, <1>1, <1>2, <1>4 DEF CallsInv, Pending
    <3>2. CASE d # c
      BY <3>0, <3>2, <1>1, <1>3, <1>4 DEF CallsInv, Stays, Pending
    <3> QED BY <3>1, <3>2
  <2> QED BY <2>1, <2>2, <1>1, <1>4 DEF CallsInv, Leaves
<1> QED BY <1>5, <1>6

LEMMA CallsCommit ==
    ASSUME CallsInv, NEW c \in Call, Pending(c), Commits(c)
    PROVE  CallsInv' /\ Commit(c)
<1>1. wroteAt[c] = 0 /\ c \notin Committed
  BY DEF CallsInv, Pending, Committed
<1>0. Count \in Nat /\ 1 + Count = Count + 1
  BY CountType
<1>2. Count \in Nat /\ wroteAt' = [wroteAt EXCEPT ![c] = Count + 1]
  BY <1>0 DEF Commits, Count
<1>3. /\ wroteAt'[c] = Count + 1 /\ pc'[c] = "ended"
      /\ \A d \in Call \ {c} : wroteAt'[d] = wroteAt[d] /\ pc'[d] = pc[d]
      /\ req' = req /\ got' = got /\ readAt' = readAt
  BY <1>2 DEF Commits, CallsInv
<1>4. Committed' = Committed \cup {c}
  BY <1>2, <1>3 DEF Committed, CallsInv
<1>5. IsFiniteSet(Committed') /\ Count' = Count + 1
  BY <1>1, <1>4, FS_AddElement DEF CallsInv, Count
<1>6. Commit(c)
  BY <1>1, <1>2, <1>3, <1>4, <1>5 DEF Commit, Pending
<1>7. CallsInv'
  <2>0. Asked' = Asked
    BY DEF Asked
  <2>1. ASSUME NEW d \in Call
        PROVE  /\ (Pending(d) \/ wroteAt[d] > 0 => req[d] \in Asked)'
               /\ (wroteAt[d] > 0 => pc[d] = "ended")'
               /\ (pc[d] = "commit" => req[d].op = "product")'
               /\ (readAt[d] <= Count /\ wroteAt[d] <= Count)'
               /\ (wroteAt[d] > 0 => readAt[d] < wroteAt[d])'
    <3>1. CASE d = c
      BY <3>1, <2>0, <1>2, <1>3, <1>5 DEF CallsInv, Pending
    <3>2. CASE d # c
      BY <3>2, <2>0, <1>2, <1>3, <1>5 DEF CallsInv, Pending
    <3> QED BY <3>1, <3>2
  <2> QED BY <2>1, <1>2, <1>3, <1>5 DEF CallsInv, Commits
<1> QED BY <1>6, <1>7

\* A flush, and an assignment, which only end a call or send it on.
LEMMA CallsMove ==
    ASSUME CallsInv, NEW c \in Call, UNCHANGED <<req, got, readAt, wroteAt>>,
           \/ pc[c] = "idle" /\ pc' = [pc EXCEPT ![c] = "ended"]
           \/ pc[c] = "write" /\ req[c].op = "product" /\ pc' = [pc EXCEPT ![c] = "commit"]
    PROVE  CallsInv' /\ Calm({})
<1>1. Committed' = Committed /\ Count' = Count /\ Asked' = Asked
  BY DEF Committed, Count, Asked
<1>2. wroteAt[c] = 0
  BY DEF CallsInv
<1>3. \A d \in Call \ {c} : pc'[d] = pc[d]
  BY DEF CallsInv
<1>4. pc' \in [Call -> {"idle", "write", "commit", "ended", "left"}]
  BY DEF CallsInv
<1>5. \/ pc[c] = "idle" /\ pc'[c] = "ended"
      \/ pc[c] = "write" /\ req[c].op = "product" /\ pc'[c] = "commit"
  BY DEF CallsInv
<1>6. Calm({})
  BY <1>3, <1>5 DEF Calm, Stays, Pending
<1>7. CallsInv'
  BY <1>1, <1>2, <1>3, <1>4, <1>5 DEF CallsInv, Pending
<1> QED BY <1>6, <1>7

\* While none commits, what has committed is as it was.
LEMMA CalmFacts ==
    ASSUME CallsInv, NEW N, Calm(N)
    PROVE  /\ Committed' = Committed /\ Count' = Count
           /\ Patches' = Patches /\ StatusPatches' = StatusPatches
           /\ FeaturePatches' = FeaturePatches /\ RoleUpdates' = RoleUpdates
           /\ \A d \in Committed : Stays(d)
<1>1. Committed' = Committed /\ Count' = Count
  BY DEF Calm, Committed, Count
<1>2. \A d \in Committed : Stays(d)
  BY DEF Calm, Committed
<1>3. Patches' = Patches /\ RoleUpdates' = RoleUpdates
  BY <1>1, <1>2 DEF Patches, RoleUpdates, SetsCodes, Stays
<1>4. StatusPatches' = StatusPatches /\ FeaturePatches' = FeaturePatches
  BY <1>2, <1>3 DEF StatusPatches, FeaturePatches, Patches, OfStatus, Stays
<1> QED BY <1>1, <1>2, <1>3, <1>4

\* A commit adds its call to those of its kind and disturbs no other.
LEMMA CommitFacts ==
    ASSUME CallsInv, NEW c \in Call, Commit(c)
    PROVE  /\ \A d \in Committed :
                 d # c /\ Stays(d) /\ wroteAt[d] <= Count /\ readAt[d] <= Count /\ wroteAt'[d] < wroteAt'[c]
           /\ Patches' = IF req[c].op = "product" THEN Patches \cup {c} ELSE Patches
           /\ StatusPatches' = IF req[c].op = "product" /\ OfStatus(c) THEN StatusPatches \cup {c} ELSE StatusPatches
           /\ FeaturePatches' = IF req[c].op = "product" /\ ~OfStatus(c) THEN FeaturePatches \cup {c} ELSE FeaturePatches
           /\ RoleUpdates' = IF UpdatesRole(c) THEN RoleUpdates \cup {c} ELSE RoleUpdates
<1>1. \A d \in Committed :
          d # c /\ Stays(d) /\ wroteAt[d] <= Count /\ readAt[d] <= Count /\ wroteAt'[d] < wroteAt'[c]
  <2> SUFFICES ASSUME NEW d \in Committed
               PROVE  d # c /\ Stays(d) /\ wroteAt[d] <= Count /\ readAt[d] <= Count /\ wroteAt'[d] < wroteAt'[c]
    OBVIOUS
  <2>1. d \in Call /\ wroteAt[d] > 0 /\ wroteAt[d] \in Nat /\ wroteAt[d] <= Count /\ readAt[d] <= Count
    BY DEF Committed, CallsInv
  <2>2. d # c /\ Stays(d)
    BY <2>1 DEF Commit, Stays
  <2> QED BY <2>1, <2>2 DEF Commit, Stays
<1>2. \A d \in Call : req'[d] = req[d]
  BY DEF Commit
<1>3. Committed' = Committed \cup {c} /\ Committed \subseteq Call
  BY DEF Commit, Committed
<1>4. /\ Patches' = IF req[c].op = "product" THEN Patches \cup {c} ELSE Patches
      /\ RoleUpdates' = IF UpdatesRole(c) THEN RoleUpdates \cup {c} ELSE RoleUpdates
  BY <1>2, <1>3 DEF Patches, RoleUpdates, UpdatesRole, SetsCodes
<1>5. \A d \in Call : OfStatus(d)' <=> OfStatus(d)
  BY <1>2 DEF OfStatus
<1>6. Patches \subseteq Call /\ Patches' \subseteq Call
  BY <1>3 DEF Patches
<1>7. /\ StatusPatches' = IF req[c].op = "product" /\ OfStatus(c) THEN StatusPatches \cup {c} ELSE StatusPatches
      /\ FeaturePatches' = IF req[c].op = "product" /\ ~OfStatus(c) THEN FeaturePatches \cup {c} ELSE FeaturePatches
  BY <1>4, <1>5, <1>6 DEF StatusPatches, FeaturePatches
<1> QED BY <1>1, <1>4, <1>7

LEMMA PatchShape ==
    ASSUME CallsInv, NEW c \in Call, Pending(c) \/ wroteAt[c] > 0, req[c].op = "product"
    PROVE  /\ req[c] \in StatusPatch \cup FeaturePatch
           /\ OfStatus(c) <=> req[c] \in StatusPatch
           /\ ~OfStatus(c) <=> req[c] \in FeaturePatch
<1>1. req[c] \in Asked
  BY DEF CallsInv
<1>2. req[c] \in StatusPatch \cup FeaturePatch
  BY <1>1 DEF Asked, NewRoleReq, CreateReq, UpdateReq, RoleReq
<1>3. req[c] \in StatusPatch => "status" \in DOMAIN req[c]
  BY DEF StatusPatch
<1>4. req[c] \in FeaturePatch => "status" \notin DOMAIN req[c]
  BY DEF FeaturePatch
<1> QED BY <1>2, <1>3, <1>4 DEF OfStatus

LEMMA OverlapStays ==
    ASSUME CallsInv, NEW c \in Committed, NEW d \in Committed, Stays(c), Stays(d)
    PROVE  Overlap(c, d)' <=> Overlap(c, d)
BY DEF Overlap, Stays

-----------------------------------------------------------------------------
(* The product's row: an administrator's patch of it.                      *)

LEMMA PatchCalm ==
    ASSUME CallsInv, PatchInv, NEW N, Calm(N), product' = product,
           \A c \in N : PatchesFeature(c)' => ReadFeatures(c)'
    PROVE  PatchInv'
<1>1. /\ Committed' = Committed
      /\ StatusPatches' = StatusPatches /\ FeaturePatches' = FeaturePatches
      /\ \A d \in Committed : Stays(d)
  BY CalmFacts
<1>2. StatusPatches \subseteq Committed /\ FeaturePatches \subseteq Committed /\ wroteAt' = wroteAt
  BY DEF StatusPatches, FeaturePatches, Patches, Calm
<1>3. Last(StatusPatches)' = Last(StatusPatches)
  BY <1>1, <1>2 DEF Last
<1>4. \A f \in Feature : FeaturePatchesOf(f)' = FeaturePatchesOf(f)
  BY <1>1, <1>2 DEF FeaturePatchesOf, Stays
<1>5. \A d \in FeaturePatches : Excused(d)' <=> Excused(d)
  BY <1>1, <1>2, OverlapStays DEF Excused
<1>6. PatchLostOnlyByOverlap'
  <2> SUFFICES ASSUME NEW f \in Feature, NEW c \in Last(FeaturePatchesOf(f))'
               PROVE  (product.features[f] = req[c].value \/ Excused(c))'
    BY DEF PatchLostOnlyByOverlap, FeaturePatchesOf, Excused
  <2>1. c \in Last(FeaturePatchesOf(f)) /\ c \in FeaturePatches
    BY <1>2, <1>4 DEF Last, FeaturePatchesOf
  <2>2. product.features[f] = req[c].value \/ Excused(c)
    BY <2>1 DEF PatchInv, PatchLostOnlyByOverlap, FeaturePatchesOf, Excused
  <2> QED BY <2>1, <2>2, <1>1, <1>2, <1>5 DEF Stays
<1>7. ASSUME NEW c \in Call, PatchesFeature(c)'
      PROVE  ReadFeatures(c)'
  <2>1. CASE c \in N
    BY <2>1, <1>7
  <2>2. CASE c \notin N
    <3>1. Pending(c) /\ Stays(c)
      BY <1>7, <2>2 DEF Calm, PatchesFeature
    <3>2. ReadFeatures(c)
      BY <3>1, <1>7 DEF PatchInv, PatchesFeature, Stays, FeaturePatch
    <3> SUFFICES ASSUME NEW f \in Feature,
                        NEW d \in Last({x \in FeaturePatchesOf(f) : wroteAt[x] <= readAt[c]})'
                 PROVE  (got[c].features[f] = req[d].value \/ Excused(d))'
      BY <3>1, <3>2 DEF ReadFeatures, Stays
    <3>3. d \in Last({x \in FeaturePatchesOf(f) : wroteAt[x] <= readAt[c]}) /\ d \in FeaturePatches
      BY <1>2, <1>4, <3>1 DEF Last, Stays, FeaturePatchesOf
    <3>4. got[c].features[f] = req[d].value \/ Excused(d)
      BY <3>2, <3>3 DEF ReadFeatures
    <3> QED BY <3>1, <3>3, <3>4, <1>1, <1>2, <1>5 DEF Stays
  <2> QED BY <2>1, <2>2
<1> QED BY <1>1, <1>3, <1>6, <1>7 DEF PatchInv

\* What has been excused stays so when another commits.
LEMMA ExcusedStays ==
    ASSUME CallsInv, NEW c \in Call, Commit(c), NEW d \in FeaturePatches, Excused(d)
    PROVE  Excused(d)'
<1>1. PICK e \in FeaturePatches \ {d} : Overlap(d, e)
  BY DEF Excused
<1>2. d \in Committed /\ e \in Committed
  BY DEF FeaturePatches, Patches
<1>3. Stays(d) /\ Stays(e) /\ FeaturePatches \subseteq FeaturePatches'
  BY <1>2, CommitFacts
<1>4. Overlap(d, e)'
  BY <1>1, <1>2, <1>3, OverlapStays
<1> QED BY <1>1, <1>3, <1>4 DEF Excused

\* The patches of a key that a pending call had read are those it had read.
LEMMA KnownPatchesStay ==
    ASSUME CallsInv, NEW c \in Call, Commit(c), NEW d \in Call, Pending(d)', NEW f \in Feature
    PROVE  /\ Pending(d) /\ Stays(d)
           /\ {x \in FeaturePatchesOf(f) : wroteAt[x] <= readAt[d]}'
                = {x \in FeaturePatchesOf(f) : wroteAt[x] <= readAt[d]}
           /\ Last({x \in FeaturePatchesOf(f) : wroteAt[x] <= readAt[d]})'
                = Last({x \in FeaturePatchesOf(f) : wroteAt[x] <= readAt[d]})
<1>1. d # c /\ Pending(d) /\ Stays(d)
  BY DEF Commit, Stays
<1>2. /\ FeaturePatches' = FeaturePatches \cup {c} \/ FeaturePatches' = FeaturePatches
      /\ FeaturePatches \subseteq Committed
      /\ \A x \in Committed : Stays(x)
  BY CommitFacts DEF FeaturePatches, Patches
<1>3. wroteAt'[c] = Count + 1 /\ Count \in Nat /\ readAt'[d] = readAt[d] /\ readAt[d] \in Nat /\ readAt[d] <= Count
  BY <1>1 DEF Commit, CallsInv, Stays
<1>4. ~(wroteAt'[c] <= readAt'[d])
  BY <1>3
<1>5. \A x \in FeaturePatches : x \in FeaturePatchesOf(f)' <=> x \in FeaturePatchesOf(f)
  BY <1>2 DEF FeaturePatchesOf, Stays
<1>6. {x \in FeaturePatchesOf(f) : wroteAt[x] <= readAt[d]}'
                = {x \in FeaturePatchesOf(f) : wroteAt[x] <= readAt[d]}
  <2>1. FeaturePatchesOf(f)' \subseteq FeaturePatches \cup {c} /\ FeaturePatchesOf(f) \subseteq FeaturePatches
    BY <1>2 DEF FeaturePatchesOf
  <2>2. \A x \in FeaturePatches : wroteAt'[x] = wroteAt[x]
    BY <1>2 DEF Stays
  <2>3. c \notin FeaturePatches
    BY <1>2 DEF Commit, Committed
  <2> QED BY <2>1, <2>2, <2>3, <1>3, <1>4, <1>5
<1>7. \A x \in FeaturePatchesOf(f) : wroteAt'[x] = wroteAt[x]
  BY <1>2 DEF FeaturePatchesOf, Stays
<1> QED BY <1>1, <1>6, <1>7 DEF Last

\* A patch is the last of its key, or merges into what the patches before it
\* left of the others', or overlaps one it had not read.
LEMMA PatchCommits ==
    ASSUME CallsInv, CallsInv', PatchInv, NEW c \in Call, Commit(c),
           \/ req[c].op = "product" /\ product' = Patched(c)
           \/ req[c].op # "product" /\ product' = product
    PROVE  PatchInv'
<1> DEFINE Featured == req[c].op = "product" /\ ~OfStatus(c)
<1>1. \A d \in Committed :
          d # c /\ Stays(d) /\ wroteAt[d] <= Count /\ readAt[d] <= Count /\ wroteAt'[d] < wroteAt'[c]
  BY CommitFacts
<1>2. /\ StatusPatches \subseteq Committed /\ FeaturePatches \subseteq Committed /\ Committed \subseteq Call
      /\ StatusPatches' \in {StatusPatches, StatusPatches \cup {c}}
      /\ FeaturePatches' = IF Featured THEN FeaturePatches \cup {c} ELSE FeaturePatches
  BY CommitFacts DEF StatusPatches, FeaturePatches, Patches, Committed
<1>3. wroteAt' \in [Call -> Nat] /\ wroteAt'[c] = Count + 1 /\ Count \in Nat /\ req'[c] = req[c] /\ readAt'[c] = readAt[c]
  BY DEF Commit, CallsInv
<1>4. /\ req[c].op = "product" /\ OfStatus(c) => req[c] \in StatusPatch
      /\ Featured => req[c] \in FeaturePatch /\ PatchesFeature(c) /\ ReadFeatures(c)
  <2>1. Pending(c)
    BY DEF Commit
  <2> QED BY <2>1, PatchShape DEF PatchesFeature, PatchInv
<1>5. /\ Featured => /\ got[c].features \in [Feature -> BOOLEAN]
                     /\ product' = [product EXCEPT !.features = Merged(c)]
                     /\ req[c].feature \in Feature /\ req[c].value \in BOOLEAN
      /\ ~Featured => product'.features = product.features
      /\ product' \in [status: ProductStatus, features: [Feature -> BOOLEAN]]
  <2>1. product \in [status: ProductStatus, features: [Feature -> BOOLEAN]]
    BY DEF PatchInv
  <2>2. CASE Featured
    BY <2>1, <2>2, <1>4 DEF ReadFeatures, Patched, Merged, FeaturePatch
  <2>3. CASE req[c].op = "product" /\ OfStatus(c)
    BY <2>1, <2>3, <1>4 DEF Patched, StatusPatch
  <2>4. CASE req[c].op # "product"
    BY <2>1, <2>4
  <2> QED BY <2>2, <2>3, <2>4
<1> HIDE DEF Featured
<1>6. (StatusPatches # {} => Last(StatusPatches) # {})'
  <2>1. CASE StatusPatches' = StatusPatches
    BY <2>1, <1>1, <1>2 DEF PatchInv, Last, Stays
  <2>2. CASE StatusPatches' = StatusPatches \cup {c}
    <3>1. \A d \in StatusPatches \cup {c} : wroteAt'[d] <= wroteAt'[c]
      BY <1>1, <1>2, <1>3
    <3>2. c \in Last(StatusPatches)'
      BY <3>1, <2>2 DEF Last
    <3> QED BY <3>2
  <2> QED BY <1>2, <2>1, <2>2
<1>7. PatchLostOnlyByOverlap'
  <2> SUFFICES ASSUME NEW f \in Feature, NEW d \in Last(FeaturePatchesOf(f))'
               PROVE  (product.features[f] = req[d].value \/ Excused(d))'
    BY DEF PatchLostOnlyByOverlap, FeaturePatchesOf, Excused
  <2>1. d \in FeaturePatches' /\ req'[d].feature = f /\ \A x \in FeaturePatchesOf(f)' : wroteAt'[x] <= wroteAt'[d]
    BY DEF Last, FeaturePatchesOf
  <2>2. CASE d = c
    BY <2>1, <2>2, <1>1, <1>2, <1>3, <1>5 DEF Merged
  <2>3. CASE d # c
    <3>1. d \in FeaturePatches /\ d \in Committed /\ Stays(d) /\ req[d].feature = f
      BY <2>1, <2>3, <1>1, <1>2 DEF Stays
    <3>2. \A x \in FeaturePatchesOf(f) : x \in FeaturePatchesOf(f)' /\ wroteAt'[x] = wroteAt[x]
      BY <1>1, <1>2 DEF FeaturePatchesOf, Stays
    <3>3. d \in Last(FeaturePatchesOf(f))
      BY <3>1, <3>2, <2>1 DEF Last, FeaturePatchesOf, Stays
    <3>4. CASE ~Featured
      <4>1. product.features[f] = req[d].value \/ Excused(d)
        BY <3>3 DEF PatchInv, PatchLostOnlyByOverlap, FeaturePatchesOf, Excused
      <4> QED BY <4>1, <3>1, <3>4, <1>5, ExcusedStays DEF Stays
    <3>5. CASE Featured
      <4>1. req[c].feature # f
        <5> SUFFICES ASSUME req[c].feature = f PROVE FALSE
          OBVIOUS
        <5>1. c \in FeaturePatchesOf(f)'
          BY <1>2, <1>3, <3>5 DEF FeaturePatchesOf
        <5>2. wroteAt'[c] <= wroteAt'[d] /\ wroteAt'[d] < wroteAt'[c]
          BY <5>1, <2>1, <3>1, <1>1
        <5>3. wroteAt'[c] \in Nat /\ wroteAt'[d] \in Nat
          BY <1>3, <3>1, <1>2
        <5> QED BY <5>2, <5>3
      <4>2. product'.features[f] = got[c].features[f]
        BY <4>1, <3>5, <1>5 DEF Merged, PatchInv
      <4>3. CASE wroteAt[d] <= readAt[c]
        <5>1. d \in Last({x \in FeaturePatchesOf(f) : wroteAt[x] <= readAt[c]})
          BY <4>3, <3>3 DEF Last
        <5>2. got[c].features[f] = req[d].value \/ Excused(d)
          BY <5>1, <1>4, <3>5 DEF ReadFeatures
        <5> QED BY <5>2, <4>2, <3>1, ExcusedStays DEF Stays
      <4>4. CASE ~(wroteAt[d] <= readAt[c])
        <5>1. wroteAt[d] \in Nat /\ readAt[c] \in Nat /\ readAt[d] \in Nat /\ readAt[d] <= Count
          BY <3>1, <1>1, <1>2 DEF CallsInv
        <5>2. Overlap(d, c)'
          BY <5>1, <4>4, <3>1, <1>3 DEF Overlap, Stays
        <5>3. c \in FeaturePatches' \ {d}
          BY <1>2, <3>5, <2>3
        <5> QED BY <5>2, <5>3 DEF Excused
      <4> QED BY <4>3, <4>4
    <3> QED BY <3>4, <3>5
  <2> QED BY <2>2, <2>3
<1>8. ASSUME NEW d \in Call, PatchesFeature(d)'
      PROVE  ReadFeatures(d)'
  <2>1. Pending(d) /\ Stays(d)
    <3>1. d # c
      BY <1>8 DEF Commit, PatchesFeature
    <3> QED BY <3>1, <1>8 DEF Commit, Stays, PatchesFeature
  <2>2. ReadFeatures(d)
    BY <2>1, <1>8 DEF PatchInv, PatchesFeature, Stays, FeaturePatch
  <2>3. got'[d].features \in [Feature -> BOOLEAN]
    BY <2>1, <2>2 DEF ReadFeatures, Stays
  <2>4. ASSUME NEW f \in Feature,
               NEW e \in Last({x \in FeaturePatchesOf(f) : wroteAt[x] <= readAt[d]})'
        PROVE  (got[d].features[f] = req[e].value \/ Excused(e))'
    <3>1. e \in Last({x \in FeaturePatchesOf(f) : wroteAt[x] <= readAt[d]})
      BY <1>8, KnownPatchesStay DEF PatchesFeature
    <3>2. got[d].features[f] = req[e].value \/ Excused(e)
      BY <2>2, <3>1 DEF ReadFeatures
    <3>3. e \in FeaturePatches /\ Stays(e)
      BY <3>1, <1>1, <1>2 DEF Last, FeaturePatchesOf
    <3> QED BY <3>2, <3>3, <2>1, ExcusedStays DEF Stays
  <2> QED BY <2>3, <2>4 DEF ReadFeatures
<1> QED BY <1>5, <1>6, <1>7, <1>8 DEF PatchInv

-----------------------------------------------------------------------------
(* Redis' copy of the status.                                              *)

LEMMA EntryCalm ==
    ASSUME CallsInv, NEW N, Calm(N), product' = product, NEW e, TrueEntry(e)
    PROVE  TrueEntry(e)'
<1>1. Count' = Count /\ StatusPatches' = StatusPatches /\ wroteAt' = wroteAt
  BY CalmFacts DEF Calm
<1> QED BY <1>1 DEF TrueEntry

\* A commit of another status makes an entry one that was read before it.
LEMMA EntryCommits ==
    ASSUME CallsInv, PatchInv, NEW c \in Call, Commit(c),
           \/ req[c].op = "product" /\ product' = Patched(c)
           \/ req[c].op # "product" /\ product' = product,
           NEW e, e.readAt \in Nat, TrueEntry(e)
    PROVE  TrueEntry(e)'
<1>1. Count \in Nat /\ Count' = Count + 1 /\ wroteAt'[c] = Count + 1 /\ e.readAt <= Count
  BY DEF Commit, TrueEntry
<1>2. CASE req[c].op = "product" /\ OfStatus(c)
  <2>1. c \in StatusPatches' /\ ~(wroteAt'[c] <= e.readAt)
    BY <1>1, <1>2, CommitFacts
  <2> QED BY <2>1, <1>1 DEF TrueEntry
<1>3. CASE ~(req[c].op = "product" /\ OfStatus(c))
  <2>1. StatusPatches' = StatusPatches /\ \A d \in StatusPatches : wroteAt'[d] = wroteAt[d]
    BY <1>3, CommitFacts DEF StatusPatches, Patches, Stays
  <2>2. product'.status = product.status
    BY <1>3 DEF Patched, PatchInv
  <2> QED BY <2>1, <2>2, <1>1 DEF TrueEntry
<1> QED BY <1>2, <1>3

LEMMA CacheCalm ==
    ASSUME CallsInv, CacheInv, NEW N, Calm(N), UNCHANGED productVars
    PROVE  CacheInv'
BY EntryCalm DEF CacheInv, productVars

LEMMA CacheCommits ==
    ASSUME CallsInv, PatchInv, CacheInv, NEW c \in Call, Commit(c),
           \/ req[c].op = "product" /\ product' = Patched(c)
           \/ req[c].op # "product" /\ product' = product,
           UNCHANGED <<cache, purges, purged, look>>
    PROVE  CacheInv'
<1>1. cache # None => TrueEntry(cache)'
  BY EntryCommits DEF CacheInv, SlugEntry
<1>2. ASSUME NEW l \in Lookup, look[l].pc = "store"
      PROVE  TrueEntry(look[l])'
  <2>1. look[l].readAt \in Nat /\ TrueEntry(look[l])
    BY <1>2 DEF CacheInv
  <2> QED BY <2>1, EntryCommits
<1> QED BY <1>1, <1>2 DEF CacheInv

\* What Redis and the lookups hold, whatever a step does to the key.
LEMMA PurgeStep ==
    ASSUME CallsInv, CacheInv, NEW N, Calm(N), product' = product, look' = look, NEW c \in Call,
           Purge(c) \/ UNCHANGED <<cache, purges, purged>>
    PROVE  CacheInv'
<1>1. CASE UNCHANGED <<cache, purges, purged>>
  BY <1>1, CacheCalm DEF productVars
<1>2. CASE Purge(c)
  <2>1. cache' = None /\ purges' = purges + 1 /\ purged' = [purged EXCEPT ![c] = purges + 1] /\ purges \in Nat
    BY <1>2 DEF Purge, CacheInv
  <2>2. \A l \in Lookup : look[l].pc = "store" => TrueEntry(look[l])'
    BY EntryCalm DEF CacheInv
  <2> QED BY <2>1, <2>2 DEF CacheInv
<1> QED BY <1>1, <1>2

LEMMA LookupStep ==
    ASSUME ProductNamesAssumption, CallsInv, PatchInv, CacheInv, NEW l \in Lookup,
           \/ \E hit \in BOOLEAN : LookCache(l, hit)
           \/ LookRow(l)
           \/ LookStore(l)
    PROVE  CacheInv' /\ UNCHANGED <<calls, product>>
<1>1. CallsInv' /\ Calm({}) /\ UNCHANGED <<calls, product, purges, purged>>
  BY CallsQuiet DEF LookCache, LookRow, LookStore, To
<1>2. \A e : TrueEntry(e) => TrueEntry(e)'
  BY <1>1, EntryCalm
<1>3. product.status \in ProductStatus /\ Count \in Nat /\ None \notin SlugEntry
  BY CountType DEF PatchInv, ProductNamesAssumption
<1>4. ASSUME NEW hit \in BOOLEAN, LookCache(l, hit)
      PROVE  CacheInv'
  <2>1. cache' = cache /\ look' = [look EXCEPT ![l] = IF hit THEN Resolved(cache.status) ELSE [pc |-> "row"]]
    BY <1>4 DEF LookCache, To
  <2>2. (IF hit THEN Resolved(cache.status) ELSE [pc |-> "row"])
           \in [pc: {"idle", "row"}] \cup [pc: {"resolved"}, status: ProductStatus]
    BY <1>4 DEF LookCache, Resolved, CacheInv, SlugEntry
  <2>4. ASSUME NEW x \in Lookup, look'[x].pc = "store"
        PROVE  TrueEntry(look[x])'
    <3>1. x # l /\ look'[x] = look[x]
      BY <2>1, <2>2, <2>4 DEF CacheInv
    <3> QED BY <3>1, <1>2, <2>4 DEF CacheInv
  <2>5. cache # None => TrueEntry(cache)'
    BY <1>2, <2>1 DEF CacheInv
  <2> QED BY <1>1, <2>1, <2>2, <2>4, <2>5 DEF CacheInv
<1>5. ASSUME LookRow(l)
      PROVE  CacheInv'
  <2>0. PICK new : new = [pc |-> "store", status |-> product.status, readAt |-> Count]
    OBVIOUS
  <2>1. cache' = cache /\ look' = [look EXCEPT ![l] = new]
    BY <1>5, <2>0 DEF LookRow, To, Count
  <2>2. new \in [pc: {"store"}, status: ProductStatus, readAt: Nat]
    BY <1>3, <2>0
  <2>3. TrueEntry(new)
    BY <1>3, <2>0 DEF TrueEntry
  <2>4. ASSUME NEW x \in Lookup, look'[x].pc = "store"
        PROVE  TrueEntry(look[x])'
    <3>1. PICK e : e = look'[x]
      OBVIOUS
    <3>2. TrueEntry(e)
      BY <2>1, <2>3, <2>4, <3>1 DEF CacheInv
    <3> QED BY <3>1, <3>2, <1>2
  <2>5. cache # None => TrueEntry(cache)'
    BY <1>2, <2>1 DEF CacheInv
  <2> QED BY <1>1, <2>1, <2>2, <2>4, <2>5 DEF CacheInv
<1>6. ASSUME LookStore(l)
      PROVE  CacheInv'
  <2>0. PICK new : new = [status |-> look[l].status, readAt |-> look[l].readAt, purges |-> purges]
    OBVIOUS
  <2>1. cache' \in {new, cache} /\ look' = [look EXCEPT ![l] = Resolved(look[l].status)] /\ look[l].pc = "store"
    BY <1>6, <2>0 DEF LookStore, To
  <2>2. look[l] \in [pc: {"store"}, status: ProductStatus, readAt: Nat] /\ TrueEntry(look[l])
    BY <2>1 DEF CacheInv
  <2>3. new \in SlugEntry /\ new.purges = purges /\ TrueEntry(new)
    BY <2>0, <2>2 DEF SlugEntry, CacheInv, TrueEntry
  <2>4. Resolved(look[l].status) \in [pc: {"resolved"}, status: ProductStatus]
    BY <2>2 DEF Resolved
  <2>5. ASSUME NEW x \in Lookup, look'[x].pc = "store"
        PROVE  TrueEntry(look[x])'
    <3>1. x # l /\ look'[x] = look[x]
      BY <2>1, <2>4, <2>5 DEF CacheInv
    <3>2. PICK e : e = look[x]
      OBVIOUS
    <3> QED BY <3>1, <3>2, <1>2, <2>5 DEF CacheInv
  <2>6. ASSUME cache' # None
        PROVE  cache' \in SlugEntry /\ cache'.purges = purges /\ TrueEntry(cache)'
    <3>1. PICK e : e = cache'
      OBVIOUS
    <3>2. e \in SlugEntry /\ e.purges = purges /\ TrueEntry(e)
      BY <2>1, <2>3, <2>6, <3>1 DEF CacheInv
    <3> QED BY <3>1, <3>2, <1>2
  <2> QED BY <1>1, <2>1, <2>4, <2>5, <2>6 DEF CacheInv
<1> QED BY <1>1, <1>4, <1>5, <1>6

-----------------------------------------------------------------------------
(* The roles: POST /roles, and the seeding of a new tenant's product.      *)

\* The rows that were there by a call's read, as the next step leaves them.
LEMMA RowsBefore ==
    ASSUME CallsInv, RolesInv, NEW r \in roles
    PROVE  /\ r.by \in Call \cup {Earlier} /\ (r.by # Earlier => r.by \in Committed /\ r.by \in Call)
           /\ r \in Role /\ r = [by |-> r.by, name |-> r.name, system |-> r.system, codes |-> r.codes]
           /\ r.system \in BOOLEAN
BY DEF RolesInv, RolesTypeOK, Role, Committed

\* What the name that two rows have is accounted for by.
AccountedFor(r, o) ==
    /\ r.system /\ o.system => Overlap(r.by, o.by)
    /\ ~r.system /\ o.system =>
          IsRenamed(r) \/ (o.by # Earlier /\ (r.by = Earlier \/ readAt[r.by] < wroteAt[o.by]))
    /\ r.system \/ o.system
LEMMA NamesakesAccounted ==
    ASSUME RolesTypeOK
    PROVE  NamesakesAccountedFor <=> \A r, o \in roles : r.name = o.name /\ r # o => AccountedFor(r, o)
BY DEF NamesakesAccountedFor, AccountedFor, RolesTypeOK, Role

LEMMA RolesCalm ==
    ASSUME CallsInv, RolesInv, NEW N, Calm(N), UNCHANGED roleVars,
           \A c \in N : (SeedsRoles(c)' => ReadRoles(c)') /\ (NamesRole(c)' => ReadNoNamesake(c)')
    PROVE  RolesInv'
<1>1. wroteAt' = wroteAt /\ roles' = roles /\ permissions' = permissions /\ owned' = owned
  BY DEF Calm, roleVars
<1>2. SystemRoles' = SystemRoles
  BY <1>1 DEF SystemRoles
<1>3. \A r \in roles : r.by # Earlier => Stays(r.by)
  BY RowsBefore, CalmFacts
<1>4. NamesakesAccountedFor'
  <2>1. RolesTypeOK' /\ RolesTypeOK /\ Committed' = Committed /\ \A d \in Committed : Stays(d)
    BY <1>1, CalmFacts DEF RolesInv, RolesTypeOK, Role
  <2>2. ASSUME NEW r \in roles, NEW o \in roles, r.name = o.name, r # o
        PROVE  AccountedFor(r, o)'
    <3>1. AccountedFor(r, o) /\ r.system \in BOOLEAN /\ o.system \in BOOLEAN
      BY <2>1, <2>2, NamesakesAccounted, RowsBefore DEF RolesInv
    <3>2. (r.by # Earlier => Stays(r.by)) /\ (o.by # Earlier => Stays(o.by))
      BY <1>3, <2>2
    <3>3. IsRenamed(r) => IsRenamed(r)'
      BY <2>1 DEF IsRenamed, OfRole, Stays
    <3>4. r.system /\ o.system => r.by # Earlier /\ o.by # Earlier
      BY <2>2 DEF RolesInv, SystemRoles
    <3> QED BY <3>1, <3>2, <3>3, <3>4 DEF AccountedFor, Overlap, Stays
  <2>3. \A r, o \in roles' : r.name = o.name /\ r # o => AccountedFor(r, o)'
    BY <1>1, <2>2
  <2> QED BY <2>1, <2>3, NamesakesAccounted DEF AccountedFor, NamesakesAccountedFor, RolesTypeOK, Role, IsRenamed
<1>5. ASSUME NEW c \in Call
      PROVE  (SeedsRoles(c)' => ReadRoles(c)') /\ (NamesRole(c)' => ReadNoNamesake(c)')
  <2>1. CASE c \in N
    BY <2>1
  <2>2. CASE c \notin N /\ Pending(c)'
    <3>1. Pending(c) /\ Stays(c)
      BY <2>2 DEF Calm
    <3>2. (SeedsRoles(c)' <=> SeedsRoles(c)) /\ (NamesRole(c)' <=> NamesRole(c))
      BY <3>1, <2>2 DEF SeedsRoles, NamesRole, Stays
    <3>3. (ReadRoles(c)' <=> ReadRoles(c)) /\ (ReadNoNamesake(c)' <=> ReadNoNamesake(c))
      BY <3>1, <1>1, <1>2 DEF ReadRoles, ReadNoNamesake, Before, Same, Stays
    <3> QED BY <3>2, <3>3 DEF RolesInv
  <2>3. CASE ~Pending(c)'
    BY <2>3 DEF SeedsRoles, NamesRole
  <2> QED BY <2>1, <2>2, <2>3
<1> QED BY <1>1, <1>2, <1>4, <1>5 DEF RolesInv, RolesTypeOK, Complete, Same, Role

\* What a pending call knows is not of the row that another adds.
LEMMA NewRowIsLater ==
    ASSUME CallsInv, NEW c \in Call, Commit(c), NEW d \in Call, Pending(d)', Earlier \notin Call
    PROVE  /\ Pending(d) /\ Stays(d) /\ d # c
           /\ \A r : r.by = c => ~Before(r, d)'
<1>1. Pending(d) /\ Stays(d) /\ d # c
  BY DEF Commit, Stays
<1>2. wroteAt'[c] = Count + 1 /\ Count \in Nat /\ readAt'[d] \in Nat /\ readAt'[d] <= Count
  BY <1>1 DEF Commit, CallsInv, Stays
<1> QED BY <1>1, <1>2 DEF Before

LEMMA BeforeStays ==
    ASSUME CallsInv, RolesInv, NEW c \in Call, Commit(c), NEW r \in roles, NEW d \in Call, Stays(d)
    PROVE  Before(r, d)' <=> Before(r, d)
<1>1. r.by # Earlier => Stays(r.by)
  BY RowsBefore, CommitFacts
<1> QED BY <1>1 DEF Before, Stays

\* A name that a PATCH has given is one that a PATCH has given.
LEMMA RenamedStays ==
    ASSUME CallsInv, NEW c \in Call, Commit(c), NEW r, NEW s, Same(s, r), IsRenamed(r)
    PROVE  IsRenamed(s)'
<1>1. PICK d \in Committed : req[d].op = "role" /\ OfRole(d, r) /\ req[d].name = r.name
  BY DEF IsRenamed
<1>2. Stays(d) /\ d \in Committed'
  BY CommitFacts DEF Commit
<1> QED BY <1>1, <1>2 DEF IsRenamed, OfRole, Same, Stays

\* Two rows of one name, both there before c commits, are excused as before.
LEMMA NamesakesStay ==
    ASSUME CallsInv, RolesInv, NEW c \in Call, Commit(c), NEW r \in roles, NEW o \in roles,
           r.name = o.name, r # o
    PROVE  AccountedFor(r, o)'
<1>1. AccountedFor(r, o) /\ r.system \in BOOLEAN /\ o.system \in BOOLEAN
  BY NamesakesAccounted, RowsBefore DEF RolesInv
<1>2. (r.by # Earlier => Stays(r.by)) /\ (o.by # Earlier => Stays(o.by))
  BY RowsBefore, CommitFacts
<1>3. IsRenamed(r) => IsRenamed(r)'
  BY RenamedStays DEF Same
<1>4. r.system /\ o.system => r.by # Earlier /\ o.by # Earlier
  BY DEF RolesInv, SystemRoles
<1> QED BY <1>1, <1>2, <1>3, <1>4 DEF AccountedFor, Overlap, Stays

LEMMA RolesCommitOther ==
    ASSUME RolesAssumption, CallsInv, RolesInv, NEW c \in Call, Commit(c), UNCHANGED roleVars
    PROVE  RolesInv'
<1>1. roles' = roles /\ permissions' = permissions /\ owned' = owned /\ SystemRoles' = SystemRoles
  BY DEF roleVars, SystemRoles
<1>2. \A r \in roles : r.by # Earlier => Stays(r.by)
  BY RowsBefore, CommitFacts
<1>3. NamesakesAccountedFor'
  <2>1. RolesTypeOK'
    BY <1>1 DEF RolesInv, RolesTypeOK, Role
  <2>2. \A r, o \in roles' : r.name = o.name /\ r # o => AccountedFor(r, o)'
    BY <1>1, NamesakesStay
  <2> QED BY <2>1, <2>2 DEF AccountedFor, NamesakesAccountedFor, RolesTypeOK, Role, IsRenamed
<1>4. ASSUME NEW d \in Call, Pending(d)'
      PROVE  (SeedsRoles(d)' => ReadRoles(d)') /\ (NamesRole(d)' => ReadNoNamesake(d)')
  <2>1. Pending(d) /\ Stays(d)
    BY <1>4, NewRowIsLater DEF RolesAssumption
  <2>2. (SeedsRoles(d)' <=> SeedsRoles(d)) /\ (NamesRole(d)' <=> NamesRole(d))
    BY <1>4, <2>1 DEF SeedsRoles, NamesRole, Stays
  <2>3. \A r \in roles : Before(r, d)' <=> Before(r, d)
    BY <2>1, BeforeStays
  <2>4. SeedsRoles(d) => ReadRoles(d)'
    BY <2>1, <2>3, <1>1 DEF RolesInv, ReadRoles, Same, Stays, SystemRoles
  <2>5. NamesRole(d) => ReadNoNamesake(d)'
    BY <2>1, <2>3, <1>1 DEF RolesInv, ReadNoNamesake, Stays, SystemRoles
  <2> QED BY <2>2, <2>4, <2>5
<1>5. \A d \in Call : (SeedsRoles(d)' => ReadRoles(d)') /\ (NamesRole(d)' => ReadNoNamesake(d)')
  BY <1>4 DEF SeedsRoles, NamesRole
<1>6. RolesTypeOK' /\ \A r \in roles : r.by # Earlier => wroteAt'[r.by] > 0
  BY <1>1, <1>2 DEF RolesInv, RolesTypeOK, Stays, Role
<1> QED BY <1>1, <1>3, <1>5, <1>6 DEF RolesInv, Complete, Same

LEMMA NewRoleCommits ==
    ASSUME RolesAssumption, CallsInv, RolesInv, NEW c \in Call, Commit(c), NewRoleWrite(c)
    PROVE  RolesInv'
<1> DEFINE new == [by |-> c, name |-> req[c].name, system |-> FALSE, codes |-> {}]
<1>1. /\ roles' = roles \cup {new} /\ permissions' = permissions /\ owned' = owned
      /\ \A r \in roles \ SystemRoles : r.name # req[c].name
      /\ req[c].op = "newrole" /\ Pending(c)
  BY DEF NewRoleWrite, Pending
<1>2. req[c].name \in RoleName
  <2>1. req[c] \in Asked
    BY <1>1 DEF CallsInv
  <2> QED BY <2>1, <1>1 DEF Asked, StatusPatch, FeaturePatch, NewRoleReq, CreateReq, UpdateReq, RoleReq
<1>3. ReadNoNamesake(c)
  BY <1>1 DEF RolesInv, NamesRole
<1>4. new \in Role /\ new.by = c /\ new.name = req[c].name /\ new.system = FALSE
  BY <1>2 DEF Role, Permit
<1> HIDE DEF new
<1>5. /\ wroteAt'[c] = Count + 1 /\ Count \in Nat /\ wroteAt[c] = 0 /\ c # Earlier
      /\ readAt[c] \in Nat /\ wroteAt \in [Call -> Nat]
  BY DEF Commit, CallsInv, RolesAssumption
<1>6. \A r \in roles : (r.by # Earlier => Stays(r.by) /\ r.by # c) /\ r.by # c
  BY <1>5, RowsBefore, CommitFacts DEF Committed
<1>7. SystemRoles' = SystemRoles
  BY <1>1, <1>4 DEF SystemRoles
<1>8. RolesTypeOK' /\ \A r \in roles' : r.by # Earlier => wroteAt'[r.by] > 0
  BY <1>1, <1>4, <1>5, <1>6 DEF RolesInv, RolesTypeOK, Stays, Role
<1>9. \A r, o \in roles' : Same(r, o) => r = o
  BY <1>1, <1>4, <1>6 DEF RolesInv, Same
<1>10. /\ \A r \in roles' : r.system => r.name \in SystemRole
       /\ \A r, o \in roles' : ~r.system /\ ~o.system /\ r.by = o.by => r = o
  BY <1>1, <1>4, <1>5, <1>6 DEF RolesInv
<1>11. NamesakesAccountedFor'
  <2> SUFFICES ASSUME NEW r \in roles', NEW o \in roles', r.name = o.name, r # o
               PROVE  AccountedFor(r, o)'
    BY <1>8 DEF AccountedFor, NamesakesAccountedFor, RolesTypeOK, Role, IsRenamed
  <2>1. CASE r \in roles /\ o \in roles
    BY <2>1, NamesakesStay
  <2>2. CASE o = new
    <3>1. r \in roles
      BY <1>1, <2>2
    <3> QED BY <3>1, <2>2, <1>1, <1>4 DEF SystemRoles, AccountedFor
  <2>3. CASE r = new /\ o \in roles
    <3>1. o \in SystemRoles /\ o.system
      BY <2>3, <1>1, <1>4 DEF SystemRoles
    <3>2. ~Before(o, c)
      BY <3>1, <2>3, <1>3, <1>4 DEF ReadNoNamesake
    <3>3. o.by # Earlier /\ o.by \in Call /\ ~(wroteAt[o.by] <= readAt[c]) /\ wroteAt'[o.by] = wroteAt[o.by]
      BY <2>3, <3>2, <1>6, RowsBefore DEF Before, Stays
    <3>4. readAt'[c] < wroteAt'[o.by]
      BY <3>3, <1>5 DEF Commit
    <3> QED BY <3>1, <3>3, <3>4, <2>3, <1>4 DEF AccountedFor
  <2> QED BY <1>1, <2>1, <2>2, <2>3
<1>12. ASSUME NEW d \in Call, Pending(d)'
       PROVE  (SeedsRoles(d)' => ReadRoles(d)') /\ (NamesRole(d)' => ReadNoNamesake(d)')
  <2>1. Pending(d) /\ Stays(d)
    BY <1>12, NewRowIsLater DEF RolesAssumption
  <2>2. (SeedsRoles(d)' <=> SeedsRoles(d)) /\ (NamesRole(d)' <=> NamesRole(d))
    BY <1>12, <2>1 DEF SeedsRoles, NamesRole, Stays
  <2>3. \A r \in roles : Before(r, d)' <=> Before(r, d)
    BY <2>1, BeforeStays
  <2>4. SeedsRoles(d) => ReadRoles(d)'
    <3> SUFFICES ASSUME SeedsRoles(d) PROVE ReadRoles(d)'
      OBVIOUS
    <3>1. ReadRoles(d) /\ got'[d] = got[d]
      BY <2>1 DEF RolesInv, Stays
    <3>2. \A k \in got[d].roles : k.system /\ k.name \in SystemRole /\ \E r \in SystemRoles : Same(r, k)'
      BY <3>1 DEF ReadRoles, Same
    <3>3. \A r \in SystemRoles : Before(r, d)' => \E k \in got[d].roles : Same(r, k)
      BY <3>1, <2>3 DEF ReadRoles, SystemRoles
    <3> QED BY <3>1, <3>2, <3>3, <1>7 DEF ReadRoles, Same
  <2>5. NamesRole(d) => ReadNoNamesake(d)'
    BY <1>7, <2>1, <2>3 DEF RolesInv, ReadNoNamesake, SystemRoles, Stays
  <2> QED BY <2>2, <2>4, <2>5
<1>13. \A d \in Call : (SeedsRoles(d)' => ReadRoles(d)') /\ (NamesRole(d)' => ReadNoNamesake(d)')
  BY <1>12 DEF SeedsRoles, NamesRole
<1>14. /\ \A r \in SystemRoles : r.by # Earlier => Complete(r)
       /\ \A r, o \in SystemRoles : r.by = Earlier /\ r.name = o.name => r = o
       /\ (\E d \in Call : owned'[d] # None) =>
             /\ \A r \in SystemRoles : Complete(r)
             /\ \A n \in SystemRole : \E r \in SystemRoles : r.name = n
       /\ \A d \in Call : owned'[d] # None => \E r \in SystemRoles : r.by = owned'[d] /\ r.name = Owner
  BY <1>1 DEF RolesInv
<1> QED BY <1>7, <1>8, <1>9, <1>10, <1>11, <1>13, <1>14 DEF RolesInv, Complete, Same

\* A row that the seeding call c adds, and the row that one becomes.
Fresh(c, r) ==
    /\ r \in Role /\ r.by = c /\ r.system /\ r.name \in SystemRole /\ r.codes = Template[r.name]
    /\ \A k \in got[c].roles : k.name # r.name
Grows(r, s) == s \in Role /\ Same(s, r) /\ r.codes \subseteq s.codes

\* The rows after seeding are those before, some of them completed, and one for
\* each name the call had not found; what an earlier release left is complete.
LEMMA SeedRows ==
    ASSUME RolesAssumption, CallsInv, RolesInv, NEW c \in Call, Pending(c), wroteAt[c] = 0,
           SeedsRoles(c), Seeds(c)
    PROVE  /\ permissions' = permissions \cup Permit
           /\ \A s \in roles' : Fresh(c, s) \/ \E r \in roles : Grows(r, s)
           /\ \A r \in roles : \E s \in roles' : Grows(r, s)
           /\ \A n \in SystemRole :
                 (\E k \in got[c].roles : k.name = n) \/ \E s \in roles' : Fresh(c, s) /\ s.name = n
           /\ \A s \in roles' : s.by = Earlier /\ s.system => Complete(s)
           /\ \A s, o \in roles' : Same(s, o) => s = o
<1> DEFINE Grown(K, r) == IF \E k \in K : Same(r, k) THEN [r EXCEPT !.codes = @ \cup Template[r.name]] ELSE r
<1>1. PICK K \in Kept(c) :
          roles' = {Grown(K, r) : r \in roles}
                   \cup {NewSystemRole(c, n) : n \in SystemRole \ {r.name : r \in got[c].roles}}
  BY DEF Seeds
<1>2. /\ K \subseteq got[c].roles
      /\ \A r \in got[c].roles : \E k \in K : k.name = r.name
  <2>1. K \subseteq got[c].roles /\ \A r \in got[c].roles : \E k \in K : {j \in K : j.name = r.name} = {k}
    BY DEF Kept
  <2> QED BY <2>1
<1>3. ReadRoles(c)
  BY DEF RolesInv
<1>4. /\ \A r \in roles : r \in Role /\ r.by # c
      /\ \A r \in roles : r.system => r.name \in SystemRole
      /\ c # Earlier /\ DOMAIN Template = SystemRole
      /\ \A n \in SystemRole : Template[n] \subseteq Permit
  <2>1. \A r \in roles : r \in Role /\ r.by # c
    BY DEF RolesInv, RolesTypeOK, RolesAssumption
  <2> QED BY <2>1 DEF RolesInv, RolesAssumption, Permit
<1>5. \A r \in roles : \A k \in K : Same(r, k) => r.name \in SystemRole
  BY <1>2, <1>3 DEF ReadRoles, Same
<1>6. ASSUME NEW r \in roles
      PROVE  Grows(r, Grown(K, r)) /\ ((\E k \in K : Same(r, k)) => Complete(Grown(K, r)))
  <2>1. r \in Role
    BY <1>4
  <2>2. CASE \E k \in K : Same(r, k)
    <3>1. Grown(K, r) = [r EXCEPT !.codes = r.codes \cup Template[r.name]] /\ r.name \in SystemRole
      BY <2>2, <1>5
    <3>2. Template[r.name] \subseteq Permit
      BY <3>1, <1>4
    <3> HIDE DEF Grown
    <3> QED BY <2>1, <3>1, <3>2 DEF Grows, Same, Complete, Role
  <2>3. CASE ~\E k \in K : Same(r, k)
    BY <2>1, <2>3 DEF Grows, Same
  <2> QED BY <2>2, <2>3
<1>7. \A n \in SystemRole \ {r.name : r \in got[c].roles} :
          Fresh(c, NewSystemRole(c, n)) /\ NewSystemRole(c, n).name = n
  BY <1>4 DEF Fresh, NewSystemRole, Role
<1>8. \A s \in roles' : Fresh(c, s) \/ \E r \in roles : s = Grown(K, r)
  BY <1>1, <1>7
<1>9. /\ permissions' = permissions \cup Permit
      /\ \A r \in roles : Grown(K, r) \in roles'
      /\ \A n \in SystemRole \ {r.name : r \in got[c].roles} : NewSystemRole(c, n) \in roles'
  <2>1. permissions' = permissions \cup Permit
    BY DEF Seeds
  <2> QED BY <2>1, <1>1
<1> HIDE DEF Grown
<1>10. ASSUME NEW r \in roles, r.by = Earlier, r.system
       PROVE  Complete(Grown(K, r))
  <2>1. PICK k \in got[c].roles : Same(r, k)
    BY <1>3, <1>10 DEF ReadRoles, SystemRoles, Before
  <2>2. PICK j \in K : j.name = k.name
    BY <1>2
  <2>3. PICK q \in roles : Same(q, j)
    BY <1>2, <1>3 DEF ReadRoles, SystemRoles
  <2>4. q.system /\ q.name = r.name
    BY <1>2, <1>3, <2>1, <2>2, <2>3 DEF ReadRoles, Same
  <2>5. q = r
    BY <2>4, <1>10 DEF RolesInv, SystemRoles
  <2> QED BY <2>3, <2>5, <1>6
<1>11. \A s \in roles' : s.by = Earlier /\ s.system => Complete(s)
  <2> SUFFICES ASSUME NEW s \in roles', s.by = Earlier, s.system PROVE Complete(s)
    OBVIOUS
  <2>1. PICK r \in roles : s = Grown(K, r)
    BY <1>4, <1>8 DEF Fresh
  <2>2. r.by = Earlier /\ r.system
    BY <2>1, <1>6 DEF Grows, Same
  <2> QED BY <2>1, <2>2, <1>10
<1>12. \A s, o \in roles' : Same(s, o) => s = o
  <2> SUFFICES ASSUME NEW s \in roles', NEW o \in roles', Same(s, o) PROVE s = o
    OBVIOUS
  <2>1. CASE Fresh(c, s) /\ Fresh(c, o)
    BY <2>1 DEF Fresh, Same, Role
  <2>2. CASE s.by = c /\ \E r \in roles : o = Grown(K, r)
    BY <2>2, <1>4, <1>6 DEF Same, Grows
  <2>3. CASE o.by = c /\ \E r \in roles : s = Grown(K, r)
    BY <2>3, <1>4, <1>6 DEF Same, Grows
  <2>4. CASE (\E r \in roles : s = Grown(K, r)) /\ (\E r \in roles : o = Grown(K, r))
    <3>1. PICK r \in roles : s = Grown(K, r)
      BY <2>4
    <3>2. PICK q \in roles : o = Grown(K, q)
      BY <2>4
    <3>3. Same(r, q)
      BY <3>1, <3>2, <1>6 DEF Same, Grows
    <3> QED BY <3>1, <3>2, <3>3 DEF RolesInv
  <2> QED BY <2>1, <2>2, <2>3, <2>4, <1>8 DEF Fresh
<1> QED BY <1>6, <1>7, <1>8, <1>9, <1>11, <1>12

LEMMA SeedCommits ==
    ASSUME RolesAssumption, CallsInv, RolesInv, NEW c \in Call, Commit(c),
           SeedsRoles(c), Seeds(c), BindsOwner(c)
    PROVE  RolesInv'
<1>1. /\ permissions' = permissions \cup Permit
      /\ \A s \in roles' : Fresh(c, s) \/ \E r \in roles : Grows(r, s)
      /\ \A r \in roles : \E s \in roles' : Grows(r, s)
      /\ \A n \in SystemRole :
            (\E k \in got[c].roles : k.name = n) \/ \E s \in roles' : Fresh(c, s) /\ s.name = n
      /\ \A s \in roles' : s.by = Earlier /\ s.system => Complete(s)
      /\ \A s, o \in roles' : Same(s, o) => s = o
  BY SeedRows DEF Commit
<1>2. /\ wroteAt'[c] = Count + 1 /\ Count \in Nat /\ wroteAt[c] = 0 /\ c # Earlier
      /\ readAt[c] \in Nat /\ readAt'[c] = readAt[c] /\ wroteAt \in [Call -> Nat] /\ readAt \in [Call -> Nat]
  BY DEF Commit, CallsInv, RolesAssumption
<1>3. \A r \in roles : r.by # c /\ (r.by # Earlier => r.by \in Call /\ Stays(r.by) /\ readAt[r.by] <= Count)
  BY <1>2, RowsBefore, CommitFacts DEF Committed
<1>4. ReadRoles(c)
  BY DEF RolesInv
\* A row there was by the read has kept the seeding from adding its name.
<1>5. ASSUME NEW s \in roles', Fresh(c, s), NEW r \in roles, r.system, r.name = s.name
      PROVE  r.by \in Call /\ r.by # Earlier /\ readAt[c] < wroteAt[r.by] /\ readAt[r.by] < wroteAt'[c]
             /\ Stays(r.by)
  <2>1. ~Before(r, c)
    <3> SUFFICES ASSUME Before(r, c) PROVE FALSE
      OBVIOUS
    <3>1. PICK k \in got[c].roles : Same(r, k)
      BY <1>4, <1>5 DEF ReadRoles, SystemRoles
    <3> QED BY <3>1, <1>5 DEF Fresh, Same
  <2> QED BY <2>1, <1>2, <1>3 DEF Before
<1>6. RolesTypeOK'
  <2>1. permissions' \subseteq Permit
    BY <1>1 DEF RolesInv, RolesTypeOK
  <2>2. roles' \subseteq Role
    BY <1>1 DEF Grows, Fresh
  <2>3. owned' \in [Call -> Call \cup {Earlier, None}]
    BY <2>2 DEF RolesInv, RolesTypeOK, BindsOwner, Role
  <2> QED BY <2>1, <2>2, <2>3 DEF RolesTypeOK, Role, Permit
<1>7. \A s \in roles' : s.by # Earlier => wroteAt'[s.by] > 0
  BY <1>1, <1>2, <1>3 DEF Grows, Fresh, Same, Stays, RolesInv
<1>8. /\ \A s \in roles' : s.system => s.name \in SystemRole
      /\ \A s, o \in roles' : ~s.system /\ ~o.system /\ s.by = o.by => s = o
  <2>1. \A s \in roles' : s.system => s.name \in SystemRole
    BY <1>1 DEF Grows, Fresh, Same, RolesInv
  <2>2. ASSUME NEW s \in roles', NEW o \in roles', ~s.system, ~o.system, s.by = o.by
        PROVE  s = o
    <3>1. PICK r \in roles : Grows(r, s)
      BY <2>2, <1>1 DEF Fresh
    <3>2. PICK q \in roles : Grows(q, o)
      BY <2>2, <1>1 DEF Fresh
    <3>3. r = q
      BY <2>2, <3>1, <3>2 DEF Grows, Same, RolesInv
    <3> QED BY <3>1, <3>2, <3>3, <1>1 DEF Grows, Same
  <2> QED BY <2>1, <2>2
<1>9. \A s \in roles' : s.system => Complete(s)
  <2> SUFFICES ASSUME NEW s \in roles', s.system, s.by # Earlier PROVE Complete(s)
    BY <1>1
  <2>1. CASE Fresh(c, s)
    BY <2>1 DEF Fresh, Complete
  <2>2. CASE \E r \in roles : Grows(r, s)
    <3>1. PICK r \in roles : Grows(r, s)
      BY <2>2
    <3>2. Complete(r) /\ r.name = s.name /\ r.codes \subseteq s.codes
      BY <3>1 DEF Grows, Same, RolesInv, SystemRoles
    <3> QED BY <3>2 DEF Complete
  <2> QED BY <2>1, <2>2, <1>1
<1>10. \A s, o \in roles' : s.system /\ o.system /\ s.by = Earlier /\ s.name = o.name => s = o
  <2> SUFFICES ASSUME NEW s \in roles', NEW o \in roles', s.system, o.system, s.by = Earlier, s.name = o.name
               PROVE  s = o
    OBVIOUS
  <2>1. PICK r \in roles : Grows(r, s)
    BY <1>1, <1>2 DEF Fresh
  <2>2. r.by = Earlier /\ r.system /\ r.name = s.name
    BY <2>1 DEF Grows, Same
  <2>3. ~Fresh(c, o)
    BY <2>2, <1>5
  <2>4. PICK q \in roles : Grows(q, o)
    BY <2>3, <1>1
  <2>5. q = r
    BY <2>2, <2>4 DEF Grows, Same, RolesInv, SystemRoles
  <2> QED BY <2>1, <2>4, <2>5, <1>1 DEF Grows, Same
<1>11. \A n \in SystemRole : \E s \in roles' : s.system /\ s.name = n
  <2> SUFFICES ASSUME NEW n \in SystemRole, NEW k \in got[c].roles, k.name = n
               PROVE  \E s \in roles' : s.system /\ s.name = n
    BY <1>1 DEF Fresh
  <2>1. PICK r \in roles : Same(r, k) /\ k.system
    BY <1>4 DEF ReadRoles, SystemRoles
  <2>2. r.system /\ r.name = n
    BY <2>1 DEF Same
  <2>3. PICK s \in roles' : Grows(r, s)
    BY <1>1
  <2> QED BY <2>2, <2>3 DEF Grows, Same
<1>12. \A d \in Call : owned'[d] # None => \E s \in roles' : s.system /\ s.by = owned'[d] /\ s.name = Owner
  <2> SUFFICES ASSUME NEW d \in Call, owned'[d] # None
               PROVE  \E s \in roles' : s.system /\ s.by = owned'[d] /\ s.name = Owner
    OBVIOUS
  <2>1. PICK s \in roles' : s.system /\ s.name = Owner /\ owned' = [owned EXCEPT ![c] = s.by]
    BY DEF BindsOwner
  <2>2. CASE d = c
    BY <2>1, <2>2 DEF RolesInv, RolesTypeOK
  <2>3. CASE d # c
    <3>1. owned'[d] = owned[d]
      BY <2>1, <2>3 DEF RolesInv, RolesTypeOK
    <3>2. PICK r \in roles : r.system /\ r.by = owned[d] /\ r.name = Owner
      BY <2>3, <3>1 DEF RolesInv, SystemRoles
    <3> QED BY <3>1, <3>2, <1>1 DEF Grows, Same
  <2> QED BY <2>2, <2>3
<1>13. NamesakesAccountedFor'
  <2> SUFFICES ASSUME NEW s \in roles', NEW o \in roles', s.name = o.name, s # o
               PROVE  AccountedFor(s, o)'
    BY <1>6 DEF AccountedFor, NamesakesAccountedFor, RolesTypeOK, Role, IsRenamed
  <2>1. CASE Fresh(c, s) /\ Fresh(c, o)
    <3>1. Same(s, o)
      BY <2>1 DEF Fresh, Same, Role
    <3> QED BY <3>1, <1>1
  <2>2. CASE Fresh(c, s) /\ ~Fresh(c, o)
    <3>1. PICK q \in roles : Grows(q, o)
      BY <2>2, <1>1
    <3>2. q.by = o.by /\ q.system = o.system /\ q.name = s.name
      BY <3>1 DEF Grows, Same
    <3> QED BY <2>2, <3>2, <1>2, <1>5 DEF AccountedFor, Overlap, Stays, Fresh
  <2>3. CASE ~Fresh(c, s) /\ Fresh(c, o)
    <3>1. PICK r \in roles : Grows(r, s)
      BY <2>3, <1>1
    <3>2. r.by = s.by /\ r.system = s.system /\ r.name = o.name
      BY <3>1 DEF Grows, Same
    <3>3. CASE s.system
      BY <2>3, <3>2, <3>3, <1>2, <1>5 DEF AccountedFor, Overlap, Stays, Fresh
    <3>4. CASE ~s.system
      BY <2>3, <3>2, <3>4, <1>2, <1>3 DEF AccountedFor, Stays, Fresh
    <3> QED BY <3>3, <3>4
  <2>4. CASE ~Fresh(c, s) /\ ~Fresh(c, o)
    <3>1. PICK r \in roles : Grows(r, s)
      BY <2>4, <1>1
    <3>2. PICK q \in roles : Grows(q, o)
      BY <2>4, <1>1
    <3>3. /\ r.by = s.by /\ r.system = s.system /\ r.name = s.name
          /\ q.by = o.by /\ q.system = o.system /\ q.name = o.name
      BY <3>1, <3>2 DEF Grows, Same
    <3>4. r # q
      BY <3>1, <3>2, <1>1 DEF Grows, Same
    <3>5. AccountedFor(r, q)' /\ (IsRenamed(r)' => IsRenamed(s)')
      BY <3>3, <3>4, NamesakesStay DEF IsRenamed, OfRole
    <3> QED BY <3>3, <3>5 DEF AccountedFor, Overlap
  <2> QED BY <2>1, <2>2, <2>3, <2>4
<1>14. ASSUME NEW d \in Call, Pending(d)'
       PROVE  (SeedsRoles(d)' => ReadRoles(d)') /\ (NamesRole(d)' => ReadNoNamesake(d)')
  <2>1. Pending(d) /\ Stays(d) /\ d # c /\ \A r : r.by = c => ~Before(r, d)'
    BY <1>14, NewRowIsLater DEF RolesAssumption
  <2>2. (SeedsRoles(d)' <=> SeedsRoles(d)) /\ (NamesRole(d)' <=> NamesRole(d))
    BY <1>14, <2>1 DEF SeedsRoles, NamesRole, Stays
  <2>3. \A s \in roles' : Before(s, d)' => \E r \in roles : Grows(r, s) /\ Before(r, d)
    <3> SUFFICES ASSUME NEW s \in roles', Before(s, d)' PROVE \E r \in roles : Grows(r, s) /\ Before(r, d)
      OBVIOUS
    <3>1. PICK x : x = s
      OBVIOUS
    <3>2. x.by # c
      BY <2>1, <3>1
    <3>3. PICK r \in roles : Grows(r, s)
      BY <3>1, <3>2, <1>1 DEF Fresh
    <3>4. Before(r, d)'
      BY <3>3 DEF Grows, Same, Before
    <3> QED BY <3>3, <3>4, <2>1, BeforeStays
  <2>4. SeedsRoles(d) => ReadRoles(d)'
    <3> SUFFICES ASSUME SeedsRoles(d) PROVE ReadRoles(d)'
      OBVIOUS
    <3>1. ReadRoles(d) /\ got'[d] = got[d]
      BY <2>1 DEF RolesInv, Stays
    <3>2. \A k \in got[d].roles : k.system /\ k.name \in SystemRole /\ \E s \in SystemRoles' : Same(s, k)
      <4> SUFFICES ASSUME NEW k \in got[d].roles
                   PROVE  k.system /\ k.name \in SystemRole /\ \E s \in SystemRoles' : Same(s, k)
        OBVIOUS
      <4>1. PICK r \in roles : Same(r, k) /\ r.system
        BY <3>1 DEF ReadRoles, SystemRoles
      <4>2. PICK s \in roles' : Grows(r, s)
        BY <1>1
      <4> QED BY <3>1, <4>1, <4>2 DEF ReadRoles, SystemRoles, Grows, Same
    <3>3. \A s \in SystemRoles' : Before(s, d)' => \E k \in got[d].roles : Same(s, k)
      <4> SUFFICES ASSUME NEW s \in SystemRoles', Before(s, d)' PROVE \E k \in got[d].roles : Same(s, k)
        OBVIOUS
      <4>1. PICK r \in roles : Grows(r, s) /\ Before(r, d)
        BY <2>3 DEF SystemRoles
      <4>2. r \in SystemRoles
        BY <4>1 DEF SystemRoles, Grows, Same
      <4>3. PICK k \in got[d].roles : Same(r, k)
        BY <3>1, <4>1, <4>2 DEF ReadRoles
      <4> QED BY <4>1, <4>3 DEF Grows, Same
    <3> QED BY <3>1, <3>2, <3>3 DEF ReadRoles, Same
  <2>5. NamesRole(d) => ReadNoNamesake(d)'
    <3> SUFFICES ASSUME NamesRole(d), NEW s \in roles', s.system, s.name = req'[d].name, Before(s, d)' PROVE FALSE
      BY DEF ReadNoNamesake, SystemRoles
    <3>1. PICK r \in roles : Grows(r, s) /\ Before(r, d)
      BY <2>3
    <3> QED BY <3>1, <2>1 DEF RolesInv, ReadNoNamesake, SystemRoles, Stays, Grows, Same
  <2> QED BY <2>2, <2>4, <2>5
<1>15. \A d \in Call : (SeedsRoles(d)' => ReadRoles(d)') /\ (NamesRole(d)' => ReadNoNamesake(d)')
  BY <1>14 DEF SeedsRoles, NamesRole
<1>16. SystemRoles' = {s \in roles' : s.system}
  BY DEF SystemRoles
<1> QED BY <1>1, <1>6, <1>7, <1>8, <1>9, <1>10, <1>11, <1>12, <1>13, <1>15, <1>16 DEF RolesInv, Complete, Same

\* PATCH /roles/{id}: one of the tenant's own roles gets another name, and the
\* system roles stay as they are.
LEMMA RoleCommits ==
    ASSUME RolesAssumption, CallsInv, RolesInv, NEW c \in Call, Commit(c),
           req[c] \in RoleReq, Renameable(c), roles' = RolesRenamed(c), UNCHANGED <<permissions, owned>>
    PROVE  RolesInv'
<1> DEFINE Renamed(r) == IF Renames(c) /\ OfRole(c, r) THEN [r EXCEPT !.name = req[c].name] ELSE r
<1>1. roles' = {Renamed(r) : r \in roles}
  BY DEF RolesRenamed
<1>2. \A r \in roles : r \in Role
  BY DEF RolesInv, RolesTypeOK
<1>3. req[c].name \in RoleName \cup {None} /\ req[c].op = "role" /\ req'[c] = req[c] /\ c \in Committed'
  BY DEF RoleReq, Commit
<1>4. ASSUME NEW r \in roles
      PROVE  /\ Renamed(r) \in Role /\ Renamed(r).by = r.by /\ Renamed(r).system = r.system
             /\ r.system => Renamed(r) = r
             /\ \/ Renamed(r) = r
                \/ Renames(c) /\ OfRole(c, r) /\ ~r.system /\ Renamed(r).name = req[c].name
  BY <1>2, <1>3 DEF Renames, OfRole, Role
<1> HIDE DEF Renamed
<1>5. SystemRoles' = SystemRoles
  BY <1>1, <1>4 DEF SystemRoles
<1>6. RolesTypeOK'
  BY <1>1, <1>4 DEF RolesInv, RolesTypeOK, Role, Permit
<1>7. \A r \in roles : r.by # Earlier => Stays(r.by) /\ wroteAt'[r.by] > 0
  BY RowsBefore, CommitFacts DEF RolesInv, Stays
<1>8. \A s \in roles' : s.by # Earlier => wroteAt'[s.by] > 0
  BY <1>1, <1>4, <1>7
<1>9. /\ \A s \in roles' : s.system => s.name \in SystemRole
      /\ \A s, o \in roles' : ~s.system /\ ~o.system /\ s.by = o.by => s = o
      /\ \A s, o \in roles' : Same(s, o) => s = o
  <2>1. \A s \in roles' : s.system => s.name \in SystemRole
    BY <1>1, <1>4 DEF RolesInv
  <2>2. ASSUME NEW r \in roles, NEW q \in roles, ~r.system, ~q.system, r.by = q.by PROVE r = q
    BY <2>2 DEF RolesInv
  <2>3. ASSUME NEW r \in roles, NEW q \in roles, r.system, q.system, Same(r, q) PROVE r = q
    BY <2>3 DEF RolesInv
  <2> QED BY <1>1, <1>2, <1>4, <2>1, <2>2, <2>3 DEF Same, Role
<1>10. NamesakesAccountedFor'
  <2> SUFFICES ASSUME NEW r \in roles, NEW q \in roles, NEW s, NEW o, s = Renamed(r), o = Renamed(q),
                      s.name = o.name, s # o
               PROVE  AccountedFor(s, o)'
    <3>1. \A s, o \in roles' : s.name = o.name /\ s # o => AccountedFor(s, o)'
      BY <1>1
    <3> QED BY <1>6, <3>1 DEF AccountedFor, NamesakesAccountedFor, RolesTypeOK, Role, IsRenamed
  <2>1. ASSUME NEW x \in roles, NEW y \in roles, ~x.system, ~y.system, Renamed(x) # x,
               Renamed(x).name = Renamed(y).name
        PROVE  x = y
    <3>1. Renames(c) /\ OfRole(c, x) /\ Renamed(x).name = req[c].name
      BY <2>1, <1>4
    <3>2. OfRole(c, y)
      BY <3>1, <2>1, <1>4 DEF Renameable, SystemRoles
    <3> QED BY <3>1, <3>2, <2>1 DEF OfRole, RolesInv
  <2>2. CASE s = r /\ o = q
    <3>1. r.name = q.name /\ r # q
      BY <2>2
    <3> QED BY <3>1, <2>2, NamesakesStay
  <2>3. CASE Renamed(r) # r
    <3>1. q.system /\ ~r.system
      BY <2>1, <2>3, <1>2, <1>4
    <3>2. Renamed(r).name = req[c].name /\ OfRole(c, r)
      BY <2>3, <1>4
    <3>3. s.name = req[c].name /\ s.by = req[c].role /\ ~s.system /\ o.system
      BY <3>1, <3>2, <1>4 DEF OfRole
    <3>4. IsRenamed(s)'
      BY <3>3, <1>3 DEF IsRenamed, OfRole
    <3> QED BY <3>3, <3>4 DEF AccountedFor
  <2>4. CASE Renamed(q) # q
    <3>1. r.system /\ ~q.system
      BY <2>1, <2>4, <1>2, <1>4
    <3>2. s.system /\ ~o.system
      BY <3>1, <1>4
    <3> QED BY <3>2 DEF AccountedFor
  <2> QED BY <2>2, <2>3, <2>4
<1>11. ASSUME NEW d \in Call, Pending(d)'
       PROVE  (SeedsRoles(d)' => ReadRoles(d)') /\ (NamesRole(d)' => ReadNoNamesake(d)')
  <2>1. Pending(d) /\ Stays(d)
    BY <1>11, NewRowIsLater DEF RolesAssumption
  <2>2. (SeedsRoles(d)' <=> SeedsRoles(d)) /\ (NamesRole(d)' <=> NamesRole(d))
    BY <1>11, <2>1 DEF SeedsRoles, NamesRole, Stays
  <2>3. \A r \in SystemRoles : Before(r, d)' <=> Before(r, d)
    BY <2>1, BeforeStays DEF SystemRoles
  <2>4. SeedsRoles(d) => ReadRoles(d)'
    BY <2>1, <2>3, <1>5 DEF RolesInv, ReadRoles, Same, Stays
  <2>5. NamesRole(d) => ReadNoNamesake(d)'
    BY <2>1, <2>3, <1>5 DEF RolesInv, ReadNoNamesake, Stays
  <2> QED BY <2>2, <2>4, <2>5
<1>12. \A d \in Call : (SeedsRoles(d)' => ReadRoles(d)') /\ (NamesRole(d)' => ReadNoNamesake(d)')
  BY <1>11 DEF SeedsRoles, NamesRole
<1> QED BY <1>5, <1>6, <1>8, <1>9, <1>10, <1>12 DEF RolesInv, Complete, Same

-----------------------------------------------------------------------------
(* The tree of tenants, and the permissions of the role.                   *)

\* A tenant that is there stays, and under whom it is.
Keeps == \A t \in Tenant : Alive(t) => Alive(t)' /\ tenant'[t].parent = tenant[t].parent
Fits(c) ==
    /\ Pending(c) /\ req[c].op = "create" => ParentFits(req[c].parent)
    /\ Pending(c) /\ req[c].op = "update" => Alive(req[c].tenant)

\* What a call that is still to commit has asked for.
LEMMA AskedShape ==
    ASSUME CallsInv, NEW c \in Call, Pending(c)
    PROVE  /\ req[c].op = "create" => req[c] \in CreateReq
           /\ req[c].op = "update" => req[c] \in UpdateReq
           /\ req[c].op = "role" => req[c] \in RoleReq
<1>1. req[c] \in Asked
  BY DEF CallsInv
<1> QED BY <1>1 DEF Asked, StatusPatch, FeaturePatch, NewRoleReq, CreateReq, UpdateReq, RoleReq

LEMMA FitsStays ==
    ASSUME CallsInv, NEW c \in Call, Pending(c), req'[c] = req[c], Fits(c), Keeps
    PROVE  Fits(c)'
<1>1. CASE req[c].op = "create"
  <2>1. req[c].parent \in Tenant \cup {None} /\ ParentFits(req[c].parent)
    BY <1>1, AskedShape DEF CreateReq, Fits
  <2>2. ParentFits(req[c].parent)'
    BY <2>1 DEF ParentFits, Keeps
  <2> QED BY <2>2, <1>1 DEF Fits
<1>2. CASE req[c].op = "update"
  <2>1. req[c].tenant \in Tenant /\ Alive(req[c].tenant)
    BY <1>2, AskedShape DEF UpdateReq, Fits
  <2> QED BY <2>1, <1>2 DEF Fits, Keeps
<1> QED BY <1>1, <1>2 DEF Fits

LEMMA TenantCalm ==
    ASSUME CallsInv, TenantInv, NEW N, Calm(N), tenant' = tenant, \A c \in N : Fits(c)'
    PROVE  TenantInv'
<1>1. Keeps
  BY DEF Keeps, Alive
<1>2. \A c \in Call : Fits(c)'
  <2> SUFFICES ASSUME NEW c \in Call, Pending(c)', c \notin N PROVE Fits(c)'
    BY DEF Fits
  <2>1. Pending(c) /\ Stays(c)
    BY DEF Calm
  <2> QED BY <2>1, <1>1, FitsStays DEF TenantInv, Fits, Stays
<1>3. \A c \in Call : Alive(c)' => wroteAt'[c] > 0
  BY DEF TenantInv, Alive, Calm
<1>4. TwoLevels' /\ SlugNamesOneTenant'
  BY DEF TenantInv, TwoLevels, SlugNamesOneTenant, Alive
<1> QED BY <1>2, <1>3, <1>4 DEF TenantInv, Fits

\* A commit's effect on the tree, once it is known what it does to the rows.
LEMMA TenantCommits ==
    ASSUME CallsInv, TenantInv, NEW c \in Call, Commit(c), Keeps,
           tenant' \in [Tenant -> TenantRow \cup {None}],
           \A t \in Tenant \ {c} : Alive(t)' => Alive(t),
           TwoLevels', SlugNamesOneTenant'
    PROVE  TenantInv'
<1>1. \A d \in Call : Fits(d)'
  <2> SUFFICES ASSUME NEW d \in Call, Pending(d)' PROVE Fits(d)'
    BY DEF Fits
  <2>1. Pending(d) /\ req'[d] = req[d]
    BY DEF Commit
  <2> QED BY <2>1, FitsStays DEF TenantInv, Fits
<1>2. ASSUME NEW d \in Call, Alive(d)'
      PROVE  wroteAt'[d] > 0
  <2>1. CASE d = c
    BY <2>1 DEF Commit
  <2>2. CASE d # c
    <3>1. Alive(d)
      BY <2>2, <1>2 DEF Tenant
    <3> QED BY <2>2, <3>1 DEF TenantInv, Commit
  <2> QED BY <2>1, <2>2
<1> QED BY <1>1, <1>2 DEF TenantInv, Fits

LEMMA TenantCommitOther ==
    ASSUME CallsInv, TenantInv, NEW c \in Call, Commit(c), tenant' = tenant
    PROVE  TenantInv' /\ Keeps
<1>1. Keeps /\ \A t \in Tenant \ {c} : Alive(t)' => Alive(t)
  BY DEF Keeps, Alive
<1>2. TwoLevels' /\ SlugNamesOneTenant' /\ tenant' \in [Tenant -> TenantRow \cup {None}]
  BY DEF TenantInv, TwoLevels, SlugNamesOneTenant, Alive
<1> QED BY <1>1, <1>2, TenantCommits

LEMMA CreateCommits ==
    ASSUME NoneAssumption, CallsInv, TenantInv, NEW c \in Call, Commit(c),
           req[c].op = "create", SlugFree(req[c].slug), tenant' = [tenant EXCEPT ![c] = NewTenant(c)]
    PROVE  TenantInv' /\ Keeps
<1>1. c \in Tenant /\ ~Alive(c) /\ Pending(c)
  BY DEF Tenant, TenantInv, Commit, CallsInv
<1>2. /\ req[c].slug \in Slug /\ req[c].parent \in Tenant \cup {None}
      /\ ParentFits(req[c].parent) /\ readAt[c] \in Nat
  BY <1>1, AskedShape DEF CreateReq, TenantInv, CallsInv
<1>3. NewTenant(c) \in TenantRow /\ NewTenant(c).slug = req[c].slug /\ NewTenant(c).parent = req[c].parent
  BY <1>2 DEF NewTenant, TenantRow
<1>4. tenant \in [Tenant -> TenantRow \cup {None}]
  BY DEF TenantInv
<1>5. /\ \A t \in Tenant : tenant'[t] = IF t = c THEN NewTenant(c) ELSE tenant[t]
      /\ tenant' \in [Tenant -> TenantRow \cup {None}]
  BY <1>1, <1>3, <1>4
<1> HIDE DEF NewTenant
<1>6. Keeps /\ (\A t \in Tenant \ {c} : Alive(t)' <=> Alive(t)) /\ Alive(c)'
  BY <1>1, <1>3, <1>5 DEF Keeps, Alive, NoneAssumption
<1>7. TwoLevels'
  <2> SUFFICES ASSUME NEW t \in Tenant, Alive(t)', tenant'[t].parent # None
               PROVE  Alive(tenant[t].parent)' /\ tenant'[tenant'[t].parent].parent = None
    BY DEF TwoLevels
  <2>1. CASE t = c
    <3>1. req[c].parent \in Tenant /\ Alive(req[c].parent) /\ tenant[req[c].parent].parent = None
      BY <2>1, <1>1, <1>2, <1>3, <1>5 DEF ParentFits
    <3> QED BY <2>1, <3>1, <1>1, <1>3, <1>5, <1>6 DEF Keeps
  <2>2. CASE t # c
    <3>1. tenant'[t] = tenant[t] /\ Alive(t) /\ tenant[t] \in TenantRow
      BY <2>2, <1>4, <1>5, <1>6 DEF Alive
    <3>2. tenant[t].parent \in Tenant /\ Alive(tenant[t].parent) /\ tenant[tenant[t].parent].parent = None
      BY <3>1 DEF TenantInv, TwoLevels, TenantRow
    <3> QED BY <3>1, <3>2, <1>6 DEF Keeps, Alive
  <2> QED BY <2>1, <2>2
<1>8. SlugNamesOneTenant'
  <2> SUFFICES ASSUME NEW t \in Tenant, NEW o \in Tenant, Alive(t)', Alive(o)', tenant'[t].slug = tenant'[o].slug
               PROVE  t = o
    BY DEF SlugNamesOneTenant
  <2> QED BY <1>3, <1>5, <1>6 DEF TenantInv, SlugNamesOneTenant, SlugFree
<1> QED BY <1>5, <1>6, <1>7, <1>8, TenantCommits

LEMMA UpdateCommits ==
    ASSUME NoneAssumption, CallsInv, TenantInv, NEW c \in Call, Commit(c), req[c].op = "update",
           req[c].column = "slug" /\ req[c].value # tenant[req[c].tenant].slug => SlugFree(req[c].value),
           tenant' = [tenant EXCEPT ![req[c].tenant][req[c].column] = req[c].value]
    PROVE  TenantInv' /\ Keeps
<1>1. PICK t : t = req[c].tenant
  OBVIOUS
<1>2. PICK row : row = [tenant[t] EXCEPT ![req[c].column] = req[c].value]
  OBVIOUS
<1>3. Pending(c) /\ req[c] \in UpdateReq
  BY AskedShape DEF Commit
<1>4. t \in Tenant /\ Alive(t) /\ tenant[t] \in TenantRow
  BY <1>1, <1>3 DEF UpdateReq, TenantInv, Alive
<1>5. row \in TenantRow /\ row.parent = tenant[t].parent /\ (req[c].column # "slug" => row.slug = tenant[t].slug)
      /\ (req[c].column = "slug" => row.slug = req[c].value)
  <2>1. CASE req[c].column = "slug"
    BY <2>1, <1>2, <1>3, <1>4 DEF UpdateReq, TenantRow
  <2>2. CASE req[c].column = "expires"
    BY <2>2, <1>2, <1>3, <1>4 DEF UpdateReq, TenantRow
  <2>3. CASE req[c].column = "allow"
    BY <2>3, <1>2, <1>3, <1>4 DEF UpdateReq, TenantRow
  <2>4. CASE req[c].column = "active"
    BY <2>4, <1>2, <1>3, <1>4 DEF UpdateReq, TenantRow
  <2> QED BY <2>1, <2>2, <2>3, <2>4, <1>3 DEF UpdateReq
<1>6. /\ \A o \in Tenant : tenant'[o] = IF o = t THEN row ELSE tenant[o]
      /\ tenant' \in [Tenant -> TenantRow \cup {None}]
  <2>1. tenant' = [tenant EXCEPT ![t] = row]
    BY <1>1, <1>2
  <2> QED BY <2>1, <1>4, <1>5 DEF TenantInv
<1>7. Keeps /\ \A o \in Tenant : Alive(o)' <=> Alive(o)
  BY <1>4, <1>5, <1>6 DEF Keeps, Alive, NoneAssumption
<1>8. TwoLevels'
  <2> SUFFICES ASSUME NEW o \in Tenant, Alive(o)', tenant'[o].parent # None
               PROVE  Alive(tenant[o].parent)' /\ tenant'[tenant'[o].parent].parent = None
    BY DEF TwoLevels
  <2>1. Alive(o) /\ tenant'[o].parent = tenant[o].parent /\ tenant[o] \in TenantRow
    BY <1>7 DEF Keeps, TenantInv, Alive
  <2>2. tenant[o].parent \in Tenant /\ Alive(tenant[o].parent) /\ tenant[tenant[o].parent].parent = None
    BY <2>1 DEF TenantInv, TwoLevels, TenantRow
  <2> QED BY <2>1, <2>2, <1>7 DEF Keeps, Alive
<1>9. SlugNamesOneTenant'
  <2> SUFFICES ASSUME NEW a \in Tenant, NEW b \in Tenant, Alive(a)', Alive(b)', tenant'[a].slug = tenant'[b].slug
               PROVE  a = b
    BY DEF SlugNamesOneTenant
  <2>1. Alive(a) /\ Alive(b)
    BY <1>7
  <2>2. row.slug = tenant[t].slug \/ SlugFree(row.slug)
    BY <1>1, <1>5
  <2> QED BY <2>1, <2>2, <1>4, <1>6 DEF TenantInv, SlugNamesOneTenant, SlugFree
<1> QED BY <1>6, <1>7, <1>8, <1>9, TenantCommits

LEMMA GrantCalm ==
    ASSUME CallsInv, GrantInv, NEW N, Calm(N), grants' = grants,
           \A c \in N : req'[c].op = "role" => got'[c].grants = grants
    PROVE  GrantInv'
<1>1. Committed' = Committed /\ RoleUpdates' = RoleUpdates /\ (\A d \in Committed : Stays(d)) /\ wroteAt' = wroteAt
  BY CalmFacts DEF Calm
<1>2. RoleIsTheLastSet'
  <2> SUFFICES ASSUME NEW c \in Last(RoleUpdates)'
               PROVE  (Held = req[c].codes \/ \E d \in RoleUpdates \ {c} : Overlap(c, d))'
    BY DEF RoleIsTheLastSet, RoleUpdates, SetsCodes
  <2>1. c \in Last(RoleUpdates) /\ c \in Committed /\ RoleUpdates \subseteq Committed
    BY <1>1 DEF Last, RoleUpdates
  <2>2. Held = req[c].codes \/ \E d \in RoleUpdates \ {c} : Overlap(c, d)
    BY <2>1 DEF GrantInv, RoleIsTheLastSet, RoleUpdates
  <2>3. Held' = Held /\ req'[c] = req[c]
    BY <2>1, <1>1 DEF Held, Stays
  <2> QED BY <2>1, <2>2, <2>3, <1>1, OverlapStays
<1>3. ASSUME NEW c \in Call, Pending(c)', req'[c].op = "role"
      PROVE  got'[c].grants = grants \/ \E d \in RoleUpdates : wroteAt[d] > readAt'[c]
  <2>1. CASE c \in N
    BY <2>1, <1>3
  <2>2. CASE c \notin N
    <3>1. Pending(c) /\ Stays(c)
      BY <2>2, <1>3 DEF Calm
    <3> QED BY <3>1, <1>3 DEF GrantInv, Stays
  <2> QED BY <2>1, <2>2
<1> QED BY <1>1, <1>2, <1>3 DEF GrantInv

LEMMA GrantCommits ==
    ASSUME RolesAssumption, AccessNamesAssumption, CodesAssumption, CallsInv, CallsInv', GrantInv,
           NEW c \in Call, Commit(c),
           grants' = IF UpdatesRole(c) THEN Granted(c) ELSE grants
    PROVE  GrantInv'
<1>1. /\ \A d \in Committed :
          d # c /\ Stays(d) /\ wroteAt[d] <= Count /\ readAt[d] <= Count /\ wroteAt'[d] < wroteAt'[c]
      /\ RoleUpdates' = IF UpdatesRole(c) THEN RoleUpdates \cup {c} ELSE RoleUpdates
      /\ RoleUpdates \subseteq Committed /\ Committed \subseteq Call
  BY CommitFacts DEF RoleUpdates, Committed
<1>2. /\ wroteAt'[c] = Count + 1 /\ Count \in Nat /\ readAt[c] \in Nat /\ readAt'[c] = readAt[c] /\ req'[c] = req[c]
      /\ readAt \in [Call -> Nat] /\ wroteAt \in [Call -> Nat]
      /\ Pending(c) /\ c # None
  BY DEF Commit, CallsInv, AccessNamesAssumption
<1>3. ASSUME UpdatesRole(c)
      PROVE  /\ req[c].codes \subseteq Code
             /\ Held' = req[c].codes \/ \E d \in RoleUpdates : Overlap(c, d)'
  <2>1. req[c].codes \subseteq Code
    BY <1>2, <1>3, AskedShape DEF RoleReq, CodesAssumption, UpdatesRole, SetsCodes
  <2>2. CASE got[c].grants = grants
    <3>1. \A p \in Code : grants'[p] # None <=> p \in req[c].codes
      BY <2>2, <1>2, <1>3 DEF Granted, Deleted
    <3> QED BY <2>1, <3>1 DEF Held
  <2>3. CASE got[c].grants # grants
    <3>1. PICK d \in RoleUpdates : wroteAt[d] > readAt[c]
      BY <2>3, <1>2, <1>3 DEF GrantInv, UpdatesRole
    <3>2. Overlap(c, d)'
      BY <3>1, <1>1, <1>2 DEF Overlap, Stays
    <3> QED BY <2>1, <3>1, <3>2
  <2> QED BY <2>2, <2>3
<1>4. RoleIsTheLastSet'
  <2> SUFFICES ASSUME NEW x \in Last(RoleUpdates)'
               PROVE  (Held = req[x].codes \/ \E d \in RoleUpdates \ {x} : Overlap(x, d))'
    BY DEF RoleIsTheLastSet, RoleUpdates
  <2>1. CASE UpdatesRole(c)
    <3>1. x = c
      <4>1. c \in RoleUpdates' /\ wroteAt'[c] <= wroteAt'[x] /\ x \in RoleUpdates \cup {c}
        BY <2>1, <1>1 DEF Last
      <4>2. x \in Committed => wroteAt'[x] < wroteAt'[c] /\ wroteAt'[x] \in Nat /\ wroteAt'[c] \in Nat
        BY <1>1, <1>2 DEF Stays
      <4> QED BY <4>1, <4>2, <1>1
    <3> QED BY <2>1, <3>1, <1>1, <1>2, <1>3
  <2>2. CASE ~UpdatesRole(c)
    <3>1. x \in Last(RoleUpdates) /\ x \in Committed /\ Stays(x) /\ RoleUpdates' = RoleUpdates
      BY <2>2, <1>1 DEF Last, Stays
    <3>2. Held = req[x].codes \/ \E d \in RoleUpdates \ {x} : Overlap(x, d)
      BY <3>1 DEF GrantInv, RoleIsTheLastSet, RoleUpdates
    <3>3. Held' = Held
      BY <2>2 DEF Held
    <3> QED BY <3>1, <3>2, <3>3, <1>1, OverlapStays DEF Stays
  <2> QED BY <2>1, <2>2
<1>5. ASSUME NEW d \in Call, Pending(d)', req'[d].op = "role"
      PROVE  got'[d].grants = grants' \/ \E x \in RoleUpdates' : wroteAt'[x] > readAt'[d]
  <2>1. d # c /\ Pending(d) /\ Stays(d) /\ readAt[d] <= Count
    BY <1>5 DEF Commit, Stays, CallsInv
  <2>2. CASE UpdatesRole(c)
    <3>1. c \in RoleUpdates' /\ wroteAt'[c] > readAt'[d]
      BY <2>1, <2>2, <1>1, <1>2 DEF Stays
    <3> QED BY <3>1
  <2>3. CASE ~UpdatesRole(c)
    BY <2>1, <2>3, <1>1, <1>5 DEF GrantInv, Stays
  <2> QED BY <2>2, <2>3
<1>6. grants' \in [Code -> Call \cup {Earlier, None}]
  <2>1. CASE UpdatesRole(c)
    BY <2>1 DEF GrantInv, Granted, Deleted
  <2>2. CASE ~UpdatesRole(c)
    BY <2>2 DEF GrantInv
  <2> QED BY <2>1, <2>2
<1> QED BY <1>4, <1>5, <1>6 DEF GrantInv

-----------------------------------------------------------------------------
(* The requests, while the tables change under them.                       *)

LEMMA InHolding ==
    ASSUME NEW e \in Tenant, NEW g \in Ground, Holds(e, g)
    PROVE  <<e, g>> \in Holding
BY DEF Holding

LEMMA HoldingType == Holding \subseteq Tenant \X Ground
BY DEF Holding

\* A change of a table is seen by every request that is running.
LEMMA AskTables ==
    ASSUME AskInv, Keeps, ask' = ask, Witnessed,
           scopes' \subseteq Tenant \cup {None},
           user' \in [home: {Root, Child}, active: BOOLEAN], user'.home = user.home,
           now' \in Time, now <= now'
    PROVE  AskInv'
<1>1. Holding' \subseteq Tenant \X Ground
  BY DEF Holding, Ground, Tenant
<1>2. seen' \in [Request -> SUBSET (Tenant \X Ground)]
  BY <1>1 DEF AskInv, Witnessed
<1>3. ASSUME NEW r \in Request
      PROVE  Sound(ask[r], seen[r])'
  <2>1. PICK a, S, T : a = ask[r] /\ S = seen[r] /\ T = seen'[r]
    OBVIOUS
  <2>2. Sound(a, S)
    BY <2>1 DEF AskInv
  <2>3. T = IF a.pc \notin {"idle", "admitted", "refused"} /\ ~a.admin THEN S \cup Holding' ELSE S
    BY <2>1 DEF Witnessed, Running
  <2>4. ASSUME Asks(a), a.pc # "admitted"
        PROVE  Walks(a, T)'
    <3>1. Walks(a, S) /\ T = S \cup Holding'
      BY <2>2, <2>3, <2>4 DEF Sound, Asks, Stage
    <3>2. Passed(a, T)
      BY <3>1 DEF Walks, Passed, Saw
    <3>3. ASSUME NEW t \in DOMAIN a.rows
          PROVE  TrueRow(a.rows[t], t, a.effective, T)'
      <4>1. TrueRow(a.rows[t], t, a.effective, S) /\ t \in Tenant /\ a.effective \in Tenant /\ Alive(a.effective)
        BY <3>1 DEF Walks
      <4>2. Expired(a.rows[t]) => Expired(a.rows[t])'
        BY <4>1 DEF TrueRow, Expired, Time, AskInv
      <4> QED BY <4>1, <4>2, <3>1 DEF TrueRow, Keeps
    <3>4. Alive(a.home)' /\ Alive(a.effective)' /\ a.home = user'.home
      BY <3>1 DEF Walks, Keeps, AskInv, Tenant
    <3> QED BY <3>1, <3>2, <3>3, <3>4 DEF Walks, Passed, Saw
  <2>5. Asks(a) /\ a.pc = "admitted" => \A g \in Ground : Saw(a, T, g)
    BY <2>2, <2>3 DEF Sound, Asks
  <2>6. Sound(a, T)'
    BY <2>2, <2>4, <2>5 DEF Sound, Asks, Saw
  <2> QED BY <2>1, <2>6
<1> QED BY <1>2, <1>3 DEF AskInv

LEMMA HoldingStays ==
    ASSUME UNCHANGED <<product, tables>>
    PROVE  Holding' = Holding /\ \A a, S : Sound(a, S) => Sound(a, S)'
<1>1. Holding' = Holding
  <2>1. \A e, g : Holds(e, g)' <=> Holds(e, g)
    BY DEF Holds, Acts, Alive, ProductAllows, HasPermission, Held, Expired, tables
  <2> QED BY <2>1 DEF Holding
<1>2. \A row, t, e, S : TrueRow(row, t, e, S) => TrueRow(row, t, e, S)'
  BY DEF TrueRow, Alive, Expired, tables
<1>3. \A a, S : Passed(a, S) => Passed(a, S)'
  BY DEF Passed, Saw
<1>4. \A a, S : Walks(a, S) => Walks(a, S)'
  BY <1>1, <1>2, <1>3 DEF Walks, Alive, tables
<1>5. \A a, S : Sound(a, S) => Sound(a, S)'
  BY <1>4 DEF Sound, Asks, Saw, Shaped
<1> QED BY <1>1, <1>5

LEMMA AskQuiet ==
    ASSUME AskInv, UNCHANGED <<product, tables, ask, seen>>
    PROVE  AskInv'
<1>1. ASSUME NEW r \in Request
      PROVE  Sound(ask[r], seen[r])'
  <2>1. PICK a, S : a = ask[r] /\ S = seen[r]
    OBVIOUS
  <2>2. Sound(a, S)'
    BY <2>1, HoldingStays DEF AskInv
  <2> QED BY <2>1, <2>2
<1> QED BY <1>1 DEF AskInv, tables

-----------------------------------------------------------------------------
(* The requests, statement by statement.                                   *)

\* A step of request r that leaves it as b, having seen S.
LEMMA AskStep ==
    ASSUME AskInv, UNCHANGED <<product, tables>>, NEW r \in Request, NEW b,
           NEW S \in SUBSET (Tenant \X Ground),
           ask' = [ask EXCEPT ![r] = b], seen' = [seen EXCEPT ![r] = S], Sound(b, S)
    PROVE  AskInv'
<1>1. /\ \A q \in Request : ask'[q] = (IF q = r THEN b ELSE ask[q]) /\ seen'[q] = IF q = r THEN S ELSE seen[q]
      /\ ask' = [q \in Request |-> ask'[q]] /\ DOMAIN ask' = Request
      /\ seen' \in [Request -> SUBSET (Tenant \X Ground)]
  BY DEF AskInv
<1>2. ASSUME NEW q \in Request
      PROVE  Sound(ask[q], seen[q])'
  <2>1. PICK a, T : a = ask'[q] /\ T = seen'[q]
    OBVIOUS
  <2>2. Sound(a, T)
    BY <1>1, <2>1 DEF AskInv
  <2>3. Sound(a, T)'
    BY <2>2, HoldingStays
  <2> QED BY <2>1, <2>3
<1> QED BY <1>1, <1>2 DEF AskInv, tables

\* The step by which r becomes b.
LEMMA BecomesSound ==
    ASSUME AskInv, NEW r \in Request, NEW b, Becomes(r, b), Sound(b, seen[r])
    PROVE  AskInv'
<1>1. UNCHANGED <<product, tables>> /\ ask' = [ask EXCEPT ![r] = b] /\ seen' = [seen EXCEPT ![r] = seen[r]]
  BY DEF Becomes, others, productVars, AskInv
<1>2. seen[r] \in SUBSET (Tenant \X Ground)
  BY DEF AskInv
<1> QED BY <1>1, <1>2, AskStep

LEMMA RefusedSound ==
    ASSUME AskInv, NEW r \in Request, Refused(r)
    PROVE  AskInv'
<1>1. PICK b : b = [pc |-> "refused"]
  OBVIOUS
<1>2. Sound(b, seen[r])
  BY <1>1 DEF Sound, Asks, Stage
<1> QED BY <1>1, <1>2, BecomesSound DEF Refused

\* Request a with p for its next statement, e its tenant and these rows loaded.
Sent(a, p, e, rows) ==
    [pc |-> p, admin |-> a.admin, home |-> a.home, slug |-> a.slug, effective |-> e, rows |-> rows]

LEMMA SentFacts ==
    ASSUME NEW a, NEW p, NEW e, NEW rows
    PROVE  /\ Shaped(Sent(a, p, e, rows)) /\ Sent(a, p, e, rows).pc = p
           /\ Sent(a, p, e, rows).admin = a.admin /\ Sent(a, p, e, rows).home = a.home
           /\ Sent(a, p, e, rows).effective = e /\ Sent(a, p, e, rows).rows = rows
BY DEF Sent, Shaped

\* A platform admin's request is bound to nothing here.
LEMMA AdminSound ==
    ASSUME NEW b, NEW S, Shaped(b), b.admin = TRUE, b.pc \in Stage
    PROVE  Sound(b, S)
BY DEF Sound, Asks

\* A row loaded now is a true one.
LEMMA TrueNow ==
    ASSUME NoneAssumption, TenantInv, NEW t \in Tenant, Alive(t), NEW e \in Tenant, Alive(e),
           NEW S, Holding \subseteq S
    PROVE  TrueRow(tenant[t], t, e, S)
<1>1. tenant[t] \in TenantRow
  BY DEF TenantInv, Alive
<1>2. ~Expired(tenant[t]) => <<t, "own">> \in S
  <2> SUFFICES ASSUME ~Expired(tenant[t]) PROVE Holds(t, "own")
    BY InHolding DEF Ground
  <2> QED BY DEF Holds
<1>3. ~Expired(tenant[t]) /\ tenant[e].parent = t => <<e, "parent">> \in S
  <2> SUFFICES ASSUME ~Expired(tenant[t]), tenant[e].parent = t PROVE Holds(e, "parent")
    BY InHolding DEF Ground
  <2> QED BY DEF Holds
<1> QED BY <1>1, <1>2, <1>3 DEF TrueRow, TenantRow

\* What a running request of a user is, before its next statement.
LEMMA Here ==
    ASSUME AskInv, NEW r \in Request, ask[r].pc \in Stage \ {"admitted"}
    PROVE  /\ Shaped(ask[r]) /\ ask[r].admin \in BOOLEAN
           /\ ~ask[r].admin => Walks(ask[r], seen[r]) /\ Passed(ask[r], seen[r])
BY DEF AskInv, Sound, Asks, Walks

LEMMA EnterSound ==
    ASSUME AccessNamesAssumption, AskInv, NEW r \in Request, NEW s, Enter(r, s)
    PROVE  AskInv'
<1>1. /\ UNCHANGED <<product, tables>> /\ seen' = [seen EXCEPT ![r] = Holding] /\ Alive(user.home)
      /\ user.home \in Tenant /\ Holding \in SUBSET (Tenant \X Ground)
  BY HoldingType DEF Enter, others, productVars, AskInv, Tenant
<1>2. CASE look[r].status # "active" \/ ~user.active
  <2>1. PICK b : b = [pc |-> "refused"]
    OBVIOUS
  <2>2. ask' = [ask EXCEPT ![r] = b]
    BY <1>2, <2>1 DEF Enter
  <2>3. Sound(b, Holding)
    BY <2>1 DEF Sound, Asks, Stage
  <2> QED BY <1>1, <2>2, <2>3, AskStep
<1>3. CASE ~(look[r].status # "active" \/ ~user.active)
  <2>1. PICK b : b = [pc |-> IF s = None THEN "expiry" ELSE "target", admin |-> FALSE, home |-> user.home,
                      slug |-> s, effective |-> user.home, rows |-> NoRows]
    OBVIOUS
  <2>2. ask' = [ask EXCEPT ![r] = b]
    BY <1>3, <2>1 DEF Enter
  <2>3. /\ b.pc \in {"expiry", "target"} /\ b.admin = FALSE /\ b.home = user.home /\ b.effective = user.home
        /\ b.rows = NoRows /\ Shaped(b)
    BY <2>1 DEF Shaped
  <2>4. Passed(b, Holding)
    <3>1. \A t \in Tenant : Holds(t, "active")
      BY <1>3 DEF Holds
    <3>2. Holds(user.home, "family") /\ Holds(user.home, "product") /\ Holds(user.home, "home") /\ Holds(user.home, "entitled")
      BY DEF Holds, Acts
    <3>3. \A t \in Tenant : <<t, "active">> \in Holding
      BY <3>1, InHolding DEF Ground
    <3>4. \A g \in {"family", "product", "home", "entitled"} : <<user.home, g>> \in Holding
      BY <3>2, <1>1, InHolding DEF Ground
    <3> QED BY <3>3, <3>4, <2>3 DEF Passed, Saw
  <2>5. Walks(b, Holding)
    BY <1>1, <2>3, <2>4 DEF Walks, NoRows
  <2>6. Sound(b, Holding)
    BY <2>3, <2>5 DEF Sound, Asks, Stage
  <2> QED BY <1>1, <2>2, <2>6, AskStep
<1> QED BY <1>2, <1>3

LEMMA EnterAdminSound ==
    ASSUME AskInv, NEW r \in Request, NEW s, EnterAdmin(r, s)
    PROVE  AskInv'
<1>1. PICK home \in IF Oldest = {} THEN {Nil} ELSE Oldest :
         ask' = [ask EXCEPT ![r] =
           IF look[r].status # "active" THEN [pc |-> "refused"]
           ELSE [pc |-> IF s = None \/ home = Nil THEN "admitted" ELSE "target", admin |-> TRUE,
                 home |-> home, slug |-> s, effective |-> home, rows |-> NoRows]]
  BY DEF EnterAdmin
<1>2. UNCHANGED <<others, calls, tables, seen>>
  BY DEF EnterAdmin
<1>3. CASE look[r].status # "active"
  BY <1>1, <1>2, <1>3, RefusedSound DEF Refused, Becomes
<1>4. CASE look[r].status = "active"
  <2>1. PICK b : b = [pc |-> IF s = None \/ home = Nil THEN "admitted" ELSE "target", admin |-> TRUE,
                      home |-> home, slug |-> s, effective |-> home, rows |-> NoRows]
    OBVIOUS
  <2>2. Shaped(b) /\ b.admin = TRUE /\ b.pc \in Stage
    BY <2>1 DEF Shaped, Stage
  <2>3. Becomes(r, b)
    BY <1>1, <1>2, <1>4, <2>1 DEF Becomes
  <2> QED BY <2>2, <2>3, AdminSound, BecomesSound
<1> QED BY <1>3, <1>4

\* r's next statement is p, and nothing else about it changes.
LEMMA ThenSound ==
    ASSUME AskInv, NEW r \in Request, ask[r].pc \in Stage \ {"admitted"}, NEW p \in Stage, Then(r, p),
           \A b : /\ b.pc = p /\ b.home = ask[r].home /\ b.effective = ask[r].effective /\ b.rows = ask[r].rows
                  /\ ~ask[r].admin
                  => IF p = "admitted" THEN \A g \in Ground : Saw(b, seen[r], g)
                     ELSE Passed(b, seen[r]) /\ p # "inherited"
    PROVE  AskInv'
<1>1. PICK b : b = [ask[r] EXCEPT !.pc = p]
  OBVIOUS
<1>2. Shaped(ask[r]) /\ ask[r].admin \in BOOLEAN /\ (~ask[r].admin => Walks(ask[r], seen[r]))
  BY Here
<1>3. /\ Shaped(b) /\ b.pc = p /\ b.admin = ask[r].admin /\ b.home = ask[r].home
      /\ b.effective = ask[r].effective /\ b.rows = ask[r].rows
  <2>1. b = Sent(ask[r], p, ask[r].effective, ask[r].rows)
    BY <1>1, <1>2 DEF Shaped, Sent
  <2> QED BY <2>1, SentFacts
<1>4. ~b.admin => IF p = "admitted" THEN \A g \in Ground : Saw(b, seen[r], g)
                  ELSE Passed(b, seen[r]) /\ p # "inherited"
  BY <1>3
<1>5. ~b.admin /\ p # "admitted" => Walks(b, seen[r])
  BY <1>2, <1>3, <1>4 DEF Walks
<1>6. Sound(b, seen[r])
  BY <1>2, <1>3, <1>4, <1>5 DEF Sound, Asks
<1>7. Becomes(r, b)
  BY <1>1 DEF Then
<1> QED BY <1>6, <1>7, BecomesSound

\* A ground that holds now has been seen by a request that is running.
LEMMA SeenNow ==
    ASSUME AskInv, NEW r \in Request, ask[r].pc \in Stage \ {"admitted"}, ~ask[r].admin,
           NEW g \in Ground, Holds(ask[r].effective, g)
    PROVE  Saw(ask[r], seen[r], g)
<1>1. Walks(ask[r], seen[r])
  BY Here
<1> QED BY <1>1, InHolding DEF Walks, Saw

LEMMA ProductGateSound ==
    ASSUME AskInv, NEW r \in Request, ProductGate(r)
    PROVE  AskInv'
<1>1. ask[r].pc = "product" /\ ask[r].pc \in Stage \ {"admitted"}
  BY DEF ProductGate, Stage
<1>2. CASE ProductAllows
  <2>1. ~ask[r].admin => Passed(ask[r], seen[r]) /\ Saw(ask[r], seen[r], "product")
    BY <1>1, <1>2, Here, SeenNow DEF Holds, Ground
  <2>2. Then(r, "home")
    BY <1>2 DEF ProductGate, Passes
  <2> QED BY <2>1, <2>2, <1>1, ThenSound DEF Passed, Saw, Stage
<1>3. CASE ~ProductAllows
  BY <1>3, RefusedSound DEF ProductGate, Passes
<1> QED BY <1>2, <1>3

LEMMA GlobalGateSound ==
    ASSUME AskInv, NEW r \in Request, GlobalGate(r)
    PROVE  AskInv'
<1>1. ask[r].pc = "global" /\ ask[r].pc \in Stage \ {"admitted"}
  BY DEF GlobalGate, Stage
<1>2. CASE HasPermission(ActAs, ask[r].home)
  <2>1. ~ask[r].admin => Passed(ask[r], seen[r]) /\ Saw(ask[r], seen[r], "entitled")
    <3> SUFFICES ASSUME ~ask[r].admin PROVE Passed(ask[r], seen[r]) /\ Holds(ask[r].effective, "entitled")
      BY <1>1, SeenNow DEF Ground
    <3>1. Walks(ask[r], seen[r])
      BY <1>1, Here
    <3> QED BY <3>1, <1>2 DEF Walks, Holds
  <2>2. Then(r, "expiry")
    BY <1>2 DEF GlobalGate
  <2> QED BY <2>1, <2>2, <1>1, ThenSound DEF Passed, Saw, Stage
<1>3. CASE ~HasPermission(ActAs, ask[r].home)
  <2>1. ~ask[r].admin => Passed(ask[r], seen[r])
    BY <1>1, Here
  <2>2. Then(r, "binding")
    BY <1>3 DEF GlobalGate
  <2> QED BY <2>1, <2>2, <1>1, ThenSound DEF Passed, Saw, Stage
<1> QED BY <1>2, <1>3

LEMMA BindingGateSound ==
    ASSUME AskInv, NEW r \in Request, BindingGate(r)
    PROVE  AskInv'
<1>1. ask[r].pc = "binding" /\ ask[r].pc \in Stage \ {"admitted"}
  BY DEF BindingGate, Stage
<1>2. CASE ask[r].effective \in scopes
  <2>1. ~ask[r].admin => Passed(ask[r], seen[r]) /\ Saw(ask[r], seen[r], "entitled")
    BY <1>1, <1>2, Here, SeenNow DEF Holds, Ground
  <2>2. Then(r, "expiry")
    BY <1>2 DEF BindingGate, Passes
  <2> QED BY <2>1, <2>2, <1>1, ThenSound DEF Passed, Saw, Stage
<1>3. CASE ask[r].effective \notin scopes
  BY <1>3, RefusedSound DEF BindingGate, Passes
<1> QED BY <1>2, <1>3

LEMMA PermissionSound ==
    ASSUME AskInv, NEW r \in Request, Permission(r)
    PROVE  AskInv'
<1>1. ask[r].pc = "permission" /\ ask[r].pc \in Stage \ {"admitted"}
  BY DEF Permission, Stage
<1>2. CASE HasPermission(Need, ask[r].effective)
  <2>1. ~ask[r].admin => \A g \in Ground : Saw(ask[r], seen[r], g)
    <3> SUFFICES ASSUME ~ask[r].admin PROVE \A g \in Ground : Saw(ask[r], seen[r], g)
      OBVIOUS
    <3>1. Walks(ask[r], seen[r]) /\ Passed(ask[r], seen[r])
      BY <1>1, Here
    <3>2. Saw(ask[r], seen[r], "permitted")
      BY <1>1, <1>2, SeenNow DEF Holds, Ground
    <3>3. Saw(ask[r], seen[r], "active")
      BY <3>1 DEF Walks, Passed, Saw
    <3> QED BY <1>1, <3>1, <3>2, <3>3 DEF Passed, Ground, Stage
  <2>2. Then(r, "admitted")
    BY <1>2 DEF Permission, Passes
  <2> QED BY <2>1, <2>2, <1>1, ThenSound DEF Saw, Stage
<1>3. CASE ~HasPermission(Need, ask[r].effective)
  BY <1>3, RefusedSound DEF Permission, Passes
<1> QED BY <1>2, <1>3

LEMMA HomeGateSound ==
    ASSUME NoneAssumption, TenantInv, AskInv, NEW r \in Request, HomeGate(r)
    PROVE  AskInv'
<1>1. ask[r].pc = "home" /\ ask[r].pc \in Stage \ {"admitted"}
  BY DEF HomeGate, Stage
<1>2. PICK a, S, row, p : /\ a = ask[r] /\ S = seen[r] /\ row = tenant[a.home]
                          /\ p = IF a.admin THEN "admitted" ELSE "global"
  OBVIOUS
<1>3. CASE row.allow
  <2>1. PICK b : b = [a EXCEPT !.rows = With(a.rows, a.home, row), !.pc = p]
    OBVIOUS
  <2>2. Becomes(r, b)
    BY <1>2, <1>3, <2>1 DEF HomeGate
  <2>3. Shaped(a) /\ a.admin \in BOOLEAN /\ (~a.admin => Walks(a, S) /\ Passed(a, S))
    BY <1>1, <1>2, Here
  <2>4. /\ Shaped(b) /\ b.pc = p /\ b.admin = a.admin /\ b.home = a.home
        /\ b.effective = a.effective /\ b.rows = With(a.rows, a.home, row)
    <3>1. b = Sent(a, p, a.effective, With(a.rows, a.home, row))
      BY <2>1, <2>3 DEF Shaped, Sent
    <3> QED BY <3>1, SentFacts
  <2>5. ASSUME ~a.admin
        PROVE  Walks(b, S)
    <3>1. Walks(a, S) /\ Passed(a, S) /\ p = "global" /\ a.home \in Tenant
      BY <1>2, <2>3, <2>5 DEF AskInv, Walks, Tenant
    <3>2. Saw(a, S, "home")
      BY <1>1, <1>2, <1>3, <2>5, <3>1, SeenNow DEF Holds, Ground, Walks
    <3>3. TrueRow(row, a.home, a.effective, S)
      BY <1>2, <3>1, TrueNow DEF Walks
    <3>4. /\ DOMAIN b.rows \subseteq Tenant
          /\ \A t \in DOMAIN b.rows : TrueRow(b.rows[t], t, b.effective, S)
      <4>1. /\ DOMAIN b.rows = DOMAIN a.rows \cup {a.home}
            /\ \A t \in DOMAIN b.rows : b.rows[t] = IF t = a.home THEN row ELSE a.rows[t]
        BY <2>4 DEF With
      <4> QED BY <4>1, <2>4, <3>1, <3>3 DEF Walks
    <3>5. Passed(b, S)
      BY <1>1, <1>2, <2>4, <3>1, <3>2 DEF Passed, Saw, Stage
    <3> QED BY <2>4, <3>1, <3>4, <3>5 DEF Walks
  <2>6. Sound(b, S)
    BY <1>2, <2>3, <2>4, <2>5 DEF Sound, Asks, Stage
  <2> QED BY <1>2, <2>2, <2>6, BecomesSound
<1>4. CASE ~row.allow
  BY <1>2, <1>4, RefusedSound DEF HomeGate
<1> QED BY <1>3, <1>4

LEMMA TargetSound ==
    ASSUME NoneAssumption, TenantInv, AskInv, NEW r \in Request, Target(r)
    PROVE  AskInv'
<1>1. ask[r].pc = "target" /\ ask[r].pc \in Stage \ {"admitted"}
  BY DEF Target, Stage
<1>2. PICK a, S : a = ask[r] /\ S = seen[r]
  OBVIOUS
<1>3. CASE \E t \in Tenant : Alive(t) /\ tenant[t].slug = a.slug /\ (t = a.home \/ tenant[t].parent = a.home)
  <2>1. PICK t \in Tenant :
          /\ Alive(t) /\ tenant[t].slug = a.slug
          /\ Becomes(r, [a EXCEPT !.effective = t, !.rows = With(NoRows, t, tenant[t]),
                           !.pc = IF t # a.home THEN "product" ELSE IF a.admin THEN "admitted" ELSE "expiry"])
    BY <1>2, <1>3 DEF Target
  <2>2. PICK p : p = IF t # a.home THEN "product" ELSE IF a.admin THEN "admitted" ELSE "expiry"
    OBVIOUS
  <2>3. PICK b : b = [a EXCEPT !.effective = t, !.rows = With(NoRows, t, tenant[t]), !.pc = p]
    OBVIOUS
  <2>4. Shaped(a) /\ a.admin \in BOOLEAN /\ (~a.admin => Walks(a, S) /\ Passed(a, S))
    BY <1>1, <1>2, Here
  <2>5. /\ Shaped(b) /\ b.pc = p /\ b.admin = a.admin /\ b.home = a.home
        /\ b.effective = t /\ b.rows = With(NoRows, t, tenant[t])
    <3>1. b = Sent(a, p, t, With(NoRows, t, tenant[t]))
      BY <2>3, <2>4 DEF Shaped, Sent
    <3> QED BY <3>1, SentFacts
  <2>6. ASSUME ~a.admin
        PROVE  Walks(b, S) /\ p \in {"product", "expiry"}
    <3>1. Walks(a, S) /\ Passed(a, S) /\ p = IF t # a.home THEN "product" ELSE "expiry"
      BY <2>2, <2>4, <2>6
    <3>2. t = a.home \/ tenant[t].parent = a.home
      BY <1>3, <2>1 DEF TenantInv, SlugNamesOneTenant
    <3>3. a.home = user.home /\ Holding \subseteq S
      BY <3>1 DEF Walks
    <3>4. <<t, "family">> \in S
      <4>1. Holds(t, "family")
        BY <2>1, <3>2, <3>3 DEF Holds
      <4> QED BY <4>1, <3>3, InHolding DEF Ground
    <3>5. t = a.home => \A g \in {"product", "home", "entitled"} : <<t, g>> \in S
      <4>1. t = a.home => Holds(t, "product") /\ Holds(t, "home") /\ Holds(t, "entitled")
        BY <3>3 DEF Holds, Acts
      <4> QED BY <4>1, <3>3, InHolding DEF Ground
    <3>6. TrueRow(tenant[t], t, t, S)
      BY <2>1, <3>3, TrueNow
    <3>7. /\ DOMAIN b.rows \subseteq Tenant
          /\ \A x \in DOMAIN b.rows : TrueRow(b.rows[x], x, b.effective, S)
      <4>1. DOMAIN b.rows = {t} /\ b.rows[t] = tenant[t]
        BY <2>5 DEF With, NoRows
      <4> QED BY <4>1, <2>5, <3>6
    <3>8. Passed(b, S)
      BY <2>5, <3>1, <3>4, <3>5 DEF Passed, Saw
    <3> QED BY <2>1, <2>5, <3>1, <3>7, <3>8 DEF Walks
  <2>7. Sound(b, S)
    <3>1. p \in Stage
      BY <2>2 DEF Stage
    <3> QED BY <3>1, <2>4, <2>5, <2>6 DEF Sound, Asks
  <2>8. Becomes(r, b)
    BY <2>1, <2>2, <2>3
  <2> QED BY <1>2, <2>7, <2>8, BecomesSound
<1>4. CASE ~\E t \in Tenant : Alive(t) /\ tenant[t].slug = a.slug /\ (t = a.home \/ tenant[t].parent = a.home)
  <2>1. Refused(r)
    BY <1>2, <1>4 DEF Target
  <2> QED BY <2>1, RefusedSound
<1> QED BY <1>3, <1>4

\* The expiry of tenant t, the request's own or the parent of that: a row that
\* has not expired was so when it was loaded.
LEMMA ExpirySound ==
    ASSUME NoneAssumption, TenantInv, AskInv, NEW r \in Request, NEW step \in {"expiry", "inherited"}, NEW t,
           ask[r].pc = step, Expiry(r, step, t),
           ~ask[r].admin => t \in Tenant /\ Alive(t),
           ~ask[r].admin /\ step = "expiry" => t = ask[r].effective,
           ~ask[r].admin /\ step = "inherited" => tenant[ask[r].effective].parent = t
    PROVE  AskInv'
<1>1. ask[r].pc \in Stage \ {"admitted"}
  BY DEF Stage
<1>2. PICK a, S, row : a = ask[r] /\ S = seen[r] /\ row = Loaded(r, t)
  OBVIOUS
<1>3. PICK p : p = IF step = "expiry" /\ Ancestor(row) # None THEN "inherited" ELSE "permission"
  OBVIOUS
<1>4. CASE ~Expired(row)
  <2>1. PICK b : b = [a EXCEPT !.rows = With(a.rows, t, row), !.pc = p]
    OBVIOUS
  <2>2. Becomes(r, b)
    BY <1>2, <1>3, <1>4, <2>1 DEF Expiry
  <2>3. Shaped(a) /\ a.admin \in BOOLEAN /\ (~a.admin => Walks(a, S) /\ Passed(a, S))
    BY <1>1, <1>2, Here
  <2>4. /\ Shaped(b) /\ b.pc = p /\ b.admin = a.admin /\ b.home = a.home
        /\ b.effective = a.effective /\ b.rows = With(a.rows, t, row)
    <3>1. b = Sent(a, p, a.effective, With(a.rows, t, row))
      BY <2>1, <2>3 DEF Shaped, Sent
    <3> QED BY <3>1, SentFacts
  <2>5. ASSUME ~a.admin
        PROVE  Walks(b, S)
    <3>1. Walks(a, S) /\ Passed(a, S) /\ t \in Tenant /\ Alive(t)
      BY <1>2, <2>3, <2>5
    <3>2. TrueRow(row, t, a.effective, S)
      <4>1. CASE t \in DOMAIN a.rows
        BY <4>1, <1>2, <3>1 DEF Loaded, Walks
      <4>2. CASE t \notin DOMAIN a.rows
        BY <4>2, <1>2, <3>1, TrueNow DEF Loaded, Walks
      <4> QED BY <4>1, <4>2
    <3>3. /\ DOMAIN b.rows = DOMAIN a.rows \cup {t}
          /\ \A x \in DOMAIN b.rows : b.rows[x] = IF x = t THEN row ELSE a.rows[x]
      BY <2>4 DEF With
    <3>4. DOMAIN b.rows \subseteq Tenant /\ \A x \in DOMAIN b.rows : TrueRow(b.rows[x], x, b.effective, S)
      BY <2>4, <3>1, <3>2, <3>3 DEF Walks
    <3>5. CASE step = "expiry"
      <4>1. t = a.effective /\ Saw(a, S, "own") /\ a.pc = "expiry"
        BY <1>2, <1>4, <2>5, <3>2, <3>5 DEF TrueRow, Saw
      <4>2. CASE row.parent # None
        <5>1. p = "inherited" /\ b.rows[b.effective] = row /\ b.effective \in DOMAIN b.rows
          BY <1>3, <2>4, <3>3, <3>5, <4>1, <4>2 DEF Ancestor
        <5>2. Passed(b, S)
          BY <2>4, <3>1, <4>1, <5>1 DEF Passed, Saw, Stage
        <5> QED BY <2>4, <3>1, <3>4, <4>2, <5>1, <5>2 DEF Walks
      <4>3. CASE row.parent = None
        <5>1. p = "permission"
          BY <1>3, <4>3 DEF Ancestor
        <5>2. Holds(a.effective, "parent")
          BY <3>2, <4>1, <4>3 DEF TrueRow, Holds
        <5>3. Saw(a, S, "parent")
          BY <5>2, <3>1, InHolding DEF Walks, Ground, Saw
        <5>4. Passed(b, S)
          BY <2>4, <3>1, <4>1, <5>1, <5>3 DEF Passed, Saw, Stage
        <5> QED BY <2>4, <3>1, <3>4, <5>1, <5>4 DEF Walks
      <4> QED BY <4>2, <4>3
    <3>6. CASE step = "inherited"
      <4>1. p = "permission" /\ a.pc = "inherited" /\ Saw(a, S, "parent")
        BY <1>2, <1>3, <1>4, <2>5, <3>2, <3>6 DEF TrueRow, Saw
      <4>2. Passed(b, S)
        BY <2>4, <3>1, <4>1 DEF Passed, Saw, Stage
      <4> QED BY <2>4, <3>1, <3>4, <4>1, <4>2 DEF Walks
    <3> QED BY <3>5, <3>6
  <2>6. Sound(b, S)
    BY <1>3, <2>3, <2>4, <2>5 DEF Sound, Asks, Stage
  <2> QED BY <1>2, <2>2, <2>6, BecomesSound
<1>5. CASE Expired(row)
  BY <1>2, <1>5, RefusedSound DEF Expiry
<1> QED BY <1>4, <1>5

LEMMA OwnExpirySound ==
    ASSUME NoneAssumption, TenantInv, AskInv, NEW r \in Request, OwnExpiry(r)
    PROVE  AskInv'
<1>1. ask[r].pc = "expiry" /\ Expiry(r, "expiry", ask[r].effective)
  BY DEF OwnExpiry
<1>2. ~ask[r].admin => ask[r].effective \in Tenant /\ Alive(ask[r].effective)
  BY <1>1, Here DEF Walks, Stage
<1>3. PICK t : t = ask[r].effective
  OBVIOUS
<1> QED BY <1>1, <1>2, <1>3, ExpirySound

LEMMA ParentExpirySound ==
    ASSUME NoneAssumption, TenantInv, AskInv, NEW r \in Request, ParentExpiry(r)
    PROVE  AskInv'
<1>1. PICK t : t = ask[r].rows[ask[r].effective].parent
  OBVIOUS
<1>2. ask[r].pc = "inherited" /\ Expiry(r, "inherited", t)
  BY <1>1 DEF ParentExpiry
<1>3. ASSUME ~ask[r].admin
      PROVE  t \in Tenant /\ Alive(t) /\ tenant[ask[r].effective].parent = t
  <2>1. Walks(ask[r], seen[r])
    BY <1>2, <1>3, Here DEF Stage
  <2>2. t # None /\ tenant[ask[r].effective].parent = t /\ ask[r].effective \in Tenant /\ Alive(ask[r].effective)
    BY <1>1, <1>2, <2>1 DEF Walks, TrueRow
  <2>3. t \in Tenant /\ Alive(t)
    BY <2>2 DEF TenantInv, TwoLevels, TenantRow, Alive
  <2> QED BY <2>2, <2>3
<1> QED BY <1>2, <1>3, ExpirySound

LEMMA RequestStep ==
    ASSUME AccessNamesAssumption, NoneAssumption, TenantInv, AskInv, NEW r \in Request, Steps(r)
    PROVE  AskInv' /\ UNCHANGED <<others, calls, tables>>
<1>1. ASSUME NEW s, Enter(r, s) PROVE AskInv' /\ UNCHANGED <<others, calls, tables>>
  BY <1>1, EnterSound DEF Enter
<1>2. ASSUME NEW s, EnterAdmin(r, s) PROVE AskInv' /\ UNCHANGED <<others, calls, tables>>
  BY <1>2, EnterAdminSound DEF EnterAdmin
<1>3. CASE Target(r)
  BY <1>3, TargetSound DEF Target, Becomes, Refused
<1>4. CASE ProductGate(r)
  BY <1>4, ProductGateSound DEF ProductGate, Passes, Then, Becomes, Refused
<1>5. CASE HomeGate(r)
  BY <1>5, HomeGateSound DEF HomeGate, Becomes, Refused
<1>6. CASE GlobalGate(r)
  BY <1>6, GlobalGateSound DEF GlobalGate, Then, Becomes
<1>7. CASE BindingGate(r)
  BY <1>7, BindingGateSound DEF BindingGate, Passes, Then, Becomes, Refused
<1>8. CASE OwnExpiry(r)
  BY <1>8, OwnExpirySound DEF OwnExpiry, Expiry, Becomes, Refused
<1>9. CASE ParentExpiry(r)
  BY <1>9, ParentExpirySound DEF ParentExpiry, Expiry, Becomes, Refused
<1>10. CASE Permission(r)
  BY <1>10, PermissionSound DEF Permission, Passes, Then, Becomes, Refused
<1> QED BY <1>1, <1>2, <1>3, <1>4, <1>5, <1>6, <1>7, <1>8, <1>9, <1>10 DEF Steps

-----------------------------------------------------------------------------
(* Every step keeps the invariant.                                         *)

TablesInv == PatchInv /\ CacheInv /\ RolesInv /\ TenantInv /\ GrantInv
\* What a call that begins has just read.
Knows(c) ==
    /\ PatchesFeature(c) => ReadFeatures(c)
    /\ SeedsRoles(c) => ReadRoles(c)
    /\ NamesRole(c) => ReadNoNamesake(c)
    /\ Fits(c)
    /\ req[c].op = "role" => got[c].grants = grants

LEMMA TablesQuiet ==
    ASSUME CallsInv, TablesInv, NEW N, Calm(N), UNCHANGED <<others, tables>>, \A c \in N : Knows(c)'
    PROVE  TablesInv'
<1>1. UNCHANGED productVars /\ UNCHANGED roleVars /\ product' = product /\ tenant' = tenant /\ grants' = grants
  BY DEF others, tables, productVars
<1>2. PatchInv' /\ CacheInv'
  BY <1>1, PatchCalm, CacheCalm DEF TablesInv, Knows
<1>3. RolesInv'
  BY <1>1, RolesCalm DEF TablesInv, Knows
<1>4. TenantInv'
  BY <1>1, TenantCalm DEF TablesInv, Knows
<1>5. GrantInv'
  BY <1>1, GrantCalm DEF TablesInv, Knows
<1> QED BY <1>2, <1>3, <1>4, <1>5 DEF TablesInv

\* A call begins, having read what it will need.
LEMMA BeginStep ==
    ASSUME CallsInv, TablesInv, NEW c \in Call, NEW r \in Asked, NEW g, Goes(c, r, g), UNCHANGED <<others, tables>>,
           r \in FeaturePatch => g = product,
           r.op = "create" => ParentFits(r.parent) /\ (r.owner => g = Catalog),
           r.op = "newrole" => \A x \in roles : x.name # r.name,
           r.op = "update" => Alive(r.tenant),
           r.op = "role" => g.grants = grants
    PROVE  CallsInv' /\ TablesInv'
<1>1. CallsInv' /\ Calm({c}) /\ pc'[c] = "write" /\ req'[c] = r /\ got'[c] = g /\ readAt'[c] = Count
  BY CallsGo
<1>2. /\ product' = product /\ roles' = roles /\ tenant' = tenant /\ grants' = grants
      /\ Committed' = Committed /\ (\A d \in Committed : Stays(d) /\ wroteAt'[d] = wroteAt[d])
      /\ FeaturePatches' = FeaturePatches /\ wroteAt' = wroteAt
  BY <1>1, CalmFacts DEF others, productVars, roleVars, tables, Stays, Calm
<1>3. PatchesFeature(c)' => ReadFeatures(c)'
  <2> SUFFICES ASSUME r \in FeaturePatch PROVE ReadFeatures(c)'
    BY <1>1 DEF PatchesFeature, FeaturePatch
  <2>1. got'[c] = product /\ product.features \in [Feature -> BOOLEAN]
    BY <1>1 DEF TablesInv, PatchInv
  <2> SUFFICES ASSUME NEW f \in Feature,
                      NEW d \in Last({x \in FeaturePatchesOf(f) : wroteAt[x] <= readAt[c]})'
               PROVE  (got[c].features[f] = req[d].value \/ Excused(d))'
    BY <2>1 DEF ReadFeatures
  <2>2. FeaturePatches \subseteq Committed /\ Committed \subseteq Call
    BY DEF FeaturePatches, Patches, Committed
  <2>3. \A x \in FeaturePatches : wroteAt'[x] <= readAt'[c] /\ req'[x] = req[x]
    BY <1>1, <1>2, <2>2 DEF CallsInv, Stays
  <2>4. d \in Last(FeaturePatchesOf(f))
    BY <1>2, <2>3 DEF Last, FeaturePatchesOf
  <2>5. product.features[f] = req[d].value \/ Excused(d)
    BY <2>4 DEF TablesInv, PatchInv, PatchLostOnlyByOverlap, FeaturePatchesOf, Excused
  <2>6. d \in FeaturePatches /\ (Excused(d)' <=> Excused(d))
    BY <1>2, <2>2, <2>4, OverlapStays DEF Excused, Last, FeaturePatchesOf
  <2> QED BY <2>1, <2>3, <2>5, <2>6
<1>4. SeedsRoles(c)' => ReadRoles(c)'
  <2> SUFFICES ASSUME r.op = "create", r.owner PROVE ReadRoles(c)'
    BY <1>1 DEF SeedsRoles
  <2>1. got'[c].roles = {x \in SystemRoles : x.name \in SystemRole} /\ SystemRoles' = SystemRoles
    BY <1>1, <1>2 DEF Catalog, SystemRoles
  <2>2. \A x \in SystemRoles : x.system /\ x \in roles /\ x.name \in SystemRole
    BY DEF SystemRoles, TablesInv, RolesInv
  <2>3. got'[c].roles = SystemRoles
    BY <2>1, <2>2
  <2>4. \A x : Same(x, x)
    BY DEF Same
  <2>5. \A k \in got'[c].roles : k.system /\ k.name \in SystemRole /\ \E x \in SystemRoles' : Same(x, k)
    BY <2>1, <2>2, <2>3, <2>4
  <2>6. \A x \in SystemRoles' : \E k \in got'[c].roles : Same(x, k)
    BY <2>1, <2>3, <2>4
  <2> QED BY <2>5, <2>6 DEF ReadRoles, Same
<1>5. NamesRole(c)' => ReadNoNamesake(c)'
  BY <1>1, <1>2 DEF NamesRole, ReadNoNamesake, SystemRoles
<1>6. Fits(c)'
  BY <1>1, <1>2 DEF Fits, ParentFits, Alive
<1>7. Knows(c)'
  BY <1>1, <1>2, <1>3, <1>4, <1>5, <1>6 DEF Knows
<1> QED BY <1>1, <1>7, TablesQuiet

\* A transaction rolls back: nothing but its own call changes.
LEMMA LeaveStep ==
    ASSUME CallsInv, TablesInv, NEW c \in Call, pc[c] \in {"idle", "write", "commit"}, Leaves(c),
           UNCHANGED <<others, tables>>
    PROVE  CallsInv' /\ TablesInv'
BY CallsLeave, TablesQuiet

LEMMA AskIsQuiet ==
    ASSUME AskInv, UNCHANGED <<others, tables, ask, seen>>
    PROVE  AskInv'
BY AskQuiet DEF others, productVars

LEMMA AskSees ==
    ASSUME AskInv, TenantInv, UNCHANGED <<tables, ask>>, Witnessed
    PROVE  AskInv'
<1>1. Keeps /\ now <= now' /\ UNCHANGED <<tenant, grants, scopes, user, now>>
  BY DEF Keeps, Alive, tables, AskInv, Time
<1> QED BY <1>1, AskTables DEF AskInv, tables

\* Each kind of asking is a kind of its own.
LEMMA Kinds ==
    /\ \A r \in StatusPatch \cup FeaturePatch : r.op = "product" /\ r \in Asked
    /\ \A r \in StatusPatch : r \notin FeaturePatch
    /\ \A r \in NewRoleReq : r.op = "newrole" /\ r \in Asked /\ r \notin FeaturePatch
    /\ \A r \in CreateReq : r.op = "create" /\ r \in Asked /\ r \notin FeaturePatch
    /\ \A r \in UpdateReq : r.op = "update" /\ r \in Asked /\ r \notin FeaturePatch
    /\ \A r \in RoleReq : r.op = "role" /\ r \in Asked /\ r \notin FeaturePatch
<1>1. \A r \in StatusPatch : r \notin FeaturePatch
  <2>1. \A r \in StatusPatch : "status" \in DOMAIN r
    BY DEF StatusPatch
  <2>2. \A r \in FeaturePatch : "status" \notin DOMAIN r
    BY DEF FeaturePatch
  <2> QED BY <2>1, <2>2
<1>2. /\ \A r \in StatusPatch \cup FeaturePatch : r.op = "product"
      /\ \A r \in NewRoleReq : r.op = "newrole"
      /\ \A r \in CreateReq : r.op = "create"
      /\ \A r \in UpdateReq : r.op = "update"
      /\ \A r \in RoleReq : r.op = "role"
  BY DEF StatusPatch, FeaturePatch, NewRoleReq, CreateReq, UpdateReq, RoleReq
<1> HIDE DEF StatusPatch, FeaturePatch, NewRoleReq, CreateReq, UpdateReq, RoleReq
<1> QED BY <1>1, <1>2 DEF Asked

LEMMA ProductsStep ==
    ASSUME ProductNamesAssumption, CallsInv, TablesInv, ProductsNext, UNCHANGED <<roleVars, tables>>
    PROVE  CallsInv' /\ TablesInv'
<1>1. ASSUME NEW c \in Call, NEW patch \in StatusPatch \cup FeaturePatch, PatchRead(c, patch)
      PROVE  CallsInv' /\ TablesInv'
  <2>1. Goes(c, patch, product) /\ UNCHANGED <<others, tables>>
    BY <1>1 DEF PatchRead, others
  <2>2. patch \in Asked /\ patch.op = "product"
    BY Kinds
  <2> QED BY <2>1, <2>2, BeginStep
<1>2. ASSUME NEW c \in Call, PatchFlush(c)
      PROVE  CallsInv' /\ TablesInv'
  <2>1. /\ UNCHANGED <<product, look, req, got, readAt, wroteAt>>
        /\ pc[c] = "write" /\ req[c].op = "product" /\ pc' = [pc EXCEPT ![c] = "commit"]
        /\ Purge(c) \/ UNCHANGED <<cache, purges, purged>>
    BY <1>2 DEF PatchFlush
  <2>2. CallsInv' /\ Calm({})
    BY <2>1, CallsMove
  <2>3. PatchInv'
    BY <2>1, <2>2, PatchCalm DEF TablesInv
  <2>4. CacheInv'
    BY <2>1, <2>2, PurgeStep DEF TablesInv
  <2>5. RolesInv' /\ TenantInv' /\ GrantInv'
    BY <2>2, RolesCalm, TenantCalm, GrantCalm DEF TablesInv, tables
  <2> QED BY <2>2, <2>3, <2>4, <2>5 DEF TablesInv
<1>3. ASSUME NEW c \in Call, PatchCommit(c)
      PROVE  CallsInv' /\ TablesInv'
  <2>1. /\ Pending(c) /\ req[c].op = "product" /\ Commits(c)
        /\ product' = Patched(c) /\ UNCHANGED <<cache, purges, purged, look>>
    BY <1>3 DEF PatchCommit, Pending, CallsInv
  <2>2. CallsInv' /\ Commit(c)
    BY <2>1, CallsCommit
  <2>3. PatchInv' /\ CacheInv'
    BY <2>1, <2>2, PatchCommits, CacheCommits DEF TablesInv
  <2>4. TenantInv'
    BY <2>2, TenantCommitOther DEF TablesInv, tables
  <2>5. RolesInv' /\ GrantInv'
    BY <2>1, <2>2, RolesCommitOther, GrantCommits, RolesAssumption, AccessNamesAssumption, CodesAssumption
       DEF TablesInv, tables, UpdatesRole
  <2> QED BY <2>2, <2>3, <2>4, <2>5 DEF TablesInv
<1>4. ASSUME NEW l \in Lookup, (\E hit \in BOOLEAN : LookCache(l, hit)) \/ LookRow(l) \/ LookStore(l)
      PROVE  CallsInv' /\ TablesInv'
  <2>1. CacheInv' /\ UNCHANGED <<calls, product>>
    BY <1>4, LookupStep DEF TablesInv
  <2>2. CallsInv' /\ Calm({})
    BY <2>1, CallsQuiet
  <2>3. PatchInv' /\ RolesInv' /\ TenantInv' /\ GrantInv'
    BY <2>1, <2>2, PatchCalm, RolesCalm, TenantCalm, GrantCalm DEF TablesInv, tables
  <2> QED BY <2>1, <2>2, <2>3 DEF TablesInv
<1>5. ASSUME CacheExpires
      PROVE  CallsInv' /\ TablesInv'
  <2>1. cache' = None /\ UNCHANGED <<product, purges, purged, look, calls>>
    BY <1>5 DEF CacheExpires
  <2>2. CallsInv' /\ Calm({})
    BY <2>1, CallsQuiet
  <2>3. \A l \in Lookup : look[l].pc = "store" => TrueEntry(look[l])'
    BY <2>1, <2>2, EntryCalm DEF TablesInv, CacheInv
  <2>4. CacheInv'
    BY <2>1, <2>3 DEF TablesInv, CacheInv
  <2>5. PatchInv' /\ RolesInv' /\ TenantInv' /\ GrantInv'
    BY <2>1, <2>2, PatchCalm, RolesCalm, TenantCalm, GrantCalm DEF TablesInv, tables
  <2> QED BY <2>2, <2>4, <2>5 DEF TablesInv
<1> QED BY <1>1, <1>2, <1>3, <1>4, <1>5 DEF ProductsNext

LEMMA RolesStep ==
    ASSUME CallsInv, TablesInv, RolesNext, UNCHANGED tables
    PROVE  CallsInv' /\ TablesInv'
<1>1. ASSUME NEW c \in Call, NewRoleWrite(c)
      PROVE  CallsInv' /\ TablesInv'
  <2>1. /\ Pending(c) /\ req[c].op = "newrole" /\ Commits(c) /\ UNCHANGED <<product, cache, purges, purged, look>>
    BY <1>1 DEF NewRoleWrite, Pending, productVars
  <2>2. CallsInv' /\ Commit(c)
    BY <2>1, CallsCommit
  <2>3. PatchInv' /\ CacheInv'
    BY <2>1, <2>2, PatchCommits, CacheCommits DEF TablesInv
  <2>4. TenantInv'
    BY <2>2, TenantCommitOther DEF TablesInv, tables
  <2>5. RolesInv'
    BY <1>1, <2>2, NewRoleCommits, RolesAssumption DEF TablesInv
  <2>6. GrantInv'
    BY <2>1, <2>2, GrantCommits, RolesAssumption, AccessNamesAssumption, CodesAssumption
       DEF TablesInv, tables, UpdatesRole
  <2> QED BY <2>2, <2>3, <2>4, <2>5, <2>6 DEF TablesInv
<1>2. ASSUME NEW c \in Call, NEW n \in RoleName, NewRoleRead(c, n)
      PROVE  CallsInv' /\ TablesInv'
  <2>1. pc[c] = "idle" /\ UNCHANGED <<others, tables>>
    BY <1>2 DEF NewRoleRead, others
  <2>2. CASE \E r \in roles : r.name = n
    BY <1>2, <2>1, <2>2, LeaveStep DEF NewRoleRead
  <2>3. CASE ~\E r \in roles : r.name = n
    <3>1. PICK r : r = [op |-> "newrole", name |-> n]
      OBVIOUS
    <3>2. r \in NewRoleReq /\ r.name = n
      BY <3>1 DEF NewRoleReq
    <3>3. r \in Asked /\ r \notin FeaturePatch /\ r.op = "newrole"
      BY <3>2, Kinds
    <3>4. Goes(c, r, None)
      BY <1>2, <2>3, <3>1 DEF NewRoleRead
    <3> QED BY <2>1, <2>3, <3>2, <3>3, <3>4, BeginStep
  <2> QED BY <2>2, <2>3
<1> QED BY <1>1, <1>2 DEF RolesNext

LEMMA AdministersStep ==
    ASSUME IInv, NEW c \in Call, Administers(c)
    PROVE  IInv'
<1> USE DEF IInv, TablesInv
<1>1. ASSUME NEW r \in Asked, NEW g, Reads(c, r, g), r \notin FeaturePatch,
             r.op = "create" => ParentFits(r.parent) /\ (r.owner => g = Catalog),
             r.op # "newrole",
             r.op = "update" => Alive(r.tenant),
             r.op = "role" => g.grants = grants
      PROVE  IInv'
  <2>1. Goes(c, r, g) /\ UNCHANGED <<others, tables, ask, seen>>
    BY <1>1 DEF Reads
  <2> QED BY <1>1, <2>1, BeginStep, AskIsQuiet
<1>2. ASSUME Refuses(c) \/ Rollback(c)
      PROVE  IInv'
  <2>1. pc[c] \in {"idle", "write", "commit"} /\ Leaves(c) /\ UNCHANGED <<others, tables, ask, seen>>
    BY <1>2 DEF Refuses, Rollback
  <2> QED BY <2>1, LeaveStep, AskIsQuiet
<1>3. ASSUME NEW s \in Slug, NEW p \in Tenant \cup {None}, NEW o \in BOOLEAN, CreateRead(c, s, p, o)
      PROVE  IInv'
  <2>1. CASE SlugFree(s) /\ ParentFits(p)
    <3>1. PICK r, g : r = [op |-> "create", slug |-> s, parent |-> p, owner |-> o] /\ g = IF o THEN Catalog ELSE None
      OBVIOUS
    <3>2. r \in CreateReq /\ r.parent = p /\ r.owner = o
      BY <3>1 DEF CreateReq
    <3>3. r \in Asked /\ r \notin FeaturePatch /\ r.op = "create"
      BY <3>2, Kinds
    <3>4. Reads(c, r, g)
      BY <1>3, <2>1, <3>1 DEF CreateRead
    <3> QED BY <1>1, <2>1, <3>1, <3>2, <3>3, <3>4
  <2>2. CASE ~(SlugFree(s) /\ ParentFits(p))
    BY <1>2, <1>3, <2>2 DEF CreateRead
  <2> QED BY <2>1, <2>2
<1>4. ASSUME NEW t \in Tenant, NEW column, NEW value, UpdateRead(c, t, column, value),
             [op |-> "update", tenant |-> t, column |-> column, value |-> value] \in UpdateReq
      PROVE  IInv'
  <2>1. CASE Alive(t)
    <3>1. PICK r, g : r = [op |-> "update", tenant |-> t, column |-> column, value |-> value] /\ g = tenant[t]
      OBVIOUS
    <3>2. r \in Asked /\ r \notin FeaturePatch /\ r.op = "update" /\ r.tenant = t
      BY <1>4, <3>1, Kinds
    <3>3. Reads(c, r, g)
      BY <1>4, <2>1, <3>1 DEF UpdateRead
    <3> QED BY <1>1, <2>1, <3>2, <3>3
  <2>2. CASE ~Alive(t)
    BY <1>2, <1>4, <2>2 DEF UpdateRead
  <2> QED BY <2>1, <2>2
<1>5. ASSUME NEW t \in Tenant,
             \/ \E s \in Slug : UpdateRead(c, t, "slug", s)
             \/ \E e \in Time \cup {None} : UpdateRead(c, t, "expires", e)
             \/ \E b \in BOOLEAN : UpdateRead(c, t, "allow", b) \/ UpdateRead(c, t, "active", b)
      PROVE  IInv'
  <2>1. ASSUME NEW s \in Slug, UpdateRead(c, t, "slug", s) PROVE IInv'
    <3>1. [op |-> "update", tenant |-> t, column |-> "slug", value |-> s] \in UpdateReq
      BY DEF UpdateReq
    <3> QED BY <2>1, <3>1, <1>4
  <2>2. ASSUME NEW e \in Time \cup {None}, UpdateRead(c, t, "expires", e) PROVE IInv'
    <3>1. [op |-> "update", tenant |-> t, column |-> "expires", value |-> e] \in UpdateReq
      BY DEF UpdateReq
    <3> QED BY <2>2, <3>1, <1>4
  <2>3. ASSUME NEW b \in BOOLEAN, UpdateRead(c, t, "allow", b) PROVE IInv'
    <3>1. [op |-> "update", tenant |-> t, column |-> "allow", value |-> b] \in UpdateReq
      BY DEF UpdateReq
    <3> QED BY <2>3, <3>1, <1>4
  <2>4. ASSUME NEW b \in BOOLEAN, UpdateRead(c, t, "active", b) PROVE IInv'
    <3>1. [op |-> "update", tenant |-> t, column |-> "active", value |-> b] \in UpdateReq
      BY DEF UpdateReq
    <3> QED BY <2>4, <3>1, <1>4
  <2> QED BY <1>5, <2>1, <2>2, <2>3, <2>4
<1>6. ASSUME NEW role \in roles, NEW n \in RoleName \cup {None}, NEW P \in CodeLists \cup {None},
             RoleRead(c, role, n, P)
      PROVE  IInv'
  <2>1. CASE role.system
    BY <1>2, <1>6, <2>1 DEF RoleRead
  <2>2. CASE ~role.system
    <3>1. PICK codes, r, g : /\ codes = IF role.by = Earlier THEN P ELSE None
                             /\ r = [op |-> "role", role |-> role.by, name |-> n, codes |-> codes]
                             /\ g = [name |-> role.name, grants |-> grants]
      OBVIOUS
    <3>2. codes \in CodeLists \cup {None} /\ role.by \in Call \cup {Earlier}
      BY <3>1, RowsBefore
    <3>3. r \in RoleReq
      BY <3>1, <3>2 DEF RoleReq
    <3>4. r \in Asked /\ r \notin FeaturePatch /\ r.op = "role" /\ g.grants = grants
      BY <3>1, <3>3, Kinds
    <3>5. Reads(c, r, g)
      BY <1>6, <2>2, <3>1 DEF RoleRead
    <3> QED BY <1>1, <3>4, <3>5
  <2> QED BY <2>1, <2>2
<1>7. ASSUME NEW s \in Tenant \cup {None}, Assign(c, s)
      PROVE  IInv'
  <2>1. /\ pc[c] = "idle" /\ pc' = [pc EXCEPT ![c] = "ended"] /\ scopes' = scopes \cup {s}
        /\ UNCHANGED <<req, got, readAt, wroteAt, others, tenant, grants, user, now, ask>>
        /\ Witnessed
    BY <1>7 DEF Assign
  <2>2. CallsInv' /\ Calm({})
    BY <2>1, CallsMove
  <2>3. PatchInv' /\ CacheInv' /\ RolesInv' /\ TenantInv' /\ GrantInv'
    BY <2>1, <2>2, PatchCalm, CacheCalm, RolesCalm, TenantCalm, GrantCalm DEF others, productVars
  <2>4. AskInv'
    <3>1. Keeps /\ now <= now' /\ scopes' \subseteq Tenant \cup {None}
      BY <2>1 DEF Keeps, Alive, AskInv, Time
    <3> QED BY <2>1, <3>1, AskTables DEF AskInv
  <2> QED BY <2>2, <2>3, <2>4
<1>8. ASSUME pc[c] = "write", CreateWrite(c) \/ UpdateWrite(c) \/ RoleWrite(c)
      PROVE  IInv'
  <2>1. /\ Pending(c) /\ Commits(c) /\ UNCHANGED <<productVars, user, now, ask, scopes>> /\ Witnessed
        /\ req[c].op \in {"create", "update", "role"}
    BY <1>8 DEF CreateWrite, UpdateWrite, RoleWrite, Ends, Pending
  <2>2. CallsInv' /\ Commit(c)
    BY <2>1, CallsCommit
  <2>3. PatchInv' /\ CacheInv'
    BY <2>1, <2>2, PatchCommits, CacheCommits DEF productVars
  <2>4. RolesInv'
    <3>1. CASE UNCHANGED roleVars
      BY <3>1, <2>2, RolesCommitOther, RolesAssumption
    <3>2. CASE CreateWrite(c) /\ req[c].owner
      <4>1. SeedsRoles(c) /\ Seeds(c) /\ BindsOwner(c)
        BY <2>1, <3>2 DEF CreateWrite, SeedsRoles
      <4> QED BY <2>2, <4>1, SeedCommits, RolesAssumption
    <3>3. CASE RoleWrite(c)
      <4>1. req[c] \in RoleReq
        BY <2>1, <3>3, AskedShape DEF RoleWrite
      <4> QED BY <2>2, <3>3, <4>1, RoleCommits, RolesAssumption DEF RoleWrite
    <3> QED BY <1>8, <3>1, <3>2, <3>3 DEF CreateWrite, UpdateWrite
  <2>5. TenantInv' /\ Keeps
    <3>1. CASE CreateWrite(c)
      BY <2>2, <3>1, CreateCommits, NoneAssumption DEF CreateWrite
    <3>2. CASE UpdateWrite(c)
      BY <2>2, <3>2, UpdateCommits, NoneAssumption DEF UpdateWrite
    <3>3. CASE RoleWrite(c)
      BY <2>2, <3>3, TenantCommitOther DEF RoleWrite
    <3> QED BY <1>8, <3>1, <3>2, <3>3
  <2>6. GrantInv'
    <3>1. CASE RoleWrite(c)
      BY <2>2, <3>1, GrantCommits, RolesAssumption, AccessNamesAssumption, CodesAssumption
         DEF RoleWrite, UpdatesRole
    <3>2. CASE CreateWrite(c) \/ UpdateWrite(c)
      BY <2>2, <3>2, GrantCommits, RolesAssumption, AccessNamesAssumption, CodesAssumption
         DEF CreateWrite, UpdateWrite, UpdatesRole
    <3> QED BY <1>8, <3>1, <3>2
  <2>7. AskInv'
    <3>1. now <= now'
      BY <2>1 DEF AskInv, Time
    <3> QED BY <2>1, <2>5, <3>1, AskTables DEF AskInv
  <2> QED BY <2>2, <2>3, <2>4, <2>5, <2>6, <2>7
<1> QED BY <1>2, <1>3, <1>5, <1>6, <1>7, <1>8 DEF Administers

LEMMA NextKeepsIInv ==
    ASSUME IInv, [Next]_vars
    PROVE  IInv'
<1> USE DEF IInv, TablesInv
<1>1. CASE ProductsNext /\ UNCHANGED <<roleVars, tables, ask>> /\ Witnessed
  BY <1>1, ProductsStep, AskSees, ProductNamesAssumption
<1>2. CASE RolesNext /\ UNCHANGED <<tables, ask>> /\ Witnessed
  BY <1>2, RolesStep, AskSees
<1>3. ASSUME NEW c \in Call, Administers(c) PROVE IInv'
  BY <1>3, AdministersStep
<1>4. ASSUME NEW r \in Request, Steps(r) PROVE IInv'
  <2>1. AskInv' /\ UNCHANGED <<others, calls, tables>>
    BY <1>4, RequestStep, AccessNamesAssumption, NoneAssumption
  <2>2. CallsInv' /\ Calm({})
    BY <2>1, CallsQuiet
  <2> QED BY <2>1, <2>2, TablesQuiet
<1>5. ASSUME Deactivate \/ Tick PROVE IInv'
  <2>1. UNCHANGED <<others, calls, tenant, grants, scopes, ask>> /\ Witnessed
    BY <1>5 DEF Deactivate, Tick
  <2>2. CallsInv' /\ Calm({})
    BY <2>1, CallsQuiet
  <2>3. PatchInv' /\ CacheInv' /\ RolesInv' /\ TenantInv' /\ GrantInv'
    BY <2>1, <2>2, PatchCalm, CacheCalm, RolesCalm, TenantCalm, GrantCalm DEF others, productVars
  <2>4. /\ user' \in [home: {Root, Child}, active: BOOLEAN] /\ user'.home = user.home
        /\ now' \in Time /\ now <= now'
    <3>1. user \in [home: {Root, Child}, active: BOOLEAN] /\ now \in Time
      BY DEF AskInv
    <3>2. CASE Deactivate
      <4>1. user' = [user EXCEPT !.active = FALSE] /\ now' = now
        BY <3>2 DEF Deactivate
      <4>2. now' \in Time /\ now <= now'
        BY <3>1, <4>1 DEF Time
      <4>3. user' \in [home: {Root, Child}, active: BOOLEAN] /\ user'.home = user.home
        BY <3>1, <4>1
      <4> QED BY <4>2, <4>3
    <3>3. CASE Tick
      <4>1. user' = user /\ now = 0 /\ now' = 1
        BY <3>3 DEF Tick
      <4> QED BY <3>1, <4>1 DEF Time
    <3> QED BY <1>5, <3>2, <3>3
  <2>5. Keeps
    BY <2>1 DEF Keeps, Alive
  <2>6. AskInv'
    BY <2>1, <2>4, <2>5, AskTables DEF AskInv
  <2> QED BY <2>2, <2>3, <2>6
<1>6. CASE UNCHANGED vars
  <2>1. UNCHANGED <<others, calls, tables, ask, seen>>
    BY <1>6 DEF vars, others, productVars
  <2>2. CallsInv' /\ Calm({})
    BY <2>1, CallsQuiet
  <2> QED BY <2>1, <2>2, TablesQuiet, AskIsQuiet
<1> QED BY <1>1, <1>2, <1>3, <1>4, <1>5, <1>6 DEF Next

-----------------------------------------------------------------------------
(* The start.                                                              *)

LEMMA NoneCommittedYet ==
    ASSUME ProductsInit
    PROVE  /\ CallsInv /\ Committed = {} /\ Patches = {} /\ StatusPatches = {} /\ FeaturePatches = {} /\ RoleUpdates = {}
           /\ \A c \in Call : ~Pending(c) /\ wroteAt[c] = 0
<1>1. Committed = {} /\ \A c \in Call : ~Pending(c) /\ wroteAt[c] = 0
  BY DEF ProductsInit, Committed, Pending
<1>2. IsFiniteSet(Committed) /\ Count = 0
  BY <1>1, FS_EmptySet DEF Count
<1>3. CallsInv
  BY <1>1, <1>2 DEF CallsInv, ProductsInit, Pending
<1> QED BY <1>1, <1>3 DEF Patches, StatusPatches, FeaturePatches, RoleUpdates

LEMMA InitTables ==
    ASSUME Init
    PROVE  PatchInv /\ CacheInv /\ RolesInv /\ GrantInv
<1>1. /\ Committed = {} /\ StatusPatches = {} /\ FeaturePatches = {} /\ RoleUpdates = {}
      /\ \A c \in Call : ~Pending(c) /\ wroteAt[c] = 0
  BY NoneCommittedYet DEF Init
<1>2. PatchInv
  BY <1>1 DEF Init, ProductsInit, ProductStatus, PatchInv, PatchLostOnlyByOverlap, PatchesFeature, Last
<1>3. CacheInv
  BY DEF Init, ProductsInit, CacheInv
<1>4. RolesInv
  <2>1. PICK rows \in Installed : permissions = rows.permissions /\ roles = rows.roles
    BY DEF Init, RolesInit
  <2>2. /\ permissions \subseteq Permit
        /\ \A r \in roles : r \in Role /\ r.by = Earlier /\ (r.system => r.name \in SystemRole)
        /\ \A r, o \in roles : r.name = o.name \/ ~(r.system \/ o.system) => r = o
    BY <2>1, RolesAssumption
  <2>3. \A c \in Call : owned[c] = None
    BY DEF Init, RolesInit
  <2>4. RolesTypeOK
    BY <2>2 DEF RolesTypeOK, Init, RolesInit
  <2> QED BY <1>1, <2>2, <2>3, <2>4, RolesAssumption
          DEF RolesInv, SystemRoles, Same, NamesakesAccountedFor, SeedsRoles, NamesRole
<1>5. GrantInv
  BY <1>1 DEF Init, GrantInv, RoleIsTheLastSet, RoleUpdates, Last, Code
<1> QED BY <1>2, <1>3, <1>4, <1>5

LEMMA InitTenants ==
    ASSUME Init
    PROVE  TenantInv
<1>1. RootSlug \in Slug
  BY AccessNamesAssumption DEF RootSlug
<1>2. \E s \in Slug : s # RootSlug
  BY AccessNamesAssumption
<1>3. ChildSlug \in Slug /\ ChildSlug # RootSlug
  BY <1>2 DEF ChildSlug
<1>4. /\ Root # Child /\ Root # None /\ Child # None /\ Root \notin Call /\ Child \notin Call
      /\ None \notin TenantRow
  BY AccessNamesAssumption, NoneAssumption
<1>5. /\ Family(Root) \in TenantRow /\ Family(Child) \in TenantRow
      /\ Family(Root).parent = None /\ Family(Child).parent = Root
      /\ Family(Root).slug = RootSlug /\ Family(Child).slug = ChildSlug
  BY <1>1, <1>3, <1>4 DEF Family, TenantRow, Tenant
<1>6. \/ \A t \in Tenant : tenant[t] = IF t \in {Root, Child} THEN Family(t) ELSE None
      \/ \A t \in Tenant : tenant[t] = None
  BY DEF Init
<1>7. tenant \in [Tenant -> TenantRow \cup {None}]
  BY <1>5 DEF Init
<1>8. \A t \in Tenant : Alive(t) => t \in {Root, Child} /\ tenant[t] = Family(t) /\ Alive(Root)
  <2>1. Root \in Tenant /\ Child \in Tenant
    BY DEF Tenant
  <2> QED BY <1>4, <1>5, <1>6, <2>1 DEF Alive
<1>9. TwoLevels /\ SlugNamesOneTenant
  BY <1>3, <1>4, <1>5, <1>8 DEF TwoLevels, SlugNamesOneTenant, Tenant
<1>10. \A c \in Call : ~Pending(c) /\ ~Alive(c)
  BY <1>4, <1>8, NoneCommittedYet DEF Init, Tenant
<1> QED BY <1>7, <1>9, <1>10 DEF TenantInv

LEMMA InitHasIInv ==
    ASSUME Init
    PROVE  IInv
<1>1. CallsInv
  BY NoneCommittedYet DEF Init
<1>2. PatchInv /\ CacheInv /\ RolesInv /\ TenantInv /\ GrantInv
  BY InitTables, InitTenants
<1>3. AskInv
  <2>1. ASSUME NEW r \in Request
        PROVE  Sound(ask[r], seen[r])
    <3>1. ask[r] = [pc |-> "idle"]
      BY DEF Init
    <3> QED BY <3>1 DEF Sound, Asks, Stage
  <2>2. scopes \subseteq Tenant \cup {None} /\ now \in Time
    BY DEF Init, Tenant, Time
  <2>4. user \in [home: {Root, Child}, active: BOOLEAN]
    <3>1. user \in [home: {Root, Child}, active: {TRUE}]
      BY DEF Init
    <3> QED BY <3>1
  <2>3. ask = [r \in Request |-> ask[r]] /\ DOMAIN ask = Request /\ seen \in [Request -> SUBSET (Tenant \X Ground)]
    BY DEF Init
  <2> QED BY <2>1, <2>2, <2>3, <2>4 DEF AskInv
<1> QED BY <1>1, <1>2, <1>3 DEF IInv

-----------------------------------------------------------------------------
(* Theorems.                                                               *)

\* dependencies.py, rbac.py, tenant.py, product.py, roles.py: the tables, what
\* every pending transaction and session has read of them, and what the
\* requests have seen, stay in step, whoever interleaves with whom.
THEOREM AccessInvariance == Spec => []IInv
<1>1. Init => IInv
  BY InitHasIInv
<1>2. IInv /\ [Next]_vars => IInv'
  BY NextKeepsIInv
<1> QED BY <1>1, <1>2, PTL DEF Spec

\* services/product.py resolve_slug_to_id, admin.py:87: Redis holds an old
\* status only past an invalidation that failed, or that a lookup which had
\* read the row before the commit came after.
THEOREM OldStatusNeedsRace == Spec => []StaleOnlyByRace
<1>1. IInv => StaleOnlyByRace
  <2> SUFFICES ASSUME IInv, cache # None, cache.status # product.status
               PROVE  \E c \in Last(StatusPatches) :
                        /\ cache.readAt < wroteAt[c]
                        /\ purged[c] = 0 \/ cache.purges >= purged[c]
    BY DEF StaleOnlyByRace
  <2>1. /\ cache \in SlugEntry /\ cache.purges = purges /\ TrueEntry(cache)
        /\ \A c \in Call : purged[c] <= purges
    BY DEF IInv, CacheInv
  <2>2. PICK d \in StatusPatches : ~(wroteAt[d] <= cache.readAt)
    BY <2>1 DEF TrueEntry
  <2>3. PICK c \in StatusPatches : \A x \in StatusPatches : wroteAt[x] <= wroteAt[c]
    BY <2>2 DEF IInv, PatchInv, Last
  <2>4. StatusPatches \subseteq Call /\ wroteAt \in [Call -> Nat] /\ cache.readAt \in Nat
    BY <2>1 DEF StatusPatches, Patches, Committed, IInv, CallsInv, SlugEntry
  <2>5. c \in Last(StatusPatches) /\ wroteAt[d] <= wroteAt[c]
    BY <2>2, <2>3 DEF Last
  <2>6. wroteAt[c] \in Nat /\ wroteAt[d] \in Nat /\ c \in Call
    BY <2>2, <2>3, <2>4
  <2>7. cache.readAt < wroteAt[c]
    BY <2>2, <2>4, <2>5, <2>6
  <2>8. cache.purges >= purged[c]
    BY <2>1, <2>6 DEF IInv, CacheInv
  <2> QED BY <2>5, <2>7, <2>8
<1> QED BY <1>1, AccessInvariance, PTL

\* admin.py update_product's merge, roles.py update_role: an update of one key,
\* or of the role's permissions, stays until the next, but for an overlap.
THEOREM UpdatesStay == Spec => []UpdatesLast
<1>1. IInv => UpdatesLast
  BY DEF IInv, PatchInv, GrantInv, UpdatesLast
<1> QED BY <1>1, AccessInvariance, PTL

\* rbac.py ensure_system_roles_for_product, assign_role_by_name: once a call
\* has seeded, the system roles are complete, and so is an owner's; a name that
\* two roles have is accounted for: seedings that overlapped, a PATCH that gave
\* it, or a system role that its creator could not see.
THEOREM SeededRoles == Spec => []RolesHold
<1>1. IInv => RolesHold
  <2> SUFFICES ASSUME IInv PROVE RolesHold
    OBVIOUS
  <2>1. RolesTypeOK /\ NamesakesAccountedFor
    BY DEF IInv, RolesInv
  <2>2. SeededIsComplete
    BY DEF IInv, RolesInv, SeededIsComplete, Complete
  <2>3. OwnersOwn
    BY DEF IInv, RolesInv, OwnersOwn, Complete
  <2> QED BY <2>1, <2>2, <2>3 DEF RolesHold
<1> QED BY <1>1, AccessInvariance, PTL

\* services/tenant.py create_tenant, list_accessible_children: the tree has two
\* levels, a slug one tenant, and the picker offers the children that the
\* resolver would let the user act as.
THEOREM TreeOfTenants == Spec => []TenantTreeHolds
<1>1. IInv => TenantTreeHolds
  <2> SUFFICES ASSUME IInv PROVE TenantTreeHolds
    OBVIOUS
  <2>1. ProductsTypeOK
    BY DEF IInv, CallsInv, PatchInv, CacheInv, ProductsTypeOK
  <2>2. TypeOK
    BY <2>1 DEF IInv, TenantInv, GrantInv, AskInv, Sound, TypeOK, Stage
  <2>3. TwoLevels /\ SlugNamesOneTenant
    BY DEF IInv, TenantInv
  <2>4. PickerMirrorsResolver
    <3> SUFFICES ASSUME NEW h \in Tenant, Alive(h), NEW t \in ChildrenOf(h)
                 PROVE  t \in Picker(h) <=> Resolve(h, tenant[t].slug) = {t}
      BY DEF PickerMirrorsResolver
    <3>1. t \in Tenant /\ Alive(t) /\ tenant[t].parent = h
      BY DEF ChildrenOf
    <3>2. Resolve(h, tenant[t].slug) \subseteq {t}
      BY <2>3, <3>1 DEF Resolve, SlugNamesOneTenant
    <3>3. t # h
      <4>1. h # None
        BY AccessNamesAssumption DEF Tenant
      <4>2. tenant[h].parent = None
        BY <2>3, <3>1, <4>1 DEF TwoLevels
      <4> QED BY <3>1, <4>1, <4>2
    <3>4. t \in Picker(h) <=> MayActAs(h, t)
      BY <3>1 DEF Picker, Blocked, MayActAs
    <3>5. t \in Resolve(h, tenant[t].slug) <=> MayActAs(h, t)
      BY <3>1, <3>3 DEF Resolve
    <3> QED BY <3>2, <3>4, <3>5
  <2> QED BY <2>2, <2>3, <2>4 DEF TenantTreeHolds
<1> QED BY <1>1, AccessInvariance, PTL

\* dependencies.py get_current_user, require_permission: a user's request runs
\* in the home tenant or a child of it, on grounds each of which held at some
\* time while it was decided.
THEOREM AdmittedFairly == Spec => []AdmittedOnGrounds
<1>1. IInv => AdmittedOnGrounds
  <2> SUFFICES ASSUME IInv, NEW r \in Request, ask[r].pc = "admitted", ~ask[r].admin, NEW g \in Ground
               PROVE  <<ask[r].effective, g>> \in seen[r]
    BY DEF AdmittedOnGrounds
  <2>1. Sound(ask[r], seen[r]) /\ Asks(ask[r])
    BY DEF IInv, AskInv, Asks, Stage
  <2> QED BY <2>1 DEF Sound, Saw
<1> QED BY <1>1, AccessInvariance, PTL

=============================================================================
