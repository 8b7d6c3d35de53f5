------------------------------- MODULE Access -------------------------------
(***************************************************************************)
(* In which tenant a request runs, and whether it may (app/core/           *)
(* dependencies.py, app/services/rbac.py, app/services/tenant.py): the     *)
(* tenant tree, one user's roles, act-as, expiry, permissions.             *)
(*                                                                         *)
(* One product (every query names it), one user of it, and the roles bound *)
(* to that user taken as one.  A request reads the tables one statement    *)
(* after the other under READ COMMITTED while administrators' calls change *)
(* them; a tenant it loaded once is not loaded again (identity map).       *)
(***************************************************************************)
EXTENDS Roles

CONSTANTS
    Root, Child,     \* the tenants there are at the start, if any
    Slug,
    Nil,             \* the sentinel tenant of an empty product
    ActAs, Need, Star,  \* permission codes: act-as, the route's, *:*
    CodeLists           \* the lists PATCH /roles/{id} is sent

ASSUME AccessNamesAssumption ==
    /\ Root # Child /\ Nil # None /\ {Root, Child} \cap {Nil, None} = {}
    /\ {Root, Child, Nil, None} \cap Call = {}
    /\ \E s, o \in Slug : s # o
    /\ "allow_parent_child_access" \in Feature

Tenant == {Root, Child} \cup Call      \* a new tenant is named after its call
Request == Lookup
Code == {ActAs, Need, Star}
ASSUME CodesAssumption == CodeLists \subseteq SUBSET Code /\ None \notin CodeLists
\* expires_at: never, at a time that now reaches, or past.
Time == 0..1
TenantRow == [slug: Slug, parent: Tenant \cup {None}, expires: Time \cup {None},
              allow: BOOLEAN, active: BOOLEAN, born: Nat]
ASSUME NoneAssumption == None \notin TenantRow \cup Slug

VARIABLES
    tenant,   \* the tenants table
    grants,   \* role_permissions of the user's role: code -> who inserted the row
    scopes,   \* scope_tenant_id of the user's bindings to it
    user,     \* the user: home tenant and is_active
    now,
    ask,      \* the requests
    seen      \* by request: the grounds that held at some time since it began

tables == <<tenant, grants, scopes, user, now>>
vars == <<product, cache, purges, purged, look, calls, roleVars, tables, ask, seen>>
others == <<productVars, roleVars>>

Alive(t) == tenant[t] # None
Held == {p \in Code : grants[p] # None}

-----------------------------------------------------------------------------
(* Decisions on the tables as they are.                                    *)

ProductAllows == product.features["allow_parent_child_access"]
Matches(g, p) == g = Star \/ g = p
HasPermission(p, t) == (\E g \in Held : Matches(g, p)) /\ (None \in scopes \/ t \in scopes)
Expired(row) == row.expires # None /\ row.expires <= now
ChildrenOf(h) == {t \in Tenant : Alive(t) /\ tenant[t].parent = h}

\* _resolve_act_as.
MayActAs(h, t) ==
    /\ tenant[t].parent = h
    /\ ProductAllows
    /\ Alive(h) => tenant[h].allow
    /\ HasPermission(ActAs, h) \/ t \in scopes
Resolve(h, s) ==
    {t \in Tenant : Alive(t) /\ tenant[t].slug = s /\ (t = h \/ MayActAs(h, t))}

\* list_accessible_children.
Blocked(h) == ~ProductAllows \/ (Alive(h) /\ ~tenant[h].allow)
Picker(h) ==
    {t \in ChildrenOf(h) : ~Blocked(h) /\ (HasPermission(ActAs, h) \/ t \in scopes)}

-----------------------------------------------------------------------------
(* Grounds on which a request is admitted into tenant e.                   *)

Ground == {"active", "family", "product", "home", "entitled", "own", "parent", "permitted"}
Acts(e) == e # user.home
Holds(e, g) ==
    LET row == tenant[e] IN
    CASE g = "active"    -> user.active
      [] g = "family"    -> e = user.home \/ (Alive(e) /\ row.parent = user.home)
      [] g = "product"   -> Acts(e) => ProductAllows
      [] g = "home"      -> Acts(e) /\ Alive(user.home) => tenant[user.home].allow
      [] g = "entitled"  -> Acts(e) => HasPermission(ActAs, user.home) \/ e \in scopes
      [] g = "own"       -> Alive(e) /\ ~Expired(row)
      [] g = "parent"    -> Alive(e) /\ row.parent # None => ~Expired(tenant[row.parent])
      [] g = "permitted" -> HasPermission(Need, e)
Holding == {w \in Tenant \X Ground : Holds(w[1], w[2])}
Running(r) == ask[r].pc \notin {"idle", "admitted", "refused"} /\ ~ask[r].admin
\* A change of the tables under the requests that are running.
Witnessed == seen' = [r \in Request |-> IF Running(r) THEN seen[r] \cup Holding' ELSE seen[r]]

-----------------------------------------------------------------------------
RootSlug == CHOOSE s \in Slug : TRUE
ChildSlug == CHOOSE s \in Slug : s # RootSlug
Family(t) == [slug |-> IF t = Root THEN RootSlug ELSE ChildSlug,
              parent |-> IF t = Root THEN None ELSE Root,
              expires |-> None, allow |-> TRUE, active |-> TRUE, born |-> 0]
Init ==
    /\ ProductsInit /\ RolesInit
    /\ tenant \in {[t \in Tenant |-> IF t \in {Root, Child} THEN Family(t) ELSE None],
                   [t \in Tenant |-> None]}
    /\ grants \in {[p \in Code |-> IF p \in P THEN Earlier ELSE None] : P \in {{Star}, {ActAs, Need}, {Need}}}
    /\ scopes \in {{None}, {Root}, {Child}}
    /\ user \in [home: {Root, Child}, active: {TRUE}]
    /\ Alive(user.home) \/ user.home = Root
    /\ now = 0
    /\ ask = [r \in Request |-> [pc |-> "idle"]]
    /\ seen = [r \in Request |-> {}]

-----------------------------------------------------------------------------
(* Administrators' calls.                                                  *)

Reads(c, r, g) == Goes(c, r, g) /\ UNCHANGED <<others, tables, ask, seen>>
Ends(c) == pc[c] = "write" /\ Commits(c) /\ UNCHANGED <<productVars, user, now, ask>> /\ Witnessed
Refuses(c) == pc[c] = "idle" /\ Starts /\ Leaves(c) /\ UNCHANGED <<others, tables, ask, seen>>

\* Mutant of ParentFits: any tenant of the product will do.
ParentThere(p) == p # None => Alive(p)
\* create_tenant: only root tenants have children.
ParentFits(p) == p # None => Alive(p) /\ tenant[p].parent = None
SlugFree(s) == \A t \in Tenant : Alive(t) => tenant[t].slug # s

\* create_tenant, under the caller's effective tenant, or a root (a company's
\* registration; the platform admin in an empty product); o: with its owner.
CreateRead(c, s, p, o) ==
    IF SlugFree(s) /\ ParentFits(p)
    THEN Reads(c, [op |-> "create", slug |-> s, parent |-> p, owner |-> o], IF o THEN Catalog ELSE None)
    ELSE Refuses(c)
NewTenant(c) == [slug |-> req[c].slug, parent |-> req[c].parent, expires |-> None,
                 allow |-> TRUE, active |-> TRUE, born |-> readAt[c]]
\* uq_tenants_product_slug_alive.
CreateWrite(c) ==
    /\ req[c].op = "create" /\ SlugFree(req[c].slug)
    /\ tenant' = [tenant EXCEPT ![c] = NewTenant(c)]
    /\ IF req[c].owner THEN Seeds(c) /\ BindsOwner(c) ELSE UNCHANGED roleVars
    /\ UNCHANGED <<grants, scopes>>
    /\ Ends(c)

\* PATCH /tenants/{id}: slug, settings (here allow_child_access), expires_at;
\* POST /tenants/{id}/activate, deactivate: active, which nothing reads.  The
\* value differs from the one there.
UpdateRead(c, t, column, value) ==
    IF Alive(t)
    THEN /\ tenant[t][column] # value
         /\ Reads(c, [op |-> "update", tenant |-> t, column |-> column, value |-> value], tenant[t])
    ELSE Refuses(c)
UpdateWrite(c) ==
    /\ req[c].op = "update"
    /\ LET t == req[c].tenant  col == req[c].column  v == req[c].value IN
       /\ col = "slug" /\ v # tenant[t].slug => SlugFree(v)
       /\ tenant' = [tenant EXCEPT ![t][col] = v]
    /\ UNCHANGED <<roleVars, grants, scopes>>
    /\ Ends(c)

\* PATCH /roles/{id}, r: with a name (n), permission_codes (P), or both.  The
\* user's role is the one the tenant had of its own at the start, or a system
\* role; which permissions other roles have is left out.
RoleRead(c, r, n, P) ==
    /\ n # None \/ (P # None /\ r.by = Earlier)
    /\ IF r.system THEN Refuses(c)
       ELSE Reads(c, [op |-> "role", role |-> r.by, name |-> n, codes |-> IF r.by = Earlier THEN P ELSE None],
                  [name |-> r.name, grants |-> grants])
\* One flush inserts before it deletes: a permission the role keeps meets its
\* own old row in uq_role_permissions_unique.
SetsCodes(c) == req[c].codes # None
Insertable(c) == SetsCodes(c) => \A p \in req[c].codes : grants[p] = None
Deleted(c, p) == got[c].grants[p] # None /\ grants[p] = got[c].grants[p]
Granted(c) == [p \in Code |-> IF p \in req[c].codes THEN c ELSE IF Deleted(c, p) THEN None ELSE grants[p]]
RoleWrite(c) ==
    /\ req[c].op = "role" /\ Renameable(c) /\ Insertable(c)
    /\ roles' = RolesRenamed(c)
    /\ grants' = IF SetsCodes(c) THEN Granted(c) ELSE grants
    /\ UNCHANGED <<permissions, owned, tenant, scopes>>
    /\ Ends(c)

\* POST /roles/assign: any tenant, or none, is a scope.
Assign(c, s) ==
    /\ pc[c] = "idle" /\ Starts /\ (s # None => Alive(s))
    /\ pc' = [pc EXCEPT ![c] = "ended"] /\ scopes' = scopes \cup {s}
    /\ UNCHANGED <<req, got, readAt, wroteAt, others, tenant, grants, user, now, ask>>
    /\ Witnessed

\* A constraint, or the connection.
Rollback(c) == pc[c] \in {"write", "commit"} /\ Leaves(c) /\ UNCHANGED <<others, tables, ask, seen>>

\* POST /users/{id}/deactivate (Sessions).
Deactivate ==
    /\ \E r \in Request : Running(r)
    /\ user.active /\ user' = [user EXCEPT !.active = FALSE]
    /\ UNCHANGED <<others, calls, tenant, grants, scopes, now, ask>>
    /\ Witnessed
Tick ==
    /\ \E r \in Request : Running(r)
    /\ now = 0 /\ now' = 1
    /\ UNCHANGED <<others, calls, tenant, grants, scopes, user, ask>>
    /\ Witnessed

-----------------------------------------------------------------------------
(* A request: get_current_user, then require_permission.                   *)

Becomes(r, a) == ask' = [ask EXCEPT ![r] = a] /\ UNCHANGED <<others, calls, tables, seen>>
Then(r, step) == Becomes(r, [ask[r] EXCEPT !.pc = step])
Refused(r) == Becomes(r, [pc |-> "refused"])
Passes(r, test, step) == IF test THEN Then(r, step) ELSE Refused(r)

\* The oldest root tenant: where the platform admin is at home.
Oldest == {t \in ChildrenOf(None) : \A o \in ChildrenOf(None) : tenant[t].born <= tenant[o].born}

\* What a request's session has loaded.
NoRows == [t \in {} |-> None]
With(rows, t, row) == [x \in DOMAIN rows \cup {t} |-> IF x = t THEN row ELSE rows[x]]
\* resolve_product, then the user; s: X-Acting-Tenant-Slug.
Enter(r, s) ==
    /\ ask[r].pc = "idle" /\ look[r].pc = "resolved" /\ Alive(user.home)
    /\ ask' = [ask EXCEPT ![r] =
         IF look[r].status # "active" \/ ~user.active THEN [pc |-> "refused"]
         ELSE [pc |-> IF s = None THEN "expiry" ELSE "target", admin |-> FALSE, home |-> user.home,
               slug |-> s, effective |-> user.home, rows |-> NoRows]]
    /\ seen' = [seen EXCEPT ![r] = Holding]
    /\ UNCHANGED <<others, calls, tables>>

\* The platform-admin token: no user, every permission, no expiry.
EnterAdmin(r, s) ==
    /\ ask[r].pc = "idle" /\ look[r].pc = "resolved"
    /\ \E home \in IF Oldest = {} THEN {Nil} ELSE Oldest :
         ask' = [ask EXCEPT ![r] =
           IF look[r].status # "active" THEN [pc |-> "refused"]
           ELSE [pc |-> IF s = None \/ home = Nil THEN "admitted" ELSE "target", admin |-> TRUE,
                 home |-> home, slug |-> s, effective |-> home, rows |-> NoRows]]
    /\ UNCHANGED <<others, calls, tables, seen>>

\* _resolve_act_as, statement by statement.
Target(r) ==
    /\ ask[r].pc = "target"
    /\ LET a == ask[r]  found == {t \in Tenant : Alive(t) /\ tenant[t].slug = a.slug}
           Found(t) == [a EXCEPT !.effective = t, !.rows = With(NoRows, t, tenant[t]),
                                 !.pc = IF t # a.home THEN "product" ELSE IF a.admin THEN "admitted" ELSE "expiry"]
       IN IF \E t \in found : t = a.home \/ tenant[t].parent = a.home
          THEN \E t \in found : Becomes(r, Found(t))
          ELSE Refused(r)
ProductGate(r) == ask[r].pc = "product" /\ Passes(r, ProductAllows, "home")
HomeGate(r) ==
    /\ ask[r].pc = "home"
    /\ LET row == tenant[ask[r].home] IN
       IF row.allow
       THEN Becomes(r, [ask[r] EXCEPT !.rows = With(@, ask[r].home, row),
                                      !.pc = IF ask[r].admin THEN "admitted" ELSE "global"])
       ELSE Refused(r)
GlobalGate(r) ==
    /\ ask[r].pc = "global"
    /\ Then(r, IF HasPermission(ActAs, ask[r].home) THEN "expiry" ELSE "binding")
BindingGate(r) == ask[r].pc = "binding" /\ Passes(r, ask[r].effective \in scopes, "expiry")

\* Mutant of Ancestor: the chain is not walked.
NoAncestor(row) == None
\* _enforce_tenant_expiry walks on to the parent.
Ancestor(row) == row.parent
\* What the session has loaded stays as it was loaded.
Loaded(r, t) == IF t \in DOMAIN ask[r].rows THEN ask[r].rows[t] ELSE tenant[t]
Expiry(r, step, t) ==
    /\ ask[r].pc = step
    /\ LET row == Loaded(r, t) IN
       IF Expired(row) THEN Refused(r)
       ELSE Becomes(r, [ask[r] EXCEPT !.rows = With(@, t, row),
                          !.pc = IF step = "expiry" /\ Ancestor(row) # None THEN "inherited" ELSE "permission"])
OwnExpiry(r) == ask[r].pc = "expiry" /\ Expiry(r, "expiry", ask[r].effective)
ParentExpiry(r) ==
    ask[r].pc = "inherited" /\ Expiry(r, "inherited", ask[r].rows[ask[r].effective].parent)

Permission(r) ==
    ask[r].pc = "permission" /\ Passes(r, HasPermission(Need, ask[r].effective), "admitted")

Steps(r) ==
    \/ \E s \in Slug \cup {None} : Enter(r, s) \/ EnterAdmin(r, s)
    \/ Target(r) \/ ProductGate(r) \/ HomeGate(r) \/ GlobalGate(r) \/ BindingGate(r)
    \/ OwnExpiry(r) \/ ParentExpiry(r) \/ Permission(r)

Administers(c) ==
    \/ /\ pc[c] = "idle" /\ Starts
       /\ \/ \E s \in Slug, p \in Tenant \cup {None}, o \in BOOLEAN : CreateRead(c, s, p, o)
          \/ \E t \in Tenant :
              \/ \E s \in Slug : UpdateRead(c, t, "slug", s)
              \/ \E e \in Time \cup {None} : UpdateRead(c, t, "expires", e)
              \/ \E b \in BOOLEAN : UpdateRead(c, t, "allow", b) \/ UpdateRead(c, t, "active", b)
          \/ \E r \in roles, n \in RoleName \cup {None}, P \in CodeLists \cup {None} : RoleRead(c, r, n, P)
          \/ \E s \in Tenant \cup {None} : Assign(c, s)
    \/ pc[c] = "write" /\ (CreateWrite(c) \/ UpdateWrite(c) \/ RoleWrite(c))
    \/ Rollback(c)

Next ==
    \/ ProductsNext /\ UNCHANGED <<roleVars, tables, ask>> /\ Witnessed
    \/ RolesNext /\ UNCHANGED <<tables, ask>> /\ Witnessed
    \/ \E c \in Call : Administers(c)
    \/ \E r \in Request : Steps(r)
    \/ Deactivate \/ Tick
Spec == Init /\ [][Next]_vars

-----------------------------------------------------------------------------
(* Properties.                                                             *)

TypeOK ==
    /\ ProductsTypeOK
    /\ tenant \in [Tenant -> TenantRow \cup {None}]
    /\ grants \in [Code -> Call \cup {Earlier, None}]
    /\ scopes \subseteq Tenant \cup {None}
    /\ user \in [home: {Root, Child}, active: BOOLEAN]
    /\ now \in Time
    /\ \A r \in Request : ask[r].pc \in
         {"idle", "target", "product", "home", "global", "binding", "expiry", "inherited",
          "permission", "admitted", "refused"}
    /\ seen \in [Request -> SUBSET (Tenant \X Ground)]

\* tenant.py create_tenant: the tree has two levels, whoever creates under whom
\* at the same time; the expiry of a parent is all there is to inherit.
TwoLevels ==
    \A t \in Tenant : Alive(t) /\ tenant[t].parent # None =>
        Alive(tenant[t].parent) /\ tenant[tenant[t].parent].parent = None

\* models/tenant.py uq_tenants_product_slug_alive: a slug names one tenant, so
\* X-Acting-Tenant-Slug has one meaning.
SlugNamesOneTenant ==
    \A t, o \in Tenant : Alive(t) /\ Alive(o) /\ tenant[t].slug = tenant[o].slug => t = o

\* tenant.py:94, list_accessible_children "mirrors `_resolve_act_as` exactly":
\* the picker offers the children that the resolver would let the user be.
PickerMirrorsResolver ==
    \A h \in Tenant : Alive(h) =>
        \A t \in ChildrenOf(h) : t \in Picker(h) <=> Resolve(h, tenant[t].slug) = {t}

\* dependencies.py get_current_user: a user's request runs in the home tenant
\* or a child of it, and every ground for that held at some time while it was
\* decided; nothing is granted on what had changed before it began.
AdmittedOnGrounds ==
    \A r \in Request : ask[r].pc = "admitted" /\ ~ask[r].admin =>
        \A g \in Ground : <<ask[r].effective, g>> \in seen[r]

\* roles.py update_role: a role has the permissions of its last update, unless
\* that one overlapped another; then it may have the permissions of both.
RoleIsTheLastSet ==
    LET Updates == {c \in Committed : req[c].op = "role" /\ SetsCodes(c)} IN
    \A c \in Last(Updates) : Held = req[c].codes \/ \E d \in Updates \ {c} : Overlap(c, d)

\* tenant.py: the tree of tenants keeps the shape that acting as a child, and
\* the picker of children, rely on.
TenantTreeHolds == TypeOK /\ TwoLevels /\ SlugNamesOneTenant /\ PickerMirrorsResolver

\* admin.py update_product, roles.py update_role: an update stays until the
\* next one, but for those that overlap it.
UpdatesLast == PatchLostOnlyByOverlap /\ RoleIsTheLastSet
=============================================================================
