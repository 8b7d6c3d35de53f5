-------------------------------- MODULE Roles --------------------------------
(***************************************************************************)
(* The permission catalog and the roles of a product (services/rbac.py,    *)
(* app/api/v1/roles.py).  System roles have no tenant; the unique key of   *)
(* roles takes two rows without one for distinct.                          *)
(*                                                                         *)
(* Whoever gives a new tenant its owner first brings the catalog and the   *)
(* system roles up to the templates of this release; a database may have   *)
(* been left by an earlier one.  Calls are the transactions of Products.   *)
(***************************************************************************)
EXTENDS Products

CONSTANTS
    Earlier,     \* what created the rows there are at the start
    SystemRole, Owner,  \* names of system roles
    Template,    \* SYSTEM_ROLES and PRODUCT_SYSTEM_ROLES: name -> codes
    RoleName,    \* names POST /roles and PATCH /roles/{id} are sent
    Installed    \* [permissions, roles] that earlier releases leave

Permit == UNION {Template[n] : n \in SystemRole}
Role == [by: Call \cup {Earlier}, name: SystemRole \cup RoleName, system: BOOLEAN, codes: SUBSET Permit]

\* An earlier release leaves system roles of this one, each once; the tenant
\* has a role of its own at most, of another name.
ASSUME RolesAssumption ==
    /\ Earlier \notin Call \cup {None} /\ None \notin RoleName
    /\ Owner \in SystemRole /\ DOMAIN Template = SystemRole
    /\ \A rows \in Installed :
        /\ rows.permissions \subseteq Permit
        /\ rows.roles \subseteq {r \in Role : r.by = Earlier /\ (r.system => r.name \in SystemRole)}
        /\ \A r, o \in rows.roles : r.name = o.name \/ ~(r.system \/ o.system) => r = o

VARIABLES
    permissions,  \* the codes of the catalog, which all products share
    roles,        \* the product's system roles, and one tenant's own
    owned         \* by call: whose row the owner it created is bound to, or None

roleVars == <<permissions, roles, owned>>

SystemRoles == {r \in roles : r.system}
RolesInit ==
    /\ \E rows \in Installed : permissions = rows.permissions /\ roles = rows.roles
    /\ owned = [c \in Call |-> None]

-----------------------------------------------------------------------------
(* ensure_permission_catalog, ensure_system_roles_for_product.             *)

\* Mutant of Catalog: the tenants' own roles are taken for system roles.
CatalogOfAll == [permissions |-> permissions, roles |-> {r \in roles : r.name \in SystemRole}]
\* What the call reads, and looks up by the templates' names.
Catalog == [permissions |-> permissions, roles |-> {r \in SystemRoles : r.name \in SystemRole}]

\* existing_roles is a dict: of two rows of one name, it keeps one.
Kept(c) ==
    {K \in SUBSET got[c].roles :
        \A r \in got[c].roles : \E k \in K : {j \in K : j.name = r.name} = {k}}
Same(r, k) == r.by = k.by /\ r.name = k.name /\ r.system = k.system
Missing(k) == Template[k.name] \ k.codes
NewSystemRole(c, n) == [by |-> c, name |-> n, system |-> TRUE, codes |-> Template[n]]

\* permissions.code and uq_role_permissions_unique refuse what another call
\* has inserted meanwhile; nothing refuses a second system role of a name.
Seeds(c) ==
    /\ permissions \cap (Permit \ got[c].permissions) = {}
    /\ permissions' = permissions \cup Permit
    /\ \E K \in Kept(c) :
        /\ \A k \in K, r \in roles : Same(r, k) => r.codes \cap Missing(k) = {}
        /\ roles' = {IF \E k \in K : Same(r, k) THEN [r EXCEPT !.codes = @ \cup Template[r.name]] ELSE r
                     : r \in roles}
                    \cup {NewSystemRole(c, n) : n \in SystemRole \ {r.name : r \in got[c].roles}}

\* assign_role_by_name, of some system role of the name.
BindsOwner(c) ==
    \E r \in roles' : r.system /\ r.name = Owner /\ owned' = [owned EXCEPT ![c] = r.by]

-----------------------------------------------------------------------------
(* POST /roles.  Which permissions it names is left out.                   *)

NewRoleRead(c, n) ==
    /\ pc[c] = "idle" /\ UNCHANGED <<productVars, roleVars>>
    /\ IF \E r \in roles : r.name = n THEN Starts /\ Leaves(c)
       ELSE Goes(c, [op |-> "newrole", name |-> n], None)
\* uq_roles_product_tenant_name.
NewRoleWrite(c) ==
    /\ pc[c] = "write" /\ req[c].op = "newrole"
    /\ \A r \in roles \ SystemRoles : r.name # req[c].name
    /\ roles' = roles \cup {[by |-> c, name |-> req[c].name, system |-> FALSE, codes |-> {}]}
    /\ Commits(c)
    /\ UNCHANGED <<productVars, permissions, owned>>

\* The name in PATCH /roles/{id} (Access) is written if it is not the one that
\* was loaded, and looked for nowhere first: uq_roles_product_tenant_name tells
\* the tenant's own roles apart, and no others.
Renames(c) == req[c].name \notin {None, got[c].name}
OfRole(c, r) == ~r.system /\ r.by = req[c].role
Renameable(c) ==
    Renames(c) => \A r \in roles \ SystemRoles : OfRole(c, r) \/ r.name # req[c].name
RolesRenamed(c) ==
    {IF Renames(c) /\ OfRole(c, r) THEN [r EXCEPT !.name = req[c].name] ELSE r : r \in roles}

RolesNext ==
    \E c \in Call : NewRoleWrite(c) \/ \E n \in RoleName : NewRoleRead(c, n)

-----------------------------------------------------------------------------
(* Properties.                                                             *)

RolesTypeOK ==
    permissions \subseteq Permit /\ roles \subseteq Role /\ owned \in [Call -> Call \cup {Earlier, None}]

\* rbac.py ensure_system_roles_for_product: once a call has seeded, every
\* template has a role with all its permissions.
SeededIsComplete ==
    (\E c \in Call : owned[c] # None) =>
        \A n \in SystemRole : \E r \in SystemRoles : r.name = n /\ Template[n] \subseteq r.codes

\* rbac.py assign_role_by_name: an owner is bound to a role that has what the
\* template gives an owner, whichever of several it is.
OwnersOwn ==
    \A c \in Call : owned[c] # None =>
        \E r \in SystemRoles : r.by = owned[c] /\ r.name = Owner /\ Template[Owner] \subseteq r.codes

\* A role has its name from a PATCH.
IsRenamed(r) == \E d \in Committed : req[d].op = "role" /\ OfRole(d, r) /\ req[d].name = r.name

\* models/role.py uq_roles_product_tenant_name, roles.py create_role and
\* update_role: a name has a second system role only when two calls that seeded
\* overlapped.  A tenant's own role has the name of a system role only when a
\* PATCH gave it that name, or when the system role was not there yet to be
\* seen by who created it.  Two of a tenant's own never have one name.
NamesakesAccountedFor ==
    \A r, o \in roles : r.name = o.name /\ r # o =>
        CASE r.system /\ o.system   -> Overlap(r.by, o.by)
          [] ~r.system /\ o.system  ->
               IsRenamed(r) \/ (o.by # Earlier /\ (r.by = Earlier \/ readAt[r.by] < wroteAt[o.by]))
          [] r.system /\ ~o.system  -> TRUE
          [] OTHER                  -> FALSE

\* rbac.py, roles.py: seeding completes the system roles, and a name that two
\* roles have is accounted for.
RolesHold == RolesTypeOK /\ SeededIsComplete /\ OwnersOwn /\ NamesakesAccountedFor
=============================================================================
