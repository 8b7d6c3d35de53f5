---------------------------- MODULE Entitlements ----------------------------
(***************************************************************************)
(* Whether a user may use a component (app/services/component.py): one     *)
(* component code of a product, one user of one tenant, the overrides for  *)
(* the two, and the plan the tenant's subscription gives access to.        *)
(*                                                                         *)
(* Administrators' calls read, then write and commit; nothing is locked in *)
(* between.  The evaluators read the tables one statement after the other   *)
(* under READ COMMITTED, so what they combine need not have been there at  *)
(* one time.                                                               *)
(***************************************************************************)
EXTENDS Naturals, FiniteSets

CONSTANTS
    Call,     \* administrators' requests, each one database transaction
    Earlier,  \* what created the rows there are at the start
    Eval,     \* requests that evaluate
    Plan,     \* plan codes
    None

ASSUME NamesAssumption ==
    Earlier \notin Call /\ None \notin Call \cup {Earlier} /\ None \notin Plan

\* Rows are named after the call that inserted them.  required_plan_codes is
\* a set, empty for no gate.
Id == Call \cup {Earlier}
ProductComponent == [id: Id, default: BOOLEAN, active: BOOLEAN, required: SUBSET Plan]
Override == [id: Id, component: Id, enabled: BOOLEAN]
Scope == {"user", "tenant"}

\* NULL is no row.
ASSUME NoneIsNoRow == None \notin ProductComponent \cup Override

VARIABLES
    component,  \* the product_components row of the code, or None
    override,   \* user_component_overrides and tenant_component_overrides, by scope
    plan,       \* the plan of the tenant's subscription while it has access, or None
    at, asked, got,     \* the administrators' calls; what each loaded
    readAt, wroteAt,    \* how many had committed when it read; its place among them
    ev,         \* the evaluators
    held,       \* the answers that were right at some time since each began
    changes     \* how often the tables changed since

entitlementVars ==
    <<component, override, plan, at, asked, got, readAt, wroteAt, ev, held, changes>>
rows == <<component, override, plan>>
calls == <<at, asked, got, readAt, wroteAt>>
evals == <<ev, held, changes>>

Committed == {c \in Call : wroteAt[c] > 0}

-----------------------------------------------------------------------------
(* What the tables say: user override, tenant override, plan, default.     *)

\* The plan gate of _resolve_with_plan.
Gated(required, p) == required # {} /\ p \notin required

WithPlan(comp, p) == comp.default /\ ~Gated(comp.required, p)

Decided(comp, user, tenant, p) ==
    CASE user # None   -> user.enabled
      [] user = None /\ tenant # None -> tenant.enabled
      [] OTHER         -> WithPlan(comp, p)

Of(comp, o) == IF o # None /\ o.component = comp.id THEN o ELSE None

Effective(comp, o, p) ==
    /\ comp # None /\ comp.active
    /\ Decided(comp, Of(comp, o["user"]), Of(comp, o["tenant"]), p)

\* What the tenant gets: no user's override is consulted.
TenantEffective(comp, o, p) == Effective(comp, [o EXCEPT !["user"] = None], p)

\* The right answer to an evaluator's question.
Right(kind, comp, o, p) ==
    IF kind = "tenant" THEN TenantEffective(comp, o, p) ELSE Effective(comp, o, p)

-----------------------------------------------------------------------------
EntitlementsInit ==
    /\ component \in [id: {Earlier}, default: BOOLEAN, active: BOOLEAN, required: SUBSET Plan]
    /\ override \in [Scope -> [id: {Earlier}, component: {Earlier}, enabled: BOOLEAN] \cup {None}]
    /\ plan \in Plan \cup {None}
    /\ at = [c \in Call |-> "idle"]
    /\ asked = [c \in Call |-> None]
    /\ got = [c \in Call |-> None]
    /\ readAt = [c \in Call |-> 0] /\ wroteAt = [c \in Call |-> 0]
    /\ ev = [e \in Eval |-> [pc |-> "idle"]]
    /\ held = [e \in Eval |-> {}]
    /\ changes = [e \in Eval |-> 0]

Goes(c, r, g) ==
    /\ at[c] = "idle" /\ at' = [at EXCEPT ![c] = "write"]
    /\ asked' = [asked EXCEPT ![c] = r]
    /\ got' = [got EXCEPT ![c] = g]
    /\ readAt' = [readAt EXCEPT ![c] = Cardinality(Committed)]
    /\ UNCHANGED <<rows, wroteAt, evals>>

\* An exception, or nothing to do.
Leaves(c) ==
    /\ at' = [at EXCEPT ![c] = "left"]
    /\ asked' = [asked EXCEPT ![c] = None]
    /\ got' = [got EXCEPT ![c] = None]
    /\ readAt' = [readAt EXCEPT ![c] = 0]
    /\ UNCHANGED <<rows, wroteAt, evals>>

Running(e) == ev[e].pc \notin {"idle", "ended"}
\* The tables change under the evaluators that are running.
Witnessed ==
    /\ held' = [e \in Eval |-> IF Running(e)
                               THEN held[e] \cup {Right(ev[e].kind, component', override', plan')}
                               ELSE held[e]]
    /\ changes' = [e \in Eval |-> IF Running(e) THEN changes[e] + 1 ELSE changes[e]]
    /\ UNCHANGED ev

Commits(c) ==
    /\ at[c] = "write" /\ at' = [at EXCEPT ![c] = "ended"]
    /\ wroteAt' = [wroteAt EXCEPT ![c] = 1 + Cardinality(Committed)]
    /\ UNCHANGED <<plan, asked, got, readAt>>
    /\ Witnessed

-----------------------------------------------------------------------------
(* The catalog.                                                            *)

CreateRead(c, d, a, r) ==
    IF component = None
    THEN Goes(c, [op |-> "create", default |-> d, active |-> a, required |-> r], None)
    ELSE at[c] = "idle" /\ Leaves(c)
CreateWrite(c) ==
    /\ asked[c].op = "create" /\ component = None
    /\ component' = [id |-> c, default |-> asked[c].default, active |-> asked[c].active,
                     required |-> asked[c].required]
    /\ UNCHANGED override
    /\ Commits(c)

\* PATCH: the columns it names; here the one it changes.
UpdateRead(c, column, value) ==
    IF component # None /\ component[column] # value
    THEN Goes(c, [op |-> "update", column |-> column, value |-> value], component)
    ELSE at[c] = "idle" /\ Leaves(c)
UpdateWrite(c) ==
    /\ asked[c].op = "update" /\ component # None /\ component.id = got[c].id
    /\ component' = [component EXCEPT ![asked[c].column] = asked[c].value]
    /\ UNCHANGED override
    /\ Commits(c)

DeleteRead(c) ==
    IF component # None THEN Goes(c, [op |-> "delete"], component) ELSE at[c] = "idle" /\ Leaves(c)

Gone(o) == o # None /\ component # None /\ o.component = component.id
\* Mutant of DeleteWrite: the foreign keys do not cascade.
DeleteLeavesOverrides(c) ==
    /\ asked[c].op = "delete" /\ component # None /\ component.id = got[c].id
    /\ component' = None
    /\ UNCHANGED override
    /\ Commits(c)
DeleteWrite(c) ==
    /\ asked[c].op = "delete" /\ component # None /\ component.id = got[c].id
    /\ component' = None
    /\ override' = [s \in Scope |-> IF Gone(override[s]) THEN None ELSE override[s]]
    /\ Commits(c)

-----------------------------------------------------------------------------
(* The overrides.                                                          *)

\* by: who the route passes on as set_by_user_id.  For a user's override, a
\* user or the sentinel of the platform-admin token; for a tenant's, nobody.
Actor(s) == IF s = "user" THEN {"user", "platform"} ELSE {None}
SetRead(c, s, by, e) ==
    IF component # None
    THEN Goes(c, [op |-> "set", scope |-> s, by |-> by, enabled |-> e],
              [component |-> component.id, row |-> Of(component, override[s])])
    ELSE at[c] = "idle" /\ Leaves(c)

\* The foreign key: the component is still there.
References(c) == component # None /\ component.id = got[c].component

\* is_enabled is written when it differs from the one loaded.
Overwritten(c, o) == IF asked[c].enabled = got[c].row.enabled THEN o
                     ELSE [o EXCEPT !.enabled = asked[c].enabled]

\* INSERT, unless the unique index has a row; UPDATE of the row loaded.
SetWrite(c, s) ==
    /\ asked[c].op = "set" /\ asked[c].scope = s /\ References(c)
    /\ LET o == override[s]  row == got[c].row IN
       /\ IF row = None THEN o = None ELSE o # None /\ o.id = row.id
       /\ override' = [override EXCEPT ![s] =
            IF row = None THEN [id |-> c, component |-> component.id, enabled |-> asked[c].enabled]
            ELSE Overwritten(c, o)]
    /\ UNCHANGED component
    /\ Commits(c)
\* users has the actor: the foreign key of set_by_user_id.
SetUserWrite(c) == SetWrite(c, "user") /\ asked[c].by = "user"
SetTenantWrite(c) == SetWrite(c, "tenant")

ClearRead(c, s) ==
    IF component # None /\ Of(component, override[s]) # None
    THEN Goes(c, [op |-> "clear", scope |-> s], [component |-> component.id, row |-> override[s]])
    ELSE at[c] = "idle" /\ Leaves(c)
\* A DELETE of a row that is gone affects none.
ClearWrite(c, s) ==
    /\ asked[c].op = "clear" /\ asked[c].scope = s
    /\ override' = IF override[s] # None /\ override[s].id = got[c].row.id
                   THEN [override EXCEPT ![s] = None] ELSE override
    /\ UNCHANGED component
    /\ Commits(c)
ClearUserWrite(c) == ClearWrite(c, "user")
ClearTenantWrite(c) == ClearWrite(c, "tenant")

\* A constraint, a row that is gone, or the connection.
Rollback(c) == at[c] = "write" /\ Leaves(c)

\* The subscription gains, changes or loses its plan (Subscriptions).
PlanChanges ==
    /\ \E e \in Eval : Running(e) /\ changes[e] < 2
    /\ \E p \in (Plan \cup {None}) \ {plan} : plan' = p
    /\ UNCHANGED <<component, override, calls>>
    /\ Witnessed

-----------------------------------------------------------------------------
(* The evaluators: user_has_component_access (kind "gate") stops at the    *)
(* first row that decides; user_effective_components (kind "list") reads   *)
(* them all; tenant_effective_components (kind "tenant") all but the       *)
(* user's.                                                                 *)

To(e, r) == ev' = [ev EXCEPT ![e] = r] /\ UNCHANGED <<rows, calls, changes>>
Answers(e, a) ==
    /\ To(e, [pc |-> "ended", component |-> ev[e].component, answer |-> a])
    /\ UNCHANGED held

\* The tenant's override is read next.
FromTenant(kind, comp, o) == [pc |-> "tenant", kind |-> kind, component |-> comp, user |-> o]

EvalComponent(e, kind) ==
    /\ ev[e].pc = "idle"
    /\ IF component = None \/ ~component.active
       THEN To(e, [pc |-> "ended", component |-> component, answer |-> FALSE])
       ELSE IF kind = "tenant" THEN To(e, FromTenant(kind, component, None))
       ELSE To(e, [pc |-> "user", kind |-> kind, component |-> component])
    /\ held' = [held EXCEPT ![e] = {Right(kind, component, override, plan)}]

\* Mutant of EvalUser: the list takes the override for the gate's to check.
EvalUserSkipped(e) ==
    /\ ev[e].pc = "user"
    /\ To(e, FromTenant(ev[e].kind, ev[e].component, None))
    /\ UNCHANGED held

EvalUser(e) ==
    /\ ev[e].pc = "user"
    /\ LET v == ev[e]  o == Of(v.component, override["user"]) IN
       IF v.kind = "gate" /\ o # None THEN Answers(e, o.enabled)
       ELSE To(e, FromTenant(v.kind, v.component, o)) /\ UNCHANGED held

EvalTenant(e) ==
    /\ ev[e].pc = "tenant"
    /\ LET v == ev[e]  o == Of(v.component, override["tenant"]) IN
       IF v.kind = "gate" /\ o # None THEN Answers(e, o.enabled)
       ELSE To(e, [pc |-> "plan", kind |-> v.kind, component |-> v.component,
                    user |-> v.user, tenant |-> o])
            /\ UNCHANGED held

EvalPlan(e) ==
    /\ ev[e].pc = "plan"
    /\ LET v == ev[e] IN Answers(e, Decided(v.component, v.user, v.tenant, plan))

Reads(c) ==
    \/ \E d, a \in BOOLEAN, r \in SUBSET Plan : CreateRead(c, d, a, r)
    \/ \E v \in BOOLEAN : UpdateRead(c, "active", v) \/ UpdateRead(c, "default", v)
    \/ \E r \in SUBSET Plan : UpdateRead(c, "required", r)
    \/ DeleteRead(c)
    \/ \E s \in Scope : \E by \in Actor(s), v \in BOOLEAN : SetRead(c, s, by, v)
    \/ \E s \in Scope : ClearRead(c, s)

Writes(c) ==
    \/ CreateWrite(c) \/ UpdateWrite(c) \/ DeleteWrite(c)
    \/ SetUserWrite(c) \/ SetTenantWrite(c) \/ ClearUserWrite(c) \/ ClearTenantWrite(c)

EntitlementsNext ==
    \/ \E c \in Call : Reads(c) \/ (at[c] = "write" /\ Writes(c)) \/ Rollback(c)
    \/ PlanChanges
    \/ \E e \in Eval :
        \/ \E kind \in {"gate", "list", "tenant"} : EvalComponent(e, kind)
        \/ EvalUser(e) \/ EvalTenant(e) \/ EvalPlan(e)
EntitlementsSpec == EntitlementsInit /\ [][EntitlementsNext]_entitlementVars

-----------------------------------------------------------------------------
(* Properties.                                                             *)

EntitlementsTypeOK ==
    /\ component \in ProductComponent \cup {None}
    /\ override \in [Scope -> Override \cup {None}]
    /\ plan \in Plan \cup {None}
    /\ at \in [Call -> {"idle", "write", "ended", "left"}]
    /\ readAt \in [Call -> Nat] /\ wroteAt \in [Call -> Nat]
    /\ \A e \in Eval : ev[e].pc \in {"idle", "user", "tenant", "plan", "ended"}
    /\ held \in [Eval -> SUBSET BOOLEAN] /\ changes \in [Eval -> Nat]

Overlap(c, d) == readAt[c] < wroteAt[d] /\ readAt[d] < wroteAt[c]

\* component.py user_has_component_access, user_effective_components and
\* tenant_effective_components: an answer was right at some time while it was
\* made, unless the tables changed at least twice under it, or the component was
\* deleted under it and took the override with it that denied the access.
AnswerHeldUnlessTorn ==
    \A e \in Eval : ev[e].pc = "ended" =>
        \/ ev[e].answer \in held[e]
        \/ changes[e] >= 2
        \/ \E c \in Committed : asked[c].op = "delete" /\ got[c].id = ev[e].component.id

\* models/component.py, the foreign keys with ON DELETE CASCADE: whatever
\* overlaps a deletion, no override is left for a component that is gone, so
\* none comes back to life with a component of the same code.
NoOrphanedOverride ==
    \A s \in Scope : override[s] # None => component # None /\ override[s].component = component.id

\* component.py set_user_override, set_tenant_override: an override is what
\* the call that wrote it last was asked for, unless that call overlapped
\* another of the same override.
OverrideIsTheLastSet ==
    \A s \in Scope : override[s] # None =>
        LET Sets == {c \in Committed : asked[c].op = "set" /\ asked[c].scope = s
                                       /\ got[c].component = override[s].component}
            Last(c) == \A d \in Sets : wroteAt[d] <= wroteAt[c]
        IN \A c \in Sets : Last(c) =>
             override[s].enabled = asked[c].enabled \/ \E d \in Sets \ {c} : Overlap(c, d)

\* component.py, models/component.py: the override rows are what was last asked
\* for, and none is left without its component.
OverridesHold == EntitlementsTypeOK /\ NoOrphanedOverride /\ OverrideIsTheLastSet
=============================================================================
