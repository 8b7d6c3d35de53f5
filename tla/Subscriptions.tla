--------------------------- MODULE Subscriptions ----------------------------
(***************************************************************************)
(* One tenant's subscription: the handlers of app/services/subscription.py *)
(* and app/services/billing.py, the billing webhook and the hourly grace   *)
(* sweep, run by concurrent database sessions against one row of           *)
(* `subscriptions`, the tenant's `invoices` and the payment provider.      *)
(*                                                                         *)
(* No handler locks the row.  Each loads it once, calls the provider where *)
(* the code does, and at the end writes the columns it changed: SQLAlchemy *)
(* emits UPDATE only for attributes whose value differs from the one       *)
(* loaded.  The UPDATE, the credit grants (deduped by reference while the  *)
(* row lock of that UPDATE is held) and the COMMIT are one step here.      *)
(*                                                                         *)
(* All of it happens within one billing period: the period's dates, which  *)
(* only enter the references of grants, are left out.                      *)
(***************************************************************************)
EXTENDS Naturals, FiniteSets, FiniteSetsExt, Bags

CONSTANTS
    Session,          \* database sessions that may be open at once
    MaxOpen,          \* bound: sessions really open at once (1 = serial)
    Plan, FreePlans,  \* plans; those with price_cents = 0
    PSub,             \* provider subscription ids (bounds purchases)
    Invoice,          \* provider invoice ids
    InvoiceOf,        \* the provider subscription an invoice bills, if any
    Key, NoKey,       \* Idempotency-Key values; a call without one
    ProviderDedupes,  \* Stripe honours the key, the mock driver ignores it
    GraceDays,        \* days a grace period lasts
    MaxAttempts,      \* bound: failed attempts of an invoice told apart
    Requests,         \* what may be asked for
    None              \* SQL NULL, a missing row, a missing provider id

\* "expired" exists in the code's enum and is never assigned.
Status == {"trial", "active", "past_due", "grace", "suspended", "cancelled"}
HasAccess(st) == st \in {"trial", "active", "past_due", "grace"}

\* plan and key, at_period_end, or the invoice an event is about.
Request ==
    [kind: {"trial", "change"}, plan: Plan]
    \cup [kind: {"purchase"}, plan: Plan, key: Key \cup {NoKey}]
    \cup [kind: {"cancel"}, atEnd: BOOLEAN]
    \cup [kind: {"failed", "paid"}, invoice: Invoice]
    \cup [kind: {"sweep"}]

\* A row of subscriptions.  graceLeft is grace_ends_at in days from
\* now; trial_end is left out: it is written and never read.
Row == [status: Status, plan: Plan,
        graceLeft: {None} \cup 0..GraceDays,
        cancelAtEnd: BOOLEAN, psub: PSub \cup {None}]
InvoiceRow == [status: {"open", "paid"}, attempts: 0..MaxAttempts]
\* The key and the plan it was created with, whatever it was changed to since.
ProviderSub == [state: {"live", "cancelled"}, key: Key \cup {NoKey}, plan: Plan]

\* A reference passed to grant_plan_credits, with the plan it grants.
Grant == [ref: {<<"trial">>} \cup ({"period"} \X PSub) \cup ({"change"} \X Plan),
          plan: Plan]

ASSUME ConstantsAssumption ==
    /\ Requests \subseteq Request
    /\ InvoiceOf \in [Invoice -> PSub \cup {None}] /\ FreePlans \subseteq Plan
    /\ GraceDays \in Nat /\ MaxAttempts \in Nat

\* NULL is none of the values there can be.
ASSUME NoneAssumption ==
    None \notin Request \cup Row \cup InvoiceRow \cup ProviderSub \cup PSub \cup 0..GraceDays

VARIABLES
    row,       \* the committed subscription row, or None
    invoices,  \* committed invoice rows, or None
    issued,    \* bag of the credit grants committed
    failed,    \* by invoice: failure events committed, up to MaxAttempts
    provider,  \* what the provider knows of each subscription id
    pc,        \* per session: idle, created, loaded or ready
    req,       \* the request a session serves
    got,       \* the row it loaded
    gotInv,    \* the invoice it loaded
    psub       \* the provider subscription its purchase created

vars == <<row, invoices, issued, failed, provider, pc, req, got, gotInv, psub>>
tables == <<row, invoices, issued, failed>>

Init ==
    /\ row = None
    /\ invoices = [i \in Invoice |-> None]
    /\ issued = EmptyBag
    /\ failed = [i \in Invoice |-> 0]
    /\ provider = [p \in PSub |-> None]
    /\ pc = [s \in Session |-> "idle"]
    /\ req = [s \in Session |-> None]
    /\ got = [s \in Session |-> None]
    /\ gotInv = [s \in Session |-> None]
    /\ psub = [s \in Session |-> None]

Open == {s \in Session : pc[s] # "idle"}

\* The session ends; its private copies are gone.
End(s) ==
    /\ pc' = [pc EXCEPT ![s] = "idle"]
    /\ req' = [req EXCEPT ![s] = None]
    /\ got' = [got EXCEPT ![s] = None]
    /\ gotInv' = [gotInv EXCEPT ![s] = None]
    /\ psub' = [psub EXCEPT ![s] = None]

\* The handler raised, or the process died: rollback.  What the provider
\* was told is not undone.
Rollback(s) ==
    /\ pc[s] # "idle"
    /\ End(s)
    /\ UNCHANGED <<tables, provider>>

\* The subscription a request works on, as its SELECT sees it.
Found(r) ==
    CASE r.kind \in {"failed", "paid"} ->
           IF row # None /\ row.psub = InvoiceOf[r.invoice] THEN row ELSE None
      [] r.kind = "sweep" ->
           IF row # None /\ row.status = "grace" /\ row.graceLeft = 0 THEN row ELSE None
      [] OTHER -> row

\* The early returns and errors right after the SELECT: Conflict for a second
\* trial or the same plan, NotFound, an event for an unknown subscription
\* (answered 200 and dropped), nothing to sweep.
StopsAtLoad(r) ==
    \/ r.kind = "trial" /\ Found(r) # None
    \/ r.kind \notin {"trial", "purchase"} /\ Found(r) = None
    \/ r.kind = "change" /\ Found(r) # None /\ Found(r).plan = r.plan

\* The SELECT of a request that goes on; only some then call out or load more.
Load(s, r) ==
    /\ got' = [got EXCEPT ![s] = Found(r)]
    /\ pc' = [pc EXCEPT ![s] =
                 IF r.kind \in {"change", "cancel", "failed", "paid"} THEN "loaded" ELSE "ready"]
    /\ UNCHANGED <<tables, provider, gotInv, psub>>

\* The provider sends events only for invoices it has: of a subscription it
\* created, or of none (a one-off invoice, "subscription": null).
Billed(i) == InvoiceOf[i] = None \/ \E p \in PSub : p = InvoiceOf[i] /\ provider[p] # None

\* A request that starts with its SELECT.
Begin(s, r) ==
    /\ pc[s] = "idle" /\ Cardinality(Open) < MaxOpen
    /\ r.kind # "purchase"
    /\ r.kind \in {"failed", "paid"} => Billed(r.invoice)
    /\ ~StopsAtLoad(r)
    /\ req' = [req EXCEPT ![s] = r]
    /\ Load(s, r)

\* The provider has answered a call with this key before.
Replays(r) ==
    ProviderDedupes /\ r.key # NoKey /\ \E p \in PSub : provider[p] # None /\ provider[p].key = r.key

\* purchase starts with provider.create_subscription.  Stripe answers a key
\* that comes again as it did before, and refuses it with other parameters.
BeginPurchase(s, r) ==
    /\ pc[s] = "idle" /\ Cardinality(Open) < MaxOpen
    /\ r.kind = "purchase"
    /\ \E p \in PSub :
          /\ IF Replays(r)
             THEN /\ provider[p] # None /\ provider[p].key = r.key /\ provider[p].plan = r.plan
                  /\ provider' = provider
             ELSE /\ provider[p] = None
                  /\ provider' = [provider EXCEPT ![p] =
                                    [state |-> "live", key |-> r.key, plan |-> r.plan]]
          /\ psub' = [psub EXCEPT ![s] = p]
    /\ pc' = [pc EXCEPT ![s] = "created"]
    /\ req' = [req EXCEPT ![s] = r]
    /\ UNCHANGED <<tables, got, gotInv>>

LoadForPurchase(s) ==
    /\ pc[s] = "created"
    /\ Load(s, req[s])
    /\ UNCHANGED req

\* Mutant of CallProvider: cancel is not passed on.
CallProviderForChange(s) ==
    /\ pc[s] = "loaded" /\ req[s].kind \in {"change", "cancel"}
    /\ pc' = [pc EXCEPT ![s] = "ready"]
    /\ UNCHANGED <<tables, provider, req, got, gotInv, psub>>

\* change_subscription / cancel_subscription at the provider, when the row
\* has a provider id.
CallProvider(s) ==
    /\ pc[s] = "loaded" /\ req[s].kind \in {"change", "cancel"}
    /\ provider' = IF req[s].kind = "cancel" /\ ~req[s].atEnd /\ got[s].psub # None
                   THEN [provider EXCEPT ![got[s].psub].state = "cancelled"]
                   ELSE provider
    /\ pc' = [pc EXCEPT ![s] = "ready"]
    /\ UNCHANGED <<tables, req, got, gotInv, psub>>

\* record_invoice's SELECT.
LoadInvoice(s) ==
    /\ pc[s] = "loaded" /\ req[s].kind \in {"failed", "paid"}
    /\ gotInv' = [gotInv EXCEPT ![s] = invoices[req[s].invoice]]
    /\ pc' = [pc EXCEPT ![s] = "ready"]
    /\ UNCHANGED <<tables, provider, req, got, psub>>

\* The invoice a webhook leaves: record_invoice, then the attempt counter or
\* the payment.
NewInvoice(s) ==
    LET old == IF gotInv[s] = None THEN [status |-> "open", attempts |-> 0] ELSE gotInv[s]
    IN  IF req[s].kind = "paid" THEN [old EXCEPT !.status = "paid"]
        ELSE [status |-> "open", attempts |-> Min({old.attempts + 1, MaxAttempts})]

\* enter_grace_period.
EnterGrace(old) ==
    IF old.status \in {"suspended", "cancelled"} THEN old
    ELSE [old EXCEPT !.status = "grace", !.graceLeft = GraceDays]

\* Mutants of AfterFailure: grace after two failures; the third failure cuts
\* access; a subscription in grace is not left alone.
AfterSecondFailure(old, attempts) ==
    IF old.status \in {"grace", "suspended"} THEN old
    ELSE IF attempts >= 2 THEN EnterGrace(old)
    ELSE [old EXCEPT !.status = "past_due"]
SuspendAtThirdFailure(old, attempts) ==
    IF old.status \in {"grace", "suspended"} THEN old
    ELSE [old EXCEPT !.status = IF attempts >= 3 THEN "suspended" ELSE "past_due"]
FailureExtendsGrace(old, attempts) ==
    IF old.status = "suspended" THEN old
    ELSE IF attempts >= 3 THEN EnterGrace(old)
    ELSE [old EXCEPT !.status = "past_due"]

\* handle_payment_failed.
AfterFailure(old, attempts) ==
    IF old.status \in {"grace", "suspended"} THEN old
    ELSE IF attempts >= 3 THEN EnterGrace(old)
    ELSE [old EXCEPT !.status = "past_due"]

\* handle_payment_succeeded.
AfterPayment(old) ==
    IF old.status \in {"past_due", "grace", "suspended"}
    THEN [old EXCEPT !.status = "active", !.graceLeft = None]
    ELSE old

\* start_trial: a free plan is active at once.
TrialRow(p) ==
    [status |-> IF p \in FreePlans THEN "active" ELSE "trial", plan |-> p,
     graceLeft |-> None, cancelAtEnd |-> FALSE, psub |-> None]

\* purchase: the same fields for a new row and for an existing one.
PurchasedRow(s) ==
    [status |-> "active", plan |-> req[s].plan,
     graceLeft |-> None, cancelAtEnd |-> FALSE, psub |-> psub[s]]

\* Mutant of ChangedRow: a change of plan activates like a purchase.
ChangedRowActivating(s) == [got[s] EXCEPT !.plan = req[s].plan, !.status = "active"]

\* change_plan.
ChangedRow(s) == [got[s] EXCEPT !.plan = req[s].plan]

\* cancel: at the period's end nothing but the flag changes now.
CancelledRow(s) ==
    IF req[s].atEnd THEN [got[s] EXCEPT !.cancelAtEnd = TRUE]
    ELSE [got[s] EXCEPT !.status = "cancelled"]

\* The row as the session's object stands when the handler returns.
NewRow(s) ==
    CASE req[s].kind = "trial"    -> TrialRow(req[s].plan)
      [] req[s].kind = "purchase" -> PurchasedRow(s)
      [] req[s].kind = "change"   -> ChangedRow(s)
      [] req[s].kind = "cancel"   -> CancelledRow(s)
      [] req[s].kind = "failed"   -> AfterFailure(got[s], NewInvoice(s).attempts)
      [] req[s].kind = "paid"     -> AfterPayment(got[s])
      [] req[s].kind = "sweep"    -> [got[s] EXCEPT !.status = "suspended"]

\* The UPDATE of the columns that differ from the loaded ones.
Merge(old, new, now) ==
    [c \in DOMAIN now |-> IF new[c] # old[c] THEN new[c] ELSE now[c]]

\* The row after a session's UPDATE.  A new grace deadline is a new timestamp:
\* it always differs.
MergedRow(s) ==
    LET new == NewRow(s)
        enters == new.status = "grace" /\ got[s].status # "grace"
    IN  [Merge(got[s], new, row) EXCEPT !.graceLeft = IF enters THEN new.graceLeft ELSE @]

\* The grant a handler asks grant_plan_credits for.
GrantOf(s) ==
    [plan |-> req[s].plan,
     ref |-> CASE req[s].kind = "trial"    -> <<"trial">>
               [] req[s].kind = "purchase" -> <<"period", psub[s]>>
               [] req[s].kind = "change"   -> <<"change", req[s].plan>>]

\* The invoice after a session's UPDATE; a new count always differs.
MergedInvoice(s) ==
    LET new == NewInvoice(s)
    IN  [Merge(gotInv[s], new, invoices[req[s].invoice])
            EXCEPT !.attempts = IF req[s].kind = "failed" THEN new.attempts ELSE @]

\* Mutant of GrantsNow: no dedupe.
GrantsAlways(s) == req[s].kind \in {"trial", "purchase", "change"}
\* credit.grant's dedupe: the reference is new to the journal.
GrantsNow(s) ==
    /\ req[s].kind \in {"trial", "purchase", "change"}
    /\ \A g \in BagToSet(issued) : g.ref # GrantOf(s).ref

IsEvent(s) == req[s].kind \in {"failed", "paid"}

\* A unique key refuses the INSERT: somebody else created the row meanwhile.
InsertRefused(s) ==
    \/ got[s] = None /\ row # None
    \/ IsEvent(s) /\ gotInv[s] = None /\ invoices[req[s].invoice] # None

\* UPDATE or INSERT, the grants, COMMIT.
Commit(s) ==
    /\ pc[s] = "ready" /\ ~InsertRefused(s)
    /\ row' = IF got[s] = None THEN NewRow(s) ELSE MergedRow(s)
    /\ invoices' = IF IsEvent(s)
                   THEN [invoices EXCEPT ![req[s].invoice] =
                           IF gotInv[s] = None THEN NewInvoice(s)
                           ELSE MergedInvoice(s)]
                   ELSE invoices
    /\ issued' = IF GrantsNow(s) THEN issued (+) SetToBag({GrantOf(s)}) ELSE issued
    /\ failed' = IF req[s].kind = "failed"
                 THEN [failed EXCEPT ![req[s].invoice] = Min({@ + 1, MaxAttempts})]
                 ELSE failed
    /\ End(s)
    /\ UNCHANGED <<provider>>

\* A day passes: the deadline comes closer.  No request stays open that long.
NextDay ==
    /\ Open = {} /\ row # None /\ row.graceLeft \notin {None, 0}
    /\ row' = [row EXCEPT !.graceLeft = @ - 1]
    /\ UNCHANGED <<invoices, issued, failed, provider, pc, req, got, gotInv, psub>>

Start(s) == \E r \in Requests : Begin(s, r) \/ BeginPurchase(s, r)
Continue(s) == LoadForPurchase(s) \/ CallProvider(s) \/ LoadInvoice(s) \/ Commit(s)

Next ==
    \/ \E s \in Session : Start(s) \/ Continue(s) \/ Rollback(s)
    \/ NextDay

Spec == Init /\ [][Next]_vars

\* Time passes and a begun request goes on; the hourly sweep is started and,
\* however often it is rolled back, one of its runs commits.
Sweeps(s) == \E r \in Requests : r.kind = "sweep" /\ Begin(s, r)
SweepCommits(s) == req[s] # None /\ req[s].kind = "sweep" /\ Commit(s)
FairSpec ==
    /\ Spec
    /\ SF_vars(NextDay)
    /\ \A s \in Session : WF_vars(Continue(s))
    /\ SF_vars(\E s \in Session : Sweeps(s))
    /\ SF_vars(\E s \in Session : SweepCommits(s))

-----------------------------------------------------------------------------
(***************************************************************************)
(* Properties.                                                             *)
(***************************************************************************)

\* Types of the tables, the provider and every session.
TypeOK ==
    /\ row \in Row \cup {None}
    /\ invoices \in [Invoice -> InvoiceRow \cup {None}]
    /\ IsABag(issued) /\ BagToSet(issued) \subseteq Grant
    /\ failed \in [Invoice -> 0..MaxAttempts]
    /\ provider \in [PSub -> ProviderSub \cup {None}]
    /\ pc \in [Session -> {"idle", "created", "loaded", "ready"}]
    /\ req \in [Session -> Requests \cup {None}]
    /\ got \in [Session -> Row \cup {None}]
    /\ gotInv \in [Session -> InvoiceRow \cup {None}]
    /\ psub \in [Session -> PSub \cup {None}]

Exists == row # None
Commits(s, kinds) == pc[s] = "ready" /\ req[s].kind \in kinds /\ Commit(s)

\* grant_plan_credits is replayed by purchases under one key, by repeated
\* changes and by sessions that overlap: every reference grants once.
OncePerReference ==
    \A g, h \in BagToSet(issued) : g.ref = h.ref => g = h /\ issued[g] = 1

\* Whatever purchases and changes overlap, replays included: the provider
\* subscription that the row names had its period granted, for the plan it was
\* created with.
PeriodIsGranted ==
    Exists /\ row.psub # None =>
        \E g \in BagToSet(issued) : g.ref = <<"period", row.psub>> /\ g.plan = provider[row.psub].plan

\* A tenant loses access only by an immediate cancel or by the grace sweep:
\* no order of billing events cuts it off (docs/billing.md:31).
AccessLostOnlyBySweepOrCancel ==
    [][Exists /\ HasAccess(row.status) /\ ~HasAccess(row'.status)
         => \E s \in Session : Commits(s, {"cancel", "sweep"})]_vars

\* services/billing.py handle_payment_failed: a subscription enters grace only
\* when three failure events of one invoice have been committed, although
\* events overlap, overwrite each other's count and come after a payment.  They
\* need not be three failures: a redelivered event is an event.
GraceAfterThirdFailure ==
    [][Exists /\ row.status # "grace" /\ row'.status = "grace"
         => \E i \in Invoice : failed'[i] >= 3]_vars

\* Another's commit has changed the row since the session loaded it.
Stale(s) == got[s] # row

\* tasks/worker.py task_check_grace_period: what suspends is a sweep, and what
\* it suspends is in lapsed grace, or had been when the sweep loaded it.
SuspendedFromLapsedGrace ==
    [][Exists /\ row.status # "suspended" /\ row'.status = "suspended"
         => \E s \in Session : /\ Commits(s, {"sweep"})
                               /\ Stale(s) \/ (row.status = "grace" /\ row.graceLeft = 0)]_vars

\* A suspended tenant gets access back only by paying an invoice, by a purchase,
\* or by a session that had loaded the row before it was suspended; changing
\* plans does not help.
SuspensionEndsByPayment ==
    [][Exists /\ row.status = "suspended" /\ HasAccess(row'.status)
         => \E s \in Session :
              Commits(s, {"paid", "purchase"}) \/ (pc[s] = "ready" /\ Commit(s) /\ Stale(s))]_vars

\* A tenant who has paid or purchased has access, unless the row was changed
\* while that went on, or the subscription was cancelled before it was paid.
PaymentGivesAccess ==
    [][\A s \in Session : Commits(s, {"paid", "purchase"})
         => \/ HasAccess(row'.status) \/ Stale(s)
            \/ req[s].kind = "paid" /\ row.status = "cancelled"]_vars

\* services/subscription.py, services/billing.py: access is lost to a lapsed
\* grace period and comes back by paying, but for sessions whose copy of the row
\* another commit has made stale.
SuspensionHolds == SuspendedFromLapsedGrace /\ SuspensionEndsByPayment /\ PaymentGivesAccess

\* One request at a time: grace always carries the deadline that ends it.
GraceHasDeadline == Exists /\ row.status = "grace" => row.graceLeft # None

\* One request at a time, crashes included: what the tenant sees cancelled is
\* no longer charged by the provider.
CancelledIsNotCharged ==
    Exists /\ row.status = "cancelled" /\ row.psub # None => provider[row.psub].state = "cancelled"

\* Grace comes to an end: by the sweep if by nothing else.
GraceEnds == (Exists /\ row.status = "grace") ~> ~(Exists /\ row.status = "grace")

\* One request at a time, crashes included: the subscription's columns and the
\* provider's agree (models/subscription.py, services/subscription.py cancel).
Coherent == TypeOK /\ GraceHasDeadline /\ CancelledIsNotCharged

\* services/subscription.py grant_plan_credits: whatever overlaps, a reference
\* grants once, and the period of the subscription that is charged was granted.
PurchasesAddUp == OncePerReference /\ PeriodIsGranted
=============================================================================
