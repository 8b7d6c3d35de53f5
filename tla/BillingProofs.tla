--------------------------- MODULE BillingProofs ----------------------------
(***************************************************************************)
(* Proofs about Subscriptions, for every set of plans, requests, sessions  *)
(* and provider ids, and about Reminders, for any invoices, due days,      *)
(* calendar and number of overlapping or repeated runs.                    *)
(*                                                                         *)
(* Subscriptions: IInv holds however many sessions overlap.  Its heart is  *)
(* that a grant's reference tells the plan it was for (Meant): a period is *)
(* that of a provider subscription, and the provider knows the plan it was *)
(* created with.  So a grant refused as a duplicate was made for the same  *)
(* plan.  And however counts are overwritten, an invoice never counts more *)
(* failures than were committed (Counted).  SerialInv adds what holds when *)
(* sessions come one at a time: a session's copy of the row is the row     *)
(* (Fresh), and the UPDATE writes the object as it stands.                 *)
(***************************************************************************)
EXTENDS Subscriptions, Reminders, FiniteSetTheorems, TLAPS

Event(r) == r.kind \in {"failed", "paid"}
Buys(r) == r.kind = "purchase"

\* What a session holds fits the request it serves.
Serves(s) ==
    /\ pc[s] # "idle" => req[s] \in Request
    /\ pc[s] = "created" => Buys(req[s])
    /\ pc[s] = "loaded" => req[s].kind \in {"change", "cancel", "failed", "paid"}
Loaded(s) == pc[s] \in {"loaded", "ready"}
\* A row that was loaded is there for good; what it names, the provider knows.
Holds(s) == Loaded(s) =>
    /\ got[s] = None => req[s].kind \in {"trial", "purchase"}
    /\ got[s] # None =>
        /\ row # None /\ req[s].kind # "trial"
        /\ got[s].psub # None => provider[got[s].psub] # None
    /\ req[s].kind = "change" => got[s].plan # req[s].plan
    /\ req[s].kind = "sweep" => got[s].status = "grace" /\ got[s].graceLeft = 0
\* Whatever was overwritten, a count is of failures that were committed.
HoldsInvoice(s) ==
    pc[s] = "ready" /\ Event(req[s]) /\ gotInv[s] # None =>
        invoices[req[s].invoice] # None /\ gotInv[s].attempts <= failed[req[s].invoice]
Counted == \A i \in Invoice : invoices[i] # None => invoices[i].attempts <= failed[i]
\* A purchase has a provider subscription, created for the plan it buys.
Bought(p, plan) == provider[p] # None /\ provider[p].plan = plan
HasBought(s) == pc[s] # "idle" /\ Buys(req[s]) => psub[s] \in PSub /\ Bought(psub[s], req[s].plan)
ProviderKnows == Exists /\ row.psub # None => provider[row.psub] # None

\* A reference tells the plan it grants.
Meant(g) ==
    /\ \A p \in PSub : g.ref = <<"period", p>> => Bought(p, g.plan)
    /\ \A p \in Plan : g.ref = <<"change", p>> => g.plan = p
Journal ==
    /\ \A g \in BagToSet(issued) : Meant(g)
    /\ PurchasesAddUp

IInv ==
    /\ TypeOK /\ ProviderKnows /\ Counted /\ Journal
    /\ \A s \in Session : Serves(s) /\ Holds(s) /\ HoldsInvoice(s) /\ HasBought(s)

\* One session at a time: what it has loaded is what there is.
Alone == \A s, t \in Session : pc[s] # "idle" /\ pc[t] # "idle" => s = t
Fresh(s) == Loaded(s) =>
    /\ got[s] = row
    /\ req[s].kind = "sweep" => row.graceLeft = 0
    /\ req[s].kind = "cancel" /\ ~req[s].atEnd /\ pc[s] = "ready" /\ row.psub # None
        => provider[row.psub].state = "cancelled"
SerialInv == IInv /\ Alone /\ Coherent /\ \A s \in Session : Fresh(s)

LEMMA MinOfTwo ==
    ASSUME NEW a \in Nat, NEW b \in Nat
    PROVE  Min({a, b}) = IF a <= b THEN a ELSE b
<1>1. ASSUME NEW x \in {a, b}, \A y \in {a, b} : x <= y
      PROVE  Min({a, b}) = x
    BY <1>1 DEF Min
<1> QED BY <1>1

\* The UPDATE of a subscription's row, column by column.
LEMMA MergeOfRows ==
    ASSUME NEW old \in Row, NEW new \in Row, NEW now \in Row
    PROVE  LET m == Merge(old, new, now) IN
           m = [status      |-> IF new.status # old.status THEN new.status ELSE now.status,
                plan        |-> IF new.plan # old.plan THEN new.plan ELSE now.plan,
                graceLeft   |-> IF new.graceLeft # old.graceLeft THEN new.graceLeft ELSE now.graceLeft,
                cancelAtEnd |-> IF new.cancelAtEnd # old.cancelAtEnd THEN new.cancelAtEnd
                                ELSE now.cancelAtEnd,
                psub        |-> IF new.psub # old.psub THEN new.psub ELSE now.psub]
<1>1. DOMAIN now = {"status", "plan", "graceLeft", "cancelAtEnd", "psub"}
    BY DEF Row
<1> QED BY <1>1 DEF Merge

LEMMA Tuples ==
    ASSUME NEW p, NEW q
    PROVE  /\ <<"trial">> # <<"period", p>> /\ <<"trial">> # <<"change", p>>
           /\ <<"period", p>> # <<"change", q>>
           /\ <<"period", p>> = <<"period", q>> => p = q
    OBVIOUS

LEMMA RequestKinds ==
    ASSUME NEW r \in Request
    PROVE  /\ r.kind \in {"trial", "change", "purchase", "cancel", "failed", "paid", "sweep"}
           /\ r.kind \in {"trial", "change", "purchase"} => r.plan \in Plan
           /\ r.kind = "purchase" => r.key \in Key \cup {NoKey}
           /\ r.kind = "cancel" => r.atEnd \in BOOLEAN
           /\ r.kind \in {"failed", "paid"} => r.invoice \in Invoice
    BY DEF Request

LEMMA OneMore ==
    ASSUME IsABag(issued), NEW x, x \notin BagToSet(issued)
    PROVE  LET b == issued (+) SetToBag({x}) IN
           /\ IsABag(b) /\ BagToSet(b) = BagToSet(issued) \cup {x}
           /\ b[x] = 1
           /\ \A g \in BagToSet(issued) : b[g] = issued[g]
    BY DEF IsABag, BagToSet, SetToBag, (+)
-----------------------------------------------------------------------------
(* What the handlers leave.                                                *)

\* The failures committed, once this event is.
Sum(i) == Min({failed[i] + 1, MaxAttempts})
LEMMA NewInvoiceType ==
    ASSUME IInv, NEW s \in Session, pc[s] = "ready", Event(req[s])
    PROVE  /\ NewInvoice(s) \in InvoiceRow
           /\ req[s].kind = "failed" => NewInvoice(s).attempts <= Sum(req[s].invoice)
           /\ req[s].kind = "paid" => NewInvoice(s).attempts <= failed[req[s].invoice]
<1>1. gotInv[s] \in InvoiceRow \cup {None} /\ req[s] \in Request
    BY DEF IInv, TypeOK, Serves
<1> DEFINE old == IF gotInv[s] = None THEN [status |-> "open", attempts |-> 0] ELSE gotInv[s]
<1>2. old \in InvoiceRow
    BY <1>1, ConstantsAssumption DEF InvoiceRow
<1> DEFINE now == failed[req[s].invoice]
<1>3. /\ old.attempts \in Nat /\ old.attempts + 1 \in Nat /\ MaxAttempts \in Nat
      /\ now \in Nat /\ now + 1 \in Nat /\ old.attempts <= now
    <2>1. req[s].invoice \in Invoice
        BY <1>1, RequestKinds DEF Event
    <2>2. now \in 0..MaxAttempts
        BY <2>1 DEF IInv, TypeOK
    <2>3. gotInv[s] # None => gotInv[s].attempts <= now
        BY DEF IInv, HoldsInvoice
    <2> QED BY <1>2, <2>2, <2>3, ConstantsAssumption DEF InvoiceRow
<1> HIDE DEF old, now
<1>4. /\ Min({old.attempts + 1, MaxAttempts}) \in 0..MaxAttempts
      /\ Min({old.attempts + 1, MaxAttempts}) <= Min({now + 1, MaxAttempts})
    BY <1>3, MinOfTwo
<1>5. CASE req[s].kind = "paid"
    <2>1. NewInvoice(s) = [old EXCEPT !.status = "paid"]
        BY <1>5 DEF NewInvoice, old
    <2> QED BY <2>1, <1>2, <1>3, <1>5 DEF InvoiceRow, now
<1>6. CASE req[s].kind = "failed"
    <2>1. NewInvoice(s) = [status |-> "open", attempts |-> Min({old.attempts + 1, MaxAttempts})]
        BY <1>6 DEF NewInvoice, old
    <2> QED BY <2>1, <1>4, <1>6 DEF InvoiceRow, Sum, now
<1> QED BY <1>5, <1>6 DEF Event

LEMMA RowTypes ==
    ASSUME IInv, NEW s \in Session
    PROVE  /\ got[s] \in Row \cup {None} /\ row \in Row \cup {None}
           /\ got[s] # None => got[s] \in Row
           /\ row # None => row \in Row
    BY DEF IInv, TypeOK

LEMMA FailureFacts ==
    ASSUME NEW o \in Row, NEW a \in Nat
    PROVE  LET n == AfterFailure(o, a) IN
           /\ n \in Row /\ n.plan = o.plan /\ n.psub = o.psub
           /\ n.status \in {"past_due", "grace"} \/ n.status = o.status
           /\ n.status = "grace" /\ o.status # "grace" => a >= 3 /\ n.graceLeft = GraceDays
           /\ o.status = "suspended" => n.status = "suspended"
           /\ n.status = o.status => n.graceLeft = o.graceLeft
<1>1. GraceDays \in 0..GraceDays
    BY ConstantsAssumption
<1> QED BY <1>1 DEF AfterFailure, EnterGrace, Row, Status

LEMMA PaymentFacts ==
    ASSUME NEW o \in Row
    PROVE  LET n == AfterPayment(o) IN
           /\ n \in Row /\ n.plan = o.plan /\ n.psub = o.psub
           /\ \/ n.status = "active" /\ n.graceLeft = None
              \/ /\ n.status = o.status /\ n.graceLeft = o.graceLeft
                 /\ n.status \in {"trial", "active", "cancelled"}
    BY DEF AfterPayment, Row, Status

LEMMA NewRowFacts ==
    ASSUME IInv, NEW s \in Session, pc[s] = "ready"
    PROVE  LET n == NewRow(s)  k == req[s].kind  o == got[s] IN
           /\ n \in Row
           /\ k \in {"trial", "purchase", "change"} => n.plan = req[s].plan
           /\ k \notin {"trial", "purchase", "change"} => n.plan = o.plan
           /\ k = "purchase" => n.psub = psub[s] /\ n.status = "active" /\ n.graceLeft = None
           /\ k = "trial" => n.psub = None /\ n.status \in {"active", "trial"}
           /\ k \notin {"trial", "purchase"} => o # None /\ n.psub = o.psub
           /\ k = "change" => n.status = o.status
           /\ k = "cancel" => n.status = IF req[s].atEnd THEN o.status ELSE "cancelled"
           /\ k = "sweep" => n.status = "suspended" /\ n.graceLeft = o.graceLeft
           /\ k \in {"change", "cancel"} => n.graceLeft = o.graceLeft
           /\ k = "failed" =>
                /\ n.status \in {"past_due", "grace"} \/ n.status = o.status
                /\ n.status = "grace" /\ o.status # "grace" =>
                    NewInvoice(s).attempts >= 3 /\ n.graceLeft = GraceDays
                /\ o.status = "suspended" => n.status = "suspended"
                /\ n.status = o.status => n.graceLeft = o.graceLeft
           /\ k = "paid" =>
                \/ n.status = "active" /\ n.graceLeft = None
                \/ /\ n.status = o.status /\ n.graceLeft = o.graceLeft
                   /\ n.status \in {"trial", "active", "cancelled"}
<1> DEFINE k == req[s].kind
<1>1. /\ req[s] \in Request /\ got[s] \in Row \cup {None}
      /\ got[s] = None => k \in {"trial", "purchase"}
      /\ k = "purchase" => psub[s] \in PSub
    BY RowTypes DEF IInv, Serves, Holds, Loaded, HasBought, Buys
<1>2. GraceDays \in 0..GraceDays
    BY ConstantsAssumption
<1>3. CASE k = "trial"
    BY <1>1, <1>3, RequestKinds DEF NewRow, TrialRow, Row, Status
<1>4. CASE k = "purchase"
    BY <1>1, <1>4, RequestKinds DEF NewRow, PurchasedRow, Row, Status
<1>5. CASE k = "change"
    BY <1>1, <1>5, RequestKinds DEF NewRow, ChangedRow, Row, Status
<1>6. CASE k = "cancel"
    BY <1>1, <1>6, RequestKinds DEF NewRow, CancelledRow, Row, Status
<1>7. CASE k = "failed"
    <2>1. got[s] \in Row /\ NewRow(s) = AfterFailure(got[s], NewInvoice(s).attempts)
        BY <1>1, <1>7 DEF NewRow
    <2>2. NewInvoice(s).attempts \in Nat
        BY <1>7, NewInvoiceType, ConstantsAssumption DEF Event, InvoiceRow
    <2> QED BY <1>7, <1>1, <2>1, <2>2, FailureFacts
<1>8. CASE k = "paid"
    <2>1. got[s] \in Row /\ NewRow(s) = AfterPayment(got[s])
        BY <1>1, <1>8 DEF NewRow
    <2> QED BY <1>8, <1>1, <2>1, PaymentFacts
<1>9. CASE k = "sweep"
    BY <1>1, <1>9 DEF NewRow, Row, Status
<1> QED BY <1>1, <1>3, <1>4, <1>5, <1>6, <1>7, <1>8, <1>9, RequestKinds

\* The row after an UPDATE, column by column.
LEMMA MergedFacts ==
    ASSUME IInv, NEW s \in Session, pc[s] = "ready", got[s] # None
    PROVE  LET m == MergedRow(s)  n == NewRow(s)  o == got[s] IN
           /\ m \in Row /\ row \in Row
           /\ m.status = IF n.status # o.status THEN n.status ELSE row.status
           /\ m.plan = IF n.plan # o.plan THEN n.plan ELSE row.plan
           /\ m.psub = IF n.psub # o.psub THEN n.psub ELSE row.psub
           /\ m.graceLeft = IF n.status = "grace" /\ o.status # "grace" THEN n.graceLeft
                            ELSE IF n.graceLeft # o.graceLeft THEN n.graceLeft ELSE row.graceLeft
<1> DEFINE n == NewRow(s)
           m == Merge(got[s], n, row)
<1>1. n \in Row /\ got[s] \in Row /\ row \in Row
    BY RowTypes, NewRowFacts DEF IInv, Holds, Loaded
<1> HIDE DEF n
<1>2. m = [status      |-> IF n.status # got[s].status THEN n.status ELSE row.status,
           plan        |-> IF n.plan # got[s].plan THEN n.plan ELSE row.plan,
           graceLeft   |-> IF n.graceLeft # got[s].graceLeft THEN n.graceLeft ELSE row.graceLeft,
           cancelAtEnd |-> IF n.cancelAtEnd # got[s].cancelAtEnd THEN n.cancelAtEnd
                           ELSE row.cancelAtEnd,
           psub        |-> IF n.psub # got[s].psub THEN n.psub ELSE row.psub]
    BY <1>1, MergeOfRows
<1>3. MergedRow(s) = [m EXCEPT !.graceLeft =
                        IF n.status = "grace" /\ got[s].status # "grace" THEN n.graceLeft ELSE @]
    BY DEF MergedRow, n
<1> HIDE DEF m
<1> QED BY <1>1, <1>2, <1>3 DEF n, Row

LEMMA MergedInvoiceFacts ==
    ASSUME IInv, NEW s \in Session, pc[s] = "ready", Event(req[s]), gotInv[s] # None
    PROVE  /\ MergedInvoice(s) \in InvoiceRow
           /\ req[s].kind = "failed" => MergedInvoice(s).attempts = NewInvoice(s).attempts
           /\ req[s].kind = "paid" =>
                MergedInvoice(s).attempts \in {NewInvoice(s).attempts, invoices[req[s].invoice].attempts}
<1> DEFINE now == invoices[req[s].invoice]
           n == NewInvoice(s)
           m == Merge(gotInv[s], n, now)
<1>1. req[s].invoice \in Invoice
    BY RequestKinds DEF IInv, Serves, Event
<1>2. n \in InvoiceRow /\ gotInv[s] \in InvoiceRow /\ now \in InvoiceRow
    BY <1>1, NewInvoiceType DEF IInv, TypeOK, HoldsInvoice
<1> HIDE DEF n, now
<1>3. DOMAIN now = {"status", "attempts"}
    BY <1>2 DEF InvoiceRow
<1>4. m = [status   |-> IF n.status # gotInv[s].status THEN n.status ELSE now.status,
           attempts |-> IF n.attempts # gotInv[s].attempts THEN n.attempts ELSE now.attempts]
    BY <1>3 DEF Merge
<1>5. MergedInvoice(s) = [m EXCEPT !.attempts = IF req[s].kind = "failed" THEN n.attempts ELSE @]
    BY DEF MergedInvoice, n, now
<1> HIDE DEF m
<1> QED BY <1>2, <1>4, <1>5 DEF InvoiceRow, n, now

-----------------------------------------------------------------------------
(* What every step keeps.                                                  *)

Sound(s) == Serves(s) /\ Holds(s) /\ HoldsInvoice(s) /\ HasBought(s)
PrivateTypes(s) ==
    /\ req[s] \in Requests \cup {None} /\ got[s] \in Row \cup {None}
    /\ gotInv[s] \in InvoiceRow \cup {None} /\ psub[s] \in PSub \cup {None}
\* Nothing that is known is ever forgotten.
Grows ==
    /\ Exists => row' # None
    /\ \A p \in PSub : provider[p] # None => provider'[p] # None /\ provider'[p].plan = provider[p].plan
    /\ \A i \in Invoice : invoices[i] # None => invoices'[i] # None
    /\ \A i \in Invoice : failed'[i] = failed[i] \/ failed[i] <= failed'[i]
Still(s) ==
    /\ pc'[s] = pc[s] /\ req'[s] = req[s]
    /\ got'[s] = got[s] /\ gotInv'[s] = gotInv[s] /\ psub'[s] = psub[s]

LEMMA StillSound ==
    ASSUME IInv, TypeOK', Grows, NEW s \in Session, Still(s)
    PROVE  Sound(s)' /\ PrivateTypes(s)'
<1>1. PrivateTypes(s)' /\ PrivateTypes(s)
    BY DEF IInv, TypeOK, PrivateTypes, Still
<1>2. Serves(s)'
    BY DEF IInv, Serves, Still, Buys
<1>3. Holds(s)'
    <2>1. got[s] # None => got[s] \in Row
        BY RowTypes
    <2> QED BY <2>1 DEF IInv, Holds, Loaded, Still, Grows, Exists, Row
<1>4. HoldsInvoice(s)'
    <2>1. pc[s] = "ready" /\ Event(req[s]) => req[s].invoice \in Invoice
        BY RequestKinds DEF IInv, Serves, Event
    <2>2. pc[s] = "ready" /\ Event(req[s]) /\ gotInv[s] # None =>
            /\ gotInv[s].attempts \in Nat /\ failed[req[s].invoice] \in Nat
            /\ failed'[req[s].invoice] \in Nat
        BY <2>1, ConstantsAssumption DEF IInv, TypeOK, InvoiceRow
    <2>3. pc[s] = "ready" /\ Event(req[s]) /\ gotInv[s] # None =>
            /\ invoices'[req[s].invoice] # None
            /\ gotInv[s].attempts <= failed[req[s].invoice]
            /\ \/ failed'[req[s].invoice] = failed[req[s].invoice]
               \/ failed[req[s].invoice] <= failed'[req[s].invoice]
        BY <2>1 DEF IInv, HoldsInvoice, Grows
    <2>4. pc[s] = "ready" /\ Event(req[s]) /\ gotInv[s] # None => gotInv[s].attempts <= failed'[req[s].invoice]
        BY <2>2, <2>3
    <2> QED BY <2>3, <2>4 DEF HoldsInvoice, Still, Event
<1>5. HasBought(s)'
    BY DEF IInv, HasBought, Bought, Still, Grows, Buys
<1> QED BY <1>1, <1>2, <1>3, <1>4, <1>5 DEF Sound

LEMMA EndSound ==
    ASSUME IInv, NEW s \in Session, End(s)
    PROVE  Sound(s)' /\ PrivateTypes(s)'
<1>1. pc'[s] = "idle" /\ req'[s] = None /\ got'[s] = None /\ gotInv'[s] = None /\ psub'[s] = None
    BY DEF IInv, TypeOK, End
<1> QED BY <1>1 DEF Sound, PrivateTypes, Serves, Holds, Loaded, HoldsInvoice, HasBought

\* Of a provider subscription that the row names, the period was granted for
\* the plan the provider knows, if it was granted at all.
LEMMA PeriodMeant ==
    ASSUME ProviderKnows, TypeOK, \A g \in BagToSet(issued) : Meant(g),
           Exists /\ row.psub # None => \E g \in BagToSet(issued) : g.ref = <<"period", row.psub>>
    PROVE  PeriodIsGranted
<1> SUFFICES ASSUME Exists, row.psub # None
             PROVE  \E g \in BagToSet(issued) :
                        g.ref = <<"period", row.psub>> /\ g.plan = provider[row.psub].plan
    BY DEF PeriodIsGranted
<1>1. row.psub \in PSub
    BY DEF TypeOK, Row, Exists
<1> QED BY <1>1 DEF Meant, Bought

LEMMA JournalKept ==
    ASSUME IInv, Grows, issued' = issued, row' = None <=> row = None,
           Exists => row'.plan = row.plan /\ row'.psub = row.psub
    PROVE  Journal'
<1>1. \A g \in BagToSet(issued) : Meant(g)'
    BY DEF IInv, Journal, Meant, Bought, Grows
<1>2. PeriodIsGranted'
    <2>1. Exists /\ row.psub # None => row.psub \in PSub /\ provider[row.psub] # None
        BY DEF IInv, TypeOK, ProviderKnows, Row, Exists
    <2> QED BY <2>1 DEF IInv, Journal, PurchasesAddUp, PeriodIsGranted, Exists, Grows
<1> QED BY <1>1, <1>2 DEF IInv, Journal, PurchasesAddUp, OncePerReference

\* A step that writes no table.
LEMMA ReadingKeeps ==
    ASSUME IInv, Grows, UNCHANGED tables, TypeOK',
           NEW s \in Session, Sound(s)', \A t \in Session \ {s} : Still(t)
    PROVE  IInv'
<1>1. Journal'
    BY JournalKept DEF tables
<1>2. ProviderKnows'
    <2>1. Exists => row \in Row
        BY RowTypes DEF Exists
    <2> QED BY <2>1 DEF IInv, ProviderKnows, Exists, Grows, tables, Row
<1>3. \A t \in Session : Sound(t)'
    BY StillSound
<1>4. Counted'
    BY DEF IInv, Counted, tables
<1> QED BY <1>1, <1>2, <1>3, <1>4 DEF IInv, Sound

LEMMA RollbackKeeps ==
    ASSUME IInv, NEW s \in Session, Rollback(s)
    PROVE  IInv'
<1>1. Grows
    BY DEF Rollback, tables, Grows, Exists
<1>2. TypeOK'
    BY DEF IInv, TypeOK, Rollback, End, tables
<1>3. \A t \in Session \ {s} : Still(t)
    BY DEF IInv, TypeOK, Rollback, End, Still
<1> QED BY <1>1, <1>2, <1>3, EndSound, ReadingKeeps DEF Rollback

LEMMA FoundFacts ==
    ASSUME IInv, NEW r \in Request
    PROVE  /\ Found(r) \in Row \cup {None}
           /\ Found(r) # None => Found(r) = row /\ Exists
           /\ r.kind = "sweep" /\ Found(r) # None => row.status = "grace" /\ row.graceLeft = 0
           /\ r.kind \notin {"failed", "paid", "sweep"} => Found(r) = row
<1>1. row \in Row \cup {None}
    BY DEF IInv, TypeOK
<1>2. CASE r.kind \in {"failed", "paid"}
    BY <1>1, <1>2 DEF Found, Exists
<1>3. CASE r.kind = "sweep"
    BY <1>1, <1>3 DEF Found, Exists
<1>4. CASE r.kind \notin {"failed", "paid", "sweep"}
    BY <1>1, <1>4 DEF Found, Exists
<1> QED BY <1>2, <1>3, <1>4

LEMMA LoadSound ==
    ASSUME IInv, NEW s \in Session, NEW r \in Requests, Load(s, r), ~StopsAtLoad(r),
           req'[s] = r, r.kind = "purchase" => psub[s] \in PSub /\ Bought(psub[s], r.plan)
    PROVE  Sound(s)'
<1>1. r \in Request
    BY ConstantsAssumption
<1>2. /\ got'[s] = Found(r)
      /\ pc'[s] = IF r.kind \in {"change", "cancel", "failed", "paid"} THEN "loaded" ELSE "ready"
      /\ provider' = provider /\ row' = row /\ psub' = psub
    BY DEF IInv, TypeOK, Load, tables
<1>3. Found(r) # None => Found(r) \in Row
    BY <1>1, FoundFacts
<1>4. Serves(s)'
    BY <1>1, <1>2, RequestKinds DEF Serves
<1>5. Holds(s)'
    <2>1. Found(r) # None => row # None /\ (row.psub # None => provider[row.psub] # None)
        BY <1>1, FoundFacts DEF IInv, ProviderKnows, Exists
    <2> QED BY <1>1, <1>2, <1>3, <2>1, FoundFacts DEF Holds, Loaded, StopsAtLoad
<1>6. HoldsInvoice(s)' /\ HasBought(s)'
    BY <1>2 DEF HoldsInvoice, HasBought, Bought, Event, Buys
<1> QED BY <1>4, <1>5, <1>6 DEF Sound

LEMMA BeginKeeps ==
    ASSUME IInv, NEW s \in Session, NEW r \in Requests, Begin(s, r)
    PROVE  IInv'
<1>1. Grows
    BY DEF Begin, Load, tables, Grows, Exists
<1>2. r \in Request
    BY ConstantsAssumption
<1>3. TypeOK'
    BY <1>2, FoundFacts DEF IInv, TypeOK, Begin, Load, tables
<1>4. req'[s] = r /\ r.kind # "purchase"
    BY DEF IInv, TypeOK, Begin
<1>5. Sound(s)'
    BY <1>4, LoadSound DEF Begin
<1>6. \A t \in Session \ {s} : Still(t)
    BY DEF IInv, TypeOK, Begin, Load, Still
<1> QED BY <1>1, <1>3, <1>5, <1>6, ReadingKeeps DEF Begin, Load

LEMMA BeginPurchaseKeeps ==
    ASSUME IInv, NEW s \in Session, NEW r \in Requests, BeginPurchase(s, r)
    PROVE  IInv'
<1>1. r \in Request /\ r.kind = "purchase" /\ r.plan \in Plan /\ r.key \in Key \cup {NoKey}
    BY ConstantsAssumption, RequestKinds DEF BeginPurchase
<1>2. PICK p \in PSub :
        /\ \/ provider[p] # None /\ provider[p].plan = r.plan /\ provider' = provider
           \/ /\ provider[p] = None
              /\ provider' = [provider EXCEPT ![p] = [state |-> "live", key |-> r.key, plan |-> r.plan]]
        /\ psub' = [psub EXCEPT ![s] = p]
    BY DEF BeginPurchase
<1>3. [state |-> "live", key |-> r.key, plan |-> r.plan] \in ProviderSub
    BY <1>1 DEF ProviderSub
<1>4. provider' \in [PSub -> ProviderSub \cup {None}] /\ Grows /\ Bought(p, r.plan)'
    BY <1>2, <1>3, NoneAssumption DEF IInv, TypeOK, BeginPurchase, tables, Grows, Bought, Exists
<1>5. TypeOK'
    BY <1>2, <1>4 DEF IInv, TypeOK, BeginPurchase, tables
<1>6. pc'[s] = "created" /\ req'[s] = r /\ psub'[s] = p
    BY <1>2 DEF IInv, TypeOK, BeginPurchase
<1>7. Sound(s)'
    BY <1>1, <1>4, <1>6 DEF Sound, Serves, Holds, Loaded, HoldsInvoice, HasBought, Buys, Bought
<1>8. \A t \in Session \ {s} : Still(t)
    BY <1>2 DEF IInv, TypeOK, BeginPurchase, Still
<1> QED BY <1>4, <1>5, <1>7, <1>8, ReadingKeeps DEF BeginPurchase

LEMMA LoadForPurchaseKeeps ==
    ASSUME IInv, NEW s \in Session, LoadForPurchase(s)
    PROVE  IInv'
<1>1. /\ req[s] \in Request /\ req[s].kind = "purchase" /\ req'[s] = req[s]
      /\ psub[s] \in PSub /\ Bought(psub[s], req[s].plan)
    BY DEF IInv, Serves, HasBought, Buys, LoadForPurchase
<1>2. req[s] \in Requests
    BY <1>1, NoneAssumption DEF IInv, TypeOK
<1>3. Grows
    BY DEF LoadForPurchase, Load, tables, Grows, Exists
<1>4. TypeOK'
    BY <1>1, FoundFacts DEF IInv, TypeOK, LoadForPurchase, Load, tables
<1>5. ~StopsAtLoad(req[s])
    BY <1>1 DEF StopsAtLoad
<1>6. Sound(s)'
    BY <1>1, <1>2, <1>5, LoadSound DEF LoadForPurchase
<1>7. \A t \in Session \ {s} : Still(t)
    BY DEF IInv, TypeOK, LoadForPurchase, Load, Still
<1> QED BY <1>3, <1>4, <1>6, <1>7, ReadingKeeps DEF LoadForPurchase, Load

LEMMA CallProviderKeeps ==
    ASSUME IInv, NEW s \in Session, CallProvider(s)
    PROVE  IInv'
<1>1. req[s] \in Request /\ got[s] \in Row
    BY RowTypes DEF IInv, Serves, Holds, Loaded, CallProvider
<1>2. got[s].psub # None => got[s].psub \in PSub /\ provider[got[s].psub] # None
    BY <1>1, NoneAssumption DEF IInv, Holds, Loaded, CallProvider, Row
<1>3. provider' \in [PSub -> ProviderSub \cup {None}] /\ Grows
    <2>1. CASE provider' = provider
        BY <2>1 DEF IInv, TypeOK, CallProvider, tables, Grows, Exists
    <2>2. CASE provider' # provider
        <3>1. /\ got[s].psub \in PSub /\ provider[got[s].psub] \in ProviderSub
              /\ provider' = [provider EXCEPT ![got[s].psub].state = "cancelled"]
            BY <1>2, <2>2 DEF IInv, TypeOK, CallProvider
        <3>2. [provider[got[s].psub] EXCEPT !.state = "cancelled"] \in ProviderSub
            BY <3>1 DEF ProviderSub
        <3> QED BY <3>1, <3>2, NoneAssumption DEF IInv, TypeOK, CallProvider, tables, Grows, ProviderSub, Exists
    <2> QED BY <2>1, <2>2
<1>4. TypeOK'
    BY <1>3 DEF IInv, TypeOK, CallProvider, tables
<1>5. pc'[s] = "ready" /\ req'[s] = req[s] /\ got'[s] = got[s] /\ row' = row /\ psub' = psub
    BY DEF IInv, TypeOK, CallProvider, tables
<1>6. Serves(s)'
    BY <1>1, <1>5 DEF Serves
<1>7. Holds(s)'
    BY <1>1, <1>2, <1>3, <1>5, RowTypes DEF IInv, Holds, Loaded, CallProvider, Grows, Row
<1>8. HoldsInvoice(s)' /\ HasBought(s)'
    BY <1>5 DEF HoldsInvoice, HasBought, Event, Buys, CallProvider
<1>9. \A t \in Session \ {s} : Still(t)
    BY DEF IInv, TypeOK, CallProvider, Still
<1> QED BY <1>3, <1>4, <1>6, <1>7, <1>8, <1>9, ReadingKeeps DEF CallProvider, Sound

LEMMA LoadInvoiceKeeps ==
    ASSUME IInv, NEW s \in Session, LoadInvoice(s)
    PROVE  IInv'
<1>1. req[s] \in Request /\ req[s].invoice \in Invoice
    BY RequestKinds DEF IInv, Serves, LoadInvoice
<1>2. Grows
    BY DEF LoadInvoice, tables, Grows, Exists
<1>3. TypeOK'
    BY <1>1 DEF IInv, TypeOK, LoadInvoice, tables
<1>4. /\ pc'[s] = "ready" /\ req'[s] = req[s] /\ got'[s] = got[s] /\ row' = row
      /\ gotInv'[s] = invoices[req[s].invoice] /\ UNCHANGED <<psub, provider, invoices, failed>>
    BY DEF IInv, TypeOK, LoadInvoice, tables
<1>5. Sound(s)'
    <2>1. HoldsInvoice(s)'
        BY <1>1, <1>4 DEF IInv, Counted, HoldsInvoice
    <2>2. Serves(s)' /\ Holds(s)' /\ HasBought(s)'
        BY <1>1, <1>4 DEF IInv, Serves, Holds, Loaded, HasBought, Buys, Bought, LoadInvoice
    <2> QED BY <2>1, <2>2 DEF Sound
<1>6. \A t \in Session \ {s} : Still(t)
    BY DEF IInv, TypeOK, LoadInvoice, Still
<1> QED BY <1>2, <1>3, <1>5, <1>6, ReadingKeeps DEF LoadInvoice

\* The row after a commit: each column is the handler's or the one there was.
LEMMA CommitRow ==
    ASSUME IInv, NEW s \in Session, Commit(s)
    PROVE  LET k == req[s].kind  n == NewRow(s) IN
           /\ row' \in Row /\ row' # None
           /\ \/ k \in {"trial", "purchase", "change"} /\ row'.plan = req[s].plan
              \/ Exists /\ row'.plan = row.plan
           /\ \/ k = "purchase" /\ row'.psub = psub[s]
              \/ row'.psub = None
              \/ Exists /\ row'.psub = row.psub
           /\ ~Exists => k \in {"trial", "purchase"} /\ row' = n
           /\ Exists => /\ got[s] # None /\ row' = MergedRow(s)
                        /\ \/ row'.status = row.status
                           \/ row'.status = n.status /\ n.status # got[s].status
<1>1. pc[s] = "ready" /\ NewRow(s) \in Row
    BY NewRowFacts DEF Commit
<1>2. CASE got[s] = None
    <2>1. ~Exists /\ row' = NewRow(s) /\ req[s].kind \in {"trial", "purchase"}
        BY <1>1, <1>2 DEF Commit, InsertRefused, Exists, IInv, Holds, Loaded
    <2>2. /\ NewRow(s).plan = req[s].plan
          /\ req[s].kind = "purchase" => NewRow(s).psub = psub[s]
          /\ req[s].kind = "trial" => NewRow(s).psub = None
        BY <1>1, <2>1, NewRowFacts
    <2>3. row' # None
        BY <1>1, <2>1, NoneAssumption
    <2> QED BY <1>1, <2>1, <2>2, <2>3
<1>3. CASE got[s] # None
    <2>1. Exists /\ row' = MergedRow(s)
        BY <1>1, <1>3 DEF Commit, Exists, IInv, Holds, Loaded
    <2> DEFINE m == MergedRow(s)
    <2>2. /\ m \in Row /\ row \in Row
          /\ m.status = IF NewRow(s).status # got[s].status THEN NewRow(s).status ELSE row.status
          /\ m.plan = IF NewRow(s).plan # got[s].plan THEN NewRow(s).plan ELSE row.plan
          /\ m.psub = IF NewRow(s).psub # got[s].psub THEN NewRow(s).psub ELSE row.psub
        BY <1>1, <1>3, MergedFacts
    <2>3. /\ req[s].kind \in {"trial", "purchase", "change"} => NewRow(s).plan = req[s].plan
          /\ req[s].kind \notin {"trial", "purchase", "change"} => NewRow(s).plan = got[s].plan
          /\ req[s].kind = "purchase" => NewRow(s).psub = psub[s]
          /\ req[s].kind \notin {"trial", "purchase"} => NewRow(s).psub = got[s].psub
          /\ req[s].kind # "trial"
        BY <1>1, <1>3, NewRowFacts DEF IInv, Holds, Loaded
    <2> HIDE DEF m
    <2>4. row' = m
        BY <2>1 DEF m
    <2>5. row' # None
        BY <2>2, <2>4, NoneAssumption
    <2>6. \/ req[s].kind \in {"trial", "purchase", "change"} /\ row'.plan = req[s].plan
          \/ row'.plan = row.plan
        BY <2>2, <2>3, <2>4
    <2>7. \/ req[s].kind = "purchase" /\ row'.psub = psub[s]
          \/ row'.psub = row.psub
        BY <2>2, <2>3, <2>4
    <2> QED BY <1>3, <2>1, <2>2, <2>4, <2>5, <2>6, <2>7
<1> QED BY <1>2, <1>3

LEMMA CommitInvoices ==
    ASSUME IInv, NEW s \in Session, Commit(s)
    PROVE  /\ invoices' \in [Invoice -> InvoiceRow \cup {None}]
           /\ \A i \in Invoice : invoices[i] # None => invoices'[i] # None
           /\ failed' \in [Invoice -> 0..MaxAttempts]
           /\ \A i \in Invoice : failed[i] <= failed'[i]
           /\ Counted'
           /\ req[s].kind = "failed" =>
                /\ req[s].invoice \in Invoice
                /\ NewInvoice(s).attempts <= failed'[req[s].invoice]
<1>0. failed \in [Invoice -> 0..MaxAttempts] /\ MaxAttempts \in Nat /\ Counted
    BY ConstantsAssumption DEF IInv, TypeOK
<1>1. CASE ~Event(req[s])
    <2>1. invoices' = invoices /\ failed' = failed /\ req[s].kind # "failed"
        BY <1>1 DEF Commit, Event, IsEvent
    <2> QED BY <1>0, <2>1 DEF IInv, TypeOK, Counted
<1>2. CASE Event(req[s])
    <2>1. req[s].invoice \in Invoice
        BY <1>2, RequestKinds DEF IInv, Serves, Commit, Event
    <2> DEFINE new == IF gotInv[s] = None THEN NewInvoice(s) ELSE MergedInvoice(s)
    <2> DEFINE i == req[s].invoice
    <2>2. /\ new \in InvoiceRow /\ pc[s] = "ready"
          /\ req[s].kind = "failed" => new.attempts = NewInvoice(s).attempts
          /\ req[s].kind = "paid" =>
                \/ new.attempts = NewInvoice(s).attempts
                \/ invoices[i] # None /\ new.attempts = invoices[i].attempts
        BY <1>2, NewInvoiceType, MergedInvoiceFacts DEF Commit, IInv, HoldsInvoice
    <2>3. invoices' = [invoices EXCEPT ![i] = new]
        BY <1>2 DEF Commit, Event, IsEvent
    <2>4. /\ req[s].kind = "failed" => NewInvoice(s).attempts <= Sum(i)
          /\ req[s].kind = "paid" => NewInvoice(s).attempts <= failed[i]
        BY <1>2, <2>2, NewInvoiceType
    <2>5. req[s].kind = "failed" => failed' = [failed EXCEPT ![i] = Sum(i)]
        BY <1>0, <2>1 DEF Commit, Sum
    <2>6. req[s].kind # "failed" => failed' = failed
        BY DEF Commit
    <2>7. Sum(i) \in 0..MaxAttempts /\ failed[i] <= Sum(i)
        <3>1. failed[i] \in 0..MaxAttempts /\ failed[i] + 1 \in Nat
            BY <1>0, <2>1
        <3> QED BY <1>0, <3>1, MinOfTwo DEF Sum
    <2> HIDE DEF new, i
    <2>8. /\ failed' \in [Invoice -> 0..MaxAttempts] /\ \A j \in Invoice : failed[j] <= failed'[j]
          /\ failed'[i] = IF req[s].kind = "failed" THEN Sum(i) ELSE failed[i]
          /\ \A j \in Invoice \ {i} : failed'[j] = failed[j]
        BY <1>0, <2>1, <2>5, <2>6, <2>7 DEF i
    <2>9. new.attempts <= failed'[i]
        BY <1>0, <1>2, <2>1, <2>2, <2>4, <2>8 DEF Counted, Event, i
    <2>10. invoices' \in [Invoice -> InvoiceRow \cup {None}] /\ invoices'[i] = new
        BY <2>1, <2>2, <2>3 DEF IInv, TypeOK, i
    <2>11. \A j \in Invoice \ {i} : invoices'[j] = invoices[j]
        BY <2>3 DEF IInv, TypeOK
    <2>12. Counted'
        BY <1>0, <2>8, <2>9, <2>10, <2>11 DEF Counted
    <2>13. \A j \in Invoice : invoices[j] # None => invoices'[j] # None
        BY <2>2, <2>10, <2>11, NoneAssumption
    <2> QED BY <2>1, <2>2, <2>4, <2>8, <2>10, <2>12, <2>13 DEF i
<1> QED BY <1>1, <1>2

Grants(s) == req[s].kind \in {"trial", "purchase", "change"}

LEMMA GrantFacts ==
    ASSUME IInv, NEW s \in Session, pc[s] = "ready", Grants(s)
    PROVE  LET g == GrantOf(s) IN
           /\ g \in Grant /\ g.plan = req[s].plan /\ Meant(g)
           /\ req[s].kind = "purchase" => g.ref = <<"period", psub[s]>>
<1>1. /\ req[s] \in Request /\ req[s].plan \in Plan
      /\ req[s].kind = "purchase" => psub[s] \in PSub /\ Bought(psub[s], req[s].plan)
    BY RequestKinds DEF IInv, Serves, HasBought, Buys, Grants
<1> DEFINE g == GrantOf(s)
<1>2. CASE req[s].kind = "trial"
    <2>1. g = [plan |-> req[s].plan, ref |-> <<"trial">>]
        BY <1>2 DEF GrantOf
    <2> HIDE DEF g
    <2>2. g \in Grant
        BY <1>1, <2>1 DEF Grant
    <2> QED BY <1>1, <1>2, <2>1, <2>2, Tuples DEF Meant, g
<1>3. CASE req[s].kind = "purchase"
    <2>1. g = [plan |-> req[s].plan, ref |-> <<"period", psub[s]>>]
        BY <1>3 DEF GrantOf
    <2> HIDE DEF g
    <2>2. g \in Grant
        BY <1>1, <1>3, <2>1 DEF Grant
    <2>3. Meant(g)
        BY <1>1, <1>3, <2>1, Tuples DEF Meant
    <2> QED BY <1>1, <1>3, <2>1, <2>2, <2>3 DEF g
<1>4. CASE req[s].kind = "change"
    <2>1. g = [plan |-> req[s].plan, ref |-> <<"change", req[s].plan>>]
        BY <1>4 DEF GrantOf
    <2> HIDE DEF g
    <2>2. g \in Grant
        BY <1>1, <2>1 DEF Grant
    <2>3. Meant(g)
        BY <1>1, <2>1, Tuples DEF Meant
    <2> QED BY <1>1, <1>4, <2>1, <2>2, <2>3 DEF g
<1> QED BY <1>2, <1>3, <1>4 DEF Grants

\* Whether it grants now or had granted before, the journal has a grant under
\* the reference of this session.
LEMMA CommitIssues ==
    ASSUME IInv, NEW s \in Session, Commit(s)
    PROVE  /\ IsABag(issued') /\ BagToSet(issued') \subseteq Grant
           /\ BagToSet(issued) \subseteq BagToSet(issued')
           /\ \A g \in BagToSet(issued') : Meant(g)
           /\ OncePerReference'
           /\ Grants(s) => \E g \in BagToSet(issued') : g.ref = GrantOf(s).ref
<1>1. pc[s] = "ready"
    BY DEF Commit
<1>2. CASE GrantsNow(s)
    <2> DEFINE x == GrantOf(s)
    <2>1. Grants(s) /\ issued' = issued (+) SetToBag({x})
        BY <1>2 DEF Commit, GrantsNow, Grants
    <2>2. x \in Grant /\ Meant(x) /\ \A g \in BagToSet(issued) : g.ref # x.ref
        BY <1>1, <1>2, <2>1, GrantFacts DEF GrantsNow
    <2> HIDE DEF x
    <2>3. /\ IsABag(issued') /\ BagToSet(issued') = BagToSet(issued) \cup {x}
          /\ issued'[x] = 1 /\ \A g \in BagToSet(issued) : issued'[g] = issued[g]
        BY <2>1, <2>2, OneMore DEF IInv, TypeOK
    <2>4. OncePerReference'
        BY <2>2, <2>3 DEF IInv, Journal, PurchasesAddUp, OncePerReference
    <2> QED BY <2>2, <2>3, <2>4 DEF IInv, TypeOK, Journal, x
<1>3. CASE ~GrantsNow(s)
    <2>1. issued' = issued
        BY <1>3 DEF Commit
    <2>2. OncePerReference'
        BY <2>1 DEF IInv, Journal, PurchasesAddUp, OncePerReference
    <2> QED BY <1>3, <2>1, <2>2 DEF IInv, TypeOK, Journal, GrantsNow, Grants
<1> QED BY <1>2, <1>3

LEMMA CommitKeeps ==
    ASSUME IInv, NEW s \in Session, Commit(s)
    PROVE  IInv'
<1>1. provider' = provider /\ End(s) /\ pc[s] = "ready"
    BY DEF Commit
<1>2. Grows
    BY <1>1, CommitRow, CommitInvoices DEF Grows
<1>3. TypeOK'
    BY <1>1, CommitRow, CommitInvoices, CommitIssues DEF IInv, TypeOK, End
<1>4. /\ \/ Grants(s) /\ row'.plan = req[s].plan
         \/ Exists /\ row'.plan = row.plan
      /\ \/ req[s].kind = "purchase" /\ row'.psub = psub[s]
         \/ row'.psub = None
         \/ Exists /\ row'.psub = row.psub
      /\ row' \in Row /\ row' # None
    BY CommitRow DEF Grants
<1>5. req[s].kind = "purchase" => psub[s] \in PSub /\ Bought(psub[s], req[s].plan)
    BY <1>1 DEF IInv, HasBought, Buys
<1>6. ProviderKnows'
    BY <1>1, <1>4, <1>5 DEF IInv, ProviderKnows, Bought, Exists
<1>7. row'.psub # None => \E g \in BagToSet(issued') : g.ref = <<"period", row'.psub>>
    <2>1. CASE req[s].kind = "purchase" /\ row'.psub = psub[s]
        BY <1>1, <2>1, CommitIssues, GrantFacts DEF Grants
    <2>2. CASE Exists /\ row'.psub = row.psub
        BY <2>2, CommitIssues DEF IInv, Journal, PurchasesAddUp, PeriodIsGranted
    <2> QED BY <1>4, <2>1, <2>2
<1>8. Journal'
    <2>1. \A g \in BagToSet(issued') : Meant(g)'
        BY <1>1, CommitIssues DEF Meant, Bought
    <2>2. \A g \in BagToSet(issued') : Meant(g)' => (row'.psub \in PSub /\ g.ref = <<"period", row'.psub>>
                => g.plan = provider'[row'.psub].plan)
        BY DEF Meant, Bought
    <2>3. PeriodIsGranted'
        BY <1>4, <1>7, <2>1, <2>2 DEF PeriodIsGranted, Exists, Row
    <2> QED BY <2>1, <2>3, CommitIssues DEF Journal, PurchasesAddUp
<1>9. \A t \in Session : Sound(t)'
    <2>1. \A t \in Session \ {s} : Still(t)
        BY <1>1 DEF IInv, TypeOK, End, Still
    <2> QED BY <1>1, <1>2, <1>3, <2>1, StillSound, EndSound
<1> QED BY <1>3, <1>6, <1>8, <1>9, CommitInvoices DEF IInv, Sound

LEMMA NextDayKeeps ==
    ASSUME IInv, NextDay
    PROVE  IInv'
<1>1. row \in Row /\ row # None /\ row.graceLeft \notin {None, 0}
    BY DEF NextDay, IInv, TypeOK
<1>2. row' = [row EXCEPT !.graceLeft = @ - 1]
    BY DEF NextDay
<1>3. row' \in Row /\ row'.plan = row.plan /\ row'.psub = row.psub
    <2>1. row.graceLeft - 1 \in 0..GraceDays
        BY <1>1, ConstantsAssumption DEF Row
    <2> QED BY <1>1, <1>2, <2>1 DEF Row
<1>4. row' # None
    BY <1>3, NoneAssumption
<1>5. Grows
    BY <1>4 DEF NextDay, Grows
<1>6. TypeOK'
    BY <1>3 DEF IInv, TypeOK, NextDay
<1>7. Journal'
    BY <1>1, <1>3, <1>4, <1>5, JournalKept DEF NextDay
<1>8. ProviderKnows'
    BY <1>1, <1>3 DEF IInv, ProviderKnows, Exists, NextDay
<1>9. \A t \in Session : Sound(t)'
    BY <1>5, <1>6, StillSound DEF NextDay, Still
<1>10. Counted'
    BY DEF IInv, Counted, NextDay
<1> QED BY <1>6, <1>7, <1>8, <1>9, <1>10 DEF IInv, Sound

LEMMA InitIInv == Init => IInv
<1> SUFFICES ASSUME Init PROVE IInv
    OBVIOUS
<1>1. IsABag(issued) /\ BagToSet(issued) = {}
    BY DEF Init, EmptyBag, SetToBag, IsABag, BagToSet
<1>2. TypeOK
    BY <1>1, ConstantsAssumption DEF Init, TypeOK
<1>3. Journal
    BY <1>1 DEF Init, Journal, PurchasesAddUp, OncePerReference, PeriodIsGranted, Exists
<1> QED BY <1>2, <1>3 DEF Init, IInv, ProviderKnows, Counted, Exists, Serves, Holds, Loaded, HoldsInvoice, HasBought

LEMMA NextIInv == IInv /\ [Next]_vars => IInv'
<1> SUFFICES ASSUME IInv, [Next]_vars PROVE IInv'
    OBVIOUS
<1>1. ASSUME NEW s \in Session, Start(s) PROVE IInv'
    BY <1>1, BeginKeeps, BeginPurchaseKeeps DEF Start
<1>2. ASSUME NEW s \in Session, Continue(s) PROVE IInv'
    BY <1>2, LoadForPurchaseKeeps, CallProviderKeeps, LoadInvoiceKeeps, CommitKeeps DEF Continue
<1>3. ASSUME NEW s \in Session, Rollback(s) PROVE IInv'
    BY <1>3, RollbackKeeps
<1>4. CASE UNCHANGED vars
    <2>1. Grows /\ \A t \in Session : Still(t)
        BY <1>4 DEF vars, Grows, Still, Exists
    <2>0. TypeOK' /\ Counted'
        BY <1>4 DEF vars, IInv, TypeOK, Counted
    <2>2. \A t \in Session : Sound(t)'
        BY <2>0, <2>1, StillSound
    <2>3. Journal'
        BY <1>4, <2>1, JournalKept DEF vars
    <2> QED BY <1>4, <2>0, <2>2, <2>3 DEF vars, IInv, Sound, ProviderKnows, Exists
<1> QED BY <1>1, <1>2, <1>3, <1>4, NextDayKeeps DEF Next

\* app/services/subscription.py and app/services/billing.py, however many
\* sessions overlap: the types hold, every reference of the journal tells its
\* plan, the provider knows what the row names, and a session's copy fits.
THEOREM SubscriptionInvariance == Spec => []IInv
<1> QED BY InitIInv, NextIInv, PTL DEF Spec

\* services/subscription.py grant_plan_credits: no order of purchases and
\* changes grants a reference twice, or leaves the provider subscription that
\* is charged without its period's credits.
THEOREM CreditsAddUp == Spec => []PurchasesAddUp
<1>1. IInv => PurchasesAddUp
    BY DEF IInv, Journal
<1> QED BY <1>1, SubscriptionInvariance, PTL

-----------------------------------------------------------------------------
(* Whose commit changes the status.                                        *)

LEMMA OnlyCommitMoves ==
    ASSUME IInv, [Next]_vars, Exists, row'.status # row.status
    PROVE  \E s \in Session : Commit(s)
<1>1. NextDay => row'.status = row.status
    <2>1. row \in Row
        BY DEF Exists, IInv, TypeOK
    <2> QED BY <2>1 DEF NextDay, Row
<1>2. ASSUME NEW s \in Session, Start(s) \/ Rollback(s) \/ LoadForPurchase(s) \/ CallProvider(s) \/ LoadInvoice(s)
      PROVE  row' = row
    BY <1>2 DEF Start, Begin, BeginPurchase, LoadForPurchase, Load, CallProvider, LoadInvoice, Rollback, tables
<1> QED BY <1>1, <1>2 DEF Next, Continue, vars

LEMMA CommitMoves ==
    ASSUME IInv, NEW s \in Session, Commit(s), Exists, row'.status # row.status
    PROVE  LET k == req[s].kind  n == NewRow(s).status IN
           /\ row'.status = n /\ n # got[s].status /\ pc[s] = "ready"
           /\ k \in {"purchase", "paid"} => n = "active"
           /\ k = "failed" =>
                /\ n \in {"past_due", "grace"} /\ got[s].status # "suspended"
                /\ n = "grace" => NewInvoice(s).attempts >= 3
           /\ k \in {"cancel", "sweep"} => n = IF k = "cancel" THEN "cancelled" ELSE "suspended"
           /\ k \in {"purchase", "paid", "failed", "cancel", "sweep"}
<1>1. row'.status = NewRow(s).status /\ NewRow(s).status # got[s].status /\ got[s] # None
    BY CommitRow
<1>2. pc[s] = "ready" /\ req[s] \in Request /\ req[s].kind # "trial"
    BY <1>1 DEF Commit, IInv, Serves, Holds, Loaded
<1> QED BY <1>1, <1>2, NewRowFacts, RequestKinds

\* services/billing.py, docs/billing.md:31: no order of billing events takes a
\* tenant's access away; only an immediate cancel or the sweep commits that.
THEOREM AccessLost == Spec => AccessLostOnlyBySweepOrCancel
<1>1. IInv /\ [Next]_vars =>
        (Exists /\ HasAccess(row.status) /\ ~HasAccess(row'.status)
            => \E s \in Session : Commits(s, {"cancel", "sweep"}))
    <2> SUFFICES ASSUME IInv, [Next]_vars, Exists, HasAccess(row.status), ~HasAccess(row'.status)
                 PROVE  \E s \in Session : Commits(s, {"cancel", "sweep"})
        OBVIOUS
    <2>1. PICK s \in Session : Commit(s)
        BY OnlyCommitMoves
    <2>2. req[s].kind \in {"cancel", "sweep"} /\ pc[s] = "ready"
        BY <2>1, CommitMoves DEF HasAccess
    <2> QED BY <2>1, <2>2 DEF Commits
<1> QED BY <1>1, SubscriptionInvariance, PTL DEF Spec, AccessLostOnlyBySweepOrCancel

\* services/billing.py handle_payment_failed: failure events that overlap and
\* overwrite each other's count never bring grace on before the third commits.
THEOREM GraceNotEarly == Spec => GraceAfterThirdFailure
<1>1. IInv /\ [Next]_vars =>
        (Exists /\ row.status # "grace" /\ row'.status = "grace" => \E i \in Invoice : failed'[i] >= 3)
    <2> SUFFICES ASSUME IInv, [Next]_vars, Exists, row.status # "grace", row'.status = "grace"
                 PROVE  \E i \in Invoice : failed'[i] >= 3
        OBVIOUS
    <2>1. PICK s \in Session : Commit(s)
        BY OnlyCommitMoves
    <2>2. /\ req[s].kind = "failed" /\ NewInvoice(s).attempts >= 3
          /\ pc[s] = "ready" /\ Event(req[s])
        BY <2>1, CommitMoves DEF Event
    <2>3. req[s].invoice \in Invoice /\ NewInvoice(s).attempts <= failed'[req[s].invoice]
        BY <2>1, <2>2, CommitInvoices
    <2>4. NewInvoice(s).attempts \in Nat /\ failed'[req[s].invoice] \in Nat
        BY <2>1, <2>2, <2>3, NewInvoiceType, CommitInvoices, ConstantsAssumption DEF InvoiceRow
    <2> QED BY <2>2, <2>3, <2>4
<1> QED BY <1>1, SubscriptionInvariance, PTL DEF Spec, GraceAfterThirdFailure

\* The UPDATE of a session that loaded what is still there writes its object.
LEMMA FreshCommit ==
    ASSUME IInv, NEW s \in Session, Commit(s), got[s] = row
    PROVE  LET n == NewRow(s) IN
           /\ n \in Row /\ row' \in Row /\ row' # None
           /\ row'.status = n.status /\ row'.plan = n.plan /\ row'.psub = n.psub
           /\ row'.graceLeft = n.graceLeft
<1> DEFINE n == NewRow(s)
<1>1. n \in Row /\ pc[s] = "ready"
    BY NewRowFacts DEF Commit
<1>2. CASE got[s] = None
    BY <1>1, <1>2, NoneAssumption DEF Commit
<1>3. CASE got[s] # None
    <2>1. row' = MergedRow(s)
        BY <1>3 DEF Commit
    <2> QED BY <1>1, <1>3, <2>1, MergedFacts, NoneAssumption
<1> QED BY <1>2, <1>3

\* tasks/worker.py, services/billing.py handle_payment_succeeded, however many
\* sessions overlap: a lapsed grace period suspends, paying or buying ends a
\* suspension and gives access, unless a session writes from a stale copy.
THEOREM SuspensionIsKept == Spec => SuspensionHolds
<1>1. IInv /\ [Next]_vars =>
        (Exists /\ row.status # "suspended" /\ row'.status = "suspended"
            => \E s \in Session : /\ Commits(s, {"sweep"})
                                  /\ Stale(s) \/ (row.status = "grace" /\ row.graceLeft = 0))
    <2> SUFFICES ASSUME IInv, [Next]_vars, Exists, row.status # "suspended", row'.status = "suspended"
                 PROVE  \E s \in Session : /\ Commits(s, {"sweep"})
                                           /\ Stale(s) \/ (row.status = "grace" /\ row.graceLeft = 0)
        OBVIOUS
    <2>1. PICK s \in Session : Commit(s)
        BY OnlyCommitMoves
    <2>2. req[s].kind = "sweep" /\ pc[s] = "ready"
        BY <2>1, CommitMoves
    <2>3. got[s].status = "grace" /\ got[s].graceLeft = 0
        BY <2>2 DEF IInv, Holds, Loaded
    <2> QED BY <2>1, <2>2, <2>3 DEF Commits, Stale
<1>2. IInv /\ [Next]_vars =>
        (Exists /\ row.status = "suspended" /\ HasAccess(row'.status)
            => \E s \in Session :
                 Commits(s, {"paid", "purchase"}) \/ (pc[s] = "ready" /\ Commit(s) /\ Stale(s)))
    <2> SUFFICES ASSUME IInv, [Next]_vars, Exists, row.status = "suspended", HasAccess(row'.status)
                 PROVE  \E s \in Session :
                          Commits(s, {"paid", "purchase"}) \/ (pc[s] = "ready" /\ Commit(s) /\ Stale(s))
        OBVIOUS
    <2>1. PICK s \in Session : Commit(s)
        BY OnlyCommitMoves DEF HasAccess
    <2>2. pc[s] = "ready" /\ (~Stale(s) => req[s].kind \in {"paid", "purchase"})
        BY <2>1, CommitMoves DEF HasAccess, Stale
    <2> QED BY <2>1, <2>2 DEF Commits
<1>3. IInv /\ [Next]_vars =>
        \A s \in Session : Commits(s, {"paid", "purchase"})
            => \/ HasAccess(row'.status) \/ Stale(s)
               \/ req[s].kind = "paid" /\ row.status = "cancelled"
    <2> SUFFICES ASSUME IInv, NEW s \in Session, Commits(s, {"paid", "purchase"}), ~Stale(s)
                 PROVE  HasAccess(row'.status) \/ (req[s].kind = "paid" /\ row.status = "cancelled")
        OBVIOUS
    <2>1. Commit(s) /\ pc[s] = "ready" /\ req[s].kind \in {"paid", "purchase"} /\ got[s] = row
        BY DEF Commits, Stale
    <2>2. row'.status = NewRow(s).status
        BY <2>1, FreshCommit
    <2> QED BY <2>1, <2>2, NewRowFacts DEF HasAccess
<1> QED BY <1>1, <1>2, <1>3, SubscriptionInvariance, PTL
        DEF Spec, SuspensionHolds, SuspendedFromLapsedGrace, SuspensionEndsByPayment, PaymentGivesAccess

-----------------------------------------------------------------------------
(* One request at a time.                                                  *)

\* The provider never takes a cancellation back.
LEMMA ChargesStop ==
    ASSUME IInv, [Next]_vars, NEW p \in PSub, provider[p] # None, provider[p].state = "cancelled"
    PROVE  provider'[p].state = "cancelled"
<1>1. provider[p] \in ProviderSub
    BY DEF IInv, TypeOK
<1>2. ASSUME NEW s \in Session, CallProvider(s) PROVE provider'[p].state = "cancelled"
    BY <1>1, <1>2 DEF IInv, TypeOK, CallProvider, ProviderSub
<1>3. ASSUME NEW s \in Session, NEW r \in Requests, BeginPurchase(s, r)
      PROVE  provider'[p].state = "cancelled"
    BY <1>3 DEF IInv, TypeOK, BeginPurchase
<1>4. ASSUME NEW s \in Session, NEW r \in Requests, Begin(s, r)
      PROVE  provider' = provider
    BY <1>4 DEF Begin, Load
<1>5. ASSUME NEW s \in Session, LoadForPurchase(s) \/ LoadInvoice(s) \/ Commit(s) \/ Rollback(s)
      PROVE  provider' = provider
    BY <1>5 DEF LoadForPurchase, Load, LoadInvoice, Commit, Rollback
<1> QED BY <1>2, <1>3, <1>4, <1>5 DEF Next, Start, Continue, NextDay, vars

LEMMA NoDeadlineMissing == \A d \in 0..GraceDays : d # None
    BY NoneAssumption

LEMMA SerialCommit ==
    ASSUME IInv, Coherent, NEW s \in Session, Commit(s), Fresh(s)
    PROVE  GraceHasDeadline' /\ CancelledIsNotCharged'
<1> DEFINE n == NewRow(s)
<1>1. /\ got[s] = row /\ pc[s] = "ready" /\ req[s] \in Request /\ provider' = provider
      /\ got[s] = None => req[s].kind \in {"trial", "purchase"}
      /\ got[s] # None => req[s].kind # "trial"
    BY DEF Commit, Fresh, Loaded, IInv, Serves, Holds
<1>2. row'.status = n.status /\ row'.psub = n.psub /\ row'.graceLeft = n.graceLeft
    BY <1>1, FreshCommit
<1>3. GraceDays # None
    BY NoDeadlineMissing, ConstantsAssumption
<1>4. n.status = "grace" => n.graceLeft # None
    BY <1>1, <1>3, NewRowFacts, RequestKinds DEF Coherent, GraceHasDeadline, Exists
<1>5. n.status = "cancelled" /\ n.psub # None => provider[n.psub].state = "cancelled"
    <2> HAVE n.status = "cancelled" /\ n.psub # None
    <2>1. req[s].kind \notin {"trial", "purchase", "sweep"}
        BY <1>1, NewRowFacts
    <2>2. Exists /\ n.psub = row.psub
        BY <1>1, <2>1, NewRowFacts DEF Exists
    <2>3. CASE req[s].kind = "cancel" /\ ~req[s].atEnd
        BY <1>1, <2>2, <2>3 DEF Fresh, Loaded
    <2>4. CASE row.status = "cancelled"
        BY <2>2, <2>4 DEF Coherent, CancelledIsNotCharged
    <2>5. req[s].kind \in {"change", "failed", "paid"} \/ (req[s].kind = "cancel" /\ req[s].atEnd)
            => n.status = row.status
        BY <1>1, NewRowFacts
    <2> QED BY <1>1, <2>1, <2>3, <2>4, <2>5, RequestKinds
<1> HIDE DEF n
<1> QED BY <1>1, <1>2, <1>4, <1>5 DEF GraceHasDeadline, CancelledIsNotCharged, Exists

LEMMA NobodyOpen ==
    ASSUME MaxOpen = 1, IsFiniteSet(Session), Cardinality(Open) < MaxOpen
    PROVE  \A s \in Session : pc[s] = "idle"
<1>1. IsFiniteSet(Open)
    BY FS_Subset DEF Open
<1>2. Cardinality(Open) = 0
    BY <1>1, FS_CardinalityType
<1>3. Open = {}
    BY <1>1, <1>2, FS_EmptySet
<1> QED BY <1>3 DEF Open

\* A session is the only one open, or it begins and nobody is.
LEMMA StartsAlone ==
    ASSUME MaxOpen = 1, IsFiniteSet(Session), NEW s \in Session, Start(s)
    PROVE  \A t \in Session : pc[t] = "idle"
    BY NobodyOpen DEF Start, Begin, BeginPurchase

LEMMA OthersStill ==
    ASSUME IInv, NEW s \in Session, Start(s) \/ Continue(s) \/ Rollback(s), NEW t \in Session \ {s}
    PROVE  Still(t)
<1>1. ASSUME NEW r \in Requests, Begin(s, r) \/ BeginPurchase(s, r)
      PROVE  Still(t)
    BY <1>1 DEF IInv, TypeOK, Begin, BeginPurchase, Load, Still
<1>2. LoadForPurchase(s) \/ CallProvider(s) \/ LoadInvoice(s) => Still(t)
    BY DEF IInv, TypeOK, LoadForPurchase, Load, CallProvider, LoadInvoice, Still
<1>3. Commit(s) \/ Rollback(s) => Still(t)
    BY DEF IInv, TypeOK, Commit, Rollback, End, Still
<1> QED BY <1>1, <1>2, <1>3 DEF Start, Continue

LEMMA AloneKept ==
    ASSUME MaxOpen = 1, IsFiniteSet(Session), IInv, Alone, [Next]_vars
    PROVE  Alone'
<1>1. ASSUME NEW s \in Session, Start(s) \/ Continue(s) \/ Rollback(s)
      PROVE  Alone'
    <2>1. \A t \in Session \ {s} : pc'[t] = pc[t]
        BY <1>1, OthersStill DEF Still
    <2>2. Continue(s) \/ Rollback(s) => pc[s] # "idle"
        BY DEF Continue, LoadForPurchase, CallProvider, LoadInvoice, Commit, Rollback
    <2>3. \A t \in Session \ {s} : pc[t] = "idle"
        BY <1>1, <2>2, StartsAlone DEF Alone
    <2> QED BY <2>1, <2>3 DEF Alone
<1>2. NextDay \/ UNCHANGED vars => pc' = pc
    BY DEF NextDay, vars
<1> QED BY <1>1, <1>2 DEF Next, Alone

\* What a session loads is what there is.
LEMMA LoadFresh ==
    ASSUME IInv, NEW s \in Session, NEW r \in Requests, Load(s, r), ~StopsAtLoad(r), req'[s] = r
    PROVE  Fresh(s)'
<1>1. r \in Request
    BY ConstantsAssumption
<1>2. /\ got'[s] = Found(r) /\ row' = row
      /\ pc'[s] = IF r.kind \in {"change", "cancel", "failed", "paid"} THEN "loaded" ELSE "ready"
    BY DEF IInv, TypeOK, Load, tables
<1>3. Found(r) = row /\ (r.kind = "sweep" => row.graceLeft = 0)
    BY <1>1, FoundFacts, RequestKinds DEF StopsAtLoad
<1> QED BY <1>2, <1>3 DEF Fresh, Loaded

\* A session that is alone keeps what it has loaded up to date.
LEMMA FreshKept ==
    ASSUME MaxOpen = 1, IsFiniteSet(Session), SerialInv, [Next]_vars, NEW s \in Session
    PROVE  Fresh(s)'
<1>1. IInv /\ Alone /\ Fresh(s) /\ pc[s] \in {"idle", "created", "loaded", "ready"}
    BY DEF SerialInv, IInv, TypeOK
<1>2. ASSUME NEW t \in Session \ {s}, Start(t) \/ Continue(t) \/ Rollback(t)
      PROVE  Fresh(s)'
    <2>1. Still(s) /\ (Continue(t) \/ Rollback(t) => pc[t] # "idle")
        BY <1>1, <1>2, OthersStill DEF Continue, LoadForPurchase, CallProvider, LoadInvoice, Commit, Rollback
    <2>2. pc[s] = "idle"
        BY <1>1, <1>2, <2>1, StartsAlone DEF Alone
    <2> QED BY <2>1, <2>2 DEF Fresh, Loaded, Still
<1>3. ASSUME NEW r \in Requests, Begin(s, r) PROVE Fresh(s)'
    BY <1>1, <1>3, LoadFresh DEF Begin, IInv, TypeOK
<1>4. ASSUME NEW r \in Requests, BeginPurchase(s, r) PROVE Fresh(s)'
    <2>1. pc'[s] = "created"
        BY <1>1, <1>4 DEF BeginPurchase, IInv, TypeOK
    <2> QED BY <2>1 DEF Fresh, Loaded
<1>5. CASE LoadForPurchase(s)
    <2>1. req[s] \in Requests /\ req[s].kind = "purchase" /\ req'[s] = req[s]
        BY <1>1, <1>5, NoneAssumption DEF LoadForPurchase, IInv, TypeOK, Serves, Buys
    <2>2. ~StopsAtLoad(req[s])
        BY <2>1 DEF StopsAtLoad
    <2> QED BY <1>1, <1>5, <2>1, <2>2, LoadFresh DEF LoadForPurchase
<1>6. CASE CallProvider(s)
    <2>1. /\ pc'[s] = "ready" /\ req'[s] = req[s] /\ got'[s] = got[s] /\ row' = row
          /\ got[s] = row /\ req[s].kind \in {"change", "cancel"} /\ got[s] \in Row
        BY <1>1, <1>6, RowTypes DEF IInv, TypeOK, CallProvider, tables, Fresh, Loaded, Holds
    <2>2. req[s].kind = "cancel" /\ ~req[s].atEnd /\ row.psub # None => provider'[row.psub].state = "cancelled"
        <3> HAVE req[s].kind = "cancel" /\ ~req[s].atEnd /\ row.psub # None
        <3>1. row.psub \in PSub /\ provider[row.psub] # None
            BY <1>1, <2>1, NoneAssumption DEF IInv, ProviderKnows, Exists, Row
        <3>2. provider[row.psub] \in ProviderSub /\ provider' = [provider EXCEPT ![row.psub].state = "cancelled"]
            BY <1>1, <1>6, <2>1, <3>1 DEF CallProvider, IInv, TypeOK
        <3> QED BY <1>1, <3>1, <3>2 DEF ProviderSub, IInv, TypeOK
    <2> QED BY <2>1, <2>2 DEF Fresh, Loaded
<1>7. CASE LoadInvoice(s)
    <2>1. /\ pc'[s] = "ready" /\ pc[s] = "loaded" /\ req'[s] = req[s] /\ got'[s] = got[s] /\ row' = row
          /\ req[s].kind \in {"failed", "paid"}
        BY <1>1, <1>7 DEF IInv, TypeOK, LoadInvoice, tables
    <2> QED BY <1>1, <2>1 DEF Fresh, Loaded
<1>8. CASE Commit(s) \/ Rollback(s)
    <2>1. pc'[s] = "idle"
        BY <1>1, <1>8 DEF Commit, Rollback, End, IInv, TypeOK
    <2> QED BY <2>1 DEF Fresh, Loaded
<1>9. CASE NextDay
    <2>1. pc[s] = "idle" /\ pc' = pc
        BY <1>9 DEF NextDay, Open
    <2> QED BY <2>1 DEF Fresh, Loaded
<1>10. CASE UNCHANGED vars
    BY <1>1, <1>10 DEF vars, Fresh, Loaded
<1> QED BY <1>2, <1>3, <1>4, <1>5, <1>6, <1>7, <1>8, <1>9, <1>10 DEF Next, Start, Continue

LEMMA CoherentKept ==
    ASSUME MaxOpen = 1, IsFiniteSet(Session), SerialInv, [Next]_vars
    PROVE  GraceHasDeadline' /\ CancelledIsNotCharged'
<1>1. IInv /\ Coherent
    BY DEF SerialInv
<1>2. ASSUME NEW s \in Session, Commit(s)
      PROVE  GraceHasDeadline' /\ CancelledIsNotCharged'
    BY <1>1, <1>2, SerialCommit DEF SerialInv
<1>3. CASE row' = row
    <2>1. GraceHasDeadline'
        BY <1>1, <1>3 DEF Coherent, GraceHasDeadline, Exists
    <2>2. Exists /\ row.psub # None => row.psub \in PSub /\ provider[row.psub] # None
        BY <1>1 DEF IInv, ProviderKnows, TypeOK, Row, Exists
    <2>3. CancelledIsNotCharged'
        BY <1>1, <1>3, <2>2, ChargesStop DEF Coherent, CancelledIsNotCharged, Exists
    <2> QED BY <2>1, <2>3
<1>4. CASE NextDay
    <2>1. row \in Row /\ row # None /\ row.graceLeft \notin {None, 0} /\ provider' = provider
        BY <1>1, <1>4 DEF NextDay, IInv, TypeOK
    <2>2. row.graceLeft - 1 \in 0..GraceDays
        BY <2>1, ConstantsAssumption DEF Row
    <2>3. /\ row'.graceLeft = row.graceLeft - 1
          /\ row'.status = row.status /\ row'.psub = row.psub
        BY <1>4, <2>1 DEF NextDay, Row
    <2>4. row'.graceLeft # None
        BY <2>2, <2>3, NoDeadlineMissing
    <2> QED BY <1>1, <2>1, <2>3, <2>4 DEF Coherent, GraceHasDeadline, CancelledIsNotCharged, Exists
<1>5. ASSUME NEW s \in Session, Start(s) \/ Rollback(s) \/ LoadForPurchase(s) \/ CallProvider(s) \/ LoadInvoice(s)
      PROVE  row' = row
    BY <1>5 DEF Start, Begin, BeginPurchase, LoadForPurchase, Load, CallProvider, LoadInvoice, Rollback, tables
<1> QED BY <1>2, <1>3, <1>4, <1>5 DEF Next, Continue, vars

LEMMA InitSerial == Init => SerialInv
    BY InitIInv DEF Init, SerialInv, Alone, Coherent, GraceHasDeadline, CancelledIsNotCharged,
                    Exists, Fresh, Loaded, IInv

LEMMA NextSerial ==
    ASSUME MaxOpen = 1, IsFiniteSet(Session), SerialInv, [Next]_vars
    PROVE  SerialInv'
<1>1. IInv' /\ Alone'
    BY NextIInv, AloneKept DEF SerialInv
<1>2. TypeOK'
    BY <1>1 DEF IInv
<1>3. \A s \in Session : Fresh(s)'
    BY FreshKept
<1> QED BY <1>1, <1>2, <1>3, CoherentKept DEF SerialInv, Coherent

\* One request at a time: what a session loaded is the row it will write over,
\* and an immediate cancel that is still to commit has been passed on.
THEOREM SerialInvariance ==
    ASSUME MaxOpen = 1, IsFiniteSet(Session)
    PROVE  Spec => []SerialInv
<1>1. SerialInv /\ [Next]_vars => SerialInv'
    BY NextSerial
<1> QED BY <1>1, InitSerial, PTL DEF Spec

\* models/subscription.py, services/subscription.py cancel: one request at a
\* time, a grace period has the deadline the sweep looks for, and a cancelled
\* subscription is cancelled at the provider too, whatever crashes.
THEOREM RowIsCoherent ==
    ASSUME MaxOpen = 1, IsFiniteSet(Session)
    PROVE  Spec => []Coherent
<1>1. SerialInv => Coherent
    BY DEF SerialInv
<1> QED BY <1>1, SerialInvariance, PTL

-----------------------------------------------------------------------------
(***************************************************************************)
(* Reminders.  RemindedOnce alone is not inductive: that a run may send    *)
(* rests on its reminder being marked (HandsAreMarked), still unmailed and *)
(* in no other run's hands, or forgotten (HandsAreSole).                   *)
(***************************************************************************)

IdleRun == [pc: {"idle"}, last: Int]
LoopRun == [pc: {"loop"}, last: Int, left: SUBSET Bill]
BusyRun == [pc: {"loop", "owner", "send"}, last: Int, left: SUBSET Bill, at: Reminder]
AnyRun == IdleRun \cup LoopRun \cup BusyRun

InHand(r) == run[r].pc \in {"owner", "send"}
Mailed(k) == \E m \in mails : m[1] = k

Typed ==
    /\ RemindersTypeOK
    /\ paidOn \in [Bill -> Int]
    /\ run \in [Run -> AnyRun]
    /\ \A r \in Run : InHand(r) => run[r] \in BusyRun
    /\ \A r \in Run : run[r].pc = "loop" => run[r].left \in SUBSET Bill

\* A run that goes on is today's, and so is what it holds.
Todays ==
    \A r \in Run : run[r].pc # "idle" =>
        /\ run[r].last = day
        /\ \A i \in run[r].left : i \in unpaid \/ paidOn[i] >= day
        /\ InHand(r) =>
              /\ run[r].at[2] = Due[run[r].at[1]] - day
              /\ run[r].at[1] \in unpaid \/ paidOn[run[r].at[1]] >= day

HandsAreMarked == \A r \in Run : InHand(r) => run[r].at \in marked \cup forgotten
MailsAreMarked == \A m \in mails : m[1] \in marked \cup forgotten
HandsAreSole ==
    \A r \in Run : InHand(r) =>
        \/ run[r].at \in forgotten
        \/ /\ ~Mailed(run[r].at)
           /\ \A o \in Run \ {r} : InHand(o) => run[o].at # run[r].at

\* A reminder is mailed, given up, or still in some run's hands.
Settled(k) == k \in dropped \/ Mailed(k) \/ \E o \in Run : InHand(o) /\ run[o].at = k
MarksAreSettled == \A k \in marked : Settled(k)
PassedAreSettled ==
    \A r \in Run : run[r].pc # "idle" =>
        \A i \in Bill \ run[r].left :
            i \in unpaid /\ DaysToDue(r, i) \in Offset =>
                <<i, DaysToDue(r, i)>> \in forgotten \/ Settled(<<i, DaysToDue(r, i)>>)
MailsAreTimely ==
    \A m \in mails :
        /\ m[2] <= day
        /\ m[1][1] \notin unpaid => paidOn[m[1][1]] >= m[2]

RemindersInv ==
    /\ Typed /\ Todays
    /\ HandsAreMarked /\ MailsAreMarked /\ HandsAreSole /\ RemindedOnce
    /\ MarksAreSettled /\ PassedAreSettled /\ MailsAreTimely

-----------------------------------------------------------------------------
\* The calendar has a first day.
LEMMA FirstDayIsADay == FirstDay \in Day /\ FirstDay \in Int
BY RemindersAssumption DEF FirstDay

\* Initially nothing is marked and no run goes on.
LEMMA InitRemindersInv == RemindersInit => RemindersInv
<1> SUFFICES ASSUME RemindersInit PROVE RemindersInv
    OBVIOUS
<1> USE DEF RemindersInit, Idle, InHand, Mailed
<1>1. Typed
    BY FirstDayIsADay DEF Typed, RemindersTypeOK, AnyRun, IdleRun
<1>2. Todays /\ HandsAreMarked /\ HandsAreSole /\ PassedAreSettled
    BY DEF Todays, HandsAreMarked, HandsAreSole, PassedAreSettled
<1>3. MailsAreMarked /\ RemindedOnce /\ MailsAreTimely /\ MarksAreSettled
    BY DEF MailsAreMarked, RemindedOnce, MailsAreTimely, MarksAreSettled
<1> QED BY <1>1, <1>2, <1>3 DEF RemindersInv

-----------------------------------------------------------------------------
(* One lemma per action.                                                   *)

LEMMA StartRunKeeps == ASSUME RemindersInv, NEW r \in Run, StartRun(r) PROVE RemindersInv'
<1> USE DEF RemindersInv, InHand, Mailed
<1>1. /\ run[r].pc = "idle" /\ run' = [run EXCEPT ![r] = [pc |-> "loop", last |-> day, left |-> unpaid]]
      /\ UNCHANGED <<day, unpaid, reachable, paidOn, marked, mails, forgotten, dropped>>
    BY DEF StartRun, Loops, Selected, world, ghosts
<1>2. Typed'
    <2>1. RemindersTypeOK'
        BY <1>1 DEF Typed, RemindersTypeOK
    <2>2. run' \in [Run -> AnyRun]
        BY <1>1, RemindersAssumption DEF Typed, RemindersTypeOK, AnyRun, LoopRun
    <2> QED BY <1>1, <2>1, <2>2 DEF Typed, RemindersTypeOK
<1>3. Todays'
    BY <1>1 DEF Todays, Typed
<1>4. HandsAreMarked' /\ HandsAreSole'
    BY <1>1 DEF HandsAreMarked, HandsAreSole, Typed
<1>5. MailsAreMarked' /\ RemindedOnce' /\ MailsAreTimely'
    BY <1>1 DEF MailsAreMarked, RemindedOnce, MailsAreTimely
<1>6. MarksAreSettled'
    BY <1>1 DEF MarksAreSettled, Settled, Typed
<1>7. PassedAreSettled'
    BY <1>1 DEF PassedAreSettled, Settled, DaysToDue, Now, Typed
<1> QED BY <1>2, <1>3, <1>4, <1>5, <1>6, <1>7

LEMMA SkipKeeps == ASSUME RemindersInv, NEW r \in Run, Skip(r) PROVE RemindersInv'
<1> USE DEF RemindersInv, InHand, Mailed
<1>1. PICK i \in run[r].left :
         /\ DaysToDue(r, i) \in Offset => MarkKey(r, i) \in marked
         /\ run' = [run EXCEPT ![r].left = @ \ {i}]
    BY DEF Skip, Pass
<1>2. /\ run[r].pc = "loop"
      /\ UNCHANGED <<day, unpaid, reachable, paidOn, marked, mails, forgotten, dropped>>
    BY DEF Skip, Pass, world, ghosts
<1>3. /\ run' \in [Run -> AnyRun]
      /\ run'[r].pc = "loop" /\ run'[r].last = run[r].last
      /\ run'[r].left = run[r].left \ {i} /\ run'[r].left \in SUBSET Bill
      /\ \A o \in Run \ {r} : run'[o] = run[o]
    BY <1>1, <1>2 DEF Typed, AnyRun, IdleRun, LoopRun, BusyRun
<1>4. Typed'
    BY <1>2, <1>3 DEF Typed, RemindersTypeOK
<1>5. Todays'
    BY <1>2, <1>3 DEF Todays, Typed
<1>6. HandsAreMarked' /\ HandsAreSole'
    BY <1>2, <1>3 DEF HandsAreMarked, HandsAreSole, Typed
<1>7. MailsAreMarked' /\ RemindedOnce' /\ MailsAreTimely'
    BY <1>2 DEF MailsAreMarked, RemindedOnce, MailsAreTimely
<1>8. \A k : Settled(k) => Settled(k)'
    BY <1>2, <1>3 DEF Settled, Typed
<1>9. MarksAreSettled'
    BY <1>2, <1>8 DEF MarksAreSettled
<1>10. PassedAreSettled'
    BY <1>1, <1>2, <1>3, <1>8 DEF PassedAreSettled, MarksAreSettled, DaysToDue, Now, MarkKey, Typed
<1> QED BY <1>4, <1>5, <1>6, <1>7, <1>9, <1>10
LEMMA MarkKeeps == ASSUME RemindersInv, NEW r \in Run, Mark(r) PROVE RemindersInv'
<1> USE DEF RemindersInv, InHand, Mailed
<1> DEFINE k(i) == <<i, DaysToDue(r, i)>>
<1>1. PICK i \in run[r].left :
         /\ DaysToDue(r, i) \in Offset /\ k(i) \notin marked
         /\ marked' = marked \cup {k(i)}
         /\ run' = [run EXCEPT ![r] = [pc |-> "owner", last |-> run[r].last, left |-> run[r].left \ {i},
                                       at |-> k(i)]]
    BY DEF Mark, To, Now, MarkKey
<1>2. /\ run[r].pc = "loop" /\ run[r].left \in SUBSET Bill
      /\ UNCHANGED <<day, unpaid, reachable, paidOn, mails, forgotten, dropped>>
    BY DEF Mark, world, ghosts, Typed
<1>3. k(i) \in Reminder
    BY <1>1, <1>2 DEF Reminder
<1>4. run[r].last \in Int
    BY DEF Typed, AnyRun, IdleRun, LoopRun, BusyRun
<1>5. /\ run' \in [Run -> AnyRun] /\ run'[r] \in BusyRun
      /\ run'[r].pc = "owner" /\ run'[r].last = run[r].last
      /\ run'[r].left = run[r].left \ {i} /\ run'[r].at = k(i)
      /\ \A o \in Run \ {r} : run'[o] = run[o]
    BY <1>1, <1>2, <1>3, <1>4 DEF Typed, AnyRun, BusyRun
<1> HIDE DEF k
<1>6. Typed'
    BY <1>1, <1>2, <1>3, <1>5 DEF Typed, RemindersTypeOK
<1>7. Todays'
    <2>1. k(i)[1] = i /\ k(i)[2] = Due[i] - day
        BY <1>2 DEF k, DaysToDue, Now, Todays
    <2> QED BY <1>1, <1>2, <1>5, <2>1 DEF Todays, Typed
<1>8. HandsAreMarked' /\ MailsAreMarked'
    BY <1>1, <1>2, <1>5 DEF HandsAreMarked, MailsAreMarked, Typed
<1>9. HandsAreSole'
    BY <1>1, <1>2, <1>5 DEF HandsAreSole, HandsAreMarked, MailsAreMarked, Typed
<1>10. RemindedOnce' /\ MailsAreTimely'
    BY <1>2 DEF RemindedOnce, MailsAreTimely
<1>11. \A x : Settled(x) \/ x = k(i) => Settled(x)'
    BY <1>2, <1>5 DEF Settled, Typed
<1>12. MarksAreSettled'
    BY <1>1, <1>11 DEF MarksAreSettled
<1>13. PassedAreSettled'
    BY <1>1, <1>2, <1>5, <1>11 DEF PassedAreSettled, DaysToDue, Now, Typed, k
<1> QED BY <1>6, <1>7, <1>8, <1>9, <1>10, <1>12, <1>13

LEMMA OwnerKeeps == ASSUME RemindersInv, NEW r \in Run, Owner(r) PROVE RemindersInv'
<1> USE DEF RemindersInv, InHand, Mailed
<1>1. /\ run[r].pc = "owner" /\ run[r] \in BusyRun
      /\ UNCHANGED <<day, unpaid, reachable, paidOn, marked, mails, forgotten>>
    BY DEF Owner, world, Typed
<1>2. /\ run' \in [Run -> AnyRun] /\ run'[r] \in BusyRun
      /\ run'[r].last = run[r].last /\ run'[r].left = run[r].left /\ run'[r].at = run[r].at
      /\ \/ run'[r].pc = "send" /\ dropped' = dropped
         \/ run'[r].pc = "loop" /\ dropped' = dropped \cup {run[r].at}
      /\ \A o \in Run \ {r} : run'[o] = run[o]
    BY <1>1 DEF Owner, Typed, AnyRun, BusyRun
<1>3. Typed'
    BY <1>1, <1>2 DEF Typed, RemindersTypeOK, BusyRun
<1>4. Todays' /\ HandsAreMarked' /\ HandsAreSole'
    BY <1>1, <1>2 DEF Todays, HandsAreMarked, HandsAreSole, Typed
<1>5. MailsAreMarked' /\ RemindedOnce' /\ MailsAreTimely'
    BY <1>1 DEF MailsAreMarked, RemindedOnce, MailsAreTimely
<1>6. \A k : Settled(k) => Settled(k)'
    BY <1>1, <1>2 DEF Settled, Typed
<1>7. MarksAreSettled' /\ PassedAreSettled'
    BY <1>1, <1>2, <1>6 DEF MarksAreSettled, PassedAreSettled, DaysToDue, Now, Typed
<1> QED BY <1>3, <1>4, <1>5, <1>7

LEMMA SendKeeps == ASSUME RemindersInv, NEW r \in Run, Send(r) PROVE RemindersInv'
<1> USE DEF RemindersInv, InHand, Mailed
<1> DEFINE m == <<run[r].at, day, r>>
<1>1. /\ run[r].pc = "send" /\ run[r] \in BusyRun /\ run[r].at \in Reminder
      /\ UNCHANGED <<day, unpaid, reachable, paidOn, marked, forgotten, dropped>>
      /\ mails' = mails \cup {m}
    BY DEF Send, world, ghosts, Typed, BusyRun
<1>2. /\ run' \in [Run -> AnyRun] /\ run'[r] \in BusyRun
      /\ run'[r].pc = "loop" /\ run'[r].last = run[r].last
      /\ run'[r].left = run[r].left /\ run'[r].at = run[r].at
      /\ \A o \in Run \ {r} : run'[o] = run[o]
    BY <1>1 DEF Send, Typed, AnyRun, BusyRun
<1>3. m \in Reminder \X Day \X Run /\ m[1] = run[r].at /\ m[2] = day
    BY <1>1 DEF Typed, RemindersTypeOK
<1> HIDE DEF m
<1>4. Typed'
    BY <1>1, <1>2, <1>3 DEF Typed, RemindersTypeOK, BusyRun
<1>5. Todays' /\ HandsAreMarked'
    BY <1>1, <1>2 DEF Todays, HandsAreMarked, Typed
<1>6. MailsAreMarked'
    BY <1>1, <1>3 DEF MailsAreMarked, HandsAreMarked
<1>7. HandsAreSole'
    BY <1>1, <1>2, <1>3 DEF HandsAreSole, Typed
<1>8. RemindedOnce'
    BY <1>1, <1>3 DEF RemindedOnce, HandsAreSole
<1>9. MailsAreTimely'
    <2>1. day \in Int
        BY RemindersAssumption DEF Typed, RemindersTypeOK
    <2>2. m[2] <= day
        BY <1>3, <2>1
    <2>3. m[1][1] \notin unpaid => paidOn[m[1][1]] >= m[2]
        BY <1>1, <1>3 DEF Todays
    <2> QED BY <1>1, <2>2, <2>3 DEF MailsAreTimely
<1>10. \A k : Settled(k) => Settled(k)'
    BY <1>1, <1>2, <1>3 DEF Settled, Typed
<1>11. MarksAreSettled' /\ PassedAreSettled'
    BY <1>1, <1>2, <1>10 DEF MarksAreSettled, PassedAreSettled, DaysToDue, Now, Typed
<1> QED BY <1>4, <1>5, <1>6, <1>7, <1>8, <1>9, <1>11
\* The end of a run, and its end before that: what it held is given up.
LEMMA IdleAgain ==
    ASSUME RemindersInv, NEW r \in Run, run[r].pc # "idle",
           run' = [run EXCEPT ![r] = [pc |-> "idle", last |-> Now(r)]],
           dropped' = dropped \cup IF InHand(r) THEN {run[r].at} ELSE {},
           UNCHANGED <<world, marked, mails, forgotten>>
    PROVE  RemindersInv'
<1> USE DEF RemindersInv, InHand, Mailed
<1>1. /\ UNCHANGED <<day, unpaid, reachable, paidOn, marked, mails, forgotten>>
      /\ InHand(r) => run[r].at \in Reminder
      /\ run[r].last \in Int
    BY DEF world, Typed, AnyRun, IdleRun, LoopRun, BusyRun
<1>2. /\ run' \in [Run -> AnyRun] /\ run'[r].pc = "idle"
      /\ \A o \in Run \ {r} : run'[o] = run[o]
    BY <1>1 DEF Now, Typed, AnyRun, IdleRun
<1>3. Typed'
    BY <1>1, <1>2 DEF Typed, RemindersTypeOK
<1>4. Todays' /\ HandsAreMarked' /\ HandsAreSole'
    BY <1>1, <1>2 DEF Todays, HandsAreMarked, HandsAreSole, Typed
<1>5. MailsAreMarked' /\ RemindedOnce' /\ MailsAreTimely'
    BY <1>1 DEF MailsAreMarked, RemindedOnce, MailsAreTimely
<1>6. \A k : Settled(k) => Settled(k)'
    BY <1>1, <1>2 DEF Settled, Typed
<1>7. MarksAreSettled' /\ PassedAreSettled'
    BY <1>1, <1>2, <1>6 DEF MarksAreSettled, PassedAreSettled, DaysToDue, Now, Typed
<1> QED BY <1>3, <1>4, <1>5, <1>7

LEMMA DoneKeeps == ASSUME RemindersInv, NEW r \in Run, Done(r) PROVE RemindersInv'
BY IdleAgain DEF Done, InHand, ghosts

LEMMA BreakKeeps == ASSUME RemindersInv, NEW r \in Run, Break(r) PROVE RemindersInv'
BY IdleAgain DEF Break, InHand

LEMMA DaysPassKeeps == ASSUME RemindersInv, DaysPass PROVE RemindersInv'
<1> USE DEF RemindersInv, InHand, Mailed
<1>1. /\ \A r \in Run : run[r].pc = "idle"
      /\ day \in Int /\ day' \in Day /\ day' \in Int /\ day' > day
      /\ UNCHANGED <<unpaid, reachable, paidOn, marked, run, mails, forgotten, dropped>>
    BY RemindersAssumption DEF DaysPass, ghosts, Typed, RemindersTypeOK
<1>2. Typed'
    BY <1>1 DEF Typed, RemindersTypeOK
<1>3. Todays' /\ HandsAreMarked' /\ HandsAreSole' /\ PassedAreSettled'
    BY <1>1 DEF Todays, HandsAreMarked, HandsAreSole, PassedAreSettled
<1>4. MailsAreMarked' /\ RemindedOnce' /\ MarksAreSettled'
    BY <1>1 DEF MailsAreMarked, RemindedOnce, MarksAreSettled, Settled
<1>5. MailsAreTimely'
    <2> SUFFICES ASSUME NEW m \in mails PROVE m[2] \in Int /\ m[2] <= day /\ m[2] <= day'
        BY <1>1 DEF MailsAreTimely
    <2>1. m[2] \in Day
        BY DEF Typed, RemindersTypeOK
    <2>2. m[2] \in Int /\ m[2] <= day
        BY <2>1, RemindersAssumption DEF MailsAreTimely
    <2> QED BY <1>1, <2>2
<1> QED BY <1>2, <1>3, <1>4, <1>5

LEMMA PayKeeps == ASSUME RemindersInv, NEW i \in Bill, Pay(i) PROVE RemindersInv'
<1> USE DEF RemindersInv, InHand, Mailed
<1>1. /\ i \in unpaid /\ unpaid' = unpaid \ {i}
      /\ paidOn' = [paidOn EXCEPT ![i] = day] /\ day \in Int
      /\ UNCHANGED <<day, reachable, marked, run, mails, forgotten, dropped>>
    BY RemindersAssumption DEF Pay, ghosts, Typed, RemindersTypeOK
<1>2. Typed'
    BY <1>1 DEF Typed, RemindersTypeOK
<1>3. Todays'
    <2> SUFFICES ASSUME NEW r \in Run, run[r].pc # "idle", NEW j \in Bill,
                        j \in unpaid \/ paidOn[j] >= day
                 PROVE  j \in unpaid' \/ paidOn'[j] >= day
        BY <1>1 DEF Todays, Typed, AnyRun, IdleRun, LoopRun, BusyRun, Reminder
    <2> QED BY <1>1 DEF Typed
<1>4. HandsAreMarked' /\ HandsAreSole' /\ MailsAreMarked' /\ RemindedOnce' /\ MarksAreSettled'
    BY <1>1 DEF HandsAreMarked, HandsAreSole, MailsAreMarked, RemindedOnce, MarksAreSettled, Settled
<1>5. PassedAreSettled'
    BY <1>1 DEF PassedAreSettled, Settled, DaysToDue, Now
<1>6. MailsAreTimely'
    <2> SUFFICES ASSUME NEW m \in mails, m[1][1] \notin unpaid' PROVE paidOn'[m[1][1]] >= m[2]
        BY <1>1 DEF MailsAreTimely
    <2>1. m[1][1] \in Bill
        BY DEF Typed, RemindersTypeOK, Reminder
    <2> QED BY <1>1, <2>1 DEF MailsAreTimely, Typed
<1> QED BY <1>2, <1>3, <1>4, <1>5, <1>6

LEMMA OwnerComesBackKeeps == ASSUME RemindersInv, NEW i \in Bill, OwnerComesBack(i) PROVE RemindersInv'
<1> USE DEF RemindersInv, InHand, Mailed
<1>1. /\ reachable' = reachable \cup {i}
      /\ UNCHANGED <<day, unpaid, paidOn, marked, run, mails, forgotten, dropped>>
    BY DEF OwnerComesBack, ghosts
<1>2. Typed' /\ Todays'
    BY <1>1 DEF Typed, RemindersTypeOK, Todays
<1>3. HandsAreMarked' /\ HandsAreSole' /\ MailsAreMarked' /\ RemindedOnce' /\ MailsAreTimely'
    BY <1>1 DEF HandsAreMarked, HandsAreSole, MailsAreMarked, RemindedOnce, MailsAreTimely
<1>4. MarksAreSettled' /\ PassedAreSettled'
    BY <1>1 DEF MarksAreSettled, PassedAreSettled, Settled, DaysToDue, Now
<1> QED BY <1>2, <1>3, <1>4

LEMMA RedisForgetsKeeps == ASSUME RemindersInv, RedisForgets PROVE RemindersInv'
<1> USE DEF RemindersInv, InHand, Mailed
<1>1. /\ marked' = {} /\ forgotten' = forgotten \cup marked
      /\ UNCHANGED <<day, unpaid, reachable, paidOn, run, mails, dropped>>
    BY DEF RedisForgets, world
<1>2. Typed' /\ Todays'
    BY <1>1 DEF Typed, RemindersTypeOK, Todays
<1>3. HandsAreMarked' /\ HandsAreSole' /\ MailsAreMarked' /\ RemindedOnce' /\ MailsAreTimely'
    BY <1>1 DEF HandsAreMarked, HandsAreSole, MailsAreMarked, RemindedOnce, MailsAreTimely
<1>4. MarksAreSettled' /\ PassedAreSettled'
    BY <1>1 DEF MarksAreSettled, PassedAreSettled, Settled, DaysToDue, Now
<1> QED BY <1>2, <1>3, <1>4
-----------------------------------------------------------------------------
LEMMA RemindersStepKeeps == RemindersInv /\ [RemindersNext]_reminderVars => RemindersInv'
<1> SUFFICES ASSUME RemindersInv, [RemindersNext]_reminderVars PROVE RemindersInv'
    OBVIOUS
<1>1. CASE \E r \in Run : StartRun(r) \/ Skip(r) \/ Mark(r)
    BY <1>1, StartRunKeeps, SkipKeeps, MarkKeeps
<1>2. CASE \E r \in Run : Owner(r) \/ Send(r)
    BY <1>2, OwnerKeeps, SendKeeps
<1>3. CASE \E r \in Run : Done(r) \/ Break(r)
    BY <1>3, DoneKeeps, BreakKeeps
<1>4. CASE DaysPass \/ RedisForgets
    BY <1>4, DaysPassKeeps, RedisForgetsKeeps
<1>5. CASE \E i \in Bill : Pay(i) \/ OwnerComesBack(i)
    BY <1>5, PayKeeps, OwnerComesBackKeeps
<1>6. CASE UNCHANGED reminderVars
    <2>1. /\ Typed' /\ Todays' /\ HandsAreMarked' /\ MailsAreMarked' /\ HandsAreSole' /\ RemindedOnce'
          /\ MailsAreTimely'
        BY <1>6 DEF reminderVars, RemindersInv, Typed, RemindersTypeOK, Todays, HandsAreMarked, MailsAreMarked, HandsAreSole,
                    RemindedOnce, MailsAreTimely, InHand, Mailed
    <2>2. MarksAreSettled' /\ PassedAreSettled'
        BY <1>6 DEF reminderVars, RemindersInv, MarksAreSettled, PassedAreSettled, Settled, InHand, Mailed, DaysToDue, Now
    <2> QED BY <2>1, <2>2 DEF RemindersInv
<1> QED BY <1>1, <1>2, <1>3, <1>4, <1>5, <1>6 DEF RemindersNext

\* The inductive invariant of the daily run holds in every reachable state.
THEOREM RemindersInvariance == RemindersSpec => []RemindersInv
BY InitRemindersInv, RemindersStepKeeps, PTL DEF RemindersSpec

\* payment_reminders.py _already_sent: however often the job is retried, and
\* however many attempts overlap, no reminder is mailed twice unless Redis
\* lost its mark.
THEOREM NoSecondReminder == RemindersSpec => []RemindedOnce
<1>1. RemindersInv => RemindedOnce
    BY DEF RemindersInv
<1> QED BY <1>1, RemindersInvariance, PTL

\* payment_reminders.py dispatch_due_reminders: for any due days and calendar,
\* a mark stands for a mail or a reminder that was given up, a run leaves
\* behind only invoices that are settled, and none that was paid before the day
\* of its mail is mailed about.
THEOREM EveryReminderAccountedFor == RemindersSpec => []RemindersAccountedFor
<1>1. RemindersInv => RemindersAccountedFor
    <2> SUFFICES ASSUME RemindersInv PROVE RemindersAccountedFor
        OBVIOUS
    <2>1. RemindersTypeOK /\ MarkStandsForMail
        BY DEF RemindersInv, Typed, MarksAreSettled, Settled, MarkStandsForMail, InHand, Mailed
    <2>2. RunReachesEveryInvoice
        BY DEF RemindersInv, PassedAreSettled, Settled, RunReachesEveryInvoice, InHand, Mailed
    <2>3. PaidIsLeftAlone
        BY DEF RemindersInv, MailsAreTimely, PaidIsLeftAlone
    <2> QED BY <2>1, <2>2, <2>3 DEF RemindersAccountedFor
<1> QED BY <1>1, RemindersInvariance, PTL
=============================================================================
