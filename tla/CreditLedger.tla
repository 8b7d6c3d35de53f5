---------------------------- MODULE CreditLedger ----------------------------
(***************************************************************************)
(* The credit wallets and their journal (app/services/credit.py), as       *)
(* concurrent requests of the API run them against PostgreSQL.             *)
(*                                                                         *)
(* Every request is one database transaction: session_scope commits it     *)
(* when the handler returns and rolls it back when anything raises.  The   *)
(* isolation level is READ COMMITTED, so each statement sees what is       *)
(* committed when it runs; what a request writes is visible to others      *)
(* only after its commit.  One action below is one statement.              *)
(*                                                                         *)
(* consume and reset_period read the wallet with SELECT ... FOR UPDATE.    *)
(* grant reads it with a plain SELECT and later writes the absolute        *)
(* balance it computed from that read; it owns the row lock only from that *)
(* UPDATE on.                                                              *)
(***************************************************************************)
EXTENDS Naturals, Integers, Sequences

CONSTANTS
    Txn,        \* requests, each one database transaction
    NoTxn,      \* "no holder" of a row lock
    Wallet,     \* (tenant, feature_key) pairs, the unique key of credit_wallets
    Ref,        \* external references callers pass to dedupe replays
    NoRef,      \* a call made without a reference
    Product,    \* products
    ProductOf,  \* the product of the tenant a wallet belongs to
    Requests    \* the requests that may arrive

Kind == {"grant", "consume", "reset"}

\* A request: "grant" covers a manual grant (one wallet) and
\* grant_plan_credits (one wallet per plan feature with credits).
Request == [kind: Kind, wallets: SUBSET Wallet \ {{}}, amount: Nat \ {0},
            ref: Ref \cup {NoRef}, product: Product]

\* A row of credit_ledger.  base is a history field: how many committed
\* entries the wallet had when the writer read its balance.
Entry == [wallet: Wallet, kind: Kind, amount: Int, ref: Ref \cup {NoRef},
          after: Int, base: Nat]

ASSUME RequestsAssumption ==
    /\ Requests \subseteq Request
    /\ \A q \in Requests : q.kind # "grant" => \E w \in Wallet : q.wallets = {w}
ASSUME WalletAssumption == Wallet # {}
ASSUME NoTxnAssumption == NoTxn \notin Txn
ASSUME ProductOfAssumption == ProductOf \in [Wallet -> Product]

VARIABLES
    wallets,  \* committed rows of credit_wallets
    balance,  \* their committed balance (0 for a row that does not exist)
    ledger,   \* committed entries of each wallet, in commit order
    lock,     \* the transaction that holds a wallet's row lock
    pc,       \* where a request is
    req,      \* what it asks for
    todo,     \* wallets it has not handled yet
    cur,      \* the wallet it is handling
    seen,     \* the balance it read there, and the entries committed by then
    pend      \* ledger rows it has flushed and not committed

vars == <<wallets, balance, ledger, lock, pc, req, todo, cur, seen, pend>>
tables == <<wallets, balance, ledger>>

\* Mutant of Unread: the new row object carries no balance before its flush.
NoDefaultBalance == [balance |-> NoTxn, entries |-> 0]

\* What a request knows of a wallet it is about to create.
Unread == [balance |-> 0, entries |-> 0]
ReadWallet(w) == [balance |-> balance[w], entries |-> Len(ledger[w])]
Free(t, w) == lock[w] \in {NoTxn, t}
Locks(t) == req[t].kind \in {"consume", "reset"}

Init ==
    /\ wallets = {}
    /\ balance = [w \in Wallet |-> 0]
    /\ ledger = [w \in Wallet |-> <<>>]
    /\ lock = [w \in Wallet |-> NoTxn]
    /\ pc = [t \in Txn |-> "idle"]
    /\ req \in [Txn -> Requests]
    /\ todo = [t \in Txn |-> req[t].wallets]
    /\ cur = [t \in Txn |-> CHOOSE w \in Wallet : TRUE]
    /\ seen = [t \in Txn |-> Unread]
    /\ pend = [t \in Txn |-> {}]

\* Mutant of Release: locks survive the end of the transaction.
ReleaseNothing(t) == [w \in Wallet |-> lock[w]]

Release(t) == [w \in Wallet |-> IF lock[w] = t THEN NoTxn ELSE lock[w]]

\* session_scope's except branch: the handler raised, everything is undone.
Fail(t) ==
    /\ pc' = [pc EXCEPT ![t] = "failed"]
    /\ lock' = Release(t)
    /\ pend' = [pend EXCEPT ![t] = {}]
    /\ UNCHANGED <<tables, req, todo, cur, seen>>

\* The request reaches the service and takes up its next wallet.
\* plan.features has no ORDER BY, so the order is the database's choice.
Start(t, w) ==
    /\ pc[t] \in {"idle", "next"}
    /\ w \in todo[t]
    /\ todo' = [todo EXCEPT ![t] = @ \ {w}]
    /\ cur' = [cur EXCEPT ![t] = w]
    /\ pc' = [pc EXCEPT ![t] = "select"]
    /\ UNCHANGED <<tables, lock, req, seen, pend>>

\* grant: the plain SELECT of _get_or_create_wallet.
SelectWallet(t) ==
    /\ pc[t] = "select" /\ ~Locks(t)
    /\ IF cur[t] \in wallets
       THEN /\ seen' = [seen EXCEPT ![t] = ReadWallet(cur[t])]
            /\ pc' = [pc EXCEPT ![t] = "check"]
       ELSE /\ seen' = [seen EXCEPT ![t] = Unread]
            /\ pc' = [pc EXCEPT ![t] = "insert"]
    /\ UNCHANGED <<tables, lock, req, todo, cur, pend>>

\* grant: the INSERT of a missing wallet.  The unique key makes it wait for
\* a concurrent INSERT of the same wallet and fail if that one committed
\* (IntegrityError, answered 409).
InsertWallet(t) ==
    /\ pc[t] = "insert"
    /\ \/ /\ cur[t] \in wallets
          /\ Fail(t)
       \/ /\ cur[t] \notin wallets /\ Free(t, cur[t])
          /\ lock' = [lock EXCEPT ![cur[t]] = t]
          /\ pc' = [pc EXCEPT ![t] = "check"]
          /\ UNCHANGED <<tables, req, todo, cur, seen, pend>>

\* Mutant of LockWallet: the SELECT lost its FOR UPDATE.
ReadWithoutLock(t) ==
    /\ pc[t] = "select" /\ Locks(t)
    /\ cur[t] \in wallets /\ req[t].product = ProductOf[cur[t]]
    /\ seen' = [seen EXCEPT ![t] = ReadWallet(cur[t])]
    /\ pc' = [pc EXCEPT ![t] = "check"]
    /\ UNCHANGED <<tables, lock, req, todo, cur, pend>>

\* consume and reset_period: _lock_wallet, then the product check.  A row
\* that another request has not committed yet is not found.
LockWallet(t) ==
    /\ pc[t] = "select" /\ Locks(t)
    /\ \/ /\ cur[t] \notin wallets
          /\ Fail(t)
       \/ /\ cur[t] \in wallets /\ Free(t, cur[t])
          /\ IF req[t].product # ProductOf[cur[t]]
             THEN Fail(t)
             ELSE /\ lock' = [lock EXCEPT ![cur[t]] = t]
                  /\ seen' = [seen EXCEPT ![t] = ReadWallet(cur[t])]
                  /\ pc' = [pc EXCEPT ![t] = "check"]
                  /\ UNCHANGED <<tables, req, todo, cur, pend>>

\* _was_referenced: some committed entry of the wallet carries the reference.
Referenced(t) ==
    /\ req[t].ref # NoRef
    /\ \E i \in 1..Len(ledger[cur[t]]) : ledger[cur[t]][i].ref = req[t].ref

\* Mutant of Insufficient: a debit is refused only on an empty wallet.
InsufficientWhenEmpty(t) == req[t].kind = "consume" /\ seen[t].balance = 0
\* The early returns and the refusal that follow the reads.
AlreadyDone(t) == CASE req[t].kind = "reset" -> seen[t].balance = 0
                    [] OTHER -> Referenced(t)
Insufficient(t) == req[t].kind = "consume" /\ seen[t].balance < req[t].amount

Check(t) ==
    /\ pc[t] = "check"
    /\ IF ~AlreadyDone(t) /\ Insufficient(t)
       THEN Fail(t)
       ELSE /\ pc' = [pc EXCEPT ![t] = IF AlreadyDone(t) THEN "next" ELSE "write"]
            /\ UNCHANGED <<tables, lock, req, todo, cur, seen, pend>>

\* Mutant of Delta: the EXPIRY entry carries the wrong amount.
DeltaOfRequest(t) == IF req[t].kind = "grant" THEN req[t].amount ELSE -req[t].amount

\* The signed amount a request enters in the journal.
Delta(t) == CASE req[t].kind = "grant"   -> req[t].amount
              [] req[t].kind = "consume" -> -req[t].amount
              [] req[t].kind = "reset"   -> -seen[t].balance

\* The balance the session holds after the in-memory change.
NewBalance(t) == IF req[t].kind = "reset" THEN 0 ELSE seen[t].balance + Delta(t)

NewEntry(t) ==
    [wallet |-> cur[t], kind |-> req[t].kind, amount |-> Delta(t),
     ref |-> IF req[t].kind = "reset" THEN NoRef ELSE req[t].ref,
     after |-> NewBalance(t), base |-> seen[t].entries]

\* db.flush(): UPDATE credit_wallets with the absolute balance (waiting for
\* the row lock) and INSERT INTO credit_ledger.
Flush(t) ==
    /\ pc[t] = "write" /\ Free(t, cur[t])
    /\ lock' = [lock EXCEPT ![cur[t]] = t]
    /\ pend' = [pend EXCEPT ![t] = @ \cup {NewEntry(t)}]
    /\ pc' = [pc EXCEPT ![t] = "next"]
    /\ UNCHANGED <<tables, req, todo, cur, seen>>

Pending(t, w) == {e \in pend[t] : e.wallet = w}
PendingEntry(t, w) == CHOOSE e \in pend[t] : e.wallet = w

\* Mutant of Commit: every wallet of a plan grant is committed on its own.
CommitEach(t) ==
    /\ pc[t] = "next"
    /\ wallets' = wallets \cup {w \in Wallet : lock[w] = t}
    /\ balance' = [w \in Wallet |-> IF Pending(t, w) = {} THEN balance[w]
                                    ELSE PendingEntry(t, w).after]
    /\ ledger' = [w \in Wallet |-> IF Pending(t, w) = {} THEN ledger[w]
                                   ELSE Append(ledger[w], PendingEntry(t, w))]
    /\ lock' = Release(t)
    /\ pend' = [pend EXCEPT ![t] = {}]
    /\ pc' = [pc EXCEPT ![t] = IF todo[t] = {} THEN "done" ELSE "next"]
    /\ UNCHANGED <<req, todo, cur, seen>>

\* session_scope's commit, once every wallet of the request is handled.
Commit(t) ==
    /\ pc[t] = "next" /\ todo[t] = {}
    /\ wallets' = wallets \cup {w \in Wallet : lock[w] = t}
    /\ balance' = [w \in Wallet |-> IF Pending(t, w) = {} THEN balance[w]
                                    ELSE PendingEntry(t, w).after]
    /\ ledger' = [w \in Wallet |-> IF Pending(t, w) = {} THEN ledger[w]
                                   ELSE Append(ledger[w], PendingEntry(t, w))]
    /\ lock' = Release(t)
    /\ pend' = [pend EXCEPT ![t] = {}]
    /\ pc' = [pc EXCEPT ![t] = "done"]
    /\ UNCHANGED <<req, todo, cur, seen>>

\* Any failure between two statements (lost connection, cancelled request).
Abort(t) == pc[t] \in {"select", "insert", "check", "write", "next"} /\ Fail(t)

\* t waits for a row lock that u holds.
WaitsFor(t, u) ==
    /\ t # u /\ lock[cur[t]] = u
    /\ \/ pc[t] = "insert" /\ cur[t] \notin wallets
       \/ pc[t] = "write"
       \/ pc[t] = "select" /\ Locks(t) /\ cur[t] \in wallets

\* PostgreSQL aborts a transaction of a cycle of lock waits.
DeadlockVictim(t) ==
    /\ \E C \in SUBSET Txn :
          /\ t \in C
          /\ \A u \in C : (\E v \in C : WaitsFor(u, v)) /\ (\E v \in C : WaitsFor(v, u))
    /\ Fail(t)

\* What the server does with a request it has begun.
Progress(t) ==
    \/ SelectWallet(t) \/ InsertWallet(t) \/ LockWallet(t)
    \/ Check(t) \/ Flush(t) \/ Commit(t) \/ DeadlockVictim(t)
    \/ pc[t] = "next" /\ \E w \in Wallet : Start(t, w)

Next == \E t \in Txn : Progress(t) \/ Abort(t) \/ \E w \in Wallet : Start(t, w)

Spec == Init /\ [][Next]_vars

\* Requests may fail to arrive and nothing makes one abort, but the event
\* loop runs every begun request and PostgreSQL breaks every deadlock.
FairSpec == Spec /\ \A t \in Txn : WF_vars(Progress(t))

-----------------------------------------------------------------------------
(***************************************************************************)
(* Properties.                                                             *)
(***************************************************************************)

Active == {"select", "insert", "check", "write", "next"}

\* Types of the committed tables and of every request's session.
TypeOK ==
    /\ wallets \subseteq Wallet
    /\ balance \in [Wallet -> Int]
    /\ ledger \in [Wallet -> Seq(Entry)]
    /\ lock \in [Wallet -> Txn \cup {NoTxn}]
    /\ pc \in [Txn -> Active \cup {"idle", "done", "failed"}]
    /\ req \in [Txn -> Requests]
    /\ todo \in [Txn -> SUBSET Wallet]
    /\ cur \in [Txn -> Wallet]
    /\ seen \in [Txn -> [balance: Int, entries: Nat]]
    /\ pend \in [Txn -> SUBSET Entry]

\* The balance a journal L shows after its first n entries.
BalanceAfter(L, n) == IF n = 0 THEN 0 ELSE L[n].after

\* No interleaving of grants, debits and resets overdraws a wallet: "two
\* requests at the same time must not both succeed past the balance"
\* (docs/credits.md:8).
NeverOverdrawn == \A w \in Wallet : balance[w] >= 0

\* The stored balance is the one the newest entry recorded, and every entry
\* records the balance its writer read plus its own signed amount.
JournalConsistent ==
    \A w \in Wallet :
        /\ balance[w] = BalanceAfter(ledger[w], Len(ledger[w]))
        /\ \A i \in 1..Len(ledger[w]) :
              /\ ledger[w][i].base < i
              /\ ledger[w][i].after = BalanceAfter(ledger[w], ledger[w][i].base) + ledger[w][i].amount

\* consume and reset_period work on the newest balance: no entry is committed
\* between their FOR UPDATE read and their commit.
DebitsExtendLatest ==
    \A w \in Wallet : \A i \in 1..Len(ledger[w]) :
        ledger[w][i].kind # "grant" => ledger[w][i].base = i - 1

\* A reference is entered twice in a wallet only when the second writer had
\* read the wallet before the first one committed.  With DebitsExtendLatest:
\* a debit is never entered under a reference the wallet already carries.
RepeatsOnlyFromOverlap ==
    \A w \in Wallet : \A i, j \in 1..Len(ledger[w]) :
        /\ i < j
        /\ ledger[w][i].ref = ledger[w][j].ref
        /\ ledger[w][j].ref # NoRef
        => ledger[w][j].base < i

\* The journal explains every balance, and what consume and reset_period do is
\* serialised by their row locks (docs/credits.md:8-19, credit.py consume).
JournalSafe == JournalConsistent /\ DebitsExtendLatest /\ RepeatsOnlyFromOverlap

\* The sum of a wallet's journal.
LedgerSum(w) ==
    LET sum[i \in 0..Len(ledger[w])] == IF i = 0 THEN 0 ELSE sum[i - 1] + ledger[w][i].amount
    IN  sum[Len(ledger[w])]

\* credit.py grant, docs/credits.md:19: a wallet none of whose writers
\* overlapped can be reconciled from its journal.
DriftOnlyFromOverlap ==
    \A w \in Wallet :
        (\A i \in 1..Len(ledger[w]) : ledger[w][i].base = i - 1)
            => balance[w] = LedgerSum(w)

Account == INSTANCE CreditAccount WITH journal <- ledger

\* The requests of the credit service, interleaved statement by statement and
\* failing anywhere, do what CreditAccount does in one step each.
ImplementsAccount == Account!Spec

\* Every request the server has begun ends, whatever locks it waits for.
EveryRequestEnds ==
    \A t \in Txn : pc[t] \in Active ~> pc[t] \in {"done", "failed"}

-----------------------------------------------------------------------------
(***************************************************************************)
(* The inductive invariant behind the safety properties.                   *)
(***************************************************************************)

\* No entry of the journal L up to the n-th carries the reference r.
NotYet(L, n, r) == r # NoRef => \A i \in 1..n : L[i].ref # r

\* Entry e may be the next one of a journal whose first n entries are L's.
Fits(L, e, n) ==
    /\ e.base <= n
    /\ e.kind # "grant" => e.base = n
    /\ e.after = BalanceAfter(L, e.base) + e.amount
    /\ e.after >= 0
    /\ NotYet(L, e.base, e.ref)

JournalInv ==
    \A w \in Wallet :
        /\ balance[w] = BalanceAfter(ledger[w], Len(ledger[w]))
        /\ \A i \in 1..Len(ledger[w]) : Fits(ledger[w], ledger[w][i], i - 1)

\* What a request remembers of the wallet it read is some earlier balance;
\* for a request that reads FOR UPDATE it is the current one.
ReadOK(t) ==
    /\ pc[t] = "insert" => ~Locks(t)
    /\ pc[t] \in {"insert", "check", "write"} =>
          /\ seen[t].entries <= Len(ledger[cur[t]])
          /\ seen[t].balance = BalanceAfter(ledger[cur[t]], seen[t].entries)
    /\ pc[t] \in {"check", "write"} /\ Locks(t) =>
          /\ lock[cur[t]] = t
          /\ seen[t].entries = Len(ledger[cur[t]])
    /\ pc[t] = "write" => Fits(ledger[cur[t]], NewEntry(t), Len(ledger[cur[t]]))

\* A flushed row is covered by the row lock and may be appended as it is.
PendOK(t) ==
    \A e \in pend[t] :
        /\ lock[e.wallet] = t
        /\ Fits(ledger[e.wallet], e, Len(ledger[e.wallet]))

SessionInv == \A t \in Txn : ReadOK(t) /\ PendOK(t)

IInv == TypeOK /\ JournalInv /\ SessionInv

\* What a request has flushed is what it asked for.
PostedOK(t) ==
    \A e \in pend[t] :
        /\ e.wallet \in req[t].wallets /\ e.kind = req[t].kind
        /\ e.kind = "reset" => e.ref = NoRef /\ e.after = 0
        /\ e.kind # "reset" => e.ref = req[t].ref
        /\ e.kind = "grant" => e.amount = req[t].amount
        /\ e.kind = "consume" => e.amount = -req[t].amount
        /\ Locks(t) => ProductOf[e.wallet] = req[t].product

\* Nothing is left to do for wallet w.
Settled(t, w) ==
    \/ \E e \in pend[t] : e.wallet = w
    \/ req[t].ref # NoRef /\ \E i \in 1..Len(ledger[w]) : ledger[w][i].ref = req[t].ref

\* A wallet that a request does not have before it is settled or in hand.
PlaceOK(t) ==
    /\ todo[t] \subseteq req[t].wallets
    /\ pc[t] = "idle" => todo[t] = req[t].wallets
    /\ pc[t] \in {"select", "insert", "check", "write"} => cur[t] \in req[t].wallets
    /\ pc[t] \in {"check", "write"} /\ Locks(t) => ProductOf[cur[t]] = req[t].product
    /\ pc[t] \in Active /\ req[t].kind = "grant" =>
          \A w \in req[t].wallets \ todo[t] :
              Settled(t, w) \/ (w = cur[t] /\ pc[t] # "next")

AccountInv == \A t \in Txn : PostedOK(t) /\ PlaceOK(t)
=============================================================================
