--------------------------- MODULE AllowanceProofs --------------------------
(***************************************************************************)
(* Proofs about what a tenant may use: its credits (CreditLedger) and its  *)
(* components (Entitlements), for any number of requests.                  *)
(*                                                                         *)
(* Credits, for any wallets and amounts: a committed entry never changes   *)
(* and entries are only appended, so what a request read stays the balance *)
(* after some prefix of the journal; a request that holds the row lock     *)
(* cannot be overtaken, so for debits that prefix is the whole journal.    *)
(*                                                                         *)
(* Components, for any plans and evaluators: until the tables change, an   *)
(* evaluator has read what there is, and would give the right answer;      *)
(* after one change, what it has read of the changed table decides whether *)
(* it gives the answer from before or the one from after.                  *)
(***************************************************************************)
EXTENDS CreditLedger, Entitlements, SequenceTheorems, FiniteSetTheorems,
        WellFoundedInduction, TLAPS

-----------------------------------------------------------------------------
(***************************************************************************)
(* Credits: type correctness.                                              *)
(***************************************************************************)

\* A new entry is a row of credit_ledger.
LEMMA NewEntryType ==
    ASSUME TypeOK, NEW t \in Txn
    PROVE  NewEntry(t) \in Entry
<1>1. req[t] \in Request
  BY RequestsAssumption DEF TypeOK
<1>2. seen[t].balance \in Int /\ seen[t].entries \in Nat /\ cur[t] \in Wallet
  BY DEF TypeOK
<1>3. Delta(t) \in Int /\ NewBalance(t) \in Int
  BY <1>1, <1>2 DEF Delta, NewBalance, Request, Kind
<1>. QED
  BY <1>1, <1>2, <1>3 DEF NewEntry, Entry, Request, Kind

\* What a commit appends is one of the request's flushed rows.
LEMMA PendingEntryType ==
    ASSUME TypeOK, NEW t \in Txn, NEW w \in Wallet, Pending(t, w) # {}
    PROVE  /\ PendingEntry(t, w) \in pend[t]
           /\ PendingEntry(t, w) \in Entry
           /\ PendingEntry(t, w).wallet = w
<1>1. \E e \in pend[t] : e.wallet = w
  BY DEF Pending
<1>2. PendingEntry(t, w) \in pend[t] /\ PendingEntry(t, w).wallet = w
  BY <1>1 DEF PendingEntry
<1>. QED
  BY <1>2 DEF TypeOK

\* A rolled-back request leaves the state well typed.
LEMMA FailType ==
    ASSUME TypeOK, NEW t \in Txn, Fail(t)
    PROVE  TypeOK'
BY DEF TypeOK, Fail, Release, tables, Active

\* Every statement, commit and rollback of a request keeps the state well typed.
LEMMA StepType ==
    ASSUME TypeOK, [Next]_vars
    PROVE  TypeOK'
<1>1. ASSUME NEW t \in Txn, NEW w \in Wallet, Start(t, w)
      PROVE  TypeOK'
  BY <1>1 DEF TypeOK, Start, tables, Active
<1>2. ASSUME NEW t \in Txn, SelectWallet(t)
      PROVE  TypeOK'
  <2>1. ReadWallet(cur[t]) \in [balance: Int, entries: Nat]
    BY DEF ReadWallet, TypeOK
  <2>2. Unread \in [balance: Int, entries: Nat]
    BY DEF Unread
  <2>3. /\ seen' \in [Txn -> [balance: Int, entries: Nat]]
        /\ pc' \in [Txn -> Active \cup {"idle", "done", "failed"}]
    <3>1. CASE cur[t] \in wallets
      BY <1>2, <2>1, <3>1 DEF TypeOK, SelectWallet, Active
    <3>2. CASE cur[t] \notin wallets
      BY <1>2, <2>2, <3>2 DEF TypeOK, SelectWallet, Active
    <3>. QED  BY <3>1, <3>2
  <2>. QED
    BY <1>2, <2>3 DEF TypeOK, SelectWallet, tables
<1>3. ASSUME NEW t \in Txn, InsertWallet(t)
      PROVE  TypeOK'
  <2>1. CASE cur[t] \notin wallets
    <3>1. /\ lock' = [lock EXCEPT ![cur[t]] = t]
          /\ pc' = [pc EXCEPT ![t] = "check"]
          /\ UNCHANGED <<tables, req, todo, cur, seen, pend>>
      BY <1>3, <2>1 DEF InsertWallet
    <3>. QED
      BY <3>1 DEF TypeOK, tables, Active
  <2>2. CASE Fail(t)
    BY <2>2, FailType
  <2>. QED
    BY <1>3, <2>1, <2>2 DEF InsertWallet
<1>4. ASSUME NEW t \in Txn, LockWallet(t)
      PROVE  TypeOK'
  <2>1. ReadWallet(cur[t]) \in [balance: Int, entries: Nat]
    BY DEF ReadWallet, TypeOK
  <2>2. CASE ~Fail(t)
    <3>1. /\ lock' = [lock EXCEPT ![cur[t]] = t]
          /\ seen' = [seen EXCEPT ![t] = ReadWallet(cur[t])]
          /\ pc' = [pc EXCEPT ![t] = "check"]
          /\ UNCHANGED <<tables, req, todo, cur, pend>>
      BY <1>4, <2>2 DEF LockWallet
    <3>. QED
      BY <2>1, <3>1 DEF TypeOK, tables, Active
  <2>. QED
    BY <2>2, FailType
<1>5. ASSUME NEW t \in Txn, Check(t)
      PROVE  TypeOK'
  BY <1>5, FailType DEF TypeOK, Check, tables, Active
<1>6. ASSUME NEW t \in Txn, Flush(t)
      PROVE  TypeOK'
  BY <1>6, NewEntryType DEF TypeOK, Flush, tables, Active
<1>7. ASSUME NEW t \in Txn, Commit(t)
      PROVE  TypeOK'
  <2>1. \A w \in Wallet : Pending(t, w) # {} => PendingEntry(t, w) \in Entry
    BY PendingEntryType
  <2>2. balance' \in [Wallet -> Int]
    BY <1>7, <2>1 DEF TypeOK, Commit, Entry
  <2>3. ledger' \in [Wallet -> Seq(Entry)]
    BY <1>7, <2>1, AppendProperties DEF TypeOK, Commit
  <2>. QED
    BY <1>7, <2>2, <2>3 DEF TypeOK, Commit, Release, Active
<1>8. CASE UNCHANGED vars
  BY <1>8 DEF TypeOK, vars
<1>. QED
  BY <1>1, <1>2, <1>3, <1>4, <1>5, <1>6, <1>7, <1>8, FailType
     DEF Next, Progress, Abort, DeadlockVictim

\* Every reachable state is well typed.
THEOREM TypeCorrect == Spec => []TypeOK
<1>1. Init => TypeOK
  BY WalletAssumption, RequestsAssumption DEF Init, TypeOK, Unread, Active, Request
<1>. QED
  BY <1>1, StepType, PTL DEF Spec

-----------------------------------------------------------------------------
(***************************************************************************)
(* Facts about journals.                                                   *)
(***************************************************************************)

\* L is a prefix of M.
Extends(M, L) == Len(L) <= Len(M) /\ \A i \in 1..Len(L) : M[i] = L[i]

\* An entry that fits a journal fits every extension of it that does not
\* overtake a debit.
LEMMA FitsExtension ==
    ASSUME NEW L \in Seq(Entry), NEW M \in Seq(Entry), Extends(M, L),
           NEW e \in Entry, NEW n \in Nat, NEW m \in Nat,
           Fits(L, e, n), n <= Len(L), n <= m, e.kind # "grant" => m = n
    PROVE  Fits(M, e, m)
<1>1. e.base \in Nat /\ e.base <= Len(L) /\ Len(L) \in Nat
  <2>1. e.base \in Nat
    BY DEF Entry
  <2>2. Len(L) \in Nat
    BY LenProperties
  <2>3. e.base <= n
    BY DEF Fits
  <2>. QED
    BY <2>1, <2>2, <2>3
<1>2. BalanceAfter(M, e.base) = BalanceAfter(L, e.base)
  BY <1>1 DEF BalanceAfter, Extends
<1>3. NotYet(M, e.base, e.ref)
  BY <1>1 DEF NotYet, Extends, Fits
<1>. QED
  BY <1>1, <1>2, <1>3 DEF Fits

\* Appending a row to a journal extends it by exactly that row.
LEMMA AppendExtends ==
    ASSUME NEW L \in Seq(Entry), NEW e \in Entry
    PROVE  /\ Append(L, e) \in Seq(Entry)
           /\ Extends(Append(L, e), L)
           /\ Len(Append(L, e)) = Len(L) + 1
           /\ Append(L, e)[Len(L) + 1] = e
BY AppendProperties DEF Extends

\* No recorded balance is negative.
LEMMA BalanceAfterNat ==
    ASSUME TypeOK, JournalInv, NEW w \in Wallet, NEW n \in 0..Len(ledger[w])
    PROVE  BalanceAfter(ledger[w], n) \in Nat
<1>1. CASE n = 0
  BY <1>1 DEF BalanceAfter
<1>2. CASE n # 0
  <2>1. n \in 1..Len(ledger[w]) /\ ledger[w] \in Seq(Entry)
    BY <1>2 DEF TypeOK
  <2>2. ledger[w][n] \in Entry
    BY <2>1, ElementOfSeq
  <2>3. ledger[w][n].after >= 0
    BY <2>1 DEF JournalInv, Fits
  <2>. QED
    BY <1>2, <2>2, <2>3 DEF BalanceAfter, Entry
<1>. QED
  BY <1>1, <1>2

-----------------------------------------------------------------------------
(***************************************************************************)
(* The inductive invariant.                                                *)
(***************************************************************************)

\* A step of t that leaves the tables alone and takes no lock from another
\* request disturbs no other request.
LEMMA OthersKept ==
    ASSUME TypeOK, SessionInv, NEW t \in Txn, UNCHANGED <<balance, ledger>>,
           NEW u \in Txn, u # t,
           pc'[u] = pc[u], req'[u] = req[u], cur'[u] = cur[u],
           seen'[u] = seen[u], pend'[u] = pend[u],
           \A w \in Wallet : lock[w] = u => lock'[w] = u
    PROVE  ReadOK(u)' /\ PendOK(u)'
<1>1. NewEntry(u)' = NewEntry(u)
  BY DEF NewEntry, NewBalance, Delta
<1>2. Locks(u)' = Locks(u)
  BY DEF Locks
<1>3. ReadOK(u) /\ PendOK(u) /\ cur[u] \in Wallet /\ pend[u] \subseteq Entry
  BY DEF SessionInv, TypeOK
<1>4. ReadOK(u)'
  <2>1. cur'[u] = cur[u] /\ ledger'[cur'[u]] = ledger[cur[u]]
    OBVIOUS
  <2>2. lock[cur[u]] = u => lock'[cur'[u]] = u
    BY <1>3
  <2>. QED
    BY <1>1, <1>2, <1>3, <2>1, <2>2 DEF ReadOK
<1>5. PendOK(u)'
  BY <1>3 DEF PendOK, Entry
<1>. QED
  BY <1>4, <1>5

\* A statement that writes no table keeps the journal's invariant.
LEMMA JournalKept ==
    ASSUME JournalInv, UNCHANGED <<balance, ledger>>
    PROVE  JournalInv'
BY DEF JournalInv

\* session_scope's rollback releases the locks and keeps the invariant.
LEMMA FailKeeps ==
    ASSUME IInv, NEW t \in Txn, Fail(t)
    PROVE  JournalInv' /\ SessionInv'
<1>. USE DEF IInv
<1>1. JournalInv'
  BY JournalKept DEF Fail, tables
<1>2. ASSUME NEW u \in Txn, u # t
      PROVE  ReadOK(u)' /\ PendOK(u)'
  <2>1. \A w \in Wallet : lock[w] = u => lock'[w] = u
    BY <1>2 DEF Fail, Release
  <2>. QED
    BY <1>2, <2>1, OthersKept DEF Fail, tables, TypeOK
<1>3. ReadOK(t)' /\ PendOK(t)'
  BY DEF Fail, ReadOK, PendOK, TypeOK
<1>. QED
  BY <1>1, <1>2, <1>3 DEF SessionInv

\* The statements of a request before its commit.
LEMMA ReadKeeps ==
    ASSUME IInv, NEW t \in Txn,
           SelectWallet(t) \/ LockWallet(t), ~Fail(t)
    PROVE  JournalInv' /\ SessionInv'
<1>. USE DEF IInv
<1>1. /\ UNCHANGED <<balance, ledger, req, cur, pend>>
      /\ pc' = [pc EXCEPT ![t] = pc'[t]]
      /\ seen' = [seen EXCEPT ![t] = seen'[t]]
      /\ lock' = lock \/ (Free(t, cur[t]) /\ lock' = [lock EXCEPT ![cur[t]] = t])
      /\ \/ ~Locks(t) /\ pc'[t] = "insert" /\ seen'[t] = Unread
         \/ ~Locks(t) /\ pc'[t] = "check" /\ seen'[t] = ReadWallet(cur[t])
         \/ Locks(t) /\ pc'[t] = "check" /\ seen'[t] = ReadWallet(cur[t]) /\ lock'[cur[t]] = t
  <2>1. CASE SelectWallet(t)
    BY <2>1 DEF SelectWallet, tables, TypeOK
  <2>2. CASE LockWallet(t)
    BY <2>2 DEF LockWallet, tables, TypeOK
  <2>. QED
    BY <2>1, <2>2
<1>2. JournalInv'
  BY <1>1, JournalKept
<1>3. ASSUME NEW u \in Txn, u # t
      PROVE  ReadOK(u)' /\ PendOK(u)'
  <2>1. \A w \in Wallet : lock[w] = u => lock'[w] = u
    BY <1>1, <1>3, NoTxnAssumption DEF Free, TypeOK
  <2>. QED
    BY <1>1, <1>3, <2>1, OthersKept DEF TypeOK
<1>4. PendOK(t)'
  <2>1. \A w \in Wallet : lock[w] = t => lock'[w] = t
    BY <1>1 DEF TypeOK
  <2>. QED
    BY <1>1, <2>1 DEF PendOK, SessionInv, TypeOK, Entry
<1>5. ReadOK(t)'
  <2>1. Len(ledger[cur[t]]) \in Nat /\ cur[t] \in Wallet
    BY DEF TypeOK
  <2>2. balance[cur[t]] = BalanceAfter(ledger[cur[t]], Len(ledger[cur[t]]))
    BY <2>1 DEF JournalInv
  <2>3. Locks(t)' = Locks(t)
    BY <1>1 DEF Locks
  <2>. QED
    BY <1>1, <2>1, <2>2, <2>3 DEF ReadOK, ReadWallet, Unread, BalanceAfter
<1>. QED
  BY <1>2, <1>3, <1>4, <1>5 DEF SessionInv

\* The INSERT of a new wallet keeps the invariant: nobody else holds the row.
LEMMA InsertKeeps ==
    ASSUME IInv, NEW t \in Txn, InsertWallet(t), ~Fail(t)
    PROVE  JournalInv' /\ SessionInv'
<1>. USE DEF IInv
<1>1. /\ UNCHANGED <<balance, ledger, req, cur, seen, pend>>
      /\ pc[t] = "insert" /\ pc' = [pc EXCEPT ![t] = "check"]
      /\ Free(t, cur[t]) /\ lock' = [lock EXCEPT ![cur[t]] = t]
  BY DEF InsertWallet, tables
<1>2. JournalInv'
  BY <1>1, JournalKept
<1>3. ASSUME NEW u \in Txn, u # t
      PROVE  ReadOK(u)' /\ PendOK(u)'
  <2>1. \A w \in Wallet : lock[w] = u => lock'[w] = u
    BY <1>1, <1>3, NoTxnAssumption DEF Free, TypeOK
  <2>. QED
    BY <1>1, <1>3, <2>1, OthersKept DEF TypeOK
<1>4. PendOK(t)'
  BY <1>1 DEF PendOK, SessionInv, TypeOK, Entry
<1>5. ReadOK(t)'
  BY <1>1 DEF ReadOK, SessionInv, TypeOK, Locks
<1>. QED
  BY <1>2, <1>3, <1>4, <1>5 DEF SessionInv

\* Taking up the next wallet keeps the invariant.
LEMMA StartKeeps ==
    ASSUME IInv, NEW t \in Txn, NEW w \in Wallet, Start(t, w)
    PROVE  JournalInv' /\ SessionInv'
<1>. USE DEF IInv
<1>1. JournalInv'
  BY JournalKept DEF Start, tables
<1>2. ASSUME NEW u \in Txn, u # t
      PROVE  ReadOK(u)' /\ PendOK(u)'
  BY <1>2, OthersKept DEF Start, tables, TypeOK
<1>3. ReadOK(t)' /\ PendOK(t)'
  BY DEF Start, tables, ReadOK, PendOK, SessionInv, TypeOK
<1>. QED
  BY <1>1, <1>2, <1>3 DEF SessionInv

\* What the checks before a write establish: the entry to be flushed fits.
LEMMA CheckedEntryFits ==
    ASSUME IInv, NEW t \in Txn, pc[t] = "check",
           ~AlreadyDone(t), ~Insufficient(t)
    PROVE  Fits(ledger[cur[t]], NewEntry(t), Len(ledger[cur[t]]))
<1>. DEFINE L == ledger[cur[t]]
<1>. USE DEF IInv
<1>1. /\ cur[t] \in Wallet /\ Len(L) \in Nat
      /\ seen[t].entries \in Nat /\ seen[t].balance \in Int
  BY DEF TypeOK
<1>2. req[t].amount \in Nat \ {0} /\ req[t].kind \in Kind
  BY RequestsAssumption DEF TypeOK, Request
<1>3. /\ seen[t].entries <= Len(L)
      /\ seen[t].balance = BalanceAfter(L, seen[t].entries)
      /\ Locks(t) => seen[t].entries = Len(L)
  BY DEF SessionInv, ReadOK
<1>4. seen[t].balance >= 0
  BY <1>1, <1>3, BalanceAfterNat
<1>5. /\ NewBalance(t) = seen[t].balance + Delta(t)
      /\ NewBalance(t) >= 0
  BY <1>1, <1>2, <1>4 DEF NewBalance, Delta, Insufficient, Kind
<1>6. req[t].kind # "reset" /\ req[t].ref # NoRef =>
        \A i \in 1..seen[t].entries : L[i].ref # req[t].ref
  BY <1>1, <1>3 DEF AlreadyDone, Referenced
<1>7. req[t].kind # "grant" => Locks(t)
  BY <1>2 DEF Locks, Kind
<1>. QED
  BY <1>1, <1>3, <1>5, <1>6, <1>7 DEF Fits, NewEntry, NotYet

\* The early returns and the refusal keep the invariant; a request that goes on
\* to write has an entry that fits.
LEMMA CheckKeeps ==
    ASSUME IInv, NEW t \in Txn, Check(t), ~Fail(t)
    PROVE  JournalInv' /\ SessionInv'
<1>. USE DEF IInv
<1>1. /\ UNCHANGED <<balance, ledger, lock, req, cur, seen, pend>>
      /\ pc[t] = "check" /\ pc' = [pc EXCEPT ![t] = pc'[t]]
      /\ \/ pc'[t] = "next"
         \/ pc'[t] = "write" /\ ~AlreadyDone(t) /\ ~Insufficient(t)
  BY DEF Check, tables, TypeOK
<1>2. JournalInv'
  BY <1>1, JournalKept
<1>3. ASSUME NEW u \in Txn, u # t
      PROVE  ReadOK(u)' /\ PendOK(u)'
  BY <1>1, <1>3, OthersKept DEF TypeOK
<1>4. PendOK(t)'
  BY <1>1 DEF PendOK, SessionInv
<1>5. ReadOK(t)'
  <2>1. CASE pc'[t] = "next"
    BY <2>1 DEF ReadOK
  <2>2. CASE pc'[t] = "write"
    <3>1. Fits(ledger[cur[t]], NewEntry(t), Len(ledger[cur[t]]))
      BY <1>1, <2>2, CheckedEntryFits
    <3>2. NewEntry(t)' = NewEntry(t) /\ Locks(t)' = Locks(t)
      BY <1>1 DEF NewEntry, NewBalance, Delta, Locks
    <3>. QED
      BY <1>1, <2>2, <3>1, <3>2 DEF ReadOK, SessionInv
  <2>. QED
    BY <1>1, <2>1, <2>2
<1>. QED
  BY <1>2, <1>3, <1>4, <1>5 DEF SessionInv

\* The UPDATE keeps the invariant: the entry that fitted is now covered by the
\* row lock.
LEMMA FlushKeeps ==
    ASSUME IInv, NEW t \in Txn, Flush(t)
    PROVE  JournalInv' /\ SessionInv'
<1>. USE DEF IInv
<1>1. /\ UNCHANGED <<balance, ledger, req, cur, seen>>
      /\ pc[t] = "write" /\ pc' = [pc EXCEPT ![t] = "next"]
      /\ Free(t, cur[t]) /\ lock' = [lock EXCEPT ![cur[t]] = t]
      /\ pend' = [pend EXCEPT ![t] = @ \cup {NewEntry(t)}]
  BY DEF Flush, tables
<1>2. JournalInv'
  BY <1>1, JournalKept
<1>3. ASSUME NEW u \in Txn, u # t
      PROVE  ReadOK(u)' /\ PendOK(u)'
  <2>1. \A w \in Wallet : lock[w] = u => lock'[w] = u
    BY <1>1, <1>3, NoTxnAssumption DEF Free, TypeOK
  <2>. QED
    BY <1>1, <1>3, <2>1, OthersKept DEF TypeOK
<1>4. PendOK(t)'
  <2>. SUFFICES ASSUME NEW e \in pend'[t]
                PROVE  lock'[e.wallet] = t /\ Fits(ledger[e.wallet], e, Len(ledger[e.wallet]))
    BY <1>1 DEF PendOK
  <2>1. CASE e \in pend[t]
    BY <1>1, <2>1 DEF PendOK, SessionInv, TypeOK, Entry
  <2>2. CASE e = NewEntry(t)
    <3>1. e.wallet = cur[t]
      BY <2>2 DEF NewEntry
    <3>. QED
      BY <1>1, <2>2, <3>1 DEF ReadOK, SessionInv, TypeOK
  <2>. QED
    BY <1>1, <2>1, <2>2 DEF TypeOK
<1>5. ReadOK(t)'
  BY <1>1 DEF ReadOK, TypeOK
<1>. QED
  BY <1>2, <1>3, <1>4, <1>5 DEF SessionInv

\* A commit only appends, and only to wallets whose lock the request holds.
LEMMA CommitAppends ==
    ASSUME IInv, NEW t \in Txn, Commit(t), NEW w \in Wallet
    PROVE  /\ Extends(ledger'[w], ledger[w])
           /\ lock[w] # t => ledger'[w] = ledger[w] /\ balance'[w] = balance[w]
           /\ \/ ledger'[w] = ledger[w] /\ balance'[w] = balance[w]
              \/ \E e \in Entry : /\ Fits(ledger[w], e, Len(ledger[w]))
                                  /\ ledger'[w] = Append(ledger[w], e)
                                  /\ balance'[w] = e.after
<1>. USE DEF IInv
<1>1. ledger[w] \in Seq(Entry)
  BY DEF TypeOK
<1>2. CASE Pending(t, w) = {}
  <2>1. ledger'[w] = ledger[w] /\ balance'[w] = balance[w]
    BY <1>2 DEF Commit
  <2>. QED
    BY <1>1, <2>1 DEF Extends
<1>3. CASE Pending(t, w) # {}
  <2>. DEFINE e == PendingEntry(t, w)
  <2>1. e \in pend[t] /\ e \in Entry /\ e.wallet = w
    BY <1>3, PendingEntryType
  <2>2. ledger'[w] = Append(ledger[w], e) /\ balance'[w] = e.after
    BY <1>3 DEF Commit
  <2>3. lock[w] = t /\ Fits(ledger[w], e, Len(ledger[w]))
    BY <2>1 DEF SessionInv, PendOK
  <2>. QED
    BY <1>1, <2>1, <2>2, <2>3, AppendExtends
<1>. QED
  BY <1>2, <1>3

\* A commit appends fitting entries, so the journal's invariant is kept.
LEMMA CommitJournal ==
    ASSUME IInv, TypeOK', NEW t \in Txn, Commit(t)
    PROVE  JournalInv'
<1>. USE DEF IInv
<1>. SUFFICES ASSUME NEW w \in Wallet
              PROVE  /\ balance'[w] = BalanceAfter(ledger'[w], Len(ledger'[w]))
                     /\ \A i \in 1..Len(ledger'[w]) : Fits(ledger'[w], ledger'[w][i], i - 1)
  BY DEF JournalInv
<1>. DEFINE L == ledger[w]
            M == ledger'[w]
<1>1. L \in Seq(Entry) /\ M \in Seq(Entry) /\ Len(L) \in Nat
  BY DEF TypeOK
<1>2. /\ balance[w] = BalanceAfter(L, Len(L))
      /\ \A i \in 1..Len(L) : Fits(L, L[i], i - 1)
  BY DEF JournalInv
<1>3. CASE M = L /\ balance'[w] = balance[w]
  BY <1>2, <1>3
<1>4. ASSUME NEW e \in Entry, Fits(L, e, Len(L)), M = Append(L, e), balance'[w] = e.after
      PROVE  /\ balance'[w] = BalanceAfter(M, Len(M))
             /\ \A i \in 1..Len(M) : Fits(M, M[i], i - 1)
  <2>1. Len(M) = Len(L) + 1 /\ M[Len(L) + 1] = e /\ Extends(M, L)
    BY <1>1, <1>4, AppendExtends
  <2>2. balance'[w] = BalanceAfter(M, Len(M))
    BY <1>1, <1>4, <2>1 DEF BalanceAfter
  <2>3. Fits(M, e, Len(L))
    <3>1. Len(L) <= Len(L)
      BY <1>1
    <3>. QED
      BY <1>1, <1>4, <2>1, <3>1, FitsExtension, Zenon
  <2>4. ASSUME NEW i \in 1..Len(L)
        PROVE  Fits(M, M[i], i - 1)
    <3>1. L[i] \in Entry /\ M[i] = L[i] /\ i - 1 \in Nat /\ i - 1 <= Len(L)
      BY <1>1, <2>1, ElementOfSeq DEF Extends
    <3>2. Fits(L, L[i], i - 1)
      BY <1>2
    <3>. QED
      BY <1>1, <2>1, <3>1, <3>2, FitsExtension
  <2>5. ASSUME NEW i \in 1..Len(M)
        PROVE  Fits(M, M[i], i - 1)
    <3>1. i \in 1..Len(L) \/ i = Len(L) + 1
      BY <1>1, <2>1
    <3>2. CASE i = Len(L) + 1
      BY <1>1, <2>1, <2>3, <3>2
    <3>. QED
      BY <2>4, <3>1, <3>2
  <2>. QED
    BY <2>2, <2>5
<1>. QED
  BY <1>3, <1>4, CommitAppends

\* A commit leaves every other request's read a prefix of the journal, and the
\* journals locked by another request as they are.
LEMMA CommitSessions ==
    ASSUME IInv, TypeOK', NEW t \in Txn, Commit(t)
    PROVE  SessionInv'
<1>. USE DEF IInv
<1>1. ReadOK(t)' /\ PendOK(t)'
  BY DEF Commit, ReadOK, PendOK, TypeOK
<1>2. ASSUME NEW u \in Txn, u # t
      PROVE  ReadOK(u)' /\ PendOK(u)'
  <2>1. /\ pc'[u] = pc[u] /\ req'[u] = req[u] /\ cur'[u] = cur[u]
        /\ seen'[u] = seen[u] /\ pend'[u] = pend[u]
    BY <1>2 DEF Commit, TypeOK
  <2>2. \A w \in Wallet : lock[w] = u => lock'[w] = u /\ ledger'[w] = ledger[w]
    BY <1>2, CommitAppends DEF Commit, Release
  <2>3. NewEntry(u)' = NewEntry(u) /\ Locks(u)' = Locks(u)
    BY <2>1 DEF NewEntry, NewBalance, Delta, Locks
  <2>4. ReadOK(u) /\ PendOK(u) /\ cur[u] \in Wallet /\ pend[u] \subseteq Entry
    BY DEF SessionInv, TypeOK
  <2>5. PendOK(u)'
    BY <2>1, <2>2, <2>4 DEF PendOK, Entry
  <2>6. ReadOK(u)'
    <3>. DEFINE w == cur[u]
                L == ledger[w]
                M == ledger'[w]
    <3>1. L \in Seq(Entry) /\ M \in Seq(Entry) /\ Extends(M, L)
      BY <2>4, CommitAppends DEF TypeOK
    <3>2. Len(L) \in Nat /\ Len(M) \in Nat /\ Len(L) <= Len(M) /\ seen[u].entries \in Nat
      BY <3>1, LenProperties DEF Extends, TypeOK
    <3>3. seen[u].entries <= Len(L) =>
            BalanceAfter(M, seen[u].entries) = BalanceAfter(L, seen[u].entries)
      BY <3>1, <3>2 DEF BalanceAfter, Extends
    <3>4. pc[u] \in {"check", "write"} /\ Locks(u) => M = L /\ lock'[w] = u
      BY <2>2, <2>4 DEF ReadOK
    <3>5. pc[u] = "write" => Fits(M, NewEntry(u), Len(M))
      <4>. SUFFICES ASSUME pc[u] = "write"
                    PROVE  Fits(M, NewEntry(u), Len(M))
        OBVIOUS
      <4>1. Fits(L, NewEntry(u), Len(L)) /\ NewEntry(u) \in Entry
        BY <2>4, NewEntryType DEF ReadOK
      <4>2. NewEntry(u).kind = req[u].kind /\ req[u].kind \in Kind
        BY RequestsAssumption DEF NewEntry, TypeOK, Request
      <4>3. NewEntry(u).kind # "grant" => Len(M) = Len(L)
        BY <3>4, <4>2 DEF Locks, Kind
      <4>. QED
        BY <3>1, <3>2, <4>1, <4>3, FitsExtension
    <3>. QED
      BY <2>1, <2>3, <2>4, <3>2, <3>3, <3>4, <3>5 DEF ReadOK
  <2>. QED
    BY <2>5, <2>6
<1>. QED
  BY <1>1, <1>2 DEF SessionInv

\* The inductive invariant holds in every reachable state.
THEOREM Invariance == Spec => []IInv
<1>1. Init => IInv
  <2>. SUFFICES ASSUME Init PROVE IInv
    OBVIOUS
  <2>1. TypeOK
    BY WalletAssumption, RequestsAssumption DEF Init, TypeOK, Unread, Active, Request
  <2>2. JournalInv /\ SessionInv
    BY DEF Init, JournalInv, SessionInv, ReadOK, PendOK, BalanceAfter
  <2>. QED
    BY <2>1, <2>2 DEF IInv
<1>2. IInv /\ [Next]_vars => IInv'
  <2>. SUFFICES ASSUME IInv, [Next]_vars PROVE IInv'
    OBVIOUS
  <2>1. TypeOK'
    BY StepType DEF IInv
  <2>2. ASSUME NEW t \in Txn, Fail(t)
        PROVE  JournalInv' /\ SessionInv'
    BY <2>2, FailKeeps
  <2>3. ASSUME NEW t \in Txn, Progress(t) \/ Abort(t), ~Fail(t)
        PROVE  JournalInv' /\ SessionInv'
    BY <2>1, <2>3, ReadKeeps, InsertKeeps, StartKeeps, CheckKeeps, FlushKeeps,
       CommitJournal, CommitSessions DEF Progress, Abort, DeadlockVictim
  <2>4. CASE UNCHANGED vars
    <3>1. JournalInv'
      BY <2>4, JournalKept DEF vars, IInv
    <3>2. \A t \in Txn : NewEntry(t)' = NewEntry(t) /\ Locks(t)' = Locks(t)
      BY <2>4 DEF vars, NewEntry, NewBalance, Delta, Locks
    <3>3. SessionInv'
      BY <2>4, <3>2 DEF vars, IInv, SessionInv, ReadOK, PendOK
    <3>. QED
      BY <2>1, <3>1, <3>3 DEF IInv
  <2>. QED
    BY <2>1, <2>2, <2>3, <2>4, StartKeeps DEF IInv, Next
<1>. QED
  BY <1>1, <1>2, PTL DEF Spec

-----------------------------------------------------------------------------
(***************************************************************************)
(* The properties.                                                         *)
(***************************************************************************)

\* No wallet is ever overdrawn, whatever grants, debits and resets overlap.
THEOREM NoOverdraft == Spec => []NeverOverdrawn
<1>1. IInv => NeverOverdrawn
  BY BalanceAfterNat DEF IInv, JournalInv, NeverOverdrawn, TypeOK
<1>. QED
  BY <1>1, Invariance, PTL

\* The journal explains every balance; consume and reset_period extend its
\* newest entry; a reference repeats only between overlapping requests.
THEOREM JournalSafety ==
    Spec => []JournalSafe
<1>1. IInv => JournalConsistent
  <2>. SUFFICES ASSUME IInv, NEW w \in Wallet, NEW i \in 1..Len(ledger[w])
                PROVE  ledger[w][i].base < i
    BY DEF IInv, JournalInv, JournalConsistent, Fits
  <2>1. ledger[w][i] \in Entry
    BY ElementOfSeq DEF IInv, TypeOK
  <2>2. ledger[w][i].base <= i - 1
    BY DEF IInv, JournalInv, Fits
  <2>. QED
    BY <2>1, <2>2 DEF Entry
<1>2. IInv => DebitsExtendLatest
  BY DEF IInv, JournalInv, DebitsExtendLatest, Fits
<1>3. ASSUME IInv, NEW w \in Wallet, NEW j \in 1..Len(ledger[w])
      PROVE  ledger[w][j].base \in Nat
  <2>1. ledger[w][j] \in Entry
    BY <1>3, ElementOfSeq DEF IInv, TypeOK
  <2>. QED
    BY <2>1 DEF Entry
<1>4. IInv => RepeatsOnlyFromOverlap
  <2>. SUFFICES ASSUME IInv, NEW w \in Wallet,
                       NEW i \in 1..Len(ledger[w]), NEW j \in 1..Len(ledger[w]),
                       ledger[w][i].ref = ledger[w][j].ref, ledger[w][j].ref # NoRef,
                       i <= ledger[w][j].base
                PROVE  FALSE
    BY <1>3 DEF RepeatsOnlyFromOverlap
  <2>1. NotYet(ledger[w], ledger[w][j].base, ledger[w][j].ref)
    BY DEF IInv, JournalInv, Fits
  <2>2. ledger[w][j].base \in Nat
    BY <1>3
  <2>. QED
    BY <2>1, <2>2 DEF NotYet
<1>. QED
  BY <1>1, <1>2, <1>4, Invariance, PTL DEF JournalSafe

\* A nonempty set of naturals has a least element.
LEMMA Least ==
    ASSUME NEW T \in SUBSET Nat, T # {}
    PROVE  \E x \in T : \A y \in T : x <= y
<1>1. PICK x \in T : \A y \in T : <<y, x>> \notin OpToRel(<, Nat)
  BY WFMin, NatLessThanWellFounded
<1>2. \A y \in T : ~(y < x)
  BY <1>1 DEF OpToRel
<1>. QED
  BY <1>2

\* The sum of a journal is the last of any list of partial sums: two such
\* lists have no least place where they differ.
LEMMA SumIs ==
    ASSUME TypeOK, NEW w \in Wallet, NEW g \in [0..Len(ledger[w]) -> Int], g[0] = 0,
           \A i \in 1..Len(ledger[w]) : g[i] = g[i - 1] + ledger[w][i].amount
    PROVE  LedgerSum(w) = g[Len(ledger[w])]
<1>. DEFINE L == ledger[w]
            Sums(f) == f = [i \in 0..Len(L) |-> IF i = 0 THEN 0 ELSE f[i - 1] + L[i].amount]
<1>0. Len(L) \in Nat
  BY DEF TypeOK
<1>1. Sums(g)
  BY <1>0
<1>2. ASSUME NEW f, Sums(f)
      PROVE  f[Len(L)] = g[Len(L)]
  <2>. DEFINE T == {i \in 0..Len(L) : f[i] # g[i]}
  <2>1. \A i \in 0..Len(L) : f[i] = IF i = 0 THEN 0 ELSE f[i - 1] + L[i].amount
    BY <1>2
  <2>. HIDE DEF Sums, L
  <2>2. T \in SUBSET Nat
    OBVIOUS
  <2>3. T = {}
    <3>1. SUFFICES ASSUME T # {} PROVE FALSE
      OBVIOUS
    <3>2. PICK x \in T : \A y \in T : x <= y
      <4>. HIDE DEF T
      <4>. QED
        BY <2>2, <3>1, Least
    <3>3. x \in 0..Len(L) /\ f[x] # g[x]
      OBVIOUS
    <3>4. x # 0
      BY <3>3, <2>1
    <3>5. x - 1 \in 0..Len(L) /\ x - 1 \notin T
      BY <1>0, <3>2, <3>3, <3>4
    <3>6. f[x - 1] = g[x - 1]
      BY <3>5
    <3>7. x \in 1..Len(L)
      BY <1>0, <3>3, <3>4
    <3>8. g[x] = g[x - 1] + L[x].amount
      BY <3>7 DEF L
    <3>. QED
      BY <2>1, <3>3, <3>4, <3>6, <3>8
  <2>. QED
    BY <1>0, <2>3
<1>3. LedgerSum(w) = (CHOOSE f : Sums(f))[Len(L)]
  BY DEF LedgerSum
<1>. HIDE DEF Sums
<1>4. Sums(CHOOSE f : Sums(f))
  BY <1>1
<1>. QED
  BY <1>2, <1>3, <1>4

\* A wallet none of whose writers overlapped can be reconciled from its
\* journal: only overlapping grants make the balance differ from the sum.
THEOREM ReconcilableUnlessOverlapped ==
    Spec => []DriftOnlyFromOverlap
<1>1. IInv => DriftOnlyFromOverlap
  <2>. SUFFICES ASSUME IInv, NEW w \in Wallet,
                       \A i \in 1..Len(ledger[w]) : ledger[w][i].base = i - 1
                PROVE  balance[w] = LedgerSum(w)
    BY DEF DriftOnlyFromOverlap
  <2>. DEFINE L == ledger[w]
              g == [n \in 0..Len(L) |-> BalanceAfter(L, n)]
  <2>1. TypeOK /\ L \in Seq(Entry) /\ Len(L) \in Nat
    BY DEF IInv, TypeOK
  <2>2. \A i \in 1..Len(L) : L[i] \in Entry
    BY <2>1, ElementOfSeq
  <2>3. g \in [0..Len(L) -> Int] /\ g[0] = 0
    <3>1. \A n \in 0..Len(L) : BalanceAfter(L, n) \in Int
      <4>. HIDE DEF L
      <4>. QED
        BY <2>1, <2>2 DEF BalanceAfter, Entry
    <3>2. BalanceAfter(L, 0) = 0
      BY DEF BalanceAfter
    <3>. QED
      BY <2>1, <3>1, <3>2
  <2>4. ASSUME NEW i \in 1..Len(L)
        PROVE  g[i] = g[i - 1] + L[i].amount
    <3>1. L[i].after = BalanceAfter(L, i - 1) + L[i].amount
      BY DEF IInv, JournalInv, Fits
    <3>2. i \in 0..Len(L) /\ i - 1 \in 0..Len(L) /\ i # 0
      BY <2>1
    <3>. QED
      BY <3>1, <3>2 DEF BalanceAfter
  <2>5. LedgerSum(w) = g[Len(L)]
    <3>. HIDE DEF g
    <3>. QED
      BY <2>1, <2>3, <2>4, SumIs
  <2>6. balance[w] = BalanceAfter(L, Len(L))
    BY DEF IInv, JournalInv
  <2>. QED
    BY <2>1, <2>5, <2>6
<1>. QED
  BY <1>1, Invariance, PTL

-----------------------------------------------------------------------------
(***************************************************************************)
(* CreditLedger implements CreditAccount, for any requests, wallets and    *)
(* references.  Every commit is one step of the account, every other step  *)
(* a stutter.  What a commit appends fits the journal (IInv); what is left *)
(* to show is that it is what the request asked for, and that a plan grant *)
(* commits only with all of its wallets settled (AccountInv).              *)
(***************************************************************************)

\* Only a commit writes the tables, and it only appends.
LEMMA JournalsGrow ==
    ASSUME IInv, Next, NEW w \in Wallet
    PROVE  Extends(ledger'[w], ledger[w])
<1>1. CASE \E t \in Txn : Commit(t)
  BY <1>1, CommitAppends
<1>2. CASE ~\E t \in Txn : Commit(t)
  <2>1. UNCHANGED ledger
    BY <1>2 DEF Next, Progress, Abort, DeadlockVictim, Start, SelectWallet, InsertWallet,
                LockWallet, Check, Flush, Fail, tables
  <2>2. ledger[w] \in Seq(Entry)
    BY DEF IInv, TypeOK
  <2>. QED
    BY <2>1, <2>2 DEF Extends
<1>. QED
  BY <1>1, <1>2

\* A wallet that is settled stays settled as long as its flushed row does.
LEMMA SettledKept ==
    ASSUME IInv, Next, NEW t \in Txn, NEW w \in Wallet, Settled(t, w),
           req'[t] = req[t], pend[t] \subseteq pend'[t]
    PROVE  Settled(t, w)'
<1>1. CASE \E e \in pend[t] : e.wallet = w
  BY <1>1 DEF Settled
<1>2. CASE /\ req[t].ref # NoRef
           /\ \E i \in 1..Len(ledger[w]) : ledger[w][i].ref = req[t].ref
  <2>1. PICK i \in 1..Len(ledger[w]) : ledger[w][i].ref = req[t].ref
    BY <1>2
  <2>2. Extends(ledger'[w], ledger[w])
    BY JournalsGrow
  <2>3. ledger[w] \in Seq(Entry)
    BY DEF IInv, TypeOK
  <2>4. TypeOK'
    BY StepType DEF IInv
  <2>5. ledger'[w] \in Seq(Entry)
    BY <2>4 DEF TypeOK
  <2>6. Len(ledger[w]) \in Nat /\ Len(ledger'[w]) \in Nat
    BY <2>3, <2>5, LenProperties
  <2>7. i \in 1..Len(ledger'[w]) /\ ledger'[w][i] = ledger[w][i]
    BY <2>2, <2>6 DEF Extends
  <2>. QED
    BY <1>2, <2>1, <2>7 DEF Settled
<1>. QED
  BY <1>1, <1>2 DEF Settled

\* A step of another request disturbs neither what t has flushed nor where it is.
LEMMA OthersPlaceKept ==
    ASSUME IInv, Next, NEW t \in Txn, PostedOK(t), PlaceOK(t),
           pc'[t] = pc[t], req'[t] = req[t], todo'[t] = todo[t],
           cur'[t] = cur[t], pend'[t] = pend[t]
    PROVE  PostedOK(t)' /\ PlaceOK(t)'
<1>1. Locks(t)' = Locks(t)
  BY DEF Locks
<1>2. PostedOK(t)'
  BY <1>1 DEF PostedOK
<1>3. req[t].wallets \subseteq Wallet
  BY RequestsAssumption DEF IInv, TypeOK, Request
<1>4. \A w \in req[t].wallets : Settled(t, w) => Settled(t, w)'
  BY <1>3, SettledKept
<1>5. PlaceOK(t)'
  BY <1>1, <1>4 DEF PlaceOK
<1>. QED
  BY <1>2, <1>5

\* A flushed row is the entry the request asked for.
LEMMA NewEntryPosted ==
    ASSUME TypeOK, NEW t \in Txn, PlaceOK(t), pc[t] = "write", NEW e, e = NewEntry(t)
    PROVE  /\ e.wallet \in req[t].wallets /\ e.kind = req[t].kind
           /\ e.kind = "reset" => e.ref = NoRef /\ e.after = 0
           /\ e.kind # "reset" => e.ref = req[t].ref
           /\ e.kind = "grant" => e.amount = req[t].amount
           /\ e.kind = "consume" => e.amount = -req[t].amount
           /\ Locks(t) => ProductOf[e.wallet] = req[t].product
<1>1. req[t].kind \in Kind
  BY RequestsAssumption DEF TypeOK, Request
<1>. QED
  BY <1>1 DEF NewEntry, NewBalance, Delta, PlaceOK, Kind

\* A failed request has flushed nothing that counts and has no place to be.
LEMMA FailPlace ==
    ASSUME TypeOK, NEW t \in Txn, PlaceOK(t), Fail(t)
    PROVE  PostedOK(t)' /\ PlaceOK(t)'
BY DEF Fail, PostedOK, PlaceOK, TypeOK, Active

\* The request's own statements keep its place.
LEMMA OwnPlaceKept ==
    ASSUME IInv, NEW t \in Txn, Next, PostedOK(t), PlaceOK(t),
           Progress(t) \/ Abort(t) \/ \E w \in Wallet : Start(t, w)
    PROVE  PostedOK(t)' /\ PlaceOK(t)'
<1>. USE DEF IInv
<1>a. req[t].wallets \subseteq Wallet /\ cur[t] \in Wallet /\ req[t].kind \in Kind
  BY RequestsAssumption DEF TypeOK, Request
<1>b. UNCHANGED req
  BY DEF Progress, Abort, DeadlockVictim, Start, SelectWallet, InsertWallet, LockWallet,
         Check, Flush, Commit, Fail, tables
<1>c. Locks(t)' = Locks(t)
  BY <1>b DEF Locks
<1>d. pend[t] \subseteq pend'[t] =>
        \A w \in req[t].wallets : Settled(t, w) => Settled(t, w)'
  BY <1>a, <1>b, SettledKept
<1>1. CASE Fail(t)
  BY <1>1, FailPlace
<1>2. ASSUME NEW w \in Wallet, Start(t, w)
      PROVE  PostedOK(t)' /\ PlaceOK(t)'
  <2>1. PostedOK(t)'
    BY <1>2, <1>c DEF Start, tables, PostedOK
  <2>2. /\ pc[t] \in {"idle", "next"} /\ w \in todo[t] /\ pend' = pend
        /\ pc'[t] = "select" /\ cur'[t] = w /\ todo'[t] = todo[t] \ {w}
    BY <1>2 DEF Start, TypeOK
  <2>3. req[t].kind = "grant" =>
          \A v \in req[t].wallets \ todo[t] : Settled(t, v)
    BY <2>2 DEF PlaceOK, Active
  <2>. QED
    BY <2>1, <2>2, <2>3, <1>b, <1>d DEF PlaceOK, Active
<1>3. CASE SelectWallet(t)
  <2>1. /\ pc[t] = "select" /\ pc'[t] \in {"check", "insert"} /\ ~Locks(t)
        /\ UNCHANGED <<req, todo, cur, pend>>
    BY <1>3 DEF SelectWallet, TypeOK
  <2>. QED
    BY <2>1, <1>c, <1>d DEF PostedOK, PlaceOK, Active
<1>4. CASE InsertWallet(t) /\ ~Fail(t)
  <2>1. /\ pc[t] = "insert" /\ pc'[t] = "check" /\ UNCHANGED <<req, todo, cur, pend>>
    BY <1>4 DEF InsertWallet, TypeOK
  <2>2. ~Locks(t)
    BY <2>1 DEF SessionInv, ReadOK
  <2>. QED
    BY <2>1, <2>2, <1>c, <1>d DEF PostedOK, PlaceOK, Active
<1>5. CASE LockWallet(t) /\ ~Fail(t)
  <2>1. /\ pc[t] = "select" /\ pc'[t] = "check" /\ ProductOf[cur[t]] = req[t].product
        /\ UNCHANGED <<req, todo, cur, pend>>
    BY <1>5 DEF LockWallet, TypeOK
  <2>. QED
    BY <2>1, <1>c, <1>d DEF PostedOK, PlaceOK, Active
<1>6. CASE Check(t) /\ ~Fail(t)
  <2>1. /\ pc[t] = "check" /\ UNCHANGED <<req, todo, cur, pend>>
        /\ \/ pc'[t] = "write"
           \/ pc'[t] = "next" /\ AlreadyDone(t)
    BY <1>6 DEF Check, TypeOK
  <2>2. req[t].kind = "grant" /\ AlreadyDone(t) => Settled(t, cur[t])
    BY DEF AlreadyDone, Referenced, Settled
  <2>. QED
    BY <2>1, <2>2, <1>c, <1>d DEF PostedOK, PlaceOK, Active
<1>7. CASE Flush(t)
  <2>1. /\ pc[t] = "write" /\ pc'[t] = "next" /\ UNCHANGED <<req, todo, cur>>
        /\ pend'[t] = pend[t] \cup {NewEntry(t)}
    BY <1>7 DEF Flush, TypeOK
  <2>2. PostedOK(t)'
    BY <2>1, <1>c, NewEntryPosted DEF PostedOK
  <2>3. Settled(t, cur[t])'
    <3>1. NewEntry(t) \in pend'[t] /\ NewEntry(t).wallet = cur'[t]
      BY <2>1 DEF NewEntry
    <3>2. \E e \in pend'[t] : e.wallet = cur'[t]
      BY <3>1, Zenon
    <3>. QED
      BY <3>2 DEF Settled
  <2>. QED
    BY <2>1, <2>2, <2>3, <1>d DEF PlaceOK, Active
<1>8. CASE Commit(t)
  <2>1. /\ pc'[t] = "done" /\ pend'[t] = {} /\ UNCHANGED <<req, todo, cur>>
    BY <1>8 DEF Commit, TypeOK
  <2>. QED
    BY <2>1 DEF PostedOK, PlaceOK, Active
<1>. QED
  BY <1>1, <1>2, <1>3, <1>4, <1>5, <1>6, <1>7, <1>8 DEF Progress, Abort, DeadlockVictim

\* Every reachable state: what is flushed was asked for, what is left is known.
THEOREM AccountInvariance == Spec => []AccountInv
<1>1. Init => AccountInv
  BY DEF Init, AccountInv, PostedOK, PlaceOK, Active
<1>2. IInv /\ AccountInv /\ [Next]_vars => AccountInv'
  <2>1. ASSUME IInv, AccountInv, UNCHANGED vars
        PROVE  AccountInv'
    BY <2>1 DEF vars, AccountInv, PostedOK, PlaceOK, Settled, Locks
  <2>2. ASSUME IInv, AccountInv, Next
        PROVE  AccountInv'
    <3>1. PICK t \in Txn : Progress(t) \/ Abort(t) \/ \E w \in Wallet : Start(t, w)
      BY <2>2 DEF Next
    <3>2. PostedOK(t)' /\ PlaceOK(t)'
      BY <2>2, <3>1, OwnPlaceKept DEF AccountInv
    <3>3. ASSUME NEW u \in Txn, u # t
          PROVE  PostedOK(u)' /\ PlaceOK(u)'
      <4>1. /\ pc'[u] = pc[u] /\ req'[u] = req[u] /\ todo'[u] = todo[u]
            /\ cur'[u] = cur[u] /\ pend'[u] = pend[u]
        BY <2>2, <3>1, <3>3
           DEF IInv, TypeOK, Progress, Abort, DeadlockVictim, Start, SelectWallet,
               InsertWallet, LockWallet, Check, Flush, Commit, Fail, tables
      <4>. QED
        BY <2>2, <3>3, <4>1, OthersPlaceKept DEF AccountInv
    <3>. QED
      BY <3>2, <3>3 DEF AccountInv
  <2>. QED
    BY <2>1, <2>2
<1>. QED
  BY <1>1, <1>2, Invariance, PTL DEF Spec
-----------------------------------------------------------------------------
(***************************************************************************)
(* The refinement.                                                         *)
(***************************************************************************)

\* What a commit does to one wallet: nothing, or one of the flushed rows, which
\* fits the journal, is appended.
LEMMA CommitPosts ==
    ASSUME IInv, NEW t \in Txn, Commit(t), NEW w \in Wallet
    PROVE  /\ (\A e \in pend[t] : e.wallet # w) =>
                 ledger'[w] = ledger[w] /\ balance'[w] = balance[w]
           /\ (\E e \in pend[t] : e.wallet = w) =>
                 \E e \in pend[t] :
                    /\ e \in Entry /\ e.wallet = w
                    /\ Fits(ledger[w], e, Len(ledger[w]))
                    /\ ledger'[w] = Append(ledger[w], e)
                    /\ balance'[w] = e.after
<1>1. ASSUME \A e \in pend[t] : e.wallet # w
      PROVE  ledger'[w] = ledger[w] /\ balance'[w] = balance[w]
  <2>1. Pending(t, w) = {}
    BY <1>1 DEF Pending
  <2>. QED
    BY <2>1 DEF Commit
<1>2. ASSUME \E e \in pend[t] : e.wallet = w
      PROVE  LET e == PendingEntry(t, w)
             IN  /\ e \in pend[t] /\ e \in Entry /\ e.wallet = w
                 /\ Fits(ledger[w], e, Len(ledger[w]))
                 /\ ledger'[w] = Append(ledger[w], e)
                 /\ balance'[w] = e.after
  <2>1. Pending(t, w) # {}
    BY <1>2 DEF Pending
  <2>2. /\ PendingEntry(t, w) \in pend[t] /\ PendingEntry(t, w) \in Entry
        /\ PendingEntry(t, w).wallet = w
    BY <2>1, PendingEntryType DEF IInv
  <2>3. ledger'[w] = Append(ledger[w], PendingEntry(t, w)) /\ balance'[w] = PendingEntry(t, w).after
    BY <2>1 DEF Commit
  <2>4. Fits(ledger[w], PendingEntry(t, w), Len(ledger[w]))
    BY <2>2 DEF IInv, SessionInv, PendOK
  <2>. QED
    BY <2>2, <2>3, <2>4
<1>. QED
  BY <1>1, <1>2

\* A fitting entry is what the account's Post appends.
LEMMA FitsIsPost ==
    ASSUME NEW w \in Wallet, NEW e \in Entry, e.wallet = w,
           Fits(ledger[w], e, Len(ledger[w])),
           ledger'[w] = Append(ledger[w], e), balance'[w] = e.after
    PROVE  /\ Account!Post(w, e.kind, e.amount, e.ref, e.base)
           /\ ~Account!Carries(w, e.base, e.ref)
<1>1. e = [wallet |-> w, kind |-> e.kind, amount |-> e.amount, ref |-> e.ref,
           after |-> e.after, base |-> e.base]
  BY DEF Entry
<1>2. e.after = Account!BalanceAt(w, e.base) + e.amount
  BY DEF Fits, BalanceAfter, Account!BalanceAt
<1>3. Account!Post(w, e.kind, e.amount, e.ref, e.base)
  BY <1>1, <1>2 DEF Account!Post
<1>4. ~Account!Carries(w, e.base, e.ref)
  BY DEF Fits, NotYet, Account!Carries
<1>. QED
  BY <1>3, <1>4

\* A committed plan grant is one step of the account.
LEMMA CommitGrants ==
    ASSUME IInv, AccountInv, NEW t \in Txn, Commit(t), req[t].kind = "grant"
    PROVE  Account!Grant(req[t])
<1>. DEFINE q == req[t]
<1>1. q.wallets \subseteq Wallet
  BY RequestsAssumption DEF IInv, TypeOK, Request
<1>2. ASSUME NEW w \in q.wallets
      PROVE  Account!Granted(q, w)
  <2>1. CASE \E e \in pend[t] : e.wallet = w
    <3>1. PICK e \in pend[t] :
             /\ e \in Entry /\ e.wallet = w
             /\ Fits(ledger[w], e, Len(ledger[w]))
             /\ ledger'[w] = Append(ledger[w], e)
             /\ balance'[w] = e.after
      BY <1>1, <2>1, CommitPosts
    <3>2. e.kind = "grant" /\ e.amount = q.amount /\ e.ref = q.ref
      BY DEF AccountInv, PostedOK
    <3>3. ledger[w] \in Seq(Entry)
      BY <1>1 DEF IInv, TypeOK
    <3>4. e.base \in 0..Len(ledger[w])
      BY <3>1, <3>3, LenProperties DEF Fits, Entry
    <3>5. /\ Account!Post(w, e.kind, e.amount, e.ref, e.base)
          /\ ~Account!Carries(w, e.base, e.ref)
      BY <1>1, <3>1, FitsIsPost
    <3>. QED
      BY <3>2, <3>4, <3>5 DEF Account!Granted, Account!Latest
  <2>2. CASE ~\E e \in pend[t] : e.wallet = w
    <3>1. Settled(t, w)
      BY DEF AccountInv, PlaceOK, Commit, Active
    <3>2. Account!Carries(w, Len(ledger[w]), q.ref)
      BY <2>2, <3>1 DEF Settled, Account!Carries
    <3>3. Account!Keep(w)
      BY <1>1, <2>2, CommitPosts DEF Account!Keep
    <3>. QED
      BY <3>2, <3>3 DEF Account!Granted, Account!Latest
  <2>. QED
    BY <2>1, <2>2
<1>3. ASSUME NEW w \in Wallet \ q.wallets
      PROVE  Account!Keep(w)
  <2>1. \A e \in pend[t] : e.wallet # w
    BY DEF AccountInv, PostedOK
  <2>. QED
    BY <2>1, CommitPosts DEF Account!Keep
<1>. QED
  BY <1>2, <1>3 DEF Account!Grant, Account!KeepOthers
\* A committed debit or reset is one step of the account, or none.
LEMMA CommitDebits ==
    ASSUME IInv, AccountInv, NEW t \in Txn, Commit(t), req[t].kind # "grant"
    PROVE  \/ UNCHANGED <<balance, ledger>>
           \/ \E w \in Wallet : Account!Consume(req[t], w) \/ Account!Reset(req[t], w)
<1>. DEFINE q == req[t]
<1>1. q \in Requests /\ q \in Request
  BY RequestsAssumption DEF IInv, TypeOK
<1>2. PICK w \in Wallet : q.wallets = {w}
  BY <1>1, RequestsAssumption
<1>3. \A e \in pend[t] : e.wallet = w /\ e.kind = q.kind
  BY <1>2 DEF AccountInv, PostedOK
<1>4. Account!KeepOthers({w})
  BY <1>3, CommitPosts DEF Account!KeepOthers, Account!Keep
<1>5. CASE \A e \in pend[t] : e.wallet # w
  <2>1. \A v \in Wallet : balance'[v] = balance[v] /\ ledger'[v] = ledger[v]
    BY <1>4, <1>5, CommitPosts DEF Account!KeepOthers, Account!Keep
  <2>2. /\ balance' = [v \in Wallet |-> balance'[v]] /\ balance = [v \in Wallet |-> balance[v]]
        /\ ledger' = [v \in Wallet |-> ledger'[v]] /\ ledger = [v \in Wallet |-> ledger[v]]
    BY DEF Commit, IInv, TypeOK
  <2>. QED
    BY <2>1, <2>2
<1>6. CASE \E e \in pend[t] : e.wallet = w
  <2>1. PICK e \in pend[t] :
           /\ e \in Entry /\ e.wallet = w
           /\ Fits(ledger[w], e, Len(ledger[w]))
           /\ ledger'[w] = Append(ledger[w], e)
           /\ balance'[w] = e.after
    BY <1>6, CommitPosts
  <2>2. e.kind = q.kind /\ q.kind \in {"consume", "reset"}
    BY <1>1, <1>3 DEF Request, Kind
  <2>3. /\ e.base = Len(ledger[w]) /\ e.after >= 0 /\ e.after = balance[w] + e.amount
        /\ e.after \in Int /\ e.amount \in Int /\ balance[w] \in Int
    BY <2>1, <2>2 DEF Fits, Entry, IInv, TypeOK, JournalInv
  <2>4. /\ Account!Post(w, e.kind, e.amount, e.ref, Len(ledger[w]))
        /\ ~Account!Carries(w, Len(ledger[w]), e.ref)
    BY <2>1, <2>3, FitsIsPost
  <2>5. ProductOf[w] = q.product
    BY <2>1, <2>2 DEF AccountInv, PostedOK, Locks
  <2>6. CASE q.kind = "consume"
    <3>1. e.ref = q.ref /\ e.amount = -q.amount
      BY <2>2, <2>6 DEF AccountInv, PostedOK
    <3>2. q.amount \in Nat
      BY <1>1 DEF Request
    <3>3. balance[w] >= q.amount
      BY <2>3, <3>1, <3>2
    <3>4. Account!Consume(q, w)
      BY <1>2, <1>4, <2>2, <2>4, <2>5, <2>6, <3>1, <3>3
         DEF Account!Consume, Account!Latest
    <3>. QED
      BY <3>4
  <2>7. CASE q.kind = "reset"
    <3>1. e.ref = NoRef /\ e.after = 0
      BY <2>2, <2>7 DEF AccountInv, PostedOK
    <3>2. e.amount = -balance[w] /\ balance'[w] = 0
      BY <2>1, <2>3, <3>1
    <3>3. Account!Reset(q, w)
      BY <1>2, <1>4, <2>2, <2>4, <2>5, <2>7, <3>1, <3>2
         DEF Account!Reset, Account!Latest
    <3>. QED
      BY <3>3
  <2>. QED
    BY <2>2, <2>6, <2>7
<1>. QED
  BY <1>5, <1>6

\* The credit service does what the account promises: plan grants reach all of
\* their wallets or none, debits and resets act on the balance of the moment.
THEOREM Refinement == Spec => ImplementsAccount
<1>1. Init => Account!Init
  BY DEF Init, Account!Init
<1>2. IInv /\ AccountInv /\ [Next]_vars => [Account!Next]_(Account!vars)
  <2>1. ASSUME IInv, AccountInv, NEW t \in Txn, Commit(t)
        PROVE  [Account!Next]_(Account!vars)
    <3>1. req[t] \in Requests
      BY <2>1 DEF IInv, TypeOK
    <3>2. CASE req[t].kind = "grant"
      BY <2>1, <3>1, <3>2, CommitGrants DEF Account!Next
    <3>3. CASE req[t].kind # "grant"
      BY <2>1, <3>1, <3>3, CommitDebits DEF Account!Next, Account!vars
    <3>. QED
      BY <3>2, <3>3
  <2>2. ASSUME [Next]_vars, ~\E t \in Txn : Commit(t)
        PROVE  [Account!Next]_(Account!vars)
    <3>1. UNCHANGED <<balance, ledger>>
      BY <2>2 DEF vars, Next, Progress, Abort, DeadlockVictim, Start, SelectWallet,
                  InsertWallet, LockWallet, Check, Flush, Fail, tables
    <3>. QED
      BY <3>1 DEF Account!vars
  <2>. QED
    BY <2>1, <2>2
<1>. QED
  BY <1>1, <1>2, Invariance, AccountInvariance, PTL DEF Spec, ImplementsAccount, Account!Spec

-----------------------------------------------------------------------------
(***************************************************************************)
(* Components: what the invariant says of calls, rows and evaluators.      *)
(***************************************************************************)

CreateAsked == [op: {"create"}, default: BOOLEAN, active: BOOLEAN, required: SUBSET Plan]
UpdateAsked ==
    [op: {"update"}, column: {"active", "default"}, value: BOOLEAN]
    \cup [op: {"update"}, column: {"required"}, value: SUBSET Plan]
SetAsked == [op: {"set"}, scope: Scope, by: {"user", "platform", None}, enabled: BOOLEAN]
ClearAsked == [op: {"clear"}, scope: Scope]
OverrideAsked == CreateAsked \cup UpdateAsked \cup [op: {"delete"}] \cup SetAsked \cup ClearAsked

Wrote == Cardinality(Committed)

\* What a call has asked; calls commit one after the other.
CallsFit ==
    /\ at \in [Call -> {"idle", "write", "ended", "left"}]
    /\ readAt \in [Call -> Nat] /\ wroteAt \in [Call -> Nat]
    /\ DOMAIN asked = Call /\ asked = [c \in Call |-> asked[c]]
    /\ DOMAIN got = Call /\ got = [c \in Call |-> got[c]]
    /\ IsFiniteSet(Committed)
    /\ \A c \in Call :
        /\ at[c] = "write" \/ wroteAt[c] > 0 => asked[c] \in OverrideAsked
        /\ wroteAt[c] > 0 => at[c] = "ended"
        /\ readAt[c] <= Wrote /\ wroteAt[c] <= Wrote
        /\ wroteAt[c] > 0 => readAt[c] < wroteAt[c]

SetsOf(s, comp) == {c \in Committed : asked[c].op = "set" /\ asked[c].scope = s
                                      /\ got[c].component = comp}
\* A set that is to update the row it loaded: the row has that flag still, or
\* another set of it has committed since.
RowIsFresh(c) ==
    LET row == got[c].row  o == override[asked[c].scope] IN
    at[c] = "write" /\ asked[c].op = "set" /\ row # None /\ o # None /\ o.id = row.id =>
        \/ o.enabled = row.enabled
        \/ \E d \in SetsOf(asked[c].scope, o.component) : readAt[c] < wroteAt[d]

RowsInv ==
    /\ component \in ProductComponent \cup {None}
    /\ override \in [Scope -> Override \cup {None}]
    /\ plan \in Plan \cup {None}
    /\ NoOrphanedOverride /\ OverrideIsTheLastSet
    /\ \A c \in Call : RowIsFresh(c)

-----------------------------------------------------------------------------
(* The evaluators.                                                         *)

\* What an evaluator has read so far.
Shape(v) ==
    \/ v.pc \in {"idle", "ended"}
    \/ /\ v.pc \in {"user", "tenant", "plan"} /\ v.kind \in {"gate", "list", "tenant"}
       /\ v.component \in ProductComponent /\ v.component.active
       /\ v.pc = "user" => v.kind # "tenant"
       /\ v.pc \in {"tenant", "plan"} =>
            v.user \in Override \cup {None} /\ (v.kind # "list" => v.user = None)
       /\ v.pc = "plan" => v.tenant \in Override \cup {None}

\* It read what there is.
Current(v) ==
    /\ v.component = component
    /\ v.pc \in {"tenant", "plan"} /\ v.kind # "tenant" => v.user = Of(component, override["user"])
    /\ v.pc = "plan" => v.tenant = Of(component, override["tenant"])

\* What it would answer if nothing changed any more.
Completed(v, o, p) ==
    Decided(v.component,
            IF v.pc = "user" THEN Of(v.component, o["user"]) ELSE v.user,
            IF v.pc = "plan" THEN v.tenant ELSE Of(v.component, o["tenant"]), p)

DeletedUnder(v) == \E c \in Committed : asked[c].op = "delete" /\ got[c].id = v.component.id

EvalHolds(e) ==
    /\ Shape(ev[e])
    /\ ev[e].pc = "idle" => changes[e] = 0
    /\ Running(e) /\ changes[e] = 0 => Current(ev[e])
    /\ Running(e) /\ changes[e] <= 1 =>
         Completed(ev[e], override, plan) \in held[e] \/ DeletedUnder(ev[e])

EvalsInv ==
    /\ DOMAIN ev = Eval /\ ev = [e \in Eval |-> ev[e]]
    /\ held \in [Eval -> SUBSET BOOLEAN] /\ changes \in [Eval -> Nat]
    /\ \A e \in Eval : EvalHolds(e)
    /\ AnswerHeldUnlessTorn

EntitlementsInv == CallsFit /\ RowsInv /\ EvalsInv

-----------------------------------------------------------------------------
(* Steps of the calls.                                                     *)

Asking(c) == at[c] = "write"
Same(d) == asked'[d] = asked[d] /\ got'[d] = got[d] /\ readAt'[d] = readAt[d]
\* A step in which none commits, and only those of N begin.
Still(N) ==
    /\ wroteAt' = wroteAt
    /\ \A d \in Call : wroteAt[d] > 0 => Same(d)
    /\ \A d \in Call : Asking(d)' => d \in N \/ (Asking(d) /\ Same(d))
\* The step of c's commit.
Lands(c) ==
    /\ Asking(c) /\ c \notin Committed /\ Committed' = Committed \cup {c}
    /\ Wrote \in Nat /\ wroteAt'[c] = Wrote + 1
    /\ asked' = asked /\ got' = got /\ readAt' = readAt
    /\ \A d \in Call \ {c} : wroteAt'[d] = wroteAt[d] /\ (Asking(d)' => Asking(d))
    /\ ~Asking(c)'

CallFits(c) ==
    /\ at[c] = "write" \/ wroteAt[c] > 0 => asked[c] \in OverrideAsked
    /\ wroteAt[c] > 0 => at[c] = "ended"
    /\ readAt[c] <= Wrote /\ wroteAt[c] <= Wrote
    /\ wroteAt[c] > 0 => readAt[c] < wroteAt[c]

LEMMA WroteType ==
    ASSUME CallsFit
    PROVE  Wrote \in Nat /\ Committed \subseteq Call
BY FS_CardinalityType DEF CallsFit, Wrote, Committed

LEMMA CallsAreStill ==
    ASSUME CallsFit, UNCHANGED calls
    PROVE  CallsFit' /\ Still({})
BY DEF CallsFit, Still, Same, calls, Wrote, Committed, Asking

LEMMA CallGoes ==
    ASSUME CallsFit, NEW c \in Call, NEW r \in OverrideAsked, NEW g, Goes(c, r, g)
    PROVE  CallsFit' /\ Still({c}) /\ asked'[c] = r /\ got'[c] = g
<1>1. Committed' = Committed /\ Wrote' = Wrote /\ Wrote \in Nat
  BY WroteType DEF Committed, Wrote, Goes
<1>2. wroteAt[c] = 0
  BY DEF CallsFit, Goes
<1>3. /\ at' = [at EXCEPT ![c] = "write"] /\ asked' = [asked EXCEPT ![c] = r]
      /\ got' = [got EXCEPT ![c] = g] /\ readAt' = [readAt EXCEPT ![c] = Wrote]
      /\ wroteAt' = wroteAt
  BY DEF Goes, Wrote
<1>4. \A d \in Call \ {c} : at'[d] = at[d] /\ Same(d)
  BY <1>3 DEF CallsFit, Same
<1>5. at'[c] = "write" /\ asked'[c] = r /\ got'[c] = g /\ readAt'[c] = Wrote
  BY <1>3 DEF CallsFit
<1>6. Still({c})
  BY <1>2, <1>3, <1>4 DEF Still, Asking
<1>7. /\ DOMAIN asked' = Call /\ asked' = [d \in Call |-> asked'[d]]
      /\ DOMAIN got' = Call /\ got' = [d \in Call |-> got'[d]]
  BY <1>3 DEF CallsFit
<1>8. ASSUME NEW d \in Call PROVE CallFits(d)'
  <2>1. CallFits(d)
    BY DEF CallsFit, CallFits
  <2>2. OverrideAsked' = OverrideAsked
    OBVIOUS
  <2>3. CASE d = c
    BY <2>3, <1>1, <1>2, <1>3, <1>5 DEF CallFits
  <2>4. CASE d # c
    BY <2>1, <2>4, <1>1, <1>3, <1>4 DEF CallFits, Same
  <2> QED BY <2>3, <2>4
<1> QED BY <1>1, <1>3, <1>5, <1>6, <1>7, <1>8 DEF CallsFit, CallFits

LEMMA CallLeaves ==
    ASSUME CallsFit, NEW c \in Call, at[c] \in {"idle", "write"}, Leaves(c)
    PROVE  CallsFit' /\ Still({})
<1>1. Committed' = Committed /\ Wrote' = Wrote /\ Wrote \in Nat
  BY WroteType DEF Committed, Wrote, Leaves
<1>2. wroteAt[c] = 0
  BY DEF CallsFit
<1>3. \A d \in Call \ {c} : at'[d] = at[d] /\ Same(d)
  BY DEF CallsFit, Same, Leaves
<1>4. at'[c] = "left" /\ readAt'[c] = 0 /\ wroteAt' = wroteAt
  BY DEF CallsFit, Leaves
<1>5. Still({})
  BY <1>2, <1>3, <1>4 DEF Still, Asking
<1>6. /\ DOMAIN asked' = Call /\ asked' = [d \in Call |-> asked'[d]]
      /\ DOMAIN got' = Call /\ got' = [d \in Call |-> got'[d]]
      /\ at' \in [Call -> {"idle", "write", "ended", "left"}] /\ readAt' \in [Call -> Nat]
  BY DEF CallsFit, Leaves
<1>7. ASSUME NEW d \in Call PROVE CallFits(d)'
  <2>1. CallFits(d)
    BY DEF CallsFit, CallFits
  <2>2. CASE d = c
    BY <2>2, <1>1, <1>2, <1>4 DEF CallFits
  <2>3. CASE d # c
    BY <2>1, <2>3, <1>1, <1>3, <1>4 DEF CallFits, Same
  <2> QED BY <2>2, <2>3
<1> QED BY <1>1, <1>4, <1>5, <1>6, <1>7 DEF CallsFit, CallFits

LEMMA CallLands ==
    ASSUME CallsFit, NEW c \in Call, Commits(c)
    PROVE  CallsFit' /\ Lands(c)
<1>1. wroteAt[c] = 0 /\ c \notin Committed /\ at[c] = "write"
  BY DEF CallsFit, Committed, Commits
<1>2. Wrote \in Nat /\ 1 + Wrote = Wrote + 1
  BY WroteType
<1>3. wroteAt' = [wroteAt EXCEPT ![c] = Wrote + 1]
  BY <1>2 DEF Commits, Wrote
<1>4. /\ wroteAt'[c] = Wrote + 1 /\ at'[c] = "ended"
      /\ \A d \in Call \ {c} : wroteAt'[d] = wroteAt[d] /\ at'[d] = at[d]
      /\ asked' = asked /\ got' = got /\ readAt' = readAt
  BY <1>3 DEF Commits, CallsFit
<1>5. Committed' = Committed \cup {c}
  BY <1>2, <1>4 DEF Committed, CallsFit
<1>6. IsFiniteSet(Committed') /\ Wrote' = Wrote + 1
  BY <1>1, <1>5, FS_AddElement DEF CallsFit, Wrote
<1>7. Lands(c)
  BY <1>1, <1>2, <1>4, <1>5 DEF Lands, Asking
<1>8. ASSUME NEW d \in Call PROVE CallFits(d)'
  <2>1. CallFits(d) /\ readAt[d] \in Nat /\ wroteAt[d] \in Nat
    BY DEF CallsFit, CallFits
  <2>2. CASE d = c
    BY <2>1, <2>2, <1>1, <1>2, <1>4, <1>6 DEF CallFits
  <2>3. CASE d # c
    BY <2>1, <2>3, <1>2, <1>4, <1>6 DEF CallFits
  <2> QED BY <2>2, <2>3
<1>9. at' \in [Call -> {"idle", "write", "ended", "left"}] /\ wroteAt' \in [Call -> Nat]
  BY <1>2, <1>3 DEF CallsFit, Commits
<1> QED BY <1>4, <1>6, <1>7, <1>8, <1>9 DEF CallsFit, CallFits

-----------------------------------------------------------------------------
(* The overrides.                                                          *)

LEMMA StillSets ==
    ASSUME NEW N, Still(N)
    PROVE  /\ Committed' = Committed
           /\ \A s, comp : SetsOf(s, comp)' = SetsOf(s, comp)
           /\ \A d \in Committed : Same(d)
<1>1. Committed' = Committed
  BY DEF Still, Committed
<1>2. \A d \in Committed : Same(d)
  BY DEF Still, Committed
<1> QED BY <1>1, <1>2 DEF SetsOf, Same

LEMMA RowsStill ==
    ASSUME CallsFit, RowsInv, NEW N, Still(N), UNCHANGED <<component, override>>,
           plan' \in Plan \cup {None}, \A c \in Call \cap N : RowIsFresh(c)'
    PROVE  RowsInv'
<1>1. /\ Committed' = Committed
      /\ \A s, comp : SetsOf(s, comp)' = SetsOf(s, comp)
      /\ \A d \in Committed : Same(d)
  BY StillSets
<1>2. NoOrphanedOverride'
  BY DEF RowsInv, NoOrphanedOverride
<1>3. wroteAt' = wroteAt
  BY DEF Still
<1>4. OverrideIsTheLastSet'
  BY <1>1, <1>3 DEF RowsInv, OverrideIsTheLastSet, Overlap, Same
<1>5. ASSUME NEW c \in Call PROVE RowIsFresh(c)'
  <2>1. CASE c \in N
    BY <2>1
  <2>2. CASE c \notin N
    <3>1. SUFFICES ASSUME Asking(c)' PROVE RowIsFresh(c)'
      BY DEF RowIsFresh, Asking
    <3>2. Asking(c) /\ Same(c)
      BY <2>2, <3>1 DEF Still
    <3>3. RowIsFresh(c)
      BY DEF RowsInv
    <3>4. at[c] = "write" /\ asked'[c] = asked[c] /\ got'[c] = got[c] /\ readAt'[c] = readAt[c]
      BY <3>2 DEF Asking, Same
    <3> QED BY <3>3, <3>4, <1>1, <1>3 DEF RowIsFresh
  <2> QED BY <2>1, <2>2
<1> QED BY <1>2, <1>4, <1>5 DEF RowsInv

\* The flag of the row o is what the last set of it was asked for.
LastSetOf(s, o) ==
    \A x \in SetsOf(s, o.component) : (\A d \in SetsOf(s, o.component) : wroteAt[d] <= wroteAt[x]) =>
        o.enabled = asked[x].enabled \/ \E d \in SetsOf(s, o.component) \ {x} : Overlap(x, d)

LEMMA LastSets ==
    ASSUME OverrideIsTheLastSet, NEW s \in Scope, NEW o, o = override[s], o # None
    PROVE  LastSetOf(s, o)
BY DEF OverrideIsTheLastSet, LastSetOf, SetsOf

LEMMA LastSetsThen ==
    ASSUME \A s \in Scope : \A o : o = override'[s] /\ o # None => LastSetOf(s, o)'
    PROVE  OverrideIsTheLastSet'
BY DEF OverrideIsTheLastSet, LastSetOf, SetsOf

LEMMA LandsSets ==
    ASSUME CallsFit, NEW c \in Call, Lands(c)
    PROVE  /\ \A s, comp : SetsOf(s, comp)' =
                IF asked[c].op = "set" /\ asked[c].scope = s /\ got[c].component = comp
                THEN SetsOf(s, comp) \cup {c} ELSE SetsOf(s, comp)
           /\ \A d \in Committed : d # c /\ wroteAt'[d] = wroteAt[d] /\ wroteAt[d] <= Wrote
                                   /\ wroteAt[d] \in Nat /\ readAt[d] <= Wrote
<1>1. Committed' = Committed \cup {c} /\ asked' = asked /\ got' = got
  BY DEF Lands
<1>2. \A d \in Committed : d # c /\ wroteAt'[d] = wroteAt[d] /\ wroteAt[d] <= Wrote
                           /\ wroteAt[d] \in Nat /\ readAt[d] <= Wrote
  BY DEF Lands, Committed, CallsFit
<1> QED BY <1>1, <1>2 DEF SetsOf

\* A call that waits to write its set.
LEMMA WaitingSet ==
    ASSUME CallsFit, RowsInv, NEW c \in Call, Lands(c), NEW d \in Call, Asking(d)',
           override'[asked[d].scope] = override[asked[d].scope]
    PROVE  RowIsFresh(d)'
<1>0. PICK r, row, o : r = asked[d] /\ row = got[d].row /\ o = override[asked[d].scope]
  OBVIOUS
<1>1. d # c /\ Asking(d) /\ RowIsFresh(d)
  BY DEF Lands, RowsInv
<1>2. asked' = asked /\ got' = got /\ readAt' = readAt /\ at[d] = "write"
  BY <1>1 DEF Lands, Asking
<1>3. SUFFICES ASSUME r.op = "set", row # None, o # None, o.id = row.id, o.enabled # row.enabled
               PROVE  \E x \in SetsOf(r.scope, o.component)' : readAt[d] < wroteAt'[x]
  BY <1>0, <1>2 DEF RowIsFresh
<1>4. PICK x \in SetsOf(r.scope, o.component) : readAt[d] < wroteAt[x]
  BY <1>0, <1>1, <1>2, <1>3 DEF RowIsFresh
<1>5. wroteAt'[x] = wroteAt[x]
  BY LandsSets DEF SetsOf
<1>6. x \in SetsOf(r.scope, o.component)'
  BY LandsSets
<1> QED BY <1>4, <1>5, <1>6

LEMMA RowsOfOthers ==
    ASSUME CallsFit, RowsInv, NEW c \in Call, Lands(c), asked[c].op # "set",
           component' \in ProductComponent \cup {None}, plan' = plan,
           override' \in [Scope -> Override \cup {None}], NoOrphanedOverride',
           \A s \in Scope : override'[s] \in {override[s], None}
    PROVE  RowsInv'
<1>1. \A s, comp : SetsOf(s, comp)' = SetsOf(s, comp)
  BY LandsSets
<1>2. \A d \in Committed : wroteAt'[d] = wroteAt[d]
  BY LandsSets
<1>3. asked' = asked /\ got' = got /\ readAt' = readAt
  BY DEF Lands
<1>4. OverrideIsTheLastSet'
  <2>1. SUFFICES ASSUME NEW s \in Scope, NEW o, o = override'[s], o # None
                 PROVE  LastSetOf(s, o)'
    BY LastSetsThen
  <2>2. LastSetOf(s, o)
    BY <2>1, LastSets DEF RowsInv
  <2>3. SetsOf(s, o.component)' = SetsOf(s, o.component) /\ SetsOf(s, o.component) \subseteq Committed
    BY <1>1 DEF SetsOf
  <2>4. \A x, d \in SetsOf(s, o.component) :
            /\ wroteAt'[d] = wroteAt[d] /\ wroteAt'[x] = wroteAt[x]
            /\ Overlap(x, d)' <=> Overlap(x, d)
    BY <1>2, <1>3, <2>3 DEF Overlap
  <2> QED BY <2>2, <2>3, <2>4, <1>3 DEF LastSetOf
<1>5. ASSUME NEW d \in Call PROVE RowIsFresh(d)'
  <2>1. CASE ~Asking(d)'
    BY <2>1 DEF RowIsFresh, Asking
  <2>2. CASE Asking(d)' /\ override'[asked[d].scope] = None
    BY <2>2, <1>3 DEF RowIsFresh
  <2>3. CASE Asking(d)' /\ override'[asked[d].scope] = override[asked[d].scope]
    BY <2>3, WaitingSet
  <2>4. CASE Asking(d)' /\ asked[d].op # "set"
    BY <2>4, <1>3 DEF RowIsFresh
  <2>5. Asking(d)' => asked[d] \in OverrideAsked
    BY DEF Lands, Asking, CallsFit
  <2>6. Asking(d)' /\ asked[d].op = "set" => asked[d].scope \in Scope
    BY <2>5 DEF OverrideAsked, CreateAsked, UpdateAsked, SetAsked, ClearAsked
  <2> QED BY <2>1, <2>2, <2>3, <2>4, <2>6
<1> QED BY <1>4, <1>5 DEF RowsInv

\* The set that commits is the last, and it has met whoever changed the flag
\* since it read it.
LEMMA RowsOfSet ==
    ASSUME CallsFit, RowsInv, NEW c \in Call, NEW s \in Scope, SetWrite(c, s), Lands(c)
    PROVE  RowsInv'
<1> DEFINE o == override[s]
           row == got[c].row
           new == IF row = None
                  THEN [id |-> c, component |-> component.id, enabled |-> asked[c].enabled]
                  ELSE Overwritten(c, o)
<1>0. PICK u, k : u = override' /\ k = component.id
  OBVIOUS
<1>1. /\ asked[c].op = "set" /\ asked[c].scope = s /\ component # None /\ component.id = got[c].component
      /\ IF row = None THEN o = None ELSE o # None /\ o.id = row.id
      /\ override' = [override EXCEPT ![s] = new]
      /\ component' = component /\ plan' = plan
  BY DEF SetWrite, References, Commits
<1>2. asked[c] \in OverrideAsked
  BY DEF Lands, Asking, CallsFit
<1>3. asked[c].enabled \in BOOLEAN
  BY <1>1, <1>2 DEF OverrideAsked, CreateAsked, UpdateAsked, SetAsked, ClearAsked
<1>4. component \in ProductComponent /\ component.id \in Id
  BY <1>1 DEF RowsInv, ProductComponent
<1>5. row # None => o \in Override /\ o.component = component.id
  BY <1>1 DEF RowsInv, NoOrphanedOverride
<1>6. new \in Override /\ new.component = component.id
  <2>1. CASE row = None
    BY <2>1, <1>3, <1>4 DEF Override, Id
  <2>2. CASE row # None
    BY <2>2, <1>3, <1>5 DEF Override, Overwritten
  <2> QED BY <2>1, <2>2
<1>7. /\ override'[s] = new /\ \A t \in Scope \ {s} : override'[t] = override[t]
      /\ override' \in [Scope -> Override \cup {None}]
  BY <1>1, <1>6 DEF RowsInv
<1>8. NoOrphanedOverride'
  BY <1>1, <1>6, <1>7 DEF RowsInv, NoOrphanedOverride
<1>9. /\ asked' = asked /\ got' = got /\ readAt' = readAt /\ Wrote \in Nat /\ wroteAt'[c] = Wrote + 1
      /\ readAt[c] <= Wrote /\ readAt[c] \in Nat
  BY DEF Lands, CallsFit
<1>10. c \in SetsOf(s, k)' /\ u[s].component = k
  BY <1>0, <1>1, <1>6, <1>7, LandsSets
<1>11. \A d \in SetsOf(s, component.id) : d \in Committed
  BY DEF SetsOf
<1>12. new.enabled = asked[c].enabled
       \/ \E d \in SetsOf(s, component.id) : readAt[c] < wroteAt[d]
  <2>1. CASE row = None
    BY <2>1
  <2>2. CASE row # None /\ asked[c].enabled # row.enabled
    <3>1. new = [o EXCEPT !.enabled = asked[c].enabled]
      BY <2>2 DEF Overwritten
    <3> QED BY <3>1, <2>2, <1>5 DEF Override
  <2>3. CASE row # None /\ asked[c].enabled = row.enabled
    <3>1. new = o
      BY <2>3 DEF Overwritten
    <3>2. RowIsFresh(c) /\ at[c] = "write"
      BY DEF RowsInv, Lands, Asking
    <3>3. o.enabled = row.enabled \/ \E d \in SetsOf(s, o.component) : readAt[c] < wroteAt[d]
      BY <3>2, <2>3, <1>1 DEF RowIsFresh
    <3> QED BY <3>1, <3>3, <2>3, <1>5
  <2> QED BY <2>1, <2>2, <2>3
<1>13. OverrideIsTheLastSet'
  <2>1. SUFFICES ASSUME NEW t \in Scope, NEW n, n = override'[t], n # None
                 PROVE  LastSetOf(t, n)'
    BY LastSetsThen
  <2>2. CASE t = s
    <3>1. n = new /\ n.component = u[s].component /\ n.component = component.id
      BY <2>1, <2>2, <1>0, <1>6, <1>7
    <3>2. SetsOf(t, n.component)' = SetsOf(t, n.component) \cup {c}
      BY <2>2, <3>1, <1>1, LandsSets
    <3>3. \A d \in SetsOf(t, n.component) :
            /\ d # c /\ d \in Committed
            /\ wroteAt'[d] = wroteAt[d] /\ wroteAt'[d] < wroteAt'[c]
            /\ readAt[d] < wroteAt'[c]
      BY <1>9, LandsSets DEF SetsOf, CallsFit, Committed
    <3>4. SUFFICES ASSUME NEW x \in SetsOf(t, n.component)',
                          \A d \in SetsOf(t, n.component)' : wroteAt'[d] <= wroteAt'[x]
                   PROVE  n.enabled = asked'[x].enabled
                          \/ \E d \in SetsOf(t, n.component)' \ {x} : Overlap(x, d)'
      BY DEF LastSetOf
    <3>5. x = c
      <4>1. wroteAt'[c] <= wroteAt'[x]
        BY <3>2, <3>4
      <4>2. x # c => wroteAt'[x] < wroteAt'[c] /\ wroteAt'[x] \in Nat
        BY <3>2, <3>3, LandsSets
      <4> QED BY <4>1, <4>2, <1>9
    <3>6. CASE new.enabled = asked[c].enabled
      BY <3>1, <3>5, <3>6, <1>9
    <3>7. CASE \E d \in SetsOf(s, component.id) : readAt[c] < wroteAt[d]
      <4>1. PICK d \in SetsOf(t, n.component) : readAt[c] < wroteAt[d]
        BY <3>1, <3>7, <2>2
      <4>2. Overlap(x, d)'
        BY <4>1, <3>3, <3>5, <1>9 DEF Overlap
      <4>3. d \in SetsOf(t, n.component)' \ {x}
        BY <3>2, <3>3, <3>5
      <4> QED BY <4>2, <4>3
    <3> QED BY <3>6, <3>7, <1>12
  <2>3. CASE t # s
    <3>1. n = override[t]
      BY <2>1, <2>3, <1>7
    <3>2. LastSetOf(t, n)
      BY <2>1, <3>1, LastSets DEF RowsInv
    <3>3. SetsOf(t, n.component)' = SetsOf(t, n.component) /\ SetsOf(t, n.component) \subseteq Committed
      <4>1. SetsOf(t, n.component)' = SetsOf(t, n.component)
        BY <2>3, <1>1, LandsSets
      <4> QED BY <4>1 DEF SetsOf
    <3>4. \A x, d \in SetsOf(t, n.component) :
            /\ wroteAt'[d] = wroteAt[d] /\ wroteAt'[x] = wroteAt[x]
            /\ Overlap(x, d)' <=> Overlap(x, d)
      BY <3>3, <1>9, LandsSets DEF Overlap
    <3> QED BY <3>2, <3>3, <3>4, <1>9 DEF LastSetOf
  <2> QED BY <2>2, <2>3
<1>14. ASSUME NEW d \in Call PROVE RowIsFresh(d)'
  <2>1. CASE ~Asking(d)'
    BY <2>1 DEF RowIsFresh, Asking
  <2>2. CASE Asking(d)' /\ asked[d].scope # s /\ asked[d].op = "set"
    <3>1. asked[d] \in OverrideAsked
      BY <2>2 DEF Lands, Asking, CallsFit
    <3>2. asked[d].scope \in Scope
      BY <3>1, <2>2 DEF OverrideAsked, CreateAsked, UpdateAsked, SetAsked, ClearAsked
    <3> QED BY <3>2, <2>2, <1>7, WaitingSet
  <2>3. CASE Asking(d)' /\ asked[d].scope = s
    <3>1. CallsFit /\ d # c
      BY <2>3 DEF Lands
    <3>2. readAt[d] < wroteAt'[c]
      BY <1>9 DEF CallsFit
    <3>3. c \in SetsOf(s, u[s].component)'
      BY <1>10
    <3> QED BY <3>2, <3>3, <2>3, <1>0, <1>9 DEF RowIsFresh
  <2>4. CASE Asking(d)' /\ asked[d].op # "set"
    BY <2>4, <1>9 DEF RowIsFresh
  <2> QED BY <2>1, <2>2, <2>3, <2>4
<1> HIDE DEF new, row, o
<1> QED BY <1>1, <1>7, <1>8, <1>13, <1>14 DEF RowsInv

-----------------------------------------------------------------------------
(* Steps of the evaluators, and the tables' changes under them.            *)

LEMMA OfType ==
    ASSUME NEW comp, NEW o \in Override \cup {None}
    PROVE  Of(comp, o) \in Override \cup {None}
BY DEF Of

LEMMA DecidedType ==
    ASSUME NEW comp \in ProductComponent, NEW u \in Override \cup {None},
           NEW t \in Override \cup {None}, NEW p
    PROVE  Decided(comp, u, t, p) \in BOOLEAN
BY DEF Decided, WithPlan, ProductComponent, Override

LEMMA RightType ==
    ASSUME NEW comp \in ProductComponent \cup {None}, NEW o \in [Scope -> Override \cup {None}],
           NEW p, NEW kind
    PROVE  Right(kind, comp, o, p) \in BOOLEAN
BY DEF Right, TenantEffective, Effective

\* An evaluator that has read what there is would give the right answer.
LEMMA CurrentIsRight ==
    ASSUME NEW comp \in ProductComponent, NEW o \in [Scope -> Override \cup {None}], NEW p,
           NEW v, Shape(v), v.pc \in {"user", "tenant", "plan"}, v.component = comp,
           v.pc \in {"tenant", "plan"} /\ v.kind # "tenant" => v.user = Of(comp, o["user"]),
           v.pc = "plan" => v.tenant = Of(comp, o["tenant"])
    PROVE  Completed(v, o, p) = Right(v.kind, comp, o, p)
<1> DEFINE q == IF v.kind = "tenant" THEN [o EXCEPT !["user"] = None] ELSE o
<1>1. /\ v.kind \in {"gate", "list", "tenant"} /\ comp.active = TRUE /\ comp # None
      /\ v.pc = "user" => v.kind # "tenant"
      /\ v.kind = "tenant" => v.user = None
  BY NoneIsNoRow DEF Shape, ProductComponent
<1>2. q \in [Scope -> Override \cup {None}]
  BY DEF Scope
<1>3. q["user"] \in Override \cup {None} /\ q["tenant"] \in Override \cup {None}
  BY <1>2 DEF Scope
<1>4. q["tenant"] = o["tenant"] /\ (v.kind = "tenant" => q["user"] = None)
      /\ (v.kind # "tenant" => q["user"] = o["user"])
  BY DEF Scope
<1>5. Of(comp, None) = None
  BY DEF Of
<1>6. (IF v.pc = "user" THEN Of(v.component, o["user"]) ELSE v.user) = Of(comp, q["user"])
  BY <1>1, <1>4, <1>5
<1>7. (IF v.pc = "plan" THEN v.tenant ELSE Of(v.component, o["tenant"])) = Of(comp, q["tenant"])
  BY <1>4
<1>8. Completed(v, o, p) = Decided(comp, Of(comp, q["user"]), Of(comp, q["tenant"]), p)
  BY <1>6, <1>7 DEF Completed
<1>9. Decided(comp, Of(comp, q["user"]), Of(comp, q["tenant"]), p) \in BOOLEAN
  BY <1>3, OfType, DecidedType
<1>10. Right(v.kind, comp, o, p) = Effective(comp, q, p)
  BY DEF Right, TenantEffective
<1>11. Effective(comp, q, p) = Decided(comp, Of(comp, q["user"]), Of(comp, q["tenant"]), p)
  BY <1>1, <1>9 DEF Effective
<1> QED BY <1>8, <1>10, <1>11

\* Without a commit, what has been deleted is what had been.
LEMMA StillDeleted ==
    ASSUME NEW N, Still(N), NEW v
    PROVE  DeletedUnder(v) => (\E c \in Committed' : asked'[c].op = "delete" /\ got'[c].id = v.component.id)
BY StillSets DEF DeletedUnder, Same

LEMMA EvalsQuiet ==
    ASSUME EvalsInv, UNCHANGED rows, UNCHANGED evals, NEW N, Still(N)
    PROVE  EvalsInv'
<1>1. component' = component /\ override' = override /\ plan' = plan
      /\ ev' = ev /\ held' = held /\ changes' = changes
  BY DEF rows, evals
<1>2. \A e \in Eval : DeletedUnder(ev[e]) => DeletedUnder(ev[e])'
  BY <1>1, StillDeleted DEF DeletedUnder
<1>3. AnswerHeldUnlessTorn'
  BY <1>1, <1>2 DEF EvalsInv, AnswerHeldUnlessTorn, DeletedUnder
<1>4. ASSUME NEW e \in Eval PROVE EvalHolds(e)'
  <2>1. EvalHolds(e)
    BY DEF EvalsInv
  <2> QED BY <2>1, <1>1, <1>2 DEF EvalHolds, Shape, Current, Running, Completed
<1> QED BY <1>1, <1>3, <1>4 DEF EvalsInv

\* The step of one evaluator, into w.
EvalGoes(e, w) ==
    /\ UNCHANGED <<rows, calls, changes>>
    /\ ev' = [ev EXCEPT ![e] = w]
    /\ \A d \in Eval \ {e} : held'[d] = held[d]
    /\ held' \in [Eval -> SUBSET BOOLEAN]

LEMMA EvalMoves ==
    ASSUME EvalsInv, NEW e \in Eval, NEW w, EvalGoes(e, w),
           Shape(w),
           w.pc \in {"user", "tenant", "plan", "ended"},
           w.pc # "ended" /\ changes[e] = 0 => Current(w),
           w.pc # "ended" /\ changes[e] <= 1 =>
              Completed(w, override, plan) \in held'[e] \/ DeletedUnder(w),
           w.pc = "ended" => w.answer \in held'[e] \/ changes[e] >= 2 \/ DeletedUnder(w)
    PROVE  EvalsInv'
<1>1. /\ component' = component /\ override' = override /\ plan' = plan /\ changes' = changes
      /\ Committed' = Committed /\ asked' = asked /\ got' = got
  BY DEF EvalGoes, rows, calls, Committed
<1>2. ev'[e] = w /\ \A d \in Eval \ {e} : ev'[d] = ev[d]
  BY DEF EvalGoes, EvalsInv
<1>3. DOMAIN ev' = Eval /\ ev' = [d \in Eval |-> ev'[d]]
  BY DEF EvalGoes, EvalsInv
<1>4. ASSUME NEW d \in Eval PROVE EvalHolds(d)'
  <2>1. CASE d = e
    <3>1. Shape(ev[e])' /\ ev'[e].pc # "idle"
      BY <1>2 DEF Shape
    <3>2. (Running(e) /\ changes[e] = 0 => Current(ev[e]))'
      BY <1>1, <1>2 DEF Running, Current
    <3>3. (Running(e) /\ changes[e] <= 1 =>
             Completed(ev[e], override, plan) \in held[e] \/ DeletedUnder(ev[e]))'
      BY <1>1, <1>2 DEF Running, Completed, DeletedUnder
    <3> QED BY <2>1, <3>1, <3>2, <3>3 DEF EvalHolds
  <2>2. CASE d # e
    <3>1. EvalHolds(d) /\ ev'[d] = ev[d] /\ held'[d] = held[d]
      BY <2>2, <1>2 DEF EvalsInv, EvalGoes
    <3> QED BY <3>1, <1>1 DEF EvalHolds, Shape, Running, Current, Completed, DeletedUnder
  <2> QED BY <2>1, <2>2
<1>5. AnswerHeldUnlessTorn'
  <2>1. SUFFICES ASSUME NEW d \in Eval, ev'[d].pc = "ended"
                 PROVE  \/ ev'[d].answer \in held'[d]
                        \/ changes'[d] >= 2
                        \/ \E c \in Committed' : asked'[c].op = "delete" /\ got'[c].id = ev'[d].component.id
    BY DEF AnswerHeldUnlessTorn
  <2>2. CASE d = e
    BY <2>1, <2>2, <1>1, <1>2 DEF DeletedUnder
  <2>3. CASE d # e
    BY <2>1, <2>3, <1>1, <1>2 DEF EvalGoes, EvalsInv, AnswerHeldUnlessTorn
  <2> QED BY <2>2, <2>3
<1> QED BY <1>1, <1>3, <1>4, <1>5 DEF EvalsInv, EvalGoes

LEMMA EvalComponentHolds ==
    ASSUME RowsInv, EvalsInv, NEW e \in Eval, NEW kind \in {"gate", "list", "tenant"},
           EvalComponent(e, kind)
    PROVE  EvalsInv'
<1> DEFINE w == IF component = None \/ ~component.active
                THEN [pc |-> "ended", component |-> component, answer |-> FALSE]
                ELSE IF kind = "tenant" THEN FromTenant(kind, component, None)
                ELSE [pc |-> "user", kind |-> kind, component |-> component]
           right == Right(kind, component, override, plan)
<1>1. /\ UNCHANGED <<rows, calls, changes>>
      /\ ev' = [ev EXCEPT ![e] = w] /\ held' = [held EXCEPT ![e] = {right}]
  BY DEF EvalComponent, To
<1>2. right \in BOOLEAN
  BY RightType DEF RowsInv
<1>3. held'[e] = {right} /\ held' \in [Eval -> SUBSET BOOLEAN]
      /\ \A d \in Eval \ {e} : held'[d] = held[d]
  BY <1>1, <1>2 DEF EvalsInv
<1>4. EvalGoes(e, w)
  BY <1>1, <1>3 DEF EvalGoes
<1>5. CASE component = None \/ ~component.active
  <2>1. w.pc = "ended" /\ w.answer = FALSE /\ Shape(w)
    BY <1>5 DEF Shape
  <2>2. right = FALSE
    BY <1>5, <1>2 DEF Right, TenantEffective, Effective
  <2> HIDE DEF w, right
  <2> QED BY <2>1, <2>2, <1>3, <1>4, EvalMoves
<1>6. CASE component # None /\ component.active
  <2>1. component \in ProductComponent
    BY <1>6 DEF RowsInv
  <2>2. /\ w.pc \in {"user", "tenant"} /\ w.component = component /\ w.kind = kind
        /\ w.pc = "user" => kind # "tenant"
        /\ w.pc = "tenant" => kind = "tenant" /\ w.user = None
    BY <1>6 DEF FromTenant
  <2>3. Shape(w) /\ Current(w)
    BY <2>1, <2>2, <1>6 DEF Shape, Current
  <2>4. override \in [Scope -> Override \cup {None}]
    BY DEF RowsInv
  <2> HIDE DEF w
  <2>5. Completed(w, override, plan) = right
    BY <2>1, <2>2, <2>3, <2>4, CurrentIsRight DEF Current
  <2> HIDE DEF right
  <2> QED BY <2>2, <2>3, <2>5, <1>3, <1>4, EvalMoves
<1> QED BY <1>5, <1>6

\* A read that does not change what the evaluator is going to answer.
LEMMA EvalReads ==
    ASSUME EvalsInv, NEW e \in Eval, Running(e), NEW w, EvalGoes(e, w), held' = held,
           w.component = ev[e].component,
           \/ /\ w.pc \in {"tenant", "plan"} /\ Shape(w)
              /\ Completed(w, override, plan) = Completed(ev[e], override, plan)
              /\ changes[e] = 0 => Current(w)
           \/ w.pc = "ended" /\ w.answer = Completed(ev[e], override, plan)
    PROVE  EvalsInv'
<1>1. EvalHolds(e) /\ changes[e] \in Nat
  BY DEF EvalsInv
<1>2. changes[e] <= 1 => Completed(ev[e], override, plan) \in held'[e] \/ DeletedUnder(w)
  BY <1>1 DEF EvalHolds, DeletedUnder
<1>3. changes[e] <= 1 \/ changes[e] >= 2
  BY <1>1
<1>4. Shape(w)
  BY DEF Shape
<1> QED BY <1>2, <1>3, <1>4, EvalMoves

LEMMA RunningShape ==
    ASSUME EvalsInv, NEW e \in Eval, Running(e)
    PROVE  /\ Shape(ev[e]) /\ ev[e].pc \in {"user", "tenant", "plan"}
           /\ changes[e] = 0 => Current(ev[e])
BY DEF EvalsInv, EvalHolds, Running, Shape

LEMMA EvalUserHolds ==
    ASSUME RowsInv, EvalsInv, NEW e \in Eval, EvalUser(e)
    PROVE  EvalsInv'
<1> DEFINE v == ev[e]
           o == Of(v.component, override["user"])
           t == Of(v.component, override["tenant"])
           ended == [pc |-> "ended", component |-> v.component, answer |-> o.enabled]
           next == FromTenant(v.kind, v.component, o)
<1>1. v.pc = "user" /\ Running(e)
  BY DEF EvalUser, Running
<1>2. Shape(v) /\ (changes[e] = 0 => Current(v))
  BY <1>1, RunningShape
<1>3. override["user"] \in Override \cup {None}
  BY DEF RowsInv, Scope
<1>4. o \in Override \cup {None}
  BY <1>3, OfType
<1>5. Completed(v, override, plan) = Decided(v.component, o, t, plan)
  BY <1>1 DEF Completed
<1>6. held' = held /\ held \in [Eval -> SUBSET BOOLEAN]
  BY DEF EvalUser, Answers, EvalsInv
<1>7. CASE v.kind = "gate" /\ o # None
  <2>1. EvalGoes(e, ended)
    BY <1>6, <1>7 DEF EvalUser, Answers, To, EvalGoes
  <2>2. Decided(v.component, o, t, plan) = o.enabled
    BY <1>7 DEF Decided
  <2>3. ended.pc = "ended" /\ ended.answer = o.enabled /\ ended.component = v.component
    OBVIOUS
  <2> HIDE DEF v, o, t, ended
  <2>4. ended.answer = Completed(v, override, plan)
    BY <2>2, <2>3, <1>5
  <2> QED BY <2>1, <2>3, <2>4, <1>1, <1>6, EvalReads DEF v
<1>8. CASE ~(v.kind = "gate" /\ o # None)
  <2>1. EvalGoes(e, next)
    BY <1>6, <1>8 DEF EvalUser, To, EvalGoes
  <2>2. next.pc = "tenant" /\ next.kind = v.kind /\ next.component = v.component /\ next.user = o
    BY DEF FromTenant
  <2>3. v.kind \in {"gate", "list"} /\ v.component \in ProductComponent /\ v.component.active
    BY <1>1, <1>2 DEF Shape
  <2>4. Shape(next)
    BY <2>2, <2>3, <1>4, <1>8 DEF Shape
  <2>5. changes[e] = 0 => Current(next)
    BY <2>2, <1>2 DEF Current
  <2>6. Completed(next, override, plan) = Decided(v.component, o, t, plan)
    BY <2>2 DEF Completed
  <2> HIDE DEF v, o, t, next
  <2> QED BY <2>1, <2>2, <2>4, <2>5, <2>6, <1>1, <1>5, <1>6, EvalReads DEF v
<1> QED BY <1>7, <1>8

LEMMA EvalTenantHolds ==
    ASSUME RowsInv, EvalsInv, NEW e \in Eval, EvalTenant(e)
    PROVE  EvalsInv'
<1> DEFINE v == ev[e]
           o == Of(v.component, override["tenant"])
           ended == [pc |-> "ended", component |-> v.component, answer |-> o.enabled]
           next == [pc |-> "plan", kind |-> v.kind, component |-> v.component,
                    user |-> v.user, tenant |-> o]
<1>1. v.pc = "tenant" /\ Running(e)
  BY DEF EvalTenant, Running
<1>2. Shape(v) /\ (changes[e] = 0 => Current(v))
  BY <1>1, RunningShape
<1>3. override["tenant"] \in Override \cup {None}
  BY DEF RowsInv, Scope
<1>4. o \in Override \cup {None}
  BY <1>3, OfType
<1>5. Completed(v, override, plan) = Decided(v.component, v.user, o, plan)
  BY <1>1 DEF Completed
<1>6. held' = held /\ held \in [Eval -> SUBSET BOOLEAN]
  BY DEF EvalTenant, Answers, EvalsInv
<1>7. CASE v.kind = "gate" /\ o # None
  <2>1. EvalGoes(e, ended)
    BY <1>6, <1>7 DEF EvalTenant, Answers, To, EvalGoes
  <2>2. v.user = None
    BY <1>1, <1>2, <1>7 DEF Shape
  <2>3. Decided(v.component, v.user, o, plan) = o.enabled
    BY <2>2, <1>7 DEF Decided
  <2>4. ended.pc = "ended" /\ ended.answer = o.enabled /\ ended.component = v.component
    OBVIOUS
  <2> HIDE DEF v, o, ended
  <2>5. ended.answer = Completed(v, override, plan)
    BY <2>3, <2>4, <1>5
  <2> QED BY <2>1, <2>4, <2>5, <1>1, <1>6, EvalReads DEF v
<1>8. CASE ~(v.kind = "gate" /\ o # None)
  <2>1. EvalGoes(e, next)
    BY <1>6, <1>8 DEF EvalTenant, To, EvalGoes
  <2>2. /\ next.pc = "plan" /\ next.kind = v.kind /\ next.component = v.component
        /\ next.user = v.user /\ next.tenant = o
    OBVIOUS
  <2>3. Shape(next)
    BY <2>2, <1>1, <1>2, <1>4 DEF Shape
  <2>4. changes[e] = 0 => Current(next)
    BY <2>2, <1>1, <1>2 DEF Current
  <2>5. Completed(next, override, plan) = Decided(v.component, v.user, o, plan)
    BY <2>2 DEF Completed
  <2> HIDE DEF v, o, next
  <2> QED BY <2>1, <2>2, <2>3, <2>4, <2>5, <1>1, <1>5, <1>6, EvalReads DEF v
<1> QED BY <1>7, <1>8

LEMMA EvalPlanHolds ==
    ASSUME EvalsInv, NEW e \in Eval, EvalPlan(e)
    PROVE  EvalsInv'
<1> DEFINE v == ev[e]
           answer == Decided(v.component, v.user, v.tenant, plan)
           ended == [pc |-> "ended", component |-> v.component, answer |-> answer]
<1>1. v.pc = "plan" /\ Running(e)
  BY DEF EvalPlan, Running
<1>2. Completed(v, override, plan) = answer
  BY <1>1 DEF Completed
<1>3. held' = held /\ held \in [Eval -> SUBSET BOOLEAN]
  BY DEF EvalPlan, Answers, EvalsInv
<1>4. EvalGoes(e, ended)
  BY <1>3 DEF EvalPlan, Answers, To, EvalGoes
<1>5. ended.pc = "ended" /\ ended.answer = answer /\ ended.component = v.component
  OBVIOUS
<1> HIDE DEF v, answer, ended
<1> QED BY <1>1, <1>2, <1>3, <1>4, <1>5, EvalReads DEF v

\* One change of the tables: of the component, which an evaluator reads first,
\* of one override, or of the plan.  Nothing runs without a component.
OneChange ==
    \/ override' = override /\ plan' = plan
    \/ component = None
    \/ \E c \in Committed' : asked'[c].op = "delete" /\ got'[c].id = component.id
    \/ component' = component /\ override' = override
    \/ \E s \in Scope :
        component' = component /\ plan' = plan /\ \A t \in Scope \ {s} : override'[t] = override[t]

LEMMA EvalsWitness ==
    ASSUME RowsInv, RowsInv', EvalsInv, Witnessed, OneChange,
           Committed \subseteq Committed', \A c \in Committed : asked'[c] = asked[c] /\ got'[c] = got[c]
    PROVE  EvalsInv'
<1>1. /\ ev' = ev /\ DOMAIN ev = Eval
      /\ \A e \in Eval : IF Running(e)
           THEN /\ held'[e] = held[e] \cup {Right(ev[e].kind, component', override', plan')}
                /\ changes'[e] = changes[e] + 1
           ELSE held'[e] = held[e] /\ changes'[e] = changes[e]
  BY DEF Witnessed, EvalsInv
<1>2. \A e \in Eval : DeletedUnder(ev[e]) => DeletedUnder(ev[e])'
  BY <1>1 DEF DeletedUnder
<1>3. held' \in [Eval -> SUBSET BOOLEAN] /\ changes' \in [Eval -> Nat]
  <2>1. ASSUME NEW kind PROVE Right(kind, component', override', plan') \in BOOLEAN
    BY RightType DEF RowsInv
  <2> QED BY <2>1 DEF Witnessed, EvalsInv
<1>4. AnswerHeldUnlessTorn'
  <2>1. SUFFICES ASSUME NEW e \in Eval, ev[e].pc = "ended"
                 PROVE  ev[e].answer \in held'[e] \/ changes'[e] >= 2 \/ DeletedUnder(ev[e])'
    BY <1>1 DEF AnswerHeldUnlessTorn, DeletedUnder
  <2>2. held'[e] = held[e] /\ changes'[e] = changes[e]
    BY <2>1, <1>1 DEF Running
  <2>3. ev[e].answer \in held[e] \/ changes[e] >= 2 \/ DeletedUnder(ev[e])
    BY <2>1 DEF EvalsInv, AnswerHeldUnlessTorn, DeletedUnder
  <2> QED BY <2>2, <2>3, <1>2
<1>5. ASSUME NEW e \in Eval PROVE EvalHolds(e)'
  <2>0. EvalHolds(e) /\ changes[e] \in Nat
    BY DEF EvalsInv
  <2>1. CASE ~Running(e)
    BY <2>0, <2>1, <1>1 DEF EvalHolds, Running, Shape
  <2>2. CASE Running(e)
    <3> DEFINE v == ev[e]
    <3>1. Shape(v) /\ v.pc \in {"user", "tenant", "plan"} /\ (changes[e] = 0 => Current(v))
      BY <2>2, RunningShape
    <3>2. changes'[e] >= 1 /\ (changes'[e] <= 1 => changes[e] = 0)
      BY <2>0, <2>2, <1>1
    <3>3. SUFFICES ASSUME changes[e] = 0
                   PROVE  Completed(v, override', plan') \in held'[e] \/ DeletedUnder(v)'
      BY <3>1, <3>2, <1>1, <2>2 DEF EvalHolds, Running, Shape, Completed
    <3>4. v.component = component /\ component \in ProductComponent /\ component # None
      BY <3>1, <3>3, NoneIsNoRow DEF Current, Shape
    <3>5. Completed(v, override, plan) \in held'[e] \/ DeletedUnder(v)'
      BY <2>0, <2>2, <3>3, <1>1, <1>2 DEF EvalHolds
    <3>6. ASSUME Completed(v, override', plan') = Right(v.kind, component', override', plan')
          PROVE  Completed(v, override', plan') \in held'[e]
      BY <3>6, <2>2, <1>1
    <3>7. override' \in [Scope -> Override \cup {None}] /\ override \in [Scope -> Override \cup {None}]
      BY DEF RowsInv
    <3>8. CASE override' = override /\ plan' = plan
      BY <3>5, <3>8
    <3>9. CASE \E c \in Committed' : asked'[c].op = "delete" /\ got'[c].id = component.id
      BY <3>4, <3>9, <1>1 DEF DeletedUnder
    <3>10. CASE component' = component /\ override' = override
      <4>1. Completed(v, override', plan') = Right(v.kind, component', override', plan')
        BY <3>1, <3>3, <3>4, <3>7, <3>10, CurrentIsRight DEF Current
      <4> QED BY <4>1, <3>6
    <3>11. ASSUME NEW s \in Scope, component' = component, plan' = plan,
                  \A t \in Scope \ {s} : override'[t] = override[t]
           PROVE  Completed(v, override', plan') \in held'[e] \/ DeletedUnder(v)'
      <4>1. CASE s = "user" /\ v.pc # "user"
        <5>1. override'["tenant"] = override["tenant"]
          BY <3>11, <4>1 DEF Scope
        <5>2. Completed(v, override', plan') = Completed(v, override, plan)
          BY <5>1, <4>1, <3>11 DEF Completed
        <5> QED BY <5>2, <3>5
      <4>2. CASE s = "user" /\ v.pc = "user"
        <5>1. Completed(v, override', plan') = Right(v.kind, component', override', plan')
          BY <4>2, <3>1, <3>4, <3>7, <3>11, CurrentIsRight
        <5> QED BY <5>1, <3>6
      <4>3. CASE s = "tenant" /\ v.pc = "plan"
        <5>1. Completed(v, override', plan') = Completed(v, override, plan)
          BY <4>3, <3>11 DEF Completed
        <5> QED BY <5>1, <3>5
      <4>4. CASE s = "tenant" /\ v.pc # "plan"
        <5>1. override'["user"] = override["user"]
          BY <3>11, <4>4 DEF Scope
        <5>2. v.pc \in {"tenant", "plan"} /\ v.kind # "tenant" => v.user = Of(component', override'["user"])
          BY <5>1, <3>1, <3>3, <3>11 DEF Current
        <5>3. Completed(v, override', plan') = Right(v.kind, component', override', plan')
          BY <5>2, <4>4, <3>1, <3>4, <3>7, <3>11, CurrentIsRight
        <5> QED BY <5>3, <3>6
      <4> QED BY <4>1, <4>2, <4>3, <4>4 DEF Scope
    <3> QED BY <3>4, <3>8, <3>9, <3>10, <3>11 DEF OneChange
  <2> QED BY <2>1, <2>2
<1> QED BY <1>1, <1>3, <1>4, <1>5 DEF EvalsInv

-----------------------------------------------------------------------------
(* Every step, and the theorems.                                           *)

LEMMA BeginsHolds ==
    ASSUME EntitlementsInv, NEW c \in Call, NEW r \in OverrideAsked, NEW g, Goes(c, r, g),
           r.op = "set" => r.scope \in Scope /\ g.row = Of(component, override[r.scope])
    PROVE  EntitlementsInv'
<1>1. CallsFit' /\ Still({c}) /\ asked'[c] = r /\ got'[c] = g
  BY CallGoes DEF EntitlementsInv
<1>2. UNCHANGED rows /\ UNCHANGED evals
  BY DEF Goes
<1>3. RowIsFresh(c)'
  <2>1. CASE r.op # "set"
    BY <2>1, <1>1 DEF RowIsFresh
  <2>2. CASE r.op = "set" /\ g.row # None
    <3>1. g.row = override[r.scope]
      BY <2>2 DEF Of
    <3>2. override' = override
      BY <1>2 DEF rows
    <3> QED BY <3>1, <3>2, <1>1 DEF RowIsFresh
  <2>3. CASE g.row = None
    BY <2>3, <1>1 DEF RowIsFresh
  <2> QED BY <2>1, <2>2, <2>3
<1>4. RowsInv'
  BY <1>1, <1>2, <1>3, RowsStill DEF EntitlementsInv, rows, RowsInv
<1>5. EvalsInv'
  BY <1>1, <1>2, EvalsQuiet DEF EntitlementsInv
<1> QED BY <1>1, <1>4, <1>5 DEF EntitlementsInv

LEMMA LeavesHolds ==
    ASSUME EntitlementsInv, NEW c \in Call, at[c] \in {"idle", "write"}, Leaves(c)
    PROVE  EntitlementsInv'
<1>1. CallsFit' /\ Still({})
  BY CallLeaves DEF EntitlementsInv
<1>2. UNCHANGED rows /\ UNCHANGED evals
  BY DEF Leaves
<1>3. RowsInv'
  BY <1>1, <1>2, RowsStill DEF EntitlementsInv, rows, RowsInv
<1>4. EvalsInv'
  BY <1>1, <1>2, EvalsQuiet DEF EntitlementsInv
<1> QED BY <1>1, <1>3, <1>4 DEF EntitlementsInv

LEMMA ReadsHolds ==
    ASSUME EntitlementsInv, NEW c \in Call, Reads(c)
    PROVE  EntitlementsInv'
<1>1. CASE at[c] = "idle" /\ Leaves(c)
  BY <1>1, LeavesHolds
<1>2. ASSUME NEW d \in BOOLEAN, NEW a \in BOOLEAN, NEW r \in SUBSET Plan, CreateRead(c, d, a, r)
      PROVE  EntitlementsInv'
  <2> DEFINE q == [op |-> "create", default |-> d, active |-> a, required |-> r]
  <2>1. q \in OverrideAsked /\ q.op # "set"
    BY DEF OverrideAsked, CreateAsked
  <2>2. Goes(c, q, None) \/ (at[c] = "idle" /\ Leaves(c))
    BY <1>2 DEF CreateRead
  <2> HIDE DEF q
  <2> QED BY <2>1, <2>2, <1>1, BeginsHolds
<1>3. ASSUME NEW column, NEW value, UpdateRead(c, column, value),
             \/ column \in {"active", "default"} /\ value \in BOOLEAN
             \/ column = "required" /\ value \in SUBSET Plan
      PROVE  EntitlementsInv'
  <2> DEFINE q == [op |-> "update", column |-> column, value |-> value]
  <2>1. q \in OverrideAsked /\ q.op # "set"
    BY <1>3 DEF OverrideAsked, UpdateAsked
  <2>2. Goes(c, q, component) \/ (at[c] = "idle" /\ Leaves(c))
    BY <1>3 DEF UpdateRead
  <2>3. PICK g : g = component
    OBVIOUS
  <2> HIDE DEF q
  <2> QED BY <2>1, <2>2, <2>3, <1>1, BeginsHolds
<1>4. CASE DeleteRead(c)
  <2> DEFINE q == [op |-> "delete"]
  <2>1. q \in OverrideAsked /\ q.op # "set"
    BY DEF OverrideAsked
  <2>2. Goes(c, q, component) \/ (at[c] = "idle" /\ Leaves(c))
    BY <1>4 DEF DeleteRead
  <2>3. PICK g : g = component
    OBVIOUS
  <2> HIDE DEF q
  <2> QED BY <2>1, <2>2, <2>3, <1>1, BeginsHolds
<1>5. ASSUME NEW s \in Scope, NEW by \in Actor(s), NEW v \in BOOLEAN, SetRead(c, s, by, v)
      PROVE  EntitlementsInv'
  <2> DEFINE q == [op |-> "set", scope |-> s, by |-> by, enabled |-> v]
  <2>1. q \in OverrideAsked /\ q.scope = s
    BY DEF OverrideAsked, SetAsked, Actor, Scope
  <2>2. PICK g : g = [component |-> component.id, row |-> Of(component, override[s])]
    OBVIOUS
  <2>3. Goes(c, q, g) \/ (at[c] = "idle" /\ Leaves(c))
    BY <1>5, <2>2 DEF SetRead
  <2>4. g.row = Of(component, override[s])
    BY <2>2
  <2> HIDE DEF q
  <2> QED BY <2>1, <2>3, <2>4, <1>1, BeginsHolds
<1>6. ASSUME NEW s \in Scope, ClearRead(c, s)
      PROVE  EntitlementsInv'
  <2> DEFINE q == [op |-> "clear", scope |-> s]
  <2>1. q \in OverrideAsked /\ q.op # "set"
    BY DEF OverrideAsked, ClearAsked
  <2>2. PICK g : g = [component |-> component.id, row |-> override[s]]
    OBVIOUS
  <2>3. Goes(c, q, g) \/ (at[c] = "idle" /\ Leaves(c))
    BY <1>6, <2>2 DEF ClearRead
  <2> HIDE DEF q
  <2> QED BY <2>1, <2>3, <1>1, BeginsHolds
<1> QED BY <1>2, <1>3, <1>4, <1>5, <1>6 DEF Reads

\* The evaluators see a commit as one change.
LEMMA CommitWitnessed ==
    ASSUME CallsFit, RowsInv, RowsInv', EvalsInv, NEW c \in Call, Commits(c), Lands(c), OneChange
    PROVE  EvalsInv'
<1>1. Witnessed
  BY DEF Commits
<1>2. Committed \subseteq Committed' /\ asked' = asked /\ got' = got
  BY DEF Lands
<1> QED BY <1>1, <1>2, EvalsWitness

LEMMA WritesHolds ==
    ASSUME EntitlementsInv, NEW c \in Call, Writes(c)
    PROVE  EntitlementsInv'
<1>1. CallsFit /\ RowsInv /\ EvalsInv
  BY DEF EntitlementsInv
<1>2. Commits(c)
  BY DEF Writes, CreateWrite, UpdateWrite, DeleteWrite, SetUserWrite, SetTenantWrite, SetWrite,
         ClearUserWrite, ClearTenantWrite, ClearWrite
<1>3. CallsFit' /\ Lands(c)
  BY <1>1, <1>2, CallLands
<1>4. plan' = plan /\ asked[c] \in OverrideAsked
  BY <1>1, <1>2 DEF Commits, CallsFit
<1>5. /\ component \in ProductComponent \cup {None} /\ override \in [Scope -> Override \cup {None}]
      /\ NoOrphanedOverride
  BY <1>1 DEF RowsInv
<1>6. SUFFICES RowsInv' /\ OneChange
  BY <1>1, <1>2, <1>3, CommitWitnessed DEF EntitlementsInv
<1>7. CASE CreateWrite(c)
  <2>1. /\ asked[c].op = "create" /\ component = None /\ override' = override
        /\ component' = [id |-> c, default |-> asked[c].default, active |-> asked[c].active,
                         required |-> asked[c].required]
    BY <1>7 DEF CreateWrite
  <2>2. asked[c] \in CreateAsked
    BY <2>1, <1>4 DEF OverrideAsked, UpdateAsked, SetAsked, ClearAsked
  <2>3. component' \in ProductComponent
    BY <2>1, <2>2 DEF CreateAsked, ProductComponent, Id
  <2>4. \A s \in Scope : override[s] = None
    BY <2>1, <1>5 DEF NoOrphanedOverride
  <2>5. NoOrphanedOverride'
    BY <2>1, <2>4 DEF NoOrphanedOverride
  <2>6. RowsInv'
    BY <2>1, <2>3, <2>5, <1>1, <1>3, <1>4, <1>5, RowsOfOthers
  <2> QED BY <2>1, <2>6 DEF OneChange
<1>8. CASE UpdateWrite(c)
  <2>1. /\ asked[c].op = "update" /\ component # None /\ override' = override
        /\ component' = [component EXCEPT ![asked[c].column] = asked[c].value]
    BY <1>8 DEF UpdateWrite
  <2>2. asked[c] \in UpdateAsked
    BY <2>1, <1>4 DEF OverrideAsked, CreateAsked, SetAsked, ClearAsked
  <2>3. component \in ProductComponent
    BY <2>1, <1>5
  <2>4. component' \in ProductComponent /\ component'.id = component.id
    <3>1. CASE asked[c].column = "active" /\ asked[c].value \in BOOLEAN
      BY <3>1, <2>1, <2>3 DEF ProductComponent
    <3>2. CASE asked[c].column = "default" /\ asked[c].value \in BOOLEAN
      BY <3>2, <2>1, <2>3 DEF ProductComponent
    <3>3. CASE asked[c].column = "required" /\ asked[c].value \in SUBSET Plan
      BY <3>3, <2>1, <2>3 DEF ProductComponent
    <3> QED BY <3>1, <3>2, <3>3, <2>2 DEF UpdateAsked
  <2>5. NoOrphanedOverride'
    BY <2>1, <2>4, <1>5, NoneIsNoRow DEF NoOrphanedOverride
  <2>6. RowsInv'
    BY <2>1, <2>4, <2>5, <1>1, <1>3, <1>4, <1>5, RowsOfOthers
  <2> QED BY <2>1, <2>6, <1>4 DEF OneChange
<1>9. CASE DeleteWrite(c)
  <2>1. /\ asked[c].op = "delete" /\ component # None /\ component.id = got[c].id /\ component' = None
        /\ override' = [s \in Scope |-> IF Gone(override[s]) THEN None ELSE override[s]]
    BY <1>9 DEF DeleteWrite
  <2>2. \A s \in Scope : override'[s] = None
    BY <2>1, <1>5 DEF NoOrphanedOverride, Gone
  <2>3. override' \in [Scope -> Override \cup {None}] /\ NoOrphanedOverride'
    BY <2>1, <2>2 DEF NoOrphanedOverride
  <2>4. RowsInv'
    BY <2>1, <2>2, <2>3, <1>1, <1>3, <1>4, RowsOfOthers
  <2>5. c \in Committed' /\ asked'[c].op = "delete" /\ got'[c].id = component.id
    BY <2>1, <1>3 DEF Lands
  <2> QED BY <2>4, <2>5 DEF OneChange
<1>10. ASSUME NEW s \in Scope, SetWrite(c, s)
       PROVE  RowsInv' /\ OneChange
  <2>1. component' = component /\ \A t \in Scope \ {s} : override'[t] = override[t]
    BY <1>5, <1>10 DEF SetWrite
  <2>2. RowsInv'
    BY <1>1, <1>3, <1>10, RowsOfSet
  <2> QED BY <2>1, <2>2, <1>4 DEF OneChange
<1>11. ASSUME NEW s \in Scope, ClearWrite(c, s)
       PROVE  RowsInv' /\ OneChange
  <2>1. /\ asked[c].op = "clear" /\ component' = component
        /\ override' = override \/ override' = [override EXCEPT ![s] = None]
    BY <1>11 DEF ClearWrite
  <2>2. /\ override' \in [Scope -> Override \cup {None}]
        /\ \A t \in Scope \ {s} : override'[t] = override[t]
        /\ \A t \in Scope : override'[t] \in {override[t], None}
    BY <2>1, <1>5
  <2>3. NoOrphanedOverride'
    BY <2>1, <2>2, <1>5 DEF NoOrphanedOverride
  <2>4. RowsInv'
    BY <2>1, <2>2, <2>3, <1>1, <1>3, <1>4, <1>5, RowsOfOthers
  <2> QED BY <2>1, <2>2, <2>4, <1>4 DEF OneChange
<1> QED BY <1>7, <1>8, <1>9, <1>10, <1>11
     DEF Writes, SetUserWrite, SetTenantWrite, ClearUserWrite, ClearTenantWrite, Scope

LEMMA PlanHolds ==
    ASSUME EntitlementsInv, PlanChanges
    PROVE  EntitlementsInv'
<1>1. UNCHANGED calls /\ component' = component /\ override' = override /\ plan' \in Plan \cup {None}
      /\ Witnessed
  BY DEF PlanChanges
<1>2. CallsFit' /\ Still({})
  BY <1>1, CallsAreStill DEF EntitlementsInv
<1>3. RowsInv'
  BY <1>1, <1>2, RowsStill DEF EntitlementsInv
<1>4. OneChange
  BY <1>1 DEF OneChange
<1>5. Committed' = Committed /\ asked' = asked /\ got' = got
  BY <1>1 DEF calls, Committed
<1>6. EvalsInv'
  BY <1>1, <1>3, <1>4, <1>5, EvalsWitness DEF EntitlementsInv
<1> QED BY <1>2, <1>3, <1>6 DEF EntitlementsInv

LEMMA EvalHoldsAll ==
    ASSUME EntitlementsInv, NEW e \in Eval,
           \/ \E kind \in {"gate", "list", "tenant"} : EvalComponent(e, kind)
           \/ EvalUser(e) \/ EvalTenant(e) \/ EvalPlan(e)
    PROVE  EntitlementsInv'
<1>1. UNCHANGED calls /\ component' = component /\ override' = override /\ plan' = plan
  BY DEF EvalComponent, EvalUser, EvalTenant, EvalPlan, Answers, To, rows
<1>2. CallsFit' /\ Still({})
  BY <1>1, CallsAreStill DEF EntitlementsInv
<1>3. RowsInv'
  BY <1>1, <1>2, RowsStill DEF EntitlementsInv, RowsInv
<1>4. EvalsInv'
  BY EvalComponentHolds, EvalUserHolds, EvalTenantHolds, EvalPlanHolds DEF EntitlementsInv
<1> QED BY <1>2, <1>3, <1>4 DEF EntitlementsInv

LEMMA EntitlementsStep ==
    ASSUME EntitlementsInv, [EntitlementsNext]_entitlementVars
    PROVE  EntitlementsInv'
<1>1. ASSUME NEW c \in Call, Rollback(c) PROVE EntitlementsInv'
  BY <1>1, LeavesHolds DEF Rollback
<1>2. CASE UNCHANGED entitlementVars
  <2>1. UNCHANGED calls /\ UNCHANGED rows /\ UNCHANGED evals
    BY <1>2 DEF entitlementVars, calls, rows, evals
  <2>2. CallsFit' /\ Still({})
    BY <2>1, CallsAreStill DEF EntitlementsInv
  <2>3. RowsInv'
    BY <2>1, <2>2, RowsStill DEF EntitlementsInv, RowsInv, rows
  <2>4. EvalsInv'
    BY <2>1, <2>2, EvalsQuiet DEF EntitlementsInv
  <2> QED BY <2>2, <2>3, <2>4 DEF EntitlementsInv
<1> QED BY <1>1, <1>2, ReadsHolds, WritesHolds, PlanHolds, EvalHoldsAll DEF EntitlementsNext

LEMMA EntitlementsStart == EntitlementsInit => EntitlementsInv
<1> SUFFICES ASSUME EntitlementsInit PROVE EntitlementsInv
  OBVIOUS
<1>1. Committed = {} /\ IsFiniteSet({}) /\ Cardinality({}) = 0
  BY FS_EmptySet DEF EntitlementsInit, Committed
<1>2. CallsFit
  BY <1>1 DEF EntitlementsInit, CallsFit, Wrote
<1>3. component \in ProductComponent
  BY DEF EntitlementsInit, ProductComponent, Id
<1>4. override \in [Scope -> Override \cup {None}]
  BY DEF EntitlementsInit, Override, Id
<1>5. NoOrphanedOverride
  BY <1>3, NoneIsNoRow DEF EntitlementsInit, NoOrphanedOverride
<1>6. RowsInv
  BY <1>1, <1>3, <1>4, <1>5 DEF RowsInv, EntitlementsInit, OverrideIsTheLastSet, RowIsFresh
<1>7. EvalsInv
  BY DEF EntitlementsInit, EvalsInv, EvalHolds, Shape, Running, AnswerHeldUnlessTorn
<1> QED BY <1>2, <1>6, <1>7 DEF EntitlementsInv

\* services/component.py: what an administrator's call that is still to commit
\* has loaded is there still, or another has set it since; and what a running
\* evaluator would answer was right at some time, until the tables change twice.
THEOREM EntitlementsInvariance == EntitlementsSpec => []EntitlementsInv
<1>1. EntitlementsInv /\ [EntitlementsNext]_entitlementVars => EntitlementsInv'
  BY EntitlementsStep
<1> QED BY <1>1, EntitlementsStart, PTL DEF EntitlementsSpec

\* component.py user_has_component_access, user_effective_components,
\* tenant_effective_components: four statements give an answer that was right
\* at some time meanwhile, but for two changes or a deletion under them.
THEOREM AnswersHeld == EntitlementsSpec => []AnswerHeldUnlessTorn
<1>1. EntitlementsInv => AnswerHeldUnlessTorn
  BY DEF EntitlementsInv, EvalsInv
<1> QED BY <1>1, EntitlementsInvariance, PTL

\* models/component.py, component.py set_user_override, set_tenant_override:
\* an override is as its last set asked unless that overlapped another, and
\* goes with its component.
THEOREM OverridesAsSet == EntitlementsSpec => []OverridesHold
<1>1. EntitlementsInv => OverridesHold
  <2>1. ASSUME EntitlementsInv, NEW e \in Eval
        PROVE  ev[e].pc \in {"idle", "user", "tenant", "plan", "ended"}
    BY <2>1 DEF EntitlementsInv, EvalsInv, EvalHolds, Shape
  <2> QED BY <2>1 DEF EntitlementsInv, CallsFit, RowsInv, EvalsInv, OverridesHold, EntitlementsTypeOK
<1> QED BY <1>1, EntitlementsInvariance, PTL
=============================================================================
