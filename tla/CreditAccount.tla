--------------------------- MODULE CreditAccount ----------------------------
(***************************************************************************)
(* What the credit service promises its callers, as if every request were  *)
(* one step: a debit or a reset acts on the balance of the moment and on   *)
(* one wallet, a plan grant reaches all of its wallets or none, and a      *)
(* reference that is there already makes a call a no-op.                   *)
(*                                                                         *)
(* A grant is the weak spot of the promise: it may build on any earlier    *)
(* balance of the wallet (base counts the entries it knows of).            *)
(***************************************************************************)
EXTENDS Naturals, Integers, Sequences

CONSTANTS Wallet, NoRef, ProductOf, Requests

VARIABLES
    balance,  \* what the API shows for a wallet
    journal   \* the entries behind it, oldest first

vars == <<balance, journal>>

Init == balance = [w \in Wallet |-> 0] /\ journal = [w \in Wallet |-> <<>>]

\* The balance a wallet had after its first n entries.
BalanceAt(w, n) == IF n = 0 THEN 0 ELSE journal[w][n].after

\* One of the wallet's first n entries carries the reference.
Carries(w, n, ref) == ref # NoRef /\ \E i \in 1..n : journal[w][i].ref = ref

Latest(w) == Len(journal[w])
Keep(w) == balance'[w] = balance[w] /\ journal'[w] = journal[w]
KeepOthers(W) == \A w \in Wallet \ W : Keep(w)

\* A new entry of w that builds on the balance after n entries.
Post(w, kind, amount, ref, n) ==
    LET after == BalanceAt(w, n) + amount
    IN  /\ balance'[w] = after
        /\ journal'[w] = Append(journal[w],
               [wallet |-> w, kind |-> kind, amount |-> amount, ref |-> ref,
                after |-> after, base |-> n])

\* A plan grant: every wallet gets its credits or has them already.
Granted(q, w) ==
    \/ Carries(w, Latest(w), q.ref) /\ Keep(w)
    \/ \E n \in 0..Latest(w) : ~Carries(w, n, q.ref) /\ Post(w, "grant", q.amount, q.ref, n)

Grant(q) ==
    /\ q.kind = "grant"
    /\ \A w \in q.wallets : Granted(q, w)
    /\ KeepOthers(q.wallets)

\* A debit: the product's own wallet, enough credits, a new reference.
Consume(q, w) ==
    /\ q.kind = "consume" /\ w \in q.wallets /\ ProductOf[w] = q.product
    /\ balance[w] >= q.amount
    /\ ~Carries(w, Latest(w), q.ref)
    /\ Post(w, "consume", -q.amount, q.ref, Latest(w))
    /\ KeepOthers({w})

\* The end of a period: the whole balance expires.
Reset(q, w) ==
    /\ q.kind = "reset" /\ w \in q.wallets /\ ProductOf[w] = q.product
    /\ Post(w, "reset", -balance[w], NoRef, Latest(w))
    /\ balance'[w] = 0
    /\ KeepOthers({w})

Next == \E q \in Requests : Grant(q) \/ \E w \in Wallet : Consume(q, w) \/ Reset(q, w)

Spec == Init /\ [][Next]_vars
=============================================================================
