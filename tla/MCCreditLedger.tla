--------------------------- MODULE MCCreditLedger ---------------------------
(***************************************************************************)
(* Small instances of CreditLedger for TLC.                                *)
(***************************************************************************)
EXTENDS CreditLedger

CONSTANTS t1, t2, t3, w1, w2, r1, p1, p2

Request1(k, ws, a, r, p) == [kind |-> k, wallets |-> ws, amount |-> a, ref |-> r, product |-> p]

\* Two wallets: plan grants over both, in either order, a debit of each, a
\* debit presented by another product and the reset (which ignores its amount).
TwoWallets ==
    { Request1("grant", {w1, w2}, 1, r1, p1), Request1("grant", {w1}, 2, NoRef, p1),
      Request1("consume", {w1}, 1, r1, p1), Request1("consume", {w2}, 2, NoRef, p1),
      Request1("consume", {w1}, 1, NoRef, p2), Request1("reset", {w2}, 2, NoRef, p1) }

OneProduct == [w \in Wallet |-> p1]

=============================================================================
