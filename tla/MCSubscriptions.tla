-------------------------- MODULE MCSubscriptions ---------------------------
(***************************************************************************)
(* Small instances of Subscriptions for TLC.                               *)
(***************************************************************************)
EXTENDS Subscriptions, TLC

CONSTANTS s1, s2, gold, silver, free, sub1, sub2, in1, in2, k1

Symmetry == Permutations(Session)

\* in1 is an invoice of the first provider subscription, in2 of none.
Bills == [i \in Invoice |-> IF i = in1 THEN sub1 ELSE None]

Trial == [kind : {"trial"}, plan : {gold, free}]
Purchases == [kind : {"purchase"}, plan : {gold}, key : {k1}]
Changes == [kind : {"change"}, plan : {gold, silver}]
Cancels == [kind : {"cancel"}, atEnd : BOOLEAN]
Events(I) == [kind : {"failed", "paid"}, invoice : I]
Sweep == [kind : {"sweep"}]

\* One at a time: everything.  At once: a purchase that may be a replay and one
\* of another plan that is always new, a change to that plan, an immediate
\* cancel, the events of an invoice and the sweep.
Everything == Trial \cup Purchases \cup Changes \cup Cancels \cup Events(Invoice) \cup Sweep
Overlapping == Purchases \cup [kind : {"purchase"}, plan : {silver}, key : {NoKey}]
                 \cup [kind : {"change"}, plan : {silver}]
                 \cup [kind : {"cancel"}, atEnd : {FALSE}] \cup Events({in1}) \cup Sweep

=============================================================================
