----------------------------- MODULE MCReminders -----------------------------
\* Instances of Reminders for TLC.
EXTENDS Reminders, TLC

\* A reminder goes out on day 7 and on day 10 (-3), when the worker is up;
\* day 14 is the seventh after.
Days == {7, 10, 14}
DueOnDay7 == [i \in Bill |-> 7]
Interchangeable == Permutations(Bill) \cup Permutations(Run)
=============================================================================
