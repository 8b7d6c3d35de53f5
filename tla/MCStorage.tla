------------------------------ MODULE MCStorage ------------------------------
\* Instances of Storage for TLC.
EXTENDS Storage, TLC

CONSTANTS a, b    \* values

\* Puts of every kind: unconditional with the default time to live, and on one
\* of two versions, with no expiry or the default; one writes the value that
\* may be there.
PutsAsked == {[value |-> a, ifVersion |-> None, ttl |-> None], [value |-> b, ifVersion |-> 1, ttl |-> 0],
              [value |-> a, ifVersion |-> 2, ttl |-> None]}

\* The names of calls and keys are interchangeable.
Interchangeable == Permutations(Call) \cup Permutations(Key)
=============================================================================
