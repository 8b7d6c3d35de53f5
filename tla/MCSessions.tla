----------------------------- MODULE MCSessions -----------------------------
\* Instances of Sessions for TLC.
EXTENDS Sessions, TLC

\* The names of calls, tenants and passwords are interchangeable.
Interchangeable == Permutations(Call) \cup Permutations(Slug) \cup Permutations(Password)
=============================================================================
