------------------------------- MODULE MCVault -------------------------------
\* Instances of Vault for TLC.
EXTENDS Vault, TLC

\* The names of calls and the values are interchangeable.
Interchangeable == Permutations(Call) \cup Permutations(Value)
=============================================================================
