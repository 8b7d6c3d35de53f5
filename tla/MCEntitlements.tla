--------------------------- MODULE MCEntitlements ---------------------------
\* Instances of Entitlements for TLC.
EXTENDS Entitlements, TLC

\* The names of calls are interchangeable.
Interchangeable == Permutations(Call)
=============================================================================
