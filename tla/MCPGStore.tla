------------------------------ MODULE MCPGStore ------------------------------
\* The instance of PGStore that TLC checks.
EXTENDS PGStore, TLC

CONSTANTS c1, c2, c3, k1, k2

ThreeCalls == {c1, c2, c3}
TwoKeys    == {k1, k2}

\* Calls, and keys, differ only in their names.
Interchangeable == Permutations(ThreeCalls) \cup Permutations(TwoKeys)
=============================================================================
