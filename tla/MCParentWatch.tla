----------------------------- MODULE MCParentWatch -----------------------------
\* The instance of ParentWatch that TLC checks.
EXTENDS ParentWatch

CONSTANTS c1, c2, c3

ThreeConns == {c1, c2, c3}
=============================================================================
