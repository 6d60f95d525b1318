--------------------------- MODULE MCLayeredConfig ---------------------------
(* Instances of LayeredConfig for TLC.  k1 is a key like node.display_name,  *)
(* which only SetPersistent sets; k2 is one the caller gave explicitly.      *)
EXTENDS LayeredConfig

CONSTANTS k1, k2, a, b, w1, w2

TwoKeys == {k1, k2}
TwoValues == {a, b}
TwoWriters == {w1, w2}

DefaultsK2 == [k \in TwoKeys |-> IF k = k2 THEN a ELSE Absent]
ExplicitK2 == [k \in TwoKeys |-> IF k = k2 THEN b ELSE Absent]
AnOverlay == {[k \in TwoKeys |-> a]}

=============================================================================
