---------------------------- MODULE MCHubRuntime ----------------------------
(* Instances of HubRuntime for TLC: the calls are model values.  The initial *)
(* WorkDir is absent, relative, or an absolute path that is the same         *)
(* directory as the relative one.                                            *)
EXTENDS HubRuntime, TLC

CONSTANTS s1, s2, s3, t1, t2, t3

TwoStarts   == {s1, s2}
ThreeStarts == {s1, s2, s3}
TwoStops    == {t1, t2}
ThreeStops  == {t1, t2, t3}
OneStop     == {t1}

AnyWorkDir  == {None, Relative, 1}
NoWorkDir   == {None}

\* Calls of one kind differ only in their names.
Interchangeable == Permutations(ThreeStarts) \cup Permutations(ThreeStops)

=============================================================================
