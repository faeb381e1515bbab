------------------------ MODULE MCClipporDatabase ------------------------
(* Values for the constants of ClipporDatabase and the symmetries of runs   *)
(* that check no liveness.                                                  *)
EXTENDS ClipporDatabase, TLC

CONSTANTS i1, i2, i3, a, b, m1, m2, d1, d2, d3

\* One clipboard owns every entry and keeps n + 1 = 2 of them.
OneLabelOf == [i \in Ids |-> a]
OneLimitOf == [l \in Labels |-> 1]

\* Two clipboards share the database, with different limits.
TwoLabelOf == (i1 :> a) @@ (i2 :> b) @@ (i3 :> a)
TwoLimitOf == (a :> 1) @@ (b :> 2)

TwoSymmetry == Permutations(Mimes) \cup Permutations(Data)
OneSymmetry == Permutations(Ids) \cup TwoSymmetry

=============================================================================
