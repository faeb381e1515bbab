------------------------ MODULE MCClipboardHistory ------------------------
(* Values for the constants of ClipboardHistory.                             *)
EXTENDS ClipboardHistory, TLC

CONSTANTS i1, i2, i3, i4, a, b

\* One clipboard that keeps n + 1 = 2 entries.
OneLabelOf == [i \in Ids |-> a]
OneLimitOf == [l \in Labels |-> 1]

\* Two clipboards share the database, with different limits.
TwoLabelOf == [i \in Ids |-> IF i \in {i2, i4} THEN b ELSE a]
TwoLimitOf == (a :> 1) @@ (b :> 2)

=============================================================================
