------------------------ MODULE MCClipporClipboard ------------------------
(* Values for the constants of ClipporClipboard.                            *)
EXTENDS ClipporClipboard

CONSTANTS s1, s2, t1, m1, m2, m3

OneSeat == [s \in Sels |-> t1]

OnlyFirst == {<<m1>>}
OnlyBoth  == {<<m1, m2>>}

\* No mime type, none that is allowed, one behind one that is not, and two.
AnyList == {<<>>, <<m3>>, <<m3, m1>>, <<m1, m2>>}

\* The database has no entry, or one whose data counts as copy 0.
JustOne   == {{<<m1, Client(0)>>}}
NoneOrOne == {{}} \cup JustOne

=============================================================================
