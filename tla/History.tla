------------------------------ MODULE History ------------------------------
(***************************************************************************)
(* What a clipboard may rely on from its database: a history of whole      *)
(* entries, the newest last, that changes by recording one new entry or by *)
(* dropping the oldest ones, at once or not at all.  There are no          *)
(* statements, transactions, reference counts or files here.               *)
(***************************************************************************)
EXTENDS Naturals, FiniteSets

CONSTANTS Ids, Labels, LimitOf, Mimes, Data, Null, MaxPos, Volatile

VARIABLES
    hpos,   \* the place of each entry, 0 for an entry that is not recorded
    hbody   \* its mime types and data

hvars == <<hpos, hbody>>

NoMimes   == [m \in Mimes |-> Null]
Recorded  == {i \in Ids : hpos[i] > 0}
NewerThan(i) == {j \in Recorded : hpos[j] > hpos[i]}

HInit == /\ hpos = [i \in Ids |-> 0]
         /\ hbody = [i \in Ids |-> NoMimes]

\* A new entry becomes the newest one.
Record(i, b) ==
    /\ i \notin Recorded
    /\ b # NoMimes
    /\ \E p \in 1..MaxPos : /\ \A j \in Ids : hpos[j] < p
                            /\ hpos' = [hpos EXCEPT ![i] = p]
    /\ hbody' = [hbody EXCEPT ![i] = b]

\* Older entries are dropped, the oldest ones first, and the newest n stay.  How
\* many more stay is left open.
DropOldest(n) ==
    \E kept \in SUBSET Recorded :
        /\ \A i \in kept : NewerThan(i) \subseteq kept
        /\ \A i \in Recorded : Cardinality(NewerThan(i)) < n => i \in kept
        /\ hpos' = [i \in Ids |-> IF i \in kept THEN hpos[i] ELSE 0]
        /\ hbody' = [i \in Ids |-> IF i \in kept THEN hbody[i] ELSE NoMimes]

\* A history in memory is lost with its process.
Forget == /\ Volatile
          /\ hpos' = [i \in Ids |-> 0]
          /\ hbody' = [i \in Ids |-> NoMimes]

HNext == \/ \E i \in Ids, b \in [Mimes -> Data \cup {Null}] : Record(i, b)
         \/ \E l \in Labels : DropOldest(LimitOf[l])
         \/ Forget

HSpec == HInit /\ [][HNext]_hvars

=============================================================================
