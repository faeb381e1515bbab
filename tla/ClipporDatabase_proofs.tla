----------------------- MODULE ClipporDatabase_proofs -----------------------
(***************************************************************************)
(* Proofs about the database, for every value of its constants.            *)
(***************************************************************************)
EXTENDS ClipporDatabase, FiniteSetTheorems, TLAPS

-----------------------------------------------------------------------------
(* Type correctness                                                          *)

\* Where a call iterates, it has an entry, and iterates over mime types which
\* that entry has: so every data id it meets is one.
Iterates == /\ pc \in {"cleanup", "store", "purge"} => cur \in Ids
            /\ pc \in {"cleanup", "purge"} => todo \subseteq MimesOf(db.mime[cur])
            /\ pc = "store" => todo \subseteq MimesOf(body)

TypeInv == TypeOK /\ Iterates

\* The empty tables are tables.
LEMMA BlankType == Blank \in Tables
BY DEF Blank, Tables, Bodies, NoBody

\* Changing a Position gives tables.
LEMMA PosUpdate ==
    ASSUME NEW t \in Tables, NEW i \in Ids, NEW n \in Nat
    PROVE  [t EXCEPT !.pos[i] = n] \in Tables
BY DEF Tables

\* Changing or removing a mime type row gives tables.
LEMMA MimeUpdate ==
    ASSUME NEW t \in Tables, NEW i \in Ids, NEW m \in Mimes, NEW v \in Data \cup {Null}
    PROVE  [t EXCEPT !.mime[i][m] = v] \in Tables
<1>1. [t.mime[i] EXCEPT ![m] = v] \in Bodies
  BY DEF Tables, Bodies
<1> QED BY <1>1 DEF Tables

\* Counting a reference up or down gives tables.
LEMMA RefsUpdate ==
    ASSUME NEW t \in Tables, NEW d \in Data
    PROVE  Unref(t, d) \in Tables /\ Counted(t, d) \in Tables
<1>1. ASSUME NEW k \in Nat PROVE [t EXCEPT !.refs[d] = k] \in Tables
  BY DEF Tables
<1>2. t.refs[d] \in Nat
  BY DEF Tables
<1> QED BY <1>1, <1>2 DEF Unref, Counted

\* The initial state has its types.
LEMMA TypeInit == Init => TypeInv
BY BlankType DEF Init, TypeInv, TypeOK, Iterates, NoBody, Bodies

\* One round of cleanup_mime_types keeps the types.
LEMMA TypeDropRow ==
    ASSUME TypeInv, pc \in {"cleanup", "purge"}, NEW m \in todo, DropRow(m)
    PROVE  TypeInv'
<1> DEFINE d == db.mime[cur][m]
<1>1. cur \in Ids /\ m \in Mimes /\ d \in Data
  BY DEF TypeInv, TypeOK, Iterates, MimesOf, Tables, Bodies
<1>2. PICK t \in Unchecked(WithoutRow(db, cur, m), db) :
        /\ db' = Unref(t, d)
        /\ files' = files \/ files' \in Unchecked(files \ {d}, files)
        /\ pc' = pc \/ pc' = "rollback"
  BY DEF DropRow
<1>3. t \in Tables
  BY <1>1, <1>2, MimeUpdate DEF TypeInv, TypeOK, Unchecked, WithoutRow
<1>4. db' \in Tables
  BY <1>1, <1>2, <1>3, RefsUpdate
<1>5. files' \in SUBSET Data
  BY <1>2 DEF TypeInv, TypeOK, Unchecked
<1>6. UNCHANGED <<saved, intx, op, owner, cur, body, victims>> /\ todo' = todo \ {m}
  BY DEF DropRow, frame
<1>7. \A n \in Mimes \ {m} : db'.mime[cur][n] = db.mime[cur][n]
  BY <1>1, <1>2 DEF Unchecked, WithoutRow, Unref, TypeInv, TypeOK, Tables, Bodies
<1>8. TypeOK'
  BY <1>2, <1>4, <1>5, <1>6 DEF TypeInv, TypeOK
<1>9. Iterates'
  BY <1>1, <1>2, <1>6, <1>7 DEF TypeInv, TypeOK, Iterates, MimesOf
<1> QED BY <1>8, <1>9 DEF TypeInv

\* The end of a call keeps the types, whatever is done with the tables.
LEMMA TypeReturn ==
    ASSUME TypeInv, Return, db' \in Tables, saved' \in Tables, intx' \in BOOLEAN,
           files' \in SUBSET Data
    PROVE  TypeInv'
BY DEF TypeInv, TypeOK, Iterates, Return, NoBody, Bodies

\* Every step keeps the types.
LEMMA TypeStep == TypeInv /\ [Next]_vars => TypeInv'
<1> SUFFICES ASSUME TypeInv, [Next]_vars PROVE TypeInv'
  OBVIOUS
<1> USE DEF TypeInv, TypeOK, Iterates
<1>1. ASSUME NEW i \in Ids, NEW b \in Bodies, SerializeBegin(i, b) PROVE TypeInv'
  <2>1. db' \in Tables
    BY <1>1, BoundAssumption, PosUpdate DEF SerializeBegin
  <2>2. db'.mime = db.mime
    BY <1>1 DEF SerializeBegin, Tables
  <2> QED BY <1>1, <2>1, <2>2, LabelAssumption DEF SerializeBegin, MimesOf
<1>2. ASSUME NEW m \in Mimes, CleanupRow(m) PROVE TypeInv'
  BY <1>2, TypeDropRow DEF CleanupRow
<1>3. ASSUME NEW m \in Mimes, PurgeRow(m) PROVE TypeInv'
  BY <1>3, TypeDropRow DEF PurgeRow
<1>4. ASSUME NEW m \in Mimes, StoreMime(m) PROVE TypeInv'
  <2>1. cur \in Ids /\ body[m] \in Data
    BY <1>4 DEF StoreMime, MimesOf, Bodies
  <2>2. Counted(db, body[m]) \in Tables
    BY <2>1, RefsUpdate
  <2>3. [Counted(db, body[m]) EXCEPT !.mime[cur][m] = body[m]] \in Tables
    BY <2>1, <2>2, MimeUpdate
  <2> QED BY <1>4, <2>1, <2>2, <2>3 DEF StoreMime, frame
<1>5. CASE CleanupDone
  BY <1>5 DEF CleanupDone, tables, frame, MimesOf
<1>6. CASE StoreDone
  BY <1>6 DEF StoreDone, tables, frame
<1>7. ASSUME NEW l \in Labels, TrimBegin(l) PROVE TypeInv'
  BY <1>7 DEF TrimBegin, Victims, Entries
<1>8. ASSUME NEW i \in Ids, NextVictim(i) PROVE TypeInv'
  BY <1>8 DEF NextVictim, tables, MimesOf
<1>9. CASE DeleteEntry
  <2>1. db' \in Tables
    BY <1>9, PosUpdate DEF DeleteEntry
  <2> QED BY <1>9, <2>1 DEF DeleteEntry, frame
<1>10. CASE TrimDone
  BY <1>10 DEF TrimDone, tables, frame
<1>11. CASE Commit
  BY <1>11, TypeReturn DEF Commit
<1>12. CASE CommitFails
  BY <1>12, TypeReturn DEF CommitFails
<1>13. CASE Rollback
  BY <1>13, TypeReturn DEF Rollback
<1>14. CASE StepFails
  BY <1>14 DEF StepFails, tables, frame
<1>15. CASE Crash
  BY <1>15, TypeReturn, BlankType DEF Crash
<1>16. CASE UNCHANGED vars
  BY <1>16 DEF vars
<1> QED BY <1>1, <1>2, <1>3, <1>4, <1>5, <1>6, <1>7, <1>8, <1>9, <1>10, <1>11, <1>12,
           <1>13, <1>14, <1>15, <1>16 DEF Next, Serialize, Trim

\* Every variable of the database always has its type: no call of
\* serialize_entry or trim_entries meets a mime type without data or works on
\* an entry that it has not got.
THEOREM TypeCorrect == Spec => []TypeOK
<1>1. Spec => []TypeInv
  BY TypeInit, TypeStep, PTL DEF Spec
<1>2. TypeInv => TypeOK
  BY DEF TypeInv
<1> QED BY <1>1, <1>2, PTL

-----------------------------------------------------------------------------
(* The progress of a call.  While ids are fresh, the tables of the connection *)
(* are at each step what was committed last, changed by the part of the call  *)
(* that has been done.                                                        *)

Serializing == op = "serialize" /\ pc \in {"cleanup", "store", "commit"}
Trimming    == op = "trim" /\ pc \in {"victim", "purge", "commit"}

\* Which calls there are; each runs in a transaction, and one that failed to end
\* its transaction is the only way to be idle with other tables than committed.
CallInv == /\ pc \in {"cleanup", "store"} => op = "serialize"
           /\ pc \in {"victim", "purge"} => op = "trim"
           /\ pc = "commit" => op \in {"serialize", "trim"}
           /\ pc # "idle" => intx
           /\ pc = "idle" /\ ~intx => db = saved

\* The new entry has the last Position and those of its rows that were stored.
SerializeInv ==
    Serializing =>
        /\ cur \in Ids /\ MimesOf(body) # {}
        /\ saved.pos[cur] = 0
        /\ \E p \in 1..MaxPos : /\ \A j \in Ids : saved.pos[j] < p
                               /\ db.pos = [saved.pos EXCEPT ![cur] = p]
        /\ \A i \in Ids \ {cur} : db.mime[i] = saved.mime[i]
        /\ \A m \in Mimes : db.mime[cur][m] =
                (IF pc = "cleanup" \/ (pc = "store" /\ m \in todo) THEN Null ELSE body[m])

\* The victims that are done are gone, the one that is purged has lost some of
\* its rows, and every other entry is as it was.
Purged == IF pc = "purge" THEN {cur} ELSE {}
Gone   == Victims(saved, LimitOf[owner]) \ (victims \cup Purged)

TrimInv ==
    Trimming =>
        /\ owner \in Labels
        /\ victims \subseteq Victims(saved, LimitOf[owner])
        /\ pc = "purge" => cur \in Victims(saved, LimitOf[owner]) \ victims
        /\ pc = "commit" => victims = {}
        /\ \A i \in Ids : db.pos[i] = (IF i \in Gone THEN 0 ELSE saved.pos[i])
        /\ \A i \in Ids \ Purged : db.mime[i] = (IF i \in Gone THEN NoBody ELSE saved.mime[i])

ProgressInv == CallInv /\ SerializeInv /\ TrimInv

CallsInv == TypeInv /\ ProgressInv /\ WholeEntries

\* The tables start out whole and committed.
LEMMA CallsInit == Init => CallsInv
BY TypeInit DEF Init, CallsInv, ProgressInv, CallInv, SerializeInv, TrimInv, WholeEntries, Serializing,
                Trimming, Blank, MimesOf, NoBody

\* What one round of cleanup_mime_types leaves alone.
LEMMA DropRowFrame ==
    ASSUME TypeInv, pc \in {"cleanup", "purge"}, NEW m \in todo, DropRow(m)
    PROVE  /\ db'.pos = db.pos
           /\ \A i \in Ids \ {cur} : db'.mime[i] = db.mime[i]
           /\ pc' \in {pc, "rollback"}
           /\ UNCHANGED <<saved, intx, op, owner, cur, body, victims>>
<1>1. cur \in Ids /\ m \in Mimes
  BY DEF TypeInv, TypeOK, Iterates, MimesOf
<1>2. PICK t \in Unchecked(WithoutRow(db, cur, m), db) :
        db' = Unref(t, db.mime[cur][m]) /\ pc' \in {pc, "rollback"}
  BY DEF DropRow
<1>3. t.pos = db.pos /\ \A i \in Ids \ {cur} : t.mime[i] = db.mime[i]
  BY <1>1, <1>2 DEF Unchecked, WithoutRow, TypeInv, TypeOK, Tables
<1>4. t \in Tables
  BY <1>1, <1>2, MimeUpdate DEF TypeInv, TypeOK, Unchecked, WithoutRow
<1>5. db'.pos = t.pos /\ db'.mime = t.mime
  BY <1>2, <1>4 DEF Unref, Tables
<1> QED BY <1>2, <1>3, <1>5 DEF DropRow, frame

\* The end of a call, with the tables committed or as they were committed last.
LEMMA CallsReturn ==
    ASSUME Return, ~intx' => db' = saved'
    PROVE  ProgressInv'
BY DEF ProgressInv, Return, CallInv, SerializeInv, TrimInv, Serializing, Trimming

\* A step that gives up.
LEMMA CallsGiveUp ==
    ASSUME pc' = "rollback", intx'
    PROVE  ProgressInv'
BY DEF ProgressInv, CallInv, SerializeInv, TrimInv, Serializing, Trimming

\* Between two calls the tables are those that were committed, so a new entry
\* has no rows.
LEMMA CallsSerializeBegin ==
    ASSUME ~Upsert, CallsInv, NEW i \in Ids, NEW b \in Bodies, SerializeBegin(i, b)
    PROVE  ProgressInv'
<1> USE DEF CallsInv, ProgressInv
<1>1. db = saved /\ saved.pos[i] = 0
  BY DEF SerializeBegin, CallInv
<1>2. \A m \in Mimes : saved.mime[i][m] = Null
  BY <1>1 DEF WholeEntries, MimesOf
<1>3. PICK p \in 1..MaxPos : IsNextPos(db, p) /\ db' = [db EXCEPT !.pos[i] = p]
  BY DEF SerializeBegin
<1>4. db'.pos = [saved.pos EXCEPT ![i] = p] /\ db'.mime = saved.mime
  BY <1>1, <1>3 DEF TypeInv, TypeOK, Tables
<1>5. /\ pc' = "cleanup" /\ op' = "serialize" /\ intx' /\ saved' = saved
      /\ cur' = i /\ body' = b /\ MimesOf(b) # {}
  BY DEF SerializeBegin
<1>6. CallInv' /\ TrimInv'
  BY <1>5 DEF CallInv, TrimInv, Trimming
<1>7. SerializeInv'
  <2>1. \E q \in 1..MaxPos : /\ \A j \in Ids : saved'.pos[j] < q
                            /\ db'.pos = [saved'.pos EXCEPT ![cur'] = q]
    BY <1>1, <1>3, <1>4, <1>5 DEF IsNextPos
  <2>2. \A m \in Mimes : db'.mime[cur'][m] = Null
    BY <1>2, <1>4, <1>5
  <2>3. saved'.pos[cur'] = 0 /\ \A j \in Ids \ {cur'} : db'.mime[j] = saved'.mime[j]
    BY <1>1, <1>4, <1>5
  <2> QED BY <1>5, <2>1, <2>2, <2>3 DEF SerializeInv, Serializing, MimesOf
<1> QED BY <1>6, <1>7

\* A row is stored, or the call gives up.
LEMMA CallsStoreMime ==
    ASSUME CallsInv, NEW m \in Mimes, StoreMime(m)
    PROVE  ProgressInv'
<1> USE DEF CallsInv, ProgressInv
<1>1. /\ pc = "store" /\ op = "serialize" /\ cur \in Ids /\ intx /\ body[m] \in Data
      /\ UNCHANGED <<saved, intx, frame>>
  BY DEF StoreMime, CallInv, TypeInv, TypeOK, Iterates, MimesOf, Bodies
<1>2. CASE pc' = "rollback"
  BY <1>1, <1>2, CallsGiveUp
<1>3. CASE /\ db' = [Counted(db, body[m]) EXCEPT !.mime[cur][m] = body[m]]
           /\ todo' = todo \ {m} /\ pc' = pc
  <2>1. /\ db'.pos = db.pos
        /\ \A i \in Ids \ {cur} : db'.mime[i] = db.mime[i]
        /\ \A k \in Mimes : db'.mime[cur][k] = IF k = m THEN body[m] ELSE db.mime[cur][k]
    BY <1>1, <1>3 DEF Counted, TypeInv, TypeOK, Tables, Bodies
  <2>2. CallInv' /\ TrimInv'
    BY <1>1, <1>3 DEF CallInv, TrimInv, Trimming, frame
  <2>3. SerializeInv'
    BY <1>1, <1>3, <2>1 DEF SerializeInv, Serializing, frame
  <2> QED BY <2>2, <2>3
<1> QED BY <1>2, <1>3 DEF StoreMime

\* A row of the victim is dropped, or the call gives up.
LEMMA CallsPurgeRow ==
    ASSUME CallsInv, NEW m \in Mimes, PurgeRow(m)
    PROVE  ProgressInv'
<1> USE DEF CallsInv, ProgressInv
<1>1. /\ pc = "purge" /\ op = "trim" /\ intx
      /\ db'.pos = db.pos
      /\ \A i \in Ids \ {cur} : db'.mime[i] = db.mime[i]
      /\ pc' \in {pc, "rollback"}
      /\ UNCHANGED <<saved, intx, op, owner, cur, body, victims>>
  BY DropRowFrame DEF PurgeRow, CallInv
<1>2. CASE pc' = "rollback"
  BY <1>1, <1>2, CallsGiveUp
<1>3. CASE pc' = pc
  <2>1. CallInv' /\ SerializeInv'
    BY <1>1, <1>3 DEF CallInv, SerializeInv, Serializing
  <2>2. Gone' = Gone /\ Purged' = Purged /\ Purged = {cur}
    BY <1>1, <1>3 DEF Gone, Purged, Victims, Entries, Newer
  <2>3. TrimInv'
    BY <1>1, <1>3, <2>2 DEF TrimInv, Trimming, Victims, Entries, Newer
  <2> QED BY <2>1, <2>3
<1> QED BY <1>1, <1>2, <1>3

\* The Entries row of the victim is deleted, or the call gives up.
LEMMA CallsDeleteEntry ==
    ASSUME CallsInv, DeleteEntry
    PROVE  ProgressInv'
<1> USE DEF CallsInv, ProgressInv
<1>1. /\ pc = "purge" /\ op = "trim" /\ intx /\ cur \in Ids
      /\ UNCHANGED <<saved, intx, op, owner, cur, body, victims>>
  BY DEF DeleteEntry, CallInv, TypeInv, Iterates, frame
<1>2. CASE pc' = "rollback"
  BY <1>1, <1>2, CallsGiveUp
<1>3. CASE /\ MimesOf(db.mime[cur]) = {} /\ db' = [db EXCEPT !.pos[cur] = 0]
           /\ pc' = "victim"
  <2>1. /\ db'.pos = [db.pos EXCEPT ![cur] = 0] /\ db'.mime = db.mime
    BY <1>3 DEF TypeInv, TypeOK, Tables
  <2>2. db.mime[cur] = NoBody
    BY <1>1, <1>3 DEF MimesOf, NoBody, TypeInv, TypeOK, Tables, Bodies
  <2>3. CallInv' /\ SerializeInv'
    BY <1>1, <1>3 DEF CallInv, SerializeInv, Serializing
  <2>4. TrimInv
    OBVIOUS
  <2>5. /\ Victims(saved, LimitOf[owner])' = Victims(saved, LimitOf[owner])
        /\ cur \in Victims(saved, LimitOf[owner]) \ victims
    BY <1>1, <2>4 DEF TrimInv, Trimming, Victims, Entries, Newer
  <2>6. Gone' = Gone \cup {cur} /\ Purged' = {} /\ Purged = {cur}
    BY <1>1, <1>3, <2>5 DEF Gone, Purged
  <2>7. db.pos \in [Ids -> Nat]
    BY DEF TypeInv, TypeOK, Tables
  <2>8. TrimInv'
    BY <1>1, <1>3, <2>1, <2>2, <2>4, <2>5, <2>6, <2>7 DEF TrimInv, Trimming
  <2> QED BY <2>3, <2>8
<1> QED BY <1>1, <1>2, <1>3 DEF DeleteEntry

\* What is about to be committed has no entry without rows, nor rows without an
\* entry.
LEMMA CommitWhole ==
    ASSUME CallsInv, pc = "commit"
    PROVE  \A i \in Ids : db.pos[i] > 0 <=> MimesOf(db.mime[i]) # {}
<1> USE DEF CallsInv, ProgressInv
<1>1. CASE op = "serialize"
  <2>1. Serializing /\ SerializeInv
    BY <1>1 DEF Serializing
  <2>2. PICK p \in 1..MaxPos : db.pos = [saved.pos EXCEPT ![cur] = p]
    BY <2>1 DEF SerializeInv
  <2>3. db.pos[cur] > 0 /\ \A i \in Ids \ {cur} : db.pos[i] = saved.pos[i]
    BY <2>1, <2>2, BoundAssumption DEF SerializeInv, TypeInv, TypeOK, Tables
  <2>4. MimesOf(db.mime[cur]) # {}
    BY <2>1 DEF SerializeInv, MimesOf
  <2> QED BY <2>1, <2>3, <2>4 DEF SerializeInv, WholeEntries
<1>2. CASE op = "trim"
  <2>1. Trimming /\ TrimInv /\ Purged = {}
    BY <1>2 DEF Trimming, Purged
  <2> QED BY <2>1 DEF TrimInv, WholeEntries, MimesOf, NoBody
<1> QED BY <1>1, <1>2 DEF CallInv

\* Every step of a database with fresh ids keeps the progress of the calls.
LEMMA CallsStep == ASSUME ~Upsert PROVE CallsInv /\ [Next]_vars => CallsInv'
<1> SUFFICES ASSUME CallsInv, [Next]_vars PROVE CallsInv'
  OBVIOUS
<1>0. TypeInv /\ CallInv /\ SerializeInv /\ TrimInv /\ WholeEntries
  BY DEF CallsInv, ProgressInv
<1>1. ASSUME NEW i \in Ids, NEW b \in Bodies, SerializeBegin(i, b)
      PROVE  ProgressInv' /\ saved' = saved
  BY <1>0, <1>1, CallsSerializeBegin DEF SerializeBegin
<1>2. ASSUME NEW m \in Mimes, CleanupRow(m) PROVE FALSE
  <2>1. pc = "cleanup" /\ m \in MimesOf(db.mime[cur]) /\ Serializing
    BY <1>0, <1>2 DEF CleanupRow, TypeInv, Iterates, CallInv, Serializing
  <2> QED BY <1>0, <2>1 DEF SerializeInv, MimesOf
<1>3. ASSUME NEW m \in Mimes, PurgeRow(m) PROVE ProgressInv' /\ saved' = saved
  BY <1>0, <1>3, CallsPurgeRow DEF PurgeRow, DropRow
<1>4. ASSUME NEW m \in Mimes, StoreMime(m) PROVE ProgressInv' /\ saved' = saved
  BY <1>0, <1>4, CallsStoreMime DEF StoreMime
<1>5. ASSUME CleanupDone PROVE ProgressInv' /\ saved' = saved
  <2>1. CallInv' /\ TrimInv' /\ saved' = saved
    BY <1>0, <1>5 DEF CleanupDone, tables, frame, CallInv, TrimInv, Trimming
  <2>2. SerializeInv'
    BY <1>0, <1>5 DEF CleanupDone, tables, frame, CallInv, SerializeInv, Serializing, MimesOf
  <2> QED BY <2>1, <2>2 DEF ProgressInv
<1>6. ASSUME StoreDone PROVE ProgressInv' /\ saved' = saved
  <2>1. CallInv' /\ TrimInv' /\ saved' = saved
    BY <1>0, <1>6 DEF StoreDone, tables, frame, CallInv, TrimInv, Trimming
  <2>2. SerializeInv'
    BY <1>0, <1>6 DEF StoreDone, tables, frame, CallInv, SerializeInv, Serializing, MimesOf
  <2> QED BY <2>1, <2>2 DEF ProgressInv
<1>7. ASSUME NEW l \in Labels, TrimBegin(l) PROVE ProgressInv' /\ saved' = saved
  <2>1. CallInv' /\ SerializeInv' /\ saved' = saved /\ db' = saved
    BY <1>0, <1>7 DEF TrimBegin, CallInv, SerializeInv, Serializing
  <2>2. /\ victims' = Victims(saved', LimitOf[owner']) /\ owner' \in Labels
        /\ Purged' = {} /\ Gone' = {} /\ pc' = "victim"
    BY <1>0, <1>7, <2>1 DEF TrimBegin, CallInv, Purged, Gone
  <2>3. TrimInv'
    BY <2>1, <2>2 DEF TrimInv
  <2> QED BY <2>1, <2>3 DEF ProgressInv
<1>8. ASSUME NEW i \in Ids, NextVictim(i) PROVE ProgressInv' /\ saved' = saved
  <2>1. CallInv' /\ SerializeInv' /\ saved' = saved
    BY <1>0, <1>8 DEF NextVictim, tables, CallInv, SerializeInv, Serializing
  <2>2. Trimming /\ TrimInv /\ UNCHANGED <<db, saved, owner>> /\ pc' = "purge" /\ cur' = i
        /\ victims' = victims \ {i} /\ i \in victims
    BY <1>0, <1>8 DEF NextVictim, tables, CallInv, Trimming
  <2>3. Gone' = Gone /\ Purged = {} /\ Purged' = {i}
    BY <1>0, <1>8, <2>2 DEF NextVictim, Gone, Purged, Victims, Entries, Newer
  <2>4. Victims(saved, LimitOf[owner])' = Victims(saved, LimitOf[owner])
    BY <2>2 DEF Victims, Entries, Newer
  <2>5. TrimInv'
    BY <2>2, <2>3, <2>4 DEF TrimInv
  <2> QED BY <2>1, <2>5 DEF ProgressInv
<1>9. ASSUME DeleteEntry PROVE ProgressInv' /\ saved' = saved
  BY <1>0, <1>9, CallsDeleteEntry DEF DeleteEntry
<1>10. ASSUME TrimDone PROVE ProgressInv' /\ saved' = saved
  <2>1. CallInv' /\ SerializeInv' /\ saved' = saved
    BY <1>0, <1>10 DEF TrimDone, tables, frame, CallInv, SerializeInv, Serializing
  <2>2. Trimming /\ TrimInv /\ UNCHANGED <<db, saved, owner, victims>> /\ pc' = "commit"
        /\ victims = {}
    BY <1>0, <1>10 DEF TrimDone, tables, frame, CallInv, Trimming
  <2>3. Gone' = Gone /\ Purged = {} /\ Purged' = {}
    BY <1>0, <1>10, <2>2 DEF TrimDone, Gone, Purged, Victims, Entries, Newer
  <2>4. Victims(saved, LimitOf[owner])' = Victims(saved, LimitOf[owner])
    BY <2>2 DEF Victims, Entries, Newer
  <2>5. TrimInv'
    BY <2>2, <2>3, <2>4 DEF TrimInv
  <2> QED BY <2>1, <2>5 DEF ProgressInv
<1>11. ASSUME Commit PROVE ProgressInv'
  BY <1>0, <1>11, CallsReturn DEF Commit
<1>12. ASSUME CommitFails PROVE ProgressInv'
  <2>1. intx
    BY <1>0, <1>12 DEF CommitFails, CallInv
  <2>2. CASE UNCHANGED <<db, intx>>
    BY <1>12, <2>1, <2>2, CallsReturn DEF CommitFails
  <2>3. CASE db' = saved /\ intx' = FALSE
    BY <1>12, <2>3, CallsReturn DEF CommitFails
  <2> QED BY <1>12, <2>2, <2>3 DEF CommitFails
<1>13. ASSUME Rollback PROVE ProgressInv'
  BY <1>0, <1>13, CallsReturn DEF Rollback
<1>14. ASSUME StepFails PROVE ProgressInv' /\ saved' = saved
  BY <1>0, <1>14, CallsGiveUp DEF StepFails, tables, CallInv
<1>15. ASSUME Crash PROVE ProgressInv'
  BY <1>0, <1>15, CallsReturn DEF Crash
<1>16. ASSUME UNCHANGED vars PROVE ProgressInv'
  BY <1>0, <1>16 DEF vars, ProgressInv, CallInv, SerializeInv, TrimInv, Serializing, Trimming, Gone, Purged,
               Victims, Entries, Newer, MimesOf
<1>17. ProgressInv'
  BY <1>0, <1>1, <1>2, <1>3, <1>4, <1>5, <1>6, <1>7, <1>8, <1>9, <1>10, <1>11, <1>12, <1>13,
     <1>14, <1>15, <1>16 DEF Next, Serialize, Trim
<1>18. saved' = saved \/ Commit \/ (saved' = Blank)
  BY <1>0, <1>1, <1>2, <1>3, <1>4, <1>5, <1>6, <1>7, <1>8, <1>9, <1>10
     DEF Next, Serialize, Trim, CommitFails, Rollback, StepFails, Crash, tables, vars
<1>19. WholeEntries'
  <2>1. CASE saved' = saved
    BY <1>0, <2>1 DEF WholeEntries
  <2>2. CASE Commit
    BY <2>2, CommitWhole DEF Commit, WholeEntries
  <2>3. CASE saved' = Blank
    BY <2>3 DEF Blank, NoBody, MimesOf, WholeEntries
  <2> QED BY <1>0, <1>18, <2>1, <2>2, <2>3
<1> QED BY <1>0, <1>17, <1>19, TypeStep DEF CallsInv

\* No entry is ever committed without its rows, nor rows without an entry,
\* wherever the calls fail or the process dies, as long as ids are fresh.
THEOREM EntriesStayWhole == ASSUME ~Upsert PROVE Spec => []WholeEntries
<1>1. Spec => []CallsInv
  BY CallsInit, CallsStep, PTL DEF Spec
<1>2. CallsInv => WholeEntries
  BY DEF CallsInv
<1> QED BY <1>1, <1>2, PTL

-----------------------------------------------------------------------------
(* Reference counts                                                          *)

RefsInv == CallsInv /\ RefsExact

\* There are finitely many rows.
LEMMA RowsFinite ==
    ASSUME NEW t, NEW d
    PROVE  /\ IsFiniteSet(Rows(t, d))
           /\ \A S : IsFiniteSet(Rows(t, d) \ S)
           /\ \A S : Cardinality(Rows(t, d) \ S) \in Nat
<1>1. IsFiniteSet(Ids \X Mimes)
  BY FS_Product, FiniteAssumption
<1>2. \A S : (Rows(t, d) \ S) \in SUBSET (Ids \X Mimes)
  BY DEF Rows
<1>3. \A S : IsFiniteSet(Rows(t, d) \ S)
  BY <1>1, <1>2, FS_Subset
<1>4. IsFiniteSet(Rows(t, d))
  BY <1>1, FS_Subset DEF Rows
<1> QED BY <1>3, <1>4, FS_CardinalityType

\* The rows that refer to a piece of data depend on the mime types only.
LEMMA RowsSame ==
    ASSUME NEW t, NEW u, NEW d, t.mime = u.mime
    PROVE  Rows(t, d) = Rows(u, d)
BY DEF Rows

\* The empty tables are exact.
LEMMA RefsBegin == Init => RefsInv
<1> SUFFICES ASSUME Init PROVE RefsInv
  OBVIOUS
<1>1. ASSUME NEW d \in Data PROVE Rows(Blank, d) = {}
  BY NullAssumption DEF Rows, Blank, NoBody
<1>2. Passed = {}
  BY DEF Init, Passed
<1>3. RefsExact
  BY <1>1, <1>2, FS_EmptySet DEF Init, RefsExact, Blank
<1> QED BY <1>3, CallsInit DEF RefsInv

\* The row of a new entry and the reference that is counted for it.
LEMMA RefsStoreMime ==
    ASSUME RefsInv, NEW m \in Mimes, StoreMime(m)
    PROVE  RefsExact'
<1> DEFINE e == body[m]
<1>1. /\ TypeInv /\ CallInv /\ SerializeInv /\ RefsExact
      /\ pc = "store" /\ m \in todo /\ saved' = saved /\ cur' = cur
  BY DEF RefsInv, CallsInv, ProgressInv, StoreMime, frame
<1>2. cur \in Ids /\ e \in Data /\ db \in Tables
  BY <1>1 DEF TypeInv, TypeOK, Iterates, MimesOf, Bodies
<1>3. CASE pc' = "rollback"
  BY <1>1, <1>3, RowsSame DEF RefsExact
<1>4. CASE pc' = pc /\ db' = [Counted(db, e) EXCEPT !.mime[cur][m] = e]
  <2>1. db.mime[cur][m] = Null
    BY <1>1 DEF SerializeInv, Serializing, CallInv
  <2>2. Passed = {} /\ Passed' = {}
    BY <1>1, <1>4 DEF Passed
  <2>3. /\ db'.refs = [db.refs EXCEPT ![e] = @ + 1]
        /\ db'.mime = [db.mime EXCEPT ![cur][m] = e]
    BY <1>2, <1>4 DEF Counted, Tables
  <2>4. Rows(db', e) = Rows(db, e) \cup {<<cur, m>>} /\ <<cur, m>> \notin Rows(db, e)
    BY <1>2, <2>1, <2>3, NullAssumption DEF Rows, Tables, Bodies
  <2>5. ASSUME NEW d \in Data \ {e} PROVE Rows(db', d) = Rows(db, d)
    BY <1>2, <2>1, <2>3, NullAssumption DEF Rows, Tables, Bodies
  <2>6. ASSUME NEW d \in Data PROVE db'.refs[d] = Cardinality(Rows(db', d))
    <3>1. db.refs[d] = Cardinality(Rows(db, d))
      BY <1>1, <2>2 DEF RefsExact
    <3>2. CASE d = e
      BY <1>2, <2>3, <2>4, <3>1, <3>2, RowsFinite, FS_AddElement DEF Tables
    <3>3. CASE d # e
      BY <1>2, <2>3, <2>5, <3>1, <3>3 DEF Tables
    <3> QED BY <3>2, <3>3
  <2> QED BY <1>1, <2>2, <2>6 DEF RefsExact
<1> QED BY <1>1, <1>3, <1>4 DEF StoreMime

\* The row of a victim that is passed and the reference that is given up, be the
\* row deleted or not.
LEMMA RefsPurgeRow ==
    ASSUME RefsInv, NEW m \in Mimes, PurgeRow(m)
    PROVE  RefsExact'
<1> DEFINE e == db.mime[cur][m]
<1>1. /\ TypeInv /\ RefsExact /\ pc = "purge" /\ m \in todo /\ saved' = saved
      /\ cur' = cur /\ todo' = todo \ {m} /\ DropRow(m)
  BY DEF RefsInv, CallsInv, PurgeRow, DropRow, frame
<1>2. cur \in Ids /\ e \in Data /\ db \in Tables /\ todo \in SUBSET Mimes
  BY <1>1 DEF TypeInv, TypeOK, Iterates, MimesOf, Tables, Bodies
<1>3. CASE pc' = "rollback"
  BY <1>1, <1>3 DEF RefsExact
<1>4. CASE pc' = pc
  <2>1. PICK t \in {WithoutRow(db, cur, m), db} : db' = Unref(t, e)
    BY <1>1 DEF DropRow, Unchecked
  <2>2. /\ t.refs = db.refs /\ t \in Tables
        /\ \A i \in Ids, k \in Mimes : <<i, k>> # <<cur, m>> => t.mime[i][k] = db.mime[i][k]
    <3>1. CASE t = db
      BY <1>2, <3>1
    <3>2. CASE t = [db EXCEPT !.mime[cur][m] = Null]
      <4>1. t.refs = db.refs /\ t.mime = [db.mime EXCEPT ![cur][m] = Null]
        BY <1>2, <3>2 DEF Tables
      <4>2. t \in Tables
        BY <1>1, <1>2, <3>2, MimeUpdate
      <4>3. m \in Mimes /\ db.mime \in [Ids -> Bodies]
        BY <1>2 DEF Tables
      <4> QED BY <1>2, <4>1, <4>2, <4>3 DEF Bodies
    <3> QED BY <2>1, <3>1, <3>2 DEF WithoutRow
  <2>3. /\ db'.refs = [db.refs EXCEPT ![e] = IF @ > 0 THEN @ - 1 ELSE 0]
        /\ db'.mime = t.mime
    BY <1>2, <2>1, <2>2 DEF Unref, Tables
  <2>4. Passed = {cur} \X (Mimes \ todo) /\ Passed' = Passed \cup {<<cur, m>>}
    BY <1>1, <1>2, <1>4 DEF Passed
  <2>5. ASSUME NEW d \in Data
        PROVE  Rows(db', d) \ Passed' = (Rows(db, d) \ Passed) \ {<<cur, m>>}
    BY <1>2, <2>2, <2>3, <2>4 DEF Rows
  <2>6. <<cur, m>> \in Rows(db, e) \ Passed
    BY <1>1, <1>2, <2>4 DEF Rows
  <2>7. ASSUME NEW d \in Data PROVE db'.refs[d] = Cardinality(Rows(db', d) \ Passed')
    <3> DEFINE R == Rows(db, d) \ Passed
    <3>1. db.refs[d] = Cardinality(R) /\ IsFiniteSet(R) /\ Cardinality(R) \in Nat
      BY <1>1, RowsFinite DEF RefsExact
    <3>2. Cardinality(R \ {<<cur, m>>}) =
              IF <<cur, m>> \in R THEN Cardinality(R) - 1 ELSE Cardinality(R)
      BY <3>1, FS_RemoveElement
    <3>3. CASE d = e
      <4>1. Cardinality(R) # 0
        BY <2>6, <3>1, <3>3, FS_EmptySet
      <4>2. db'.refs[d] = Cardinality(R) - 1
        BY <1>2, <2>3, <3>1, <3>3, <4>1 DEF Tables
      <4> QED BY <2>5, <2>6, <3>2, <3>3, <4>2
    <3>4. CASE d # e
      <4>1. <<cur, m>> \notin R
        BY <3>4 DEF Rows
      <4>2. db'.refs[d] = db.refs[d]
        BY <1>2, <2>3, <3>4 DEF Tables
      <4> QED BY <2>5, <3>1, <3>2, <4>1, <4>2
    <3> QED BY <3>3, <3>4
  <2> QED BY <1>1, <2>7 DEF RefsExact
<1>5. pc' \in {pc, "rollback"}
  BY <1>1, DropRowFrame
<1> QED BY <1>3, <1>4, <1>5

\* A step outside of a purge that changes no mime type row and no count.
LEMMA RefsFrame ==
    ASSUME RefsExact, Passed = {}, Passed' = {}, saved' = saved, pc # "rollback",
           db'.mime = db.mime, db'.refs = db.refs
    PROVE  RefsExact'
BY RowsSame DEF RefsExact

\* After a call that has ended the tables are exact if both were before.
LEMMA RefsEnd ==
    ASSUME RefsExact, pc' = "idle",
           saved' \in {saved, Blank} \/ (pc = "commit" /\ saved' = db),
           db' = saved' \/ (pc = "commit" /\ db' = db)
    PROVE  RefsExact'
<1>1. Passed' = {}
  BY DEF Passed
<1>2. ASSUME pc = "commit", NEW d \in Data PROVE db.refs[d] = Cardinality(Rows(db, d))
  BY <1>2 DEF RefsExact, Passed
<1>3. ASSUME NEW d \in Data PROVE Blank.refs[d] = Cardinality(Rows(Blank, d))
  <2>1. Rows(Blank, d) = {}
    BY NullAssumption DEF Rows, Blank, NoBody
  <2> QED BY <2>1, FS_EmptySet DEF Blank
<1>4. ASSUME NEW d \in Data PROVE saved'.refs[d] = Cardinality(Rows(saved', d))
  BY <1>2, <1>3, <1>4 DEF RefsExact
<1>5. ASSUME NEW d \in Data PROVE db'.refs[d] = Cardinality(Rows(db', d))
  BY <1>2, <1>4
<1> QED BY <1>1, <1>4, <1>5 DEF RefsExact

\* Every step of a database with fresh ids keeps the counts exact.
LEMMA RefsStep == ASSUME ~Upsert PROVE RefsInv /\ [Next]_vars => RefsInv'
<1> SUFFICES ASSUME RefsInv, [Next]_vars PROVE RefsExact'
  BY CallsStep DEF RefsInv
<1>0. TypeInv /\ CallInv /\ SerializeInv /\ TrimInv /\ WholeEntries /\ RefsExact
  BY DEF RefsInv, CallsInv, ProgressInv
<1>1. ASSUME NEW i \in Ids, NEW b \in Bodies, SerializeBegin(i, b) PROVE RefsExact'
  <2>1. PICK p \in 1..MaxPos : db' = [db EXCEPT !.pos[i] = p]
    BY <1>1 DEF SerializeBegin
  <2>2. db'.mime = db.mime /\ db'.refs = db.refs
    BY <1>0, <2>1 DEF TypeInv, TypeOK, Tables
  <2>3. Passed = {} /\ Passed' = {} /\ saved' = saved /\ pc # "rollback"
    BY <1>1 DEF SerializeBegin, Passed
  <2> QED BY <1>0, <2>2, <2>3, RefsFrame
<1>2. ASSUME NEW m \in Mimes, CleanupRow(m) PROVE RefsExact'
  <2>1. pc = "cleanup" /\ m \in MimesOf(db.mime[cur]) /\ Serializing
    BY <1>0, <1>2 DEF CleanupRow, TypeInv, Iterates, CallInv, Serializing
  <2> QED BY <1>0, <2>1 DEF SerializeInv, MimesOf
<1>3. ASSUME CleanupDone \/ StoreDone \/ TrimDone \/ \E l \in Labels : TrimBegin(l)
      PROVE  RefsExact'
  <2>1. /\ Passed = {} /\ Passed' = {} /\ saved' = saved /\ db' = db
        /\ pc # "rollback"
    BY <1>3 DEF CleanupDone, StoreDone, TrimDone, TrimBegin, Passed, tables
  <2> QED BY <1>0, <2>1, RefsFrame
<1>4. ASSUME NEW i \in Ids, NextVictim(i) PROVE RefsExact'
  <2>1. /\ db' = db /\ saved' = saved /\ pc = "victim" /\ Passed = {}
        /\ Passed' = {i} \X (Mimes \ MimesOf(db.mime[i]))
    BY <1>4 DEF NextVictim, tables, Passed
  <2>2. ASSUME NEW d \in Data PROVE Rows(db, d) \ Passed' = Rows(db, d) \ Passed
    BY <2>1, NullAssumption DEF Rows, MimesOf
  <2> QED BY <1>0, <2>1, <2>2, RowsSame DEF RefsExact
<1>5. ASSUME DeleteEntry, pc' = "victim" PROVE RefsExact'
  <2>1. /\ pc = "purge" /\ todo = {} /\ saved' = saved /\ MimesOf(db.mime[cur]) = {}
        /\ db' = [db EXCEPT !.pos[cur] = 0]
    BY <1>5 DEF DeleteEntry
  <2>2. db'.mime = db.mime /\ db'.refs = db.refs
    BY <1>0, <2>1 DEF TypeInv, TypeOK, Tables
  <2>3. Passed = {cur} \X Mimes /\ Passed' = {}
    BY <1>5, <2>1 DEF Passed
  <2>4. ASSUME NEW d \in Data PROVE Rows(db', d) \ Passed' = Rows(db, d) \ Passed
    BY <2>1, <2>2, <2>3, NullAssumption DEF Rows, MimesOf
  <2> QED BY <1>0, <2>1, <2>2, <2>4 DEF RefsExact
<1>6. ASSUME pc' = "rollback", saved' = saved PROVE RefsExact'
  BY <1>0, <1>6 DEF RefsExact
<1>7. ASSUME Commit \/ CommitFails \/ Rollback \/ Crash PROVE RefsExact'
  BY <1>0, <1>7, RefsEnd DEF Commit, CommitFails, Rollback, Crash, Return
<1>8. ASSUME UNCHANGED vars PROVE RefsExact'
  <2>1. Passed' = Passed /\ db' = db /\ saved' = saved /\ pc' = pc
    BY <1>8 DEF vars, Passed
  <2> QED BY <1>0, <2>1, RowsSame DEF RefsExact
<1>9. StepFails \/ (DeleteEntry /\ pc' # "victim") => pc' = "rollback" /\ saved' = saved
  BY DEF StepFails, DeleteEntry, tables
<1> QED
  BY <1>1, <1>2, <1>3, <1>4, <1>5, <1>6, <1>7, <1>8, <1>9, RefsStoreMime, RefsPurgeRow
     DEF Next, Serialize, Trim

\* Every Ref_count is the number of the rows, for any set of entries, mime types
\* and data, wherever the calls fail or the process dies, as long as ids are
\* fresh.
THEOREM RefsStayExact == ASSUME ~Upsert PROVE Spec => []RefsExact
<1>1. Spec => []RefsInv
  BY RefsBegin, RefsStep, PTL DEF Spec
<1>2. RefsInv => RefsExact
  BY DEF RefsInv
<1> QED BY <1>1, <1>2, PTL

-----------------------------------------------------------------------------
(* Data files                                                                *)

\* What was stored of the new entry has its files.
FilesInv == Serializing =>
    \A m \in Mimes : db.mime[cur][m] # Null => db.mime[cur][m] \in files

LoadInv == RefsInv /\ NewestLoadable /\ FilesInv

\* There are finitely many newer entries, and an entry has no more of them in a
\* part of the table.
LEMMA NewerFinite ==
    ASSUME NEW t, NEW u, NEW i, Newer(t, i) \subseteq Newer(u, i)
    PROVE  /\ Cardinality(Newer(t, i)) \in Nat /\ Cardinality(Newer(u, i)) \in Nat
           /\ Cardinality(Newer(t, i)) <= Cardinality(Newer(u, i))
<1>1. IsFiniteSet(Newer(u, i))
  BY FS_Subset, FiniteAssumption DEF Newer, Entries
<1> QED BY <1>1, FS_Subset, FS_CardinalityType

\* No trim selects an entry that is kept.
LEMMA KeptIsNoVictim ==
    ASSUME NEW t, NEW i, Kept(t, i), NEW l \in Labels
    PROVE  i \notin Victims(t, LimitOf[l])
<1>1. Cardinality(Newer(t, i)) \in Nat /\ LimitOf[l] \in Nat
  BY NewerFinite, LabelAssumption
<1> QED BY <1>1 DEF Kept, Victims

\* Unlinking the file of a row of a victim, when its count is 1, takes no file of
\* an entry that is kept.
LEMMA UnlinkSparesKept ==
    ASSUME RefsInv, pc = "purge", NEW m \in todo, db.refs[db.mime[cur][m]] = 1,
           NEW i \in Entries(saved), Kept(saved, i), NEW k \in MimesOf(saved.mime[i])
    PROVE  saved.mime[i][k] # db.mime[cur][m]
<1> DEFINE d == db.mime[cur][m]
<1>1. TypeInv /\ CallInv /\ TrimInv /\ RefsExact
  BY DEF RefsInv, CallsInv, ProgressInv
<1>2. Trimming /\ owner \in Labels /\ cur \in Victims(saved, LimitOf[owner])
  BY <1>1 DEF CallInv, TrimInv, Trimming
<1>3. i \notin Victims(saved, LimitOf[owner])
  BY <1>2, KeptIsNoVictim
<1>4. i \in Ids /\ cur \in Ids /\ i # cur /\ k \in Mimes /\ m \in Mimes /\ d \in Data
  BY <1>1, <1>2, <1>3 DEF Entries, MimesOf, TypeInv, TypeOK, Iterates, Tables, Bodies
<1>5. db.mime[i] = saved.mime[i]
  BY <1>1, <1>2, <1>3, <1>4 DEF TrimInv, Gone, Purged
<1>6. SUFFICES ASSUME saved.mime[i][k] = d PROVE FALSE
  OBVIOUS
<1>7. <<i, k>> \in Rows(db, d) \ Passed /\ <<cur, m>> \in Rows(db, d) \ Passed
  BY <1>4, <1>5, <1>6 DEF Rows, Passed
<1>8. Cardinality(Rows(db, d) \ Passed) = 1
  BY <1>1, <1>4 DEF RefsExact
<1>9. PICK r : Rows(db, d) \ Passed = {r}
  BY <1>8, RowsFinite, FS_Singleton
<1> QED BY <1>4, <1>7, <1>9

\* A purge takes no file of an entry that is kept.
LEMMA LoadPurgeRow ==
    ASSUME LoadInv, NEW m \in Mimes, PurgeRow(m)
    PROVE  NewestLoadable'
<1> DEFINE d == db.mime[cur][m]
<1>1. pc = "purge" /\ m \in todo /\ saved' = saved /\ RefsInv /\ NewestLoadable
  BY DEF PurgeRow, DropRow, LoadInv
<1>2. files' = files \/ (db.refs[d] = 1 /\ files' \in {files, files \ {d}})
  <2>1. PICK t \in Unchecked(WithoutRow(db, cur, m), db) :
          (t.refs[d] # 1 /\ files' = files) \/ (t.refs[d] = 1 /\ files' \in {files, files \ {d}})
    BY DEF PurgeRow, DropRow, Unchecked
  <2>2. t.refs = db.refs
    BY <2>1 DEF Unchecked, WithoutRow, LoadInv, RefsInv, CallsInv, TypeInv, TypeOK, Tables
  <2> QED BY <2>1, <2>2
<1>3. SUFFICES ASSUME NEW i \in Entries(saved), Kept(saved, i) PROVE Loadable(saved, i)'
  BY <1>1 DEF NewestLoadable, Entries, Kept, Newer
<1>4. Loadable(saved, i)
  BY <1>1, <1>3 DEF NewestLoadable
<1>5. ASSUME NEW k \in MimesOf(saved.mime[i]) PROVE ~InMemory /\ saved.mime[i][k] \in files'
  BY <1>1, <1>2, <1>3, <1>4, UnlinkSparesKept DEF Loadable
<1> QED BY <1>1, <1>5 DEF Loadable, MimesOf

\* The tables that a call of serialize_entry commits: the new entry has its files,
\* and an older one that is kept was kept before.
LEMMA LoadSerialized ==
    ASSUME LoadInv, ~InMemory, pc = "commit", op = "serialize",
           NEW i \in Entries(db), Kept(db, i)
    PROVE  Loadable(db, i)
<1>1. /\ TypeInv /\ SerializeInv /\ Serializing /\ NewestLoadable /\ FilesInv
      /\ i \in Ids
  BY DEF LoadInv, RefsInv, CallsInv, ProgressInv, Serializing, Entries
<1>2. CASE i = cur
  BY <1>1, <1>2 DEF FilesInv, Loadable, MimesOf
<1>3. CASE i # cur
  <2>1. PICK p \in 1..MaxPos : /\ \A j \in Ids : saved.pos[j] < p
                              /\ db.pos = [saved.pos EXCEPT ![cur] = p]
    BY <1>1 DEF SerializeInv
  <2>2. /\ \A j \in Ids \ {cur} : db.pos[j] = saved.pos[j]
        /\ saved.pos[cur] = 0 /\ saved.pos \in [Ids -> Nat]
    BY <1>1, <2>1 DEF SerializeInv, TypeInv, TypeOK, Tables
  <2>3. i \in Entries(saved) /\ Newer(saved, i) \subseteq Newer(db, i)
    BY <1>1, <1>3, <2>2 DEF Entries, Newer
  <2>4. Kept(saved, i)
    BY <2>3, NewerFinite, LabelAssumption DEF Kept
  <2> QED BY <1>1, <1>3, <2>3, <2>4 DEF NewestLoadable, Loadable, SerializeInv
<1> QED BY <1>2, <1>3

\* The tables that a call of trim_entries commits: what is left of the entries was
\* newer than every victim, so that the entries that are newer are the same.
LEMMA LoadTrimmed ==
    ASSUME LoadInv, pc = "commit", op = "trim", NEW i \in Entries(db), Kept(db, i)
    PROVE  Loadable(db, i)
<1> DEFINE n == LimitOf[owner]
<1>1. /\ TypeInv /\ TrimInv /\ Trimming /\ NewestLoadable /\ i \in Ids
  BY DEF LoadInv, RefsInv, CallsInv, ProgressInv, Trimming, Entries
<1>2. /\ owner \in Labels /\ Gone = Victims(saved, n) /\ n \in Nat
      /\ saved.pos \in [Ids -> Nat]
  BY <1>1, LabelAssumption DEF TrimInv, Gone, Purged, TypeInv, TypeOK, Tables
<1>3. \A j \in Ids : db.pos[j] = (IF j \in Victims(saved, n) THEN 0 ELSE saved.pos[j])
  BY <1>1, <1>2 DEF TrimInv
<1>4. i \in Entries(saved) /\ i \notin Victims(saved, n) /\ db.mime[i] = saved.mime[i]
  BY <1>1, <1>2, <1>3 DEF Entries, TrimInv, Purged
<1>5. ASSUME NEW j \in Newer(saved, i) PROVE j \in Newer(db, i)
  <2>1. j \in Ids /\ Newer(saved, j) \subseteq Newer(saved, i)
    BY <1>1, <1>2 DEF Newer, Entries
  <2>2. /\ Cardinality(Newer(saved, j)) <= Cardinality(Newer(saved, i))
        /\ Cardinality(Newer(saved, j)) \in Nat /\ Cardinality(Newer(saved, i)) \in Nat
    <3>1. IsFiniteSet(Newer(saved, i))
      BY FS_Subset, FiniteAssumption DEF Newer, Entries
    <3> QED BY <2>1, <3>1, FS_Subset, FS_CardinalityType
  <2>3. j \notin Victims(saved, n)
    BY <1>2, <1>4, <2>2 DEF Victims
  <2> QED BY <1>3, <1>4, <1>5, <2>1, <2>3 DEF Newer, Entries
<1>6. Kept(saved, i)
  BY <1>5, NewerFinite, LabelAssumption DEF Kept
<1> QED BY <1>1, <1>4, <1>6 DEF NewestLoadable, Loadable

\* A row of the new entry is stored after its file.
LEMMA FilesStoreMime ==
    ASSUME LoadInv, NEW m \in Mimes, StoreMime(m)
    PROVE  FilesInv'
<1>1. /\ pc = "store" /\ Serializing /\ cur \in Ids /\ cur' = cur /\ FilesInv
      /\ files' = files \cup {body[m]} /\ db \in Tables /\ body[m] \in Data /\ op' = op
  BY DEF StoreMime, LoadInv, RefsInv, CallsInv, ProgressInv, CallInv, Serializing, TypeInv,
         TypeOK, Iterates, frame, Bodies, MimesOf
<1>2. CASE pc' = "rollback"
  BY <1>2 DEF FilesInv, Serializing
<1>3. CASE db' = [Counted(db, body[m]) EXCEPT !.mime[cur][m] = body[m]]
  <2>1. \A k \in Mimes : db'.mime[cur][k] = IF k = m THEN body[m] ELSE db.mime[cur][k]
    BY <1>1, <1>3 DEF Counted, Tables, Bodies
  <2> QED BY <1>1, <2>1 DEF FilesInv
<1> QED BY <1>2, <1>3 DEF StoreMime

\* Every step of a database on disk with fresh ids keeps the files that are needed.
LEMMA LoadStep == ASSUME ~Upsert, ~InMemory PROVE LoadInv /\ [Next]_vars => LoadInv'
<1> SUFFICES ASSUME LoadInv, [Next]_vars PROVE NewestLoadable' /\ FilesInv'
  BY RefsStep DEF LoadInv
<1>0. TypeInv /\ CallInv /\ SerializeInv /\ NewestLoadable /\ FilesInv
  BY DEF LoadInv, RefsInv, CallsInv, ProgressInv
<1>1. ASSUME saved' = saved, files \subseteq files' PROVE NewestLoadable'
  BY <1>0, <1>1 DEF NewestLoadable, Entries, Kept, Newer, Loadable, MimesOf
<1>2. ASSUME NEW i \in Ids, NEW b \in Bodies, SerializeBegin(i, b)
      PROVE  NewestLoadable' /\ FilesInv'
  <2>1. SerializeInv' /\ pc' = "cleanup" /\ saved' = saved /\ files' = files
    BY <1>2, CallsSerializeBegin DEF LoadInv, RefsInv, ProgressInv, SerializeBegin
  <2> QED BY <1>1, <2>1 DEF FilesInv, SerializeInv
<1>3. ASSUME NEW m \in Mimes, CleanupRow(m) PROVE FALSE
  <2>1. pc = "cleanup" /\ m \in MimesOf(db.mime[cur]) /\ Serializing
    BY <1>0, <1>3 DEF CleanupRow, TypeInv, Iterates, CallInv, Serializing
  <2> QED BY <1>0, <2>1 DEF SerializeInv, MimesOf
<1>4. ASSUME NEW m \in Mimes, StoreMime(m) PROVE NewestLoadable' /\ FilesInv'
  BY <1>1, <1>4, FilesStoreMime DEF StoreMime
<1>5. ASSUME CleanupDone \/ StoreDone PROVE NewestLoadable' /\ FilesInv'
  <2>1. /\ Serializing /\ saved' = saved /\ files' = files /\ db' = db /\ cur' = cur
    BY <1>0, <1>5 DEF CleanupDone, StoreDone, CallInv, Serializing, tables, frame
  <2> QED BY <1>0, <1>1, <2>1 DEF FilesInv
<1>6. ASSUME NEW m \in Mimes, PurgeRow(m) PROVE NewestLoadable' /\ FilesInv'
  <2>1. ~Serializing'
    BY <1>0, <1>6 DEF PurgeRow, DropRow, frame, CallInv, Serializing
  <2> QED BY <1>6, <2>1, LoadPurgeRow DEF FilesInv
<1>7. ASSUME \/ \E l \in Labels : TrimBegin(l)
             \/ \E i \in Ids : NextVictim(i)
             \/ DeleteEntry \/ TrimDone \/ CommitFails \/ Rollback \/ StepFails
      PROVE  NewestLoadable' /\ FilesInv'
  <2>1. saved' = saved /\ files' = files /\ ~Serializing'
    BY <1>0, <1>7 DEF TrimBegin, NextVictim, DeleteEntry, TrimDone, CommitFails, Rollback,
                      StepFails, Return, CallInv, Serializing, tables, frame
  <2> QED BY <1>1, <2>1 DEF FilesInv
<1>8. ASSUME Crash PROVE NewestLoadable' /\ FilesInv'
  <2>1. saved' = saved /\ files' = files /\ ~Serializing'
    BY <1>8 DEF Crash, Return, Serializing
  <2> QED BY <1>1, <2>1 DEF FilesInv
<1>9. ASSUME Commit PROVE NewestLoadable' /\ FilesInv'
  <2>1. saved' = db /\ files' = files /\ ~Serializing' /\ pc = "commit"
    BY <1>9 DEF Commit, Return, Serializing
  <2>2. op \in {"serialize", "trim"}
    BY <1>0, <2>1 DEF CallInv
  <2>3. ASSUME NEW i \in Entries(db), Kept(db, i) PROVE Loadable(db, i)
    BY <2>1, <2>2, <2>3, LoadSerialized, LoadTrimmed
  <2> QED BY <2>1, <2>3 DEF FilesInv, NewestLoadable, Entries, Kept, Newer, Loadable, MimesOf
<1>10. ASSUME UNCHANGED vars PROVE NewestLoadable' /\ FilesInv'
  <2>1. saved' = saved /\ files' = files /\ Serializing' = Serializing /\ db' = db /\ cur' = cur
    BY <1>10 DEF vars, Serializing
  <2> QED BY <1>0, <1>1, <2>1 DEF FilesInv
<1> QED
  BY <1>2, <1>3, <1>4, <1>5, <1>6, <1>7, <1>8, <1>9, <1>10 DEF Next, Serialize, Trim

\* An entry that no trim may select can be loaded at every moment, for any number of
\* entries, clipboards and limits, whichever calls fail and whenever the process
\* dies: the files that a transaction unlinks before it is committed are never
\* those of an entry that has to stay.
THEOREM NewestStayLoadable ==
    ASSUME ~Upsert, ~InMemory PROVE Spec => []NewestLoadable
<1>1. Init => LoadInv
  <2>1. Init => NewestLoadable /\ FilesInv
    BY DEF Init, NewestLoadable, FilesInv, Entries, Blank, Serializing
  <2> QED BY <2>1, RefsBegin DEF LoadInv
<1>2. Spec => []LoadInv
  BY <1>1, LoadStep, PTL DEF Spec
<1>3. LoadInv => NewestLoadable
  BY DEF LoadInv
<1> QED BY <1>2, <1>3, PTL

-----------------------------------------------------------------------------
(* The abstract history                                                      *)

\* Committing a new entry records it.
LEMMA CommitRecords ==
    ASSUME CallsInv, Commit, op = "serialize"
    PROVE  Abstract!Record(cur, body)
<1>1. /\ Serializing /\ SerializeInv /\ pc = "commit" /\ saved' = db /\ body \in Bodies
      /\ db \in Tables /\ saved \in Tables
  BY DEF Commit, CallsInv, ProgressInv, Serializing, TypeInv, TypeOK
<1>2. cur \in Ids /\ saved.pos[cur] = 0 /\ body # NoBody
  BY <1>1 DEF SerializeInv, MimesOf, NoBody
<1>3. \E p \in 1..MaxPos : /\ \A j \in Ids : saved.pos[j] < p
                           /\ saved'.pos = [saved.pos EXCEPT ![cur] = p]
  BY <1>1 DEF SerializeInv
<1>4. saved'.mime = [saved.mime EXCEPT ![cur] = body]
  <2>1. db.mime[cur] = body
    BY <1>1, <1>2 DEF SerializeInv, Tables, Bodies
  <2>2. db.mime \in [Ids -> Bodies] /\ saved.mime \in [Ids -> Bodies]
    BY <1>1 DEF Tables
  <2> QED BY <1>1, <1>2, <2>1, <2>2 DEF SerializeInv
<1>5. cur \notin Abstract!Recorded /\ body # Abstract!NoMimes
  BY <1>2 DEF Abstract!Recorded, Abstract!NoMimes, NoBody
<1> QED BY <1>3, <1>4, <1>5 DEF Abstract!Record

\* Committing a trim keeps the newest n + 1 entries as they are and drops the others.
LEMMA CommitDropsOldest ==
    ASSUME CallsInv, Commit, op = "trim"
    PROVE  Abstract!DropOldest(LimitOf[owner])
<1> DEFINE n    == LimitOf[owner]
           kept == Entries(saved) \ Victims(saved, n)
<1>1. /\ Trimming /\ TrimInv /\ pc = "commit" /\ saved' = db /\ WholeEntries
      /\ db \in Tables /\ saved \in Tables
  BY DEF Commit, CallsInv, ProgressInv, Trimming, TypeInv, TypeOK
<1>2. n \in Nat /\ Gone = Victims(saved, n) /\ Purged = {}
  BY <1>1, LabelAssumption DEF TrimInv, Gone, Purged
<1>3. /\ Abstract!Recorded = Entries(saved)
      /\ \A i : Abstract!NewerThan(i) = Newer(saved, i) /\ Cardinality(Newer(saved, i)) \in Nat
  <2>1. Abstract!Recorded = Entries(saved)
    BY DEF Abstract!Recorded, Entries
  <2>2. \A i : Abstract!NewerThan(i) = Newer(saved, i)
    BY <2>1 DEF Abstract!NewerThan, Newer
  <2> QED BY <2>1, <2>2, NewerFinite
<1>4. ASSUME NEW i \in Ids
      PROVE  /\ db.pos[i] = (IF i \in kept THEN saved.pos[i] ELSE 0)
             /\ db.mime[i] = (IF i \in kept THEN saved.mime[i] ELSE NoBody)
  <2>1. CASE i \in kept
    BY <1>1, <1>2, <2>1 DEF TrimInv
  <2>2. CASE i \in Victims(saved, n)
    BY <1>1, <1>2, <2>2 DEF TrimInv
  <2>3. CASE i \notin Entries(saved)
    <3>1. saved.pos[i] = 0 /\ saved.mime[i] = NoBody
      BY <1>1, <2>3 DEF Entries, WholeEntries, MimesOf, NoBody, Tables, Bodies
    <3> QED BY <1>1, <1>2, <2>3, <3>1 DEF TrimInv, Victims
  <2> QED BY <2>1, <2>2, <2>3
<1>5. db.pos = [i \in Ids |-> IF i \in kept THEN saved.pos[i] ELSE 0]
  BY <1>1, <1>4 DEF Tables
<1>6. db.mime = [i \in Ids |-> IF i \in kept THEN saved.mime[i] ELSE NoBody]
  BY <1>1, <1>4 DEF Tables
<1>7. /\ saved'.pos = [i \in Ids |-> IF i \in kept THEN saved.pos[i] ELSE 0]
      /\ saved'.mime = [i \in Ids |-> IF i \in kept THEN saved.mime[i] ELSE Abstract!NoMimes]
  BY <1>1, <1>5, <1>6 DEF Abstract!NoMimes, NoBody
\* History extends FiniteSets by itself, and so has a Cardinality of its own.
<1>8. \A S : Abstract!Cardinality(S) = Cardinality(S)
  BY DEF Abstract!Cardinality, Cardinality
<1>9. ASSUME NEW i \in kept PROVE Newer(saved, i) \subseteq kept
  <2>1. SUFFICES ASSUME NEW j \in Newer(saved, i) PROVE j \in kept
    OBVIOUS
  <2>2. j \in Entries(saved) /\ Newer(saved, j) \subseteq Newer(saved, i)
    BY <1>1, <2>1 DEF Newer, Entries, Tables
  <2>3. Cardinality(Newer(saved, j)) <= Cardinality(Newer(saved, i))
    <3>1. IsFiniteSet(Newer(saved, i))
      BY FS_Subset, FiniteAssumption DEF Newer, Entries
    <3> QED BY <2>2, <3>1, FS_Subset
  <2>4. Cardinality(Newer(saved, i)) <= n
    BY <1>2, <1>3 DEF Victims
  <2> QED BY <1>2, <1>3, <2>2, <2>3, <2>4 DEF Victims
<1>10. \A i \in Entries(saved) : Cardinality(Newer(saved, i)) < n => i \in kept
  BY <1>2, <1>3 DEF Victims
<1> HIDE DEF kept
<1>11. kept \in SUBSET Abstract!Recorded
  BY <1>3 DEF kept
<1>12. /\ \A i \in kept : Abstract!NewerThan(i) \subseteq kept
       /\ \A i \in Abstract!Recorded : Abstract!Cardinality(Abstract!NewerThan(i)) < n => i \in kept
  BY <1>3, <1>8, <1>9, <1>10
<1> QED BY <1>7, <1>11, <1>12 DEF Abstract!DropOldest

\* Every step of a database with fresh ids records an entry, keeps the newest ones,
\* forgets a history in memory, or leaves what is committed as it is.
LEMMA HistoryStep ==
    ASSUME CallsInv, [Next]_vars PROVE [Abstract!HNext]_(Abstract!hvars)
<1>1. CASE saved' = saved
  BY <1>1 DEF Abstract!hvars
<1>2. CASE Commit
  <2>1. op \in {"serialize", "trim"} /\ body \in Bodies
    BY <1>2 DEF Commit, CallsInv, ProgressInv, CallInv, TypeInv, TypeOK
  <2>2. CASE op = "serialize"
    <3>1. cur \in Ids
      BY <1>2, <2>2 DEF Commit, CallsInv, ProgressInv, SerializeInv, Serializing
    <3> QED BY <1>2, <2>1, <2>2, <3>1, CommitRecords DEF Abstract!HNext, Bodies
  <2>3. CASE op = "trim"
    <3>1. owner \in Labels
      BY <1>2, <2>3 DEF Commit, CallsInv, ProgressInv, TrimInv, Trimming
    <3> QED BY <1>2, <2>3, <3>1, CommitDropsOldest DEF Abstract!HNext
  <2> QED BY <2>1, <2>2, <2>3
<1>3. CASE InMemory /\ saved' = Blank
  BY <1>3 DEF Abstract!HNext, Abstract!Forget, Abstract!NoMimes, Blank, NoBody
<1>4. saved' = saved \/ Commit \/ (InMemory /\ saved' = Blank)
  BY DEF Next, Serialize, Trim, SerializeBegin, CleanupRow, PurgeRow, DropRow, StoreMime,
         CleanupDone, StoreDone, TrimBegin, NextVictim, DeleteEntry, TrimDone, CommitFails,
         Rollback, StepFails, Crash, tables, vars
<1> QED BY <1>1, <1>2, <1>3, <1>4

\* What is committed implements the abstract History for every set of entries,
\* clipboards and limits: the transactions, the failures of statements and files,
\* rollbacks and crashes do not show through.
THEOREM ImplementsHistory == ASSUME ~Upsert PROVE Spec => AtomicHistory
<1>1. Init => Abstract!HInit
  BY DEF Init, Blank, NoBody, Abstract!HInit, Abstract!NoMimes
<1>2. Spec => []CallsInv
  BY CallsInit, CallsStep, PTL DEF Spec
<1>3. CallsInv /\ [Next]_vars => [Abstract!HNext]_(Abstract!hvars)
  BY HistoryStep
<1> QED BY <1>1, <1>2, <1>3, PTL DEF Spec, AtomicHistory, Abstract!HSpec

-----------------------------------------------------------------------------
(* Counts and files when nothing fails, for entries that are serialised again  *)
(* with other mime types and data too.                                         *)

\* The tables of the connection are covered at every step, no call has to give up,
\* and the files are those of the Data table.
CoverInv ==
    /\ TypeInv
    /\ \A d \in Data : db.refs[d] >= Cardinality(Rows(db, d))
    /\ files = {d \in Data : db.refs[d] > 0}
    /\ pc # "rollback"
    /\ pc = "purge" => todo = MimesOf(db.mime[cur])
    /\ pc = "idle" => db = saved
    /\ RefsCover

\* A row is deleted, its data is unreferenced, and at zero there is no other row of
\* it, so that the file can go.
LEMMA CoverDropRow ==
    ASSUME ~Faults, CoverInv, pc \in {"cleanup", "purge"}, NEW m \in todo, DropRow(m)
    PROVE  CoverInv'
<1> DEFINE e == db.mime[cur][m]
           t == WithoutRow(db, cur, m)
<1>1. /\ cur \in Ids /\ m \in Mimes /\ e \in Data /\ db \in Tables /\ TypeInv'
      /\ todo \in SUBSET Mimes
  BY TypeDropRow DEF CoverInv, TypeInv, TypeOK, Iterates, MimesOf, Tables, Bodies
<1>2. /\ db' = Unref(t, e) /\ todo' = todo \ {m} /\ cur' = cur /\ saved' = saved
      /\ \/ t.refs[e] # 1 /\ files' = files /\ pc' = pc
         \/ /\ t.refs[e] = 1 /\ files' = files \ {e}
            /\ pc' = pc \/ Rows(t, e) # {}
  BY DEF DropRow, Unchecked, frame
<1>3. t.refs = db.refs /\ t.mime = [db.mime EXCEPT ![cur][m] = Null] /\ t \in Tables
  BY <1>1, MimeUpdate DEF WithoutRow, Tables
<1>4. db'.refs = [db.refs EXCEPT ![e] = IF @ > 0 THEN @ - 1 ELSE 0] /\ db'.mime = t.mime
  BY <1>1, <1>2, <1>3 DEF Unref, Tables
<1>5. ASSUME NEW d \in Data PROVE Rows(db', d) = Rows(db, d) \ {<<cur, m>>}
  BY <1>1, <1>3, <1>4, NullAssumption DEF Rows, Tables, Bodies
<1>6. <<cur, m>> \in Rows(db, e)
  BY <1>1 DEF Rows
<1>7. ASSUME NEW d \in Data
      PROVE  /\ db'.refs[d] >= Cardinality(Rows(db', d))
             /\ d # e => db'.refs[d] = db.refs[d]
             /\ d = e => db.refs[d] > 0 /\ db'.refs[d] = db.refs[d] - 1
  <2> DEFINE R == Rows(db, d)
  <2>1. db.refs[d] >= Cardinality(R) /\ IsFiniteSet(R) /\ Cardinality(R) \in Nat
    BY RowsFinite, FS_CardinalityType DEF CoverInv
  <2>2. Cardinality(R \ {<<cur, m>>}) =
            IF <<cur, m>> \in R THEN Cardinality(R) - 1 ELSE Cardinality(R)
    BY <2>1, FS_RemoveElement
  <2>3. CASE d = e
    <3>1. Cardinality(R) # 0
      BY <1>6, <2>1, <2>3, FS_EmptySet
    <3>2. db.refs[d] \in Nat /\ db.refs[d] > 0
      BY <1>1, <2>1, <3>1 DEF Tables
    <3>3. db'.refs[d] = db.refs[d] - 1
      BY <1>1, <1>3, <1>4, <2>3, <3>2 DEF Tables
    <3>4. Cardinality(Rows(db', d)) = Cardinality(R) - 1
      BY <1>5, <1>6, <2>2, <2>3
    <3> QED BY <2>1, <2>3, <3>2, <3>3, <3>4
  <2>4. CASE d # e
    <3>1. <<cur, m>> \notin R
      BY <2>4 DEF Rows
    <3> QED BY <1>1, <1>4, <1>5, <2>1, <2>2, <2>4, <3>1 DEF Tables
  <2> QED BY <2>3, <2>4
<1>8. t.refs[e] = 1 => Rows(t, e) = {}
  <2> SUFFICES ASSUME t.refs[e] = 1 PROVE Rows(t, e) = {}
    OBVIOUS
  <2>1. Rows(t, e) = Rows(db', e)
    BY <1>4, RowsSame
  <2>2. 0 >= Cardinality(Rows(db', e))
    BY <1>1, <1>3, <1>7
  <2> QED BY <2>1, <2>2, RowsFinite, FS_EmptySet, FS_CardinalityType
<1>9. pc' = pc /\ files' = {d \in Data : db'.refs[d] > 0}
  <2>1. \A d \in Data : db.refs[d] \in Nat
    BY <1>1 DEF Tables
  <2>2. CASE t.refs[e] = 1
    BY <1>1, <1>2, <1>3, <1>7, <1>8, <2>1, <2>2 DEF CoverInv
  <2>3. CASE t.refs[e] # 1
    BY <1>1, <1>2, <1>3, <1>7, <2>1, <2>3 DEF CoverInv
  <2> QED BY <2>2, <2>3
<1>10. pc = "purge" => todo' = MimesOf(db'.mime[cur'])
  BY <1>1, <1>2, <1>3, <1>4 DEF CoverInv, MimesOf, Tables, Bodies
<1>11. RefsCover'
  BY <1>2 DEF CoverInv, RefsCover
<1> QED BY <1>1, <1>7, <1>9, <1>10, <1>11 DEF CoverInv

\* A row is stored, in place of one of other data perhaps.
LEMMA CoverStoreMime ==
    ASSUME ~Faults, CoverInv, TypeInv', NEW m \in Mimes, StoreMime(m)
    PROVE  CoverInv'
<1> DEFINE e == body[m]
<1>1. /\ cur \in Ids /\ e \in Data /\ db \in Tables
      /\ db' = [Counted(db, e) EXCEPT !.mime[cur][m] = e]
      /\ files' = files \cup {e} /\ pc' = "store" /\ saved' = saved
  BY DEF StoreMime, CoverInv, TypeInv, TypeOK, Iterates, MimesOf, Bodies
<1>2. /\ db'.refs = [db.refs EXCEPT ![e] = @ + 1]
      /\ db'.mime = [db.mime EXCEPT ![cur][m] = e]
  BY <1>1 DEF Counted, Tables
<1>3. ASSUME NEW d \in Data
      PROVE  /\ db'.refs[d] >= Cardinality(Rows(db', d))
             /\ db'.refs[d] > 0 <=> d \in files'
  <2>1. /\ db.refs[d] >= Cardinality(Rows(db, d)) /\ db.refs[d] \in Nat
        /\ IsFiniteSet(Rows(db, d)) /\ IsFiniteSet(Rows(db', d))
        /\ Cardinality(Rows(db, d)) \in Nat /\ Cardinality(Rows(db', d)) \in Nat
    BY <1>1, RowsFinite, FS_CardinalityType DEF CoverInv, Tables
  <2>2. CASE d = e
    <3>1. Rows(db', d) \subseteq Rows(db, d) \cup {<<cur, m>>}
      BY <1>1, <1>2 DEF Rows, Tables, Bodies
    <3>2. /\ IsFiniteSet(Rows(db, d) \cup {<<cur, m>>})
          /\ Cardinality(Rows(db, d) \cup {<<cur, m>>}) <= Cardinality(Rows(db, d)) + 1
          /\ Cardinality(Rows(db, d) \cup {<<cur, m>>}) \in Nat
      <4>1. Cardinality(Rows(db, d) \cup {<<cur, m>>})
                \in {Cardinality(Rows(db, d)), Cardinality(Rows(db, d)) + 1}
        BY <2>1, FS_AddElement
      <4>2. IsFiniteSet(Rows(db, d) \cup {<<cur, m>>})
        BY <2>1, FS_AddElement
      <4> QED BY <2>1, <4>1, <4>2
    <3>3. Cardinality(Rows(db', d)) <= Cardinality(Rows(db, d) \cup {<<cur, m>>})
      BY <3>1, <3>2, FS_Subset
    <3>4. db'.refs[d] = db.refs[d] + 1
      BY <1>1, <1>2, <2>2 DEF Tables
    <3> QED BY <1>1, <2>1, <2>2, <3>2, <3>3, <3>4
  <2>3. CASE d # e
    <3>1. Rows(db', d) \subseteq Rows(db, d)
      BY <1>1, <1>2, <2>3 DEF Rows, Tables, Bodies
    <3>2. Cardinality(Rows(db', d)) <= Cardinality(Rows(db, d))
      BY <2>1, <3>1, FS_Subset
    <3>3. db'.refs[d] = db.refs[d]
      BY <1>1, <1>2, <2>3 DEF Tables
    <3> QED BY <1>1, <2>1, <2>3, <3>2, <3>3 DEF CoverInv
  <2> QED BY <2>2, <2>3
<1>4. files' = {d \in Data : db'.refs[d] > 0}
  BY <1>1, <1>3 DEF CoverInv
<1>5. RefsCover'
  BY <1>1 DEF CoverInv, RefsCover
<1> QED BY <1>1, <1>3, <1>4, <1>5 DEF CoverInv

\* A step that changes neither the rows nor the counts nor the files.
LEMMA CoverFrame ==
    ASSUME CoverInv, TypeInv', db'.mime = db.mime, db'.refs = db.refs,
           files' = files, pc' # "rollback", saved' \in {saved, db},
           pc' = "purge" => todo' = MimesOf(db'.mime[cur']),
           pc' = "idle" => db' = saved'
    PROVE  CoverInv'
<1>1. \A d \in Data : Rows(db', d) = Rows(db, d)
  BY RowsSame
<1> QED BY <1>1 DEF CoverInv, RefsCover

\* Every step without a fault keeps the counts and the files.
LEMMA CoverStep == ASSUME ~Faults PROVE CoverInv /\ [Next]_vars => CoverInv'
<1> SUFFICES ASSUME CoverInv, [Next]_vars PROVE CoverInv'
  OBVIOUS
<1>0. TypeInv /\ TypeInv' /\ db \in Tables
  BY TypeStep DEF CoverInv, TypeInv, TypeOK
<1>1. ASSUME NEW i \in Ids, NEW b \in Bodies, SerializeBegin(i, b) PROVE CoverInv'
  <2>1. /\ db'.mime = db.mime /\ db'.refs = db.refs /\ files' = files /\ saved' = saved
        /\ pc' = "cleanup"
    BY <1>0, <1>1 DEF SerializeBegin, Tables
  <2> QED BY <1>0, <2>1, CoverFrame
<1>2. ASSUME NEW m \in Mimes, CleanupRow(m) \/ PurgeRow(m) PROVE CoverInv'
  BY <1>2, CoverDropRow DEF CleanupRow, PurgeRow
<1>3. ASSUME NEW m \in Mimes, StoreMime(m) PROVE CoverInv'
  BY <1>0, <1>3, CoverStoreMime
<1>4. ASSUME CleanupDone \/ StoreDone \/ TrimDone \/ UNCHANGED vars
             \/ (\E l \in Labels : TrimBegin(l)) \/ (\E i \in Ids : NextVictim(i))
      PROVE  CoverInv'
  <2>1. /\ db' = db /\ files' = files /\ saved' = saved
        /\ \/ pc' = pc /\ todo' = todo /\ cur' = cur
           \/ pc' \in {"store", "commit", "victim"}
           \/ pc' = "purge" /\ todo' = MimesOf(db.mime[cur'])
    BY <1>4 DEF CleanupDone, StoreDone, TrimDone, TrimBegin, NextVictim, tables, frame, vars
  <2> QED BY <1>0, <2>1, CoverFrame DEF CoverInv
<1>5. ASSUME DeleteEntry PROVE CoverInv'
  <2>1. pc = "purge" /\ MimesOf(db.mime[cur]) = {}
    BY <1>5 DEF DeleteEntry, CoverInv
  <2>2. /\ db'.mime = db.mime /\ db'.refs = db.refs /\ files' = files /\ saved' = saved
        /\ pc' = "victim"
    BY <1>0, <1>5, <2>1 DEF DeleteEntry, Tables
  <2> QED BY <1>0, <2>2, CoverFrame
<1>6. ASSUME Commit PROVE CoverInv'
  <2>1. db' = db /\ files' = files /\ saved' = db /\ pc' = "idle"
    BY <1>6 DEF Commit, Return
  <2> QED BY <1>0, <2>1, CoverFrame
<1>7. ~(CommitFails \/ Rollback \/ StepFails \/ Crash)
  BY DEF CommitFails, Rollback, StepFails, Crash, CoverInv
<1> QED BY <1>1, <1>2, <1>3, <1>4, <1>5, <1>6, <1>7 DEF Next, Serialize, Trim

\* The empty tables are covered.
LEMMA CoverInit == Init => CoverInv
<1> SUFFICES ASSUME Init PROVE CoverInv
  OBVIOUS
<1>1. ASSUME NEW d \in Data PROVE Rows(Blank, d) = {}
  BY NullAssumption DEF Rows, Blank, NoBody
<1> QED BY <1>1, TypeInit, FS_EmptySet DEF Init, CoverInv, RefsCover, Blank

\* A Ref_count is never below the number of rows, for entries that are serialised
\* again with other mime types and data too, as long as nothing fails.
THEOREM RefsStayCovered == ASSUME ~Faults PROVE Spec => []RefsCover
<1>1. CoverInv => RefsCover
  BY DEF CoverInv
<1> QED BY <1>1, CoverInit, CoverStep, PTL DEF Spec

\* As long as nothing fails the data directory has the files of the Data table
\* whenever no call is running, for entries that are serialised again too.
THEOREM FilesStayMatched == ASSUME ~Faults PROVE Spec => []FilesMatch
<1>1. CoverInv => FilesMatch
  BY DEF CoverInv, FilesMatch
<1> QED BY <1>1, CoverInit, CoverStep, PTL DEF Spec

=============================================================================
