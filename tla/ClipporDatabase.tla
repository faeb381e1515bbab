-------------------------- MODULE ClipporDatabase --------------------------
(***************************************************************************)
(* The history database of src/clippor-database.c: the SQLite tables       *)
(* Entries, Mime_types and Data, the transaction that serialize_entry and  *)
(* trim_entries run in, and the data files, which no transaction covers.   *)
(*                                                                         *)
(* The program has one thread and its calls are synchronous, so calls do   *)
(* not overlap.  What makes them hard is that every statement of a call    *)
(* can fail and that the process can stop between two of them: the tables  *)
(* then go back to the last commit and the files do not.                   *)
(***************************************************************************)
EXTENDS Naturals, FiniteSets

CONSTANTS
    Ids,        \* entry ids, the SHA1 of the creation time and the label
    Labels,     \* labels of the clipboards that share the database
    LabelOf,    \* the label each id was made for
    LimitOf,    \* max_entries of the clipboard with this label, at least 1
    Mimes,      \* mime types
    Data,       \* data ids, the SHA1 of a piece of data
    Null,       \* NULL
    MaxPos,     \* bound: the last Position that is ever given out
    MaxRefs,    \* bound: the largest Ref_count that is ever reached
    Upsert,     \* an entry that is in the table may be serialised again
    Faults,     \* statements and file operations can fail, the process can die
    InMemory    \* CLIPPOR_DATABASE_IN_MEMORY

ASSUME FiniteAssumption  == IsFiniteSet(Ids) /\ IsFiniteSet(Mimes)
ASSUME NullAssumption    == Null \notin Ids \cup Data \cup Labels
ASSUME LabelAssumption   == /\ LabelOf \in [Ids -> Labels]
                            /\ LimitOf \in [Labels -> Nat \ {0}]
ASSUME BoundAssumption   == MaxPos \in Nat /\ MaxRefs \in Nat
ASSUME BooleanAssumption == /\ Upsert \in BOOLEAN
                            /\ Faults \in BOOLEAN
                            /\ InMemory \in BOOLEAN

VARIABLES
    db,         \* the tables as the connection sees them
    saved,      \* the tables as of the last commit
    intx,       \* a transaction is open on the connection
    files,      \* data ids with a file (in memory: with a value in the store)
    pc,         \* where the running call is, "idle" outside of one
    op,         \* the running call
    owner,      \* its label argument
    cur,        \* the entry it works on
    body,       \* the mime types and data of the entry that is serialised
    todo,       \* mime types of cur that are still to be visited
    victims     \* entries that are still to be removed by a trim

tables == <<db, saved, intx>>
frame  == <<op, owner, cur, body, victims>>
vars   == <<db, saved, intx, files, pc, op, owner, cur, body, todo, victims>>

-----------------------------------------------------------------------------
(* The tables.  Position 0, a Null datum and a count of 0 stand for rows     *)
(* that do not exist.                                                        *)

Bodies == [Mimes -> Data \cup {Null}]
NoBody == [m \in Mimes |-> Null]

Tables == [pos: [Ids -> Nat], mime: [Ids -> Bodies], refs: [Data -> Nat]]

Blank == [pos  |-> [i \in Ids |-> 0],
          mime |-> [i \in Ids |-> NoBody],
          refs |-> [d \in Data |-> 0]]

Entries(t)  == {i \in Ids : t.pos[i] > 0}
Newer(t, i) == {j \in Entries(t) : t.pos[j] > t.pos[i]}
Rows(t, d)  == {r \in Ids \X Mimes : t.mime[r[1]][r[2]] = d}
MimesOf(b)  == {m \in Mimes : b[m] # Null}

\* AUTOINCREMENT: the Position after every one in the table.  A trim never
\* deletes the last entry, so the sequence and the table agree.
IsNextPos(t, p) == /\ \A i \in Ids : t.pos[i] < p
                   /\ p = 1 \/ \E i \in Ids : t.pos[i] = p - 1

\* Mutant of Victims: the order is ascending.
VictimsNewest(t, n)  == {i \in Entries(t) : Cardinality(Entries(t) \ Newer(t, i)) > n + 1}

\* The Ids that trim_entries selects: all but the first n + 1 of ORDER BY
\* Position DESC.  Its label argument does not occur in the statement.
Victims(t, n) == {i \in Entries(t) : Cardinality(Newer(t, i)) > n}

\* Mutants of AtIndex: no WHERE clause, the order is ascending.
AtIndexOfAny(t, l, k)  == {i \in Entries(t) : Cardinality(Newer(t, i)) = k}
AtIndexOldest(t, l, k) ==
    {i \in Entries(t) :
        /\ LabelOf[i] = l
        /\ Cardinality({j \in Entries(t) : LabelOf[j] = l /\ i \in Newer(t, j)}) = k}

\* SELECT .. WHERE Clipboard = l ORDER BY Position DESC LIMIT 1 OFFSET k
AtIndex(t, l, k) ==
    {i \in Entries(t) : /\ LabelOf[i] = l
                        /\ Cardinality({j \in Newer(t, i) : LabelOf[j] = l}) = k}

\* load_entry succeeds: the file of every mime type can be read.  It looks
\* for files whether or not the data was put into the in-memory store.
Loadable(t, i) == \A m \in MimesOf(t.mime[i]) : ~InMemory /\ t.mime[i][m] \in files

\* A step that succeeds, or fails without its caller looking at the result.
Unchecked(done, before) == {done} \cup IF Faults THEN {before} ELSE {}

-----------------------------------------------------------------------------
Init == /\ db = Blank
        /\ saved = Blank
        /\ intx = FALSE
        /\ files = {}
        /\ pc = "idle"
        /\ op = "none"
        /\ owner = Null
        /\ cur = Null
        /\ body = NoBody
        /\ todo = {}
        /\ victims = {}

Return == /\ pc' = "idle"
          /\ op' = "none"
          /\ owner' = Null
          /\ cur' = Null
          /\ body' = NoBody
          /\ todo' = {}
          /\ victims' = {}

-----------------------------------------------------------------------------
(* serialize_entry                                                           *)

\* BEGIN and the upsert of the Entries row, which keeps the Position that an
\* existing row has.
SerializeBegin(i, b) ==
    /\ pc = "idle" /\ ~intx
    /\ MimesOf(b) # {}
    /\ \A m \in MimesOf(b) : db.refs[b[m]] + Cardinality(Mimes) <= MaxRefs
    /\ \/ /\ db.pos[i] = 0
          /\ \E p \in 1..MaxPos : IsNextPos(db, p) /\ db' = [db EXCEPT !.pos[i] = p]
       \/ Upsert /\ db.pos[i] > 0 /\ db' = db
    /\ intx' = TRUE
    /\ pc' = "cleanup" /\ op' = "serialize"
    /\ owner' = LabelOf[i]
    /\ cur' = i /\ body' = b
    /\ todo' = MimesOf(db.mime[i]) \ MimesOf(b)
    /\ UNCHANGED <<saved, files, victims>>

WithoutRow(t, i, m) == [t EXCEPT !.mime[i][m] = Null]

\* Mutant of Unref: the count goes down twice.
UnrefTwice(t, d) == [t EXCEPT !.refs[d] = @ - 2]
Unref(t, d)      == [t EXCEPT !.refs[d] = IF @ > 0 THEN @ - 1 ELSE 0]

\* One round of cleanup_mime_types: delete the row, without looking at the
\* result, then unref_data.  At zero the file is unlinked, in the middle of
\* the transaction, before the Data row is deleted, which fails while a mime
\* type row still refers to it.
DropRow(m) ==
    LET d == db.mime[cur][m] IN
    /\ todo' = todo \ {m}
    /\ \E t \in Unchecked(WithoutRow(db, cur, m), db) :
        /\ db' = Unref(t, d)
        /\ \/ t.refs[d] # 1 /\ UNCHANGED <<files, pc>>
           \/ /\ t.refs[d] = 1
              /\ files' \in Unchecked(files \ {d}, files)
              /\ \/ Rows(t, d) = {} /\ UNCHANGED pc
                 \/ (Rows(t, d) # {} \/ Faults) /\ pc' = "rollback"
    /\ UNCHANGED <<saved, intx, frame>>

CleanupRow(m) == pc = "cleanup" /\ m \in todo /\ DropRow(m)

CleanupDone ==
    /\ pc = "cleanup" /\ todo = {}
    /\ pc' = "store"
    /\ todo' = MimesOf(body)
    /\ UNCHANGED <<tables, files, frame>>

\* Mutant of Counted: a row that exists is replaced.
CountedOnce(t, d) == [t EXCEPT !.refs[d] = 1]
Counted(t, d)     == [t EXCEPT !.refs[d] = @ + 1]

\* ref_data, which counts the reference and writes the file unless there is
\* one, then the upsert of the mime type row.  The data that the row referred
\* to before is not unreferenced.
StoreMime(m) ==
    LET d == body[m] IN
    /\ pc = "store" /\ m \in todo
    /\ files' = files \cup {d}
    /\ \/ /\ db' = [Counted(db, d) EXCEPT !.mime[cur][m] = d]
          /\ todo' = todo \ {m}
          /\ UNCHANGED pc
       \/ Faults /\ db' = Counted(db, d) /\ pc' = "rollback" /\ UNCHANGED todo
    /\ UNCHANGED <<saved, intx, frame>>

StoreDone ==
    /\ pc = "store" /\ todo = {}
    /\ pc' = "commit"
    /\ UNCHANGED <<tables, files, frame, todo>>

-----------------------------------------------------------------------------
(* trim_entries                                                              *)

TrimBegin(l) ==
    /\ pc = "idle" /\ ~intx
    /\ intx' = TRUE
    /\ pc' = "victim" /\ op' = "trim"
    /\ owner' = l
    /\ victims' = Victims(db, LimitOf[l])
    /\ UNCHANGED <<db, saved, files, cur, body, todo>>

\* Mutant of NextVictim: the statement does not advance.
SameVictim(i) ==
    /\ pc = "victim" /\ i \in victims
    /\ pc' = "purge"
    /\ cur' = i
    /\ todo' = MimesOf(db.mime[i])
    /\ UNCHANGED <<tables, files, op, owner, body, victims>>

NextVictim(i) ==
    /\ pc = "victim" /\ i \in victims
    /\ pc' = "purge"
    /\ cur' = i
    /\ victims' = victims \ {i}
    /\ todo' = MimesOf(db.mime[i])
    /\ UNCHANGED <<tables, files, op, owner, body>>

PurgeRow(m) == pc = "purge" /\ m \in todo /\ DropRow(m)

\* The foreign key of Mime_types refuses the DELETE while a row is left.
DeleteEntry ==
    /\ pc = "purge" /\ todo = {}
    /\ \/ /\ MimesOf(db.mime[cur]) = {}
          /\ db' = [db EXCEPT !.pos[cur] = 0]
          /\ pc' = "victim"
       \/ /\ MimesOf(db.mime[cur]) # {}
          /\ pc' = "rollback"
          /\ UNCHANGED db
    /\ UNCHANGED <<saved, intx, files, frame, todo>>

TrimDone ==
    /\ pc = "victim" /\ victims = {}
    /\ pc' = "commit"
    /\ UNCHANGED <<tables, files, frame, todo>>

-----------------------------------------------------------------------------
(* The end of both, and what can go wrong                                    *)

Commit ==
    /\ pc = "commit"
    /\ saved' = db /\ intx' = FALSE
    /\ Return
    /\ UNCHANGED <<db, files>>

\* A failed COMMIT is not followed by a ROLLBACK: the transaction stays open
\* unless SQLite has rolled it back itself.
CommitFails ==
    /\ Faults /\ pc = "commit"
    /\ \/ UNCHANGED <<db, intx>>
       \/ db' = saved /\ intx' = FALSE
    /\ Return
    /\ UNCHANGED <<saved, files>>

\* Mutant of Rollback: the transaction is committed.
CommitAnyway ==
    /\ pc = "rollback"
    /\ saved' = db /\ intx' = FALSE
    /\ Return
    /\ UNCHANGED <<db, files>>

Rollback ==
    /\ pc = "rollback"
    /\ db' = saved /\ intx' = FALSE
    /\ Return
    /\ UNCHANGED <<saved, files>>

\* Mutant of StepFails: the error is not noticed.
StepIgnored ==
    /\ Faults /\ pc \notin {"idle", "commit", "rollback"}
    /\ pc' = "commit"
    /\ UNCHANGED <<tables, files, frame, todo>>

\* A statement or a file operation of the call fails before it has any effect.
StepFails ==
    /\ Faults /\ pc \notin {"idle", "commit", "rollback"}
    /\ pc' = "rollback"
    /\ UNCHANGED <<tables, files, frame, todo>>

\* The process dies and is started again.
Crash ==
    /\ Faults
    /\ saved' = (IF InMemory THEN Blank ELSE saved)
    /\ files' = (IF InMemory THEN {} ELSE files)
    /\ db' = saved' /\ intx' = FALSE
    /\ Return

-----------------------------------------------------------------------------
Serialize == \/ \E i \in Ids, b \in Bodies : SerializeBegin(i, b)
             \/ \E m \in Mimes : CleanupRow(m) \/ StoreMime(m)
             \/ CleanupDone
             \/ StoreDone

Trim == \/ \E l \in Labels : TrimBegin(l)
        \/ \E i \in Ids : NextVictim(i)
        \/ \E m \in Mimes : PurgeRow(m)
        \/ DeleteEntry
        \/ TrimDone

Next == Serialize \/ Trim \/ Commit \/ CommitFails \/ Rollback \/ StepFails \/ Crash

Spec == Init /\ [][Next]_vars

-----------------------------------------------------------------------------
(* Properties                                                                *)

\* Every variable has its type.
TypeOK == /\ db \in Tables /\ saved \in Tables
          /\ intx \in BOOLEAN
          /\ files \in SUBSET Data
          /\ pc \in {"idle", "cleanup", "store", "victim", "purge", "commit", "rollback"}
          /\ op \in {"none", "serialize", "trim"}
          /\ owner \in Labels \cup {Null}
          /\ cur \in Ids \cup {Null}
          /\ body \in Bodies
          /\ todo \in SUBSET Mimes
          /\ victims \in SUBSET Ids

\* A Ref_count that serialize_entry and trim_entries left behind is never below
\* the number of mime type rows that refer to the data: otherwise unref_data
\* would unlink a file that an entry needs.  It holds for every call, entries
\* that are serialised again included, as long as no DELETE fails unseen.
RefsCover == \A d \in Data : saved.refs[d] >= Cardinality(Rows(saved, d))

\* The rows of the victim that cleanup_mime_types has passed but not deleted.
Passed == IF pc = "purge" THEN {cur} \X (Mimes \ todo) ELSE {}

\* While ids are fresh, as clippor_entry_new makes them, every Ref_count is the
\* number of rows, at each commit and, leaving out the rows a purge has passed,
\* in the middle of a transaction too: nothing leaks and nothing is dropped
\* early, whichever statements fail, the unchecked DELETE included.
RefsExact == /\ \A d \in Data : saved.refs[d] = Cardinality(Rows(saved, d))
             /\ pc # "rollback" =>
                  \A d \in Data : db.refs[d] = Cardinality(Rows(db, d) \ Passed)

\* Files are unlinked and written before the commit that they belong to, and
\* yet an entry that no trim may select (one of the first n + 1 for every
\* limit n in use) has all its files at every moment: after a failed call, a
\* rollback or a crash it can still be loaded.
Kept(t, i)     == \A l \in Labels : Cardinality(Newer(t, i)) <= LimitOf[l]
NewestLoadable == \A i \in Entries(saved) : Kept(saved, i) => Loadable(saved, i)

\* Without faults the data directory has exactly the files of the Data table
\* whenever no call is running: no file is orphaned, none is missing.
FilesMatch == pc = "idle" => files = {d \in Data : saved.refs[d] > 0}

\* No entry is ever stored without its mime types, nor mime types without
\* their entry: the clipboard that loads it would have nothing to offer.
WholeEntries == \A i \in Ids : saved.pos[i] > 0 <=> MimesOf(saved.mime[i]) # {}

\* While ids are fresh, what is committed behaves as the abstract History: each
\* call takes effect as a whole or not at all, a trim drops the oldest entries, never
\* one of the newest n, and touches no other, and no failure, rollback or crash
\* changes an entry.
Abstract == INSTANCE History WITH
                hpos <- saved.pos, hbody <- saved.mime, Volatile <- InMemory
AtomicHistory == Abstract!HSpec

-----------------------------------------------------------------------------
(* What a comment of the source says and the code does not do                *)

\* clippor-database.c:852 "Remove older entries in the datbaase until "n" entries
\* are left": when a trim commits, no more than the limit are in the table.
LimitKept == op = "trim" /\ pc = "commit" => Cardinality(Entries(db)) <= LimitOf[owner]

=============================================================================
