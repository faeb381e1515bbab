---------------------- MODULE ClipboardHistory_proofs ----------------------
(***************************************************************************)
(* Proofs about the server and its clipboards on top of the database, for  *)
(* every value of the constants: any number of clipboards, any limits.     *)
(***************************************************************************)
EXTENDS ClipboardHistory, ClipporDatabase_proofs, WellFoundedInduction

-----------------------------------------------------------------------------
(* Type correctness, and the steps of the database                           *)

\* While something was received there is a label that received it.
HistTypes == HistTypeOK /\ (stage # "none" => rcv \in Labels)

\* The server starts with the types.
LEMMA HistTypesInit == HistInit => HistTypes
BY NullAssumption DEF HistInit, HistTypes, HistTypeOK, Stages

\* A clipboard holds another entry of its own, or none.
LEMMA HoldsOwn ==
    ASSUME HistTypes, NEW l \in Labels, NEW i \in Ids \cup {Null},
           i # Null => LabelOf[i] = l, held' = [held EXCEPT ![l] = i]
    PROVE  /\ held' \in [Labels -> Ids \cup {Null}]
           /\ \A k \in Labels : held'[k] # Null => LabelOf[held'[k]] = k
BY DEF HistTypes, HistTypeOK

\* Every step keeps the types.
LEMMA HistTypesStep == HistTypes /\ [HistNext]_all => HistTypes'
<1> SUFFICES ASSUME HistTypes, [HistNext]_all PROVE HistTypes'
  OBVIOUS
<1> USE DEF HistTypes
<1>1. ASSUME OnBusAcquired \/ OnNameAcquired \/ OnNameLost \/ HandleSignal PROVE HistTypes'
  BY <1>1 DEF OnBusAcquired, OnNameAcquired, OnNameLost, HandleSignal, Quits, HistTypeOK, Stages
<1>2. ASSUME NEW l \in Labels, SetDatabase(l) PROVE HistTypes'
  <2>1. CASE held' = held
    BY <1>2, <2>1 DEF SetDatabase, HistTypeOK, Stages
  <2>2. ASSUME NEW i \in Ids \cup {Null}, i # Null => LabelOf[i] = l,
               held' = [held EXCEPT ![l] = i], loaded' = loaded \cup {l}, proc' = proc
        PROVE HistTypes'
    BY <1>2, <2>2, HoldsOwn DEF SetDatabase, HistTypeOK
  <2>3. \A i \in AtIndex(db, l, 0) : i \in Ids /\ LabelOf[i] = l
    BY DEF AtIndex, Entries
  <2> QED BY <1>2, <2>1, <2>2, <2>3 DEF SetDatabase
<1>3. ASSUME Started PROVE HistTypes'
  BY <1>3 DEF Started, HistTypeOK, Stages
<1>4. ASSUME NEW l \in Labels, NEW i \in Ids, ReceiveEarly(l, i) PROVE HistTypes'
  BY <1>4, HoldsOwn DEF ReceiveEarly, HistTypeOK
<1>5. ASSUME NEW l \in Labels, NEW i \in Ids, NEW b \in Bodies, Receive(l, i, b)
      PROVE  HistTypes'
  BY <1>5, HoldsOwn DEF Receive, HistTypeOK
<1>6. ASSUME SerializeReturns \/ AssertFails PROVE HistTypes'
  BY <1>6 DEF SerializeReturns, AssertFails, HistTypeOK, Stages
<1>7. ASSUME TrimCall \/ TrimReturns PROVE HistTypes'
  BY <1>7 DEF TrimCall, TrimReturns, Received, HistTypeOK
<1>8. ASSUME CallSteps \/ UNCHANGED all PROVE HistTypes'
  BY <1>8 DEF CallSteps, all, hist, HistTypeOK
<1>9. ASSUME Restart PROVE HistTypes'
  BY <1>9 DEF Restart, Received, HistTypeOK, Stages
<1> QED BY <1>1, <1>2, <1>3, <1>4, <1>5, <1>6, <1>7, <1>8, <1>9 DEF HistNext

\* Every variable of the server and its clipboards has its type, and a clipboard
\* holds only entries of its own.
THEOREM HistTypeCorrect == HistSpec => []HistTypeOK
<1>1. HistTypes => HistTypeOK
  BY DEF HistTypes
<1> QED BY <1>1, HistTypesInit, HistTypesStep, PTL DEF HistSpec

\* What the server does with the database are steps of the database.
LEMMA HistStepIsDatabase ==
    ASSUME HistTypes, [HistNext]_all
    PROVE  [Next]_vars
<1>1. ASSUME OnBusAcquired \/ OnNameAcquired \/ OnNameLost \/ HandleSignal \/ Started
             \/ AssertFails \/ UNCHANGED all
      PROVE  UNCHANGED vars
  BY <1>1 DEF OnBusAcquired, OnNameAcquired, OnNameLost, HandleSignal, Started, AssertFails, all
<1>2. ASSUME NEW l \in Labels, SetDatabase(l) \/ \E i \in Ids : ReceiveEarly(l, i)
      PROVE  UNCHANGED vars
  BY <1>2 DEF SetDatabase, ReceiveEarly
<1>3. ASSUME NEW l \in Labels, NEW i \in Ids, NEW b \in Bodies, Receive(l, i, b)
      PROVE  [Next]_vars
  BY <1>3 DEF Receive, BeginFails, Next, Serialize
<1>4. ASSUME SerializeReturns \/ TrimReturns PROVE Next
  BY <1>4 DEF SerializeReturns, TrimReturns, Succeeds, Fails, Next
<1>5. ASSUME TrimCall PROVE [Next]_vars
  BY <1>5 DEF TrimCall, BeginFails, Next, Trim, HistTypes
<1>6. ASSUME CallSteps PROVE Next
  BY <1>6 DEF CallSteps, Next, Serialize, Trim
<1>7. ASSUME Restart PROVE Next
  BY <1>7 DEF Restart, Next
<1> QED BY <1>1, <1>2, <1>3, <1>4, <1>5, <1>6, <1>7 DEF HistNext

\* The server uses the database as its specification allows: whatever is proved of
\* the database on its own holds of it inside the server.
THEOREM ServerRunsDatabase == HistSpec => Spec
<1>1. HistInit => Init
  BY DEF HistInit
<1>2. HistTypes /\ [HistNext]_all => [Next]_vars
  BY HistStepIsDatabase
<1> QED BY <1>1, <1>2, HistTypesInit, HistTypesStep, PTL DEF HistSpec, Spec

-----------------------------------------------------------------------------
(* A server that was interrupted starts again                                *)

\* Until the server runs it does not change the database, and it refuses to start
\* only because of a newest entry that cannot be loaded.
Untouched == proc \in {"naming", "starting", "refused"} =>
                 pc = "idle" /\ ~intx /\ db = saved /\ stage = "none"
Refusal   == proc = "refused" =>
                 \E l \in Labels : \E i \in AtIndex(db, l, 0) : ~Loadable(db, i)

StartInv == HistTypes /\ Untouched /\ Refusal

\* What the clipboards are given leaves the database alone.
LEMMA StartSetDatabase ==
    ASSUME StartInv, NEW l \in Labels, SetDatabase(l)
    PROVE  Untouched' /\ Refusal'
<1>1. Untouched'
  BY DEF StartInv, SetDatabase, Untouched, vars
<1>2. CASE proc' = "refused"
  <2>1. PICK i \in AtIndex(db, l, 0) : ~Loadable(db, i)
    BY <1>2 DEF SetDatabase
  <2>2. i \in AtIndex(db, l, 0)' /\ ~Loadable(db, i)'
    BY <2>1 DEF SetDatabase, vars, AtIndex, Entries, Newer, Loadable
  <2> QED BY <1>1, <2>2 DEF Refusal
<1> QED BY <1>1, <1>2 DEF Refusal

\* Every step of the server keeps what holds of its start.
LEMMA StartStep == StartInv /\ [HistNext]_all => StartInv'
<1> SUFFICES ASSUME StartInv, [HistNext]_all PROVE Untouched' /\ Refusal'
  BY HistTypesStep DEF StartInv
<1>1. ASSUME UNCHANGED vars, proc' = proc, stage' = stage PROVE Untouched' /\ Refusal'
  BY <1>1 DEF StartInv, Untouched, Refusal, vars, AtIndex, Entries, Newer, Loadable
<1>2. ASSUME proc' \in {"running", "stopped", "aborted"} PROVE Untouched' /\ Refusal'
  BY <1>2 DEF Untouched, Refusal
<1>3. ASSUME OnNameAcquired \/ OnNameLost PROVE Untouched' /\ Refusal'
  BY <1>3 DEF OnNameAcquired, OnNameLost, Quits, StartInv, Untouched, Refusal, vars,
              AtIndex, Entries, Newer, Loadable
<1>4. ASSUME Restart PROVE Untouched' /\ Refusal'
  BY <1>4 DEF Restart, Crash, Return, Received, Untouched, Refusal
<1>5. ASSUME SerializeReturns \/ TrimReturns \/ CallSteps PROVE Untouched' /\ Refusal'
  <2>1. pc # "idle" /\ proc' = proc
    BY <1>5 DEF SerializeReturns, TrimReturns, CallSteps, Succeeds, Fails, Commit, CommitFails,
                Rollback, CleanupRow, StoreMime, PurgeRow, NextVictim, CleanupDone, StoreDone,
                DeleteEntry, TrimDone, StepFails, hist
  <2> QED BY <2>1 DEF StartInv, Untouched, Refusal
<1>6. ASSUME HandleSignal \/ Started \/ AssertFails \/ TrimCall PROVE Untouched' /\ Refusal'
  <2>1. proc' \in {"running", "stopped", "aborted"}
    BY <1>6 DEF HandleSignal, Started, AssertFails, TrimCall
  <2> QED BY <1>2, <2>1
<1>7. ASSUME NEW l \in Labels, NEW i \in Ids, NEW b \in Bodies, Receive(l, i, b)
      PROVE  Untouched' /\ Refusal'
  BY <1>7, <1>2 DEF Receive
<1>8. ASSUME OnBusAcquired \/ UNCHANGED all \/ \E l \in Labels, i \in Ids : ReceiveEarly(l, i)
      PROVE  Untouched' /\ Refusal'
  BY <1>8, <1>1 DEF OnBusAcquired, ReceiveEarly, all, hist
<1> QED BY <1>3, <1>4, <1>5, <1>6, <1>7, <1>8, StartSetDatabase DEF HistNext

\* A server that was interrupted at any point starts again, whatever failed in its
\* last run, unless the newest entry of a clipboard is one that a trim for another
\* clipboard may select: the guarantee a user has that the daemon comes back.
THEOREM StartsAlways == ASSUME ~Upsert, ~InMemory PROVE HistSpec => []StartsAgain
<1>1. HistInit => StartInv
  BY HistTypesInit DEF HistInit, Init, StartInv, Untouched, Refusal
<1>2. HistSpec => []StartInv
  BY <1>1, StartStep, PTL DEF HistSpec
<1>3. HistSpec => []NewestLoadable
  BY ServerRunsDatabase, NewestStayLoadable, PTL
<1>4. StartInv /\ NewestLoadable => StartsAgain
  <2> SUFFICES ASSUME StartInv, NewestLoadable, proc = "refused" PROVE StartsAgain
    BY DEF StartsAgain
  <2>0. PICK l \in Labels : \E i \in AtIndex(db, l, 0) : ~Loadable(db, i)
    BY DEF StartInv, Refusal
  <2>1. PICK i \in AtIndex(db, l, 0) : ~Loadable(db, i)
    BY <2>0
  <2>2. db = saved /\ i \in Entries(saved)
    BY <2>1 DEF StartInv, Untouched, AtIndex
  <2> QED BY <2>1, <2>2 DEF NewestLoadable, StartsAgain
<1> QED BY <1>2, <1>3, <1>4, PTL

-----------------------------------------------------------------------------
(* The newest entries of the database                                        *)

OfLabel(t, l) == {i \in Entries(t) : LabelOf[i] = l}

\* Position is a primary key.
Distinct(t) == \A i, j \in Entries(t) : t.pos[i] = t.pos[j] => i = j

\* In a set of entries that is not empty there is one that none of them is newer
\* than: the one that the fewest entries of the table are newer than.
LEMMA NewestOf ==
    ASSUME NEW t \in Tables, NEW S \in SUBSET Entries(t), S # {}
    PROVE  \E v \in S : Newer(t, v) \cap S = {}
<1> DEFINE R == OpToRel(<, Nat)
           Count(v) == Cardinality(Newer(t, v))
           C == {Count(v) : v \in S}
<1>1. \A v : IsFiniteSet(Newer(t, v)) /\ Count(v) \in Nat
  <2> SUFFICES ASSUME NEW v PROVE IsFiniteSet(Newer(t, v)) /\ Count(v) \in Nat
    OBVIOUS
  <2>1. IsFiniteSet(Newer(t, v))
    BY FS_Subset, FiniteAssumption DEF Newer, Entries
  <2> QED BY <2>1, FS_CardinalityType
<1>2. \E x \in C : \A y \in C : ~(<<y, x>> \in R)
  <2>1. C \subseteq Nat /\ C # {}
    BY <1>1
  <2> HIDE DEF C, R
  <2>2. IsWellFoundedOn(R, Nat)
    BY NatLessThanWellFounded DEF R
  <2> QED BY <2>1, <2>2, WFMin
<1>3. PICK v \in S : \A u \in S : ~(Count(u) < Count(v))
  BY <1>1, <1>2 DEF OpToRel
<1>4. SUFFICES ASSUME NEW u \in Newer(t, v) \cap S PROVE FALSE
  OBVIOUS
<1>5. Newer(t, u) \subseteq Newer(t, v) /\ u \in Newer(t, v) /\ u \notin Newer(t, u)
  <2>1. t.pos \in [Ids -> Nat] /\ u \in Ids /\ v \in Ids
    BY DEF Tables, Entries
  <2> QED BY <2>1 DEF Newer, Entries
<1>6. Count(u) <= Count(v) /\ Count(u) # Count(v)
  BY <1>1, <1>5, FS_Subset
<1> QED BY <1>1, <1>3, <1>6

\* What the statement of set_database selects is the newest entry of the label, and
\* it selects nothing only if there is none.
LEMMA IndexZero ==
    ASSUME NEW t \in Tables, NEW l \in Labels
    PROVE  /\ \A i \in AtIndex(t, l, 0) : i \in OfLabel(t, l) /\ Newer(t, i) \cap OfLabel(t, l) = {}
           /\ \A i \in OfLabel(t, l) : Newer(t, i) \cap OfLabel(t, l) = {} => i \in AtIndex(t, l, 0)
           /\ AtIndex(t, l, 0) = {} => OfLabel(t, l) = {}
<1>1. ASSUME NEW i
      PROVE  Cardinality({j \in Newer(t, i) : LabelOf[j] = l}) = 0
                <=> Newer(t, i) \cap OfLabel(t, l) = {}
  <2>1. {j \in Newer(t, i) : LabelOf[j] = l} = Newer(t, i) \cap OfLabel(t, l)
    BY DEF OfLabel, Newer
  <2>2. IsFiniteSet(Newer(t, i) \cap OfLabel(t, l))
    BY FS_Subset, FiniteAssumption DEF OfLabel, Entries
  <2> QED BY <2>1, <2>2, FS_EmptySet
<1>2. /\ \A i \in AtIndex(t, l, 0) : i \in OfLabel(t, l) /\ Newer(t, i) \cap OfLabel(t, l) = {}
      /\ \A i \in OfLabel(t, l) : Newer(t, i) \cap OfLabel(t, l) = {} => i \in AtIndex(t, l, 0)
  BY <1>1 DEF AtIndex, OfLabel
<1>3. OfLabel(t, l) \in SUBSET Entries(t)
  BY DEF OfLabel
<1> QED BY <1>2, <1>3, NewestOf

\* A trim that removes an entry leaves more than n others.
LEMMA TrimLeavesMore ==
    ASSUME NEW t \in Tables, NEW n \in Nat, Victims(t, n) # {}
    PROVE  Cardinality(Entries(t) \ Victims(t, n)) > n
<1>1. PICK v \in Victims(t, n) : Newer(t, v) \cap Victims(t, n) = {}
  BY NewestOf DEF Victims
<1>2. Newer(t, v) \subseteq Entries(t) \ Victims(t, n)
  BY <1>1 DEF Newer
<1>3. IsFiniteSet(Entries(t) \ Victims(t, n))
  BY FS_Subset, FiniteAssumption DEF Entries
<1> QED BY <1>1, <1>2, <1>3, FS_Subset, FS_CardinalityType DEF Victims

-----------------------------------------------------------------------------
(* What a clipboard holds, and what is stored of it                          *)

\* Which call of the database runs for the clipboard that received.
StageInv == /\ stage = "none" => pc = "idle"
            /\ stage = "serialize" => /\ pc # "idle" /\ op = "serialize"
                                      /\ cur \in Ids /\ cur = held[rcv]
                                      /\ gerr = "null"
            /\ stage = "trim" /\ pc # "idle" => op = "trim" /\ owner = rcv /\ gerr = "null"
            /\ stage # "none" => proc \in {"running", "aborted"}
            /\ dbus \in {"asked", "bus"} => proc = "naming"

\* The newest entry of label l is the one its clipboard holds, or there is none.
Holds(l) == \/ held[l] = Null /\ OfLabel(saved, l) = {}
            \/ /\ held[l] \in OfLabel(saved, l)
               /\ \A i \in OfLabel(saved, l) \ {held[l]} : saved.pos[i] < saved.pos[held[l]]

\* It has none any more since trims for others removed it.
Lost(l) == /\ OfLabel(saved, l) = {}
           /\ \E k \in Labels \ {l} : Cardinality(Entries(saved)) > LimitOf[k]

\* Between a receive and its commit this cannot hold of the clipboard that received;
\* during the trim that follows the entry it received is the newest of all.
HeldInv ==
    /\ Distinct(saved)
    /\ proc = "naming" => loaded = {}
    /\ proc = "starting" => \A l \in loaded : Holds(l)
    /\ proc = "running" => \A l \in Labels :
          Holds(l) \/ Lost(l) \/ (l = rcv /\ (stage = "serialize" \/ (stage = "trim" /\ gerr = "freed")))
    /\ proc = "running" /\ stage = "trim" /\ gerr = "null" =>
          held[rcv] \in OfLabel(saved, rcv) /\ Newer(saved, held[rcv]) = {}

StoredInv == StartInv /\ StageInv /\ HeldInv

\* A step that leaves alone all that HeldInv speaks of.
LEMMA HeldFrame ==
    ASSUME HeldInv, UNCHANGED <<saved, proc, loaded, held, stage, rcv, gerr>>
    PROVE  HeldInv'
BY DEF HeldInv, Distinct, Holds, Lost, OfLabel, Entries, Newer

\* Holding what set_database selects.
LEMMA HeldSetDatabase ==
    ASSUME StoredInv, CallsInv, NEW l \in Labels, SetDatabase(l)
    PROVE  HeldInv'
<1>1. /\ proc = "starting" /\ db = saved /\ saved \in Tables /\ HeldInv
      /\ UNCHANGED <<saved, stage, rcv, gerr>>
      /\ held \in [Labels -> Ids \cup {Null}]
  BY DEF StoredInv, SetDatabase, StartInv, Untouched, vars, CallsInv, TypeInv, TypeOK,
         HistTypes, HistTypeOK
<1>2. CASE proc' = "refused"
  BY <1>1, <1>2 DEF HeldInv, Distinct, Entries
<1>3. ASSUME NEW i \in Ids \cup {Null}, held' = [held EXCEPT ![l] = i],
             loaded' = loaded \cup {l}, proc' = proc,
             \/ i = Null /\ OfLabel(saved, l) = {}
             \/ /\ i \in OfLabel(saved, l)
                /\ \A j \in OfLabel(saved, l) \ {i} : saved.pos[j] < saved.pos[i]
      PROVE  HeldInv'
  <2>1. ASSUME NEW k \in loaded' PROVE Holds(k)'
    <3>1. CASE k = l
      BY <1>1, <1>3, <3>1 DEF Holds, OfLabel, Entries
    <3>2. CASE k # l
      <4>1. held'[k] = held[k] /\ Holds(k)
        BY <1>1, <1>3, <3>2 DEF HeldInv
      <4> QED BY <1>1, <4>1 DEF Holds, OfLabel, Entries
    <3> QED BY <3>1, <3>2
  <2> QED BY <1>1, <1>3, <2>1 DEF HeldInv, Distinct, Entries
<1>4. CASE AtIndex(db, l, 0) = {} /\ held' = [held EXCEPT ![l] = Null]
           /\ loaded' = loaded \cup {l} /\ proc' = proc
  BY <1>1, <1>3, <1>4, IndexZero
<1>5. ASSUME NEW i \in AtIndex(db, l, 0), held' = [held EXCEPT ![l] = i],
             loaded' = loaded \cup {l}, proc' = proc
      PROVE  HeldInv'
  <2>1. i \in OfLabel(saved, l) /\ Newer(saved, i) \cap OfLabel(saved, l) = {}
    BY <1>1, <1>5, IndexZero
  <2>2. ASSUME NEW j \in OfLabel(saved, l) \ {i} PROVE saved.pos[j] < saved.pos[i]
    BY <1>1, <2>1 DEF HeldInv, Distinct, OfLabel, Newer, Entries, Tables
  <2>3. i \in Ids
    BY <2>1 DEF OfLabel, Entries
  <2> QED BY <1>3, <1>5, <2>1, <2>2, <2>3
<1> QED BY <1>2, <1>4, <1>5 DEF SetDatabase

\* Every step keeps what is known of the call that runs.
LEMMA StageStep ==
    ASSUME StoredInv, CallsInv, [HistNext]_all
    PROVE  StageInv'
<1>0. StageInv /\ HistTypes /\ Untouched /\ CallInv
  BY DEF StoredInv, StartInv, CallsInv, ProgressInv
<1>1. ASSUME OnBusAcquired \/ OnNameAcquired \/ OnNameLost \/ HandleSignal \/ Started
      PROVE  StageInv'
  BY <1>0, <1>1 DEF OnBusAcquired, OnNameAcquired, OnNameLost, HandleSignal, Started, Quits,
                    StageInv, Untouched, vars
<1>2. ASSUME NEW l \in Labels, SetDatabase(l) \/ \E i \in Ids : ReceiveEarly(l, i)
      PROVE  StageInv'
  BY <1>0, <1>2 DEF SetDatabase, ReceiveEarly, StageInv, Untouched, vars
<1>3. ASSUME NEW l \in Labels, NEW i \in Ids, NEW b \in Bodies, Receive(l, i, b)
      PROVE  StageInv'
  BY <1>0, <1>3 DEF Receive, SerializeBegin, BeginFails, StageInv, HistTypes, HistTypeOK, vars
<1>4. ASSUME SerializeReturns \/ TrimReturns PROVE StageInv'
  <2>1. Return
    BY <1>4 DEF SerializeReturns, TrimReturns, Succeeds, Fails, Commit, CommitFails, Rollback
  <2> QED BY <1>0, <1>4, <2>1 DEF SerializeReturns, TrimReturns, Received, Return, StageInv
<1>5. ASSUME TrimCall PROVE StageInv'
  BY <1>0, <1>5 DEF TrimCall, TrimBegin, BeginFails, Received, StageInv, vars
<1>6. ASSUME AssertFails \/ UNCHANGED all PROVE StageInv'
  BY <1>0, <1>6 DEF AssertFails, StageInv, all, hist, vars
<1>7. ASSUME CallSteps PROVE StageInv'
  <2>1. /\ pc # "idle" /\ pc' # "idle" /\ op' = op /\ owner' = owner
        /\ cur' = cur \/ pc = "victim"
    <3>1. ASSUME NEW m \in Mimes, CleanupRow(m) \/ PurgeRow(m)
          PROVE  pc # "idle" /\ pc' # "idle" /\ UNCHANGED <<op, owner, cur>>
      BY <3>1 DEF CleanupRow, PurgeRow, DropRow, frame
    <3>2. ASSUME NEW m \in Mimes, StoreMime(m)
          PROVE  pc # "idle" /\ pc' # "idle" /\ UNCHANGED <<op, owner, cur>>
      BY <3>2 DEF StoreMime, frame
    <3> QED BY <1>7, <3>1, <3>2 DEF CallSteps, NextVictim, CleanupDone, StoreDone, DeleteEntry,
                                    TrimDone, StepFails, frame
  <2> QED BY <1>0, <1>7, <2>1 DEF CallSteps, hist, StageInv, CallInv
<1>8. ASSUME Restart PROVE StageInv'
  BY <1>8 DEF Restart, Crash, Return, Received, StageInv
<1> QED BY <1>1, <1>2, <1>3, <1>4, <1>5, <1>6, <1>7, <1>8 DEF HistNext

\* The commit of a new entry: it is the newest of all, and the others are what they
\* were.
LEMMA HeldSerialized ==
    ASSUME StoredInv, CallsInv, stage = "serialize", Commit,
           stage' = "trim", UNCHANGED <<proc, loaded, held, rcv, gerr>>
    PROVE  HeldInv'
<1>1. /\ op = "serialize" /\ cur \in Ids /\ cur = held[rcv] /\ gerr = "null"
      /\ proc \in {"running", "aborted"}
      /\ rcv \in Labels /\ LabelOf[cur] = rcv /\ cur # Null /\ HeldInv
      /\ saved' = db /\ db \in Tables /\ saved \in Tables /\ SerializeInv /\ Serializing
  BY NullAssumption DEF StoredInv, StageInv, StartInv, HistTypes, HistTypeOK, Commit, CallsInv, ProgressInv,
         TypeInv, TypeOK, Serializing
<1>2. PICK p \in 1..MaxPos : /\ \A j \in Ids : saved.pos[j] < p
                             /\ db.pos = [saved.pos EXCEPT ![cur] = p]
  BY <1>1 DEF SerializeInv
<1>3. /\ db.pos[cur] = p /\ \A j \in Ids \ {cur} : db.pos[j] = saved.pos[j]
      /\ p > 0 /\ saved.pos[cur] = 0 /\ saved.pos \in [Ids -> Nat] /\ p \in Nat
  BY <1>1, <1>2, BoundAssumption DEF Tables, SerializeInv
<1>4. Entries(db) = Entries(saved) \cup {cur} /\ cur \notin Entries(saved)
  BY <1>1, <1>3 DEF Entries
<1>5. Distinct(db)
  BY <1>1, <1>2, <1>3, <1>4 DEF HeldInv, Distinct, Entries
<1>6. Newer(db, cur) = {} /\ cur \in OfLabel(db, rcv)
  BY <1>1, <1>2, <1>3, <1>4 DEF Newer, OfLabel, Entries
<1>7. \A i \in OfLabel(db, rcv) \ {cur} : db.pos[i] < db.pos[cur]
  BY <1>1, <1>2, <1>3 DEF OfLabel, Entries
<1>8. ASSUME NEW l \in Labels \ {rcv}, Holds(l) \/ Lost(l) PROVE Holds(l)' \/ Lost(l)'
  <2>1. OfLabel(db, l) = OfLabel(saved, l) /\ cur \notin OfLabel(saved, l)
    BY <1>1, <1>4 DEF OfLabel
  <2>2. CASE Holds(l)
    BY <1>1, <1>3, <2>1, <2>2 DEF Holds, OfLabel, Entries
  <2>3. CASE Lost(l)
    <3>1. IsFiniteSet(Entries(db)) /\ IsFiniteSet(Entries(saved)) /\ Entries(saved) \subseteq Entries(db)
      BY <1>4, FS_Subset, FiniteAssumption DEF Entries
    <3>2. Cardinality(Entries(db)) \in Nat /\ Cardinality(Entries(saved)) \in Nat
          /\ Cardinality(Entries(saved)) <= Cardinality(Entries(db))
      BY <3>1, FS_Subset, FS_CardinalityType
    <3>3. PICK k \in Labels \ {l} : Cardinality(Entries(saved)) > LimitOf[k]
      BY <2>3 DEF Lost
    <3>4. LimitOf[k] \in Nat
      BY <3>3, LabelAssumption
    <3> QED BY <1>1, <2>1, <2>3, <3>2, <3>3, <3>4 DEF Lost
  <2> QED BY <1>8, <2>2, <2>3
<1>9. Holds(rcv)'
  BY <1>1, <1>6, <1>7 DEF Holds
<1> QED
  <2>1. ASSUME proc = "running", NEW l \in Labels PROVE Holds(l)' \/ Lost(l)'
    BY <1>1, <1>8, <1>9, <2>1 DEF HeldInv
  <2> QED BY <1>1, <1>5, <1>6, <2>1 DEF HeldInv

\* The commit of a trim: what is left was newer than every victim, so a clipboard
\* whose newest entry was removed has lost all of its entries to the one that
\* received.
LEMMA HeldTrimmed ==
    ASSUME StoredInv, CallsInv, stage = "trim", Commit,
           stage' = "none", UNCHANGED <<proc, loaded, held>>
    PROVE  HeldInv'
<1> DEFINE n == LimitOf[rcv]
           V == Victims(saved, n)
<1>1. /\ op = "trim" /\ owner = rcv /\ gerr = "null" /\ proc \in {"running", "aborted"}
      /\ rcv \in Labels /\ HeldInv /\ n \in Nat
      /\ saved' = db /\ db \in Tables /\ saved \in Tables /\ TrimInv /\ Trimming
      /\ pc = "commit"
  BY LabelAssumption DEF StoredInv, StageInv, StartInv, HistTypes, Commit, CallsInv,
         ProgressInv, TypeInv, TypeOK, Trimming
<1>2. \A i \in Ids : db.pos[i] = (IF i \in V THEN 0 ELSE saved.pos[i])
  BY <1>1 DEF TrimInv, Gone, Purged
<1>3. Entries(db) = Entries(saved) \ V /\ \A l : OfLabel(db, l) = OfLabel(saved, l) \ V
  BY <1>2 DEF Entries, OfLabel
<1>4. Distinct(db)
  BY <1>1, <1>2, <1>3 DEF HeldInv, Distinct, Entries
<1>5. CASE proc = "aborted"
  BY <1>1, <1>4, <1>5 DEF HeldInv
<1>6. CASE proc = "running"
  <2>1. held[rcv] \in OfLabel(saved, rcv) \ V
    <3>1. held[rcv] \in OfLabel(saved, rcv) /\ Newer(saved, held[rcv]) = {}
      BY <1>1, <1>6 DEF HeldInv
    <3> QED BY <1>1, <3>1, FS_EmptySet DEF Victims
  <2>2. ASSUME NEW l \in Labels, OfLabel(db, l) = {}, l # rcv, V # {} PROVE Lost(l)'
    BY <1>1, <1>3, <2>2, TrimLeavesMore DEF Lost
  <2>3. ASSUME NEW l \in Labels, Holds(l) PROVE Holds(l)' \/ Lost(l)'
    <3>1. CASE OfLabel(saved, l) = {}
      BY <1>1, <1>3, <2>3, <3>1 DEF Holds
    <3>2. CASE held[l] \in OfLabel(saved, l) \ V
      BY <1>1, <1>2, <1>3, <2>3, <3>2 DEF Holds, OfLabel, Entries
    <3>3. CASE held[l] \in OfLabel(saved, l) /\ held[l] \in V
      <4>1. ASSUME NEW i \in OfLabel(saved, l), i # held[l] PROVE i \in V
        <5>1. saved.pos[i] < saved.pos[held[l]] /\ i \in Ids /\ held[l] \in Ids /\ i \in Entries(saved)
          BY <2>3, <3>3, <4>1 DEF Holds, OfLabel, Entries
        <5>2. Newer(saved, held[l]) \subseteq Newer(saved, i)
          BY <1>1, <5>1 DEF Newer, Entries, Tables
        <5>3. /\ Cardinality(Newer(saved, held[l])) <= Cardinality(Newer(saved, i))
              /\ Cardinality(Newer(saved, held[l])) \in Nat /\ Cardinality(Newer(saved, i)) \in Nat
          <6>1. IsFiniteSet(Newer(saved, i)) /\ IsFiniteSet(Newer(saved, held[l]))
            BY FS_Subset, FiniteAssumption DEF Newer, Entries
          <6> QED BY <5>2, <6>1, FS_Subset, FS_CardinalityType
        <5> QED BY <1>1, <3>3, <5>1, <5>3 DEF Victims
      <4>2. OfLabel(db, l) = {}
        BY <1>3, <3>3, <4>1
      <4> QED BY <2>1, <2>2, <3>3, <4>2
    <3> QED BY <2>3, <3>1, <3>2, <3>3 DEF Holds
  <2>4. ASSUME NEW l \in Labels, Lost(l) PROVE Lost(l)'
    <3>1. l # rcv /\ OfLabel(db, l) = {}
      BY <1>3, <2>1, <2>4 DEF Lost
    <3>2. CASE V = {}
      BY <1>1, <1>3, <2>4, <3>1, <3>2 DEF Lost
    <3> QED BY <2>2, <3>1, <3>2
  <2>5. \A l \in Labels : Holds(l) \/ Lost(l)
    BY <1>1, <1>6 DEF HeldInv
  <2> QED BY <1>1, <1>4, <1>6, <2>3, <2>4, <2>5 DEF HeldInv
<1> QED BY <1>1, <1>5, <1>6

\* Every step keeps what is known of the entries that the clipboards hold.
LEMMA HeldStep ==
    ASSUME StoredInv, CallsInv, [HistNext]_all
    PROVE  HeldInv'
<1>0. StageInv /\ HistTypes /\ Untouched /\ HeldInv
  BY DEF StoredInv, StartInv
<1>1. ASSUME saved' = saved, Distinct(saved), proc' \in {"stopped", "refused", "aborted"}
      PROVE  HeldInv'
  BY <1>1 DEF HeldInv, Distinct, Entries
<1>2. ASSUME OnBusAcquired \/ UNCHANGED all \/ CallSteps PROVE HeldInv'
  <2>1. saved' = saved
    BY <1>2 DEF OnBusAcquired, CallSteps, CleanupRow, StoreMime, PurgeRow, DropRow, NextVictim,
                CleanupDone, StoreDone, DeleteEntry, TrimDone, StepFails, tables, vars, all
  <2> QED BY <1>0, <1>2, <2>1, HeldFrame DEF OnBusAcquired, CallSteps, hist, all
<1>3. ASSUME OnNameAcquired \/ OnNameLost PROVE HeldInv'
  BY <1>0, <1>3 DEF OnNameAcquired, OnNameLost, Quits, vars, HeldInv, Distinct, Entries
<1>4. ASSUME HandleSignal \/ AssertFails PROVE HeldInv'
  <2>1. saved' = saved /\ proc' \in {"stopped", "aborted"}
    BY <1>4 DEF HandleSignal, AssertFails, vars
  <2> QED BY <1>0, <1>1, <2>1 DEF HeldInv
<1>5. ASSUME Started PROVE HeldInv'
  BY <1>0, <1>5 DEF Started, vars, Untouched, HeldInv, Distinct, Holds, Lost, OfLabel, Entries, Newer
<1>6. ASSUME NEW l \in Labels, NEW i \in Ids, ReceiveEarly(l, i) PROVE HeldInv'
  BY <1>0, <1>6 DEF ReceiveEarly, vars, HeldInv, Distinct, Entries
<1>7. ASSUME NEW l \in Labels, NEW i \in Ids, NEW b \in Bodies, Receive(l, i, b)
      PROVE  HeldInv'
  <2>1. /\ saved' = saved /\ proc' = proc /\ loaded' = loaded /\ rcv' = l /\ proc = "running"
        /\ stage' = "serialize" \/ (stage' = "trim" /\ gerr' = "freed")
        /\ \A k \in Labels \ {l} : held'[k] = held[k]
        /\ stage = "none"
    BY <1>0, <1>7 DEF Receive, SerializeBegin, BeginFails, vars, HistTypes, HistTypeOK
  <2>2. ASSUME NEW k \in Labels \ {l} PROVE Holds(k)' \/ Lost(k)'
    BY <1>0, <2>1 DEF HeldInv, Holds, Lost, OfLabel, Entries
  <2> QED BY <1>0, <2>1, <2>2 DEF HeldInv, Distinct, Entries
<1>8. ASSUME SerializeReturns PROVE HeldInv'
  <2>1. CASE Commit /\ gerr' = gerr
    BY <1>8, <2>1, HeldSerialized DEF SerializeReturns
  <2>2. CASE Fails /\ gerr' = "freed"
    <3>1. saved' = saved
      BY <2>2 DEF Fails, CommitFails, Rollback
    <3> QED BY <1>0, <1>8, <2>2, <3>1 DEF SerializeReturns, HeldInv, Distinct, Holds, Lost,
                                          OfLabel, Entries
  <2> QED BY <1>8, <2>1, <2>2 DEF SerializeReturns, Succeeds
<1>9. ASSUME TrimCall PROVE HeldInv'
  <2>1. saved' = saved
    BY <1>9 DEF TrimCall, TrimBegin, BeginFails, vars
  <2>2. CASE Received
    BY <1>0, <1>9, <2>1, <2>2 DEF TrimCall, Received, HeldInv, Distinct, Holds, Lost, OfLabel,
                                  Entries
  <2> QED BY <1>0, <1>9, <2>1, <2>2, HeldFrame DEF TrimCall
<1>10. ASSUME TrimReturns PROVE HeldInv'
  <2>1. CASE Commit
    BY <1>10, <2>1, HeldTrimmed DEF TrimReturns, Received
  <2>2. CASE Fails
    <3>1. saved' = saved /\ gerr = "null"
      BY <1>0, <1>10, <2>2 DEF TrimReturns, Fails, CommitFails, Rollback, StageInv
    <3> QED BY <1>0, <1>10, <3>1 DEF TrimReturns, Received, HeldInv, Distinct, Holds, Lost,
                                     OfLabel, Entries
  <2> QED BY <1>10, <2>1, <2>2 DEF TrimReturns, Succeeds
<1>11. ASSUME Restart PROVE HeldInv'
  <2>1. saved' = saved \/ saved' = Blank
    BY <1>11 DEF Restart, Crash
  <2>2. Distinct(saved')
    BY <1>0, <2>1 DEF HeldInv, Distinct, Entries, Blank
  <2> QED BY <1>11, <2>2 DEF Restart, Received, HeldInv
<1> QED BY <1>2, <1>3, <1>4, <1>5, <1>6, <1>7, <1>8, <1>9, <1>10, <1>11, HeldSetDatabase
        DEF HistNext

\* A server that is killed between two receives comes back with the entry that each
\* clipboard holds, or with none for a clipboard whose entries were removed for the
\* others: with every fault, any number of clipboards and any limits.
THEOREM HeldStaysNewest == ASSUME ~Upsert PROVE HistSpec => []HeldIsNewest
<1>1. HistInit => StoredInv
  BY HistTypesInit DEF HistInit, Init, StoredInv, StartInv, Untouched, Refusal, StageInv, HeldInv,
                       Distinct, Entries, Blank
<1>2. HistSpec => []CallsInv
  <2>1. Spec => []CallsInv
    BY CallsInit, CallsStep, PTL DEF Spec
  <2> QED BY <2>1, ServerRunsDatabase, PTL
<1>3. StoredInv /\ CallsInv /\ [HistNext]_all => StoredInv'
  BY StartStep, StageStep, HeldStep DEF StoredInv
<1>4. StoredInv /\ CallsInv => HeldIsNewest
  <2> SUFFICES ASSUME StoredInv, CallsInv, proc = "running", stage = "none", NEW l \in Labels
               PROVE  \/ AtIndex(saved, l, 0) = {held[l]} \ {Null}
                      \/ /\ AtIndex(saved, l, 0) = {}
                         /\ \E k \in Labels \ {l} : Cardinality(Entries(saved)) > LimitOf[k]
    BY DEF HeldIsNewest
  <2>1. saved \in Tables /\ (Holds(l) \/ Lost(l))
    BY DEF StoredInv, HeldInv, CallsInv, TypeInv, TypeOK
  <2>2. CASE Lost(l)
    BY <2>1, <2>2, IndexZero DEF Lost
  <2>3. CASE held[l] = Null /\ OfLabel(saved, l) = {}
    BY <2>1, <2>3, IndexZero
  <2>4. CASE /\ held[l] \in OfLabel(saved, l)
             /\ \A i \in OfLabel(saved, l) \ {held[l]} : saved.pos[i] < saved.pos[held[l]]
    <3>1. Newer(saved, held[l]) \cap OfLabel(saved, l) = {}
      BY <2>1, <2>4 DEF Newer, OfLabel, Entries, Tables
    <3>2. \A i \in OfLabel(saved, l) \ {held[l]} : held[l] \in Newer(saved, i) \cap OfLabel(saved, l)
      BY <2>1, <2>4 DEF Newer, OfLabel
    <3>3. held[l] # Null
      BY <2>4, NullAssumption DEF OfLabel, Entries
    <3>4. AtIndex(saved, l, 0) = {held[l]}
      BY <2>1, <2>4, <3>1, <3>2, IndexZero
    <3> QED BY <3>3, <3>4
  <2> QED BY <2>1, <2>2, <2>3, <2>4 DEF Holds
<1> QED BY <1>1, <1>2, <1>3, <1>4, PTL DEF HistSpec

=============================================================================
