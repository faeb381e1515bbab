---------------------- MODULE ClipporClipboard_settled ----------------------
(***************************************************************************)
(* Proofs about what the selections offer once everything has settled, for *)
(* every set of selections of one seat, any number of moves, and with      *)
(* faults.                                                                 *)
(***************************************************************************)
EXTENDS ClipporClipboard_types

-----------------------------------------------------------------------------
(* The invariants                                                            *)

SameSeat == \A s, t \in Sels : SeatOf[s] = SeatOf[t]

AllActive == \A s \in Sels : active[s]

\* The entry that a selection has is the clipboard's, if that has one, unless the
\* update of all selections still has to come to it.
Updated == /\ \A s \in Sels : \E n \in 1..Len(conns) : conns[n] = s
           /\ cbEntry # {} =>
                \A n \in 1..Len(conns) : place = 0 \/ n < place => entry[conns[n]] = cbEntry

\* With an entry from the database, no selection is without one afterwards.
Loaded == /\ Up => cbEntry # {}
          /\ Up /\ (place = 0 \/ cause \in Sels) => \A s \in Sels : entry[s] # {}

About(e, s) == e[1] = "selection" /\ e[2] = s

\* The selections that have the loaded entry: those that the update of them all,
\* which loading it causes, has come to.
Reached(s) == Up /\ ~(place # 0 /\ cause = Nobody /\ \E n \in place..Len(conns) : conns[n] = s)

\* The last event about a selection tells who its source client is.  If none is on
\* its way, the selection has the offer of that client, and its own idle is
\* pending if there is nobody and it has the loaded entry or a newer one.
Told(s) == \E n \in 1..Len(evq) : /\ evq[n] = SelectionEvent(s, owner[s])
                                  /\ \A m \in (n + 1)..Len(evq) : ~About(evq[m], s)

Silent(s) == \A n \in 1..Len(evq) : ~About(evq[n], s)

Knows(s) == /\ Silent(s)
            /\ offer[s] = (IF IsOurs(owner[s]) THEN Nobody ELSE owner[s])
            /\ Reached(s) /\ owner[s] = Nobody /\ entry[s] # {} => ownIdle[s]

HeldInv    == AllActive => Updated
Tracks     == \A s \in Sels : Present(s) => Told(s) \/ Knows(s)
PersistInv == AllActive => Loaded /\ Tracks

-----------------------------------------------------------------------------
(* Events about a selection                                                  *)

LEMMA AboutEvents ==
    ASSUME NEW s, NEW t, NEW o
    PROVE  /\ About(SelectionEvent(s, o), t) <=> s = t
           /\ ~About(CancelledEvent(s, o), t)
           /\ ~About(RemovedEvent(s), t)
BY DEF About, SelectionEvent, CancelledEvent, RemovedEvent

\* Events that are not about a selection join the others.
LEMMA JoinTold ==
    ASSUME NEW t, Len(evq) \in Nat, Len(evq') \in Nat, Len(evq) <= Len(evq'),
           \A n \in 1..Len(evq) : evq'[n] = evq[n],
           \A n \in (Len(evq) + 1)..Len(evq') : ~About(evq'[n], t),
           owner'[t] = owner[t]
    PROVE  /\ Told(t) => Told(t)'
           /\ Silent(t) => Silent(t)'
<1>1. ASSUME Told(t) PROVE Told(t)'
  <2>1. PICK n \in 1..Len(evq) : /\ evq[n] = SelectionEvent(t, owner[t])
                                 /\ \A m \in (n + 1)..Len(evq) : ~About(evq[m], t)
    BY <1>1 DEF Told
  <2>2. n \in 1..Len(evq') /\ evq'[n] = SelectionEvent(t, owner'[t])
    BY <2>1
  <2>3. ASSUME NEW m \in (n + 1)..Len(evq') PROVE ~About(evq'[m], t)
    <3>1. CASE m <= Len(evq)
      <4>1. m \in (n + 1)..Len(evq) /\ m \in 1..Len(evq)
        BY <2>3, <3>1
      <4> QED BY <2>1, <4>1
    <3>2. CASE ~(m <= Len(evq))
      <4>1. m \in (Len(evq) + 1)..Len(evq')
        BY <2>3, <3>2
      <4> QED BY <4>1
    <3> QED BY <3>1, <3>2
  <2> QED BY <2>2, <2>3 DEF Told
<1>2. ASSUME Silent(t) PROVE Silent(t)'
  <2>1. ASSUME NEW m \in 1..Len(evq') PROVE ~About(evq'[m], t)
    <3>1. CASE m <= Len(evq)
      <4>1. m \in 1..Len(evq)
        BY <2>1, <3>1
      <4> QED BY <1>2, <4>1 DEF Silent
    <3>2. CASE ~(m <= Len(evq))
      <4>1. m \in (Len(evq) + 1)..Len(evq')
        BY <2>1, <3>2
      <4> QED BY <4>1
    <3> QED BY <3>1, <3>2
  <2> QED BY <2>1 DEF Silent
<1> QED BY <1>1, <1>2

\* A new source client is told to everyone.
LEMMA SetOwnerTold ==
    ASSUME TypeOK, NEW s \in Sels, NEW o \in Owners, SetOwner(s, o)
    PROVE  /\ Told(s)'
           /\ \A t \in Sels : t # s => (Told(t) => Told(t)') /\ (Silent(t) => Silent(t)')
           /\ \A t \in Sels : t # s => owner'[t] = owner[t]
<1>1. /\ Len(evq) \in Nat /\ Len(evq') \in Nat /\ Len(evq') > Len(evq)
      /\ \A n \in 1..Len(evq) : evq'[n] = evq[n]
      /\ evq'[Len(evq')] = SelectionEvent(s, o)
      /\ \A n \in (Len(evq) + 1)..(Len(evq') - 1) : evq'[n] = CancelledEvent(s, owner[s])
      /\ owner'[s] = o /\ \A t \in Sels : t # s => owner'[t] = owner[t]
  BY SetOwnerEffect DEF TypeOK
<1>2. Told(s)'
  <2>1. Len(evq') \in 1..Len(evq') /\ evq'[Len(evq')] = SelectionEvent(s, owner'[s])
    BY <1>1
  <2>2. \A m \in (Len(evq') + 1)..Len(evq') : FALSE
    BY <1>1
  <2> QED BY <2>1, <2>2 DEF Told
<1>3. ASSUME NEW t \in Sels, t # s
      PROVE  (Told(t) => Told(t)') /\ (Silent(t) => Silent(t)')
  <2>1. ASSUME NEW n \in (Len(evq) + 1)..Len(evq') PROVE ~About(evq'[n], t)
    <3>1. CASE n = Len(evq')
      BY <1>1, <1>3, <3>1, AboutEvents
    <3>2. CASE n # Len(evq')
      <4>1. n \in (Len(evq) + 1)..(Len(evq') - 1)
        BY <1>1, <2>1, <3>2
      <4> QED BY <1>1, <4>1, AboutEvents
    <3> QED BY <3>1, <3>2
  <2> QED BY <1>1, <1>3, <2>1, JoinTold
<1> QED BY <1>1, <1>2, <1>3

\* An event arrives.
LEMMA ArrivesTold ==
    ASSUME TypeOK, NEW e, Arrives(e), NEW t \in Sels, owner'[t] = owner[t]
    PROVE  /\ Told(t) => Told(t)' \/ (e = SelectionEvent(t, owner[t]) /\ Silent(t)')
           /\ Silent(t) => Silent(t)' /\ ~About(e, t)
<1>1. /\ Len(evq) \in Nat \ {0} /\ evq[1] = e /\ Len(evq') = Len(evq) - 1
      /\ \A n \in 1..Len(evq') : evq'[n] = evq[n + 1]
  BY ArrivesEffect DEF TypeOK
<1>2. ASSUME Told(t) PROVE Told(t)' \/ (e = SelectionEvent(t, owner[t]) /\ Silent(t)')
  <2>1. PICK n \in 1..Len(evq) : /\ evq[n] = SelectionEvent(t, owner[t])
                                 /\ \A m \in (n + 1)..Len(evq) : ~About(evq[m], t)
    BY <1>2 DEF Told
  <2>2. \A m \in n..Len(evq') : m \in 1..Len(evq') /\ ~About(evq'[m], t)
    <3>1. \A m \in n..Len(evq') : m + 1 \in (n + 1)..Len(evq) /\ m \in 1..Len(evq')
      BY <1>1
    <3> QED BY <1>1, <2>1, <3>1
  <2>3. CASE n = 1
    BY <1>1, <2>1, <2>2, <2>3 DEF Silent
  <2>4. CASE n # 1
    <3>1. n - 1 \in 1..Len(evq') /\ (n - 1) + 1 = n
      BY <1>1, <2>4
    <3>2. evq'[n - 1] = SelectionEvent(t, owner'[t])
      BY <1>1, <2>1, <3>1
    <3> QED BY <2>2, <3>1, <3>2 DEF Told
  <2> QED BY <2>3, <2>4
<1>3. ASSUME Silent(t) PROVE Silent(t)' /\ ~About(e, t)
  <2>1. 1 \in 1..Len(evq) /\ \A n \in 1..Len(evq') : n + 1 \in 1..Len(evq)
    BY <1>1
  <2> QED BY <1>1, <1>3, <2>1 DEF Silent
<1> QED BY <1>2, <1>3

-----------------------------------------------------------------------------
(* The entries of the selections                                             *)

\* A selection never becomes active again.
LEMMA ActiveFalls ==
    ASSUME TypeOK, [Next]_vars, AllActive'
    PROVE  AllActive /\ UNCHANGED active
<1>1. ASSUME NEW t, MakeInert(t) PROVE AllActive /\ UNCHANGED active
  <2>1. \A s \in Sels : active'[s] = (active[s] /\ SeatOf[s] # t)
    BY <1>1 DEF MakeInert
  <2>2. \A s \in Sels : active'[s] \in BOOLEAN /\ active[s] \in BOOLEAN /\ active'[s]
    BY <2>1 DEF TypeOK, AllActive
  <2>3. \A s \in Sels : active[s] /\ SeatOf[s] # t
    BY <2>1, <2>2
  <2>4. active' = [s \in Sels |-> active[s] /\ SeatOf[s] # t] /\ active = [s \in Sels |-> active[s]]
    BY <1>1 DEF MakeInert, TypeOK
  <2>5. active' = active
    BY <2>2, <2>3, <2>4
  <2> QED BY <2>3, <2>5 DEF AllActive
<1>2. ASSUME UNCHANGED active PROVE AllActive /\ UNCHANGED active
  BY <1>2 DEF AllActive
<1> QED BY <1>1, <1>2
   DEF Next, Program, StartLoop, LoadDatabase, UpdateNext, UpdatesDone, Events, NewOffer, Cancelled, Update, Own,
       OwnIdle, ReadFails, NextMimeType, Finish, Others, Copy, Clear, RemoveSeat, vars, wvars,
       selections

\* A step that changes neither an entry nor where the update of all of them is.
LEMMA SameEntries ==
    ASSUME HeldInv, UNCHANGED <<conns, place, entry, cbEntry>>, AllActive' => AllActive
    PROVE  HeldInv'
<1>1. Updated' = Updated
  BY DEF Updated
<1> QED BY <1>1 DEF HeldInv

LEMMA HeldStep == TypeOK /\ HeldInv /\ [Next]_vars => HeldInv'
<1> SUFFICES ASSUME TypeOK, HeldInv, [Next]_vars PROVE HeldInv'
  OBVIOUS
<1>0. AllActive' => AllActive /\ UNCHANGED active
  BY ActiveFalls
<1>1. ASSUME LoadDatabase PROVE HeldInv'
  <2>1. UNCHANGED <<conns, entry>> /\ (place' = 1 \/ cbEntry' = {})
    BY <1>1 DEF LoadDatabase, UpdateSelections, walk, wvars, selections
  <2>2. AllActive => Updated'
    <3>1. \A n \in 1..Len(conns) : ~(n < 1)
      OBVIOUS
    <3> QED BY <2>1, <3>1 DEF HeldInv, Updated
  <2> QED BY <1>0, <2>2 DEF HeldInv
<1>11. ASSUME StartLoop PROVE HeldInv'
  BY <1>0, <1>11, SameEntries DEF StartLoop, wvars, selections, walk
<1>2. ASSUME UpdateNext PROVE HeldInv'
  <2> DEFINE s == conns[place]
  <2>1. /\ place \in 1..Len(conns) /\ s \in Sels /\ place' = place + 1 /\ place \in Nat
        /\ UNCHANGED <<active, cbEntry>>
    BY <1>2 DEF UpdateNext, TypeOK, received
  <2>3. ASSUME AllActive PROVE Updated'
    <3>1. entry' = [entry EXCEPT ![s] = cbEntry] /\ UNCHANGED conns
      BY <1>2, <2>1, <2>3 DEF UpdateNext, UpdateSelection, AllActive
    <3>2. entry'[s] = cbEntry /\ \A t \in Sels : t # s => entry'[t] = entry[t]
      BY <2>1, <3>1 DEF TypeOK
    <3>3. \A n \in 1..Len(conns) : conns[n] \in Sels
      BY DEF TypeOK
    <3>4. ASSUME cbEntry # {}, NEW n \in 1..Len(conns), n < place' PROVE entry'[conns[n]] = cbEntry
      <4>1. CASE conns[n] = s
        BY <3>2, <4>1
      <4>2. CASE conns[n] # s
        <5>1. n < place
          BY <2>1, <3>4, <4>2
        <5> QED BY <2>3, <3>2, <3>3, <3>4, <4>2, <5>1 DEF HeldInv, Updated
      <4> QED BY <4>1, <4>2
    <3>5. place' # 0
      BY <2>1
    <3> QED BY <2>1, <2>3, <3>1, <3>4, <3>5 DEF HeldInv, Updated
  <2> QED BY <1>0, <2>3 DEF HeldInv
<1>3. ASSUME UpdatesDone PROVE HeldInv'
  <2>1. /\ place \in Nat /\ place > Len(conns) /\ Len(conns) \in Nat /\ place' = 0
        /\ UNCHANGED <<conns, entry, cbEntry>>
    BY <1>3 DEF UpdatesDone, Busy, wvars, selections, received, TypeOK, HeldInv
  <2>2. \A n \in 1..Len(conns) : n < place
    BY <2>1
  <2>3. ASSUME AllActive PROVE Updated'
    <3>1. Updated
      BY <2>3 DEF HeldInv
    <3> QED BY <2>1, <2>2, <3>1 DEF Updated
  <2> QED BY <1>0, <2>1, <2>3 DEF HeldInv
<1>4. ASSUME Events, UNCHANGED cvars PROVE HeldInv'
  BY <1>0, <1>4, SameEntries DEF Events, NewOffer, Cancelled, MakeInert, cvars, received, walk
<1>5. ASSUME NEW s \in Sels, Update(s) PROVE HeldInv'
  BY <1>0, <1>5, SameEntries DEF Update, selections, walk
<1>6. ASSUME NEW s \in Sels, Own(s) PROVE HeldInv'
  BY <1>0, <1>6, SameEntries DEF Own, OwnIdle, cvars, received, walk
<1>7. ASSUME NEW x \in ctxs, ReadFails(x) \/ NextMimeType(x) PROVE HeldInv'
  BY <1>0, <1>7, SameEntries DEF ReadFails, NextMimeType, wvars, selections, walk
<1>8. ASSUME NEW x \in ctxs, Finish(x) PROVE HeldInv'
  <2>1. place' = 1 /\ UNCHANGED <<conns, entry>>
    BY <1>8 DEF Finish, UpdateSelections, wvars, selections
  <2>2. AllActive => Updated'
    BY <2>1 DEF HeldInv, Updated
  <2> QED BY <1>0, <2>2 DEF HeldInv
<1>9. ASSUME Others, UNCHANGED cvars PROVE HeldInv'
  BY <1>0, <1>9, SameEntries DEF Others, Copy, Clear, RemoveSeat, selections, cvars, received, walk
<1>10. ASSUME UNCHANGED vars PROVE HeldInv'
  BY <1>0, <1>10, SameEntries DEF vars, wvars, selections, cvars, received, walk
<1> QED BY <1>1, <1>2, <1>3, <1>4, <1>5, <1>6, <1>7, <1>8, <1>9, <1>10, <1>11 DEF Next, Program

\* All selections are connected at the start.
LEMMA AllConnected ==
    ASSUME NEW S, IsFiniteSet(S), NEW q \in SetToSeqs(S), NEW s \in S
    PROVE  \E n \in 1..Len(q) : q[n] = s
<1>1. /\ q \in Seq(S) /\ Len(q) = Cardinality(S) /\ Cardinality(S) \in Nat
      /\ \A n, m \in 1..Len(q) : n # m => q[n] # q[m]
  BY AllInOrder, FS_CardinalityType
<1> DEFINE D == 1..Cardinality(S)
<1>2. IsFiniteSet(D) /\ Cardinality(D) = Cardinality(S)
  BY <1>1, FS_Interval
<1>3. q \in [D -> S] /\ \A n, m \in D : q[n] = q[m] => n = m
  BY <1>1
<1> HIDE DEF D
<1>4. q \in Injection(D, S)
  BY <1>3 DEF Injection, IsInjective
<1>5. q \in Surjection(D, S)
  BY <1>2, <1>4, FS_Injection
<1> QED BY <1>1, <1>5 DEF D, Surjection

LEMMA HeldStart == Init => HeldInv
<1> SUFFICES ASSUME Init PROVE HeldInv
  OBVIOUS
<1>1. cbEntry = {} /\ conns \in SetToSeqs(Sels)
  BY DEF Init
<1>2. conns \in Seq(Sels) /\ \A s \in Sels : \E n \in 1..Len(conns) : conns[n] = s
  BY <1>1, AllInOrder, AllConnected, SelsAssumption
<1> QED BY <1>1, <1>2 DEF HeldInv, Updated

LEMMA HeldHolds == Spec => []HeldInv
BY HeldStart, HeldStep, TypesHold, PTL DEF Spec

\* The selections of one seat become inert together.
LEMMA ActiveTogether ==
    ASSUME SameSeat
    PROVE  Spec => [](\A s, t \in Sels : active[s] = active[t])
<1> DEFINE Together == \A s, t \in Sels : active[s] = active[t]
<1>1. Init => Together
  BY DEF Init, WInit
<1>2. TypeOK /\ Together /\ [Next]_vars => Together'
  <2> SUFFICES ASSUME TypeOK, Together, [Next]_vars PROVE Together'
    OBVIOUS
  <2>1. ASSUME NEW u, MakeInert(u) PROVE Together'
    BY <2>1, SameSeat DEF SameSeat, MakeInert
  <2>2. ASSUME UNCHANGED active PROVE Together'
    BY <2>2
  <2> QED BY <2>1, <2>2
     DEF Next, Program, StartLoop, LoadDatabase, UpdateNext, UpdatesDone, Events, NewOffer, Cancelled, Update,
         Own, OwnIdle, ReadFails, NextMimeType, Finish, Others, Copy, Clear, RemoveSeat, vars, wvars,
         selections
<1> HIDE DEF Together
<1>3. Spec => []Together
  BY <1>1, <1>2, TypesHold, PTL DEF Spec
<1> QED BY <1>3 DEF Together

\* What the program offers in a selection of a seat is the clipboard's entry, if it
\* has one, once everything has settled, although the selections get it one after the other
\* while others copy, clear and leave.  With several seats it need not be: the
\* update passes over the selection behind one that it removes.  And the clipboard
\* may have none: loading an empty database drops an entry that was received before,
\* which the selections keep.
THEOREM OffersAreHeld ==
    ASSUME SameSeat
    PROVE  Spec => []OffersHeld
<1>1. HeldInv /\ (\A s, t \in Sels : active[s] = active[t]) => OffersHeld
  <2>1. SUFFICES ASSUME HeldInv, \A s, t \in Sels : active[s] = active[t], Quiet,
                        cbEntry # {}, NEW s \in Sels, active[s]
                 PROVE  entry[s] = cbEntry
    BY DEF OffersHeld
  <2>2. AllActive /\ place = 0
    BY <2>1 DEF AllActive, Quiet, Busy
  <2> QED BY <2>1, <2>2 DEF HeldInv, Updated
<1> QED BY <1>1, HeldHolds, ActiveTogether, PTL

-----------------------------------------------------------------------------
(* The selections that are left empty                                        *)

LEMMA LoadedStep ==
    ASSUME {} \notin Stored, TypeOK, HeldInv, AllActive, Loaded, [Next]_vars, AllActive'
    PROVE  Loaded'
<1>0. HeldInv'
  BY HeldStep
<1>1. ASSUME LoadDatabase PROVE Loaded'
  <2>1. /\ cbEntry' # {} /\ place' = 1 /\ cause' = Nobody
    BY <1>1 DEF LoadDatabase, UpdateSelections
  <2> QED BY <2>1, NobodyAssumption DEF Loaded
<1>2. ASSUME UpdateNext PROVE Loaded'
  <2> DEFINE s == conns[place]
  <2>1. /\ place \in Nat /\ place # 0 /\ s \in Sels /\ place' = place + 1
        /\ UNCHANGED <<cbEntry, stage, cause>>
    BY <1>2 DEF UpdateNext, TypeOK, received
  <2>2. entry' = [entry EXCEPT ![s] = cbEntry]
    BY <1>2, <2>1 DEF UpdateNext, UpdateSelection, AllActive
  <2>3. \A t \in Sels : entry'[t] = IF t = s THEN cbEntry ELSE entry[t]
    BY <2>1, <2>2 DEF TypeOK
  <2>4. place' # 0
    BY <2>1
  <2> QED BY <2>1, <2>3, <2>4 DEF Loaded, Up
<1>3. ASSUME UpdatesDone PROVE Loaded'
  <2>1. UNCHANGED <<cbEntry, stage>> /\ place' = 0
    BY <1>3 DEF UpdatesDone, received
  <2>2. cbEntry # {} => \A s \in Sels : entry'[s] = cbEntry'
    BY <1>0, <2>1 DEF HeldInv, Updated
  <2> QED BY <2>1, <2>2 DEF Loaded, Up
<1>4. ASSUME NEW x \in ctxs, Finish(x) PROVE Loaded'
  <2>1. place = 0 /\ cbEntry' = WithData(x) /\ UNCHANGED <<entry, stage>>
    BY <1>4 DEF Finish, Callback, Busy, wvars, selections
  <2>2. WithData(x) # {}
    BY DEF WithData
  <2> QED BY <2>1, <2>2 DEF Loaded, Up
<1>5. ASSUME UNCHANGED <<stage, place, cause, entry, cbEntry>> PROVE Loaded'
  BY <1>5 DEF Loaded, Up
<1>6. ASSUME StartLoop PROVE Loaded'
  BY <1>6 DEF StartLoop, Loaded, Up
<1> QED BY <1>1, <1>2, <1>3, <1>4, <1>5, <1>6
   DEF Next, Program, Events, NewOffer, Cancelled, MakeInert, Update, Own, OwnIdle, ReadFails,
       NextMimeType, Others, Copy, Clear, RemoveSeat, vars, wvars, selections, cvars, received, walk

\* How far an update has come changes only with its own steps.
LEMMA SameReached ==
    ASSUME UNCHANGED <<stage, walk>>
    PROVE  \A t : Reached(t)' = Reached(t)
BY DEF Reached, Up, walk

\* A selection has a new source client; the others are not concerned.
LEMMA SetOwnerTracks ==
    ASSUME TypeOK, Tracks, NEW s \in Sels, NEW o \in Owners, SetOwner(s, o), UNCHANGED removed,
           \A t \in Sels : t # s => /\ offer'[t] = offer[t] /\ entry'[t] = entry[t]
                                    /\ ownIdle'[t] = ownIdle[t] /\ (Reached(t)' => Reached(t))
    PROVE  Tracks'
<1>1. /\ Told(s)'
      /\ \A t \in Sels : t # s => (Told(t) => Told(t)') /\ (Silent(t) => Silent(t)')
      /\ \A t \in Sels : t # s => owner'[t] = owner[t]
  BY SetOwnerTold
<1>2. ASSUME NEW t \in Sels, t # s, Present(t)' PROVE Told(t)' \/ Knows(t)'
  <2>1. Told(t) \/ Knows(t)
    BY <1>2 DEF Tracks, Present
  <2>2. /\ Silent(t) => Silent(t)'
        /\ offer'[t] = offer[t] /\ entry'[t] = entry[t] /\ ownIdle'[t] = ownIdle[t]
        /\ owner'[t] = owner[t] /\ (Reached(t)' => Reached(t))
    BY <1>1, <1>2
  <2> QED BY <1>1, <1>2, <2>1, <2>2 DEF Knows
<1> QED BY <1>1, <1>2 DEF Tracks

\* A step in which nothing is sent or received.
LEMMA SameTracks ==
    ASSUME Tracks, UNCHANGED <<owner, evq, removed>>,
           \A t \in Sels : Present(t) =>
                /\ offer'[t] = offer[t]
                /\ Reached(t)' =>
                    /\ Reached(t)
                    /\ ownIdle'[t] = ownIdle[t] \/ owner[t] # Nobody \/ offer[t] # Nobody
                    /\ entry'[t] = entry[t] \/ (entry[t] # {} /\ ownIdle'[t] = ownIdle[t])
    PROVE  Tracks'
<1>1. ASSUME NEW t \in Sels, Present(t)' PROVE Told(t)' \/ Knows(t)'
  <2>1. Present(t) /\ (Told(t) \/ Knows(t))
    BY <1>1 DEF Tracks, Present
  <2>2. Told(t) => Told(t)'
    BY DEF Told
  <2>3. Silent(t) => Silent(t)'
    BY DEF Silent
  <2>4. Knows(t) => Knows(t)'
    BY <2>1, <2>3, NobodyIsNotOurs DEF Knows
  <2> QED BY <2>1, <2>2, <2>4
<1> QED BY <1>1 DEF Tracks

LEMMA BecomeSourceTracks ==
    ASSUME TypeOK, Tracks, NEW s \in Sels, NEW e, BecomeSource(s, e), UNCHANGED <<removed, offer>>,
           \A t \in Sels : t # s => /\ entry'[t] = entry[t] /\ ownIdle'[t] = ownIdle[t]
                                    /\ Reached(t)' => Reached(t)
    PROVE  Tracks'
<1>1. PICK o \in Owners : IF Present(s) THEN SetOwner(s, o) ELSE UNCHANGED <<owner, evq>>
  BY BecomeSourceEffect
<1>2. CASE Present(s)
  BY <1>1, <1>2, SetOwnerTracks
<1>3. CASE ~Present(s)
  BY <1>1, <1>3, SameTracks
<1> QED BY <1>2, <1>3

\* An offer arrives.
LEMMA OfferTracks ==
    ASSUME TypeOK, Tracks, NEW s \in Sels, NEW o, NewOffer(s, o), UNCHANGED cvars
    PROVE  Tracks'
<1>1. /\ Arrives(SelectionEvent(s, o)) /\ UNCHANGED <<owner, removed, entry>>
      /\ offer'[s] = (IF IsOurs(o) THEN Nobody ELSE o)
      /\ ownIdle'[s] = (o = Nobody /\ entry[s] # {})
      /\ \A t \in Sels : t # s => offer'[t] = offer[t] /\ ownIdle'[t] = ownIdle[t]
      /\ \A t : Reached(t)' = Reached(t)
  BY SameReached DEF NewOffer, FromClippor, TypeOK, cvars, received
<1>2. ASSUME NEW t \in Sels, Present(t)' PROVE Told(t)' \/ Knows(t)'
  <2>1. /\ Told(t) => Told(t)' \/ (SelectionEvent(s, o) = SelectionEvent(t, owner[t]) /\ Silent(t)')
        /\ Silent(t) => Silent(t)' /\ ~About(SelectionEvent(s, o), t)
    BY <1>1, ArrivesTold
  <2>2. Told(t) \/ Knows(t)
    BY <1>1, <1>2 DEF Tracks, Present
  <2>3. CASE Told(t) /\ SelectionEvent(s, o) = SelectionEvent(t, owner[t]) /\ Silent(t)'
    <3>1. s = t /\ o = owner[t]
      BY <2>3, EventsDiffer
    <3> QED BY <1>1, <2>3, <3>1 DEF Knows
  <2>4. CASE Knows(t)
    <3>1. Silent(t)' /\ s # t
      BY <2>1, <2>4, AboutEvents DEF Knows
    <3> QED BY <1>1, <2>4, <3>1 DEF Knows
  <2> QED BY <2>1, <2>2, <2>3, <2>4
<1> QED BY <1>2 DEF Tracks

\* Some other event arrives.
LEMMA EventTracks ==
    ASSUME TypeOK, Tracks, NEW e, Arrives(e), \A t \in Sels : ~About(e, t),
           UNCHANGED <<owner, removed, entry, ownIdle>>, \A t \in Sels : offer'[t] = offer[t],
           UNCHANGED cvars
    PROVE  Tracks'
<1>1. ASSUME NEW t \in Sels, Present(t)' PROVE Told(t)' \/ Knows(t)'
  <2>1. Told(t) \/ Knows(t)
    BY <1>1 DEF Tracks, Present
  <2>2. Silent(t) => Silent(t)'
    BY ArrivesTold
  <2>3. Told(t) => Told(t)' \/ e = SelectionEvent(t, owner[t])
    BY ArrivesTold
  <2>4. e # SelectionEvent(t, owner[t])
    BY AboutEvents
  <2>5. Reached(t)' = Reached(t)
    BY SameReached DEF cvars, received
  <2> QED BY <2>1, <2>2, <2>3, <2>4, <2>5 DEF Knows
<1> QED BY <1>1 DEF Tracks

LEMMA RemoveSeatTracks ==
    ASSUME TypeOK, Tracks, NEW u \in Seats, RemoveSeat(u), UNCHANGED cvars
    PROVE  Tracks'
<1>1. /\ removed' = removed \cup {u} /\ evq' = Append(evq, RemovedEvent(u))
      /\ owner' = [s \in Sels |-> IF SeatOf[s] = u THEN Nobody ELSE owner[s]]
      /\ UNCHANGED <<offer, entry, ownIdle>> /\ \A t : Reached(t)' = Reached(t)
  BY SameReached DEF RemoveSeat, selections, cvars, received
<1>2. /\ Len(evq) \in Nat /\ Len(evq') = Len(evq) + 1 /\ evq'[Len(evq) + 1] = RemovedEvent(u)
      /\ \A n \in 1..Len(evq) : evq'[n] = evq[n]
  BY <1>1 DEF TypeOK
<1>3. ASSUME NEW t \in Sels, Present(t)' PROVE Told(t)' \/ Knows(t)'
  <2>1. Present(t) /\ owner'[t] = owner[t]
    BY <1>1, <1>3 DEF Present
  <2>2. ASSUME NEW n \in (Len(evq) + 1)..Len(evq') PROVE ~About(evq'[n], t)
    <3>1. n = Len(evq) + 1
      BY <1>2, <2>2
    <3> QED BY <1>2, <3>1, AboutEvents
  <2>3. (Told(t) => Told(t)') /\ (Silent(t) => Silent(t)')
    BY <1>2, <2>1, <2>2, JoinTold
  <2> QED BY <1>1, <2>1, <2>3 DEF Tracks, Knows
<1> QED BY <1>3 DEF Tracks

LEMMA TracksStep ==
    ASSUME {} \notin Stored, TypeOK, HeldInv, AllActive, Loaded, Tracks, [Next]_vars, AllActive'
    PROVE  Tracks'
<1>a. ASSUME UNCHANGED <<owner, evq, removed, offer, entry, ownIdle>>,
             \A t \in Sels : Reached(t)' => Reached(t)
      PROVE  Tracks'
  BY <1>a, SameTracks
<1>b. UNCHANGED <<stage, walk>> => \A t : Reached(t)' = Reached(t)
  BY SameReached
<1>1. ASSUME StartLoop PROVE Tracks'
  BY <1>1, <1>a DEF StartLoop, wvars, compositor, selections, Reached, Up
<1>10. ASSUME LoadDatabase PROVE Tracks'
  <2>1. place' = 1 /\ cause' = Nobody /\ conns' = conns
    BY <1>10 DEF LoadDatabase, UpdateSelections
  <2>2. \A t \in Sels : ~Reached(t)'
    BY <2>1 DEF HeldInv, Updated, Reached
  <2> QED BY <1>10, <1>a, <2>2 DEF LoadDatabase, wvars, compositor, selections
<1>2. ASSUME UpdateNext PROVE Tracks'
  <2> DEFINE s == conns[place]
  <2>1. /\ place \in 1..Len(conns) /\ place' = place + 1 /\ s \in Sels
        /\ UNCHANGED <<removed, offer, ownIdle, conns, stage, cause>>
        /\ UpdateSelection(s, cbEntry, cause)
    BY <1>2 DEF UpdateNext, TypeOK, received, AllActive
  <2>2. \A t \in Sels : t # s => entry'[t] = entry[t]
    BY <2>1 DEF UpdateSelection, TypeOK
  <2>3. ASSUME NEW t \in Sels, t # s \/ cause # Nobody, Reached(t)' PROVE Reached(t)
    <3>1. ASSUME cause = Nobody, NEW n \in place..Len(conns), conns[n] = t PROVE FALSE
      <4>1. n # place /\ n \in (place + 1)..Len(conns)
        BY <2>1, <2>3, <3>1
      <4>2. place + 1 # 0
        BY <2>1
      <4> QED BY <2>1, <2>3, <3>1, <4>1, <4>2 DEF Reached
    <3> QED BY <2>1, <2>3, <3>1 DEF Reached, Up
  <2>4. CASE s = cause
    <3>1. UNCHANGED <<owner, evq>> /\ cause # Nobody /\ cause \in Sels
      BY <2>1, <2>4, NobodyAssumption DEF UpdateSelection
    <3>2. Up => entry[s] # {}
      BY <2>4, <3>1 DEF Loaded
    <3>3. \A t : Reached(t)' => Up
      BY <2>1 DEF Reached, Up
    <3> HIDE DEF s
    <3>4. \A t \in Sels : Reached(t)' =>
            /\ Reached(t)
            /\ entry'[t] = entry[t] \/ (entry[t] # {} /\ ownIdle'[t] = ownIdle[t])
      <4>1. SUFFICES ASSUME NEW t \in Sels, Reached(t)'
                     PROVE  /\ Reached(t)
                            /\ entry'[t] = entry[t] \/ (entry[t] # {} /\ ownIdle'[t] = ownIdle[t])
        OBVIOUS
      <4>2. Reached(t)
        BY <2>3, <3>1, <4>1
      <4>3. CASE t = s
        <5>1. entry[t] # {}
          BY <3>2, <3>3, <4>1, <4>3
        <5>2. ownIdle'[t] = ownIdle[t]
          BY <2>1
        <5> QED BY <4>2, <5>1, <5>2
      <4>4. CASE t # s
        BY <2>2, <4>2, <4>4
      <4> QED BY <4>3, <4>4
    <3> QED BY <2>1, <3>1, <3>4, SameTracks
  <2>5. CASE s # cause
    <3>1. BecomeSource(s, cbEntry)
      BY <2>1, <2>5 DEF UpdateSelection
    <3> HIDE DEF s
    <3> QED BY <2>1, <2>2, <2>3, <3>1, BecomeSourceTracks
  <2> QED BY <2>4, <2>5
<1>3. ASSUME UpdatesDone PROVE Tracks'
  <2>1. /\ place \in Nat /\ place > Len(conns) /\ Len(conns) \in Nat
        /\ UNCHANGED <<conns, stage>>
    BY <1>3 DEF UpdatesDone, received, TypeOK
  <2>2. \A n \in place..Len(conns) : FALSE
    BY <2>1
  <2>3. \A t : Reached(t)' => Reached(t)
    BY <2>1, <2>2 DEF Reached, Up
  <2> QED BY <1>3, <1>a, <2>3 DEF UpdatesDone, wvars, compositor, selections
<1>4. ASSUME Events, UNCHANGED cvars PROVE Tracks'
  <2>1. ASSUME NEW s \in Sels, NEW o, Cancelled(s, o) PROVE Tracks'
    BY <1>4, <2>1, EventTracks, AboutEvents DEF Cancelled
  <2>2. ASSUME NEW u \in Seats, MakeInert(u) PROVE Tracks'
    <3>1. \A t \in Sels : SeatOf[t] # u
      BY <2>2 DEF MakeInert, AllActive
    <3>2. \A t \in Sels : offer'[t] = offer[t]
      BY <2>2, <3>1 DEF MakeInert
    <3> QED BY <1>4, <2>2, <3>2, EventTracks, AboutEvents DEF MakeInert
  <2> QED BY <1>4, <2>1, <2>2, OfferTracks DEF Events
<1>5. ASSUME NEW s \in Sels, Update(s) PROVE Tracks'
  BY <1>5, <1>a, <1>b DEF Update, compositor, selections
<1>6. ASSUME NEW s \in Sels, Own(s) PROVE Tracks'
  <2>1. /\ UNCHANGED <<removed, offer, entry>>
        /\ \A t \in Sels : t # s => ownIdle'[t] = ownIdle[t]
        /\ \A t : Reached(t)' = Reached(t)
    BY <1>6, <1>b DEF Own, OwnIdle, TypeOK, cvars, received
  <2>2. CASE BecomeSource(s, entry[s])
    BY <2>1, <2>2, BecomeSourceTracks
  <2>3. CASE offer[s] # Nobody /\ UNCHANGED <<owner, evq>>
    BY <2>1, <2>3, SameTracks
  <2> QED BY <1>6, <2>2, <2>3 DEF Own, OwnIdle, AllActive
<1>7. ASSUME NEW x \in ctxs, ReadFails(x) \/ NextMimeType(x) PROVE Tracks'
  BY <1>7, <1>a, <1>b DEF ReadFails, NextMimeType, wvars, compositor, selections
<1>11. ASSUME NEW x \in ctxs, Finish(x) PROVE Tracks'
  <2>1. place = 0 /\ UNCHANGED stage
    BY <1>11 DEF Finish, Callback, Busy
  <2>2. \A t : Reached(t)' => Reached(t)
    BY <2>1 DEF Reached, Up
  <2> QED BY <1>11, <1>a, <2>2 DEF Finish, wvars, compositor, selections
<1>8. ASSUME Others, UNCHANGED cvars PROVE Tracks'
  <2>0. \A t : Reached(t)' = Reached(t)
    BY <1>8, <1>b DEF cvars, received
  <2>1. ASSUME NEW s \in Sels, NEW list \in Lists, Copy(s, list) PROVE Tracks'
    <3>1. Len(lists) + 1 \in Nat
      BY DEF TypeOK
    <3>2. Client(Len(lists) + 1) \in Owners
      BY <3>1, OwnersFacts
    <3> QED BY <2>0, <2>1, <3>2, SetOwnerTracks DEF Copy, selections
  <2>2. ASSUME NEW s \in Sels, Clear(s) PROVE Tracks'
    BY <2>0, <2>2, SetOwnerTracks, OwnersFacts DEF Clear, selections
  <2> QED BY <1>8, <2>1, <2>2, RemoveSeatTracks DEF Others
<1>9. ASSUME UNCHANGED vars PROVE Tracks'
  BY <1>9, <1>a, <1>b DEF vars, wvars, compositor, selections, cvars, received
<1> QED BY <1>1, <1>2, <1>3, <1>4, <1>5, <1>6, <1>7, <1>8, <1>9, <1>10, <1>11 DEF Next, Program

LEMMA PersistStart == Init => PersistInv
<1> SUFFICES ASSUME Init PROVE PersistInv
  OBVIOUS
<1>1. /\ owner = [s \in Sels |-> Nobody] /\ stage = "displays" /\ entry = [s \in Sels |-> {}]
  BY DEF Init, WInit
<1>2. PICK ss \in SetToSeqs(Sels) :
                evq = [n \in 1..Cardinality(Sels) |-> SelectionEvent(ss[n], Nobody)]
  BY DEF Init, WInit
<1>3. /\ Len(evq) = Cardinality(Sels) /\ Len(ss) = Cardinality(Sels)
      /\ \A n, m \in 1..Len(ss) : n # m => ss[n] # ss[m]
  BY <1>2, AllInOrder, SelsAssumption, FS_CardinalityType
<1>4. ASSUME NEW s \in Sels PROVE Told(s)
  <2>1. PICK n \in 1..Len(ss) : ss[n] = s
    BY AllConnected, SelsAssumption
  <2>2. evq[n] = SelectionEvent(s, owner[s]) /\ n \in 1..Len(evq)
    BY <1>1, <1>2, <1>3, <2>1
  <2>3. ASSUME NEW m \in (n + 1)..Len(evq) PROVE ~About(evq[m], s)
    <3>1. m \in 1..Len(ss) /\ m # n /\ Len(ss) \in Nat
      BY <1>3, <2>1, <2>3, SelsAssumption, FS_CardinalityType
    <3>2. evq[m] = SelectionEvent(ss[m], Nobody) /\ ss[m] # s
      BY <1>2, <1>3, <2>1, <3>1
    <3> QED BY <3>2, AboutEvents
  <2> QED BY <2>2, <2>3 DEF Told
<1> QED BY <1>1, <1>4 DEF PersistInv, Loaded, Tracks, Up

\* Once everything has settled, no selection of a seat is left empty while the
\* clipboard has an entry, whichever clients have gone, been cancelled, failed or
\* been too late.  With an empty database it need not be: a client that is gone
\* before its first entry is complete leaves its selection empty.
THEOREM SelectionsPersist ==
    ASSUME SameSeat, {} \notin Stored
    PROVE  Spec => []Persists
<1>1. TypeOK /\ HeldInv /\ PersistInv /\ [Next]_vars => PersistInv'
  <2> SUFFICES ASSUME TypeOK, HeldInv, PersistInv, [Next]_vars, AllActive' PROVE Loaded' /\ Tracks'
    BY DEF PersistInv
  <2>1. AllActive /\ Loaded /\ Tracks
    BY ActiveFalls DEF PersistInv
  <2> QED BY <2>1, LoadedStep, TracksStep
<1>2. Spec => []PersistInv
  BY <1>1, PersistStart, TypesHold, HeldHolds, PTL DEF Spec
<1>3. Spec => []SourceInv
  BY SourceStart, SourceStep, TypesHold, PTL DEF Spec
<1>4. HeldInv /\ PersistInv /\ SourceInv /\ (\A s, t \in Sels : active[s] = active[t]) => Persists
  <2>1. SUFFICES ASSUME HeldInv, PersistInv, SourceInv, \A s, t \in Sels : active[s] = active[t],
                        Quiet, cbEntry # {}, NEW s \in Sels, active[s], owner[s] = Nobody
                 PROVE  FALSE
    BY DEF Persists
  <2>2. AllActive /\ place = 0 /\ Up /\ Len(evq) = 0 /\ Reached(s)
    BY <2>1 DEF AllActive, Quiet, Busy, Reached
  <2>3. entry[s] # {}
    BY <2>1, <2>2 DEF PersistInv, Loaded
  <2>4. Present(s)
    BY <2>1, <2>2 DEF SourceInv, SourceOf, Among
  <2>5. ~Told(s)
    BY <2>2 DEF Told
  <2>6. ownIdle[s]
    BY <2>1, <2>2, <2>3, <2>4, <2>5 DEF PersistInv, Tracks, Knows
  <2> QED BY <2>1, <2>6 DEF Quiet
<1> QED BY <1>2, <1>3, <1>4, HeldHolds, ActiveTogether, PTL

=============================================================================
