----------------------- MODULE ClipporClipboard_types -----------------------
(***************************************************************************)
(* Proofs about the events that are on their way to the program, the types *)
(* of what it keeps, and the sources that it knows of, for every set of    *)
(* selections and seats and any number of moves.                           *)
(***************************************************************************)
EXTENDS ClipporClipboard_proofs, SequenceTheorems, WellFoundedInduction

-----------------------------------------------------------------------------
(* The operators of the model                                                *)

LEMMA OwnersFacts ==
    /\ Nobody \in Owners /\ Nobody[1] = "nobody" /\ Nobody[2] = 0
    /\ \A c \in Nat : Client(c) \in Owners /\ Client(c)[1] = "client" /\ Client(c)[2] = c
    /\ \A k \in Nat : Clippor(k) \in Owners /\ Clippor(k)[1] = "clippor" /\ Clippor(k)[2] = k
    /\ \A o \in Owners : o[1] \in {"nobody", "client", "clippor"} /\ o[2] \in Nat /\ o = <<o[1], o[2]>>
BY DEF Owners, Nobody, Client, Clippor

LEMMA EventFacts ==
    /\ \A s \in Sels, o \in Owners : SelectionEvent(s, o) \in Event /\ CancelledEvent(s, o) \in Event
    /\ \A t \in Seats : RemovedEvent(t) \in Event
    /\ \A e \in Event : e[3][2] \in Nat
BY OwnersFacts DEF Event, SelectionEvent, CancelledEvent, RemovedEvent

\* The first mime type that is allowed, from one on, exists or is behind the end.
LEMMA NextAllowedFound ==
    ASSUME NEW T, NEW list \in Seq(T), NEW n \in 1..(Len(list) + 1)
    PROVE  /\ NextAllowed(list, n) \in n..(Len(list) + 1)
           /\ NextAllowed(list, n) <= Len(list) => list[NextAllowed(list, n)] \in Allowed
<1> DEFINE C == {j \in n..(Len(list) + 1) : j > Len(list) \/ list[j] \in Allowed}
           R == OpToRel(<, Nat)
<1>0. Len(list) \in Nat
  OBVIOUS
<1>1. \E x \in C : \A y \in C : ~(<<y, x>> \in R)
  <2>1. C \subseteq Nat /\ C # {}
    <3>1. Len(list) + 1 \in C
      BY <1>0
    <3> QED BY <1>0, <3>1
  <2> HIDE DEF C, R
  <2>2. IsWellFoundedOn(R, Nat)
    BY NatLessThanWellFounded DEF R
  <2> QED BY <2>1, <2>2, WFMin
<1>2. PICK j \in C : \A y \in C : ~(<<y, j>> \in R)
  BY <1>1
<1>3. \A k \in n..(j - 1) : list[k] \notin Allowed
  <2>1. SUFFICES ASSUME NEW k \in n..(j - 1), list[k] \in Allowed PROVE FALSE
    OBVIOUS
  <2>2. k \in C /\ k < j /\ k \in Nat /\ j \in Nat
    BY <1>0, <2>1
  <2>3. <<k, j>> \in R
    BY <2>2 DEF OpToRel
  <2> QED BY <1>2, <2>2, <2>3
<1>4. \E i \in n..(Len(list) + 1) : /\ i > Len(list) \/ list[i] \in Allowed
                                    /\ \A k \in n..(i - 1) : list[k] \notin Allowed
  BY <1>2, <1>3
<1>5. /\ NextAllowed(list, n) \in n..(Len(list) + 1)
      /\ NextAllowed(list, n) > Len(list) \/ list[NextAllowed(list, n)] \in Allowed
  BY <1>4 DEF NextAllowed
<1> QED BY <1>0, <1>5

\* The number of a new source is not that of a source that anyone knows of.
LEMMA NewSourceFresh ==
    ASSUME NEW s, evq \in Seq(Event), source[s] \in Nat, owner[s] \in Owners
    PROVE  /\ NewSource(s) \in Nat \ {0}
           /\ NewSource(s) # source[s] /\ NewSource(s) # owner[s][2]
           /\ \A n \in DOMAIN evq : NewSource(s) # evq[n][3][2]
<1> DEFINE seen == {evq[n][3][2] : n \in DOMAIN evq}
           two  == {source[s], owner[s][2]}
           f    == [n \in 1..Len(evq) |-> evq[n][3][2]]
           L    == Len(evq)
<1>1. L \in Nat /\ DOMAIN evq = 1..L
  OBVIOUS
<1>2. IsFiniteSet(seen) /\ Cardinality(seen) <= L /\ Cardinality(seen) \in Nat
  <2>1. f \in [1..L -> seen] /\ \A t \in seen : \E n \in 1..L : f[n] = t
    BY <1>1
  <2>2. IsFiniteSet(1..L) /\ Cardinality(1..L) = L
    <3> HIDE DEF L
    <3> QED BY <1>1, FS_Interval
  <2> HIDE DEF f, seen, L
  <2> QED BY <2>1, <2>2, ImageFinite, FS_CardinalityType
<1>3. IsFiniteSet(two \cup seen) /\ Cardinality(two \cup seen) <= L + 2
  <2> HIDE DEF seen, L
  <2>1. IsFiniteSet({}) /\ Cardinality({}) = 0
    BY FS_EmptySet
  <2> DEFINE one == seen \cup {source[s]}
  <2>2. IsFiniteSet(one) /\ Cardinality(one) \in Nat /\ Cardinality(one) <= Cardinality(seen) + 1
    <3>1. IsFiniteSet(one) /\ Cardinality(one) \in {Cardinality(seen), Cardinality(seen) + 1}
      BY <1>2, FS_AddElement
    <3> HIDE DEF one
    <3> QED BY <1>2, <3>1
  <2>3. two \cup seen = one \cup {owner[s][2]}
    OBVIOUS
  <2> HIDE DEF one, two
  <2>4. /\ IsFiniteSet(one \cup {owner[s][2]})
        /\ Cardinality(one \cup {owner[s][2]}) \in {Cardinality(one), Cardinality(one) + 1}
    BY <2>2, FS_AddElement
  <2>5. Cardinality(one \cup {owner[s][2]}) <= Cardinality(one) + 1
    BY <2>2, <2>4
  <2>6. Cardinality(one \cup {owner[s][2]}) \in Nat
    BY <2>4, FS_CardinalityType
  <2>7. Cardinality(one \cup {owner[s][2]}) <= L + 2
    BY <1>1, <1>2, <2>2, <2>5, <2>6
  <2> QED BY <2>3, <2>4, <2>7
<1>4. \E k \in 1..(L + 3) : k \notin two \cup seen
  <2> HIDE DEF two, seen
  <2>1. SUFFICES ASSUME 1..(L + 3) \subseteq two \cup seen PROVE FALSE
    OBVIOUS
  <2>2. Cardinality(1..(L + 3)) = L + 3
    BY <1>1, FS_Interval
  <2>3. Cardinality(1..(L + 3)) <= Cardinality(two \cup seen)
    BY <1>3, <2>1, FS_Subset
  <2>4. Cardinality(two \cup seen) \in Nat
    BY <1>3, FS_CardinalityType
  <2> QED BY <1>1, <1>3, <2>2, <2>3, <2>4
<1>5. NewSource(s) \in 1..(L + 3) /\ NewSource(s) \notin two \cup seen
  BY <1>4 DEF NewSource
<1> QED BY <1>1, <1>5

\* A new source client: what it adds to the events.
LEMMA SetOwnerEffect ==
    ASSUME evq \in Seq(Event), owner \in [Sels -> Owners], NEW s \in Sels, NEW o \in Owners,
           SetOwner(s, o)
    PROVE  /\ owner' \in [Sels -> Owners]
           /\ owner'[s] = o /\ \A t \in Sels : t # s => owner'[t] = owner[t]
           /\ evq' \in Seq(Event)
           /\ Len(evq') > Len(evq)
           /\ \A n \in 1..Len(evq) : evq'[n] = evq[n]
           /\ evq'[Len(evq')] = SelectionEvent(s, o)
           /\ \A n \in (Len(evq) + 1)..(Len(evq') - 1) :
                    IsOurs(owner[s]) /\ evq'[n] = CancelledEvent(s, owner[s])
           /\ IsOurs(owner[s]) => \E n \in 1..Len(evq') : evq'[n] = CancelledEvent(s, owner[s])
<1>1. owner' = [owner EXCEPT ![s] = o] /\ evq' = evq \o NewOwnerEvents(s, o)
  BY DEF SetOwner
<1>2. SelectionEvent(s, o) \in Event /\ CancelledEvent(s, owner[s]) \in Event
  BY EventFacts
<1>3. CASE IsOurs(owner[s])
  <2>1. NewOwnerEvents(s, o) = <<CancelledEvent(s, owner[s]), SelectionEvent(s, o)>>
    BY <1>3 DEF NewOwnerEvents
  <2> DEFINE new == <<CancelledEvent(s, owner[s]), SelectionEvent(s, o)>>
  <2>2. /\ new \in Seq(Event) /\ Len(new) = 2
        /\ new[1] = CancelledEvent(s, owner[s]) /\ new[2] = SelectionEvent(s, o)
    BY <1>2
  <2> HIDE DEF new
  <2>3. evq' = evq \o new
    BY <1>1, <2>1 DEF new
  <2>4. /\ evq \o new \in Seq(Event) /\ Len(evq \o new) = Len(evq) + Len(new)
        /\ \A n \in 1..(Len(evq) + Len(new)) :
                (evq \o new)[n] = IF n <= Len(evq) THEN evq[n] ELSE new[n - Len(evq)]
    BY <2>2, ConcatProperties
  <2>5. /\ evq' \in Seq(Event) /\ Len(evq') = Len(evq) + 2
        /\ \A n \in 1..(Len(evq) + 2) : evq'[n] = IF n <= Len(evq) THEN evq[n] ELSE new[n - Len(evq)]
    BY <2>2, <2>3, <2>4
  <2> QED BY <1>1, <1>3, <2>2, <2>5
<1>4. CASE ~IsOurs(owner[s])
  <2>1. NewOwnerEvents(s, o) = <<SelectionEvent(s, o)>>
    BY <1>4 DEF NewOwnerEvents
  <2> DEFINE new == <<SelectionEvent(s, o)>>
  <2>2. new \in Seq(Event) /\ Len(new) = 1 /\ new[1] = SelectionEvent(s, o)
    BY <1>2
  <2> HIDE DEF new
  <2>3. evq' = evq \o new
    BY <1>1, <2>1 DEF new
  <2>4. /\ evq \o new \in Seq(Event) /\ Len(evq \o new) = Len(evq) + Len(new)
        /\ \A n \in 1..(Len(evq) + Len(new)) :
                (evq \o new)[n] = IF n <= Len(evq) THEN evq[n] ELSE new[n - Len(evq)]
    BY <2>2, ConcatProperties
  <2>5. /\ evq' \in Seq(Event) /\ Len(evq') = Len(evq) + 1
        /\ \A n \in 1..(Len(evq) + 1) : evq'[n] = IF n <= Len(evq) THEN evq[n] ELSE new[n - Len(evq)]
    BY <2>2, <2>3, <2>4
  <2> QED BY <1>1, <1>4, <2>2, <2>5
<1> QED BY <1>3, <1>4

\* An event arrives: what is left.
LEMMA ArrivesEffect ==
    ASSUME evq \in Seq(Event), NEW e, Arrives(e)
    PROVE  /\ ~crashed /\ batch = 0
           /\ Len(evq) \in Nat \ {0} /\ evq[1] = e /\ e \in Event
           /\ evq' \in Seq(Event) /\ Len(evq') = Len(evq) - 1
           /\ \A n \in 1..Len(evq') : evq'[n] = evq[n + 1]
<1>1. ~crashed /\ batch = 0 /\ evq # <<>> /\ Head(evq) = e /\ evq' = Tail(evq)
  BY DEF Arrives
<1>2. Len(evq) \in Nat \ {0} /\ evq[1] \in Event
  BY <1>1
<1>3. Head(evq) = evq[1]
  OBVIOUS
<1> QED BY <1>1, <1>2, <1>3, HeadTailProperties

LEMMA BecomeSourceEffect ==
    ASSUME TypeOK, NEW s \in Sels, NEW e, BecomeSource(s, e)
    PROVE  \E o \in Owners :
               /\ source' = [source EXCEPT ![s] = o[2]]
               /\ IF Present(s) THEN SetOwner(s, o) ELSE UNCHANGED <<owner, evq>>
               /\ \/ e = {} /\ o = Nobody
                  \/ e # {} /\ o = Clippor(NewSource(s))
<1>1. NewSource(s) \in Nat
  BY NewSourceFresh DEF TypeOK
<1>2. Nobody \in Owners /\ Clippor(NewSource(s)) \in Owners
  BY <1>1, OwnersFacts
<1>3. CASE e = {}
  BY <1>2, <1>3 DEF BecomeSource
<1>4. CASE e # {}
  BY <1>2, <1>4 DEF BecomeSource
<1> QED BY <1>3, <1>4

LEMMA BecomeSourceTypes ==
    ASSUME TypeOK, NEW s \in Sels, NEW e, BecomeSource(s, e)
    PROVE  source' \in [Sels -> Nat] /\ owner' \in [Sels -> Owners] /\ evq' \in Seq(Event)
<1>1. PICK o \in Owners : /\ source' = [source EXCEPT ![s] = o[2]]
                          /\ IF Present(s) THEN SetOwner(s, o) ELSE UNCHANGED <<owner, evq>>
  BY BecomeSourceEffect
<1>2. source' \in [Sels -> Nat]
  BY <1>1, OwnersFacts DEF TypeOK
<1>3. owner' \in [Sels -> Owners] /\ evq' \in Seq(Event)
  BY <1>1, SetOwnerEffect DEF TypeOK
<1> QED BY <1>2, <1>3

-----------------------------------------------------------------------------
(* The types                                                                 *)

\* What a receive may ask for: a mime type of its list.
LEMMA OfferedTypes ==
    ASSUME TypeOK, NEW s \in Sels
    PROVE  Offered(offer[s]) \in Seq(Mimes)
<1>1. CASE offer[s] \in {Client(c) : c \in Copies}
  <2>1. offer[s][2] \in 1..Len(lists)
    BY <1>1, OwnersFacts DEF Copies, TypeOK, Client
  <2>2. lists[offer[s][2]] \in Lists
    BY <2>1 DEF TypeOK
  <2> QED BY <1>1, <2>2, ListsAssumption DEF Offered
<1>2. CASE offer[s] \notin {Client(c) : c \in Copies}
  BY <1>2 DEF Offered
<1> QED BY <1>1, <1>2

LEMMA StartReceiveTypes ==
    ASSUME TypeOK, ReceiveInv, NEW s \in Sels, NEW list \in Seq(Mimes \cup {Junk}),
           NEW n \in 1..Len(list), StartReceive(s, list, n)
    PROVE  /\ cbCancel' \in Nat
           /\ \A x \in ctxs' : x \in Receive /\ x.index <= Len(x.list)
<1> DEFINE cancel(x) == [x EXCEPT !.cancelled = @ \/ x.id = cbCancel]
           new == [id |-> NewId, sel |-> s, list |-> list, index |-> n,
                   from |-> offer[s], got |-> {}, cancelled |-> FALSE]
<1>1. NewId \in Nat \ {0}
  BY NewIdFresh DEF ReceiveInv
<1>2. ctxs' = {cancel(x) : x \in ctxs} \cup {new} /\ cbCancel' = new.id
  BY DEF StartReceive, CancelCurrent
<1>3. ASSUME NEW x \in ctxs PROVE cancel(x) \in Receive /\ cancel(x).index <= Len(cancel(x).list)
  BY DEF TypeOK, Receive
<1>4. new \in Receive /\ new.index <= Len(new.list)
  <2>1. offer[s] \in Owners /\ {} \in Entries
    BY DEF TypeOK, Entries
  <2> QED BY <1>1, <2>1 DEF Receive
<1>5. new.id = NewId
  OBVIOUS
<1> HIDE DEF cancel, new
<1> QED BY <1>1, <1>2, <1>3, <1>4, <1>5

LEMMA UpdateTypes ==
    ASSUME TypeOK, ReceiveInv, NEW s \in Sels, Update(s)
    PROVE  TypeOK'
<1> DEFINE list == Offered(offer[s])
           n    == NextAllowed(list, 1)
<1>1. /\ updates # <<>> /\ updates' = Tail(updates)
      /\ batch' = (IF batch = 0 THEN Len(updates) ELSE batch) - 1
      /\ UNCHANGED <<owner, lists, removed, left, evq, offer, source, entry, active, ownIdle,
                     conns, cbEntry, stage, place, cause>>
  BY DEF Update, TakeUpdate, compositor, selections, walk
<1>2. updates' \in Seq(Sels) /\ batch' \in 0..Len(updates')
  BY <1>1 DEF TypeOK
<1>3. list \in Seq(Mimes) /\ list \in Seq(Mimes \cup {Junk})
  BY OfferedTypes
<1>4. list # <<>> => Append(list, Junk) \in Seq(Mimes \cup {Junk}) /\ n \in 1..(Len(list) + 1)
                        /\ Len(Append(list, Junk)) = Len(list) + 1 /\ Len(list) \in Nat
  <2> HIDE DEF list
  <2>1. 1 \in 1..(Len(list) + 1)
    BY <1>3
  <2>2. n \in 1..(Len(list) + 1)
    BY <1>3, <2>1, NextAllowedFound
  <2> QED BY <1>3, <2>2
<1>5. /\ cbCancel' \in Nat /\ crashed' \in BOOLEAN
      /\ \A x \in ctxs' : x \in Receive /\ x.index <= Len(x.list)
  <2>1. CASE UNCHANGED <<ctxs, cbCancel, crashed>>
    BY <2>1 DEF TypeOK
  <2>2. CASE /\ list # <<>>
             /\ IF n > Len(list) THEN StartReceive(s, Append(list, Junk), n)
                ELSE StartReceive(s, list, n)
             /\ UNCHANGED crashed
    <3> HIDE DEF list, n
    <3>1. CASE n > Len(list)
      <4>1. n \in 1..Len(Append(list, Junk))
        BY <1>4, <2>2, <3>1
      <4>2. StartReceive(s, Append(list, Junk), n) /\ Append(list, Junk) \in Seq(Mimes \cup {Junk})
        BY <1>4, <2>2, <3>1
      <4> QED BY <2>2, <4>1, <4>2, StartReceiveTypes DEF TypeOK
    <3>2. CASE ~(n > Len(list))
      <4>1. n \in 1..Len(list) /\ StartReceive(s, list, n)
        BY <1>4, <2>2, <3>2
      <4> QED BY <1>3, <2>2, <4>1, StartReceiveTypes DEF TypeOK
    <3> QED BY <3>1, <3>2
  <2>3. CASE crashed' = TRUE /\ UNCHANGED <<ctxs, cbCancel>>
    BY <2>3 DEF TypeOK
  <2> QED BY <2>1, <2>2, <2>3 DEF Update
<1> QED BY <1>1, <1>2, <1>5 DEF TypeOK

\* The data of a receive makes an entry.
LEMMA WithDataTypes ==
    ASSUME TypeOK, NEW x \in ctxs
    PROVE  WithData(x) \in Entries
<1>1. /\ x.list \in Seq(Mimes \cup {Junk}) /\ x.index \in 1..Len(x.list)
      /\ x.from \in Owners /\ x.got \in Entries
  BY DEF TypeOK, Receive
<1>2. x.list[x.index] \in Mimes \cup {Junk}
  BY <1>1
<1> QED BY <1>1, <1>2 DEF WithData, Entries

LEMMA BailTypes ==
    ASSUME TypeOK, NEW x, Bail(x)
    PROVE  /\ cbCancel' \in Nat
           /\ \A y \in ctxs' : y \in Receive /\ y.index <= Len(y.list)
BY DEF Bail, TypeOK

LEMMA NextMimeTypeTypes ==
    ASSUME TypeOK, ReceiveInv, NEW x \in ctxs, NextMimeType(x)
    PROVE  TypeOK'
<1> DEFINE n == NextAllowed(x.list, x.index + 1)
           y == [x EXCEPT !.got = WithData(x), !.index = n, !.from = offer[x.sel]]
<1>1. UNCHANGED <<owner, lists, removed, left, evq, offer, source, entry, active, ownIdle,
                  updates, batch, crashed, conns, cbEntry, stage, place, cause>>
  BY DEF NextMimeType, wvars, compositor, selections, loop, walk
<1>2. x \in Receive /\ x.index <= Len(x.list)
  BY DEF TypeOK
<1>3. cbCancel' \in Nat /\ \A z \in ctxs' : z \in Receive /\ z.index <= Len(z.list)
  <2>1. CASE Bail(x)
    BY <2>1, BailTypes
  <2>2. CASE n <= Len(x.list) /\ ctxs' = (ctxs \ {x}) \cup {y} /\ UNCHANGED cbCancel
    <3>1. x.index + 1 \in 1..(Len(x.list) + 1) /\ x.list \in Seq(Mimes \cup {Junk}) /\ Len(x.list) \in Nat
      BY <1>2 DEF Receive
    <3>2. n \in (x.index + 1)..(Len(x.list) + 1)
      BY <3>1, NextAllowedFound
    <3>3. n \in Nat \ {0} /\ n <= Len(x.list)
      BY <1>2, <2>2, <3>1, <3>2 DEF Receive
    <3>4. WithData(x) \in Entries /\ offer[x.sel] \in Owners
      BY <1>2, WithDataTypes DEF TypeOK, Receive
    <3>5. y = [id |-> x.id, sel |-> x.sel, list |-> x.list, index |-> n,
               from |-> offer[x.sel], got |-> WithData(x), cancelled |-> x.cancelled]
      <4> HIDE DEF n
      <4> QED BY ContextChange DEF ReceiveInv, Contexts
    <3> HIDE DEF n, y
    <3>6. y \in Receive /\ y.index <= Len(y.list)
      BY <1>2, <3>3, <3>4, <3>5 DEF Receive
    <3> QED BY <2>2, <3>6 DEF TypeOK
  <2> QED BY <2>1, <2>2 DEF NextMimeType
<1> QED BY <1>1, <1>3 DEF TypeOK

LEMMA UpdateNextTypes ==
    ASSUME TypeOK, UpdateNext
    PROVE  TypeOK'
<1> DEFINE s == conns[place]
<1>1. /\ place \in 1..Len(conns) /\ s \in Sels /\ place' \in Nat
      /\ UNCHANGED <<lists, removed, left, offer, active, ownIdle, updates, batch, crashed,
                     cbEntry, cbCancel, ctxs, stage, cause>>
  BY DEF UpdateNext, TypeOK, loop, received
<1>2. CASE UpdateSelection(s, cbEntry, cause) /\ UNCHANGED conns
  <2>1. entry' \in [Sels -> Entries]
    BY <1>1, <1>2 DEF UpdateSelection, TypeOK
  <2>2. source' \in [Sels -> Nat] /\ owner' \in [Sels -> Owners] /\ evq' \in Seq(Event)
    <3>1. CASE s = cause
      BY <1>2, <3>1 DEF UpdateSelection, TypeOK
    <3>2. CASE s # cause
      BY <1>1, <1>2, <3>2, BecomeSourceTypes DEF UpdateSelection
    <3> QED BY <3>1, <3>2
  <2> QED BY <1>1, <1>2, <2>1, <2>2 DEF TypeOK
<1>3. CASE conns' = RemoveAt(conns, place) /\ UNCHANGED <<entry, source, owner, evq>>
  <2>1. conns' \in Seq(Sels)
    BY <1>1, <1>3 DEF RemoveAt, TypeOK
  <2> QED BY <1>1, <1>3, <2>1 DEF TypeOK
<1> QED BY <1>2, <1>3 DEF UpdateNext

LEMMA NewOfferTypes ==
    ASSUME TypeOK, UNCHANGED cvars, NEW s \in Sels, NEW o, NewOffer(s, o)
    PROVE  TypeOK'
<1>1. /\ offer' = [offer EXCEPT ![s] = IF FromClippor(o) THEN Nobody ELSE o]
      /\ ownIdle' = [ownIdle EXCEPT ![s] = o = Nobody /\ entry[s] # {}]
      /\ updates' = (IF o = Nobody \/ FromClippor(o) THEN updates ELSE Append(updates, s))
      /\ UNCHANGED <<owner, lists, removed, left, source, entry, active, batch, crashed,
                     conns, cbEntry, cbCancel, ctxs, stage, place, cause>>
  BY DEF NewOffer, cvars, received, walk
<1>2. evq' \in Seq(Event) /\ SelectionEvent(s, o) \in Event /\ batch = 0
  BY ArrivesEffect DEF NewOffer, TypeOK
<1>3. o \in Owners
  BY <1>2 DEF SelectionEvent, Event
<1>4. offer' \in [Sels -> Owners]
  BY <1>1, <1>3, OwnersFacts DEF TypeOK
<1>5. ownIdle' \in [Sels -> BOOLEAN]
  BY <1>1 DEF TypeOK
<1>6. updates' \in Seq(Sels) /\ batch' \in 0..Len(updates')
  BY <1>1, <1>2 DEF TypeOK
<1> QED BY <1>1, <1>2, <1>4, <1>5, <1>6 DEF TypeOK

LEMMA EventTypes ==
    ASSUME TypeOK, Events, UNCHANGED cvars
    PROVE  TypeOK'
<1>1. ASSUME NEW s \in Sels, NEW o, NewOffer(s, o) PROVE TypeOK'
  BY <1>1, NewOfferTypes
<1>2. ASSUME NEW s \in Sels, NEW o, Cancelled(s, o) PROVE TypeOK'
  <2>1. /\ source' = [source EXCEPT ![s] = IF @ = o[2] THEN 0 ELSE @]
        /\ UNCHANGED <<owner, lists, removed, left, offer, entry, active, ownIdle, updates, batch,
                       crashed, conns, cbEntry, cbCancel, ctxs, stage, place, cause>>
    BY <1>2 DEF Cancelled, loop, cvars, received, walk
  <2>2. evq' \in Seq(Event)
    BY <1>2, ArrivesEffect DEF Cancelled, TypeOK
  <2>3. source' \in [Sels -> Nat]
    BY <2>1 DEF TypeOK
  <2> QED BY <2>1, <2>2, <2>3 DEF TypeOK
<1>3. ASSUME NEW t \in Seats, MakeInert(t) PROVE TypeOK'
  <2>1. /\ offer' = [s \in Sels |-> IF SeatOf[s] = t THEN Nobody ELSE offer[s]]
        /\ source' = [s \in Sels |-> IF SeatOf[s] = t THEN 0 ELSE source[s]]
        /\ active' = [s \in Sels |-> active[s] /\ SeatOf[s] # t]
        /\ UNCHANGED <<owner, lists, removed, left, entry, ownIdle, updates, batch, crashed,
                       conns, cbEntry, cbCancel, ctxs, stage, place, cause>>
    BY <1>3 DEF MakeInert, loop, cvars, received, walk
  <2>2. evq' \in Seq(Event)
    BY <1>3, ArrivesEffect DEF MakeInert, TypeOK
  <2>3. offer' \in [Sels -> Owners]
    BY <2>1, OwnersFacts DEF TypeOK
  <2>4. source' \in [Sels -> Nat]
    BY <2>1 DEF TypeOK
  <2>5. active' \in [Sels -> BOOLEAN]
    BY <2>1 DEF TypeOK
  <2> QED BY <2>1, <2>2, <2>3, <2>4, <2>5 DEF TypeOK
<1> QED BY <1>1, <1>2, <1>3 DEF Events

LEMMA OwnTypes ==
    ASSUME TypeOK, NEW s \in Sels, Own(s)
    PROVE  TypeOK'
<1>1. /\ ownIdle' = [ownIdle EXCEPT ![s] = FALSE]
      /\ UNCHANGED <<lists, removed, left, offer, entry, active, updates, batch,
                     conns, cbEntry, cbCancel, ctxs, stage, place, cause>>
  BY DEF Own, OwnIdle, cvars, received, walk
<1>2. ownIdle' \in [Sels -> BOOLEAN]
  BY <1>1 DEF TypeOK
<1>3. /\ source' \in [Sels -> Nat] /\ owner' \in [Sels -> Owners] /\ evq' \in Seq(Event)
      /\ crashed' \in BOOLEAN
  <2>1. CASE BecomeSource(s, entry[s]) /\ UNCHANGED crashed
    BY <2>1, BecomeSourceTypes DEF TypeOK
  <2>2. CASE crashed' \in {crashed, TRUE} /\ UNCHANGED <<source, owner, evq>>
    BY <2>2 DEF TypeOK
  <2> QED BY <2>1, <2>2 DEF Own, OwnIdle
<1> QED BY <1>1, <1>2, <1>3 DEF TypeOK

LEMMA OthersTypes ==
    ASSUME TypeOK, Others, UNCHANGED cvars
    PROVE  TypeOK'
<1>1. /\ left' \in 0..MaxMoves
      /\ UNCHANGED <<offer, source, entry, active, ownIdle, updates, batch, crashed,
                     conns, cbEntry, cbCancel, ctxs, stage, place, cause>>
  BY MovesAssumption
     DEF Others, Copy, Clear, RemoveSeat, Move, selections, loop, cvars, received, walk, TypeOK
<1>2. ASSUME NEW s \in Sels, NEW list \in Lists, Copy(s, list) PROVE TypeOK'
  <2>1. /\ lists' = Append(lists, list) /\ UNCHANGED removed
        /\ SetOwner(s, Client(Len(lists) + 1))
    BY <1>2 DEF Copy
  <2>2. lists' \in Seq(Lists) /\ Client(Len(lists) + 1) \in Owners
    <3>1. lists' \in Seq(Lists) /\ Len(lists) + 1 \in Nat
      BY <2>1 DEF TypeOK
    <3> QED BY <3>1, OwnersFacts
  <2>3. owner' \in [Sels -> Owners] /\ evq' \in Seq(Event)
    BY <2>1, <2>2, SetOwnerEffect DEF TypeOK
  <2> QED BY <1>1, <2>1, <2>2, <2>3 DEF TypeOK
<1>3. ASSUME NEW s \in Sels, Clear(s) PROVE TypeOK'
  <2>1. UNCHANGED <<lists, removed>> /\ SetOwner(s, Nobody) /\ Nobody \in Owners
    BY <1>3, OwnersFacts DEF Clear
  <2>2. owner' \in [Sels -> Owners] /\ evq' \in Seq(Event)
    BY <2>1, SetOwnerEffect DEF TypeOK
  <2> QED BY <1>1, <2>1, <2>2 DEF TypeOK
<1>4. ASSUME NEW t \in Seats, RemoveSeat(t) PROVE TypeOK'
  <2>1. /\ removed' = removed \cup {t} /\ UNCHANGED lists
        /\ owner' = [s \in Sels |-> IF SeatOf[s] = t THEN Nobody ELSE owner[s]]
        /\ evq' = Append(evq, RemovedEvent(t)) /\ RemovedEvent(t) \in Event
    BY <1>4, EventFacts DEF RemoveSeat
  <2>2. owner' \in [Sels -> Owners]
    BY <2>1, OwnersFacts DEF TypeOK
  <2>3. evq' \in Seq(Event) /\ removed' \in SUBSET Seats
    BY <2>1 DEF TypeOK
  <2> QED BY <1>1, <2>1, <2>2, <2>3 DEF TypeOK
<1> QED BY <1>2, <1>3, <1>4 DEF Others

\* A sequence of all the elements of a finite set.
LEMMA AllInOrder ==
    ASSUME NEW S, IsFiniteSet(S), NEW q \in SetToSeqs(S)
    PROVE  /\ q \in Seq(S) /\ Len(q) = Cardinality(S)
           /\ \A n, m \in 1..Len(q) : n # m => q[n] # q[m]
<1>1. Cardinality(S) \in Nat
  BY FS_CardinalityType
<1>2. q \in [1..Cardinality(S) -> S] /\ \A n, m \in 1..Cardinality(S) : n # m => q[n] # q[m]
  BY DEF SetToSeqs
<1>3. q \in Seq(S) /\ Len(q) = Cardinality(S)
  BY <1>1, <1>2
<1> QED BY <1>2, <1>3

LEMMA TypeStart == Init => TypeOK
<1> SUFFICES ASSUME Init PROVE TypeOK
  OBVIOUS
<1>1. /\ owner = [s \in Sels |-> Nobody] /\ lists = <<>> /\ removed = {} /\ left = MaxMoves
      /\ offer = [s \in Sels |-> Nobody] /\ source = [s \in Sels |-> 0]
      /\ entry = [s \in Sels |-> {}] /\ active = [s \in Sels |-> TRUE]
      /\ ownIdle = [s \in Sels |-> FALSE] /\ updates = <<>> /\ batch = 0 /\ crashed = FALSE
      /\ cbEntry = {} /\ cbCancel = 0 /\ ctxs = {} /\ stage = "displays" /\ place = 0 /\ cause = Nobody
  BY DEF Init, WInit
<1>2. conns \in Seq(Sels)
  BY AllInOrder, SelsAssumption DEF Init
<1>3. evq \in Seq(Event)
  <2>1. PICK ss \in SetToSeqs(Sels) :
                evq = [n \in 1..Cardinality(Sels) |-> SelectionEvent(ss[n], Nobody)]
    BY DEF Init, WInit
  <2>2. /\ ss \in Seq(Sels) /\ Len(ss) = Cardinality(Sels) /\ Cardinality(Sels) \in Nat
    BY AllInOrder, SelsAssumption, FS_CardinalityType
  <2>3. \A n \in 1..Cardinality(Sels) : SelectionEvent(ss[n], Nobody) \in Event
    BY <2>2, EventFacts, OwnersFacts
  <2> QED BY <2>1, <2>2, <2>3
<1>4. {} \in Entries /\ Nobody \in Owners
  BY OwnersFacts DEF Entries
<1>5. /\ owner \in [Sels -> Owners] /\ offer \in [Sels -> Owners] /\ source \in [Sels -> Nat]
      /\ entry \in [Sels -> Entries] /\ active \in [Sels -> BOOLEAN] /\ ownIdle \in [Sels -> BOOLEAN]
  BY <1>1, <1>4
<1>6. /\ lists \in Seq(Lists) /\ removed \in SUBSET Seats /\ left \in 0..MaxMoves
      /\ updates \in Seq(Sels) /\ batch \in 0..Len(updates)
  BY <1>1, MovesAssumption
<1>7. \A x \in ctxs : x \in Receive /\ x.index <= Len(x.list)
  BY <1>1
<1> QED BY <1>1, <1>2, <1>3, <1>4, <1>5, <1>6, <1>7 DEF TypeOK, Stages

LEMMA TypeStep == TypeOK /\ ReceiveInv /\ [Next]_vars => TypeOK'
<1> SUFFICES ASSUME TypeOK, ReceiveInv, [Next]_vars PROVE TypeOK'
  OBVIOUS
<1>0. ASSUME StartLoop PROVE TypeOK'
  BY <1>0 DEF StartLoop, Stages, wvars, compositor, selections, loop, walk, TypeOK
<1>1. ASSUME LoadDatabase PROVE TypeOK'
  <2>1. /\ UNCHANGED <<owner, lists, removed, left, evq, offer, source, entry, active, ownIdle,
                       updates, batch, crashed, cbCancel, ctxs, conns>>
        /\ stage' \in Stages /\ cbEntry' \in Stored
        /\ place' \in {place, 1} /\ cause' \in {cause, Nobody}
    BY <1>1 DEF LoadDatabase, Stages, wvars, compositor, selections, loop, walk, UpdateSelections
  <2>2. cbEntry' \in Entries
    BY <2>1, StoredAssumption, OwnersFacts DEF Entries
  <2> QED BY <2>1, <2>2 DEF TypeOK
<1>2. ASSUME UpdateNext PROVE TypeOK'
  BY <1>2, UpdateNextTypes
<1>3. ASSUME UpdatesDone PROVE TypeOK'
  BY <1>3 DEF UpdatesDone, wvars, compositor, selections, loop, received, TypeOK
<1>4. ASSUME Events, UNCHANGED cvars PROVE TypeOK'
  BY <1>4, EventTypes
<1>5. ASSUME NEW s \in Sels, Update(s) PROVE TypeOK'
  BY <1>5, UpdateTypes
<1>6. ASSUME NEW s \in Sels, Own(s) PROVE TypeOK'
  BY <1>6, OwnTypes
<1>7. ASSUME NEW x \in ctxs, ReadFails(x) PROVE TypeOK'
  <2>1. UNCHANGED <<owner, lists, removed, left, evq, offer, source, entry, active, ownIdle,
                    updates, batch, crashed, conns, cbEntry, stage, place, cause>>
    BY <1>7 DEF ReadFails, wvars, compositor, selections, loop, walk
  <2> QED BY <1>7, <2>1, BailTypes DEF ReadFails, TypeOK
<1>8. ASSUME NEW x \in ctxs, NextMimeType(x) PROVE TypeOK'
  BY <1>8, NextMimeTypeTypes
<1>9. ASSUME NEW x \in ctxs, Finish(x) PROVE TypeOK'
  <2>1. /\ UNCHANGED <<owner, lists, removed, left, evq, offer, source, entry, active, ownIdle,
                       updates, batch, crashed, stage, conns>>
        /\ cbEntry' \in Entries /\ place' = 1 /\ cause' \in Sels /\ Bail(x)
    BY <1>9, WithDataTypes DEF Finish, wvars, compositor, selections, loop, UpdateSelections, ReceiveInv
  <2> QED BY <2>1, BailTypes DEF TypeOK
<1>10. ASSUME Others, UNCHANGED cvars PROVE TypeOK'
  BY <1>10, OthersTypes
<1>11. ASSUME UNCHANGED vars PROVE TypeOK'
  BY <1>11 DEF vars, wvars, compositor, selections, loop, cvars, received, walk, TypeOK
<1> QED BY <1>0, <1>1, <1>2, <1>3, <1>4, <1>5, <1>6, <1>7, <1>8, <1>9, <1>10, <1>11 DEF Next, Program

\* Events, offers, sources and entries keep their form, whatever order the steps
\* of the program and of others are taken in: no entry has anything but pairs of a
\* mime type, or what is behind the end of a list, and an offer, and a receive that goes
\* on to its next element stays within the list.  Only its first element can be behind
\* the end of what was offered, when no mime type of it is allowed (Junk).
THEOREM TypesHold == Spec => []TypeOK
BY TypeStart, TypeStep, ReceiveHolds, PTL DEF Spec

-----------------------------------------------------------------------------
(* The sources                                                               *)

Among(e, q) == \E n \in 1..Len(q) : q[n] = e

\* An own source that a selection has in the compositor is the one that the
\* selection knows, and nothing is on its way that says otherwise; one that the
\* selection knows and the compositor does not have is about to be cancelled,
\* or the seat is about to be removed.
SourceOf(s) ==
    /\ IsOurs(owner[s]) => owner[s][2] # 0 /\ ~Among(CancelledEvent(s, owner[s]), evq)
    /\ IsOurs(owner[s]) /\ active[s] => source[s] = owner[s][2]
    /\ active[s] /\ Present(s) /\ source[s] # 0 =>
            \/ owner[s] = Clippor(source[s])
            \/ Among(CancelledEvent(s, Clippor(source[s])), evq)
    /\ active[s] /\ ~Present(s) => Among(RemovedEvent(SeatOf[s]), evq)
    /\ ~Present(s) => owner[s] = Nobody

SourceInv == /\ \A n \in 1..Len(evq) : evq[n][1] = "cancelled" => IsOurs(evq[n][3])
             /\ \A s \in Sels : SourceOf(s)

\* Events that are different in kind, in selection or in source.
LEMMA EventsDiffer ==
    ASSUME NEW s, NEW t, NEW o, NEW p
    PROVE  /\ SelectionEvent(s, o) # CancelledEvent(t, p)
           /\ SelectionEvent(s, o) # RemovedEvent(t)
           /\ CancelledEvent(s, o) # RemovedEvent(t)
           /\ SelectionEvent(s, o)[1] # "cancelled" /\ RemovedEvent(t)[1] # "cancelled"
           /\ CancelledEvent(s, o) = CancelledEvent(t, p) => s = t /\ o = p
           /\ SelectionEvent(s, o) = SelectionEvent(t, p) => s = t /\ o = p
           /\ RemovedEvent(s) = RemovedEvent(t) => s = t
           /\ SelectionEvent(s, o)[3] = o /\ CancelledEvent(s, o)[3] = o
BY DEF SelectionEvent, CancelledEvent, RemovedEvent

\* What is among the events after a new source client, an arrival, and a removal.
LEMMA SetOwnerAmong ==
    ASSUME evq \in Seq(Event), owner \in [Sels -> Owners], NEW s \in Sels, NEW o \in Owners,
           SetOwner(s, o)
    PROVE  \A e : Among(e, evq') <=> \/ Among(e, evq)
                                     \/ e = SelectionEvent(s, o)
                                     \/ IsOurs(owner[s]) /\ e = CancelledEvent(s, owner[s])
<1>1. /\ Len(evq) \in Nat /\ Len(evq') \in Nat /\ Len(evq') > Len(evq)
      /\ \A n \in 1..Len(evq) : evq'[n] = evq[n]
      /\ evq'[Len(evq')] = SelectionEvent(s, o)
      /\ \A n \in (Len(evq) + 1)..(Len(evq') - 1) :
                    IsOurs(owner[s]) /\ evq'[n] = CancelledEvent(s, owner[s])
      /\ IsOurs(owner[s]) => \E n \in 1..Len(evq') : evq'[n] = CancelledEvent(s, owner[s])
  BY SetOwnerEffect
<1> DEFINE c == CancelledEvent(s, owner[s])
<1>2. SUFFICES ASSUME NEW e
               PROVE  (\E n \in 1..Len(evq') : evq'[n] = e) <=>
                            \/ \E n \in 1..Len(evq) : evq[n] = e
                            \/ e = SelectionEvent(s, o)
                            \/ IsOurs(owner[s]) /\ e = c
  BY DEF Among
<1> HIDE DEF c
<1>3. ASSUME NEW n \in 1..Len(evq'), evq'[n] = e
      PROVE  \/ \E m \in 1..Len(evq) : evq[m] = e
             \/ e = SelectionEvent(s, o)
             \/ IsOurs(owner[s]) /\ e = c
  <2>1. CASE n \in 1..Len(evq)
    BY <1>1, <1>3, <2>1
  <2>2. CASE n = Len(evq')
    BY <1>1, <1>3, <2>2
  <2>3. CASE n \in (Len(evq) + 1)..(Len(evq') - 1)
    BY <1>1, <1>3, <2>3 DEF c
  <2> QED BY <1>1, <2>1, <2>2, <2>3
<1>4. ASSUME NEW n \in 1..Len(evq), evq[n] = e PROVE \E m \in 1..Len(evq') : evq'[m] = e
  BY <1>1, <1>4
<1>5. Len(evq') \in 1..Len(evq')
  BY <1>1
<1> QED BY <1>1, <1>3, <1>4, <1>5 DEF c

LEMMA ArrivesAmong ==
    ASSUME evq \in Seq(Event), NEW e0, Arrives(e0)
    PROVE  /\ Among(e0, evq)
           /\ \A e : Among(e, evq') => Among(e, evq)
           /\ \A e : Among(e, evq) => e = e0 \/ Among(e, evq')
<1>1. /\ Len(evq) \in Nat \ {0} /\ evq[1] = e0 /\ Len(evq') = Len(evq) - 1
      /\ \A n \in 1..Len(evq') : evq'[n] = evq[n + 1]
  BY ArrivesEffect
<1>2. Among(e0, evq)
  BY <1>1 DEF Among
<1>3. ASSUME NEW e, NEW n \in 1..Len(evq'), evq'[n] = e PROVE Among(e, evq)
  <2>1. n + 1 \in 1..Len(evq) /\ evq[n + 1] = e
    BY <1>1, <1>3
  <2> QED BY <2>1 DEF Among
<1>4. ASSUME NEW e, NEW n \in 1..Len(evq), evq[n] = e PROVE e = e0 \/ Among(e, evq')
  <2>1. CASE n = 1
    BY <1>1, <1>4, <2>1
  <2>2. CASE n # 1
    <3>1. n - 1 \in 1..Len(evq') /\ evq'[n - 1] = e
      BY <1>1, <1>4, <2>2
    <3> QED BY <3>1 DEF Among
  <2> QED BY <2>1, <2>2
<1>5. \A e : Among(e, evq') => Among(e, evq)
  BY <1>3 DEF Among
<1>6. \A e : Among(e, evq) => e = e0 \/ Among(e, evq')
  BY <1>4 DEF Among
<1> QED BY <1>2, <1>5, <1>6

LEMMA AppendAmong ==
    ASSUME evq \in Seq(Event), NEW e0 \in Event, evq' = Append(evq, e0)
    PROVE  \A e : Among(e, evq') <=> Among(e, evq) \/ e = e0
<1>1. /\ Len(evq) \in Nat /\ Len(evq') = Len(evq) + 1 /\ evq'[Len(evq) + 1] = e0
      /\ \A n \in 1..Len(evq) : evq'[n] = evq[n]
  OBVIOUS
<1>2. ASSUME NEW e, NEW n \in 1..Len(evq'), evq'[n] = e PROVE Among(e, evq) \/ e = e0
  <2>1. n \in 1..Len(evq) \/ n = Len(evq) + 1
    BY <1>1
  <2> QED BY <1>1, <1>2, <2>1 DEF Among
<1>3. ASSUME NEW e, NEW n \in 1..Len(evq), evq[n] = e PROVE Among(e, evq')
  BY <1>1, <1>3 DEF Among
<1>4. Among(e0, evq')
  BY <1>1 DEF Among
<1> QED BY <1>2, <1>3, <1>4 DEF Among

\* A new source client, whether it is another one or the program itself.
LEMMA SetOwnerSources ==
    ASSUME TypeOK, SourceInv, NEW s \in Sels, NEW o \in Owners, Present(s), SetOwner(s, o),
           UNCHANGED <<active, removed>>,
           \A t \in Sels : t # s => source'[t] = source[t],
           \/ ~IsOurs(o) /\ source'[s] \in {0, source[s]}
           \/ /\ IsOurs(o) /\ source'[s] = o[2] /\ o[2] # 0
              /\ o # owner[s] /\ ~Among(CancelledEvent(s, o), evq)
    PROVE  SourceInv'
<1>1. /\ owner' \in [Sels -> Owners] /\ evq' \in Seq(Event)
      /\ owner'[s] = o /\ \A t \in Sels : t # s => owner'[t] = owner[t]
  BY SetOwnerEffect DEF TypeOK
<1>2. \A e : Among(e, evq') <=> \/ Among(e, evq)
                                \/ e = SelectionEvent(s, o)
                                \/ IsOurs(owner[s]) /\ e = CancelledEvent(s, owner[s])
  BY SetOwnerAmong DEF TypeOK
<1>3. ASSUME NEW n \in 1..Len(evq'), evq'[n][1] = "cancelled" PROVE IsOurs(evq'[n][3])
  <2>1. Among(evq'[n], evq')
    BY DEF Among
  <2>2. CASE Among(evq'[n], evq)
    BY <1>3, <2>2 DEF Among, SourceInv
  <2>3. CASE evq'[n] = SelectionEvent(s, o)
    BY <1>3, <2>3, EventsDiffer
  <2>4. CASE IsOurs(owner[s]) /\ evq'[n] = CancelledEvent(s, owner[s])
    BY <2>4, EventsDiffer
  <2> QED BY <1>2, <2>1, <2>2, <2>3, <2>4
<1>4. ASSUME NEW t \in Sels, t # s PROVE SourceOf(t)'
  <2>1. SourceOf(t) /\ owner'[t] = owner[t] /\ source'[t] = source[t]
        /\ active'[t] = active[t] /\ Present(t)' = Present(t)
    BY <1>1, <1>4 DEF SourceInv, Present
  <2>2. \A p : Among(CancelledEvent(t, p), evq') <=> Among(CancelledEvent(t, p), evq)
    BY <1>2, <1>4, EventsDiffer
  <2>3. Among(RemovedEvent(SeatOf[t]), evq) => Among(RemovedEvent(SeatOf[t]), evq')
    BY <1>2
  <2> QED BY <2>1, <2>2, <2>3 DEF SourceOf
<1>5. SourceOf(s)'
  <2>1. SourceOf(s) /\ Present(s)' /\ active'[s] = active[s] /\ owner'[s] = o
        /\ source[s] \in Nat /\ owner[s] \in Owners
    BY <1>1 DEF SourceInv, Present, TypeOK
  <2>2. CASE ~IsOurs(o) /\ source'[s] = 0
    BY <2>1, <2>2 DEF SourceOf
  <2>3. CASE ~IsOurs(o) /\ source'[s] = source[s]
    <3>1. ASSUME active[s], source[s] # 0 PROVE Among(CancelledEvent(s, Clippor(source[s])), evq')
      <4>1. CASE owner[s] = Clippor(source[s])
        <5>1. IsOurs(owner[s])
          BY <4>1 DEF Clippor, IsOurs
        <5> QED BY <1>2, <4>1, <5>1
      <4>2. CASE Among(CancelledEvent(s, Clippor(source[s])), evq)
        BY <1>2, <4>2
      <4> QED BY <2>1, <3>1, <4>1, <4>2 DEF SourceOf
    <3> QED BY <2>1, <2>3, <3>1 DEF SourceOf
  <2>4. CASE /\ IsOurs(o) /\ source'[s] = o[2] /\ o[2] # 0
             /\ o # owner[s] /\ ~Among(CancelledEvent(s, o), evq)
    <3>1. o = Clippor(o[2])
      BY <2>4, OwnersFacts DEF IsOurs, Clippor
    <3>2. ~Among(CancelledEvent(s, o), evq')
      BY <1>2, <2>4, EventsDiffer
    <3> QED BY <2>1, <2>4, <3>1, <3>2 DEF SourceOf
  <2> QED BY <2>2, <2>3, <2>4
<1> QED BY <1>3, <1>4, <1>5 DEF SourceInv

\* The program becomes the source of a selection, or clears it.
LEMMA BecomeSourceSources ==
    ASSUME TypeOK, SourceInv, NEW s \in Sels, NEW e, BecomeSource(s, e),
           UNCHANGED <<active, removed>>
    PROVE  SourceInv'
<1>1. PICK o \in Owners :
               /\ source' = [source EXCEPT ![s] = o[2]]
               /\ IF Present(s) THEN SetOwner(s, o) ELSE UNCHANGED <<owner, evq>>
               /\ \/ e = {} /\ o = Nobody
                  \/ e # {} /\ o = Clippor(NewSource(s))
  BY BecomeSourceEffect
<1>2. source'[s] = o[2] /\ \A t \in Sels : t # s => source'[t] = source[t]
  BY <1>1 DEF TypeOK
<1>3. CASE Present(s)
  <2>1. CASE e = {} /\ o = Nobody
    BY <1>1, <1>2, <1>3, <2>1, SetOwnerSources, OwnersFacts DEF IsOurs
  <2>2. CASE o = Clippor(NewSource(s))
    <3>1. /\ NewSource(s) \in Nat \ {0} /\ NewSource(s) # owner[s][2]
          /\ \A n \in DOMAIN evq : NewSource(s) # evq[n][3][2]
      BY NewSourceFresh DEF TypeOK
    <3>2. IsOurs(o) /\ o[2] = NewSource(s)
      BY <2>2, <3>1, OwnersFacts DEF IsOurs
    <3>3. ~Among(CancelledEvent(s, o), evq)
      <4>1. SUFFICES ASSUME NEW n \in 1..Len(evq), evq[n] = CancelledEvent(s, o) PROVE FALSE
        BY DEF Among
      <4>2. n \in DOMAIN evq
        BY DEF TypeOK
      <4> QED BY <3>1, <3>2, <4>1, <4>2, EventsDiffer
    <3> QED BY <1>1, <1>2, <1>3, <3>1, <3>2, <3>3, SetOwnerSources
  <2> QED BY <1>1, <2>1, <2>2
<1>4. CASE ~Present(s)
  <2>1. UNCHANGED <<owner, evq>>
    BY <1>1, <1>4
  <2>2. owner[s] = Nobody
    BY <1>4 DEF SourceInv, SourceOf
  <2>3. SourceOf(s)'
    BY <1>4, <2>1, <2>2, NobodyIsNotOurs DEF SourceInv, SourceOf, Present
  <2>4. ASSUME NEW t \in Sels, t # s PROVE SourceOf(t)'
    <3>1. source'[t] = source[t]
      BY <1>2, <2>4
    <3> QED BY <2>1, <3>1 DEF SourceInv, SourceOf, Present
  <2> QED BY <2>1, <2>3, <2>4 DEF SourceInv
<1> QED BY <1>3, <1>4

\* A step that leaves the sources alone.
LEMMA SameSources ==
    ASSUME SourceInv, UNCHANGED <<owner, evq, source, active, removed>>
    PROVE  SourceInv'
BY DEF SourceInv, SourceOf, Present

\* Whatever arrives, if it is neither a cancellation nor a removal.
LEMMA OfferSources ==
    ASSUME TypeOK, SourceInv, NEW s, NEW o, NewOffer(s, o)
    PROVE  SourceInv'
<1>1. Arrives(SelectionEvent(s, o)) /\ UNCHANGED <<owner, source, active, removed>>
  BY DEF NewOffer
<1>2. /\ \A e : Among(e, evq') => Among(e, evq)
      /\ \A e : Among(e, evq) => e = SelectionEvent(s, o) \/ Among(e, evq')
  BY <1>1, ArrivesAmong DEF TypeOK
<1>3. \A n \in 1..Len(evq') : evq'[n][1] = "cancelled" => IsOurs(evq'[n][3])
  BY <1>2 DEF Among, SourceInv
<1>4. ASSUME NEW t \in Sels PROVE SourceOf(t)'
  <2>1. SourceOf(t) /\ Present(t)' = Present(t)
    BY <1>1 DEF SourceInv, Present
  <2>2. \A p : Among(CancelledEvent(t, p), evq') <=> Among(CancelledEvent(t, p), evq)
    BY <1>2, EventsDiffer
  <2>3. Among(RemovedEvent(SeatOf[t]), evq) => Among(RemovedEvent(SeatOf[t]), evq')
    BY <1>2, EventsDiffer
  <2> QED BY <1>1, <2>1, <2>2, <2>3 DEF SourceOf
<1> QED BY <1>3, <1>4 DEF SourceInv

\* A source learns that it was replaced.
LEMMA CancelledSources ==
    ASSUME TypeOK, SourceInv, NEW s \in Sels, NEW o, Cancelled(s, o)
    PROVE  SourceInv'
<1>1. /\ Arrives(CancelledEvent(s, o)) /\ UNCHANGED <<owner, active, removed>>
      /\ source' = [source EXCEPT ![s] = IF @ = o[2] THEN 0 ELSE @]
  BY DEF Cancelled
<1>2. /\ Among(CancelledEvent(s, o), evq)
      /\ \A e : Among(e, evq') => Among(e, evq)
      /\ \A e : Among(e, evq) => e = CancelledEvent(s, o) \/ Among(e, evq')
  BY <1>1, ArrivesAmong DEF TypeOK
<1>3. \A n \in 1..Len(evq') : evq'[n][1] = "cancelled" => IsOurs(evq'[n][3])
  BY <1>2 DEF Among, SourceInv
<1>4. IsOurs(o) /\ o = Clippor(o[2])
  <2>1. CancelledEvent(s, o) \in Event
    BY <1>1, ArrivesEffect DEF TypeOK
  <2>2. o \in Owners
    BY <2>1 DEF CancelledEvent, Event
  <2>3. CancelledEvent(s, o)[1] = "cancelled" /\ CancelledEvent(s, o)[3] = o
    BY DEF CancelledEvent
  <2>4. IsOurs(o)
    BY <1>2, <2>3 DEF Among, SourceInv
  <2> QED BY <2>2, <2>4, OwnersFacts DEF IsOurs, Clippor
<1>5. ASSUME NEW t \in Sels, t # s PROVE SourceOf(t)'
  <2>1. source'[t] = source[t]
    BY <1>1, <1>5 DEF TypeOK
  <2>2. SourceOf(t) /\ Present(t)' = Present(t)
    BY <1>1 DEF SourceInv, Present
  <2>3. \A p : Among(CancelledEvent(t, p), evq') <=> Among(CancelledEvent(t, p), evq)
    BY <1>2, <1>5, EventsDiffer
  <2>4. Among(RemovedEvent(SeatOf[t]), evq) => Among(RemovedEvent(SeatOf[t]), evq')
    BY <1>2, EventsDiffer
  <2> QED BY <1>1, <2>1, <2>2, <2>3, <2>4 DEF SourceOf
<1>6. SourceOf(s)'
  <2>1. SourceOf(s) /\ source'[s] = (IF source[s] = o[2] THEN 0 ELSE source[s])
        /\ owner[s] \in Owners
    BY <1>1 DEF TypeOK, SourceInv
  <2>2. IsOurs(owner[s]) => owner[s] # o
    BY <1>2, <2>1 DEF SourceOf
  <2>3. IsOurs(owner[s]) => owner[s] = Clippor(owner[s][2])
    BY <2>1, OwnersFacts DEF IsOurs, Clippor
  <2>4. IsOurs(owner[s]) => owner[s][2] # o[2]
    BY <1>4, <2>2, <2>3
  <2>5. source'[s] # 0 => source'[s] = source[s] /\ o # Clippor(source[s])
    BY <2>1, OwnersFacts DEF TypeOK, Clippor
  <2>6. Among(CancelledEvent(s, Clippor(source[s])), evq) /\ source'[s] # 0 =>
            Among(CancelledEvent(s, Clippor(source[s])), evq')
    BY <1>2, <2>5, EventsDiffer
  <2>7. Among(RemovedEvent(SeatOf[s]), evq) => Among(RemovedEvent(SeatOf[s]), evq')
    BY <1>2, EventsDiffer
  <2> QED BY <1>1, <1>2, <2>1, <2>4, <2>5, <2>6, <2>7 DEF SourceOf, Present
<1> QED BY <1>3, <1>5, <1>6 DEF SourceInv

\* The program learns that a seat was removed.
LEMMA InertSources ==
    ASSUME TypeOK, SourceInv, NEW t, MakeInert(t)
    PROVE  SourceInv'
<1>1. /\ Arrives(RemovedEvent(t)) /\ UNCHANGED <<owner, removed>>
      /\ source' = [s \in Sels |-> IF SeatOf[s] = t THEN 0 ELSE source[s]]
      /\ active' = [s \in Sels |-> active[s] /\ SeatOf[s] # t]
  BY DEF MakeInert
<1>2. /\ \A e : Among(e, evq') => Among(e, evq)
      /\ \A e : Among(e, evq) => e = RemovedEvent(t) \/ Among(e, evq')
  BY <1>1, ArrivesAmong DEF TypeOK
<1>3. \A n \in 1..Len(evq') : evq'[n][1] = "cancelled" => IsOurs(evq'[n][3])
  BY <1>2 DEF Among, SourceInv
<1>4. ASSUME NEW s \in Sels PROVE SourceOf(s)'
  <2>1. CASE SeatOf[s] = t
    <3>1. ~active'[s]
      BY <1>1, <2>1
    <3> QED BY <1>1, <1>2, <3>1 DEF SourceInv, SourceOf, Present
  <2>2. CASE SeatOf[s] # t
    <3>1. source'[s] = source[s] /\ active'[s] = active[s] /\ active[s] \in BOOLEAN
      BY <1>1, <2>2 DEF TypeOK
    <3>2. Among(RemovedEvent(SeatOf[s]), evq) => Among(RemovedEvent(SeatOf[s]), evq')
      BY <1>2, <2>2, EventsDiffer
    <3>3. \A p : Among(CancelledEvent(s, p), evq) <=> Among(CancelledEvent(s, p), evq')
      BY <1>2, EventsDiffer
    <3> QED BY <1>1, <3>1, <3>2, <3>3 DEF SourceInv, SourceOf, Present
  <2> QED BY <2>1, <2>2
<1> QED BY <1>3, <1>4 DEF SourceInv

\* A seat is removed in the compositor.
LEMMA RemoveSeatSources ==
    ASSUME TypeOK, SourceInv, NEW t \in Seats, RemoveSeat(t)
    PROVE  SourceInv'
<1>1. /\ UNCHANGED <<source, active>> /\ removed' = removed \cup {t}
      /\ owner' = [s \in Sels |-> IF SeatOf[s] = t THEN Nobody ELSE owner[s]]
      /\ evq' = Append(evq, RemovedEvent(t)) /\ RemovedEvent(t) \in Event
  BY EventFacts DEF RemoveSeat, selections
<1>2. \A e : Among(e, evq') <=> Among(e, evq) \/ e = RemovedEvent(t)
  BY <1>1, AppendAmong DEF TypeOK
<1>3. ASSUME NEW n \in 1..Len(evq'), evq'[n][1] = "cancelled" PROVE IsOurs(evq'[n][3])
  <2>1. Among(evq'[n], evq')
    BY DEF Among
  <2>2. Among(evq'[n], evq)
    BY <1>2, <1>3, <2>1, EventsDiffer
  <2> QED BY <1>3, <2>2 DEF Among, SourceInv
<1>4. ASSUME NEW s \in Sels PROVE SourceOf(s)'
  <2>1. SourceOf(s) /\ \A p : Among(CancelledEvent(s, p), evq') <=> Among(CancelledEvent(s, p), evq)
    BY <1>2, EventsDiffer DEF SourceInv
  <2>2. CASE SeatOf[s] = t
    <3>1. owner'[s] = Nobody /\ ~Present(s)' /\ Among(RemovedEvent(SeatOf[s]), evq')
      BY <1>1, <1>2, <2>2 DEF Present
    <3> QED BY <3>1, NobodyIsNotOurs DEF SourceOf
  <2>3. CASE SeatOf[s] # t
    <3>1. owner'[s] = owner[s] /\ Present(s)' = Present(s)
      BY <1>1, <2>3 DEF Present
    <3>2. Among(RemovedEvent(SeatOf[s]), evq) => Among(RemovedEvent(SeatOf[s]), evq')
      BY <1>2
    <3> QED BY <1>1, <2>1, <3>1, <3>2 DEF SourceOf
  <2> QED BY <2>2, <2>3
<1> QED BY <1>3, <1>4 DEF SourceInv

LEMMA SourceStart == Init => SourceInv
<1> SUFFICES ASSUME Init PROVE SourceInv
  OBVIOUS
<1>1. /\ owner = [s \in Sels |-> Nobody] /\ removed = {} /\ source = [s \in Sels |-> 0]
  BY DEF Init, WInit
<1>2. \A s \in Sels : SourceOf(s)
  BY <1>1, NobodyIsNotOurs DEF SourceOf, Present
<1>3. ASSUME NEW n \in 1..Len(evq), evq[n][1] = "cancelled" PROVE FALSE
  <2>1. PICK ss \in SetToSeqs(Sels) :
                evq = [m \in 1..Cardinality(Sels) |-> SelectionEvent(ss[m], Nobody)]
    BY DEF Init, WInit
  <2>2. n \in 1..Cardinality(Sels)
    BY <2>1, SelsAssumption, FS_CardinalityType
  <2> QED BY <1>3, <2>1, <2>2, EventsDiffer
<1> QED BY <1>2, <1>3 DEF SourceInv

LEMMA SourceStep == TypeOK /\ SourceInv /\ [Next]_vars => SourceInv'
<1> SUFFICES ASSUME TypeOK, SourceInv, [Next]_vars PROVE SourceInv'
  OBVIOUS
<1>1. ASSUME StartLoop \/ LoadDatabase PROVE SourceInv'
  BY <1>1, SameSources DEF StartLoop, LoadDatabase, wvars, compositor, selections
<1>2. ASSUME UpdateNext PROVE SourceInv'
  <2> DEFINE s == conns[place]
  <2>1. s \in Sels /\ UNCHANGED <<active, removed>>
    BY <1>2 DEF UpdateNext, TypeOK
  <2>2. CASE UpdateSelection(s, cbEntry, cause)
    <3>1. CASE s = cause
      BY <2>1, <2>2, <3>1, SameSources DEF UpdateSelection
    <3>2. CASE s # cause
      BY <2>1, <2>2, <3>2, BecomeSourceSources DEF UpdateSelection
    <3> QED BY <3>1, <3>2
  <2>3. CASE UNCHANGED <<source, owner, evq>>
    BY <2>1, <2>3, SameSources
  <2> QED BY <1>2, <2>2, <2>3 DEF UpdateNext
<1>3. ASSUME UpdatesDone PROVE SourceInv'
  BY <1>3, SameSources DEF UpdatesDone, wvars, compositor, selections
<1>4. ASSUME Events PROVE SourceInv'
  BY <1>4, OfferSources, CancelledSources, InertSources DEF Events
<1>5. ASSUME NEW s \in Sels, Update(s) PROVE SourceInv'
  BY <1>5, SameSources DEF Update, compositor, selections
<1>6. ASSUME NEW s \in Sels, Own(s) PROVE SourceInv'
  <2>1. UNCHANGED <<active, removed>>
    BY <1>6 DEF Own, OwnIdle
  <2>2. CASE BecomeSource(s, entry[s])
    BY <2>1, <2>2, BecomeSourceSources
  <2>3. CASE UNCHANGED <<source, owner, evq>>
    BY <2>1, <2>3, SameSources
  <2> QED BY <1>6, <2>2, <2>3 DEF Own, OwnIdle
<1>7. ASSUME NEW x \in ctxs, ReadFails(x) \/ NextMimeType(x) \/ Finish(x) PROVE SourceInv'
  BY <1>7, SameSources DEF ReadFails, NextMimeType, Finish, wvars, compositor, selections
<1>8. ASSUME Others PROVE SourceInv'
  <2>1. ASSUME NEW s \in Sels, NEW o \in Owners, Present(s), SetOwner(s, o), ~IsOurs(o),
               UNCHANGED <<active, removed, source>>
        PROVE  SourceInv'
    BY <2>1, SetOwnerSources
  <2>2. ASSUME NEW s \in Sels, NEW list \in Lists, Copy(s, list) PROVE SourceInv'
    <3>1. Len(lists) + 1 \in Nat
      BY DEF TypeOK
    <3>2. Client(Len(lists) + 1) \in Owners /\ ~IsOurs(Client(Len(lists) + 1))
      BY <3>1, OwnersFacts DEF IsOurs
    <3> QED BY <2>1, <2>2, <3>2 DEF Copy, selections
  <2>3. ASSUME NEW s \in Sels, Clear(s) PROVE SourceInv'
    BY <2>1, <2>3, NobodyIsNotOurs, OwnersFacts DEF Clear, selections
  <2> QED BY <1>8, <2>2, <2>3, RemoveSeatSources DEF Others
<1>9. ASSUME UNCHANGED vars PROVE SourceInv'
  BY <1>9, SameSources DEF vars, wvars, compositor, selections
<1> QED BY <1>1, <1>2, <1>3, <1>4, <1>5, <1>6, <1>7, <1>8, <1>9 DEF Next, Program

\* When nothing is on its way and nothing is pending, each selection knows whether
\* the program is its source, and by which of the sources that it made, however
\* many of them were replaced by others and by its own in any order.
THEOREM SourcesKnown == Spec => []KnowsSource
<1>1. TypeOK /\ SourceInv => KnowsSource
  <2>1. SUFFICES ASSUME TypeOK, SourceInv, Quiet, NEW s \in Sels, active[s]
                 PROVE  source[s] = (IF IsOurs(owner[s]) THEN owner[s][2] ELSE 0)
    BY DEF KnowsSource
  <2>2. \A e : ~Among(e, evq)
    BY <2>1 DEF Quiet, Among
  <2>3. SourceOf(s) /\ source[s] \in Nat
    BY <2>1 DEF SourceInv, TypeOK
  <2>4. CASE IsOurs(owner[s])
    BY <2>1, <2>3, <2>4 DEF SourceOf
  <2>5. CASE ~IsOurs(owner[s])
    <3>1. ASSUME source[s] # 0 PROVE FALSE
      <4>1. owner[s] = Clippor(source[s])
        BY <2>1, <2>2, <2>3, <3>1 DEF SourceOf
      <4> QED BY <2>5, <4>1 DEF IsOurs, Clippor
    <3> QED BY <2>5, <3>1
  <2> QED BY <2>4, <2>5
<1> QED BY <1>1, TypesHold, SourceStart, SourceStep, PTL DEF Spec

=============================================================================
