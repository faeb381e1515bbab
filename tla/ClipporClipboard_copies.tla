---------------------- MODULE ClipporClipboard_copies ----------------------
(***************************************************************************)
(* Proofs that no receive takes a clipboard back to an older copy,         *)
(* for every set of selections and seats, any number of moves, and with    *)
(* faults.                                                                 *)
(***************************************************************************)
EXTENDS ClipporClipboard_types

-----------------------------------------------------------------------------
(* The invariant                                                             *)

IsClient(o) == o[1] = "client"

\* No copy that is announced to the program is older than b.
Upcoming(b) == \A n \in 1..Len(evq) : IsClient(evq[n][3]) => b <= evq[n][3][2]

\* No offer that waits for its update idle is older than b.
Pending(b) == \A n \in 1..Len(updates) :
                 IsClient(offer[updates[n]]) => b <= offer[updates[n]][2]

ReadBy(x) == CopiesOf(x.got) \cup {x.from[2]}

\* Copies reach the program in the order they were made.
EventOrder ==
    /\ \A n \in 1..Len(evq) : IsClient(evq[n][3]) => evq[n][3][2] <= Len(lists)
    /\ \A m, n \in 1..Len(evq) :
            m < n /\ IsClient(evq[m][3]) /\ IsClient(evq[n][3]) => evq[m][3][2] < evq[n][3][2]
    /\ \A s \in Sels : IsClient(offer[s]) =>
            /\ offer[s][2] <= Len(lists)
            /\ \A n \in 1..Len(evq) : IsClient(evq[n][3]) => offer[s][2] < evq[n][3][2]

\* A receive that is not cancelled began with the oldest copy b that it reads:
\* what else is going to be read is not older.
Began(x, b) == /\ b \in ReadBy(x) /\ \A c \in ReadBy(x) : b <= c
               /\ IsClient(offer[x.sel]) => b <= offer[x.sel][2]
               /\ Upcoming(b) /\ b <= Len(lists)
               /\ batch = 0 => Pending(b)

\* The entry that is held has data of a copy b that is not newer than what is
\* going to be read.
Holds(b) == /\ b \in CopiesOf(cbEntry)
            /\ Upcoming(b) /\ b <= Len(lists) /\ Pending(b)
            /\ \A x \in ctxs : ~x.cancelled => \A c \in ReadBy(x) : b <= c

OrderInv == /\ EventOrder
            /\ batch > 0 => batch = Len(updates)
            /\ \A x \in ctxs : ~x.cancelled => \E b \in ReadBy(x) : Began(x, b)
            /\ cbEntry # {} => \E b \in CopiesOf(cbEntry) : Holds(b)

-----------------------------------------------------------------------------
(* Copies and events                                                         *)

LEMMA NotClients == ~IsClient(Nobody) /\ (\A o : IsOurs(o) => ~IsClient(o))
BY DEF IsClient, IsOurs, Nobody

\* An offer that a selection has is a client's.
LEMMA OffersAreClients ==
    ASSUME TypeOK, ReceiveInv, NEW s \in Sels, offer[s] # Nobody
    PROVE  IsClient(offer[s])
<1>1. offer[s] \in Owners /\ ~IsOurs(offer[s])
  BY DEF TypeOK, ReceiveInv, NoOwnOffer
<1> QED BY <1>1 DEF IsClient, IsOurs, Owners

LEMMA CopiesAreNumbers ==
    ASSUME TypeOK
    PROVE  /\ CopiesOf(cbEntry) \subseteq Nat
           /\ \A x \in ctxs : ReadBy(x) \subseteq Nat /\ CopiesOf(WithData(x)) = ReadBy(x)
<1>1. \A e \in Entries : CopiesOf(e) \subseteq Nat
  BY OwnersFacts DEF Entries, CopiesOf
<1>2. ASSUME NEW x \in ctxs PROVE ReadBy(x) \subseteq Nat /\ CopiesOf(WithData(x)) = ReadBy(x)
  <2>1. x.got \in Entries /\ x.from \in Owners
    BY DEF TypeOK, Receive
  <2>2. CopiesOf(WithData(x)) = ReadBy(x)
    <3> DEFINE last == <<x.list[x.index], x.from>>
    <3>1. WithData(x) = x.got \cup {last} /\ last[2] = x.from
      BY DEF WithData
    <3> HIDE DEF last
    <3>2. \A c : c \in CopiesOf(WithData(x)) <=> c \in CopiesOf(x.got) \/ c = x.from[2]
      BY <3>1 DEF CopiesOf
    <3> QED BY <3>2 DEF ReadBy
  <2> QED BY <1>1, <2>1, <2>2, OwnersFacts DEF ReadBy
<1> QED BY <1>1, <1>2 DEF TypeOK

\* A new source client comes after all that was announced.
LEMMA SetOwnerOrder ==
    ASSUME TypeOK, EventOrder, NEW s \in Sels, NEW o \in Owners, SetOwner(s, o), offer' = offer,
           \/ ~IsClient(o) /\ lists' = lists
           \/ o = Client(Len(lists) + 1) /\ Len(lists') = Len(lists) + 1
    PROVE  /\ EventOrder'
           /\ \A b \in Nat : b <= Len(lists) /\ Upcoming(b) => Upcoming(b)'
<1>1. /\ Len(evq) \in Nat /\ Len(evq') \in Nat /\ Len(evq') > Len(evq)
      /\ \A n \in 1..Len(evq) : evq'[n] = evq[n]
      /\ evq'[Len(evq')] = SelectionEvent(s, o)
      /\ \A n \in (Len(evq) + 1)..(Len(evq') - 1) :
                    IsOurs(owner[s]) /\ evq'[n] = CancelledEvent(s, owner[s])
  BY SetOwnerEffect DEF TypeOK
<1>2. Len(lists) \in Nat /\ Len(lists) <= Len(lists') /\ Len(lists') \in Nat
  BY DEF TypeOK
<1>3. IsClient(o) => o[2] = Len(lists) + 1 /\ o[2] <= Len(lists')
  BY <1>2, OwnersFacts
<1>4. ASSUME NEW n \in 1..Len(evq'), IsClient(evq'[n][3])
      PROVE  \/ n \in 1..Len(evq) /\ evq'[n] = evq[n]
             \/ n > Len(evq) /\ n = Len(evq') /\ evq'[n][3][2] = Len(lists) + 1 /\ Len(lists) + 1 <= Len(lists')
  <2>1. CASE n \in 1..Len(evq)
    BY <1>1, <2>1
  <2>2. CASE n = Len(evq')
    <3>1. evq'[n][3] = o
      BY <1>1, <2>2, EventsDiffer
    <3> QED BY <1>1, <1>3, <1>4, <2>2, <3>1
  <2>3. CASE n \in (Len(evq) + 1)..(Len(evq') - 1)
    <3>1. IsOurs(evq'[n][3])
      BY <1>1, <2>3, EventsDiffer
    <3> QED BY <1>4, <3>1, NotClients
  <2> QED BY <1>1, <2>1, <2>2, <2>3
<1>5. \A n \in 1..Len(evq') : IsClient(evq'[n][3]) => evq'[n][3][2] <= Len(lists')
  <2>1. \A n \in 1..Len(evq) : evq[n][3][2] \in Nat
    BY EventFacts DEF TypeOK
  <2> QED BY <1>1, <1>2, <1>4, <2>1 DEF EventOrder
<1>6. ASSUME NEW m \in 1..Len(evq'), NEW n \in 1..Len(evq'), m < n, IsClient(evq'[m][3]), IsClient(evq'[n][3])
      PROVE  evq'[m][3][2] < evq'[n][3][2]
  <2>1. m \in 1..Len(evq) /\ evq'[m] = evq[m] /\ evq[m][3][2] \in Nat
    BY <1>1, <1>4, <1>6, EventFacts DEF TypeOK
  <2>2. CASE n \in 1..Len(evq) /\ evq'[n] = evq[n]
    BY <1>6, <2>1, <2>2 DEF EventOrder
  <2>3. CASE evq'[n][3][2] = Len(lists) + 1
    BY <1>2, <1>6, <2>1, <2>3 DEF EventOrder
  <2> QED BY <1>4, <1>6, <2>2, <2>3
<1>7. ASSUME NEW t \in Sels, IsClient(offer'[t])
      PROVE  /\ offer'[t][2] <= Len(lists')
             /\ \A n \in 1..Len(evq') : IsClient(evq'[n][3]) => offer'[t][2] < evq'[n][3][2]
  <2>1. /\ offer[t][2] \in Nat /\ offer[t][2] <= Len(lists)
        /\ \A n \in 1..Len(evq) : IsClient(evq[n][3]) => offer[t][2] < evq[n][3][2]
    BY <1>7, OwnersFacts DEF TypeOK, EventOrder
  <2> QED BY <1>2, <1>4, <2>1
<1>8. ASSUME NEW b \in Nat, b <= Len(lists), Upcoming(b) PROVE Upcoming(b)'
  <2>1. \A n \in 1..Len(evq') : IsClient(evq'[n][3]) => b <= evq'[n][3][2]
    BY <1>2, <1>4, <1>8 DEF Upcoming
  <2> QED BY <2>1 DEF Upcoming
<1>9. EventOrder'
  BY <1>5, <1>6, <1>7 DEF EventOrder
<1> QED BY <1>8, <1>9

\* What arrives is older than all that is still on its way.
LEMMA ArrivesOrder ==
    ASSUME TypeOK, EventOrder, NEW e, Arrives(e), lists' = lists,
           \A s \in Sels : offer'[s] \in {offer[s], Nobody, e[3]}
    PROVE  /\ EventOrder'
           /\ \A b \in Nat : Upcoming(b) => Upcoming(b)' /\ (IsClient(e[3]) => b <= e[3][2])
<1>1. /\ Len(evq) \in Nat \ {0} /\ evq[1] = e /\ Len(evq') = Len(evq) - 1
      /\ \A n \in 1..Len(evq') : evq'[n] = evq[n + 1]
  BY ArrivesEffect DEF TypeOK
<1>2. \A n \in 1..Len(evq') : n + 1 \in 1..Len(evq) /\ 1 < n + 1 /\ evq'[n] = evq[n + 1]
  BY <1>1
<1>3. 1 \in 1..Len(evq)
  BY <1>1
<1>4. \A n \in 1..Len(evq') : IsClient(evq'[n][3]) => evq'[n][3][2] <= Len(lists')
  BY <1>2 DEF EventOrder
<1>5. \A m, n \in 1..Len(evq') :
            m < n /\ IsClient(evq'[m][3]) /\ IsClient(evq'[n][3]) => evq'[m][3][2] < evq'[n][3][2]
  <2>1. ASSUME NEW m \in 1..Len(evq'), NEW n \in 1..Len(evq'), m < n PROVE m + 1 < n + 1
    BY <2>1
  <2> QED BY <1>2, <2>1 DEF EventOrder
<1>6. ASSUME NEW s \in Sels, IsClient(offer'[s])
      PROVE  /\ offer'[s][2] <= Len(lists')
             /\ \A n \in 1..Len(evq') : IsClient(evq'[n][3]) => offer'[s][2] < evq'[n][3][2]
  <2>1. CASE offer'[s] = offer[s]
    BY <1>2, <1>6, <2>1 DEF EventOrder
  <2>2. CASE offer'[s] = e[3]
    BY <1>1, <1>2, <1>3, <1>6, <2>2 DEF EventOrder
  <2>3. CASE offer'[s] = Nobody
    BY <1>6, <2>3, NotClients
  <2> QED BY <2>1, <2>2, <2>3
<1>7. ASSUME NEW b \in Nat, Upcoming(b) PROVE Upcoming(b)' /\ (IsClient(e[3]) => b <= e[3][2])
  <2>1. \A n \in 1..Len(evq') : IsClient(evq'[n][3]) => b <= evq'[n][3][2]
    BY <1>2, <1>7 DEF Upcoming
  <2> QED BY <1>1, <1>3, <1>7, <2>1 DEF Upcoming
<1>8. EventOrder'
  BY <1>4, <1>5, <1>6 DEF EventOrder
<1> QED BY <1>7, <1>8

-----------------------------------------------------------------------------
(* The steps                                                                 *)

\* A step that changes no offer and no receive, but may announce something.
LEMMA AnnounceStep ==
    ASSUME TypeOK, OrderInv, UNCHANGED <<offer, updates, batch, ctxs, cbEntry>>, EventOrder',
           Len(lists') \in Nat, Len(lists) <= Len(lists'),
           \A b \in Nat : b <= Len(lists) /\ Upcoming(b) => Upcoming(b)'
    PROVE  OrderInv'
<1>0. Len(lists) \in Nat
  BY DEF TypeOK
<1>1. ASSUME NEW x \in ctxs, ~x.cancelled PROVE \E b \in ReadBy(x) : Began(x, b)'
  <2>1. PICK b \in ReadBy(x) : Began(x, b)
    BY <1>1 DEF OrderInv
  <2>2. b \in Nat
    BY CopiesAreNumbers
  <2>3. b <= Len(lists') /\ Upcoming(b)'
    BY <1>0, <2>1, <2>2 DEF Began
  <2>4. Pending(b)' = Pending(b)
    BY DEF Pending
  <2> QED BY <2>1, <2>3, <2>4 DEF Began
<1>2. ASSUME cbEntry # {} PROVE \E b \in CopiesOf(cbEntry) : Holds(b)'
  <2>1. PICK b \in CopiesOf(cbEntry) : Holds(b)
    BY <1>2 DEF OrderInv
  <2>2. b \in Nat
    BY CopiesAreNumbers
  <2>3. b <= Len(lists') /\ Upcoming(b)'
    BY <1>0, <2>1, <2>2 DEF Holds
  <2>4. Pending(b)' = Pending(b)
    BY DEF Pending
  <2> QED BY <2>1, <2>3, <2>4 DEF Holds
<1> QED BY <1>1, <1>2 DEF OrderInv

\* An offer arrives: it is newer than all that was read or waits to be.
LEMMA OfferOrder ==
    ASSUME TypeOK, ReceiveInv, OrderInv, UNCHANGED cvars, NEW s \in Sels, NEW o, NewOffer(s, o)
    PROVE  OrderInv'
<1>1. /\ Arrives(SelectionEvent(s, o)) /\ batch = 0 /\ SelectionEvent(s, o)[3] = o
      /\ offer' = [offer EXCEPT ![s] = IF FromClippor(o) THEN Nobody ELSE o]
      /\ updates' = (IF o = Nobody \/ FromClippor(o) THEN updates ELSE Append(updates, s))
      /\ UNCHANGED <<lists, batch, ctxs, cbEntry>>
  BY ArrivesEffect, EventsDiffer DEF NewOffer, TypeOK, cvars, received
<1>2. /\ offer'[s] = (IF FromClippor(o) THEN Nobody ELSE o)
      /\ \A t \in Sels : t # s => offer'[t] = offer[t]
  BY <1>1 DEF TypeOK
<1>3. /\ EventOrder'
      /\ \A b \in Nat : Upcoming(b) => Upcoming(b)' /\ (IsClient(o) => b <= o[2])
  <2>1. EventOrder
    BY DEF OrderInv
  <2> QED BY <1>1, <1>2, <2>1, ArrivesOrder
<1>4. ASSUME NEW b \in Nat, Upcoming(b), NEW t \in Sels, IsClient(offer[t]) => b <= offer[t][2]
      PROVE  IsClient(offer'[t]) => b <= offer'[t][2]
  <2>1. CASE t = s
    BY <1>2, <1>3, <1>4, <2>1, NotClients
  <2>2. CASE t # s
    BY <1>2, <1>4, <2>2
  <2> QED BY <2>1, <2>2
<1>5. ASSUME NEW b \in Nat, Upcoming(b), Pending(b) PROVE Pending(b)'
  <2>1. SUFFICES ASSUME NEW n \in 1..Len(updates'), IsClient(offer'[updates'[n]])
                 PROVE  b <= offer'[updates'[n]][2]
    BY DEF Pending
  <2>2. updates \in Seq(Sels)
    BY DEF TypeOK
  <2>3. CASE n \in 1..Len(updates) /\ updates'[n] = updates[n]
    <3>1. updates[n] \in Sels
      BY <2>2, <2>3
    <3> QED BY <1>4, <1>5, <2>1, <2>3, <3>1 DEF Pending
  <2>4. CASE updates'[n] = s
    BY <1>2, <1>3, <1>5, <2>1, <2>4, NotClients
  <2> QED BY <1>1, <2>1, <2>2, <2>3, <2>4
<1>6. ASSUME NEW x \in ctxs, ~x.cancelled PROVE \E b \in ReadBy(x) : Began(x, b)'
  <2>1. PICK b \in ReadBy(x) : Began(x, b)
    BY <1>6 DEF OrderInv
  <2>2. b \in Nat /\ x.sel \in Sels
    BY CopiesAreNumbers DEF ReceiveInv
  <2>3. Upcoming(b) /\ Pending(b) /\ (IsClient(offer[x.sel]) => b <= offer[x.sel][2])
    BY <1>1, <2>1 DEF Began
  <2>4. Upcoming(b)' /\ Pending(b)' /\ (IsClient(offer'[x.sel]) => b <= offer'[x.sel][2])
    BY <1>3, <1>4, <1>5, <2>2, <2>3
  <2> QED BY <1>1, <2>1, <2>4 DEF Began
<1>7. ASSUME cbEntry # {} PROVE \E b \in CopiesOf(cbEntry) : Holds(b)'
  <2>1. PICK b \in CopiesOf(cbEntry) : Holds(b)
    BY <1>7 DEF OrderInv
  <2>2. b \in Nat
    BY CopiesAreNumbers
  <2>3. Upcoming(b)' /\ Pending(b)'
    BY <1>3, <1>5, <2>1, <2>2 DEF Holds
  <2> QED BY <1>1, <2>1, <2>3 DEF Holds
<1> QED BY <1>1, <1>3, <1>6, <1>7 DEF OrderInv

\* A seat is removed: its selections have no offer any more.
LEMMA InertOrder ==
    ASSUME TypeOK, ReceiveInv, OrderInv, UNCHANGED cvars, NEW t, MakeInert(t)
    PROVE  OrderInv'
<1>1. /\ Arrives(RemovedEvent(t)) /\ UNCHANGED <<lists, updates, batch, ctxs, cbEntry>>
      /\ \A s \in Sels : offer'[s] \in {offer[s], Nobody}
  BY DEF MakeInert, loop, cvars, received
<1>2. EventOrder' /\ \A b \in Nat : Upcoming(b) => Upcoming(b)'
  BY <1>1, ArrivesOrder DEF OrderInv
<1>3. ASSUME NEW b, Pending(b) PROVE Pending(b)'
  <2>1. \A n \in 1..Len(updates) : updates[n] \in Sels
    BY DEF TypeOK
  <2> QED BY <1>1, <1>3, <2>1, NotClients DEF Pending
<1>4. ASSUME NEW x \in ctxs, ~x.cancelled PROVE \E b \in ReadBy(x) : Began(x, b)'
  <2>1. PICK b \in ReadBy(x) : Began(x, b)
    BY <1>4 DEF OrderInv
  <2>2. b \in Nat /\ x.sel \in Sels
    BY CopiesAreNumbers DEF ReceiveInv
  <2>3. Upcoming(b)' /\ (batch = 0 => Pending(b)')
    BY <1>2, <1>3, <2>1, <2>2 DEF Began
  <2>4. IsClient(offer'[x.sel]) => b <= offer'[x.sel][2]
    BY <1>1, <2>1, <2>2, NotClients DEF Began
  <2> QED BY <1>1, <2>1, <2>3, <2>4 DEF Began
<1>5. ASSUME cbEntry # {} PROVE \E b \in CopiesOf(cbEntry) : Holds(b)'
  <2>1. PICK b \in CopiesOf(cbEntry) : Holds(b)
    BY <1>5 DEF OrderInv
  <2>2. b \in Nat
    BY CopiesAreNumbers
  <2>3. Upcoming(b)' /\ Pending(b)'
    BY <1>2, <1>3, <2>1, <2>2 DEF Holds
  <2> QED BY <1>1, <2>1, <2>3 DEF Holds
<1> QED BY <1>1, <1>2, <1>4, <1>5 DEF OrderInv

\* A new receive is the only one that is not cancelled.
LEMMA StartLive ==
    ASSUME TypeOK, ReceiveInv, NEW s, NEW list, NEW n, StartReceive(s, list, n),
           NEW z \in ctxs', ~z.cancelled
    PROVE  z.sel = s /\ z.from = offer[s] /\ z.got = {}
<1> DEFINE cancel(x) == [x EXCEPT !.cancelled = @ \/ x.id = cbCancel]
           new == [id |-> NewId, sel |-> s, list |-> list, index |-> n,
                   from |-> offer[s], got |-> {}, cancelled |-> FALSE]
<1>1. ctxs' = {cancel(x) : x \in ctxs} \cup {new}
  BY DEF StartReceive, CancelCurrent
<1>2. ASSUME NEW x \in ctxs PROVE cancel(x).cancelled
  <2>1. x \in Receive /\ (~x.cancelled => x.id = cbCancel)
    BY DEF TypeOK, ReceiveInv, OneReceive
  <2> QED BY <2>1 DEF Receive
<1>3. new.sel = s /\ new.from = offer[s] /\ new.got = {}
  OBVIOUS
<1> HIDE DEF cancel, new
<1> QED BY <1>1, <1>2, <1>3

\* An update idle runs: if a receive starts, it is of an offer that was pending.
LEMMA UpdateOrder ==
    ASSUME TypeOK, ReceiveInv, OrderInv, NEW s \in Sels, Update(s)
    PROVE  OrderInv'
<1> DEFINE list == Offered(offer[s])
<1>1. /\ updates # <<>> /\ Head(updates) = s /\ updates' = Tail(updates)
      /\ batch' = (IF batch = 0 THEN Len(updates) ELSE batch) - 1
      /\ UNCHANGED <<lists, evq, offer, cbEntry>>
  BY DEF Update, TakeUpdate, compositor, selections
<1>2. /\ Len(updates) \in Nat \ {0} /\ updates[1] = s /\ batch \in Nat
      /\ Len(updates') = Len(updates) - 1 /\ batch' = Len(updates')
      /\ \A n \in 1..Len(updates') : updates'[n] = updates[n + 1]
  <2>1. updates \in Seq(Sels) /\ batch \in Nat
    BY DEF TypeOK
  <2>2. Len(updates) \in Nat \ {0} /\ Head(updates) = updates[1]
    BY <1>1, <2>1
  <2>3. Len(updates') = Len(updates) - 1 /\ \A n \in 1..Len(updates') : updates'[n] = updates[n + 1]
    BY <1>1, <2>1, HeadTailProperties
  <2>4. batch = 0 \/ batch = Len(updates)
    BY <2>1 DEF OrderInv
  <2> QED BY <1>1, <2>1, <2>2, <2>3, <2>4
<1>3. EventOrder' /\ \A b : Upcoming(b)' = Upcoming(b)
  BY <1>1 DEF OrderInv, EventOrder, Upcoming
<1>4. ASSUME NEW b, Pending(b) PROVE Pending(b)' /\ (IsClient(offer[s]) => b <= offer[s][2])
  <2>1. \A n \in 1..Len(updates') : n + 1 \in 1..Len(updates)
    BY <1>2
  <2>2. 1 \in 1..Len(updates)
    BY <1>2
  <2> QED BY <1>1, <1>2, <1>4, <2>1, <2>2 DEF Pending
<1>5. batch' = 0 => \A b : Pending(b)'
  BY <1>2 DEF Pending
<1>6. CASE UNCHANGED ctxs
  <2>1. ASSUME NEW x \in ctxs, ~x.cancelled PROVE \E b \in ReadBy(x) : Began(x, b)'
    <3>1. PICK b \in ReadBy(x) : Began(x, b)
      BY <2>1 DEF OrderInv
    <3> QED BY <1>1, <1>3, <1>5, <3>1 DEF Began
  <2>2. ASSUME cbEntry # {} PROVE \E b \in CopiesOf(cbEntry) : Holds(b)'
    <3>1. PICK b \in CopiesOf(cbEntry) : Holds(b)
      BY <2>2 DEF OrderInv
    <3>2. Pending(b)'
      BY <1>4, <3>1 DEF Holds
    <3> QED BY <1>1, <1>3, <1>6, <3>1, <3>2 DEF Holds
  <2> QED BY <1>1, <1>2, <1>3, <1>6, <2>1, <2>2 DEF OrderInv
<1>7. ASSUME NEW l, NEW n, StartReceive(s, l, n), list # <<>> PROVE OrderInv'
  <2>1. IsClient(offer[s]) /\ offer[s][2] \in Nat
    <3>1. offer[s] \in {Client(c) : c \in Copies}
      BY <1>7 DEF Offered
    <3>2. offer[s][1] = "client"
      BY <3>1 DEF Client
    <3> QED BY <3>2, OwnersFacts DEF IsClient, TypeOK
  <2>2. \A z \in ctxs' : ~z.cancelled => z.sel = s /\ z.from = offer[s] /\ z.got = {}
    BY <1>7, StartLive
  <2>3. ASSUME NEW z \in ctxs', ~z.cancelled PROVE ReadBy(z) = {offer[s][2]} /\ z.sel = s
    <3>1. CopiesOf({}) = {}
      BY DEF CopiesOf
    <3> QED BY <2>2, <2>3, <3>1 DEF ReadBy
  <2>4. Upcoming(offer[s][2]) /\ offer[s][2] <= Len(lists)
    <3>1. \A k \in 1..Len(evq) : evq[k][3][2] \in Nat
      BY EventFacts DEF TypeOK
    <3> QED BY <2>1, <3>1 DEF OrderInv, EventOrder, Upcoming
  <2>5. ASSUME NEW z \in ctxs', ~z.cancelled, NEW b, b = offer[s][2] PROVE Began(z, b)'
    <3>1. Upcoming(b)' /\ b <= Len(lists')
      BY <1>1, <1>3, <2>4, <2>5
    <3>2. IsClient(offer'[z.sel]) => b <= offer'[z.sel][2]
      BY <1>1, <2>1, <2>3, <2>5
    <3>3. b \in ReadBy(z) /\ \A c \in ReadBy(z) : b <= c
      BY <2>1, <2>3, <2>5
    <3>4. batch' = 0 => Pending(b)'
      BY <1>5
    <3> QED BY <3>1, <3>2, <3>3, <3>4 DEF Began
  <2>6. (\A x \in ctxs : ~x.cancelled => \E b \in ReadBy(x) : Began(x, b))'
    BY <2>3, <2>5
  <2>7. ASSUME cbEntry # {} PROVE \E b \in CopiesOf(cbEntry) : Holds(b)'
    <3>1. PICK b \in CopiesOf(cbEntry) : Holds(b)
      BY <2>7 DEF OrderInv
    <3>2. Pending(b)' /\ b <= offer[s][2]
      BY <1>4, <2>1, <3>1 DEF Holds
    <3>3. \A z \in ctxs' : ~z.cancelled => \A c \in ReadBy(z) : b <= c
      BY <2>3, <3>2
    <3> QED BY <1>1, <1>3, <3>1, <3>2, <3>3 DEF Holds
  <2> QED BY <1>1, <1>2, <1>3, <2>6, <2>7 DEF OrderInv
<1> QED BY <1>6, <1>7 DEF Update

\* A receive is over, or goes on with what its selection offers now.
LEMMA ReceiveOrder ==
    ASSUME TypeOK, ReceiveInv, OrderInv, UNCHANGED <<lists, evq, offer, updates, batch, cbEntry>>,
           \A z \in ctxs' : \/ z \in ctxs
                            \/ \E x \in ctxs : /\ ~x.cancelled /\ z.sel = x.sel /\ IsClient(offer[x.sel])
                                               /\ ReadBy(z) = ReadBy(x) \cup {offer[x.sel][2]}
    PROVE  OrderInv'
<1>1. EventOrder' /\ \A b : Upcoming(b)' = Upcoming(b) /\ Pending(b)' = Pending(b)
  BY DEF OrderInv, EventOrder, Upcoming, Pending
<1>2. ASSUME NEW z \in ctxs', ~z.cancelled PROVE \E b \in ReadBy(z) : Began(z, b)'
  <2>1. ASSUME NEW x \in ctxs, ~x.cancelled, z.sel = x.sel,
               \/ ReadBy(z) = ReadBy(x)
               \/ IsClient(offer[x.sel]) /\ ReadBy(z) = ReadBy(x) \cup {offer[x.sel][2]}
        PROVE  \E b \in ReadBy(z) : Began(z, b)'
    <3>1. PICK b \in ReadBy(x) : Began(x, b)
      BY <2>1 DEF OrderInv
    <3>2. b \in ReadBy(z) /\ \A c \in ReadBy(z) : b <= c
      BY <2>1, <3>1 DEF Began
    <3> QED BY <1>1, <2>1, <3>1, <3>2 DEF Began
  <2> QED BY <1>2, <2>1
<1>3. ASSUME cbEntry # {} PROVE \E b \in CopiesOf(cbEntry) : Holds(b)'
  <2>1. PICK b \in CopiesOf(cbEntry) : Holds(b)
    BY <1>3 DEF OrderInv
  <2>2. b \in Nat
    BY CopiesAreNumbers
  <2>3. ASSUME NEW z \in ctxs', ~z.cancelled, NEW c \in ReadBy(z) PROVE b <= c
    <3>1. CASE z \in ctxs
      BY <2>1, <2>3, <3>1 DEF Holds
    <3>2. ASSUME NEW x \in ctxs, ~x.cancelled, z.sel = x.sel, IsClient(offer[x.sel]),
                 ReadBy(z) = ReadBy(x) \cup {offer[x.sel][2]}
          PROVE  b <= c
      <4>1. PICK d \in ReadBy(x) : Began(x, d)
        BY <3>2 DEF OrderInv
      <4>2. d \in Nat /\ b <= d /\ d <= offer[x.sel][2]
        BY <2>1, <3>2, <4>1, CopiesAreNumbers DEF Holds, Began
      <4>3. offer[x.sel][2] \in Nat
        BY OwnersFacts DEF TypeOK, ReceiveInv
      <4> QED BY <2>1, <2>2, <2>3, <3>2, <4>2, <4>3 DEF Holds
    <3> QED BY <2>3, <3>1, <3>2
  <2> QED BY <1>1, <2>1, <2>3 DEF Holds
<1> QED BY <1>1, <1>2, <1>3 DEF OrderInv

LEMMA NextMimeTypeOrder ==
    ASSUME TypeOK, ReceiveInv, OrderInv, NEW x \in ctxs, NextMimeType(x)
    PROVE  OrderInv'
<1> DEFINE n == NextAllowed(x.list, x.index + 1)
           y == [x EXCEPT !.got = WithData(x), !.index = n, !.from = offer[x.sel]]
<1>1. ~x.cancelled /\ UNCHANGED <<lists, evq, offer, updates, batch, cbEntry>>
  BY DEF NextMimeType, Callback, wvars, compositor, selections, loop
<1>2. CASE Bail(x)
  <2>1. \A z \in ctxs' : z \in ctxs
    BY <1>2 DEF Bail
  <2> QED BY <1>1, <2>1, ReceiveOrder
<1>3. CASE HasStream(x.sel) /\ ctxs' = (ctxs \ {x}) \cup {y}
  <2>1. y = [id |-> x.id, sel |-> x.sel, list |-> x.list, index |-> n,
             from |-> offer[x.sel], got |-> WithData(x), cancelled |-> x.cancelled]
    <3> HIDE DEF n
    <3> QED BY ContextChange DEF ReceiveInv, Contexts
  <2>2. y.sel = x.sel /\ y.from = offer[x.sel] /\ y.got = WithData(x)
    BY <2>1
  <2> HIDE DEF y
  <2>3. ReadBy(y) = ReadBy(x) \cup {offer[x.sel][2]}
    BY <2>2, CopiesAreNumbers DEF ReadBy
  <2>4. IsClient(offer[x.sel])
    BY <1>3, OffersAreClients DEF HasStream, ReceiveInv
  <2>5. \A z \in ctxs' : z \in ctxs \/ z = y
    BY <1>3
  <2> QED BY <1>1, <2>2, <2>3, <2>4, <2>5, ReceiveOrder
<1> QED BY <1>2, <1>3 DEF NextMimeType

\* A receive ends with an entry: the copy that it began with is its oldest.
LEMMA FinishOrder ==
    ASSUME TypeOK, ReceiveInv, OrderInv, NEW x \in ctxs, Finish(x)
    PROVE  OrderInv'
<1>1. /\ ~x.cancelled /\ batch = 0
      /\ cbEntry' = WithData(x) /\ ctxs' = ctxs \ {x}
      /\ UNCHANGED <<lists, evq, offer, updates, batch>>
  BY DEF Finish, Callback, Bail, wvars, compositor, selections, loop
<1>2. EventOrder' /\ \A b : Upcoming(b)' = Upcoming(b) /\ Pending(b)' = Pending(b)
  BY <1>1 DEF OrderInv, EventOrder, Upcoming, Pending
<1>3. \A z \in ctxs' : z.cancelled
  BY <1>1 DEF ReceiveInv, OneReceive, Contexts
<1>4. \E b \in CopiesOf(cbEntry') : Holds(b)'
  <2>1. PICK b \in ReadBy(x) : Began(x, b)
    BY <1>1 DEF OrderInv
  <2>2. b \in CopiesOf(cbEntry')
    BY <1>1, <2>1, CopiesAreNumbers
  <2> QED BY <1>1, <1>2, <1>3, <2>1, <2>2 DEF Began, Holds
<1> QED BY <1>1, <1>2, <1>3, <1>4 DEF OrderInv

\* The database is loaded: its copy is older than all that is going to be read.
LEMMA LoadOrder ==
    ASSUME TypeOK, ReceiveInv, OrderInv, LoadDatabase
    PROVE  OrderInv'
<1>1. cbEntry' \in Stored /\ UNCHANGED <<lists, evq, offer, updates, batch, ctxs>>
  BY DEF LoadDatabase, wvars, compositor, selections, loop
<1>2. EventOrder' /\ \A b : Upcoming(b)' = Upcoming(b) /\ Pending(b)' = Pending(b)
  BY <1>1 DEF OrderInv, EventOrder, Upcoming, Pending
<1>3. ASSUME cbEntry' # {} PROVE \E b \in CopiesOf(cbEntry') : Holds(b)'
  <2>1. PICK p \in cbEntry' : p[2] = Client(0)
    BY <1>1, <1>3, StoredAssumption
  <2>2. 0 \in CopiesOf(cbEntry')
    BY <2>1, OwnersFacts DEF CopiesOf
  <2>3. Upcoming(0)'
    BY <1>1, EventFacts DEF Upcoming, TypeOK
  <2>4. Pending(0)'
    <3>1. \A n \in 1..Len(updates) : offer[updates[n]] \in Owners
      BY DEF TypeOK
    <3> QED BY <1>1, <3>1, OwnersFacts DEF Pending
  <2>5. 0 <= Len(lists')
    BY <1>1 DEF TypeOK
  <2>6. \A x \in ctxs' : \A c \in ReadBy(x) : 0 <= c
    BY <1>1, CopiesAreNumbers
  <2> QED BY <2>2, <2>3, <2>4, <2>5, <2>6 DEF Holds
<1>4. ASSUME NEW x \in ctxs, ~x.cancelled PROVE \E b \in ReadBy(x) : Began(x, b)'
  <2>1. PICK b \in ReadBy(x) : Began(x, b)
    BY <1>4 DEF OrderInv
  <2> QED BY <1>1, <1>2, <2>1 DEF Began
<1> QED BY <1>1, <1>2, <1>3, <1>4 DEF OrderInv

-----------------------------------------------------------------------------
(* The theorem                                                               *)

LEMMA OrderStart == Init => OrderInv
<1> SUFFICES ASSUME Init PROVE OrderInv
  OBVIOUS
<1>1. /\ offer = [s \in Sels |-> Nobody] /\ updates = <<>> /\ batch = 0 /\ ctxs = {}
      /\ cbEntry = {}
  BY DEF Init, WInit
<1>2. \A n \in 1..Len(evq) : ~IsClient(evq[n][3])
  <2>1. PICK ss \in SetToSeqs(Sels) :
                evq = [m \in 1..Cardinality(Sels) |-> SelectionEvent(ss[m], Nobody)]
    BY DEF Init, WInit
  <2>2. Len(evq) = Cardinality(Sels)
    BY <2>1, SelsAssumption, FS_CardinalityType
  <2>3. ASSUME NEW n \in 1..Len(evq) PROVE evq[n][3] = Nobody
    <3>1. evq[n] = SelectionEvent(ss[n], Nobody)
      BY <2>1, <2>2
    <3> QED BY <3>1, EventsDiffer
  <2> QED BY <2>3, NotClients
<1>3. EventOrder
  BY <1>1, <1>2, NotClients DEF EventOrder
<1> QED BY <1>1, <1>3 DEF OrderInv

LEMMA OrderStep == TypeOK /\ ReceiveInv /\ OrderInv /\ [Next]_vars => OrderInv'
<1> SUFFICES ASSUME TypeOK, ReceiveInv, OrderInv, [Next]_vars PROVE OrderInv'
  OBVIOUS
<1>0. Len(lists) \in Nat /\ EventOrder
  BY DEF TypeOK, OrderInv
<1>a. ASSUME UNCHANGED <<lists, evq, offer, updates, batch, ctxs, cbEntry>> PROVE OrderInv'
  <2>1. EventOrder' /\ \A b : Upcoming(b)' = Upcoming(b)
    BY <1>0, <1>a DEF EventOrder, Upcoming
  <2> QED BY <1>0, <1>a, <2>1, AnnounceStep
<1>b. ASSUME NEW s \in Sels, NEW e, BecomeSource(s, e),
             UNCHANGED <<lists, offer, updates, batch, ctxs, cbEntry>>
      PROVE  OrderInv'
  <2>1. PICK o \in Owners : /\ IF Present(s) THEN SetOwner(s, o) ELSE UNCHANGED <<owner, evq>>
                            /\ o = Nobody \/ o = Clippor(NewSource(s))
    BY <1>b, BecomeSourceEffect
  <2>2. ~IsClient(o)
    BY <2>1, NotClients DEF IsClient, Clippor
  <2>3. CASE SetOwner(s, o)
    <3>1. EventOrder' /\ \A b \in Nat : b <= Len(lists) /\ Upcoming(b) => Upcoming(b)'
      BY <1>0, <1>b, <2>2, <2>3, SetOwnerOrder
    <3> QED BY <1>0, <1>b, <3>1, AnnounceStep
  <2>4. CASE UNCHANGED <<owner, evq>>
    BY <1>a, <1>b, <2>4
  <2> QED BY <2>1, <2>3, <2>4
<1>1. ASSUME LoadDatabase PROVE OrderInv'
  BY <1>1, LoadOrder
<1>12. ASSUME StartLoop PROVE OrderInv'
  BY <1>12, <1>a DEF StartLoop, wvars, compositor, selections, loop
<1>2. ASSUME UpdateNext PROVE OrderInv'
  <2> DEFINE s == conns[place]
  <2>1. s \in Sels /\ UNCHANGED <<lists, offer, updates, batch, ctxs, cbEntry>>
    BY <1>2 DEF UpdateNext, TypeOK, loop, received
  <2>2. CASE UpdateSelection(s, cbEntry, cause)
    <3>1. CASE s = cause
      BY <1>a, <2>1, <2>2, <3>1 DEF UpdateSelection
    <3>2. CASE s # cause
      BY <1>b, <2>1, <2>2, <3>2 DEF UpdateSelection
    <3> QED BY <3>1, <3>2
  <2>3. CASE UNCHANGED evq
    BY <1>a, <2>1, <2>3
  <2> QED BY <1>2, <2>2, <2>3 DEF UpdateNext
<1>3. ASSUME UpdatesDone PROVE OrderInv'
  BY <1>3, <1>a DEF UpdatesDone, wvars, compositor, selections, loop, received
<1>4. ASSUME Events, UNCHANGED cvars PROVE OrderInv'
  <2>1. ASSUME NEW s \in Sels, NEW o, Cancelled(s, o) PROVE OrderInv'
    <3>1. /\ Arrives(CancelledEvent(s, o))
          /\ UNCHANGED <<lists, offer, updates, batch, ctxs, cbEntry>>
      BY <1>4, <2>1 DEF Cancelled, loop, cvars, received
    <3>2. EventOrder' /\ \A b \in Nat : Upcoming(b) => Upcoming(b)'
      BY <1>0, <3>1, ArrivesOrder
    <3> QED BY <1>0, <3>1, <3>2, AnnounceStep
  <2> QED BY <1>4, <2>1, OfferOrder, InertOrder DEF Events
<1>5. ASSUME NEW s \in Sels, Update(s) PROVE OrderInv'
  BY <1>5, UpdateOrder
<1>6. ASSUME NEW s \in Sels, Own(s) PROVE OrderInv'
  <2>1. UNCHANGED <<lists, offer, updates, batch, ctxs, cbEntry>>
    BY <1>6 DEF Own, OwnIdle, cvars, received
  <2>2. CASE BecomeSource(s, entry[s])
    BY <1>b, <2>1, <2>2
  <2>3. CASE UNCHANGED evq
    BY <1>a, <2>1, <2>3
  <2> QED BY <1>6, <2>2, <2>3 DEF Own, OwnIdle
<1>7. ASSUME NEW x \in ctxs, ReadFails(x) PROVE OrderInv'
  BY <1>7, ReceiveOrder DEF ReadFails, Callback, Bail, wvars, compositor, selections, loop
<1>8. ASSUME NEW x \in ctxs, NextMimeType(x) PROVE OrderInv'
  BY <1>8, NextMimeTypeOrder
<1>9. ASSUME NEW x \in ctxs, Finish(x) PROVE OrderInv'
  BY <1>9, FinishOrder
<1>10. ASSUME Others, UNCHANGED cvars PROVE OrderInv'
  <2>1. UNCHANGED <<offer, updates, batch, ctxs, cbEntry>>
    BY <1>10 DEF Others, Copy, Clear, RemoveSeat, selections, loop, cvars, received
  <2>2. ASSUME NEW s \in Sels, NEW list \in Lists, Copy(s, list) PROVE OrderInv'
    <3>1. /\ SetOwner(s, Client(Len(lists) + 1)) /\ Len(lists') = Len(lists) + 1
          /\ Client(Len(lists) + 1) \in Owners /\ Len(lists') \in Nat
      <4>1. lists' = Append(lists, list) /\ SetOwner(s, Client(Len(lists) + 1))
        BY <2>2 DEF Copy
      <4>2. Len(lists') = Len(lists) + 1 /\ Len(lists) + 1 \in Nat
        BY <4>1 DEF TypeOK
      <4> QED BY <4>1, <4>2, OwnersFacts
    <3>2. EventOrder' /\ \A b \in Nat : b <= Len(lists) /\ Upcoming(b) => Upcoming(b)'
      BY <1>0, <2>1, <3>1, SetOwnerOrder
    <3> QED BY <1>0, <2>1, <3>1, <3>2, AnnounceStep
  <2>3. ASSUME NEW s \in Sels, Clear(s) PROVE OrderInv'
    <3>1. SetOwner(s, Nobody) /\ lists' = lists /\ Nobody \in Owners
      BY <2>3, OwnersFacts DEF Clear
    <3>2. EventOrder' /\ \A b \in Nat : b <= Len(lists) /\ Upcoming(b) => Upcoming(b)'
      BY <1>0, <2>1, <3>1, NotClients, SetOwnerOrder
    <3> QED BY <1>0, <2>1, <3>1, <3>2, AnnounceStep
  <2>4. ASSUME NEW t \in Seats, RemoveSeat(t) PROVE OrderInv'
    <3>1. evq' = Append(evq, RemovedEvent(t)) /\ lists' = lists /\ RemovedEvent(t)[3] = Nobody
      BY <2>4 DEF RemoveSeat, RemovedEvent
    <3>2. /\ Len(evq) \in Nat /\ Len(evq') = Len(evq) + 1 /\ evq'[Len(evq) + 1] = RemovedEvent(t)
          /\ \A n \in 1..Len(evq) : evq'[n] = evq[n]
      BY <3>1 DEF TypeOK
    <3>3. \A n \in 1..Len(evq') : IsClient(evq'[n][3]) => n \in 1..Len(evq) /\ evq'[n] = evq[n]
      <4>1. \A n \in 1..Len(evq') : n \in 1..Len(evq) \/ n = Len(evq) + 1
        BY <3>2
      <4> QED BY <3>1, <3>2, <4>1, NotClients
    <3>4. EventOrder'
      BY <1>0, <2>1, <3>1, <3>3 DEF EventOrder
    <3>5. \A b \in Nat : Upcoming(b) => Upcoming(b)'
      BY <3>3 DEF Upcoming
    <3> QED BY <1>0, <2>1, <3>1, <3>4, <3>5, AnnounceStep
  <2> QED BY <1>10, <2>2, <2>3, <2>4 DEF Others
<1>11. ASSUME UNCHANGED vars PROVE OrderInv'
  BY <1>11, <1>a DEF vars, wvars, compositor, selections, loop, cvars, received
<1> QED BY <1>1, <1>2, <1>3, <1>4, <1>5, <1>6, <1>7, <1>8, <1>9, <1>10, <1>11, <1>12 DEF Next, Program

\* No data of an entry that is received in the place of another is older than all
\* of the data that it replaces, in whatever order copies of several selections and
\* seats are announced, cancelled and read, before the database is loaded and after.
THEOREM EntryNeverGoesBack == Spec => NeverGoesBack
<1> DEFINE Newer == cbEntry # {} /\ stage' = stage =>
                        \A d \in CopiesOf(cbEntry') : \E c \in CopiesOf(cbEntry) : c <= d
<1>1. TypeOK /\ ReceiveInv /\ OrderInv /\ [Next]_vars => [Newer]_cbEntry
  <2>1. SUFFICES ASSUME TypeOK, ReceiveInv, OrderInv, [Next]_vars, cbEntry' # cbEntry, cbEntry # {},
                        stage' = stage, NEW d \in CopiesOf(cbEntry')
                 PROVE  \E c \in CopiesOf(cbEntry) : c <= d
    OBVIOUS
  <2>2. ~LoadDatabase
    BY <2>1 DEF LoadDatabase
  <2>3. \E x \in ctxs : Finish(x)
    BY <2>1, <2>2
       DEF Next, Program, StartLoop, UpdateNext, UpdatesDone, Update, Own, ReadFails, NextMimeType,
           vars, cvars, received
  <2>4. PICK x \in ctxs : Finish(x)
    BY <2>3
  <2>5. d \in ReadBy(x) /\ ~x.cancelled
    BY <2>1, <2>4, CopiesAreNumbers DEF Finish
  <2> QED BY <2>1, <2>5 DEF OrderInv, Holds
<1>2. Init => OrderInv
  BY OrderStart
<1>3. TypeOK /\ ReceiveInv /\ OrderInv /\ [Next]_vars => OrderInv'
  BY OrderStep
<1> HIDE DEF Newer
<1>4. Spec => [][Newer]_cbEntry
  BY <1>1, <1>2, <1>3, TypesHold, ReceiveHolds, PTL DEF Spec
<1> QED BY <1>4 DEF NeverGoesBack, Newer

=============================================================================
