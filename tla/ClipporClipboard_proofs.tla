----------------------- MODULE ClipporClipboard_proofs -----------------------
(***************************************************************************)
(* Proofs about the receives of a clipboard, for every set of selections,  *)
(* seats, mime types and lists, any number of moves, and with faults.      *)
(***************************************************************************)
EXTENDS ClipporClipboard, FiniteSetTheorems, TLAPS

-----------------------------------------------------------------------------
(* The invariant                                                             *)

IsContext(x) ==
    x = [id |-> x.id, sel |-> x.sel, list |-> x.list, index |-> x.index,
         from |-> x.from, got |-> x.got, cancelled |-> x.cancelled]

\* There are finitely many receives, whose ids are not 0 and differ.
Contexts == /\ IsFiniteSet(ctxs)
            /\ \A x \in ctxs : IsContext(x) /\ x.id \in Nat \ {0}
            /\ \A x, y \in ctxs : x.id = y.id => x = y

ReceiveInv == /\ Contexts
              /\ OneReceive
              /\ CancellableIsLive
              /\ offer = [s \in Sels |-> offer[s]]
              /\ \A x \in ctxs : x.sel \in Sels
              /\ updates \in Seq(Sels)
              /\ NoOwnOffer

\* Nobody is not this program.
LEMMA NobodyIsNotOurs == ~IsOurs(Nobody)
BY DEF IsOurs, Nobody

\* The fields of a record that is written out, and of one that differs in some.
LEMMA ContextFields ==
    ASSUME NEW i, NEW s, NEW l, NEW n, NEW o, NEW g, NEW c, NEW x,
           x = [id |-> i, sel |-> s, list |-> l, index |-> n, from |-> o, got |-> g, cancelled |-> c]
    PROVE  /\ x.id = i /\ x.sel = s /\ x.from = o /\ x.cancelled = c
           /\ IsContext(x)
BY DEF IsContext

LEMMA ContextChange ==
    ASSUME NEW x, IsContext(x), NEW n, NEW o, NEW g
    PROVE  [x EXCEPT !.got = g, !.index = n, !.from = o] =
           [id |-> x.id, sel |-> x.sel, list |-> x.list, index |-> n,
            from |-> o, got |-> g, cancelled |-> x.cancelled]
<1> DEFINE y == [x EXCEPT !.got = g]
           z == [y EXCEPT !.index = n]
<1>1. y = [id |-> x.id, sel |-> x.sel, list |-> x.list, index |-> x.index,
           from |-> x.from, got |-> g, cancelled |-> x.cancelled]
  BY DEF IsContext
<1>2. [x EXCEPT !.got = g, !.index = n, !.from = o] = [z EXCEPT !.from = o]
  BY Zenon
<1> HIDE DEF y
<1>3. z = [id |-> x.id, sel |-> x.sel, list |-> x.list, index |-> n,
           from |-> x.from, got |-> g, cancelled |-> x.cancelled]
  BY <1>1
<1> HIDE DEF z
<1> QED BY <1>2, <1>3

\* An image of a finite set is finite and not larger.
LEMMA ImageFinite ==
    ASSUME NEW S, NEW T, NEW f \in [S -> T], IsFiniteSet(S), \A t \in T : \E s \in S : f[s] = t
    PROVE  IsFiniteSet(T) /\ Cardinality(T) <= Cardinality(S)
<1>1. f \in Surjection(S, T)
  BY DEF Surjection
<1> QED BY <1>1, FS_Surjection

\* The id of a new receive is not that of another one.
LEMMA NewIdFresh ==
    ASSUME Contexts
    PROVE  NewId \in Nat \ {0} /\ \A x \in ctxs : x.id # NewId
<1> DEFINE used == {x.id : x \in ctxs}
           f    == [x \in ctxs |-> x.id]
           n    == Cardinality(ctxs)
<1>1. IsFiniteSet(used) /\ Cardinality(used) <= n /\ n \in Nat
  <2>1. f \in [ctxs -> used] /\ \A t \in used : \E x \in ctxs : f[x] = t
    OBVIOUS
  <2>2. IsFiniteSet(ctxs)
    BY DEF Contexts
  <2> HIDE DEF f, used
  <2> QED BY <2>1, <2>2, ImageFinite, FS_CardinalityType
<1>2. Cardinality(1..(n + 1)) = n + 1
  BY <1>1, FS_Interval
<1>3. \E k \in 1..(n + 1) : k \notin used
  <2>1. ASSUME 1..(n + 1) \subseteq used PROVE FALSE
    <3>1. Cardinality(1..(n + 1)) <= Cardinality(used)
      BY <1>1, <2>1, FS_Subset
    <3>2. Cardinality(used) \in Nat
      BY <1>1, FS_CardinalityType
    <3> QED BY <1>1, <1>2, <3>1, <3>2
  <2> QED BY <2>1
<1>4. \E k \in 1..(n + 1) : \A x \in ctxs : x.id # k
  BY <1>3
<1>5. NewId \in 1..(n + 1) /\ \A x \in ctxs : x.id # NewId
  BY <1>4 DEF NewId
<1> QED BY <1>1, <1>5

-----------------------------------------------------------------------------
(* The steps                                                                 *)

\* A receive begins: every other one has been cancelled.
LEMMA StartStep ==
    ASSUME ReceiveInv, NEW s \in Sels, NEW list, NEW n, StartReceive(s, list, n), offer' = offer,
           updates' \in Seq(Sels)
    PROVE  ReceiveInv'
<1> DEFINE cancel(x) == [x EXCEPT !.cancelled = @ \/ x.id = cbCancel]
           new == [id |-> NewId, sel |-> s, list |-> list, index |-> n,
                   from |-> offer[s], got |-> {}, cancelled |-> FALSE]
<1>1. ctxs' = {cancel(x) : x \in ctxs} \cup {new} /\ cbCancel' = NewId
  BY DEF StartReceive, CancelCurrent
<1>2. Contexts /\ NewId \in Nat \ {0} /\ \A x \in ctxs : x.id # NewId
  BY NewIdFresh DEF ReceiveInv
<1>3. ASSUME NEW x \in ctxs
      PROVE  /\ cancel(x) = [id |-> x.id, sel |-> x.sel, list |-> x.list, index |-> x.index,
                             from |-> x.from, got |-> x.got,
                             cancelled |-> x.cancelled \/ x.id = cbCancel]
             /\ cancel(x).cancelled = (x.cancelled \/ x.id = cbCancel)
  <2>1. IsContext(x)
    BY <1>2 DEF Contexts
  <2>2. x = [id |-> x.id, sel |-> x.sel, list |-> x.list, index |-> x.index,
             from |-> x.from, got |-> x.got, cancelled |-> x.cancelled]
    BY <2>1 DEF IsContext
  <2> QED BY <2>2
<1>4. /\ new.id = NewId /\ new.sel = s /\ new.from = offer[s] /\ ~new.cancelled
      /\ IsContext(new)
  BY DEF IsContext
<1>5. ASSUME NEW x \in ctxs
      PROVE  /\ cancel(x) \in ctxs' /\ IsContext(cancel(x))
             /\ cancel(x).id = x.id /\ cancel(x).sel = x.sel /\ cancel(x).from = x.from
             /\ cancel(x).cancelled
  <2>1. cancel(x) \in ctxs'
    BY <1>1
  <2>2. x.cancelled \/ x.id = cbCancel
    BY DEF ReceiveInv, OneReceive
  <2>3. /\ cancel(x) = [id |-> x.id, sel |-> x.sel, list |-> x.list, index |-> x.index,
                         from |-> x.from, got |-> x.got,
                         cancelled |-> x.cancelled \/ x.id = cbCancel]
        /\ cancel(x).cancelled
    BY <1>3, <2>2
  <2> HIDE DEF cancel
  <2>4. /\ cancel(x).id = x.id /\ cancel(x).sel = x.sel /\ cancel(x).from = x.from
        /\ IsContext(cancel(x))
    BY <2>3, ContextFields
  <2> QED BY <2>1, <2>3, <2>4
<1>6. new \in ctxs' /\ \A z \in ctxs' : z = new \/ \E x \in ctxs : z = cancel(x)
  BY <1>1
<1>7. IsFiniteSet(ctxs')
  <2> DEFINE old == {cancel(x) : x \in ctxs}
             f   == [x \in ctxs |-> cancel(x)]
  <2>1. f \in [ctxs -> old] /\ \A t \in old : \E x \in ctxs : f[x] = t
    <3> HIDE DEF cancel
    <3> QED OBVIOUS
  <2>2. IsFiniteSet(ctxs)
    BY <1>2 DEF Contexts
  <2>3. ctxs' = old \cup {new}
    BY <1>1
  <2> HIDE DEF f, old, new
  <2>4. IsFiniteSet(old)
    BY <2>1, <2>2, ImageFinite
  <2> QED BY <2>3, <2>4, FS_AddElement
<1> HIDE DEF cancel, new
<1>8. \A z \in ctxs' : IsContext(z) /\ z.id \in Nat \ {0}
  BY <1>2, <1>4, <1>5, <1>6 DEF Contexts
<1>9. \A z, w \in ctxs' : z.id = w.id => z = w
  <2>1. SUFFICES ASSUME NEW z \in ctxs', NEW w \in ctxs', z.id = w.id PROVE z = w
    OBVIOUS
  <2>2. ASSUME NEW x \in ctxs, z = cancel(x) PROVE z = w
    <3>1. z.id = x.id /\ x.id # NewId
      BY <1>2, <1>5, <2>2
    <3>2. PICK y \in ctxs : w = cancel(y)
      BY <1>4, <1>6, <2>1, <3>1
    <3>3. x.id = y.id
      BY <1>5, <2>1, <3>1, <3>2
    <3>4. \A v, u \in ctxs : v.id = u.id => v = u
      BY <1>2 DEF Contexts
    <3>5. x = y
      BY <3>3, <3>4
    <3> QED BY <2>2, <3>2, <3>5
  <2>3. ASSUME z = new PROVE z = w
    BY <1>2, <1>4, <1>5, <1>6, <2>1, <2>3
  <2> QED BY <1>6, <2>2, <2>3
<1>10. OneReceive' /\ CancellableIsLive'
  BY <1>1, <1>4, <1>5, <1>6 DEF OneReceive, CancellableIsLive
<1>11. (\A x \in ctxs : x.sel \in Sels)' /\ NoOwnOffer'
  BY <1>4, <1>5, <1>6 DEF ReceiveInv, NoOwnOffer
<1>12. Contexts'
  BY <1>7, <1>8, <1>9 DEF Contexts
<1> QED BY <1>10, <1>11, <1>12 DEF ReceiveInv

\* A receive is over.
LEMMA BailStep ==
    ASSUME ReceiveInv, NEW x \in ctxs, Bail(x), offer' = offer, updates' = updates
    PROVE  ReceiveInv'
<1>1. /\ ctxs' = ctxs \ {x}
      /\ cbCancel' = (IF cbCancel = x.id THEN 0 ELSE cbCancel)
  BY DEF Bail
<1>2. Contexts'
  BY <1>1, FS_RemoveElement DEF ReceiveInv, Contexts
<1>3. OneReceive'
  BY <1>1 DEF ReceiveInv, Contexts, OneReceive
<1>4. CancellableIsLive'
  BY <1>1 DEF ReceiveInv, CancellableIsLive
<1> QED BY <1>1, <1>2, <1>3, <1>4 DEF ReceiveInv, NoOwnOffer

\* A receive goes on with its next mime type.
LEMMA NextStep ==
    ASSUME ReceiveInv, NEW x \in ctxs, NextMimeType(x)
    PROVE  ReceiveInv'
<1> DEFINE n == NextAllowed(x.list, x.index + 1)
           y == [x EXCEPT !.got = WithData(x), !.index = n, !.from = offer[x.sel]]
<1>1. offer' = offer /\ updates' = updates
  BY DEF NextMimeType, wvars, selections, loop
<1>2. CASE Bail(x)
  BY <1>1, <1>2, BailStep
<1>3. CASE ctxs' = (ctxs \ {x}) \cup {y} /\ cbCancel' = cbCancel
  <2>1. IsContext(x) /\ x.id \in Nat \ {0}
    BY DEF ReceiveInv, Contexts
  <2>2. y = [id |-> x.id, sel |-> x.sel, list |-> x.list, index |-> n,
             from |-> offer[x.sel], got |-> WithData(x), cancelled |-> x.cancelled]
    <3> HIDE DEF n
    <3> QED BY <2>1, ContextChange
  <2>3. /\ y.id = x.id /\ y.sel = x.sel /\ y.from = offer[x.sel]
        /\ y.cancelled = x.cancelled /\ IsContext(y)
    BY <2>2 DEF IsContext
  <2> HIDE DEF y
  <2>4. Contexts'
    <3>1. IsFiniteSet(ctxs')
      BY <1>3, FS_RemoveElement, FS_AddElement DEF ReceiveInv, Contexts
    <3>2. \A z \in ctxs' : IsContext(z) /\ z.id \in Nat \ {0}
      BY <1>3, <2>1, <2>3 DEF ReceiveInv, Contexts
    <3>3. \A z, w \in ctxs' : z.id = w.id => z = w
      BY <1>3, <2>3 DEF ReceiveInv, Contexts
    <3> QED BY <3>1, <3>2, <3>3 DEF Contexts
  <2>5. OneReceive'
    BY <1>3, <2>3 DEF ReceiveInv, OneReceive
  <2>6. CancellableIsLive'
    BY <1>3, <2>3 DEF ReceiveInv, CancellableIsLive
  <2>7. NoOwnOffer' /\ (\A z \in ctxs : z.sel \in Sels)'
    BY <1>1, <1>3, <2>3 DEF ReceiveInv, NoOwnOffer
  <2> QED BY <1>1, <2>4, <2>5, <2>6, <2>7 DEF ReceiveInv
<1> QED BY <1>2, <1>3 DEF NextMimeType

\* An offer of the program is never kept, whatever arrives.
LEMMA OfferStep ==
    ASSUME ReceiveInv, UNCHANGED cvars, NEW s \in Sels, NEW o, NewOffer(s, o)
    PROVE  ReceiveInv'
<1>1. /\ offer' = [offer EXCEPT ![s] = IF FromClippor(o) THEN Nobody ELSE o]
      /\ updates' = (IF o = Nobody \/ FromClippor(o) THEN updates ELSE Append(updates, s))
      /\ ctxs' = ctxs /\ cbCancel' = cbCancel
  BY DEF NewOffer, cvars, received
<1>2. offer' = [t \in Sels |-> IF t = s THEN (IF FromClippor(o) THEN Nobody ELSE o) ELSE offer[t]]
  BY <1>1 DEF ReceiveInv
<1>3. \A t \in Sels : ~IsOurs(offer'[t])
  BY <1>2, NobodyIsNotOurs DEF ReceiveInv, NoOwnOffer, FromClippor
<1>4. updates' \in Seq(Sels)
  BY <1>1 DEF ReceiveInv
<1>5. Contexts' /\ OneReceive' /\ CancellableIsLive' /\ NoOwnOffer'
  BY <1>1, <1>3 DEF ReceiveInv, Contexts, OneReceive, CancellableIsLive, NoOwnOffer
<1> QED BY <1>1, <1>2, <1>4, <1>5 DEF ReceiveInv

\* A step that changes no offer and no receive.
LEMMA OtherStep ==
    ASSUME ReceiveInv, UNCHANGED <<offer, ctxs, cbCancel>>, updates' \in Seq(Sels)
    PROVE  ReceiveInv'
BY DEF ReceiveInv, Contexts, OneReceive, CancellableIsLive, NoOwnOffer

\* A seat is removed: its selections have no offer any more.
LEMMA InertStep ==
    ASSUME ReceiveInv, UNCHANGED cvars, NEW t, MakeInert(t)
    PROVE  ReceiveInv'
<1>1. /\ offer' = [s \in Sels |-> IF SeatOf[s] = t THEN Nobody ELSE offer[s]]
      /\ updates' = updates /\ ctxs' = ctxs /\ cbCancel' = cbCancel
  BY DEF MakeInert, loop, cvars, received
<1>2. \A s \in Sels : ~IsOurs(offer'[s])
  BY <1>1, NobodyIsNotOurs DEF ReceiveInv, NoOwnOffer
<1> QED BY <1>1, <1>2 DEF ReceiveInv, Contexts, OneReceive, CancellableIsLive, NoOwnOffer

\* An update idle begins a receive, or does nothing, or reads too far.
LEMMA UpdateStep ==
    ASSUME ReceiveInv, NEW s \in Sels, Update(s)
    PROVE  ReceiveInv'
<1>1. offer' = offer
  BY DEF Update, selections
<1>2. updates' \in Seq(Sels)
  <2>1. updates # <<>> /\ updates' = Tail(updates) /\ updates \in Seq(Sels)
    BY DEF Update, TakeUpdate, ReceiveInv
  <2> QED BY <2>1
<1>3. ASSUME NEW list, NEW n, StartReceive(s, list, n) PROVE ReceiveInv'
  BY <1>1, <1>2, <1>3, StartStep
<1>4. ASSUME UNCHANGED <<ctxs, cbCancel>> PROVE ReceiveInv'
  BY <1>1, <1>2, <1>4, OtherStep
<1> QED BY <1>3, <1>4 DEF Update

-----------------------------------------------------------------------------
(* The invariant holds                                                       *)

LEMMA ReceiveStart == Init => ReceiveInv
<1> SUFFICES ASSUME Init PROVE ReceiveInv
  OBVIOUS
<1>1. offer = [s \in Sels |-> Nobody] /\ updates = <<>> /\ ctxs = {} /\ cbCancel = 0
  BY DEF Init, WInit
<1>2. Contexts
  BY <1>1, FS_EmptySet DEF Contexts
<1>3. OneReceive /\ CancellableIsLive /\ NoOwnOffer
  BY <1>1, NobodyIsNotOurs DEF OneReceive, CancellableIsLive, NoOwnOffer
<1> QED BY <1>1, <1>2, <1>3 DEF ReceiveInv

LEMMA ReceiveStep == ReceiveInv /\ [Next]_vars => ReceiveInv'
<1> SUFFICES ASSUME ReceiveInv, [Next]_vars PROVE ReceiveInv'
  OBVIOUS
<1>0. updates \in Seq(Sels)
  BY DEF ReceiveInv
<1>1. ASSUME StartLoop \/ LoadDatabase PROVE ReceiveInv'
  BY <1>0, <1>1, OtherStep DEF StartLoop, LoadDatabase, wvars, selections, loop
<1>10. ASSUME UpdateNext PROVE ReceiveInv'
  BY <1>0, <1>10, OtherStep DEF UpdateNext, loop, received
<1>11. ASSUME UpdatesDone PROVE ReceiveInv'
  BY <1>0, <1>11, OtherStep DEF UpdatesDone, wvars, selections, loop, received
<1>2. ASSUME Events, UNCHANGED cvars PROVE ReceiveInv'
  <2>1. ASSUME NEW s \in Sels, NEW o, NewOffer(s, o) PROVE ReceiveInv'
    BY <1>2, <2>1, OfferStep
  <2>2. ASSUME NEW s \in Sels, NEW o, Cancelled(s, o) PROVE ReceiveInv'
    BY <1>0, <1>2, <2>2, OtherStep DEF Cancelled, loop, cvars, received
  <2>3. ASSUME NEW t \in Seats, MakeInert(t) PROVE ReceiveInv'
    BY <1>2, <2>3, InertStep
  <2> QED BY <1>2, <2>1, <2>2, <2>3 DEF Events
<1>3. ASSUME NEW s \in Sels, Update(s) PROVE ReceiveInv'
  BY <1>3, UpdateStep
<1>4. ASSUME NEW s \in Sels, Own(s) PROVE ReceiveInv'
  BY <1>0, <1>4, OtherStep DEF Own, OwnIdle, cvars, received
<1>5. ASSUME NEW x \in ctxs, ReadFails(x) PROVE ReceiveInv'
  BY <1>5, BailStep DEF ReadFails, wvars, selections, loop
<1>6. ASSUME NEW x \in ctxs, NextMimeType(x) PROVE ReceiveInv'
  BY <1>6, NextStep
<1>7. ASSUME NEW x \in ctxs, Finish(x) PROVE ReceiveInv'
  BY <1>7, BailStep DEF Finish, wvars, selections, loop
<1>8. ASSUME Others, UNCHANGED cvars PROVE ReceiveInv'
  BY <1>0, <1>8, OtherStep DEF Others, Copy, Clear, RemoveSeat, selections, loop, cvars, received
<1>9. ASSUME UNCHANGED vars PROVE ReceiveInv'
  BY <1>0, <1>9, OtherStep DEF vars, wvars, selections, loop, cvars, received
<1> QED BY <1>1, <1>2, <1>3, <1>4, <1>5, <1>6, <1>7, <1>8, <1>9, <1>10, <1>11 DEF Next, Program

LEMMA ReceiveHolds == Spec => []ReceiveInv
BY ReceiveStart, ReceiveStep, PTL DEF Spec

-----------------------------------------------------------------------------
(* The theorems                                                              *)

\* Of all the receives that wait for their callback at most one has not been
\* cancelled, and its cancellable is the clipboard's, so that the next copy can
\* cancel it.
THEOREM ReceivesOneAtATime == Spec => []OneReceive
<1>1. ReceiveInv => OneReceive
  BY DEF ReceiveInv
<1> QED BY ReceiveHolds, <1>1, PTL

\* The cancellable of the clipboard always belongs to a receive that is still
\* going to answer, however late the callbacks of cancelled ones come.
THEOREM CancellableHasReceive == Spec => []CancellableIsLive
<1>1. ReceiveInv => CancellableIsLive
  BY DEF ReceiveInv
<1> QED BY ReceiveHolds, <1>1, PTL

\* The program never holds or reads an offer of its own, whatever events are on
\* their way when it takes a selection over.
THEOREM NeverReadsItself == Spec => []NoOwnOffer
<1>1. ReceiveInv => NoOwnOffer
  BY DEF ReceiveInv
<1> QED BY ReceiveHolds, <1>1, PTL

=============================================================================
